---------------------------- MODULE MCBoxWriters ----------------------------
(***************************************************************************)
(* BoxWriters with samples of 250 ticks at 1100 a second and 32-bit fields *)
(* that end at 1200: the fifth sample makes durations long, or the sixth   *)
(* if the delay is taken off; five samples make a second, a chunk holds    *)
(* two; delays and paddings are none or odd.                               *)
(***************************************************************************)
EXTENDS BoxWriters

\* Small and large time stamps and configurations with either shift.
Setting(mode, shift, stamp, asc) ==
  [mode |-> mode, shift |-> shift, stamp |-> stamp, asc |-> asc,
   is_vbr |-> asc = 2, wide |-> FALSE]
SomeSettings ==
  UNION {{Setting(mode, 0, 0, 7), Setting(mode, 1, 0, 2), Setting(mode, 1, 1500, 7)} :
           mode \in 1 .. 3}

Short(n) == [name |-> 0, size |-> n, value |-> 0]
LongTag(n, m) == [name |-> n, size |-> m, value |-> 0]
SomeTags == {<<>>, <<Short(1), LongTag(4, 9)>>}
SomePrimings == {<<0, 0>>, <<201, 0>>, <<201, 251>>}
=============================================================================
