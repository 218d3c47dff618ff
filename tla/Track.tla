-------------------------------- MODULE Track --------------------------------
(***************************************************************************)
(* The audio track of the output file, as far as both halves of m4af.c     *)
(* speak of it: M4afMux, which puts its samples into the file, and         *)
(* BoxWriters, which describes them in moov.                               *)
(***************************************************************************)
EXTENDS SequencesExt, Integers

CONSTANTS
  SampleSizes,    \* sizes of an access unit, in cells or bytes
  MaxSamples,     \* bound on the number of samples, for model checking
  FrameDuration,  \* track->frame_duration, the duration of every sample
  Timescale,      \* track->timescale, which is that of the movie too
  Limit           \* UINT32_MAX

ASSUME SampleSizesAssumption == SampleSizes \subseteq Nat /\ MaxSamples \in Nat
ASSUME DurationAssumption == FrameDuration \in Nat \ {0} /\ Timescale \in Nat \ {0}
ASSUME LimitAssumption == Limit \in Nat \ {0}

\* Sums(s)[i] is the sum of the first i elements of s.
Sums(s) ==
  LET sum[i \in 0 .. Len(s)] == IF i = 0 THEN 0 ELSE sum[i - 1] + s[i]
  IN  sum
=============================================================================
