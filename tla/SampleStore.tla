----------------------------- MODULE SampleStore -----------------------------
(***************************************************************************)
(* What a muxer promises its caller: samples are appended one by one, the  *)
(* file is closed once, successfully or not, and after a success a reader  *)
(* of the file gets every appended sample by its number, and no other.     *)
(***************************************************************************)
EXTENDS Integers, Sequences

CONSTANTS
  SampleSizes,   \* sizes a sample may have
  MaxSamples     \* bound on the number of samples, for model checking

VARIABLES
  appended,    \* sizes of the samples taken so far; the i-th is sample i
  readable,    \* numbers of the samples a reader of the closed file gets
  status       \* "open", "closed" or "failed"

storeVars == <<appended, readable, status>>

StoreInit ==
  /\ appended = <<>>
  /\ readable = {}
  /\ status = "open"

Append1(size) ==
  /\ status = "open"
  /\ Len(appended) < MaxSamples
  /\ appended' = Append(appended, size)
  /\ UNCHANGED <<readable, status>>

Close ==
  /\ status = "open"
  /\ status' = "closed"
  /\ readable' = 1 .. Len(appended)
  /\ UNCHANGED appended

Fail ==
  /\ status = "open"
  /\ status' = "failed"
  /\ UNCHANGED <<appended, readable>>

StoreNext == (\E size \in SampleSizes : Append1(size)) \/ Close \/ Fail

StoreSpec == StoreInit /\ [][StoreNext]_storeVars
=============================================================================
