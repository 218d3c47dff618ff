------------------------------ MODULE PcmReader ------------------------------
(***************************************************************************)
(* What the encode loop may rely on when it pulls blocks of frames out of  *)
(* the reader chain that open_input() builds (main.c): the contract of     *)
(* pcm_read_frames() and pcm_get_position() on the outermost reader.       *)
(*                                                                         *)
(* Only counts of frames appear.  A plain chain delivers exactly the       *)
(* frames of its source.  A chain that ends in the extrapolater delivers   *)
(* one made-up block before and one after them, and its position runs one  *)
(* block ahead of what it has delivered, because it reads its source       *)
(* before it hands out the previous block.                                 *)
(***************************************************************************)
EXTENDS Integers

CONSTANTS
  FrameLength,   \* frames the encoder takes per access unit (frame_length)
  MaxFrames      \* bound on the length of the source, for model checking

ASSUME FrameLengthAssumption == FrameLength \in Nat \ {0}
ASSUME MaxFramesAssumption == MaxFrames \in Nat

VARIABLES
  smart,    \* the chain ends in the extrapolater (do_smart_padding)
  total,    \* frames the source yields before it ends or fails
  failed,   \* the source then fails instead of ending
  length,   \* frames the chain delivers in all
  pulled,   \* frames delivered so far
  pos,      \* pcm_get_position(reader): frames read from the source
  nread     \* result of the latest pcm_read_frames()

readerVars == <<smart, total, failed, length, pulled, pos, nread>>

Lesser(a, b) == IF a < b THEN a ELSE b

\* The lengths a chain over n frames may have.  The extrapolater adds two
\* blocks; when its last block is too short to predict from, it also claims
\* the rest of that block (extrapolater.c:162), so that it may deliver up to
\* one block more.
ChainLengths(padding, n) ==
  IF padding THEN (n + 2 * FrameLength) .. (n + 3 * FrameLength - 1) ELSE {n}

(***************************************************************************)
(* encode() starts with nread = 1, which only means "not ended".           *)
(***************************************************************************)
Init ==
  /\ smart \in BOOLEAN
  /\ total \in 0 .. MaxFrames
  /\ failed \in BOOLEAN
  /\ length \in ChainLengths(smart, total)
  /\ pulled = 0
  /\ pos = 0
  /\ nread = 1

Answer_WholeBlock ==
  IF pulled < length THEN FrameLength ELSE IF failed THEN -1 ELSE 0

\* What the reader's own read_frames() answers: frames as long as there are
\* any, then 0, or a negative value when the source failed.
Answer ==
  IF pulled < length THEN Lesser(FrameLength, length - pulled)
                     ELSE IF failed THEN -1 ELSE 0

\* What pcm_read_frames() makes of an answer: the number of frames read, so
\* that a failure is no different from the end.
Counted(answer) == IF answer > 0 THEN answer ELSE 0

\* One pcm_read_frames(reader, ibuf, frame_length): a full block unless the
\* chain is exhausted.
ReadFrames ==
  /\ nread > 0
  /\ nread' = Counted(Answer)
  /\ pulled' = pulled + nread'
  /\ pos' = Lesser(total, pulled')
  /\ UNCHANGED <<smart, total, failed, length>>

Next == ReadFrames

Spec == Init /\ [][Next]_readerVars

-----------------------------------------------------------------------------
\* The types of the reader's counters, and the position staying inside the
\* source and never behind what the caller was given of it.
TypeOK ==
  /\ smart \in BOOLEAN
  /\ total \in 0 .. MaxFrames
  /\ failed \in BOOLEAN
  /\ length \in ChainLengths(smart, total)
  /\ pulled \in 0 .. length
  /\ pos = Lesser(total, pulled)
  /\ nread \in 0 .. FrameLength
=============================================================================
