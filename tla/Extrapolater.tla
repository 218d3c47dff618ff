---------------------------- MODULE Extrapolater ----------------------------
(***************************************************************************)
(* The extrapolater (extrapolater.c) as the encode loop drives it: a       *)
(* reader that puts one predicted block before the source and one after    *)
(* it, so that the encoder's ramp-up and its final access unit hold no     *)
(* source material.  It double-buffers the source, one block ahead of its  *)
(* caller, and steps through four states, process0 to process3.            *)
(*                                                                         *)
(* Frames are data here.  A source frame is known by its number; what the  *)
(* linear predictor (lpc.c) makes is known by the frames it was made from  *)
(* and by how far it lies beyond them, never by its samples.               *)
(***************************************************************************)
EXTENDS SequencesExt, Integers

CONSTANTS
  FrameLength,   \* frames asked for by each pcm_read_frames() of encode()
  LpcSpan,       \* 2 * LPC_ORDER: fewest frames the predictor works from
  MaxFrames      \* bound on the length of the source, for model checking

ASSUME FrameLengthAssumption == FrameLength \in Nat \ {0}
ASSUME LpcSpanAssumption == LpcSpan \in 1 .. FrameLength
ASSUME MaxFramesAssumption == MaxFrames \in Nat

VARIABLES
  total,      \* frames the source yields before its end or its failure
  srcpos,     \* frames read from the source so far
  buffer,     \* the two buffers; a buffer's count is its length
  nbuffer,    \* the buffer the next fetch fills
  process,    \* the state function that serves the next read
  ibuf,       \* the block buffer of encode(), reused by every call
  count,      \* frames of ibuf filled by the current pcm_read_frames()
  nread,      \* result of the latest finished pcm_read_frames()
  delivered   \* history: every frame encode() was handed, in order

vars == <<total, srcpos, buffer, nbuffer, process, ibuf, count, nread, delivered>>

-----------------------------------------------------------------------------
(***************************************************************************)
(* Frames.                                                                 *)
(***************************************************************************)
Source(i) == [kind |-> "source", of |-> <<i>>, step |-> 0]
Silence == [kind |-> "silence", of |-> <<>>, step |-> 0]
Unwritten == [kind |-> "unwritten", of |-> <<>>, step |-> 0]

\* The k-th frame predicted forward from a run of source frames.
Predicted(basis, k) ==
  [kind |-> "predicted",
   of |-> [j \in 1 .. Len(basis) |-> basis[j].of[1]], step |-> k]

Frames(first, last) == [j \in 1 .. (last - first + 1) |-> Source(first + j - 1)]
Zeros(n) == [j \in 1 .. n |-> Silence]
LastOf(s, n) == SubSeq(s, Len(s) - n + 1, Len(s))
Lesser(a, b) == IF a < b THEN a ELSE b
Other(b) == 1 - b

-----------------------------------------------------------------------------
(***************************************************************************)
(* The predictor and the buffers.  A definition named X_... before X is X  *)
(* with a plausible slip in it: it shows which property notices the slip.  *)
(***************************************************************************)
TooShort(run) == Len(run) < LpcSpan

\* extrapolate(): n frames predicted forward from a run of frames, or the
\* memset() of its callers when the run is too short for the predictor.
Extrapolate(run, n) ==
  IF TooShort(run) THEN Zeros(n) ELSE [k \in 1 .. n |-> Predicted(run, k)]

Lead_ReversesOnce(first, n) == Extrapolate(Reverse(first), n)

\* process0() predicts backwards: forward over the reversed block, and the
\* outcome reversed again.
Lead(first, n) == Reverse(Extrapolate(Reverse(first), n))

\* What process1() leaves in the buffer of the final block: the block, or,
\* when it is too short to predict from and a block precedes it, as many
\* frames as that block has, taken from the end of the two together.
FinalRun_JoinsBackwards(before, final) ==
  IF TooShort(final) /\ before # <<>>
    THEN LastOf(final \o before, Len(before)) ELSE final

FinalRun(before, final) ==
  IF TooShort(final) /\ before # <<>>
    THEN LastOf(before \o final, Len(before)) ELSE final

\* pcm_read_frames() on the source, which ends (or fails) for good at total.
SourceBlock(n) == Frames(srcpos + 1, Lesser(srcpos + n, total))

\* fetch(): fill the next buffer and move on to the other one; at the end of
\* the source neither buffer nor nbuffer changes.
Fetch_KeepsBuffer(block) ==
  /\ buffer' = [buffer EXCEPT ![nbuffer] = block]
  /\ nbuffer' = nbuffer
  /\ srcpos' = srcpos + Len(block)

Fetch(block) ==
  /\ buffer' = IF block = <<>> THEN buffer ELSE [buffer EXCEPT ![nbuffer] = block]
  /\ nbuffer' = IF block = <<>> THEN nbuffer ELSE Other(nbuffer)
  /\ srcpos' = srcpos + Len(block)

-----------------------------------------------------------------------------
(***************************************************************************)
(* pcm_read_frames(reader, ibuf, FrameLength): read_frames() is called     *)
(* with the room that is left until the block is full or a call returns 0. *)
(* data is what the call copies into ibuf and n what it returns.           *)
(***************************************************************************)
Room == FrameLength - count

CallEnds(n) == n <= 0 \/ count + n = FrameLength

HandOver(data, n) ==
  LET filled == [k \in 1 .. FrameLength |->
                   IF k - count \in 1 .. Len(data) THEN data[k - count] ELSE ibuf[k]]
      ends == CallEnds(n)
  IN  /\ ibuf' = filled
      /\ count' = IF ends THEN 0 ELSE count + n
      /\ nread' = IF ends THEN count + n ELSE nread
      /\ delivered' = IF ends THEN delivered \o SubSeq(filled, 1, count + n)
                              ELSE delivered

-----------------------------------------------------------------------------
(***************************************************************************)
(* The four states.                                                        *)
(***************************************************************************)
LeadLength_OfBlock(block) == IF block = <<>> THEN Room ELSE Len(block)

\* What process0() returns, whatever it fetched.
LeadLength(block) == Room

\* process0(): fetch the first block and hand out the block before it.
Process0 ==
  /\ process = "process0"
  /\ LET block == SourceBlock(Room)
     IN  /\ HandOver(Lead(block, Room), LeadLength(block))
         /\ IF block # <<>>
              THEN Fetch(block) /\ process' = "process1"
              ELSE /\ buffer' = [buffer EXCEPT ![nbuffer] = Zeros(Room)]
                   /\ process' = "process2"
                   /\ UNCHANGED <<nbuffer, srcpos>>

\* process1(), with a further block in the source: hand out the block fetched
\* by the call before, fetch the next.
Process1Block ==
  /\ process = "process1"
  /\ srcpos < total
  /\ LET bp == buffer[Other(nbuffer)]
     IN  HandOver(bp, Len(bp))
  /\ Fetch(SourceBlock(Room))
  /\ UNCHANGED process

\* process1() at the end of the source: hand out the final block, and leave
\* its extrapolation in the other buffer.  The return value is the count of
\* the final run, which is more than was copied when the run was joined.
Process1End ==
  /\ process = "process1"
  /\ srcpos = total
  /\ LET bp == buffer[Other(nbuffer)]
         run == FinalRun(buffer[nbuffer], bp)
     IN  /\ HandOver(bp, Len(run))
         /\ buffer' = [buffer EXCEPT ![Other(nbuffer)] = run,
                                     ![nbuffer] = Extrapolate(run, Room)]
  /\ process' = "process2"
  /\ UNCHANGED <<nbuffer, srcpos>>

\* What process2() keeps of its buffer after handing out n frames.
Drained(run, n) == SubSeq(run, n + 1, Len(run))

\* process2(): drain the trailing block, in as many pieces as the caller asks.
Process2 ==
  /\ process = "process2"
  /\ LET run == buffer[nbuffer]
         n == Lesser(Len(run), Room)
     IN  /\ HandOver(SubSeq(run, 1, n), n)
         /\ buffer' = [buffer EXCEPT ![nbuffer] = Drained(run, n)]
         /\ process' = IF n = Len(run) THEN "process3" ELSE "process2"
  /\ UNCHANGED <<nbuffer, srcpos>>

\* process3(): nothing is left.
Process3 ==
  /\ process = "process3"
  /\ HandOver(<<>>, 0)
  /\ UNCHANGED <<process, buffer, nbuffer, srcpos>>

\* encode() pulls until it gets nothing, and then never again.
Read ==
  /\ nread > 0
  /\ Process0 \/ Process1Block \/ Process1End \/ Process2 \/ Process3
  /\ UNCHANGED total

Finished == nread = 0 /\ UNCHANGED vars

Init ==
  /\ total \in 0 .. MaxFrames
  /\ srcpos = 0
  /\ buffer = [b \in {0, 1} |-> <<>>]
  /\ nbuffer = 0
  /\ process = "process0"
  /\ ibuf = [k \in 1 .. FrameLength |-> Unwritten]
  /\ count = 0
  /\ nread = 1
  /\ delivered = <<>>

Next == Read \/ Finished

Spec == Init /\ [][Next]_vars /\ WF_vars(Read)

-----------------------------------------------------------------------------
(***************************************************************************)
(* Properties.                                                             *)
(***************************************************************************)
\* The assert of process1() (extrapolater.c:144): the block it is about to
\* copy never exceeds the room its caller still has, although the caller may
\* ask again for the rest of a block.
BlockFitsCaller ==
  process = "process1" => Len(buffer[Other(nbuffer)]) <= Room

\* The block that is handed out first is the mirror image of a prediction
\* from the first source frames, so that its last frame adjoins frame 1
\* (process0); it is silent when the source begins with too short a block.
LeadAdjoinsSource ==
  delivered # <<>> =>
    LET basis == Lesser(FrameLength, total)
    IN  \A k \in 1 .. FrameLength :
          IF basis < LpcSpan
            THEN delivered[k] = Silence
            ELSE delivered[k] = Predicted(Reverse(Frames(1, basis)), FrameLength + 1 - k)

\* The frames the chain delivers in all, with the excess of a joined block.
ChainLength ==
  LET rest == total % FrameLength
  IN  IF total > FrameLength /\ rest \in 1 .. (LpcSpan - 1)
        THEN total + 3 * FrameLength - rest
        ELSE total + 2 * FrameLength
=============================================================================
