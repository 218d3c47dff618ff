----------------------------- MODULE EncodeLoop -----------------------------
(***************************************************************************)
(* The encode loop of main.c and what main() makes of its outcome: pull a  *)
(* block from the reader chain, feed it to the encoder, write the access   *)
(* units the encoder returns, and declare at the end how many decoded      *)
(* frames are delay and how many are padding.                              *)
(*                                                                         *)
(* With smart padding (AAC-LC, HE-AAC, HE-AACv2) the second access unit    *)
(* and the last one are made of extrapolated frames only, and the loop     *)
(* drops them: it writes one unit behind the encoder from two buffers.     *)
(* A signal may set g_interrupted between any two steps.                   *)
(*                                                                         *)
(* The reader chain is PcmReader; the encoder is libfdk-aac, outside this  *)
(* repository, and is modelled from how aacenc.c and main.c use it: it     *)
(* buffers what it is offered up to one block, returns an access unit per  *)
(* full block, and once told that the input has ended (numInSamples = -1)  *)
(* feeds itself zeros until the whole input has left its delay line.       *)
(***************************************************************************)
EXTENDS PcmReader, Sequences

CONSTANTS
  Delay,       \* aacinfo.nDelay: zeros the encoder needs to be drained
  CoreDelay,   \* aacinfo.nDelayCore: the delay declared in the file
  Wrap         \* 2^32: padding is a uint32_t

ASSUME DelayAssumption ==
  /\ Delay \in Nat
  /\ CoreDelay \in Nat
  /\ FrameLength <= CoreDelay
  /\ CoreDelay <= Delay
ASSUME WrapAssumption == Wrap \in Nat /\ Delay + 3 * FrameLength < Wrap

VARIABLES
  pc,           \* where the loop stands
  interrupted,  \* g_interrupted, set by signal_handler()
  remaining,    \* frames of ibuf not yet offered to the encoder
  fill,         \* encoder: frames buffered towards the next access unit
  zeros,        \* encoder: zero frames appended since the end of input
  units,        \* encoder: access units returned so far
  obuf,         \* the two output buffers: number of the unit held, 0 if empty
  flip,         \* the output buffer the next access unit goes to
  encoded,      \* access units counted for the smart padding
  out,          \* the output: the units written, 0 for an empty sample
  padding,      \* padding declared in the file, -1 before it is
  result        \* exit status of main(), -1 while it runs

encoderVars == <<fill, zeros, units>>
outputVars == <<obuf, flip, encoded, out>>
vars == <<readerVars, pc, interrupted, remaining, encoderVars,
          outputVars, padding, result>>

frames_written == Len(out)
Empty == 0

-----------------------------------------------------------------------------
(***************************************************************************)
(* Pieces of the loop.  A definition named X_... before X is X with a      *)
(* plausible slip in it: it shows which property notices the slip.         *)
(***************************************************************************)
Discarded_Third(n) == n = 1

\* The access units after which nothing is written: with the output one unit
\* behind, the first leaves nothing to write and the third drops the second.
Discarded(n) == n = 1 \/ n = 3

Toggled_Never == flip

\* flip ^= 1, for smart padding only.
Toggled == IF smart THEN 1 - flip ELSE flip

\* write_sample(): append the content of an output buffer to the file.
Written(b) == Append(out, b)

\* The encoder's whole input has left its delay line.
Drained == zeros >= Delay

-----------------------------------------------------------------------------
(***************************************************************************)
(* The loop.                                                               *)
(***************************************************************************)
Start ==
  /\ Init
  /\ pc = "top"
  /\ interrupted = FALSE
  /\ remaining = 0
  /\ fill = 0
  /\ zeros = 0
  /\ units = 0
  /\ obuf = [b \in {0, 1} |-> Empty]
  /\ flip = 0
  /\ encoded = 0
  /\ out = <<>>
  /\ padding = -1
  /\ result = -1

\* signal_handler(), from handle_signals() on and until main() returns.
Signal ==
  /\ result = -1
  /\ ~interrupted
  /\ interrupted' = TRUE
  /\ UNCHANGED <<readerVars, pc, remaining, encoderVars, outputVars,
                 padding, result>>

CheckInterrupted_Never ==
  /\ pc = "top"
  /\ pc' = IF nread > 0 THEN "read" ELSE "offer"
  /\ UNCHANGED <<readerVars, interrupted, remaining, encoderVars, outputVars,
                 padding, result>>

\* Top of the for loop: an interruption counts as the end of the input.
CheckInterrupted ==
  /\ pc = "top"
  /\ nread' = IF interrupted THEN 0 ELSE nread
  /\ pc' = IF nread' > 0 THEN "read" ELSE "offer"
  /\ UNCHANGED <<smart, total, failed, length, pulled, pos, interrupted, remaining,
                  encoderVars, outputVars, padding, result>>

\* Pull a block; a negative result would end encode() with -1.
PullBlock ==
  /\ pc = "read"
  /\ ReadFrames
  /\ pc' = IF nread' < 0 THEN "end" ELSE "offer"
  /\ result' = IF nread' < 0 THEN 2 ELSE result
  /\ UNCHANGED <<interrupted, remaining, encoderVars, outputVars, padding>>

\* ip = ibuf; remaining = nread.
OfferBlock ==
  /\ pc = "offer"
  /\ remaining' = nread
  /\ pc' = "encode"
  /\ UNCHANGED <<readerVars, interrupted, encoderVars, outputVars,
                 padding, result>>

\* aac_encode_frame() with input left: the encoder takes what it has room for.
Taken == Lesser(remaining, FrameLength - fill)

EncodeBuffers_Ends ==
  /\ pc = "encode"
  /\ remaining > 0
  /\ fill + Taken < FrameLength
  /\ fill' = fill + Taken
  /\ obuf' = [obuf EXCEPT ![flip] = Empty]
  /\ pc' = "done"
  /\ UNCHANGED <<readerVars, interrupted, remaining, zeros, units, flip,
                 encoded, out, padding, result>>

\* It returns no access unit, and the loop leaves the do block.
EncodeBuffers ==
  /\ pc = "encode"
  /\ remaining > 0
  /\ fill + Taken < FrameLength
  /\ fill' = fill + Taken
  /\ obuf' = [obuf EXCEPT ![flip] = Empty]
  /\ pc' = "top"
  /\ UNCHANGED <<readerVars, interrupted, remaining, zeros, units, flip,
                 encoded, out, padding, result>>

\* An access unit was returned into obuf[flip]: what the rest of the do block
\* does with it.  write_sample() may fail, and then encode() returns -1.
TakeUnit ==
  LET filled == [obuf EXCEPT ![flip] = units']
      skip == smart /\ Discarded(encoded + 1)
  IN  /\ obuf' = filled
      /\ flip' = Toggled
      /\ encoded' = IF smart THEN encoded + 1 ELSE encoded
      /\ \/ /\ out' = IF skip THEN out ELSE Written(filled[flip'])
            /\ pc' = IF remaining' > 0 THEN "encode" ELSE "top"
            /\ result' = result
         \/ /\ ~skip
            /\ out' = out
            /\ pc' = "end"
            /\ result' = 2

\* aac_encode_frame() with input left completes a block.
EncodeUnit ==
  /\ pc = "encode"
  /\ remaining > 0
  /\ fill + Taken = FrameLength
  /\ fill' = 0
  /\ zeros' = zeros
  /\ units' = units + 1
  /\ remaining' = remaining - Taken
  /\ TakeUnit
  /\ UNCHANGED <<readerVars, interrupted, padding>>

\* aac_encode_frame() without input: the encoder completes its block with
\* zeros as long as its delay line holds something of the input.
FlushUnit ==
  /\ pc = "encode"
  /\ remaining = 0
  /\ ~Drained
  /\ zeros' = zeros + FrameLength - fill
  /\ fill' = 0
  /\ units' = units + 1
  /\ remaining' = remaining
  /\ TakeUnit
  /\ UNCHANGED <<readerVars, interrupted, padding>>

FlushEnds_Breaks ==
  /\ pc = "encode"
  /\ remaining = 0
  /\ Drained
  /\ obuf' = [obuf EXCEPT ![flip] = Empty]
  /\ pc' = "top"
  /\ UNCHANGED <<readerVars, interrupted, remaining, encoderVars, flip,
                 encoded, out, padding, result>>

FlushEnds_KeepsSize ==
  /\ pc = "encode"
  /\ remaining = 0
  /\ Drained
  /\ pc' = "done"
  /\ UNCHANGED <<readerVars, interrupted, remaining, encoderVars, outputVars,
                 padding, result>>

\* aac_encode_frame() without input after that: AACENC_ENCODE_EOF, no output.
FlushEnds ==
  /\ pc = "encode"
  /\ remaining = 0
  /\ Drained
  /\ obuf' = [obuf EXCEPT ![flip] = Empty]
  /\ pc' = "done"
  /\ UNCHANGED <<readerVars, interrupted, remaining, encoderVars, flip,
                 encoded, out, padding, result>>

\* aac_encode_frame() fails: encode() returns -1 and main() exits with 2.
EncodeFails ==
  /\ pc = "encode"
  /\ pc' = "end"
  /\ result' = 2
  /\ UNCHANGED <<readerVars, interrupted, remaining, encoderVars,
                 outputVars, padding>>

\* DONE: after an interruption write the outcome that is held back.  obp is
\* &obuf[flip], so that obp[flip ^ 1] is obuf[1] whatever flip is.
Done ==
  /\ pc = "done"
  /\ \/ /\ out' = IF interrupted THEN Written(obuf[1]) ELSE out
        /\ pc' = "finalize"
        /\ result' = result
     \/ /\ interrupted
        /\ out' = out
        /\ pc' = "end"
        /\ result' = 2
  /\ UNCHANGED <<readerVars, interrupted, remaining, encoderVars, obuf,
                 flip, encoded, padding>>

Declared_LessDelay == frames_written * FrameLength - pos - Delay

\* main(): what is left of the written units after the delay and the source.
Declared == frames_written * FrameLength - pos - CoreDelay

\* main(): declare delay and padding, then finalize the file.
Finalize ==
  /\ pc = "finalize"
  /\ padding' = Declared % Wrap
  /\ pc' = "end"
  /\ result' \in {0, 2}
  /\ UNCHANGED <<readerVars, interrupted, remaining, encoderVars,
                 outputVars>>

Ended == pc = "end" /\ UNCHANGED vars

Step ==
  \/ CheckInterrupted \/ PullBlock \/ OfferBlock
  \/ EncodeBuffers \/ EncodeUnit \/ FlushUnit \/ FlushEnds \/ EncodeFails
  \/ Done \/ Finalize

Run == Step \/ Signal \/ Ended

LoopSpec == Start /\ [][Run]_vars /\ WF_vars(Step)

-----------------------------------------------------------------------------
(***************************************************************************)
(* Properties.                                                             *)
(***************************************************************************)
\* Every variable has its type.
LoopTypeOK ==
  /\ TypeOK
  /\ pc \in {"top", "read", "offer", "encode", "done", "finalize", "end"}
  /\ interrupted \in BOOLEAN
  /\ remaining \in 0 .. FrameLength
  /\ fill \in 0 .. (FrameLength - 1)
  /\ zeros \in 0 .. (Delay + FrameLength - 1)
  /\ units \in Nat
  /\ obuf \in [{0, 1} -> Nat]
  /\ flip \in {0, 1}
  /\ encoded \in Nat
  /\ out \in Seq(Nat)
  /\ padding \in Int
  /\ result \in {-1, 0, 2}

\* The units a run that returned n of them should have written while it is
\* one unit behind: all but the second and the latest.
Promised(n) ==
  IF smart
    THEN [k \in 1 .. (IF n < 3 THEN (IF n < 2 THEN 0 ELSE 1) ELSE n - 2) |->
            IF k = 1 THEN 1 ELSE k + 1]
    ELSE [k \in 1 .. n |-> k]

\* Up to the point where an interruption is dealt with, the file holds every
\* access unit the encoder returned, once and in order, but the second and
\* the latest of a smart-padded stream, although they pass through two
\* buffers that are overwritten alternately (encode()).  The step that fails
\* to write may leave one out.
OutputAsPromised == pc # "end" /\ ~interrupted => out = Promised(units)

\* Whatever the interruption, no unit reaches the file twice or after a later
\* one (empty samples aside).
NeverTwiceNorBack ==
  \A i, j \in 1 .. Len(out) : i < j /\ out[j] # Empty => out[i] < out[j]

\* Frame j of a stream of blocks falls into block k.
Covers(k, j) == (k - 1) * FrameLength < j /\ j <= k * FrameLength

\* Frames of the encoder's input before the first one of the source.
LeadFrames == IF smart THEN FrameLength ELSE 0

Completed == result = 0 /\ ~interrupted

\* A decoder's output lags CoreDelay behind the encoder's input.  A player
\* that skips the declared delay thus looks for source frame i at frame
\* CoreDelay + i of what the file decodes to, and it finds it there: the k-th
\* unit of the file is the unit of the encoder that frame comes out of.
\* Dropping the second unit makes up for exactly the block put before the
\* source, and the last source frame is in a unit that was written (the
\* reason for the two drops, main.c:561-568).
SourceWherePlayed ==
  Completed =>
    \A i \in 1 .. total :
      \E k \in 1 .. Len(out) :
        /\ Covers(k, CoreDelay + i)
        /\ Covers(out[k], LeadFrames + CoreDelay + i)

\* Delay, source and padding add up to the frames in the file, in integers:
\* the uint32_t subtraction of main() does not wrap (README:151-155, these
\* values are mandatory for gapless playback).
PaddingAddsUp ==
  Completed => CoreDelay + total + padding = Len(out) * FrameLength

\* main() finalizes no file without a sample, whatever the source and however
\* early the interruption: m4af_write_stco_box() and its like index the last
\* chunk without asking whether there is one (m4af.c:700).
FileNeverEmpty == pc = "finalize" => out # <<>>

\* The strengthening of the above that every step preserves: what the two
\* buffers and the counters hold between the calls of the encoder, and where
\* every frame that was pulled is, in a unit, in the encoder or still in ibuf.
Unoffered ==
  IF pc = "offer" THEN nread ELSE IF pc = "encode" THEN remaining ELSE 0

BuffersInStep ==
  pc # "end" =>
    IF smart THEN /\ encoded = units
                  /\ units > 0 => obuf[1 - flip] = units
             ELSE encoded = 0 /\ flip = 0

OutputSoFar ==
  /\ pc \notin {"finalize", "end"} => out = Promised(units)
  /\ pc = "finalize" /\ ~interrupted => out = Promised(units)

FramesAccounted ==
  /\ pc # "end" => units * FrameLength + fill = pulled - Unoffered + zeros
  /\ zeros > 0 => nread = 0 /\ fill = 0 /\ pc # "read"
  /\ pc = "encode" /\ (zeros > 0 \/ remaining = 0) => remaining = 0 /\ nread = 0
  /\ pc \in {"done", "finalize"} => zeros >= Delay
  /\ nread = 0 /\ ~interrupted => pulled = length
  /\ pc = "read" => nread > 0

EmptiedBuffers ==
  pc # "end" => /\ pc = "done" => obuf[flip] = Empty
                /\ ~smart \/ units = 0 => obuf[1] = Empty

ExitStatus == pc = "end" <=> result # -1

LoopInv ==
  /\ LoopTypeOK
  /\ ExitStatus
  /\ BuffersInStep
  /\ EmptiedBuffers
  /\ OutputSoFar
  /\ FramesAccounted

\* Once interrupted, the loop pulls at most the one block it may be about to
\* pull, and the source is left alone from there on.
InterruptStopsReading ==
  [][interrupted /\ pc # "read" => pc' # "read"]_vars

\* The loop ends, whatever is interrupted or fails.
Terminates == <>(pc = "end")

\* The comment at main.c:580-583: when interrupted, "we have to write the
\* final outcome", the unit that is held back.
FinalOutcomeWritten ==
  interrupted /\ smart /\ pc = "finalize" /\ units > 0 => units = out[Len(out)]

\* ChangeLog:127, "fix incorrect iTunSMPB written when interrupted by
\* signals": the padding that goes into it is not negative.
InterruptedPaddingFits ==
  interrupted /\ result = 0 => padding = Declared
=============================================================================
