------------------------------ MODULE Pipeline ------------------------------
(***************************************************************************)
(* The encode loop (main.c) over the extrapolater (extrapolater.c), as     *)
(* main() puts them together for AAC-LC and HE-AAC.  EncodeLoop knows its  *)
(* reader only by the counts of PcmReader; here the reader is the          *)
(* extrapolater itself, call by call, and a frame is the frame it is.  So  *)
(* one can ask what a listener hears: which frame of the source, of a      *)
(* prediction or of silence stands at each place of the decoded file.      *)
(*                                                                         *)
(* The loop's own variables are those of EncodeLoop; what it knows of its  *)
(* reader is read off the extrapolater's state.                            *)
(***************************************************************************)
EXTENDS Extrapolater

CONSTANTS
  Profile,     \* params.profile, the audio object type
  Delay,       \* aacinfo.nDelay: zeros the encoder needs to be drained
  CoreDelay,   \* aacinfo.nDelayCore: the delay declared in the file
  Wrap         \* 2^32: padding is a uint32_t

VARIABLES
  pc, interrupted, remaining, fill, zeros, units, obuf, flip, encoded, out,
  padding, result   \* as in EncodeLoop

loopVars == <<pc, interrupted, remaining, fill, zeros, units, obuf, flip,
              encoded, out, padding, result>>
pipelineVars == <<vars, loopVars>>

\* open_input() puts the extrapolater on top for AAC-LC, HE-AAC and HE-AACv2,
\* and main() tells encode() to expect it.
do_smart_padding(aot) == aot \in {2, 5, 29}

ASSUME PipelineAssumption ==
  /\ do_smart_padding(Profile)
  /\ Delay \in Nat
  /\ CoreDelay \in FrameLength .. Delay
  /\ Wrap \in Nat /\ Delay + 3 * FrameLength < Wrap

\* A read that fails shows as a block of no frames, never as a negative one.
Failed == nread < 0

Loop ==
  INSTANCE EncodeLoop WITH smart <- do_smart_padding(Profile), failed <- Failed,
                           length <- ChainLength,
                           pulled <- Len(delivered), pos <- srcpos

-----------------------------------------------------------------------------
PipelineInit ==
  /\ Init
  /\ pc = "top"
  /\ interrupted = FALSE
  /\ remaining = 0
  /\ fill = 0
  /\ zeros = 0
  /\ units = 0
  /\ obuf = [b \in {0, 1} |-> Loop!Empty]
  /\ flip = 0
  /\ encoded = 0
  /\ out = <<>>
  /\ padding = -1
  /\ result = -1

\* One read_frames() of the extrapolater within pcm_read_frames(); the loop
\* goes on when the block is full or nothing more comes.
Pull ==
  /\ pc = "read"
  /\ Read
  /\ pc' = IF count' = 0 THEN "offer" ELSE "read"
  /\ UNCHANGED <<interrupted, remaining, fill, zeros, units, obuf, flip,
                 encoded, out, padding, result>>

\* The top of the loop sets nread and nothing else of the reader's.
Check ==
  /\ UNCHANGED <<total, srcpos, buffer, nbuffer, process, ibuf, count, delivered>>
  /\ Loop!CheckInterrupted

\* Every other step of the loop leaves the reader alone.
LoopStep ==
  /\ UNCHANGED vars
  /\ \/ Loop!OfferBlock
     \/ Loop!EncodeBuffers
     \/ Loop!EncodeUnit
     \/ Loop!FlushUnit
     \/ Loop!FlushEnds
     \/ Loop!EncodeFails
     \/ Loop!Done
     \/ Loop!Finalize

Signal == UNCHANGED vars /\ Loop!Signal
Ended == UNCHANGED vars /\ Loop!Ended

PipelineStep == Pull \/ Check \/ LoopStep

PipelineNext == PipelineStep \/ Signal \/ Ended

PipelineSpec == PipelineInit /\ [][PipelineNext]_pipelineVars /\ WF_pipelineVars(PipelineStep)

-----------------------------------------------------------------------------
(***************************************************************************)
(* What a listener hears.  A decoder's output lags CoreDelay behind the    *)
(* encoder's input: unit u decodes to places (u-1)*FrameLength + 1 ..      *)
(* u*FrameLength of that output, and the file's units to one stretch after *)
(* the other.                                                              *)
(***************************************************************************)
UnitAt(p) == out[(p - 1) \div FrameLength + 1]

Heard(p) ==
  LET q == (UnitAt(p) - 1) * FrameLength + ((p - 1) % FrameLength) + 1 - CoreDelay
  IN  IF q \in 1 .. Len(delivered) THEN delivered[q] ELSE Silence

\* The place in the file where a player that skips the declared delay looks
\* for frame i of the source, and whether there is a unit to look into.
Place(i) == CoreDelay + i
InFile(i) == Place(i) <= Len(out) * FrameLength /\ UnitAt(Place(i)) # Loop!Empty

-----------------------------------------------------------------------------
(***************************************************************************)
(* Properties.                                                             *)
(***************************************************************************)
\* A player that skips the declared delay hears the source, frame for frame:
\* the extrapolater's blocks, its two buffers, its parted calls, the encoder's
\* delay and the two dropped units together shift nothing, repeat nothing and
\* put nothing made up into it.  After an interruption that is so for every
\* frame the loop was handed and the file has room for; in a completed file
\* every frame of the source has its place (main.c:537-597, extrapolater.c).
PlayedIsSource ==
  result = 0 =>
    /\ \A i \in 1 .. Lesser(total, Len(delivered) - FrameLength) :
         InFile(i) => Heard(Place(i)) = Source(i)
    /\ ~interrupted => \A i \in 1 .. total : InFile(i) /\ Heard(Place(i)) = Source(i)

\* Once the reader has handed out everything, the stream ends with a whole
\* block of prediction, in order, from a run of at least LpcSpan frames that
\* ends in the very last source frame, even when the final block is too short
\* and is joined with the one before it; it is silent only when the whole
\* source is too short (process1, process2).
TailContinuesSource ==
  process = "process3" /\ count = 0 =>
    LET tail == LastOf(delivered, FrameLength)
    IN  IF total < LpcSpan
          THEN tail = Zeros(FrameLength)
          ELSE \E n \in LpcSpan .. Lesser(FrameLength, total) :
                 \A k \in 1 .. FrameLength :
                   tail[k] = Predicted(Frames(total - n + 1, total), k)

\* The initial states and the steps of the loop over the extrapolater are those
\* of the loop over the contract.
RefinesLoop == Loop!Start /\ [][Loop!Run]_(Loop!vars)

\* The loop over the extrapolater is the loop over the contract: what
\* EncodeLoop says and EncodeLoopProofs proves of counts of frames is so of
\* the program that moves the frames, calls in parts and signals between them;
\* and it ends, although every block may take several calls.
ImplementsLoop == RefinesLoop /\ Loop!Terminates
=============================================================================
