-------------------------- MODULE EncodeLoopProofs --------------------------
(***************************************************************************)
(* What the encode loop does for every block length, delay and source      *)
(* length: proofs about EncodeLoop.                                        *)
(***************************************************************************)
EXTENDS EncodeLoop, TLAPS

\* The loop without its fairness: safety needs no more, and a program that is
\* shown to take the steps of the loop takes over what follows from them.
LoopSteps == Start /\ [][Run]_vars

\* The units promised after one more unit: in smart padding nothing changes
\* with the first and the third, otherwise the unit before it is added.
LEMMA PromisedNext ==
  ASSUME NEW n \in Nat, smart \in BOOLEAN
  PROVE  /\ Promised(n) \in Seq(Nat)
         /\ Len(Promised(n)) = IF ~smart THEN n ELSE
                                 IF n = 0 \/ n = 1 THEN 0 ELSE
                                   IF n = 2 THEN 1 ELSE n - 2
         /\ smart /\ Discarded(n + 1) => Promised(n + 1) = Promised(n)
         /\ smart /\ ~Discarded(n + 1) => Promised(n + 1) = Append(Promised(n), n)
         /\ ~smart => Promised(n + 1) = Append(Promised(n), n + 1)
<1>1. CASE ~smart
  BY <1>1 DEF Promised, Discarded
<1>2. CASE smart
  <2>1. CASE n = 0
    BY <1>2, <2>1 DEF Promised, Discarded
  <2>2. CASE n = 1
    BY <1>2, <2>2 DEF Promised, Discarded
  <2>3. CASE n = 2
    BY <1>2, <2>3 DEF Promised, Discarded
  <2>4. CASE n > 2
    BY <1>2, <2>4 DEF Promised, Discarded
  <2> QED
    BY <2>1, <2>2, <2>3, <2>4
<1> QED
  BY <1>1, <1>2

\* The smaller of two numbers.
LEMMA LesserOf ==
  ASSUME NEW a \in Int, NEW b \in Int
  PROVE  /\ Lesser(a, b) \in {a, b}
         /\ Lesser(a, b) <= a
         /\ Lesser(a, b) <= b
  BY DEF Lesser

-----------------------------------------------------------------------------
(***************************************************************************)
(* Types.                                                                  *)
(***************************************************************************)
\* One pcm_read_frames() keeps the reader's counters in range.
LEMMA ReadFramesTypes ==
  ASSUME TypeOK, ReadFrames
  PROVE  TypeOK' /\ nread' \in 0 .. FrameLength
<1> USE FrameLengthAssumption
<1>1. /\ length \in Nat /\ total \in Nat /\ pulled \in Nat
      /\ pulled <= length
  BY MaxFramesAssumption DEF TypeOK, ChainLengths
<1>2. Counted(Answer) \in 0 .. FrameLength /\ pulled + Counted(Answer) <= length
  BY <1>1 DEF Counted, Answer, Lesser
<1>3. nread' \in 0 .. FrameLength /\ pulled' \in 0 .. length
  BY <1>1, <1>2 DEF ReadFrames
<1> QED
  BY <1>3 DEF TypeOK, ReadFrames

\* Writing a unit keeps the output a sequence of units and makes it longer.
LEMMA WrittenType ==
  ASSUME out \in Seq(Nat), NEW u \in Nat
  PROVE  /\ Written(u) \in Seq(Nat)
         /\ Len(Written(u)) = Len(out) + 1
         /\ Written(u)[Len(out) + 1] = u
         /\ \A k \in 1 .. Len(out) : Written(u)[k] = out[k]
  BY DEF Written

\* Taking an access unit keeps the output variables in range.
LEMMA TakeUnitTypes ==
  ASSUME LoopTypeOK, units' \in Nat, TakeUnit
  PROVE  /\ obuf' \in [{0, 1} -> Nat] /\ flip' \in {0, 1}
         /\ encoded' \in Nat /\ out' \in Seq(Nat)
         /\ pc' \in {"encode", "top", "end"}
         /\ result' \in {result, 2}
<1>1. obuf' \in [{0, 1} -> Nat]
  BY DEF LoopTypeOK, TakeUnit
<1>2. flip' \in {0, 1} /\ encoded' \in Nat
  BY DEF LoopTypeOK, TakeUnit, Toggled
<1>3. out' \in Seq(Nat)
  <2>1. obuf'[flip'] \in Nat
    BY <1>1, <1>2
  <2>2. out' = out \/ out' = Written(obuf'[flip'])
    BY DEF TakeUnit
  <2> QED
    BY <2>1, <2>2, WrittenType DEF LoopTypeOK
<1>4. pc' \in {"encode", "top", "end"} /\ result' \in {result, 2}
  BY DEF TakeUnit
<1> QED
  BY <1>1, <1>2, <1>3, <1>4

\* The type invariant of the encode loop (LoopTypeOK), for every block
\* length, delay and source length.
LEMMA LoopTypesKept == LoopSteps => []LoopTypeOK
<1> USE FrameLengthAssumption, MaxFramesAssumption, DelayAssumption, WrapAssumption
<1>1. Start => LoopTypeOK
  <2> SUFFICES ASSUME Start PROVE LoopTypeOK
    OBVIOUS
  <2>1. TypeOK
    BY DEF Start, Init, TypeOK, ChainLengths, Lesser
  <2> QED
    <3>1. out \in Seq(Nat) /\ obuf \in [{0, 1} -> Nat]
      BY DEF Start, Empty
    <3> QED
      BY <2>1, <3>1 DEF Start, LoopTypeOK
<1>2. LoopTypeOK /\ [Run]_vars => LoopTypeOK'
  <2> SUFFICES ASSUME LoopTypeOK, [Run]_vars PROVE LoopTypeOK'
    OBVIOUS
  <2>0. readerVars' = readerVars => TypeOK'
    BY DEF readerVars, LoopTypeOK, TypeOK
  <2>1. CASE Signal
    BY <2>0, <2>1 DEF Signal, LoopTypeOK, encoderVars, outputVars
  <2>2. CASE CheckInterrupted
    <3>1. TypeOK'
      BY <2>2 DEF CheckInterrupted, LoopTypeOK, TypeOK
    <3> QED
      BY <2>2, <3>1 DEF CheckInterrupted, LoopTypeOK, encoderVars, outputVars
  <2>3. CASE PullBlock
    <3>1. TypeOK' /\ nread' \in 0 .. FrameLength
      BY <2>3, ReadFramesTypes DEF PullBlock, LoopTypeOK
    <3> QED
      BY <2>3, <3>1 DEF PullBlock, LoopTypeOK, encoderVars, outputVars
  <2>4. CASE OfferBlock
    BY <2>0, <2>4 DEF OfferBlock, LoopTypeOK, TypeOK, encoderVars, outputVars
  <2>5. CASE EncodeBuffers
    <3>1. fill + Taken \in 0 .. (FrameLength - 1)
      BY <2>5 DEF EncodeBuffers, LoopTypeOK, Taken, Lesser
    <3> QED
      BY <2>0, <2>5, <3>1 DEF EncodeBuffers, LoopTypeOK, Empty
  <2>6. CASE EncodeUnit
    <3>1. remaining - Taken \in 0 .. FrameLength
      BY <2>6 DEF LoopTypeOK, Taken, Lesser
    <3>2. units' \in Nat
      BY <2>6 DEF EncodeUnit, LoopTypeOK
    <3> QED
      BY <2>0, <2>6, <3>1, <3>2, TakeUnitTypes DEF EncodeUnit, LoopTypeOK
  <2>7. CASE FlushUnit
    <3>1. zeros' \in 0 .. (Delay + FrameLength - 1)
      BY <2>7 DEF FlushUnit, LoopTypeOK, Drained
    <3>2. units' \in Nat
      BY <2>7 DEF FlushUnit, LoopTypeOK
    <3> QED
      BY <2>0, <2>7, <3>1, <3>2, TakeUnitTypes DEF FlushUnit, LoopTypeOK
  <2>8. CASE FlushEnds
    BY <2>0, <2>8 DEF FlushEnds, LoopTypeOK, encoderVars, Empty
  <2>9. CASE EncodeFails
    BY <2>0, <2>9 DEF EncodeFails, LoopTypeOK, encoderVars, outputVars
  <2>10. CASE Done
    <3>1. out' \in Seq(Nat)
      <4>1. obuf[1] \in Nat /\ (out' = out \/ out' = Written(obuf[1]))
        BY <2>10 DEF Done, LoopTypeOK
      <4> QED
        BY <4>1, WrittenType DEF LoopTypeOK
    <3> QED
      BY <2>0, <2>10, <3>1 DEF Done, LoopTypeOK, encoderVars
  <2>11. CASE Finalize
    <3>1. padding' \in Int
      BY <2>11 DEF Finalize, LoopTypeOK, TypeOK, Declared, frames_written, Lesser
    <3> QED
      BY <2>0, <2>11, <3>1 DEF Finalize, LoopTypeOK, encoderVars, outputVars
  <2>12. CASE Ended \/ UNCHANGED vars
    BY <2>0, <2>12 DEF Ended, vars, LoopTypeOK, encoderVars, outputVars
  <2> QED
    BY <2>1, <2>2, <2>3, <2>4, <2>5, <2>6, <2>7, <2>8, <2>9, <2>10, <2>11, <2>12
       DEF Run, Step
<1> QED
  BY <1>1, <1>2, PTL DEF LoopSteps

\* So every variable has its type in the loop as it is run.
THEOREM LoopTypes == LoopSpec => []LoopTypeOK
  BY LoopTypesKept, PTL DEF LoopSpec, LoopSteps

-----------------------------------------------------------------------------
(***************************************************************************)
(* The output.                                                             *)
(***************************************************************************)
\* What was promised does not depend on the step that is taken.
LEMMA PromisedPrime ==
  ASSUME smart' = smart
  PROVE  Promised(units)' = Promised(units')
  BY DEF Promised

\* Taking an access unit keeps the double buffering in step with the encoder
\* and the output one unit behind it.
LEMMA TakeUnitOutput ==
  ASSUME LoopTypeOK, BuffersInStep, OutputSoFar,
         pc = "encode", smart' = smart, units' = units + 1, TakeUnit
  PROVE  BuffersInStep' /\ OutputSoFar'
<1>0. units \in Nat /\ smart \in BOOLEAN /\ flip \in {0, 1} /\ obuf \in [{0, 1} -> Nat]
  BY DEF LoopTypeOK, TypeOK
<1>1. out = Promised(units)
  BY DEF OutputSoFar
<1>2. Promised(units)' = Promised(units + 1)
  BY PromisedPrime
<1>3. pc' # "finalize"
  BY DEF TakeUnit
<1>4. CASE smart
  <2>1. encoded = units /\ (units > 0 => obuf[1 - flip] = units)
    BY <1>4 DEF BuffersInStep
  <2>2. flip' = 1 - flip /\ encoded' = units + 1 /\ obuf' = [obuf EXCEPT ![flip] = units + 1]
    BY <1>4, <2>1 DEF TakeUnit, Toggled
  <2>3. obuf'[1 - flip'] = units + 1 /\ obuf'[flip'] = obuf[1 - flip]
    BY <1>0, <2>2
  <2>4. BuffersInStep'
    BY <1>4, <2>2, <2>3 DEF BuffersInStep
  <2>5. ASSUME pc' # "end" PROVE out' = Promised(units + 1)
    <3>1. CASE Discarded(units + 1)
      <4>1. out' = out
        BY <1>4, <2>1, <2>5, <3>1 DEF TakeUnit
      <4> QED
        BY <1>0, <1>1, <1>4, <3>1, <4>1, PromisedNext
    <3>2. CASE ~Discarded(units + 1)
      <4>1. units > 0
        BY <1>0, <3>2 DEF Discarded
      <4>2. out' = Append(out, units)
        BY <1>4, <2>1, <2>2, <2>3, <2>5, <3>2, <4>1 DEF TakeUnit, Written
      <4> QED
        BY <1>0, <1>1, <1>4, <3>2, <4>2, PromisedNext
    <3> QED
      BY <3>1, <3>2
  <2> QED
    BY <1>2, <1>3, <2>4, <2>5 DEF OutputSoFar
<1>5. CASE ~smart
  <2>1. encoded = 0 /\ flip = 0
    BY <1>5 DEF BuffersInStep
  <2>2. flip' = 0 /\ encoded' = 0 /\ obuf'[0] = units + 1
    BY <1>0, <1>5, <2>1 DEF TakeUnit, Toggled
  <2>3. BuffersInStep'
    BY <1>5, <2>2 DEF BuffersInStep
  <2>4. ASSUME pc' # "end" PROVE out' = Append(out, units + 1)
    BY <1>5, <2>2, <2>4 DEF TakeUnit, Written
  <2>5. pc' # "end" => out' = Promised(units + 1)
    BY <1>0, <1>1, <1>5, <2>4, PromisedNext
  <2> QED
    BY <1>2, <1>3, <2>3, <2>5 DEF OutputSoFar
<1> QED
  BY <1>0, <1>4, <1>5

\* A step that leaves the units, the buffers and the output alone, and does
\* not come back from the end of the loop, keeps them as they are.
LEMMA OtherStepOutput ==
  ASSUME BuffersInStep, OutputSoFar, pc \notin {"finalize", "end"},
         pc' # "finalize", smart' = smart, units' = units, obuf' = obuf,
         flip' = flip, encoded' = encoded, out' = out
  PROVE  BuffersInStep' /\ OutputSoFar'
<1>1. out' = Promised(units)'
  BY PromisedPrime DEF OutputSoFar
<1> QED
  BY <1>1 DEF BuffersInStep, OutputSoFar

\* The double buffering stays in step with the encoder and the output is one
\* unit behind it, for every block length, delay and source length.
LEMMA LoopOutputKept == LoopSteps => [](BuffersInStep /\ OutputSoFar)
<1>1. Start => BuffersInStep /\ OutputSoFar
  <2> SUFFICES ASSUME Start PROVE BuffersInStep /\ OutputSoFar
    OBVIOUS
  <2>1. Promised(0) = <<>>
    BY DEF Promised, Start, Init
  <2> QED
    BY <2>1 DEF Start, BuffersInStep, OutputSoFar, Init
<1>2. LoopTypeOK /\ BuffersInStep /\ OutputSoFar /\ [Run]_vars
        => (BuffersInStep /\ OutputSoFar)'
  <2> SUFFICES ASSUME LoopTypeOK, BuffersInStep, OutputSoFar, [Run]_vars
               PROVE  BuffersInStep' /\ OutputSoFar'
    OBVIOUS
  <2>1. CASE Signal
    <3>1. Promised(units)' = Promised(units)
      BY <2>1, PromisedPrime DEF Signal, readerVars, encoderVars
    <3> QED
      BY <2>1, <3>1 DEF Signal, BuffersInStep, OutputSoFar, readerVars, encoderVars, outputVars
  <2>2. CASE CheckInterrupted
    BY <2>2, OtherStepOutput DEF CheckInterrupted, encoderVars, outputVars
  <2>3. CASE PullBlock
    BY <2>3, OtherStepOutput DEF PullBlock, ReadFrames, encoderVars, outputVars
  <2>4. CASE OfferBlock
    BY <2>4, OtherStepOutput DEF OfferBlock, readerVars, encoderVars, outputVars
  <2>5. CASE EncodeBuffers \/ FlushEnds
    <3>1. /\ pc = "encode" /\ pc' \in {"top", "done"}
          /\ smart' = smart /\ units' = units /\ flip' = flip
          /\ encoded' = encoded /\ out' = out
          /\ obuf' = [obuf EXCEPT ![flip] = Empty]
      BY <2>5 DEF EncodeBuffers, FlushEnds, readerVars, encoderVars
    <3>2. flip \in {0, 1} /\ obuf \in [{0, 1} -> Nat]
      BY DEF LoopTypeOK
    <3>3. obuf'[1 - flip'] = obuf[1 - flip]
      BY <3>1, <3>2
    <3>4. out' = Promised(units)'
      BY <3>1, PromisedPrime DEF OutputSoFar
    <3> QED
      BY <3>1, <3>3, <3>4 DEF BuffersInStep, OutputSoFar
  <2>6. CASE EncodeUnit
    BY <2>6, TakeUnitOutput DEF EncodeUnit, readerVars
  <2>7. CASE FlushUnit
    BY <2>7, TakeUnitOutput DEF FlushUnit, readerVars
  <2>8. CASE EncodeFails
    BY <2>8, OtherStepOutput DEF EncodeFails, readerVars, encoderVars, outputVars
  <2>9. CASE Done
    <3>1. /\ pc = "done" /\ pc' \in {"finalize", "end"}
          /\ smart' = smart /\ units' = units /\ flip' = flip
          /\ encoded' = encoded /\ obuf' = obuf /\ interrupted' = interrupted
          /\ ~interrupted => out' = out
      BY <2>9 DEF Done, readerVars, encoderVars
    <3>2. out = Promised(units)'
      BY <3>1, PromisedPrime DEF OutputSoFar
    <3> QED
      BY <3>1, <3>2 DEF BuffersInStep, OutputSoFar
  <2>10. CASE Finalize
    BY <2>10 DEF Finalize, BuffersInStep, OutputSoFar
  <2>11. CASE Ended \/ UNCHANGED vars
    <3>1. /\ pc' = pc /\ smart' = smart /\ units' = units /\ flip' = flip
          /\ encoded' = encoded /\ obuf' = obuf /\ interrupted' = interrupted
          /\ out' = out
      BY <2>11 DEF Ended, vars, readerVars, encoderVars, outputVars
    <3> QED
      BY <3>1, PromisedPrime DEF BuffersInStep, OutputSoFar
  <2> QED
    BY <2>1, <2>2, <2>3, <2>4, <2>5, <2>6, <2>7, <2>8, <2>9, <2>10, <2>11
       DEF Run, Step
<1> QED
  BY <1>1, <1>2, LoopTypesKept, PTL DEF LoopSteps

\* So the buffers and the output are in step in the loop as it is run.
THEOREM LoopOutput == LoopSpec => [](BuffersInStep /\ OutputSoFar)
  BY LoopOutputKept, PTL DEF LoopSpec, LoopSteps

\* Until an interruption is dealt with the file holds the promised units, all
\* but the second and the latest of a smart-padded stream (OutputAsPromised).
THEOREM OutputPromised == LoopSpec => []OutputAsPromised
<1>1. OutputSoFar => OutputAsPromised
  BY DEF OutputSoFar, OutputAsPromised
<1> QED
  BY <1>1, LoopOutput, PTL

-----------------------------------------------------------------------------
(***************************************************************************)
(* The account of the frames.                                              *)
(***************************************************************************)
\* The type facts the arithmetic needs.
LEMMA CounterTypes ==
  ASSUME LoopTypeOK
  PROVE  /\ FrameLength \in Nat /\ FrameLength > 0 /\ Delay \in Nat /\ Delay > 0
         /\ total \in Nat /\ length \in Nat /\ pulled \in Nat /\ pulled <= length
         /\ nread \in Nat /\ remaining \in Nat /\ fill \in Nat /\ fill < FrameLength
         /\ zeros \in Nat /\ units \in Nat
         /\ units * FrameLength \in Nat
         /\ (units + 1) * FrameLength = units * FrameLength + FrameLength
<1>1. FrameLength \in Nat /\ FrameLength > 0 /\ Delay \in Nat /\ Delay > 0
  BY FrameLengthAssumption, DelayAssumption
<1>2. /\ total \in Nat /\ length \in Nat /\ pulled \in Nat /\ pulled <= length
      /\ nread \in Nat /\ remaining \in Nat /\ fill \in Nat /\ fill < FrameLength
      /\ zeros \in Nat /\ units \in Nat
  BY <1>1, MaxFramesAssumption DEF LoopTypeOK, TypeOK, ChainLengths
<1>3. units * FrameLength \in Nat
  BY <1>1, <1>2
<1>4. (units + 1) * FrameLength = units * FrameLength + FrameLength
  BY <1>1, <1>2
<1> QED
  BY <1>1, <1>2, <1>3, <1>4

\* After one more access unit every frame is still accounted for: the frames
\* the encoder took and the zeros it added have filled exactly one block.
LEMMA TakeUnitFrames ==
  ASSUME LoopTypeOK, FramesAccounted, pc = "encode", TakeUnit,
         units' = units + 1, fill' = 0, UNCHANGED <<pulled, length, nread, interrupted>>,
         remaining' \in Nat, zeros' \in Nat,
         (remaining - remaining') + (zeros' - zeros) = FrameLength - fill,
         remaining' > 0 => zeros' = 0,
         zeros' > 0 => nread = 0
  PROVE  FramesAccounted'
<1>1. /\ pc' \in {"encode", "top", "end"}
      /\ pc' = "encode" => remaining' > 0
      /\ pc' = "top" => ~(remaining' > 0)
  BY DEF TakeUnit
<1>2. Unoffered = remaining /\ Unoffered' = IF pc' = "encode" THEN remaining' ELSE 0
  BY <1>1 DEF Unoffered
<1>3. units * FrameLength + fill = pulled - remaining + zeros
  BY <1>2 DEF FramesAccounted
<1>4. pc' # "end" => Unoffered' = remaining'
  BY <1>1, <1>2
<1>5. pc' # "end" => units' * FrameLength + fill' = pulled' - Unoffered' + zeros'
  BY <1>3, <1>4, CounterTypes
<1> QED
  BY <1>1, <1>5 DEF FramesAccounted

\* Every frame that was pulled is in an access unit, in the encoder or still
\* in ibuf, and the encoder is told of the end of the input only once all of
\* it was pulled, unless the loop was interrupted.
LEMMA LoopFramesKept == LoopSteps => []FramesAccounted
<1>1. Start => FramesAccounted
  <2> SUFFICES ASSUME Start PROVE FramesAccounted
    OBVIOUS
  <2>1. Unoffered = 0 /\ units * FrameLength = 0
    BY FrameLengthAssumption DEF Start, Unoffered
  <2> QED
    BY <2>1 DEF Start, Init, FramesAccounted
<1>2. LoopTypeOK /\ FramesAccounted /\ [Run]_vars => FramesAccounted'
  <2> SUFFICES ASSUME LoopTypeOK, FramesAccounted, [Run]_vars
               PROVE  FramesAccounted'
    OBVIOUS
  <2>1. CASE Signal
    BY <2>1 DEF Signal, FramesAccounted, Unoffered, readerVars, encoderVars
  <2>2. CASE CheckInterrupted
    <3>1. Unoffered = 0 /\ Unoffered' = 0
      BY <2>2, CounterTypes DEF CheckInterrupted, Unoffered
    <3> QED
      BY <2>2, <3>1, CounterTypes DEF CheckInterrupted, FramesAccounted, encoderVars
  <2>3. CASE PullBlock
    <3>1. nread' \in Nat /\ pulled' = pulled + nread' /\ (nread' = 0 => pulled = length)
      BY <2>3, CounterTypes DEF PullBlock, ReadFrames, Counted, Answer, Lesser
    <3>2. pc = "read" /\ pc' = "offer" /\ length' = length
      BY <2>3, <3>1 DEF PullBlock, ReadFrames
    <3>3. zeros = 0
      BY <3>2, CounterTypes DEF FramesAccounted
    <3>4. Unoffered = 0 /\ Unoffered' = nread'
      BY <3>2 DEF Unoffered
    <3> QED
      BY <2>3, <3>1, <3>2, <3>3, <3>4, CounterTypes
         DEF PullBlock, FramesAccounted, encoderVars
  <2>4. CASE OfferBlock
    <3>1. Unoffered = nread /\ Unoffered' = nread
      BY <2>4 DEF OfferBlock, Unoffered
    <3> QED
      BY <2>4, <3>1, CounterTypes DEF OfferBlock, FramesAccounted, readerVars, encoderVars
  <2>5. CASE EncodeBuffers
    <3>1. Taken = remaining /\ zeros = 0
      BY <2>5, CounterTypes DEF EncodeBuffers, FramesAccounted, Taken, Lesser
    <3>2. Unoffered = remaining /\ Unoffered' = 0
      BY <2>5 DEF EncodeBuffers, Unoffered
    <3> QED
      BY <2>5, <3>1, <3>2, CounterTypes DEF EncodeBuffers, FramesAccounted, readerVars
  <2>6. CASE EncodeUnit
    <3>1. zeros = 0
      BY <2>6, CounterTypes DEF EncodeUnit, FramesAccounted
    <3>2. Taken = FrameLength - fill /\ remaining - Taken \in Nat
      BY <2>6, CounterTypes DEF EncodeUnit, Taken, Lesser
    <3> QED
      BY <2>6, <3>1, <3>2, CounterTypes, TakeUnitFrames DEF EncodeUnit, readerVars
  <2>7. CASE FlushUnit
    <3>1. nread = 0 /\ remaining = 0
      BY <2>7 DEF FlushUnit, FramesAccounted
    <3>2. zeros' \in Nat /\ zeros' - zeros = FrameLength - fill
      BY <2>7, CounterTypes DEF FlushUnit
    <3> QED
      BY <2>7, <3>1, <3>2, CounterTypes, TakeUnitFrames DEF FlushUnit, readerVars
  <2>8. CASE FlushEnds
    <3>1. Unoffered = 0 /\ Unoffered' = 0
      BY <2>8, CounterTypes DEF FlushEnds, Unoffered
    <3> QED
      BY <2>8, <3>1, CounterTypes DEF FlushEnds, Drained, FramesAccounted, readerVars, encoderVars
  <2>9. CASE EncodeFails
    BY <2>9 DEF EncodeFails, FramesAccounted, readerVars, encoderVars
  <2>10. CASE Done
    <3>1. Unoffered = 0 /\ Unoffered' = 0
      BY <2>10 DEF Done, Unoffered
    <3> QED
      BY <2>10, <3>1 DEF Done, FramesAccounted, readerVars, encoderVars
  <2>11. CASE Finalize
    BY <2>11 DEF Finalize, FramesAccounted, readerVars, encoderVars
  <2>12. CASE Ended \/ UNCHANGED vars
    BY <2>12 DEF Ended, vars, FramesAccounted, Unoffered, readerVars, encoderVars
  <2> QED
    BY <2>1, <2>2, <2>3, <2>4, <2>5, <2>6, <2>7, <2>8, <2>9, <2>10, <2>11, <2>12
       DEF Run, Step
<1> QED
  BY <1>1, <1>2, LoopTypesKept, PTL DEF LoopSteps

\* So every frame is accounted for in the loop as it is run.
THEOREM LoopFrames == LoopSpec => []FramesAccounted
  BY LoopFramesKept, PTL DEF LoopSpec, LoopSteps

-----------------------------------------------------------------------------
(***************************************************************************)
(* What a player makes of the file.                                        *)
(***************************************************************************)
\* Multiplication by the block length is strictly monotonic.
LEMMA BlocksMonotonic ==
  ASSUME NEW a \in Int, NEW b \in Int, a * FrameLength < b * FrameLength
  PROVE  a < b
<1> SUFFICES ASSUME b <= a PROVE FALSE
  OBVIOUS
<1>1. b * FrameLength <= a * FrameLength
  <2>1. a - b \in Nat /\ (a - b) * FrameLength \in Nat
    BY FrameLengthAssumption
  <2>2. (a - b) * FrameLength = a * FrameLength - b * FrameLength
    BY FrameLengthAssumption
  <2> QED
    BY <2>1, <2>2, FrameLengthAssumption
<1> QED
  BY <1>1, FrameLengthAssumption

\* When the encoder is drained and nothing was interrupted, the units hold
\* the source, its two extra blocks if any, and the delay.
LEMMA UnitsHoldSource ==
  ASSUME LoopTypeOK, OutputSoFar, FramesAccounted, pc \in {"done", "finalize"},
         ~interrupted
  PROVE  /\ out = Promised(units)
         /\ Len(out) = IF smart THEN units - 2 ELSE units
         /\ smart => units > 2
         /\ Len(out) * FrameLength \in Nat
         /\ total + Delay <= Len(out) * FrameLength
         /\ Len(out) * FrameLength < total + Delay + 2 * FrameLength
<1>0. /\ FrameLength \in Nat /\ FrameLength > 0 /\ Delay \in Nat /\ Delay > 0
      /\ total \in Nat /\ length \in Nat /\ zeros \in Nat /\ units \in Nat
      /\ units * FrameLength \in Nat /\ smart \in BOOLEAN
      /\ length \in ChainLengths(smart, total)
  BY CounterTypes DEF LoopTypeOK, TypeOK
<1>1. zeros >= Delay /\ fill = 0 /\ pulled = length /\ Unoffered = 0
  BY <1>0 DEF FramesAccounted, Unoffered
<1>2. units * FrameLength = length + zeros
  <2>1. units * FrameLength + fill = pulled - Unoffered + zeros
    BY DEF FramesAccounted
  <2> QED
    BY <1>0, <1>1, <2>1
<1>3. out = Promised(units)
  BY DEF OutputSoFar
<1>4. zeros < Delay + FrameLength
  BY <1>0 DEF LoopTypeOK
<1>5. CASE smart
  <2>1. length >= total + 2 * FrameLength /\ length < total + 3 * FrameLength
    BY <1>0, <1>5 DEF ChainLengths
  <2>2. 2 * FrameLength < units * FrameLength
    BY <1>0, <1>1, <1>2, <2>1
  <2>3. units > 2
    BY <1>0, <2>2, BlocksMonotonic
  <2>4. Len(out) = units - 2
    BY <1>0, <1>3, <1>5, <2>3, PromisedNext
  <2>5. Len(out) * FrameLength = units * FrameLength - 2 * FrameLength
    BY <1>0, <2>4
  <2> QED
    BY <1>0, <1>1, <1>2, <1>3, <1>4, <1>5, <2>1, <2>3, <2>4, <2>5
<1>6. CASE ~smart
  <2>1. length = total
    BY <1>0, <1>6 DEF ChainLengths
  <2>2. Len(out) = units
    BY <1>0, <1>3, <1>6, PromisedNext
  <2> QED
    BY <1>0, <1>1, <1>2, <1>3, <1>4, <1>6, <2>1, <2>2
<1> QED
  BY <1>0, <1>5, <1>6

\* A number that fits is not changed by the conversion to uint32_t.
LEMMA NoWrap ==
  ASSUME NEW n \in 0 .. (Wrap - 1)
  PROVE  n % Wrap = n
  BY WrapAssumption

\* main() has an exit status exactly when the loop has ended.
LEMMA LoopExitKept == LoopSteps => []ExitStatus
<1>1. Start => ExitStatus
  BY DEF Start, ExitStatus
<1>2. LoopTypeOK /\ ExitStatus /\ [Run]_vars => ExitStatus'
  <2> SUFFICES ASSUME LoopTypeOK, ExitStatus, [Run]_vars PROVE ExitStatus'
    OBVIOUS
  <2>1. CASE Finalize
    BY <2>1 DEF Finalize, ExitStatus
  <2>2. CASE PullBlock
    BY <2>2 DEF PullBlock, ExitStatus
  <2>3. CASE EncodeUnit \/ FlushUnit
    BY <2>3 DEF EncodeUnit, FlushUnit, TakeUnit, ExitStatus
  <2>4. CASE Done
    BY <2>4 DEF Done, ExitStatus
  <2>5. CASE \/ Signal \/ CheckInterrupted \/ OfferBlock \/ EncodeBuffers
             \/ FlushEnds \/ EncodeFails
    BY <2>5 DEF Signal, CheckInterrupted, OfferBlock, EncodeBuffers, FlushEnds,
                EncodeFails, ExitStatus
  <2>6. CASE Ended \/ UNCHANGED vars
    BY <2>6 DEF Ended, vars, ExitStatus
  <2> QED
    BY <2>1, <2>2, <2>3, <2>4, <2>5, <2>6 DEF Run, Step
<1> QED
  BY <1>1, <1>2, LoopTypesKept, PTL DEF LoopSteps

\* So the exit status is set at the end in the loop as it is run.
THEOREM LoopExit == LoopSpec => []ExitStatus
  BY LoopExitKept, PTL DEF LoopSpec, LoopSteps

\* Once main() has succeeded nothing the player sees changes, and it succeeds
\* only by finalizing the file.
LEMMA StepToSuccess ==
  ASSUME LoopTypeOK, ExitStatus, [Run]_vars, result' = 0
  PROVE  \/ Finalize
         \/ result = 0 /\ UNCHANGED <<out, total, padding, smart, interrupted>>
<1>1. CASE result = 0
  <2>1. pc = "end"
    BY <1>1 DEF ExitStatus
  <2>2. CASE Signal
    BY <1>1, <2>2 DEF Signal
  <2>3. CASE Step
    BY <2>1, <2>3 DEF Step, CheckInterrupted, PullBlock, OfferBlock, EncodeBuffers,
                      EncodeUnit, FlushUnit, FlushEnds, EncodeFails, Done, Finalize
  <2>4. CASE Ended \/ UNCHANGED vars
    BY <1>1, <2>4 DEF Ended, vars, readerVars, outputVars
  <2> QED
    BY <2>2, <2>3, <2>4 DEF Run
<1>2. CASE result # 0
  <2>1. ~ (CheckInterrupted \/ PullBlock \/ OfferBlock \/ EncodeBuffers
           \/ FlushEnds \/ EncodeFails \/ Signal)
    BY <1>2 DEF CheckInterrupted, PullBlock, OfferBlock, EncodeBuffers, FlushEnds,
                EncodeFails, Signal
  <2>2. ~ (EncodeUnit \/ FlushUnit \/ Done)
    BY <1>2 DEF EncodeUnit, FlushUnit, TakeUnit, Done
  <2>3. ~ (Ended \/ UNCHANGED vars)
    BY <1>2 DEF Ended, vars
  <2> QED
    BY <2>1, <2>2, <2>3 DEF Run, Step
<1> QED
  BY <1>1, <1>2

\* The declared padding makes up the whole file together with the declared
\* delay and the source, without wrapping around (PaddingAddsUp).
THEOREM LoopPadding == LoopSpec => []PaddingAddsUp
<1>1. Start => PaddingAddsUp
  BY DEF Start, PaddingAddsUp, Completed
<1>2. LoopTypeOK /\ ExitStatus /\ OutputSoFar /\ FramesAccounted /\ PaddingAddsUp /\ [Run]_vars
        => PaddingAddsUp'
  <2> SUFFICES ASSUME LoopTypeOK, ExitStatus, OutputSoFar, FramesAccounted,
                      PaddingAddsUp, [Run]_vars, Completed'
               PROVE  (CoreDelay + total + padding = Len(out) * FrameLength)'
    BY DEF PaddingAddsUp
  <2>0. result' = 0 /\ ~interrupted'
    BY DEF Completed
  <2>1. CASE Finalize
    <3>1. pc = "finalize" /\ ~interrupted /\ total' = total /\ out' = out
          /\ padding' = Declared % Wrap /\ pos = Lesser(total, pulled)
      BY <2>0, <2>1 DEF Finalize, readerVars, outputVars, LoopTypeOK, TypeOK
    <3>2. pulled = length /\ total <= length /\ total \in Nat
      <4>1. pulled = length
        BY <3>1, CounterTypes DEF FramesAccounted
      <4>2. total \in Nat /\ FrameLength \in Nat /\ length \in ChainLengths(smart, total)
        BY CounterTypes DEF LoopTypeOK, TypeOK
      <4> QED
        BY <4>1, <4>2 DEF ChainLengths
    <3>3. pos = total
      BY <3>1, <3>2, CounterTypes DEF Lesser
    <3>4. /\ Len(out) * FrameLength \in Nat
          /\ total + Delay <= Len(out) * FrameLength
          /\ Len(out) * FrameLength < total + Delay + 2 * FrameLength
      BY <3>1, UnitsHoldSource
    <3>5. Declared = Len(out) * FrameLength - total - CoreDelay
      BY <3>3 DEF Declared, frames_written
    <3>6. Declared \in 0 .. (Wrap - 1)
      BY <3>2, <3>4, <3>5, DelayAssumption, WrapAssumption, FrameLengthAssumption
    <3> QED
      BY <3>1, <3>2, <3>4, <3>5, <3>6, NoWrap, DelayAssumption
  <2>2. CASE result = 0 /\ UNCHANGED <<out, total, padding, smart, interrupted>>
    BY <2>0, <2>2 DEF PaddingAddsUp, Completed
  <2> QED
    BY <2>0, <2>1, <2>2, StepToSuccess
<1> QED
  BY <1>1, <1>2, LoopTypes, LoopExit, LoopOutput, LoopFrames, PTL DEF LoopSpec

\* Every frame of a stream of blocks is in one of the blocks.
LEMMA SomeBlockCovers ==
  ASSUME NEW j \in Nat \ {0}
  PROVE  \E k \in Nat \ {0} : Covers(k, j)
<1> DEFINE q == (j - 1) \div FrameLength
           r == (j - 1) % FrameLength
<1>1. FrameLength \in Nat /\ FrameLength > 0
  BY FrameLengthAssumption
<1>2. q \in Nat /\ r \in 0 .. (FrameLength - 1) /\ j - 1 = FrameLength * q + r
  BY <1>1
<1> HIDE DEF q, r
<1>3. (q + 1) * FrameLength = FrameLength * q + FrameLength
  BY <1>1, <1>2
<1>4. Covers(q + 1, j)
  BY <1>1, <1>2, <1>3 DEF Covers
<1> QED
  BY <1>2, <1>4

\* Whoever skips the declared delay finds every source frame in the unit that
\* holds it, and in the file (SourceWherePlayed).
LEMMA LoopPlaybackKept == LoopSteps => []SourceWherePlayed
<1>1. Start => SourceWherePlayed
  BY DEF Start, SourceWherePlayed, Completed
<1>2. LoopTypeOK /\ ExitStatus /\ OutputSoFar /\ FramesAccounted /\ SourceWherePlayed
        /\ [Run]_vars => SourceWherePlayed'
  <2> SUFFICES ASSUME LoopTypeOK, ExitStatus, OutputSoFar, FramesAccounted,
                      SourceWherePlayed, [Run]_vars, Completed',
                      NEW i \in 1 .. total'
               PROVE  \E k \in 1 .. Len(out') :
                        /\ Covers(k, CoreDelay + i)
                        /\ Covers(out'[k], LeadFrames' + CoreDelay + i)
    BY DEF SourceWherePlayed, Covers
  <2>0. result' = 0 /\ ~interrupted'
    BY DEF Completed
  <2>1. CASE Finalize
    <3>1. /\ pc = "finalize" /\ ~interrupted /\ total' = total /\ out' = out
          /\ smart' = smart
      BY <2>0, <2>1 DEF Finalize, readerVars, outputVars
    <3>2. /\ out = Promised(units)
          /\ Len(out) = IF smart THEN units - 2 ELSE units
          /\ smart => units > 2
          /\ total + Delay <= Len(out) * FrameLength
      BY <3>1, UnitsHoldSource
    <3>3. /\ FrameLength \in Nat /\ FrameLength > 0 /\ CoreDelay \in Nat
          /\ FrameLength <= CoreDelay /\ CoreDelay <= Delay /\ Delay \in Nat
          /\ total \in Nat /\ units \in Nat /\ smart \in BOOLEAN /\ i \in Nat
          /\ 1 <= i /\ i <= total /\ CoreDelay + i \in Nat \ {0}
      BY <3>1, CounterTypes, DelayAssumption DEF LoopTypeOK, TypeOK
    <3>4. PICK k \in Nat \ {0} : Covers(k, CoreDelay + i)
      BY <3>3, SomeBlockCovers
    <3>5. Len(out) \in Nat
      BY <3>2, <3>3
    <3>6. k <= Len(out)
      <4>1. (k - 1) * FrameLength < Len(out) * FrameLength
        <5>1. (k - 1) * FrameLength < CoreDelay + i
          BY <3>4 DEF Covers
        <5>2. (k - 1) * FrameLength \in Int /\ Len(out) * FrameLength \in Int
          BY <3>3, <3>5
        <5> QED
          BY <3>2, <3>3, <5>1, <5>2
      <4>2. k - 1 < Len(out)
        BY <3>4, <3>5, <4>1, BlocksMonotonic
      <4> QED
        BY <3>4, <3>5, <4>2
    <3>7. CASE smart
      <4>1. FrameLength < k * FrameLength
        <5>1. CoreDelay + i <= k * FrameLength /\ k * FrameLength \in Int
          BY <3>3, <3>4 DEF Covers
        <5> QED
          BY <3>3, <5>1
      <4>2. 1 * FrameLength < k * FrameLength
        BY <3>3, <4>1
      <4>3. k > 1
        BY <3>4, <4>2, BlocksMonotonic
      <4>4. out[k] = k + 1
        BY <3>2, <3>3, <3>4, <3>6, <3>7, <4>3 DEF Promised
      <4>5. /\ ((k + 1) - 1) * FrameLength = (k - 1) * FrameLength + FrameLength
            /\ (k + 1) * FrameLength = k * FrameLength + FrameLength
            /\ (k - 1) * FrameLength \in Int /\ k * FrameLength \in Int
        BY <3>3, <3>4
      <4>6. Covers(k + 1, FrameLength + CoreDelay + i)
        BY <3>3, <3>4, <4>5 DEF Covers
      <4> QED
        BY <3>1, <3>4, <3>5, <3>6, <3>7, <4>4, <4>6 DEF LeadFrames
    <3>8. CASE ~smart
      <4>1. out[k] = k
        BY <3>2, <3>3, <3>4, <3>6, <3>8 DEF Promised
      <4>2. LeadFrames' + CoreDelay + i = CoreDelay + i
        BY <3>1, <3>3, <3>8 DEF LeadFrames
      <4> QED
        BY <3>1, <3>4, <3>5, <3>6, <4>1, <4>2
    <3> QED
      BY <3>3, <3>7, <3>8
  <2>2. CASE result = 0 /\ UNCHANGED <<out, total, padding, smart, interrupted>>
    BY <2>0, <2>2 DEF SourceWherePlayed, Completed, LeadFrames
  <2> QED
    BY <2>0, <2>1, <2>2, StepToSuccess
<1> QED
  BY <1>1, <1>2, LoopTypesKept, LoopExitKept, LoopOutputKept, LoopFramesKept, PTL DEF LoopSteps

\* So the loop as it is run plays the source where a player looks for it.
THEOREM LoopPlayback == LoopSpec => []SourceWherePlayed
  BY LoopPlaybackKept, PTL DEF LoopSpec, LoopSteps

-----------------------------------------------------------------------------
(***************************************************************************)
(* Interruptions.                                                          *)
(***************************************************************************)
\* What Done may write after an interruption is the unit that is held back or
\* an empty sample.
LEMMA LoopEmptiedKept == LoopSteps => []EmptiedBuffers
<1>1. Start => EmptiedBuffers
  BY DEF Start, EmptiedBuffers
<1>2. LoopTypeOK /\ BuffersInStep /\ EmptiedBuffers /\ [Run]_vars => EmptiedBuffers'
  <2> SUFFICES ASSUME LoopTypeOK, BuffersInStep, EmptiedBuffers, [Run]_vars
               PROVE  EmptiedBuffers'
    OBVIOUS
  <2>1. flip \in {0, 1} /\ obuf \in [{0, 1} -> Nat] /\ smart \in BOOLEAN
    BY DEF LoopTypeOK, TypeOK
  <2>2. CASE EncodeBuffers \/ FlushEnds
    BY <2>1, <2>2 DEF EncodeBuffers, FlushEnds, EmptiedBuffers, readerVars, encoderVars
  <2>3. CASE EncodeUnit \/ FlushUnit
    <3>1. /\ pc = "encode" /\ pc' # "done" /\ smart' = smart
          /\ obuf' = [obuf EXCEPT ![flip] = units'] /\ units' # 0
      BY <2>3 DEF EncodeUnit, FlushUnit, TakeUnit, readerVars, LoopTypeOK
    <3> QED
      BY <2>1, <3>1 DEF EmptiedBuffers, BuffersInStep
  <2>4. CASE Signal \/ CheckInterrupted \/ PullBlock \/ OfferBlock \/ EncodeFails
    BY <2>4 DEF Signal, CheckInterrupted, PullBlock, ReadFrames, OfferBlock, EncodeFails,
                EmptiedBuffers, readerVars, encoderVars, outputVars
  <2>5. CASE Done \/ Finalize
    BY <2>5 DEF Done, Finalize, EmptiedBuffers, readerVars, encoderVars, outputVars
  <2>6. CASE Ended \/ UNCHANGED vars
    BY <2>6 DEF Ended, vars, EmptiedBuffers, readerVars, encoderVars, outputVars
  <2> QED
    BY <2>2, <2>3, <2>4, <2>5, <2>6 DEF Run, Step
<1> QED
  BY <1>1, <1>2, LoopTypesKept, LoopOutputKept, PTL DEF LoopSteps

\* So the buffers are empty where the loop as it is run relies on it.
THEOREM LoopEmptied == LoopSpec => []EmptiedBuffers
  BY LoopEmptiedKept, PTL DEF LoopSpec, LoopSteps

\* The promised units come in order, and in smart padding all of them precede
\* the one that is held back.
LEMMA PromisedOrdered ==
  ASSUME NEW n \in Nat, smart \in BOOLEAN
  PROVE  /\ \A i, j \in 1 .. Len(Promised(n)) : i < j => Promised(n)[i] < Promised(n)[j]
         /\ smart => \A i \in 1 .. Len(Promised(n)) : Promised(n)[i] < n
<1>1. CASE smart /\ n < 3
  BY <1>1 DEF Promised
<1>2. CASE smart /\ ~(n < 3)
  BY <1>2 DEF Promised
<1>3. CASE ~smart
  BY <1>3 DEF Promised
<1> QED
  BY <1>1, <1>2, <1>3

\* No access unit reaches the file twice or after a later one, interrupted or
\* not (NeverTwiceNorBack).
THEOREM LoopOrder == LoopSpec => []NeverTwiceNorBack
<1>1. Start => NeverTwiceNorBack
  BY DEF Start, NeverTwiceNorBack
<1>2. LoopTypeOK /\ BuffersInStep /\ EmptiedBuffers /\ OutputSoFar
        /\ NeverTwiceNorBack /\ [Run]_vars
        /\ LoopTypeOK' /\ OutputSoFar' => NeverTwiceNorBack'
  <2> SUFFICES ASSUME LoopTypeOK, BuffersInStep, EmptiedBuffers, OutputSoFar,
                      NeverTwiceNorBack, [Run]_vars, LoopTypeOK', OutputSoFar'
               PROVE  NeverTwiceNorBack'
    OBVIOUS
  <2>1. units \in Nat /\ units' \in Nat /\ smart \in BOOLEAN /\ smart' \in BOOLEAN
    BY DEF LoopTypeOK, TypeOK
  <2>2. CASE out' = out
    BY <2>2 DEF NeverTwiceNorBack
  <2>3. CASE EncodeUnit \/ FlushUnit
    <3>1. CASE pc' # "end"
      <4>1. pc' # "finalize" /\ smart' = smart
        BY <2>3 DEF EncodeUnit, FlushUnit, TakeUnit, readerVars
      <4>2. out' = Promised(units')
        BY <3>1, <4>1, PromisedPrime DEF OutputSoFar
      <4> QED
        BY <2>1, <4>2, PromisedOrdered DEF NeverTwiceNorBack
    <3>2. CASE pc' = "end"
      BY <2>2, <2>3, <3>2 DEF EncodeUnit, FlushUnit, TakeUnit
    <3> QED
      BY <3>1, <3>2
  <2>4. CASE Done /\ out' # out
    <3>1. pc = "done" /\ out' = Written(obuf[1]) /\ out = Promised(units) /\ out \in Seq(Nat)
      BY <2>4 DEF Done, OutputSoFar, LoopTypeOK
    <3>2. obuf[1] = Empty \/ (smart /\ obuf[1] = units)
      <4>1. flip \in {0, 1} /\ obuf \in [{0, 1} -> Nat]
        BY DEF LoopTypeOK
      <4>2. CASE ~smart \/ flip = 1
        BY <3>1, <4>2 DEF EmptiedBuffers
      <4>3. CASE smart /\ flip = 0 /\ units > 0
        BY <3>1, <4>3 DEF BuffersInStep
      <4>4. CASE ~(units > 0)
        BY <2>1, <3>1, <4>4 DEF EmptiedBuffers
      <4> QED
        BY <2>1, <4>1, <4>2, <4>3, <4>4
    <3>3. obuf[1] \in Nat /\ Len(out) \in Nat
      BY <3>1 DEF LoopTypeOK
    <3>4. /\ Len(out') = Len(out) + 1 /\ out'[Len(out) + 1] = obuf[1]
          /\ \A k \in 1 .. Len(out) : out'[k] = out[k]
      BY <3>1, <3>3, WrittenType
    <3>5. /\ \A i, j \in 1 .. Len(out) : i < j => out[i] < out[j]
          /\ smart => \A i \in 1 .. Len(out) : out[i] < units
      BY <2>1, <3>1, PromisedOrdered
    <3> QED
      BY <3>2, <3>3, <3>4, <3>5 DEF NeverTwiceNorBack, Empty
  <2> QED
    <3>1. \/ out' = out \/ EncodeUnit \/ FlushUnit \/ Done
      BY DEF Run, Step, Signal, CheckInterrupted, PullBlock, OfferBlock, EncodeBuffers,
             FlushEnds, EncodeFails, Finalize, Ended, vars, outputVars
    <3> QED
      BY <2>2, <2>3, <2>4, <3>1
<1> QED
  BY <1>1, <1>2, LoopTypes, LoopEmptied, LoopOutput, PTL DEF LoopSpec

\* The loop does not go back to the reader after an interruption
\* (InterruptStopsReading).
THEOREM LoopInterrupt == LoopSpec => InterruptStopsReading
<1>1. [Run]_vars => [interrupted /\ pc # "read" => pc' # "read"]_vars
  <2> SUFFICES ASSUME [Run]_vars, interrupted, pc # "read", pc' = "read" PROVE FALSE
    OBVIOUS
  <2>1. CASE CheckInterrupted
    BY <2>1 DEF CheckInterrupted
  <2>2. CASE EncodeUnit \/ FlushUnit
    BY <2>2 DEF EncodeUnit, FlushUnit, TakeUnit
  <2> QED
    BY <2>1, <2>2 DEF Run, Step, Signal, PullBlock, OfferBlock, EncodeBuffers,
             FlushEnds, EncodeFails, Done, Finalize, Ended, vars
<1> QED
  BY <1>1, PTL DEF LoopSpec, InterruptStopsReading

\* There is always a sample to finalize (FileNeverEmpty).
THEOREM LoopFile == LoopSpec => []FileNeverEmpty
<1>1. Start => FileNeverEmpty
  BY DEF Start, FileNeverEmpty
<1>2. LoopTypeOK /\ OutputSoFar /\ FramesAccounted /\ FileNeverEmpty /\ [Run]_vars
        => FileNeverEmpty'
  <2> SUFFICES ASSUME LoopTypeOK, OutputSoFar, FramesAccounted, FileNeverEmpty,
                      [Run]_vars, pc' = "finalize"
               PROVE  out' # <<>>
    BY DEF FileNeverEmpty
  <2>1. CASE Done
    <3>1. pc = "done" /\ out' = IF interrupted THEN Append(out, obuf[1]) ELSE out
      BY <2>1 DEF Done, Written
    <3>2. CASE interrupted
      <4>1. out \in Seq(Nat)
        BY DEF LoopTypeOK
      <4>2. out' = Append(out, obuf[1])
        BY <3>1, <3>2
      <4> QED
        BY <4>1, <4>2
    <3>3. CASE ~interrupted
      <4>1. total + Delay <= Len(out) * FrameLength
        BY <3>1, <3>3, UnitsHoldSource
      <4>2. total \in Nat /\ FrameLength \in Nat /\ Delay \in Nat /\ Delay > 0
        BY CounterTypes
      <4>3. Len(out) # 0
        BY <4>1, <4>2
      <4>4. out # <<>>
        BY <4>3
      <4> QED
        BY <3>1, <3>3, <4>4
    <3> QED
      BY <3>2, <3>3
  <2>2. CASE Signal
    BY <2>2 DEF Signal, FileNeverEmpty, outputVars
  <2>3. CASE Ended \/ UNCHANGED vars
    BY <2>3 DEF Ended, vars, FileNeverEmpty, outputVars
  <2> QED
    BY <2>1, <2>2, <2>3 DEF Run, Step, CheckInterrupted, PullBlock, OfferBlock,
       EncodeBuffers, EncodeUnit, FlushUnit, TakeUnit, FlushEnds, EncodeFails, Finalize
<1> QED
  BY <1>1, <1>2, LoopTypes, LoopOutput, LoopFrames, PTL DEF LoopSpec

\* The inductive invariant that TLC checks on an instance (LoopInv), without the
\* fairness.
LEMMA LoopInvKept == LoopSteps => []LoopInv
<1>1. LoopTypeOK /\ ExitStatus /\ BuffersInStep /\ EmptiedBuffers /\ OutputSoFar
        /\ FramesAccounted => LoopInv
  BY DEF LoopInv
<1> QED
  BY <1>1, LoopTypesKept, LoopExitKept, LoopOutputKept, LoopEmptiedKept,
     LoopFramesKept, PTL

\* The inductive invariant that TLC checks on an instance (LoopInv).
THEOREM LoopInvariant == LoopSpec => []LoopInv
  BY LoopInvKept, PTL DEF LoopSpec, LoopSteps

-----------------------------------------------------------------------------
(***************************************************************************)
(* The file after an interruption.                                         *)
(***************************************************************************)
\* After the loop the file holds the promised units and, if it was interrupted,
\* one sample more: the unit that is held back or an empty one.
FinalUnits ==
  pc = "finalize" =>
    \/ out = Promised(units)
    \/ \E u \in {Empty, units} : out = Append(Promised(units), u)

LEMMA FinalUnitsKept == LoopSteps => []FinalUnits
<1>1. Start => FinalUnits
  BY DEF Start, FinalUnits
<1>2. LoopInv /\ FinalUnits /\ [Run]_vars => FinalUnits'
  <2> SUFFICES ASSUME LoopInv, FinalUnits, [Run]_vars, pc' = "finalize"
               PROVE  \/ out' = Promised(units)'
                      \/ \E u \in {Empty, units'} : out' = Append(Promised(units)', u)
    BY DEF FinalUnits, Empty
  <2>1. CASE Done
    <3>1. /\ pc = "done" /\ UNCHANGED <<units, smart>>
          /\ out' = IF interrupted THEN Written(obuf[1]) ELSE out
      BY <2>1 DEF Done, readerVars, encoderVars
    <3>2. Promised(units)' = Promised(units)
      BY <3>1, PromisedPrime
    <3>3. out = Promised(units)
      BY <3>1 DEF LoopInv, OutputSoFar
    <3>4. obuf[1] \in {Empty, units}
      <4>1. /\ smart \in BOOLEAN /\ flip \in {0, 1} /\ units \in Nat
        BY DEF LoopInv, LoopTypeOK, TypeOK
      <4>2. CASE ~smart \/ units = 0
        BY <3>1, <4>2 DEF LoopInv, EmptiedBuffers
      <4>3. CASE smart /\ units > 0 /\ flip = 0
        BY <3>1, <4>3 DEF LoopInv, BuffersInStep
      <4>4. CASE flip = 1
        BY <3>1, <4>4 DEF LoopInv, EmptiedBuffers
      <4> QED
        BY <4>1, <4>2, <4>3, <4>4
    <3> QED
      BY <3>1, <3>2, <3>3, <3>4 DEF Written
  <2>2. CASE Signal \/ Ended \/ UNCHANGED vars
    <3>1. UNCHANGED <<pc, out, units, smart>>
      BY <2>2 DEF Signal, Ended, vars, readerVars, encoderVars, outputVars
    <3>2. Promised(units)' = Promised(units)
      BY <3>1, PromisedPrime
    <3> QED
      BY <3>1, <3>2 DEF FinalUnits
  <2> QED
    BY <2>1, <2>2 DEF Run, Step, CheckInterrupted, PullBlock, OfferBlock,
       EncodeBuffers, EncodeUnit, FlushUnit, TakeUnit, FlushEnds, EncodeFails, Finalize
<1> QED
  BY <1>1, <1>2, LoopInvKept, PTL DEF LoopSteps

\* However the file was ended, from its second place on it holds the units that
\* follow the one that was dropped, or nothing, if it holds a frame of the source.
LEMMA UnitsInPlace ==
  ASSUME LoopInv, FinalUnits, pc = "finalize", smart, pulled > FrameLength,
         NEW k \in 2 .. Len(out), out[k] # Empty
  PROVE  out[k] = k + 1
<1>1. /\ FrameLength \in Nat /\ FrameLength > 0 /\ Delay \in Nat /\ FrameLength <= Delay
      /\ zeros \in Nat /\ units \in Nat /\ pulled \in Nat /\ fill \in Nat
      /\ units * FrameLength \in Nat
  BY CounterTypes, DelayAssumption DEF LoopInv
<1>2. zeros >= Delay /\ fill = 0 /\ Unoffered = 0
  BY <1>1 DEF LoopInv, FramesAccounted, Unoffered
<1>3. units * FrameLength = pulled + zeros
  <2>1. units * FrameLength + fill = pulled - Unoffered + zeros
    BY DEF LoopInv, FramesAccounted
  <2> QED
    BY <1>1, <1>2, <2>1
<1>4. units > 2
  <2>1. 2 * FrameLength < units * FrameLength
    BY <1>1, <1>2, <1>3
  <2> QED
    BY <1>1, <2>1, BlocksMonotonic
<1>5. /\ Promised(units) \in Seq(Nat) /\ Len(Promised(units)) = units - 2
      /\ \A j \in 2 .. (units - 2) : Promised(units)[j] = j + 1
  <2>1. Promised(units) \in Seq(Nat) /\ Len(Promised(units)) = units - 2
    BY <1>1, <1>4, PromisedNext
  <2>2. \A j \in 2 .. (units - 2) : Promised(units)[j] = j + 1
    BY <1>1, <1>4 DEF Promised
  <2> QED
    BY <2>1, <2>2
<1>6. CASE out = Promised(units)
  BY <1>1, <1>4, <1>5, <1>6
<1>7. ASSUME NEW u \in {Empty, units}, out = Append(Promised(units), u)
      PROVE  out[k] = k + 1
  <2>1. Len(out) = units - 1
    BY <1>1, <1>4, <1>5, <1>7
  <2>2. CASE k = units - 1
    <3>1. out[k] = u
      BY <1>1, <1>4, <1>5, <1>7, <2>2
    <3> QED
      BY <1>1, <1>7, <2>2, <3>1
  <2>3. CASE k # units - 1
    <3>1. k \in 2 .. (units - 2) /\ k \in 1 .. Len(Promised(units))
      BY <1>1, <1>4, <1>5, <2>1, <2>3
    <3>2. out[k] = Promised(units)[k]
      BY <1>5, <1>7, <3>1
    <3> QED
      BY <1>5, <3>1, <3>2
  <2> QED
    BY <2>2, <2>3
<1> QED
  BY <1>6, <1>7 DEF FinalUnits
=============================================================================
