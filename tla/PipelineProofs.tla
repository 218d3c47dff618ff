--------------------------- MODULE PipelineProofs ---------------------------
(***************************************************************************)
(* What the extrapolater does under the encode loop, for every block       *)
(* length, span of the predictor, delay and source: the blocks fit, and    *)
(* the loop over the extrapolater takes the steps of the loop over the     *)
(* contract of its reader.  Proofs about Pipeline.                         *)
(***************************************************************************)
EXTENDS Pipeline, SequenceTheorems, TLAPS

IsSeq(s) == s \in Seq(ToSet(s))

\* 1 .. n has only one end.
LEMMA SameEnd ==
  ASSUME NEW m \in Nat, NEW n \in Nat, 1 .. m = 1 .. n
  PROVE  m = n
<1>1. m = 0 \/ m \in 1 .. n
  OBVIOUS
<1>2. n = 0 \/ n \in 1 .. m
  OBVIOUS
<1> QED
  BY <1>1, <1>2

\* A sequence of frames made by a function of their places.
LEMMA FramesAreSeq ==
  ASSUME NEW n \in Nat, NEW f, DOMAIN f = 1 .. n, f = [k \in 1 .. n |-> f[k]]
  PROVE  IsSeq(f) /\ Len(f) = n
<1> DEFINE S == ToSet(f)
<1>1. \A k \in 1 .. n : f[k] \in S
  BY DEF ToSet
<1> HIDE DEF S
<1>2. f \in [1 .. n -> S]
  BY <1>1
<1>3. f \in Seq(S)
  BY <1>2, SeqDef
<1>4. Len(f) \in Nat /\ DOMAIN f = 1 .. Len(f)
  BY <1>3, LenProperties
<1> QED
  BY <1>3, <1>4, SameEnd DEF IsSeq, S

\* A sequence over some set.
LEMMA SeqOver ==
  ASSUME NEW S, NEW s \in Seq(S)
  PROVE  IsSeq(s) /\ Len(s) \in Nat
<1>1. Len(s) \in Nat /\ DOMAIN s = 1 .. Len(s) /\ s \in [1 .. Len(s) -> S]
  BY LenProperties
<1>2. s = [k \in 1 .. Len(s) |-> s[k]]
  BY <1>1
<1> QED
  BY <1>1, <1>2, FramesAreSeq

\* Two sequences, one after the other.
LEMMA Joined ==
  ASSUME NEW s, NEW t, IsSeq(s), IsSeq(t)
  PROVE  /\ IsSeq(s \o t)
         /\ Len(s \o t) = Len(s) + Len(t)
         /\ \A k \in 1 .. Len(s) : (s \o t)[k] = s[k]
         /\ \A k \in 1 .. Len(t) : (s \o t)[Len(s) + k] = t[k]
<1> DEFINE S == ToSet(s) \cup ToSet(t)
<1>1. s \in Seq(S) /\ t \in Seq(S)
  BY DEF IsSeq
<1> HIDE DEF S
<1>2. s \o t \in Seq(S) /\ Len(s \o t) = Len(s) + Len(t)
      /\ \A k \in 1 .. Len(s) : (s \o t)[k] = s[k]
  BY <1>1
<1>3. \A k \in 1 .. Len(t) : (s \o t)[Len(s) + k] = t[k]
  <2>1. Len(s) \in Nat /\ Len(t) \in Nat
    BY <1>1
  <2>2. ASSUME NEW k \in 1 .. Len(t) PROVE (s \o t)[Len(s) + k] = t[k]
    BY <1>1, <2>1, ConcatProperties
  <2> QED
    BY <2>2
<1> QED
  BY <1>2, <1>3, SeqOver

\* A part of a sequence.
LEMMA PartOf ==
  ASSUME NEW s, IsSeq(s), NEW i \in 1 .. (Len(s) + 1), NEW j \in (i - 1) .. Len(s)
  PROVE  IsSeq(SubSeq(s, i, j)) /\ Len(SubSeq(s, i, j)) = j - i + 1
<1>1. s \in Seq(ToSet(s)) /\ Len(s) \in Nat
  BY DEF IsSeq
<1>2. SubSeq(s, i, j) \in Seq(ToSet(s)) /\ Len(SubSeq(s, i, j)) = j - i + 1
  BY <1>1
<1> QED
  BY <1>2, SeqOver

-----------------------------------------------------------------------------
(***************************************************************************)
(* The lengths of what the extrapolater handles.                           *)
(***************************************************************************)
LEMMA LesserIs ==
  ASSUME NEW a \in Int, NEW b \in Int
  PROVE  Lesser(a, b) = (IF a <= b THEN a ELSE b)
  BY DEF Lesser

\* What the source yields: as much as was asked for, or what is left.
LEMMA SourceBlockIs ==
  ASSUME NEW n \in Nat, total \in Nat, srcpos \in 0 .. total
  PROVE  /\ IsSeq(SourceBlock(n))
         /\ Len(SourceBlock(n)) = (IF srcpos + n <= total THEN n ELSE total - srcpos)
<1>1. Lesser(srcpos + n, total) - (srcpos + 1) + 1 \in Nat
      /\ Lesser(srcpos + n, total) - (srcpos + 1) + 1
           = (IF srcpos + n <= total THEN n ELSE total - srcpos)
  BY LesserIs
<1> QED
  BY <1>1, FramesAreSeq DEF SourceBlock, Frames

\* A prediction is as long as was asked for, from whatever run.
LEMMA ExtrapolateIs ==
  ASSUME NEW run, NEW n \in Nat
  PROVE  IsSeq(Extrapolate(run, n)) /\ Len(Extrapolate(run, n)) = n
<1>1. DOMAIN Extrapolate(run, n) = 1 .. n
      /\ Extrapolate(run, n) = [k \in 1 .. n |-> Extrapolate(run, n)[k]]
  <2>1. CASE TooShort(run)
    BY <2>1 DEF Extrapolate, Zeros
  <2>2. CASE ~TooShort(run)
    BY <2>2 DEF Extrapolate
  <2> QED
    BY <2>1, <2>2
<1> QED
  BY <1>1, FramesAreSeq

\* The final run is as long as the block, or as the one before it.
LEMMA FinalRunIs ==
  ASSUME NEW before, NEW final, IsSeq(before), IsSeq(final)
  PROVE  /\ IsSeq(FinalRun(before, final))
         /\ Len(FinalRun(before, final)) =
              (IF Len(final) < LpcSpan /\ before # <<>> THEN Len(before) ELSE Len(final))
<1>1. Len(before) \in Nat /\ Len(final) \in Nat
  BY DEF IsSeq
<1>2. CASE TooShort(final) /\ before # <<>>
  <2> DEFINE both == before \o final
  <2>1. IsSeq(both) /\ Len(both) = Len(before) + Len(final)
    BY Joined
  <2> HIDE DEF both
  <2>2. /\ IsSeq(SubSeq(both, Len(both) - Len(before) + 1, Len(both)))
        /\ Len(SubSeq(both, Len(both) - Len(before) + 1, Len(both))) = Len(before)
    BY <1>1, <2>1, PartOf
  <2>3. FinalRun(before, final) = SubSeq(both, Len(both) - Len(before) + 1, Len(both))
    BY <1>2 DEF FinalRun, LastOf, both
  <2> QED
    BY <1>2, <2>2, <2>3 DEF TooShort
<1>3. CASE ~(TooShort(final) /\ before # <<>>)
  BY <1>3 DEF FinalRun, TooShort
<1> QED
  BY <1>2, <1>3

\* A sequence is empty if it has no length.
LEMMA EmptyIs ==
  ASSUME NEW s, IsSeq(s)
  PROVE  Len(s) \in Nat /\ (s = <<>> <=> Len(s) = 0)
<1>1. s \in Seq(ToSet(s))
  BY DEF IsSeq
<1>2. Len(s) \in Nat
  BY <1>1, LenProperties
<1> QED
  BY <1>1, <1>2, EmptySeq

\* A call hands over n frames: the block ends when it is full or n is 0, and
\* only then the caller hears of it.
LEMMA HandOverIs ==
  ASSUME IsSeq(delivered), count \in 0 .. (FrameLength - 1),
         NEW data, NEW n \in 0 .. Room, HandOver(data, n)
  PROVE  /\ IsSeq(delivered')
         /\ count' \in 0 .. (FrameLength - 1)
         /\ n = 0 \/ count + n = FrameLength =>
              /\ count' = 0
              /\ nread' = count + n
              /\ Len(delivered') = Len(delivered) + nread'
         /\ ~(n = 0 \/ count + n = FrameLength) =>
              count' = count + n /\ count' # 0 /\ UNCHANGED <<nread, delivered>>
<1> USE FrameLengthAssumption
<1> DEFINE filled == [k \in 1 .. FrameLength |->
                        IF k - count \in 1 .. Len(data) THEN data[k - count] ELSE ibuf[k]]
<1>1. IsSeq(filled) /\ Len(filled) = FrameLength
  BY FramesAreSeq
<1>2. n \in Nat /\ count + n \in 0 .. FrameLength /\ (CallEnds(n) <=> n = 0 \/ count + n = FrameLength)
  BY DEF Room, CallEnds
<1> HIDE DEF filled
<1>3. IsSeq(SubSeq(filled, 1, count + n)) /\ Len(SubSeq(filled, 1, count + n)) = count + n
  BY <1>1, <1>2, PartOf
<1>4. CASE CallEnds(n)
  <2>1. delivered' = delivered \o SubSeq(filled, 1, count + n) /\ count' = 0 /\ nread' = count + n
    BY <1>4 DEF HandOver, filled
  <2> QED
    BY <1>2, <1>3, <1>4, <2>1, Joined
<1>5. CASE ~CallEnds(n)
  <2>1. count' = count + n /\ UNCHANGED <<nread, delivered>>
    BY <1>5 DEF HandOver
  <2> QED
    BY <1>2, <1>5, <2>1
<1> QED
  BY <1>4, <1>5

-----------------------------------------------------------------------------
(***************************************************************************)
(* The invariant of the extrapolater: what its buffers hold between two    *)
(* calls, and how many frames are behind and ahead of the caller.          *)
(***************************************************************************)
Pending == buffer[Other(nbuffer)]

ReaderTypes ==
  /\ total \in Nat /\ srcpos \in 0 .. total
  /\ DOMAIN buffer = {0, 1} /\ IsSeq(buffer[0]) /\ IsSeq(buffer[1])
  /\ nbuffer \in {0, 1}
  /\ process \in {"process0", "process1", "process2", "process3"}
  /\ count \in 0 .. (FrameLength - 1)
  /\ nread \in Nat
  /\ IsSeq(delivered)

\* In process1 the caller is one block behind the source, and that block and
\* the one before it are in the buffers; the blocks before it were full.
OneBlockBehind ==
  /\ count = 0
  /\ Len(Pending) \in 1 .. FrameLength
  /\ srcpos < total => Len(Pending) = FrameLength
  /\ Len(delivered) = FrameLength + srcpos - Len(Pending)
  /\ \E n \in Nat :
       /\ srcpos - Len(Pending) = n * FrameLength
       /\ n = 0 => Len(buffer[nbuffer]) = 0
       /\ n > 0 => Len(buffer[nbuffer]) = FrameLength

BlocksInStep ==
  /\ srcpos = Lesser(total, Len(delivered))
  /\ process = "process0" => count = 0 /\ Len(delivered) = 0 /\ Len(Pending) = 0
  /\ process = "process1" => OneBlockBehind
  /\ process = "process2" =>
       /\ srcpos = total
       /\ Len(buffer[nbuffer]) \in 1 .. FrameLength
       /\ Len(delivered) + count + Len(buffer[nbuffer]) = ChainLength
  /\ process = "process3" => srcpos = total /\ Len(delivered) + count = ChainLength

ReaderInv == ReaderTypes /\ BlocksInStep

\* One finished pcm_read_frames(), as the contract has it.
BlockRead ==
  /\ nread' = IF Len(delivered) < ChainLength
                THEN Lesser(FrameLength, ChainLength - Len(delivered)) ELSE 0
  /\ Len(delivered') = Len(delivered) + nread'

\* The remainder of a number that is a multiple and some.
LEMMA RemainderIs ==
  ASSUME NEW n \in Nat, NEW d \in Nat \ {0}, NEW r \in 0 .. (d - 1)
  PROVE  (n * d + r) % d = r
  OBVIOUS

\* How long the chain is, when the last of n + 1 blocks holds rest frames.
LEMMA ChainLengthIs ==
  ASSUME NEW n \in Nat, NEW rest \in 1 .. FrameLength,
         total = n * FrameLength + rest
  PROVE  ChainLength = (IF n > 0 /\ rest < LpcSpan THEN total + 3 * FrameLength - rest
                                                    ELSE total + 2 * FrameLength)
<1> USE FrameLengthAssumption, LpcSpanAssumption
<1>1. CASE rest = FrameLength
  <2>1. n + 1 \in Nat /\ 0 \in 0 .. (FrameLength - 1) /\ total = (n + 1) * FrameLength + 0
    BY <1>1
  <2>2. ((n + 1) * FrameLength + 0) % FrameLength = 0
    BY <2>1, RemainderIs
  <2> QED
    BY <1>1, <2>1, <2>2 DEF ChainLength
<1>2. CASE rest < FrameLength
  <2>1. total % FrameLength = rest
    BY <1>2, RemainderIs
  <2>2. n > 0 <=> total > FrameLength
    <3>1. n = 0 => total = rest
      OBVIOUS
    <3>2. n > 0 => n * FrameLength >= FrameLength
      OBVIOUS
    <3> QED
      BY <1>2, <3>1, <3>2
  <2> QED
    BY <1>2, <2>1, <2>2 DEF ChainLength
<1> QED
  BY <1>1, <1>2

\* The chain is at least the source and two blocks long.
LEMMA ChainLengthBounds ==
  ASSUME total \in Nat
  PROVE  ChainLength \in (total + 2 * FrameLength) .. (total + 3 * FrameLength - 1)
<1> USE FrameLengthAssumption, LpcSpanAssumption
<1>1. total % FrameLength \in 0 .. (FrameLength - 1)
  OBVIOUS
<1> QED
  BY <1>1 DEF ChainLength

-----------------------------------------------------------------------------
(***************************************************************************)
(* The calls, one by one.                                                  *)
(***************************************************************************)
ReadAsPromised ==
  /\ ReaderInv'
  /\ count' = 0 => BlockRead
  /\ count' # 0 => UNCHANGED <<srcpos, nread, delivered>>

\* process0() hands out the lead and fetches the first block.
LEMMA Process0Step ==
  ASSUME ReaderInv, Process0, total' = total
  PROVE  ReadAsPromised
<1> USE FrameLengthAssumption, LpcSpanAssumption DEF ReaderInv
<1> DEFINE block == SourceBlock(Room)
<1>1. count = 0 /\ Len(delivered) = 0 /\ srcpos = 0 /\ Room = FrameLength /\ total \in Nat
  BY LesserIs DEF Process0, BlocksInStep, ReaderTypes, Room
<1>2. /\ IsSeq(block)
      /\ Len(block) = (IF FrameLength <= total THEN FrameLength ELSE total)
      /\ block = <<>> <=> total = 0
  <2>1. IsSeq(block) /\ Len(block) = (IF FrameLength <= total THEN FrameLength ELSE total)
    BY <1>1, SourceBlockIs
  <2> QED
    BY <1>1, <2>1, EmptyIs
<1>3. /\ count' = 0 /\ nread' = FrameLength
      /\ IsSeq(delivered') /\ Len(delivered') = FrameLength
  <2>1. HandOver(Lead(block, Room), Room)
    BY DEF Process0, LeadLength
  <2>2. IsSeq(delivered) /\ count \in 0 .. (FrameLength - 1) /\ Room \in 0 .. Room
    BY <1>1 DEF ReaderTypes
  <2> QED
    BY <1>1, <2>1, <2>2, HandOverIs
<1>4. ChainLength >= total + 2 * FrameLength /\ ChainLength \in Int
  BY <1>1, ChainLengthBounds
<1>5. BlockRead
  BY <1>1, <1>3, <1>4, LesserIs DEF BlockRead
<1>6. ChainLength' = ChainLength
  BY DEF ChainLength
<1> HIDE DEF block
<1>7. CASE total = 0
  <2>1. /\ buffer' = [buffer EXCEPT ![nbuffer] = Zeros(FrameLength)]
        /\ process' = "process2" /\ nbuffer' = nbuffer /\ srcpos' = 0
    BY <1>1, <1>2, <1>7 DEF Process0, block
  <2>2. IsSeq(Zeros(FrameLength)) /\ Len(Zeros(FrameLength)) = FrameLength
    BY FramesAreSeq DEF Zeros
  <2>3. ReaderTypes'
    BY <1>1, <1>3, <1>7, <2>1, <2>2 DEF ReaderTypes
  <2>4. ChainLength = 2 * FrameLength
    BY <1>7 DEF ChainLength
  <2>5. BlocksInStep'
    BY <1>1, <1>3, <1>6, <1>7, <2>1, <2>2, <2>4, LesserIs DEF BlocksInStep, ReaderTypes
  <2> QED
    BY <1>3, <1>5, <2>3, <2>5 DEF ReadAsPromised
<1>8. CASE total # 0
  <2>1. /\ buffer' = [buffer EXCEPT ![nbuffer] = block]
        /\ process' = "process1" /\ nbuffer' = Other(nbuffer) /\ srcpos' = Len(block)
    BY <1>1, <1>2, <1>8 DEF Process0, Fetch, block
  <2>2. ReaderTypes'
    BY <1>1, <1>2, <1>3, <1>8, <2>1 DEF ReaderTypes, Other
  <2>3. Pending' = block /\ buffer'[nbuffer'] = buffer[Other(nbuffer)]
    BY <2>1 DEF Pending, Other, ReaderTypes
  <2>4. Len(Pending') \in 1 .. FrameLength /\ (srcpos' < total => Len(Pending') = FrameLength)
    BY <1>1, <1>2, <1>8, <2>1, <2>3
  <2>5. Len(buffer'[nbuffer']) = 0
    BY <2>3 DEF BlocksInStep, Process0, Pending
  <2>6. OneBlockBehind'
    <3>1. srcpos' - Len(Pending') = 0 * FrameLength /\ 0 \in Nat
      BY <1>1, <1>2, <2>1, <2>3
    <3>2. /\ srcpos' - Len(Pending') = 0 * FrameLength
          /\ 0 = 0 => Len(buffer'[nbuffer']) = 0
          /\ 0 > 0 => Len(buffer'[nbuffer']) = FrameLength
      BY <2>5, <3>1
    <3>3. \E n \in Nat :
            /\ srcpos' - Len(Pending') = n * FrameLength
            /\ n = 0 => Len(buffer'[nbuffer']) = 0
            /\ n > 0 => Len(buffer'[nbuffer']) = FrameLength
      BY <3>2, Zenon
    <3>4. Len(delivered') = FrameLength + srcpos' - Len(Pending')
      BY <1>1, <1>2, <1>3, <2>1, <2>3
    <3>5. count' = 0 /\ total' = total
      BY <1>1, <1>3
    <3> QED
      BY <2>4, <3>3, <3>4, <3>5 DEF OneBlockBehind
  <2>7. srcpos' = Lesser(total', Len(delivered'))
    BY <1>1, <1>2, <1>3, <2>1, LesserIs
  <2>8. BlocksInStep'
    BY <2>1, <2>6, <2>7 DEF BlocksInStep
  <2> QED
    BY <1>3, <1>5, <2>2, <2>8 DEF ReadAsPromised
<1> QED
  BY <1>7, <1>8

\* process1() hands out a full block and fetches the next.
LEMMA Process1BlockStep ==
  ASSUME ReaderInv, Process1Block, total' = total
  PROVE  ReadAsPromised
<1> USE FrameLengthAssumption, LpcSpanAssumption DEF ReaderInv
<1> DEFINE block == SourceBlock(Room)
<1>1. /\ count = 0 /\ Room = FrameLength /\ total \in Nat /\ srcpos \in Nat /\ srcpos < total
      /\ Len(Pending) = FrameLength /\ Len(delivered) = srcpos
  BY DEF Process1Block, BlocksInStep, OneBlockBehind, ReaderTypes, Room
<1>2. /\ IsSeq(block)
      /\ Len(block) = (IF srcpos + FrameLength <= total THEN FrameLength ELSE total - srcpos)
      /\ block # <<>>
  <2>1. IsSeq(block) /\ Len(block) = (IF srcpos + FrameLength <= total THEN FrameLength ELSE total - srcpos)
    BY <1>1, SourceBlockIs
  <2> QED
    BY <1>1, <2>1, EmptyIs
<1>3. /\ count' = 0 /\ nread' = FrameLength
      /\ IsSeq(delivered') /\ Len(delivered') = srcpos + FrameLength
  <2>1. HandOver(Pending, Len(Pending))
    BY DEF Process1Block, Pending
  <2>2. IsSeq(delivered) /\ count \in 0 .. (FrameLength - 1) /\ Len(Pending) \in 0 .. Room
    BY <1>1 DEF ReaderTypes
  <2> QED
    BY <1>1, <2>1, <2>2, HandOverIs
<1>4. ChainLength >= total + 2 * FrameLength /\ ChainLength \in Int
  BY <1>1, ChainLengthBounds
<1>5. BlockRead
  BY <1>1, <1>3, <1>4, LesserIs DEF BlockRead
<1> HIDE DEF block
<1>6. /\ buffer' = [buffer EXCEPT ![nbuffer] = block]
      /\ process' = "process1" /\ nbuffer' = Other(nbuffer) /\ srcpos' = srcpos + Len(block)
  BY <1>2 DEF Process1Block, Fetch, block
<1>7. ReaderTypes'
  BY <1>1, <1>2, <1>3, <1>6 DEF ReaderTypes, Other
<1>8. Pending' = block /\ buffer'[nbuffer'] = Pending
  BY <1>6 DEF Pending, Other, ReaderTypes
<1>9. OneBlockBehind'
  <2>1. PICK n \in Nat : srcpos - Len(Pending) = n * FrameLength
    BY DEF Process1Block, BlocksInStep, OneBlockBehind
  <2>2. /\ n + 1 \in Nat /\ n + 1 > 0
        /\ srcpos' - Len(Pending') = (n + 1) * FrameLength
    <3>1. srcpos = n * FrameLength + FrameLength
      BY <1>1, <2>1
    <3>2. srcpos' - Len(Pending') = srcpos
      BY <1>1, <1>2, <1>6, <1>8
    <3> QED
      BY <3>1, <3>2
  <2>3. \E m \in Nat :
          /\ srcpos' - Len(Pending') = m * FrameLength
          /\ m = 0 => Len(buffer'[nbuffer']) = 0
          /\ m > 0 => Len(buffer'[nbuffer']) = FrameLength
    <3>1. WITNESS n + 1 \in Nat
    <3> QED
      BY <1>1, <1>8, <2>2
  <2>4. /\ Len(Pending') \in 1 .. FrameLength
        /\ srcpos' < total => Len(Pending') = FrameLength
        /\ Len(delivered') = FrameLength + srcpos' - Len(Pending')
    BY <1>1, <1>2, <1>3, <1>6, <1>8
  <2> QED
    BY <1>3, <2>3, <2>4 DEF OneBlockBehind
<1>10. srcpos' = Lesser(total', Len(delivered'))
  BY <1>1, <1>2, <1>3, <1>6, LesserIs
<1>11. BlocksInStep'
  BY <1>6, <1>9, <1>10 DEF BlocksInStep
<1> QED
  BY <1>3, <1>5, <1>7, <1>11 DEF ReadAsPromised

\* process1() at the end of the source: the block may be full, or be counted
\* as if it were, or be short; what is left of the chain is in the buffer.
LEMMA Process1EndStep ==
  ASSUME ReaderInv, Process1End, total' = total
  PROVE  ReadAsPromised
<1> USE FrameLengthAssumption, LpcSpanAssumption DEF ReaderInv
<1> DEFINE run == FinalRun(buffer[nbuffer], Pending)
<1>1. /\ count = 0 /\ Room = FrameLength /\ total \in Nat /\ srcpos = total
      /\ Len(Pending) \in 1 .. FrameLength /\ Len(delivered) = FrameLength + total - Len(Pending)
      /\ IsSeq(Pending) /\ IsSeq(buffer[nbuffer])
  BY DEF Process1End, BlocksInStep, OneBlockBehind, ReaderTypes, Room, Pending, Other
<1>2. PICK n \in Nat :
        /\ total - Len(Pending) = n * FrameLength
        /\ n = 0 => Len(buffer[nbuffer]) = 0
        /\ n > 0 => Len(buffer[nbuffer]) = FrameLength
  BY <1>1 DEF Process1End, BlocksInStep, OneBlockBehind
<1>3. /\ IsSeq(run)
      /\ Len(run) = (IF n > 0 /\ Len(Pending) < LpcSpan THEN FrameLength ELSE Len(Pending))
  <2>1. buffer[nbuffer] # <<>> <=> n > 0
    <3>1. buffer[nbuffer] = <<>> <=> Len(buffer[nbuffer]) = 0
      BY <1>1, EmptyIs
    <3> QED
      BY <1>2, <3>1
  <2> QED
    BY <1>1, <1>2, <2>1, FinalRunIs
<1>4. ChainLength = (IF n > 0 /\ Len(Pending) < LpcSpan THEN total + 3 * FrameLength - Len(Pending)
                                                       ELSE total + 2 * FrameLength)
  <2>1. total = n * FrameLength + Len(Pending)
    BY <1>1, <1>2
  <2> QED
    BY <1>1, <2>1, ChainLengthIs
<1> HIDE DEF run
<1>5. Len(run) \in 1 .. FrameLength
  BY <1>1, <1>3
<1>6. /\ IsSeq(delivered') /\ count' \in 0 .. (FrameLength - 1)
      /\ Len(run) = FrameLength =>
           /\ count' = 0 /\ nread' = FrameLength
           /\ Len(delivered') = Len(delivered) + FrameLength
      /\ Len(run) # FrameLength => count' = Len(run) /\ UNCHANGED <<nread, delivered>>
  <2>1. HandOver(Pending, Len(run))
    BY DEF Process1End, Pending, run
  <2>2. IsSeq(delivered) /\ count \in 0 .. (FrameLength - 1) /\ Len(run) \in 0 .. Room
    BY <1>1, <1>5 DEF ReaderTypes
  <2> QED
    BY <1>1, <1>5, <2>1, <2>2, HandOverIs
<1>7. /\ buffer' = [buffer EXCEPT ![Other(nbuffer)] = run,
                                  ![nbuffer] = Extrapolate(run, FrameLength)]
      /\ process' = "process2" /\ nbuffer' = nbuffer /\ srcpos' = total
  BY <1>1 DEF Process1End, run, Pending
<1>8. IsSeq(Extrapolate(run, FrameLength)) /\ Len(Extrapolate(run, FrameLength)) = FrameLength
  BY ExtrapolateIs
<1>9. ReaderTypes'
  <2>1. nread' \in Nat
    BY <1>6 DEF ReaderTypes
  <2> QED
    BY <1>1, <1>3, <1>6, <1>7, <1>8, <2>1 DEF ReaderTypes, Other
<1>10. Len(buffer'[nbuffer']) = FrameLength
  BY <1>7, <1>8 DEF ReaderTypes, Other
<1>11. ChainLength' = ChainLength
  BY DEF ChainLength
<1>12. Len(delivered') + count' + FrameLength = ChainLength
  <2>1. CASE Len(run) = FrameLength
    BY <1>1, <1>3, <1>4, <1>6, <2>1
  <2>2. CASE Len(run) # FrameLength
    BY <1>1, <1>3, <1>4, <1>6, <2>2
  <2> QED
    BY <2>1, <2>2
<1>13. Len(delivered') >= total /\ Len(delivered') \in Nat
  BY <1>1, <1>6, EmptyIs DEF ReaderTypes
<1>14. BlocksInStep'
  <2>1. srcpos' = Lesser(total', Len(delivered'))
    BY <1>1, <1>7, <1>13, LesserIs
  <2>2. Len(buffer'[nbuffer']) \in 1 .. FrameLength
    BY <1>10
  <2>3. Len(delivered') + count' + Len(buffer'[nbuffer']) = ChainLength'
    BY <1>10, <1>11, <1>12
  <2> QED
    BY <1>1, <1>7, <2>1, <2>2, <2>3 DEF BlocksInStep
<1>15. count' = 0 => BlockRead
  <2>1. count' = 0 => Len(run) = FrameLength
    BY <1>5, <1>6
  <2> QED
    BY <1>1, <1>4, <1>6, <2>1, LesserIs DEF BlockRead
<1>16. count' # 0 => UNCHANGED <<srcpos, nread, delivered>>
  BY <1>1, <1>6, <1>7
<1> QED
  BY <1>9, <1>14, <1>15, <1>16 DEF ReadAsPromised

\* What process2() has in its buffer, and what it hands out of it.
Ahead == buffer[nbuffer]
Piece == Lesser(Len(Ahead), Room)

\* process2() drains its buffer, into what is left of the caller's block.
LEMMA Process2Step ==
  ASSUME ReaderInv, Process2, total' = total
  PROVE  ReadAsPromised
<1> USE FrameLengthAssumption, LpcSpanAssumption DEF ReaderInv
<1>1. /\ total \in Nat /\ srcpos = total /\ count \in 0 .. (FrameLength - 1)
      /\ IsSeq(Ahead) /\ IsSeq(delivered)
      /\ Len(Ahead) \in 1 .. FrameLength
      /\ Len(delivered) + count + Len(Ahead) = ChainLength
  BY DEF Process2, BlocksInStep, ReaderTypes, Ahead
<1>2. Room = FrameLength - count /\ Room \in 1 .. FrameLength
  BY <1>1 DEF Room
<1>3. Piece = (IF Len(Ahead) <= Room THEN Len(Ahead) ELSE Room) /\ Piece \in 1 .. Room
  BY <1>1, <1>2, LesserIs DEF Piece
<1>4. Len(delivered) \in Nat /\ ChainLength \in Int /\ ChainLength >= total + 2 * FrameLength
  BY <1>1, EmptyIs, ChainLengthBounds
<1>5. ChainLength' = ChainLength
  BY DEF ChainLength
<1>6. HandOver(SubSeq(Ahead, 1, Piece), Piece)
  BY DEF Process2, Piece, Ahead
<1>7. /\ buffer' = [buffer EXCEPT ![nbuffer] = SubSeq(Ahead, Piece + 1, Len(Ahead))]
      /\ process' = (IF Piece = Len(Ahead) THEN "process3" ELSE "process2")
      /\ nbuffer' = nbuffer /\ srcpos' = srcpos
  BY DEF Process2, Drained, Piece, Ahead
<1>8. /\ IsSeq(delivered') /\ count' \in 0 .. (FrameLength - 1)
      /\ count + Piece = FrameLength => /\ count' = 0 /\ nread' = FrameLength
                                    /\ Len(delivered') = Len(delivered) + FrameLength
      /\ count + Piece # FrameLength => /\ count' = count + Piece /\ count' # 0
                                    /\ UNCHANGED <<nread, delivered>>
  <2>1. Piece \in 0 .. Room /\ Piece # 0
    BY <1>2, <1>3
  <2> QED
    BY <1>1, <1>6, <2>1, HandOverIs
<1>9. IsSeq(SubSeq(Ahead, Piece + 1, Len(Ahead))) /\ Len(SubSeq(Ahead, Piece + 1, Len(Ahead))) = Len(Ahead) - Piece
  <2>1. Piece + 1 \in 1 .. (Len(Ahead) + 1) /\ Len(Ahead) \in (Piece + 1 - 1) .. Len(Ahead)
    BY <1>1, <1>2, <1>3
  <2>2. Len(SubSeq(Ahead, Piece + 1, Len(Ahead))) = Len(Ahead) - (Piece + 1) + 1
        /\ IsSeq(SubSeq(Ahead, Piece + 1, Len(Ahead)))
    BY <1>1, <2>1, PartOf
  <2>3. Len(Ahead) - (Piece + 1) + 1 = Len(Ahead) - Piece
    BY <1>1, <1>2, <1>3
  <2> QED
    BY <2>2, <2>3
<1>10. ReaderTypes'
  <2>1. nread' \in Nat
    BY <1>8 DEF ReaderTypes
  <2> QED
    BY <1>7, <1>8, <1>9, <2>1 DEF ReaderTypes
<1>11. Len(delivered') + count' = Len(delivered) + count + Piece /\ Len(delivered') \in Nat
  <2>1. Piece \in Nat /\ count \in Nat /\ FrameLength \in Nat
    BY <1>1, <1>2, <1>3
  <2>2. CASE count + Piece = FrameLength
    BY <1>4, <1>8, <2>1, <2>2
  <2>3. CASE count + Piece # FrameLength
    BY <1>4, <1>8, <2>1, <2>3
  <2> QED
    BY <2>2, <2>3
<1>12. Len(delivered') >= total
  BY <1>1, <1>2, <1>3, <1>4, <1>8, <1>11
<1>13. srcpos' = Lesser(total', Len(delivered'))
  BY <1>1, <1>7, <1>11, <1>12, LesserIs
<1>14. Len(buffer'[nbuffer']) = Len(Ahead) - Piece
  BY <1>7, <1>9 DEF ReaderTypes
<1>15. BlocksInStep'
  <2>1. CASE Piece = Len(Ahead)
    BY <1>1, <1>5, <1>7, <1>11, <1>13, <2>1 DEF BlocksInStep
  <2>2. CASE Piece # Len(Ahead)
    <3>1. Len(buffer'[nbuffer']) \in 1 .. FrameLength
      BY <1>1, <1>2, <1>3, <1>14, <2>2
    <3>2. Len(delivered') + count' + Len(buffer'[nbuffer']) = ChainLength'
      BY <1>1, <1>2, <1>3, <1>4, <1>5, <1>8, <1>11, <1>14
    <3> QED
      BY <1>1, <1>7, <1>13, <2>2, <3>1, <3>2 DEF BlocksInStep
  <2> QED
    BY <2>1, <2>2
<1>16. count' = 0 => BlockRead
  <2>1. count' = 0 => count + Piece = FrameLength
    BY <1>8
  <2>2. count' = 0 => ChainLength - Len(delivered) >= FrameLength
    BY <1>1, <1>2, <1>3, <1>4, <2>1
  <2> QED
    BY <1>4, <1>8, <2>1, <2>2, LesserIs DEF BlockRead
<1>17. count' # 0 => UNCHANGED <<srcpos, nread, delivered>>
  BY <1>7, <1>8
<1> QED
  BY <1>10, <1>15, <1>16, <1>17 DEF ReadAsPromised

\* process3() ends the block the caller has begun, if any, and then has no more.
LEMMA Process3Step ==
  ASSUME ReaderInv, Process3, total' = total
  PROVE  ReadAsPromised
<1> USE FrameLengthAssumption, LpcSpanAssumption DEF ReaderInv
<1>1. /\ total \in Nat /\ srcpos = total /\ count \in 0 .. (FrameLength - 1)
      /\ IsSeq(delivered) /\ Len(delivered) + count = ChainLength
  BY DEF Process3, BlocksInStep, ReaderTypes
<1>2. Len(delivered) \in Nat /\ ChainLength \in Int /\ ChainLength >= total + 2 * FrameLength
  BY <1>1, EmptyIs, ChainLengthBounds
<1>3. /\ IsSeq(delivered') /\ count' = 0 /\ nread' = count
      /\ Len(delivered') = Len(delivered) + nread'
  <2>1. HandOver(<<>>, 0) /\ 0 \in 0 .. Room
    BY <1>1 DEF Process3, Room
  <2> QED
    BY <1>1, <2>1, HandOverIs
<1>4. UNCHANGED <<process, buffer, nbuffer, srcpos>>
  BY DEF Process3
<1>5. ReaderTypes'
  BY <1>1, <1>3, <1>4 DEF ReaderTypes
<1>6. srcpos' = Lesser(total', Len(delivered'))
  BY <1>1, <1>2, <1>3, <1>4, LesserIs
<1>7. Len(delivered') + count' = ChainLength'
  <2>1. ChainLength' = ChainLength
    BY DEF ChainLength
  <2> QED
    BY <1>1, <1>2, <1>3, <2>1
<1>8. BlocksInStep'
  BY <1>1, <1>4, <1>6, <1>7 DEF BlocksInStep, Process3
<1>9. BlockRead
  BY <1>1, <1>2, <1>3, LesserIs DEF BlockRead
<1> QED
  BY <1>3, <1>5, <1>8, <1>9 DEF ReadAsPromised

LEMMA ReadStep ==
  ASSUME ReaderInv, Read
  PROVE  ReadAsPromised
<1>1. total' = total
  BY DEF Read
<1> QED
  BY <1>1, Process0Step, Process1BlockStep, Process1EndStep, Process2Step, Process3Step DEF Read

-----------------------------------------------------------------------------
(***************************************************************************)
(* The invariant, and what follows from it.                                *)
(***************************************************************************)
\* Nothing of the reader moves in the other steps, but that an interruption
\* makes the loop take its latest block for the last.
LEMMA OtherSteps ==
  ASSUME ReaderInv, Check \/ LoopStep \/ Signal \/ Ended \/ UNCHANGED pipelineVars
  PROVE  ReaderInv'
<1>1. UNCHANGED <<total, srcpos, buffer, nbuffer, process, count, delivered>> /\ nread' \in {0, nread}
  BY DEF Check, LoopStep, Signal, Ended, pipelineVars, vars, Loop!CheckInterrupted
<1>2. ReaderTypes'
  BY <1>1 DEF ReaderInv, ReaderTypes
<1>3. BlocksInStep'
  <2>1. ChainLength' = ChainLength /\ Pending' = Pending
    BY <1>1 DEF ChainLength, Pending, Other
  <2>2. OneBlockBehind' <=> OneBlockBehind
    BY <1>1, <2>1 DEF OneBlockBehind
  <2> QED
    BY <1>1, <2>1, <2>2 DEF ReaderInv, BlocksInStep
<1> QED
  BY <1>2, <1>3 DEF ReaderInv

LEMMA InitInv == PipelineInit => ReaderInv
<1> USE FrameLengthAssumption, MaxFramesAssumption
<1> SUFFICES ASSUME PipelineInit PROVE ReaderInv
  OBVIOUS
<1>1. IsSeq(<<>>) /\ Len(<<>>) = 0
  BY EmptySeq, SeqOver
<1>2. ReaderTypes
  BY <1>1 DEF PipelineInit, Init, ReaderTypes
<1>3. BlocksInStep
  <2>1. Len(Pending) = 0 /\ Len(delivered) = 0 /\ srcpos = 0 /\ total \in Nat
    BY <1>1 DEF PipelineInit, Init, Pending, Other
  <2> QED
    BY <2>1, LesserIs DEF PipelineInit, Init, BlocksInStep
<1> QED
  BY <1>2, <1>3 DEF ReaderInv

\* Every frame is in its place between the source and the caller: behind, in a
\* buffer of the extrapolater, in the caller's unfinished block or handed out
\* (extrapolater.c).  The invariant behind the theorems below.
THEOREM ReaderInvariant == PipelineSpec => []ReaderInv
<1>1. ReaderInv /\ [PipelineNext]_pipelineVars => ReaderInv'
  BY ReadStep, OtherSteps DEF PipelineNext, PipelineStep, Pull, ReadAsPromised
<1> QED
  BY InitInv, <1>1, PTL DEF PipelineSpec

\* The assert of process1() (BlockFitsCaller) holds for every block length, every
\* span of the predictor and every source.
THEOREM BlocksFit == PipelineSpec => []BlockFitsCaller
<1>1. ReaderInv => BlockFitsCaller
  BY FrameLengthAssumption DEF ReaderInv, ReaderTypes, BlocksInStep, OneBlockBehind,
     BlockFitsCaller, Room, Pending
<1> QED
  BY ReaderInvariant, <1>1, PTL

\* The loop over the extrapolater takes the steps of the loop over the contract
\* (RefinesLoop), for every block length, span, delay and source: what the reader
\* does in several calls is one read of the contract, the excess of a joined
\* block included, and no call before the last one shows.
THEOREM PipelineRefinesLoop == PipelineSpec => RefinesLoop
<1> USE FrameLengthAssumption, MaxFramesAssumption, PipelineAssumption
<1>1. PipelineInit => Loop!Start
  <2> SUFFICES ASSUME PipelineInit PROVE Loop!Start
    OBVIOUS
  <2>1. /\ total \in 0 .. MaxFrames /\ srcpos = 0 /\ nread = 1 /\ Len(delivered) = 0
        /\ do_smart_padding(Profile) \in BOOLEAN /\ Failed \in BOOLEAN
    BY EmptySeq DEF PipelineInit, Init, Failed, do_smart_padding
  <2>2. ChainLength \in Loop!ChainLengths(do_smart_padding(Profile), total)
    BY <2>1, ChainLengthBounds DEF Loop!ChainLengths
  <2>3. Loop!Init
    BY <2>1, <2>2 DEF Loop!Init
  <2> QED
    BY <2>3 DEF PipelineInit, Loop!Start
<1>2. ReaderInv /\ Pull => [Loop!Run]_(Loop!vars)
  <2> SUFFICES ASSUME ReaderInv, Pull PROVE [Loop!Run]_(Loop!vars)
    OBVIOUS
  <2>1. /\ ReadAsPromised /\ nread > 0 /\ UNCHANGED total
        /\ pc = "read" /\ pc' = IF count' = 0 THEN "offer" ELSE "read"
        /\ UNCHANGED <<interrupted, remaining, fill, zeros, units, obuf, flip, encoded, out,
                       padding, result>>
    BY ReadStep DEF Pull, Read
  <2>2. ChainLength' = ChainLength /\ ChainLength \in Int /\ Len(delivered) \in Nat
    BY <2>1, ChainLengthBounds, EmptyIs DEF ChainLength, ReaderInv, ReaderTypes
  <2>3. ~Failed /\ ~Failed'
    BY <2>1 DEF ReadAsPromised, ReaderInv, ReaderTypes, Failed
  <2>4. CASE count' # 0
    BY <2>1, <2>2, <2>3, <2>4 DEF ReadAsPromised, Loop!vars, Loop!readerVars, Loop!encoderVars,
       Loop!outputVars, Failed
  <2>5. CASE count' = 0
    <3>1. nread' = Loop!Counted(Loop!Answer) /\ nread' \in Nat
      BY <2>1, <2>2, <2>3, <2>5, LesserIs
         DEF ReadAsPromised, BlockRead, Loop!Counted, Loop!Answer, Loop!Lesser
    <3>2. srcpos' = Loop!Lesser(total, Len(delivered'))
      BY <2>1, LesserIs DEF ReadAsPromised, ReaderInv, BlocksInStep, Loop!Lesser, Lesser
    <3>3. Loop!ReadFrames
      BY <2>1, <2>2, <2>3, <2>5, <3>1, <3>2 DEF ReadAsPromised, BlockRead, Loop!ReadFrames, Failed
    <3>4. Loop!PullBlock
      BY <2>1, <2>5, <3>1, <3>3 DEF Loop!PullBlock, Loop!encoderVars, Loop!outputVars
    <3> QED
      BY <3>4 DEF Loop!Run, Loop!Step
  <2> QED
    BY <2>4, <2>5
<1>3. Check \/ LoopStep \/ Signal \/ Ended => Loop!Run
  BY DEF Check, LoopStep, Signal, Ended, Loop!Run, Loop!Step
<1>4. UNCHANGED pipelineVars => UNCHANGED Loop!vars
  BY DEF pipelineVars, vars, loopVars, ChainLength, Failed, Loop!vars, Loop!readerVars,
     Loop!encoderVars, Loop!outputVars
<1>5. ReaderInv /\ [PipelineNext]_pipelineVars => [Loop!Run]_(Loop!vars)
  BY <1>2, <1>3, <1>4 DEF PipelineNext, PipelineStep
<1> QED
  BY ReaderInvariant, <1>1, <1>5, PTL DEF PipelineSpec, RefinesLoop

-----------------------------------------------------------------------------
(***************************************************************************)
(* The lead.                                                               *)
(***************************************************************************)
\* What has been handed out stays as it was.
Kept ==
  /\ Len(delivered') >= Len(delivered)
  /\ \A k \in 1 .. Len(delivered) : delivered'[k] = delivered[k]

LEMMA HandOverKeeps ==
  ASSUME IsSeq(delivered), count \in Int, NEW data, NEW n \in Int, HandOver(data, n)
  PROVE  Kept
<1> DEFINE filled == [k \in 1 .. FrameLength |->
                        IF k - count \in 1 .. Len(data) THEN data[k - count] ELSE ibuf[k]]
           part == SubSeq(filled, 1, count + n)
           S == {filled[k] : k \in 1 .. (count + n)}
<1>1. delivered' = delivered \/ delivered' = delivered \o part
  BY DEF HandOver
<1>2. IsSeq(part) /\ Len(part) \in Nat
  <2>1. \A k \in 1 .. (count + n) : filled[k] \in S
    OBVIOUS
  <2> HIDE DEF S, filled
  <2>2. part \in Seq(S)
    BY <2>1, SubSeqProperties
  <2> QED
    BY <2>2, SeqOver
<1>3. Len(delivered) \in Nat
  BY EmptyIs
<1> HIDE DEF part
<1> QED
  BY <1>1, <1>2, <1>3, Joined DEF Kept

LEMMA ReadKeeps ==
  ASSUME ReaderInv, Read
  PROVE  Kept
<1> USE FrameLengthAssumption, LpcSpanAssumption
<1>1. /\ IsSeq(delivered) /\ count \in Int /\ Room \in Int
      /\ IsSeq(buffer[nbuffer]) /\ IsSeq(Pending)
      /\ Len(buffer[nbuffer]) \in Int /\ Len(Pending) \in Int
  BY EmptyIs DEF ReaderInv, ReaderTypes, Room, Pending, Other
<1>2. CASE Process0
  BY <1>1, <1>2, HandOverKeeps DEF Process0, LeadLength
<1>3. CASE Process1Block
  BY <1>1, <1>3, HandOverKeeps DEF Process1Block, Pending
<1>4. CASE Process1End
  <2>1. Len(FinalRun(buffer[nbuffer], Pending)) \in Int
    BY <1>1, FinalRunIs
  <2>2. HandOver(Pending, Len(FinalRun(buffer[nbuffer], Pending)))
    BY <1>4 DEF Process1End, Pending
  <2> QED
    BY <1>1, <2>1, <2>2, HandOverKeeps
<1>5. CASE Process2
  <2>1. HandOver(SubSeq(Ahead, 1, Piece), Piece)
    BY <1>5 DEF Process2, Ahead, Piece
  <2>2. Piece \in Int
    BY <1>1, LesserIs DEF Piece, Ahead
  <2> QED
    BY <1>1, <2>1, <2>2, HandOverKeeps
<1>6. CASE Process3
  BY <1>1, <1>6, HandOverKeeps DEF Process3
<1> QED
  BY <1>2, <1>3, <1>4, <1>5, <1>6 DEF Read

\* The frame at place k of the lead.
LeadFrame(k) ==
  LET basis == Lesser(FrameLength, total)
  IN  IF basis < LpcSpan THEN Silence ELSE Predicted(Reverse(Frames(1, basis)), FrameLength + 1 - k)

LeadDone ==
  process # "process0" =>
    /\ Len(delivered) >= FrameLength
    /\ \A k \in 1 .. FrameLength : delivered[k] = LeadFrame(k)

\* What process0() hands out: two reversals put the prediction in its place.
LEMMA LeadIs ==
  ASSUME total \in Nat, srcpos = 0
  PROVE  /\ Len(Lead(SourceBlock(FrameLength), FrameLength)) = FrameLength
         /\ \A k \in 1 .. FrameLength :
              Lead(SourceBlock(FrameLength), FrameLength)[k] = LeadFrame(k)
<1> USE FrameLengthAssumption, LpcSpanAssumption
<1> DEFINE basis == Lesser(FrameLength, total)
           first == Frames(1, basis)
           beyond == Extrapolate(Reverse(first), FrameLength)
<1>1. basis \in Nat /\ SourceBlock(FrameLength) = first
  <2>1. Lesser(0 + FrameLength, total) = basis /\ basis \in Nat
    BY LesserIs
  <2> QED
    BY <2>1 DEF SourceBlock
<1> HIDE DEF basis
<1>2. IsSeq(first) /\ Len(first) = basis
  <2>1. basis - 1 + 1 = basis
    BY <1>1
  <2> QED
    BY <1>1, <2>1, FramesAreSeq DEF Frames
<1> HIDE DEF first
<1>3. Len(Reverse(first)) = basis
  BY <1>1, <1>2, FramesAreSeq DEF Reverse
<1>4. Len(beyond) = FrameLength
  BY ExtrapolateIs
<1>5. \A k \in 1 .. FrameLength :
        beyond[k] = IF basis < LpcSpan THEN Silence ELSE Predicted(Reverse(first), k)
  BY <1>3 DEF Extrapolate, TooShort, Zeros
<1>6. Lead(first, FrameLength) = Reverse(beyond)
  BY DEF Lead
<1> HIDE DEF beyond
<1>7. /\ Len(Reverse(beyond)) = FrameLength
      /\ \A k \in 1 .. FrameLength : Reverse(beyond)[k] = beyond[FrameLength + 1 - k]
  <2>1. Reverse(beyond) = [k \in 1 .. FrameLength |-> beyond[(FrameLength - k) + 1]]
    BY <1>4 DEF Reverse
  <2>2. \A k \in 1 .. FrameLength : (FrameLength - k) + 1 = FrameLength + 1 - k
    OBVIOUS
  <2> QED
    BY <2>1, <2>2, FramesAreSeq
<1>8. \A k \in 1 .. FrameLength : FrameLength + 1 - k \in 1 .. FrameLength
  OBVIOUS
<1> QED
  BY <1>1, <1>5, <1>6, <1>7, <1>8 DEF LeadFrame, basis, first

LEMMA LeadStep ==
  ASSUME ReaderInv, LeadDone, Read
  PROVE  LeadDone'
<1> USE FrameLengthAssumption
<1>1. \A k \in 1 .. FrameLength : LeadFrame(k)' = LeadFrame(k)
  BY DEF Read, LeadFrame
<1>2. CASE process = "process0"
  <2> DEFINE lead == Lead(SourceBlock(FrameLength), FrameLength)
             filled == [k \in 1 .. FrameLength |->
                          IF k - count \in 1 .. Len(lead) THEN lead[k - count] ELSE ibuf[k]]
  <2>1. /\ Process0 /\ count = 0 /\ Room = FrameLength /\ IsSeq(delivered)
        /\ Len(delivered) = 0 /\ srcpos = 0 /\ total \in Nat
    BY <1>2, LesserIs DEF Read, Process0, Process1Block, Process1End, Process2, Process3,
       ReaderInv, ReaderTypes, BlocksInStep, Room
  <2>2. Len(lead) = FrameLength /\ \A k \in 1 .. FrameLength : lead[k] = LeadFrame(k)
    BY <2>1, LeadIs
  <2>3. HandOver(lead, FrameLength)
    BY <2>1 DEF Process0, LeadLength
  <2> HIDE DEF lead
  <2>4. delivered' = delivered \o SubSeq(filled, 1, FrameLength)
    BY <2>1, <2>3 DEF HandOver, CallEnds
  <2>5. IsSeq(filled) /\ Len(filled) = FrameLength
        /\ \A k \in 1 .. FrameLength : filled[k] = lead[k]
    BY <2>1, <2>2, FramesAreSeq
  <2> HIDE DEF filled
  <2>6. SubSeq(filled, 1, FrameLength) = filled
    BY <2>5, SubSeqFull DEF IsSeq
  <2>7. delivered' = filled
    <3>1. delivered = <<>>
      BY <2>1, EmptyIs
    <3> QED
      BY <2>4, <2>5, <2>6, <3>1, ConcatEmptySeq DEF IsSeq
  <2> QED
    BY <1>1, <2>2, <2>5, <2>7 DEF LeadDone
<1>3. CASE process # "process0"
  <2>1. Len(delivered) \in Nat /\ Len(delivered') \in Nat
    BY ReadStep, EmptyIs DEF ReaderInv, ReaderTypes, ReadAsPromised
  <2>2. Kept
    BY ReadKeeps
  <2> QED
    BY <1>1, <1>3, <2>1, <2>2 DEF LeadDone, Kept
<1> QED
  BY <1>2, <1>3

\* The first block the encoder gets adjoins the source backwards (LeadAdjoinsSource),
\* for every block length, span and source, and stays what it was.
THEOREM LeadAdjoins == PipelineSpec => []LeadAdjoinsSource
<1>1. PipelineInit => LeadDone
  BY DEF PipelineInit, Init, LeadDone
<1>2. ReaderInv /\ LeadDone /\ [PipelineNext]_pipelineVars => LeadDone'
  <2> SUFFICES ASSUME ReaderInv, LeadDone, [PipelineNext]_pipelineVars PROVE LeadDone'
    OBVIOUS
  <2>1. CASE Pull
    BY <2>1, LeadStep DEF Pull
  <2>2. CASE UNCHANGED <<process, total, delivered>>
    BY <2>2 DEF LeadDone, LeadFrame
  <2> QED
    BY <2>1, <2>2 DEF PipelineNext, PipelineStep, Check, LoopStep, Signal, Ended, pipelineVars, vars
<1>3. ReaderInv /\ LeadDone => LeadAdjoinsSource
  <2> SUFFICES ASSUME ReaderInv, LeadDone, delivered # <<>>
               PROVE  \A k \in 1 .. FrameLength : delivered[k] = LeadFrame(k)
    BY DEF LeadAdjoinsSource, LeadFrame
  <2>1. process # "process0"
    BY EmptyIs DEF ReaderInv, ReaderTypes, BlocksInStep
  <2> QED
    BY <2>1 DEF LeadDone
<1> QED
  BY ReaderInvariant, <1>1, <1>2, <1>3, PTL DEF PipelineSpec

-----------------------------------------------------------------------------
(***************************************************************************)
(* What is handed out.                                                     *)
(***************************************************************************)
\* How many frames the tail is predicted from, of a source of n frames that the
\* predictor can work from: the final block, or as many as a block has.
RunLength(n) ==
  IF n % FrameLength >= LpcSpan THEN n % FrameLength ELSE FrameLength

\* The frame at place k of the tail.
TailFrame(n, k) ==
  IF n < LpcSpan THEN Silence
                 ELSE Predicted(Frames(n - RunLength(n) + 1, n), k)

\* Frame x at place j of what is handed out of n source frames is the one that
\* belongs there, if the place is one of the source or of the tail, which is the
\* last block of the chain of c frames.
Fits(n, c, j, x) ==
  /\ j - FrameLength \in 1 .. n => x = Source(j - FrameLength)
  /\ j - (c - FrameLength) \in 1 .. FrameLength =>
       x = TailFrame(n, j - (c - FrameLength))

\* What was handed out, in whole blocks or to the call that is not finished,
\* is in its place.
HandedFits ==
  /\ \A j \in 1 .. Len(delivered) : Fits(total, ChainLength, j, delivered[j])
  /\ \A k \in 1 .. count : Fits(total, ChainLength, Len(delivered) + k, ibuf[k])

\* What waits in the buffers is what has to come next, and the block before it.
AheadFits ==
  /\ process = "process1" =>
       /\ \A k \in 1 .. Len(Pending) :
            Pending[k] = Source(srcpos - Len(Pending) + k)
       /\ \A k \in 1 .. Len(buffer[nbuffer]) :
            buffer[nbuffer][k]
              = Source(srcpos - Len(Pending) - Len(buffer[nbuffer]) + k)
  /\ process = "process2" =>
       \A k \in 1 .. Len(buffer[nbuffer]) :
         buffer[nbuffer][k] = TailFrame(total, FrameLength - Len(buffer[nbuffer]) + k)

DataInv == HandedFits /\ AheadFits

\* A call that hands out what belongs there leaves everything in its place.
LEMMA HandOverFits ==
  ASSUME IsSeq(delivered), count \in 0 .. (FrameLength - 1), total' = total,
         NEW data, Len(data) \in Nat, NEW n \in 0 .. Room, HandOver(data, n), HandedFits,
         \A k \in 1 .. n :
           Fits(total, ChainLength, Len(delivered) + count + k,
                IF k \in 1 .. Len(data) THEN data[k] ELSE ibuf[count + k])
  PROVE  HandedFits'
<1> USE FrameLengthAssumption
<1> DEFINE filled == [k \in 1 .. FrameLength |->
                        IF k - count \in 1 .. Len(data) THEN data[k - count] ELSE ibuf[k]]
<1>1. PICK l \in Nat, c \in Nat, d \in Nat :
        l = Len(delivered) /\ c = count /\ d = Len(data)
  <2>1. Len(delivered) \in Nat /\ Len(data) \in Nat /\ count \in Nat
    BY EmptyIs
  <2> QED
    BY <2>1
<1>2. n \in Nat /\ c + n <= FrameLength
  BY <1>1 DEF Room
<1>3. IsSeq(filled) /\ Len(filled) = FrameLength
  BY FramesAreSeq
<1>4. ASSUME NEW k \in 1 .. (c + n)
      PROVE  Fits(total, ChainLength, l + k, filled[k])
  <2>1. CASE k \in 1 .. c
    <3>1. filled[k] = ibuf[k]
      BY <1>1, <1>2, <2>1
    <3> QED
      BY <1>1, <2>1, <3>1 DEF HandedFits
  <2>2. CASE k \in (c + 1) .. (c + n)
    <3>1. PICK m \in 1 .. n : k = c + m
      <4>1. k - c \in 1 .. n /\ k = c + (k - c)
        BY <2>2
      <4> QED
        BY <4>1
    <3>2. k - c = m /\ l + c + m = l + k /\ k \in 1 .. FrameLength
      BY <1>2, <3>1
    <3>3. filled[k] = IF m \in 1 .. d THEN data[m] ELSE ibuf[c + m]
      BY <1>1, <3>1, <3>2
    <3> QED
      BY <1>1, <3>1, <3>2, <3>3
  <2> QED
    BY <1>2, <2>1, <2>2
<1>5. ChainLength' = ChainLength
  BY DEF ChainLength
<1> HIDE DEF filled
<1>6. CASE CallEnds(n)
  <2>1. delivered' = delivered \o SubSeq(filled, 1, c + n) /\ count' = 0
    BY <1>1, <1>6 DEF HandOver, filled
  <2>2. PICK part : part = SubSeq(filled, 1, c + n)
    OBVIOUS
  <2>3. IsSeq(part) /\ Len(part) = c + n /\ \A k \in 1 .. (c + n) : part[k] = filled[k]
    <3>1. filled \in Seq(ToSet(filled))
      BY <1>3 DEF IsSeq
    <3>2. IsSeq(part) /\ Len(part) = c + n
      BY <1>2, <1>3, <2>2, PartOf
    <3>3. \A k \in 1 .. (c + n) : part[k] = filled[k]
      BY <1>2, <1>3, <2>2, <3>1
    <3> QED
      BY <3>2, <3>3
  <2>4. /\ Len(delivered') = l + (c + n)
        /\ \A k \in 1 .. l : delivered'[k] = delivered[k]
        /\ \A k \in 1 .. (c + n) : delivered'[l + k] = part[k]
    <3>1. delivered' = delivered \o part
      BY <2>1, <2>2
    <3>3. IsSeq(delivered) /\ IsSeq(part)
      BY ONLY <2>3, IsSeq(delivered)
    <3>2. /\ Len(delivered \o part) = Len(delivered) + Len(part)
          /\ \A k \in 1 .. Len(delivered) : (delivered \o part)[k] = delivered[k]
          /\ \A k \in 1 .. Len(part) : (delivered \o part)[Len(delivered) + k] = part[k]
      BY ONLY <3>3, Joined
    <3> QED
      BY <1>1, <2>3, <3>1, <3>2
  <2>5. ASSUME NEW j \in 1 .. (l + (c + n))
        PROVE  Fits(total, ChainLength, j, delivered'[j])
    <3>1. CASE j \in 1 .. l
      BY <1>1, <2>4, <3>1 DEF HandedFits
    <3>2. CASE j \in (l + 1) .. (l + (c + n))
      <4>1. j - l \in 1 .. (c + n) /\ l + (j - l) = j
        BY <1>2, <3>2
      <4>2. delivered'[l + (j - l)] = filled[j - l]
        BY <2>3, <2>4, <4>1
      <4> QED
        BY <1>4, <4>1, <4>2
    <3> QED
      BY <1>2, <3>1, <3>2
  <2>6. \A k \in 1 .. count' : FALSE
    BY <2>1
  <2> QED
    BY <1>5, <2>4, <2>5, <2>6 DEF HandedFits
<1>7. CASE ~CallEnds(n)
  <2>1. count' = c + n /\ delivered' = delivered /\ ibuf' = filled
    BY <1>1, <1>7 DEF HandOver, filled
  <2> QED
    BY <1>1, <1>4, <1>5, <2>1 DEF HandedFits
<1> QED
  BY <1>6, <1>7

\* Nothing is said of the first block, nor of what lies between source and tail.
LEMMA FitsElsewhere ==
  ASSUME NEW n \in Nat, NEW c \in Int, NEW j \in Int, NEW x,
         j <= FrameLength \/ j > FrameLength + n, j <= c - FrameLength
  PROVE  Fits(n, c, j, x)
  BY FrameLengthAssumption DEF Fits

\* What the source yields is what stands next in it.
LEMMA SourceBlockHolds ==
  ASSUME NEW n \in Nat, total \in Nat, srcpos \in 0 .. total
  PROVE  \A k \in 1 .. Len(SourceBlock(n)) : SourceBlock(n)[k] = Source(srcpos + k)
<1>1. PICK e \in Int : e = Lesser(srcpos + n, total)
  BY LesserIs
<1>2. SourceBlock(n) = [k \in 1 .. (e - (srcpos + 1) + 1) |-> Source(srcpos + 1 + k - 1)]
  BY <1>1 DEF SourceBlock, Frames
<1>3. IsSeq(SourceBlock(n)) /\ Len(SourceBlock(n)) = e - (srcpos + 1) + 1
  <2>1. e - (srcpos + 1) + 1 \in Nat
    BY <1>1, LesserIs
  <2> QED
    BY <1>2, <2>1, FramesAreSeq
<1>4. ASSUME NEW k \in 1 .. Len(SourceBlock(n))
      PROVE  SourceBlock(n)[k] = Source(srcpos + k)
  <2>1. srcpos + 1 + k - 1 = srcpos + k
    BY <1>1, <1>3
  <2> QED
    BY <1>2, <1>3, <2>1
<1> QED
  BY <1>4

\* process0() puts nothing of the source into the lead.
LEMMA DataProcess0 ==
  ASSUME ReaderInv, DataInv, Process0, total' = total
  PROVE  DataInv'
<1> USE FrameLengthAssumption, LpcSpanAssumption DEF ReaderInv
<1> DEFINE block == SourceBlock(FrameLength)
<1>1. count = 0 /\ Len(delivered) = 0 /\ srcpos = 0 /\ Room = FrameLength /\ total \in Nat
  BY LesserIs DEF Process0, BlocksInStep, ReaderTypes, Room
<1>2. /\ IsSeq(block)
      /\ Len(block) = (IF FrameLength <= total THEN FrameLength ELSE total)
      /\ block = <<>> <=> total = 0
  <2>1. IsSeq(block) /\ Len(block) = (IF FrameLength <= total THEN FrameLength ELSE total)
    BY <1>1, SourceBlockIs
  <2> QED
    BY <1>1, <2>1, EmptyIs
<1>3. \A k \in 1 .. Len(block) : block[k] = Source(k)
  BY <1>1, <1>2, SourceBlockHolds
<1>4. HandedFits'
  <2>1. PICK lead : lead = Lead(block, FrameLength) /\ Len(lead) = FrameLength
    BY <1>1, LeadIs
  <2>2. HandOver(lead, FrameLength) /\ FrameLength \in 0 .. Room
    BY <1>1, <2>1 DEF Process0, LeadLength
  <2>3. ASSUME NEW k \in 1 .. FrameLength
        PROVE  Fits(total, ChainLength, Len(delivered) + count + k,
                    IF k \in 1 .. Len(lead) THEN lead[k] ELSE ibuf[count + k])
    <3>1. ChainLength \in Int /\ ChainLength >= total + 2 * FrameLength
      BY <1>1, ChainLengthBounds
    <3>2. Len(delivered) + count + k = k
      BY <1>1
    <3> QED
      BY <1>1, <3>1, <3>2, FitsElsewhere
  <2> QED
    BY <1>1, <2>1, <2>2, <2>3, HandOverFits DEF DataInv, ReaderTypes
<1> HIDE DEF block
<1>5. CASE total = 0
  <2>1. /\ buffer' = [buffer EXCEPT ![nbuffer] = Zeros(FrameLength)]
        /\ process' = "process2" /\ nbuffer' = nbuffer
    BY <1>1, <1>2, <1>5 DEF Process0, block
  <2>2. buffer'[nbuffer'] = Zeros(FrameLength)
    BY <2>1 DEF ReaderTypes
  <2>3. /\ Len(Zeros(FrameLength)) = FrameLength
        /\ \A k \in 1 .. FrameLength : Zeros(FrameLength)[k] = Silence
    BY FramesAreSeq DEF Zeros
  <2>4. \A k \in Int : TailFrame(total, k) = Silence
    BY <1>5 DEF TailFrame
  <2>5. ASSUME NEW k \in 1 .. Len(buffer'[nbuffer'])
        PROVE  buffer'[nbuffer'][k]
                 = TailFrame(total', FrameLength - Len(buffer'[nbuffer']) + k)
    <3>1. k \in 1 .. FrameLength /\ FrameLength - Len(buffer'[nbuffer']) + k \in Int
      BY <2>2, <2>3
    <3> QED
      BY <2>2, <2>3, <2>4, <3>1
  <2>6. AheadFits'
    BY <2>1, <2>5 DEF AheadFits
  <2> QED
    BY <1>4, <2>6 DEF DataInv
<1>6. CASE total # 0
  <2>1. /\ buffer' = [buffer EXCEPT ![nbuffer] = block]
        /\ process' = "process1" /\ nbuffer' = Other(nbuffer) /\ srcpos' = Len(block)
    BY <1>1, <1>2, <1>6 DEF Process0, Fetch, block
  <2>2. Pending' = block /\ buffer'[nbuffer'] = Pending
    BY <2>1 DEF Pending, Other, ReaderTypes
  <2>3. Len(buffer'[nbuffer']) = 0
    BY <2>2 DEF BlocksInStep, Process0
  <2>4. PICK l \in Nat : l = Len(block)
    BY <1>1, <1>2
  <2>5. \A k \in 1 .. l : l - l + k = k
    OBVIOUS
  <2>6. \A k \in 1 .. Len(Pending') : Pending'[k] = Source(srcpos' - Len(Pending') + k)
    BY <1>3, <2>1, <2>2, <2>4, <2>5
  <2>7. AheadFits'
    <3>1. ASSUME NEW k \in 1 .. Len(buffer'[nbuffer']) PROVE FALSE
      BY <2>3
    <3>2. process' # "process2"
      BY <2>1
    <3> QED
      BY <2>6, <3>1, <3>2 DEF AheadFits
  <2> QED
    BY <1>4, <2>7 DEF DataInv
<1> QED
  BY <1>5, <1>6

\* process1() hands out the frames that follow what it has handed out.
LEMMA DataProcess1Block ==
  ASSUME ReaderInv, DataInv, Process1Block, total' = total
  PROVE  DataInv'
<1> USE FrameLengthAssumption, LpcSpanAssumption DEF ReaderInv
<1> DEFINE block == SourceBlock(FrameLength)
<1>1. /\ count = 0 /\ Room = FrameLength /\ total \in Nat /\ srcpos \in Nat /\ srcpos < total
      /\ Len(Pending) = FrameLength /\ Len(delivered) = srcpos
  BY DEF Process1Block, BlocksInStep, OneBlockBehind, ReaderTypes, Room
<1>2. IsSeq(block) /\ Len(block) \in Nat /\ block # <<>>
  <2>1. /\ IsSeq(block)
        /\ Len(block) = (IF srcpos + FrameLength <= total THEN FrameLength ELSE total - srcpos)
    BY <1>1, SourceBlockIs
  <2> QED
    BY <1>1, <2>1, EmptyIs
<1>3. \A k \in 1 .. Len(block) : block[k] = Source(srcpos + k)
  BY <1>1, SourceBlockHolds
<1>4. \A k \in 1 .. FrameLength : Pending[k] = Source(srcpos - FrameLength + k)
  BY <1>1 DEF Process1Block, DataInv, AheadFits
<1>5. HandedFits'
  <2>1. HandOver(Pending, FrameLength) /\ FrameLength \in 0 .. Room /\ Len(Pending) \in Nat
    BY <1>1 DEF Process1Block, Pending
  <2>2. ASSUME NEW k \in 1 .. FrameLength
        PROVE  Fits(total, ChainLength, Len(delivered) + count + k,
                    IF k \in 1 .. Len(Pending) THEN Pending[k] ELSE ibuf[count + k])
    <3>1. PICK c \in Int : c = ChainLength /\ c >= total + 2 * FrameLength
      BY <1>1, ChainLengthBounds
    <3>2. /\ Len(delivered) + count + k = srcpos + k
          /\ srcpos + k - FrameLength = srcpos - FrameLength + k
          /\ srcpos + k - (c - FrameLength) <= 0
      BY <1>1, <3>1
    <3> QED
      BY <1>1, <1>4, <3>1, <3>2 DEF Fits
  <2> QED
    BY <1>1, <2>1, <2>2, HandOverFits DEF DataInv, ReaderTypes
<1> HIDE DEF block
<1>6. /\ buffer' = [buffer EXCEPT ![nbuffer] = block]
      /\ process' = "process1" /\ nbuffer' = Other(nbuffer) /\ srcpos' = srcpos + Len(block)
  BY <1>1, <1>2 DEF Process1Block, Fetch, block
<1>7. Pending' = block /\ buffer'[nbuffer'] = Pending
  BY <1>6 DEF Pending, Other, ReaderTypes
<1>8. PICK l \in Nat : l = Len(block)
  BY <1>2
<1>9. ASSUME NEW k \in 1 .. Len(Pending')
      PROVE  Pending'[k] = Source(srcpos' - Len(Pending') + k)
  <2>1. srcpos' - Len(Pending') + k = srcpos + k
    BY <1>1, <1>6, <1>7, <1>8
  <2> QED
    BY <1>3, <1>7, <2>1
<1>10. ASSUME NEW k \in 1 .. Len(buffer'[nbuffer'])
       PROVE  buffer'[nbuffer'][k]
                = Source(srcpos' - Len(Pending') - Len(buffer'[nbuffer']) + k)
  <2>0. /\ Len(Pending') = l /\ Len(buffer'[nbuffer']) = FrameLength
        /\ srcpos' = srcpos + l /\ k \in Int /\ srcpos \in Nat
    BY <1>1, <1>6, <1>7, <1>8
  <2>1. srcpos' - Len(Pending') - Len(buffer'[nbuffer']) + k = srcpos - FrameLength + k
    BY ONLY <2>0, l \in Nat, FrameLengthAssumption
  <2> QED
    BY <1>1, <1>4, <1>7, <2>1
<1> QED
  BY <1>5, <1>6, <1>9, <1>10 DEF DataInv, AheadFits

\* The run the tail is predicted from ends in the last frame of the source: it is
\* the final block, or a block's worth of frames when that is too short.
LEMMA LastRun ==
  ASSUME ReaderInv, Process1End,
         NEW run, run = FinalRun(buffer[nbuffer], Pending), DataInv
  PROVE  /\ IsSeq(run)
         /\ Len(run) \in 1 .. FrameLength
         /\ Len(run) = (IF total < LpcSpan THEN total ELSE RunLength(total))
         /\ \/ Len(run) = Len(Pending)
            \/ Len(run) = FrameLength /\ ChainLength = total + 3 * FrameLength - Len(Pending)
         /\ \A k \in 1 .. Len(run) : run[k] = Source(total - Len(run) + k)
<1> USE FrameLengthAssumption, LpcSpanAssumption DEF ReaderInv
<1>1. /\ total \in Nat /\ srcpos = total
      /\ Len(Pending) \in 1 .. FrameLength
      /\ IsSeq(Pending) /\ IsSeq(buffer[nbuffer])
  BY DEF Process1End, BlocksInStep, OneBlockBehind, ReaderTypes, Room, Pending, Other
<1>2. PICK p \in 1 .. FrameLength, b \in Nat, n \in Nat :
        /\ p = Len(Pending) /\ b = Len(buffer[nbuffer])
        /\ total - p = n * FrameLength
        /\ n = 0 => b = 0
        /\ n > 0 => b = FrameLength
  BY <1>1, EmptyIs DEF Process1End, BlocksInStep, OneBlockBehind
<1>3. total = n * FrameLength + p /\ n * FrameLength \in Nat
  BY <1>1, <1>2
<1>4. n > 0 => n * FrameLength >= FrameLength
  BY <1>2
<1>5. buffer[nbuffer] # <<>> <=> n > 0
  <2>1. buffer[nbuffer] = <<>> <=> b = 0
    BY <1>1, <1>2, EmptyIs
  <2> QED
    BY <1>2, <2>1
<1>6. /\ \A k \in 1 .. p : Pending[k] = Source(total - p + k)
      /\ \A k \in 1 .. b : buffer[nbuffer][k] = Source(total - p - b + k)
  BY <1>1, <1>2 DEF Process1End, DataInv, AheadFits
<1>7. ChainLength = (IF n > 0 /\ p < LpcSpan THEN total + 3 * FrameLength - p
                                             ELSE total + 2 * FrameLength)
  BY <1>2, <1>3, ChainLengthIs
<1>8. RunLength(total) = IF p >= LpcSpan THEN p ELSE FrameLength
  <2>1. CASE p = FrameLength
    <3>1. n + 1 \in Nat /\ 0 \in 0 .. (FrameLength - 1) /\ total = (n + 1) * FrameLength + 0
      BY <1>2, <1>3, <2>1
    <3>2. total % FrameLength = 0
      BY <3>1, RemainderIs
    <3> QED
      BY <2>1, <3>2 DEF RunLength
  <2>2. CASE p < FrameLength
    <3>1. total % FrameLength = p
      BY <1>2, <1>3, <2>2, RemainderIs
    <3> QED
      BY <2>2, <3>1 DEF RunLength
  <2> QED
    BY <2>1, <2>2
<1>9. CASE n > 0 /\ p < LpcSpan
  <2> DEFINE both == buffer[nbuffer] \o Pending
  <2>0. b = FrameLength /\ Len(buffer[nbuffer]) = FrameLength /\ Len(Pending) = p
    BY <1>2, <1>9
  <2>1. /\ IsSeq(both) /\ Len(both) = FrameLength + p
        /\ \A k \in 1 .. FrameLength : both[k] = buffer[nbuffer][k]
        /\ \A k \in 1 .. p : both[FrameLength + k] = Pending[k]
    <3>1. /\ IsSeq(both) /\ Len(both) = Len(buffer[nbuffer]) + Len(Pending)
          /\ \A k \in 1 .. Len(buffer[nbuffer]) : both[k] = buffer[nbuffer][k]
          /\ \A k \in 1 .. Len(Pending) : both[Len(buffer[nbuffer]) + k] = Pending[k]
      BY <1>1, Joined
    <3> QED
      BY <2>0, <3>1
  <2>2. run = LastOf(both, b)
    BY <1>2, <1>5, <1>9 DEF FinalRun, TooShort
  <2> HIDE DEF both
  <2>3. run = SubSeq(both, p + 1, FrameLength + p)
    <3>1. FrameLength + p - b + 1 = p + 1
      BY <2>0
    <3> QED
      BY <2>1, <2>2, <3>1 DEF LastOf
  <2>4. IsSeq(run) /\ Len(run) = FrameLength
    <3>1. p + 1 \in 1 .. (Len(both) + 1) /\ FrameLength + p \in (p + 1 - 1) .. Len(both)
      BY <2>1
    <3>2. FrameLength + p - (p + 1) + 1 = FrameLength
      BY <1>2
    <3> QED
      BY <2>1, <2>3, <3>1, <3>2, PartOf
  <2>5. ASSUME NEW k \in 1 .. FrameLength PROVE run[k] = Source(total - FrameLength + k)
    <3>1. run[k] = both[p + k]
      <4>1. both \in Seq(ToSet(both))
        BY <2>1 DEF IsSeq
      <4>2. SubSeq(both, p + 1, FrameLength + p)[k] = both[p + 1 + k - 1]
        BY <2>1, <4>1
      <4>3. p + 1 + k - 1 = p + k
        BY <1>2
      <4> QED
        BY <2>3, <4>2, <4>3
    <3>2. CASE p + k \in 1 .. FrameLength
      <4>1. both[p + k] = Source(total - p - b + (p + k))
        BY <1>2, <1>6, <1>9, <2>1, <3>2
      <4>2. total - p - b + (p + k) = total - FrameLength + k
        BY <1>1, <2>0
      <4> QED
        BY <3>1, <4>1, <4>2
    <3>3. CASE p + k > FrameLength
      <4>1. PICK m \in 1 .. p : p + k = FrameLength + m
        <5>1. p + k - FrameLength \in 1 .. p /\ p + k = FrameLength + (p + k - FrameLength)
          BY <1>2, <3>3
        <5> QED
          BY <5>1
      <4>2. both[p + k] = Source(total - p + m)
        BY <1>6, <2>1, <4>1
      <4>3. total - p + m = total - FrameLength + k
        BY <1>1, <1>2, <4>1
      <4> QED
        BY <3>1, <4>2, <4>3
    <3> QED
      BY <1>2, <3>2, <3>3
  <2>6. total >= LpcSpan
    BY <1>1, <1>2, <1>3, <1>4, <1>9
  <2>7. Len(run) = (IF total < LpcSpan THEN total ELSE RunLength(total))
    BY <1>1, <1>8, <1>9, <2>4, <2>6
  <2>8. ChainLength = total + 3 * FrameLength - Len(Pending)
    BY <1>7, <1>9, <2>0
  <2>9. \A k \in 1 .. Len(run) : run[k] = Source(total - Len(run) + k)
    BY <2>4, <2>5
  <2>10. Len(run) \in 1 .. FrameLength
    BY <2>4
  <2> QED
    BY <2>4, <2>7, <2>8, <2>9, <2>10
<1>10. CASE ~(n > 0 /\ p < LpcSpan)
  <2>1. run = Pending
    BY <1>2, <1>5, <1>10 DEF FinalRun, TooShort
  <2>2. p = (IF total < LpcSpan THEN total ELSE RunLength(total))
    <3>1. CASE n = 0
      <4>1. total = p
        BY <1>2, <1>3, <3>1
      <4> QED
        BY <1>1, <1>2, <1>8, <4>1
    <3>2. CASE n > 0
      <4>1. p >= LpcSpan /\ total >= LpcSpan
        BY <1>1, <1>2, <1>3, <1>10, <3>2
      <4> QED
        BY <1>1, <1>8, <4>1
    <3> QED
      BY <1>2, <3>1, <3>2
  <2> QED
    BY <1>1, <1>2, <1>6, <2>1, <2>2
<1> QED
  BY <1>9, <1>10

\* process1() ends the source, and what it leaves is the tail.
LEMMA DataProcess1End ==
  ASSUME ReaderInv, DataInv, Process1End, total' = total
  PROVE  DataInv'
<1> USE FrameLengthAssumption, LpcSpanAssumption DEF ReaderInv
<1>1. PICK run : run = FinalRun(buffer[nbuffer], Pending)
  OBVIOUS
<1>2. /\ count = 0 /\ Room = FrameLength /\ total \in Nat /\ srcpos = total
      /\ Len(Pending) \in 1 .. FrameLength /\ Len(delivered) = FrameLength + total - Len(Pending)
  BY DEF Process1End, BlocksInStep, OneBlockBehind, ReaderTypes, Room
<1>3. /\ IsSeq(run)
      /\ Len(run) \in 1 .. FrameLength
      /\ Len(run) = (IF total < LpcSpan THEN total ELSE RunLength(total))
      /\ \/ Len(run) = Len(Pending)
         \/ Len(run) = FrameLength /\ ChainLength = total + 3 * FrameLength - Len(Pending)
      /\ \A k \in 1 .. Len(run) : run[k] = Source(total - Len(run) + k)
  BY <1>1, LastRun
<1>4. PICK p \in 1 .. FrameLength, m \in 1 .. FrameLength, c \in Int :
        /\ p = Len(Pending) /\ m = Len(run) /\ c = ChainLength
        /\ c >= total + 2 * FrameLength
        /\ m # p => m = FrameLength /\ c = total + 3 * FrameLength - p
  BY <1>2, <1>3, ChainLengthBounds
<1>5. \A k \in 1 .. p : Pending[k] = Source(total - p + k)
  BY <1>2, <1>4 DEF Process1End, DataInv, AheadFits
<1>6. HandedFits'
  <2>1. HandOver(Pending, m) /\ m \in 0 .. Room /\ Len(Pending) \in Nat
    BY <1>1, <1>2, <1>4 DEF Process1End, Pending
  <2>2. ASSUME NEW k \in 1 .. m
        PROVE  Fits(total, ChainLength, Len(delivered) + count + k,
                    IF k \in 1 .. Len(Pending) THEN Pending[k] ELSE ibuf[count + k])
    <3>1. /\ Len(delivered) + count + k = FrameLength + total - p + k
          /\ FrameLength + total - p + k - FrameLength = total - p + k
          /\ FrameLength + total - p + k \in Int
      BY <1>2, <1>4
    <3>2. CASE k <= p
      <4>1. FrameLength + total - p + k - (c - FrameLength) <= 0
        BY <1>2, <1>4, <3>2
      <4>2. k \in 1 .. Len(Pending) /\ k \in 1 .. p /\ c = ChainLength
        BY <1>4, <3>2
      <4>3. Pending[k] = Source(total - p + k)
        BY <1>5, <4>2
      <4>4. Fits(total, c, FrameLength + total - p + k, Pending[k])
        <5>1. PICK j \in Int, i \in Int :
                /\ j = FrameLength + total - p + k /\ i = total - p + k
                /\ j - FrameLength = i /\ j - (c - FrameLength) <= 0
          BY <1>2, <3>1, <4>1
        <5>2. Pending[k] = Source(i)
          BY <4>3, <5>1
        <5>3. Fits(total, c, j, Pending[k])
          BY <5>1, <5>2 DEF Fits
        <5> QED
          BY <5>1, <5>3
      <4> QED
        BY <3>1, <4>2, <4>4
    <3>3. CASE k > p
      <4>1. /\ FrameLength + total - p + k > FrameLength + total
            /\ FrameLength + total - p + k <= c - FrameLength
        BY <1>2, <1>4, <3>3
      <4>2. k \notin 1 .. Len(Pending) /\ c = ChainLength
        BY <1>4, <3>3
      <4>3. Fits(total, c, FrameLength + total - p + k, ibuf[count + k])
        BY <1>2, <3>1, <4>1, FitsElsewhere
      <4> QED
        BY <3>1, <4>2, <4>3
    <3> QED
      BY <1>4, <3>2, <3>3
  <2> QED
    BY <1>2, <2>1, <2>2, HandOverFits DEF DataInv, ReaderTypes
<1>7. /\ buffer' = [buffer EXCEPT ![Other(nbuffer)] = run,
                                  ![nbuffer] = Extrapolate(run, FrameLength)]
      /\ process' = "process2" /\ nbuffer' = nbuffer
  BY <1>1, <1>2 DEF Process1End, Pending
<1>8. buffer'[nbuffer'] = Extrapolate(run, FrameLength)
  BY <1>7 DEF ReaderTypes, Other
<1>9. Len(Extrapolate(run, FrameLength)) = FrameLength
  BY ExtrapolateIs
<1>10. ASSUME NEW k \in 1 .. FrameLength
       PROVE  Extrapolate(run, FrameLength)[k] = TailFrame(total, k)
  <2>1. CASE total < LpcSpan
    BY <1>3, <2>1 DEF Extrapolate, TooShort, Zeros, TailFrame
  <2>2. CASE ~(total < LpcSpan)
    <3>1. m = RunLength(total) /\ ~(m < LpcSpan)
      <4>1. total % FrameLength \in 0 .. (FrameLength - 1)
        BY <1>2
      <4> QED
        BY <1>3, <1>4, <2>2, <4>1 DEF RunLength
    <3>2. run = Frames(total - m + 1, total)
      <4>1. total - (total - m + 1) + 1 = m
        BY <1>2, <1>4
      <4>2. Frames(total - m + 1, total) = [j \in 1 .. m |-> Source(total - m + 1 + j - 1)]
        BY <4>1 DEF Frames
      <4>3. \A j \in 1 .. m : total - m + 1 + j - 1 = total - m + j
        BY <1>2, <1>4
      <4>4. run = [j \in 1 .. m |-> run[j]]
        <5>1. run \in Seq(ToSet(run))
          BY <1>3 DEF IsSeq
        <5> QED
          BY <1>4, <5>1
      <4>5. \A j \in 1 .. m : run[j] = Source(total - m + 1 + j - 1)
        BY <1>3, <1>4, <4>3
      <4> QED
        BY <4>2, <4>4, <4>5
    <3>3. Extrapolate(run, FrameLength)[k] = Predicted(run, k)
      BY <1>4, <3>1 DEF Extrapolate, TooShort
    <3> QED
      BY <2>2, <3>1, <3>2, <3>3 DEF TailFrame
  <2> QED
    BY <2>1, <2>2
<1>11. \A k \in 1 .. FrameLength : FrameLength - FrameLength + k = k
  OBVIOUS
<1>12. AheadFits'
  BY <1>7, <1>8, <1>9, <1>10, <1>11 DEF AheadFits
<1> QED
  BY <1>6, <1>12 DEF DataInv

\* process2() hands out the next of the tail.
LEMMA DataProcess2 ==
  ASSUME ReaderInv, DataInv, Process2, total' = total
  PROVE  DataInv'
<1> USE FrameLengthAssumption, LpcSpanAssumption DEF ReaderInv
<1>1. PICK a \in 1 .. FrameLength, c \in Int, d \in Nat, n \in Nat :
        /\ a = Len(Ahead) /\ c = ChainLength /\ d = Len(delivered) /\ n = Piece
        /\ c >= total + 2 * FrameLength
        /\ d + count + a = c
        /\ n >= 1 /\ n <= a /\ n <= Room
  <2>1. /\ total \in Nat /\ count \in 0 .. (FrameLength - 1)
        /\ IsSeq(Ahead) /\ IsSeq(delivered)
        /\ Len(Ahead) \in 1 .. FrameLength
        /\ Len(delivered) + count + Len(Ahead) = ChainLength
    BY DEF Process2, BlocksInStep, ReaderTypes, Ahead
  <2>2. Len(delivered) \in Nat /\ ChainLength \in Int /\ ChainLength >= total + 2 * FrameLength
    BY <2>1, EmptyIs, ChainLengthBounds
  <2>3. Piece \in Nat /\ Piece >= 1 /\ Piece <= Len(Ahead) /\ Piece <= Room
    BY <2>1, LesserIs DEF Piece, Room
  <2> QED
    BY <2>1, <2>2, <2>3
<1>2. /\ total \in Nat /\ count \in 0 .. (FrameLength - 1) /\ IsSeq(delivered)
      /\ IsSeq(Ahead)
  BY DEF ReaderTypes, Ahead
<1>3. \A k \in 1 .. a : Ahead[k] = TailFrame(total, FrameLength - a + k)
  BY <1>1 DEF Process2, DataInv, AheadFits, Ahead
<1>4. HandedFits'
  <2>1. PICK part : part = SubSeq(Ahead, 1, n)
    OBVIOUS
  <2>2. Len(part) = n /\ \A k \in 1 .. n : part[k] = Ahead[k]
    <3>1. Ahead \in Seq(ToSet(Ahead))
      BY <1>2 DEF IsSeq
    <3> QED
      BY <1>1, <2>1, <3>1
  <2>3. HandOver(part, n) /\ n \in 0 .. Room
    <3>1. HandOver(SubSeq(Ahead, 1, Piece), Piece)
      BY DEF Process2, Piece, Ahead
    <3>2. HandOver(part, n)
      BY <1>1, <2>1, <3>1
    <3>3. Room \in Int
      BY <1>2 DEF Room
    <3> QED
      BY <1>1, <3>2, <3>3
  <2>4. ASSUME NEW k \in 1 .. n
        PROVE  Fits(total, ChainLength, Len(delivered) + count + k,
                    IF k \in 1 .. Len(part) THEN part[k] ELSE ibuf[count + k])
    <3>1. /\ Len(delivered) + count + k = c - a + k
          /\ c - a + k - (c - FrameLength) = FrameLength - a + k
          /\ c - a + k - FrameLength > total
          /\ k \in 1 .. a /\ k \in 1 .. Len(part)
      BY <1>1, <1>2, <2>2
    <3>2. part[k] = TailFrame(total, FrameLength - a + k)
      BY <1>3, <2>2, <3>1
    <3>3. Fits(total, c, c - a + k, part[k])
      BY <1>2, <3>1, <3>2 DEF Fits
    <3>4. c = ChainLength
      BY <1>1
    <3> QED
      BY <3>1, <3>3, <3>4
  <2>5. Len(part) \in Nat
    BY <2>2
  <2> QED
    BY <1>2, <2>3, <2>4, <2>5, HandOverFits DEF DataInv
<1>5. /\ buffer' = [buffer EXCEPT ![nbuffer] = SubSeq(Ahead, n + 1, a)]
      /\ process' # "process1"
      /\ nbuffer' = nbuffer
  BY <1>1 DEF Process2, Drained, Piece, Ahead
<1>6. /\ Len(SubSeq(Ahead, n + 1, a)) = a - n
      /\ \A k \in 1 .. (a - n) : SubSeq(Ahead, n + 1, a)[k] = Ahead[n + k]
  <2>1. Ahead \in Seq(ToSet(Ahead))
    BY <1>2 DEF IsSeq
  <2>2. n + 1 \in 1 .. (Len(Ahead) + 1) /\ a \in (n + 1 - 1) .. Len(Ahead)
        /\ a - (n + 1) + 1 = a - n
    BY <1>1
  <2>3. Len(SubSeq(Ahead, n + 1, a)) = a - n
    BY <1>2, <2>2, PartOf
  <2>4. ASSUME NEW k \in 1 .. (a - n) PROVE SubSeq(Ahead, n + 1, a)[k] = Ahead[n + k]
    <3>1. SubSeq(Ahead, n + 1, a)[k] = Ahead[n + 1 + k - 1]
      BY <1>1, <2>1
    <3>2. n + 1 + k - 1 = n + k
      BY <1>1
    <3> QED
      BY <3>1, <3>2
  <2> QED
    BY <2>3, <2>4
<1>7. buffer'[nbuffer'] = SubSeq(Ahead, n + 1, a)
  BY <1>5 DEF ReaderTypes
<1>8. ASSUME NEW k \in 1 .. Len(buffer'[nbuffer'])
      PROVE  buffer'[nbuffer'][k]
               = TailFrame(total', FrameLength - Len(buffer'[nbuffer']) + k)
  <2>1. k \in 1 .. (a - n) /\ Len(buffer'[nbuffer']) = a - n
    BY <1>6, <1>7
  <2>2. FrameLength - (a - n) + k = FrameLength - a + (n + k) /\ n + k \in 1 .. a
    BY <1>1, <2>1
  <2> QED
    BY <1>3, <1>6, <1>7, <2>1, <2>2
<1>9. AheadFits'
  BY <1>5, <1>8 DEF AheadFits
<1> QED
  BY <1>4, <1>9 DEF DataInv

\* process3() hands out nothing.
LEMMA DataProcess3 ==
  ASSUME ReaderInv, DataInv, Process3, total' = total
  PROVE  DataInv'
<1>1. count \in 0 .. (FrameLength - 1) /\ IsSeq(delivered)
  BY DEF ReaderInv, ReaderTypes
<1>2. HandedFits'
  <2>1. HandOver(<<>>, 0)
    BY DEF Process3
  <2>2. 0 \in 0 .. Room /\ Len(<<>>) \in Nat
    BY <1>1, FrameLengthAssumption DEF Room
  <2>3. ASSUME NEW k \in 1 .. 0 PROVE FALSE
    OBVIOUS
  <2> QED
    BY <1>1, <2>1, <2>2, <2>3, HandOverFits DEF DataInv
<1>3. AheadFits'
  BY DEF Process3, AheadFits
<1> QED
  BY <1>2, <1>3 DEF DataInv

LEMMA DataRead ==
  ASSUME ReaderInv, DataInv, Read
  PROVE  DataInv'
<1>1. total' = total
  BY DEF Read
<1> QED
  BY <1>1, DataProcess0, DataProcess1Block, DataProcess1End, DataProcess2, DataProcess3
     DEF Read

\* What is handed out is, frame for frame, the source between its lead and its
\* tail; what follows is to come from the buffers (extrapolater.c).
THEOREM DataInvariant == PipelineSpec => []DataInv
<1>1. PipelineInit => DataInv
  <2> SUFFICES ASSUME PipelineInit PROVE DataInv
    OBVIOUS
  <2>1. process = "process0" /\ count = 0 /\ Len(delivered) = 0
    BY EmptySeq DEF PipelineInit, Init
  <2> QED
    BY <2>1 DEF DataInv, HandedFits, AheadFits
<1>2. ReaderInv /\ DataInv /\ [PipelineNext]_pipelineVars => DataInv'
  <2> SUFFICES ASSUME ReaderInv, DataInv, [PipelineNext]_pipelineVars PROVE DataInv'
    OBVIOUS
  <2>1. CASE Pull
    BY <2>1, DataRead DEF Pull
  <2>2. CASE Check \/ LoopStep \/ Signal \/ Ended \/ UNCHANGED pipelineVars
    <3>1. UNCHANGED <<total, srcpos, buffer, nbuffer, process, ibuf, count, delivered>>
      BY <2>2 DEF Check, LoopStep, Signal, Ended, pipelineVars, vars
    <3> QED
      BY <3>1 DEF DataInv, HandedFits, AheadFits, ChainLength, Pending, Other
  <2> QED
    BY <2>1, <2>2 DEF PipelineNext, PipelineStep
<1> QED
  BY ReaderInvariant, <1>1, <1>2, PTL DEF PipelineSpec

\* The tail adjoins the source (TailContinuesSource), for every block length, span
\* and source: the block that follows the last source frame is predicted, in
\* order, from a run that ends in it.
THEOREM TailAdjoins == PipelineSpec => []TailContinuesSource
<1> USE FrameLengthAssumption, LpcSpanAssumption
<1>1. ReaderInv /\ DataInv => TailContinuesSource
  <2> SUFFICES ASSUME ReaderInv, DataInv, process = "process3", count = 0
               PROVE  LET tail == LastOf(delivered, FrameLength)
                      IN  IF total < LpcSpan
                            THEN tail = Zeros(FrameLength)
                            ELSE \E n \in LpcSpan .. Lesser(FrameLength, total) :
                                   \A k \in 1 .. FrameLength :
                                     tail[k] = Predicted(Frames(total - n + 1, total), k)
    BY DEF TailContinuesSource
  <2>1. IsSeq(delivered) /\ total \in Nat
    BY DEF ReaderInv, ReaderTypes
  <2>2. PICK c \in Nat : /\ c = Len(delivered) /\ c = ChainLength
                         /\ c >= total + 2 * FrameLength
    <3>1. Len(delivered) + 0 = ChainLength /\ Len(delivered) \in Nat
      BY <2>1, EmptyIs DEF ReaderInv, BlocksInStep
    <3> QED
      BY <2>1, <3>1, ChainLengthBounds
  <2>3. PICK tail : tail = LastOf(delivered, FrameLength)
    OBVIOUS
  <2>4. IsSeq(tail) /\ Len(tail) = FrameLength
    <3>1. /\ c - FrameLength + 1 \in 1 .. (Len(delivered) + 1)
          /\ c \in (c - FrameLength + 1 - 1) .. Len(delivered)
          /\ c - (c - FrameLength + 1) + 1 = FrameLength
      BY <2>1, <2>2
    <3>2. tail = SubSeq(delivered, c - FrameLength + 1, c)
      BY <2>2, <2>3 DEF LastOf
    <3>3. /\ IsSeq(SubSeq(delivered, c - FrameLength + 1, c))
          /\ Len(SubSeq(delivered, c - FrameLength + 1, c))
               = c - (c - FrameLength + 1) + 1
      BY ONLY <2>1, <3>1, PartOf
    <3> QED
      BY <3>1, <3>2, <3>3
  <2>5. ASSUME NEW k \in 1 .. FrameLength PROVE tail[k] = TailFrame(total, k)
    <3>1. /\ c - FrameLength + k \in 1 .. c
          /\ c - FrameLength + k - (c - FrameLength) = k
          /\ c - FrameLength + 1 + k - 1 = c - FrameLength + k
      BY <2>1, <2>2
    <3>2. tail[k] = delivered[c - FrameLength + 1 + k - 1]
      <4>1. delivered \in Seq(ToSet(delivered))
        BY <2>1 DEF IsSeq
      <4>2. k \in 1 .. (c - (c - FrameLength + 1) + 1) /\ c - FrameLength + 1 \in Nat
        BY <2>1, <2>2
      <4>3. SubSeq(delivered, c - FrameLength + 1, c)[k]
              = delivered[c - FrameLength + 1 + k - 1]
        BY <2>2, <4>1, <4>2
      <4> QED
        BY <2>2, <2>3, <4>3 DEF LastOf
    <3>3. Fits(total, c, c - FrameLength + k, delivered[c - FrameLength + k])
      BY <2>2, <3>1 DEF DataInv, HandedFits
    <3> QED
      BY <3>1, <3>2, <3>3 DEF Fits
  <2>6. CASE total < LpcSpan
    <3>1. \A k \in 1 .. FrameLength : tail[k] = Silence
      BY <2>5, <2>6 DEF TailFrame
    <3>2. tail = [k \in 1 .. FrameLength |-> tail[k]]
      <4>1. tail \in Seq(ToSet(tail))
        BY <2>4 DEF IsSeq
      <4> QED
        BY <2>4, <4>1
    <3>3. tail = Zeros(FrameLength)
      BY <3>1, <3>2 DEF Zeros
    <3> QED
      BY <2>3, <2>6, <3>3
  <2>7. CASE ~(total < LpcSpan)
    <3>1. RunLength(total) \in LpcSpan .. Lesser(FrameLength, total)
      <4>1. total % FrameLength \in 0 .. (FrameLength - 1) /\ total % FrameLength <= total
        BY <2>1
      <4>2. total % FrameLength < LpcSpan => FrameLength <= total
        <5>1. total < FrameLength => total % FrameLength = total
          <6>1. 0 \in Nat /\ 0 * FrameLength + total = total
            BY <2>1
          <6> QED
            BY <2>1, <6>1, RemainderIs
        <5> QED
          BY <2>1, <2>7, <5>1
      <4> QED
        BY <2>1, <2>7, <4>1, <4>2, LesserIs DEF RunLength
    <3>2. \A k \in 1 .. FrameLength :
            tail[k] = Predicted(Frames(total - RunLength(total) + 1, total), k)
      BY <2>5, <2>7 DEF TailFrame
    <3> QED
      BY <2>3, <2>7, <3>1, <3>2
  <2> QED
    BY <2>6, <2>7
<1> QED
  BY ReaderInvariant, DataInvariant, <1>1, PTL

-----------------------------------------------------------------------------
(***************************************************************************)
(* What is played.                                                         *)
(***************************************************************************)
\* What EncodeLoopProofs proves of the loop, said of the loop in Pipeline.
Proved ==
  INSTANCE EncodeLoopProofs WITH smart <- do_smart_padding(Profile), failed <- Failed,
                                 length <- ChainLength,
                                 pulled <- Len(delivered), pos <- srcpos

\* The two instances say the same of the same loop.
LEMMA SameLoop ==
  /\ Loop!Start => Proved!Start
  /\ [Loop!Run]_(Loop!vars) => [Proved!Run]_(Proved!vars)
<1>1. Loop!Start => Proved!Start
  BY DEF Loop!Start, Proved!Start, Loop!Init, Proved!Init, Loop!ChainLengths,
         Proved!ChainLengths, Loop!Lesser, Proved!Lesser, Loop!Empty, Proved!Empty
<1>2. Loop!Run <=> Proved!Run
  BY DEF Loop!Run, Proved!Run, Loop!Step, Proved!Step,
         Loop!Signal, Proved!Signal, Loop!Ended, Proved!Ended,
         Loop!CheckInterrupted, Proved!CheckInterrupted,
         Loop!PullBlock, Proved!PullBlock, Loop!OfferBlock, Proved!OfferBlock,
         Loop!EncodeBuffers, Proved!EncodeBuffers, Loop!EncodeUnit, Proved!EncodeUnit,
         Loop!FlushUnit, Proved!FlushUnit, Loop!FlushEnds, Proved!FlushEnds,
         Loop!EncodeFails, Proved!EncodeFails, Loop!Done, Proved!Done,
         Loop!Finalize, Proved!Finalize, Loop!TakeUnit, Proved!TakeUnit,
         Loop!ReadFrames, Proved!ReadFrames, Loop!Taken, Proved!Taken,
         Loop!Lesser, Proved!Lesser, Loop!Counted, Proved!Counted,
         Loop!Answer, Proved!Answer, Loop!Discarded, Proved!Discarded,
         Loop!Toggled, Proved!Toggled, Loop!Written, Proved!Written,
         Loop!Drained, Proved!Drained, Loop!Declared, Proved!Declared,
         Loop!Empty, Proved!Empty, Loop!frames_written, Proved!frames_written,
         Loop!vars, Proved!vars, Loop!readerVars, Proved!readerVars,
         Loop!encoderVars, Proved!encoderVars, Loop!outputVars, Proved!outputVars
<1>3. UNCHANGED Loop!vars => UNCHANGED Proved!vars
  BY DEF Loop!vars, Proved!vars, Loop!readerVars, Proved!readerVars,
         Loop!encoderVars, Proved!encoderVars, Loop!outputVars, Proved!outputVars
<1> QED
  BY <1>1, <1>2, <1>3

\* The invariants of the loop hold of the loop over the extrapolater.
THEOREM LoopHolds == PipelineSpec => [](Proved!LoopInv /\ Proved!FinalUnits)
<1>1. /\ Delay \in Nat /\ CoreDelay \in Nat /\ FrameLength <= CoreDelay /\ CoreDelay <= Delay
      /\ Wrap \in Nat /\ Delay + 3 * FrameLength < Wrap
  BY PipelineAssumption, FrameLengthAssumption
<1>2. Proved!LoopSteps => []Proved!LoopInv
  BY <1>1, FrameLengthAssumption, MaxFramesAssumption, Proved!LoopInvKept
<1>3. Proved!LoopSteps => []Proved!FinalUnits
  BY <1>1, FrameLengthAssumption, MaxFramesAssumption, Proved!FinalUnitsKept
<1> QED
  BY <1>2, <1>3, SameLoop, PipelineRefinesLoop, PTL DEF RefinesLoop, Proved!LoopSteps

\* Where a source frame is in the file: behind the first unit, and as far into
\* its unit as the declared delay puts it.
LEMMA PlaceInFile ==
  ASSUME NEW i \in Nat \ {0}, Len(out) \in Nat,
         Place(i) <= Len(out) * FrameLength
  PROVE  \E k \in 2 .. Len(out) :
           /\ UnitAt(Place(i)) = out[k]
           /\ out[k] = k + 1 =>
                (UnitAt(Place(i)) - 1) * FrameLength
                  + ((Place(i) - 1) % FrameLength) + 1 - CoreDelay = FrameLength + i
<1>1. /\ FrameLength \in Nat /\ FrameLength >= 1
      /\ CoreDelay \in Nat /\ CoreDelay >= FrameLength
  BY FrameLengthAssumption, PipelineAssumption
<1>2. PICK p \in Nat : p = Place(i) - 1 /\ p = CoreDelay + i - 1 /\ p >= FrameLength
  BY <1>1 DEF Place
<1>3. PICK q \in Nat, r \in 0 .. (FrameLength - 1) :
        /\ q = p \div FrameLength /\ r = p % FrameLength
        /\ p = FrameLength * q + r
  BY <1>1
<1>4. q >= 1
  <2> SUFFICES ASSUME q = 0 PROVE FALSE
    OBVIOUS
  <2>1. p = r
    BY <1>1, <1>3
  <2> QED
    BY <1>1, <1>2, <1>3, <2>1
<1>5. q < Len(out)
  <2>1. PICK l \in Nat : l = Len(out)
    OBVIOUS
  <2>2. p < l * FrameLength
    <3>1. l * FrameLength \in Nat /\ Place(i) \in Nat
      BY <1>1, <2>1 DEF Place
    <3> QED
      BY <1>2, <2>1, <3>1
  <2> SUFFICES ASSUME q >= l PROVE FALSE
    BY <2>1
  <2>3. (q - l) * FrameLength \in Nat /\ (q - l) * FrameLength = FrameLength * q - l * FrameLength
    BY <1>1
  <2>4. FrameLength * q \in Nat /\ l * FrameLength \in Nat
    BY <1>1
  <2> QED
    BY <1>1, <1>3, <2>2, <2>3, <2>4
<1>6. UnitAt(Place(i)) = out[q + 1]
  BY <1>2, <1>3 DEF UnitAt
<1>7. ASSUME out[q + 1] = q + 1 + 1
      PROVE  (UnitAt(Place(i)) - 1) * FrameLength
               + ((Place(i) - 1) % FrameLength) + 1 - CoreDelay = FrameLength + i
  <2>1. UnitAt(Place(i)) - 1 = q + 1
    BY <1>6, <1>7
  <2>2. (q + 1) * FrameLength = FrameLength * q + FrameLength /\ FrameLength * q \in Nat
    BY <1>1
  <2>3. (Place(i) - 1) % FrameLength = r
    BY <1>2, <1>3
  <2>4. (q + 1) * FrameLength + r + 1 - CoreDelay = FrameLength + i
    <3>1. PICK x \in Nat : x = FrameLength * q
      BY <2>2
    <3>2. p = x + r /\ (q + 1) * FrameLength = x + FrameLength
      BY <1>3, <2>2, <3>1
    <3>3. PICK y \in Nat : y = (q + 1) * FrameLength /\ y = x + FrameLength
      BY <1>1, <3>2
    <3>4. y + r + 1 - CoreDelay = FrameLength + i
      BY <1>1, <1>2, <3>2, <3>3
    <3> QED
      BY <3>3, <3>4
  <2> QED
    BY <2>1, <2>3, <2>4
<1> QED
  <2>1. q + 1 \in 2 .. Len(out)
    BY <1>4, <1>5
  <2> QED
    BY <1>6, <1>7, <2>1

\* When the file is ended, every source frame that was handed out and has room in
\* the file is heard in its place, and without an interruption every frame has.
LEMMA PlayedAtEnd ==
  ASSUME ReaderInv, DataInv, Proved!LoopInv, Proved!FinalUnits, pc = "finalize"
  PROVE  /\ \A i \in 1 .. Lesser(total, Len(delivered) - FrameLength) :
              InFile(i) => Heard(Place(i)) = Source(i)
         /\ ~interrupted =>
              \A i \in 1 .. total : InFile(i) /\ Heard(Place(i)) = Source(i)
<1>1. /\ FrameLength \in Nat /\ FrameLength >= 1
      /\ CoreDelay \in Nat /\ CoreDelay >= FrameLength /\ Delay \in Nat /\ CoreDelay <= Delay
      /\ Wrap \in Nat /\ Delay + 3 * FrameLength < Wrap
      /\ do_smart_padding(Profile)
  BY FrameLengthAssumption, PipelineAssumption
<1>2. /\ total \in Nat /\ Len(delivered) \in Nat /\ IsSeq(delivered)
      /\ ChainLength \in Int /\ ChainLength >= total + 2 * FrameLength
  BY EmptyIs, ChainLengthBounds DEF ReaderInv, ReaderTypes
<1>3. out \in Seq(Nat) /\ Len(out) \in Nat
  BY DEF Proved!LoopInv, Proved!LoopTypeOK
<1>4. ASSUME NEW i \in 1 .. total, FrameLength + i <= Len(delivered),
             Place(i) <= Len(out) * FrameLength, UnitAt(Place(i)) # Loop!Empty
      PROVE  Heard(Place(i)) = Source(i)
  <2>1. PICK k \in 2 .. Len(out) :
           /\ UnitAt(Place(i)) = out[k]
           /\ out[k] = k + 1 =>
                (UnitAt(Place(i)) - 1) * FrameLength
                  + ((Place(i) - 1) % FrameLength) + 1 - CoreDelay = FrameLength + i
    BY <1>2, <1>3, <1>4, PlaceInFile
  <2>2. out[k] # Proved!Empty
    BY <1>4, <2>1 DEF Loop!Empty, Proved!Empty
  <2>3. Len(delivered) > FrameLength
    BY <1>1, <1>2, <1>4
  <2>4. out[k] = k + 1
    BY <1>1, <2>2, <2>3, FrameLengthAssumption, MaxFramesAssumption, Proved!UnitsInPlace
  <2>5. FrameLength + i \in 1 .. Len(delivered)
    BY <1>1, <1>2, <1>4
  <2>6. Heard(Place(i)) = delivered[FrameLength + i]
    BY <2>1, <2>4, <2>5 DEF Heard
  <2>7. Fits(total, ChainLength, FrameLength + i, delivered[FrameLength + i])
    BY <2>5 DEF DataInv, HandedFits
  <2>8. PICK j \in Int : j = FrameLength + i /\ j - FrameLength = i
    BY <1>1
  <2>9. delivered[j] = Source(i)
    BY <2>7, <2>8 DEF Fits
  <2> QED
    BY <2>6, <2>8, <2>9
<1>5. ASSUME NEW i \in 1 .. Lesser(total, Len(delivered) - FrameLength), InFile(i)
      PROVE  Heard(Place(i)) = Source(i)
  <2>1. i \in 1 .. total /\ FrameLength + i <= Len(delivered)
    BY <1>1, <1>2, LesserIs
  <2> QED
    BY <1>4, <1>5, <2>1 DEF InFile
<1>6. ASSUME ~interrupted, NEW i \in 1 .. total
      PROVE  InFile(i) /\ Heard(Place(i)) = Source(i)
  <2>1. /\ out = Proved!Promised(units)
        /\ Len(out) = units - 2
        /\ units > 2
        /\ Len(out) * FrameLength \in Nat
        /\ total + Delay <= Len(out) * FrameLength
    BY <1>1, <1>6, FrameLengthAssumption, MaxFramesAssumption, Proved!UnitsHoldSource
       DEF Proved!LoopInv
  <2>2. Place(i) <= Len(out) * FrameLength
    BY <1>1, <1>2, <2>1 DEF Place
  <2>3. PICK k \in 2 .. Len(out) : UnitAt(Place(i)) = out[k]
    BY <1>2, <1>3, <2>2, PlaceInFile
  <2>4. UnitAt(Place(i)) # Loop!Empty
    <3>1. units \in Nat
      BY DEF Proved!LoopInv, Proved!LoopTypeOK
    <3>2. k \in 1 .. (units - 2) /\ k # 1
      BY <2>1, <2>3, <3>1
    <3>3. Proved!Promised(units)[k] = k + 1
      BY <1>1, <2>1, <3>1, <3>2 DEF Proved!Promised
    <3> QED
      BY <2>1, <2>3, <3>3 DEF Loop!Empty
  <2>5. FrameLength + i <= Len(delivered)
    <3>1. /\ zeros > 0 => nread = 0
          /\ zeros >= Delay
          /\ nread = 0 /\ ~interrupted => Len(delivered) = ChainLength
          /\ zeros \in Int
      BY DEF Proved!LoopInv, Proved!FramesAccounted, Proved!LoopTypeOK
    <3>2. Len(delivered) = ChainLength
      BY <1>1, <1>6, <3>1
    <3> QED
      BY <1>1, <1>2, <3>2
  <2> QED
    BY <1>4, <2>2, <2>4, <2>5 DEF InFile
<1> QED
  BY <1>5, <1>6

\* A player that skips the declared delay hears the source (PlayedIsSource), for
\* every block length, span, delay and source, interrupted or not.
THEOREM SourceIsPlayed == PipelineSpec => []PlayedIsSource
<1>1. PipelineInit => PlayedIsSource
  BY DEF PipelineInit, PlayedIsSource
<1>2. ReaderInv /\ DataInv /\ Proved!LoopInv /\ Proved!FinalUnits
        /\ PlayedIsSource /\ [PipelineNext]_pipelineVars
          => PlayedIsSource'
  <2> SUFFICES ASSUME ReaderInv, DataInv, Proved!LoopInv, Proved!FinalUnits,
                      PlayedIsSource, [PipelineNext]_pipelineVars, result' = 0
               PROVE  PlayedIsSource'
    BY DEF PlayedIsSource
  <2>1. CASE UNCHANGED vars /\ Loop!Finalize
    <3>1. /\ pc = "finalize" /\ UNCHANGED <<out, delivered, total, interrupted>>
      BY <2>1 DEF vars, Loop!Finalize, Loop!outputVars
    <3> QED
      BY <3>1, PlayedAtEnd DEF PlayedIsSource, InFile, Heard, UnitAt, Place
  <2>2. CASE result = 0 /\ UNCHANGED <<out, delivered, total, interrupted>>
    BY <2>2 DEF PlayedIsSource, InFile, Heard, UnitAt, Place
  <2>3. result = 0 => pc = "end"
    BY DEF Proved!LoopInv, Proved!ExitStatus
  <2>4. CASE Pull \/ Check
    BY <2>2, <2>3, <2>4 DEF Pull, Check, Loop!CheckInterrupted
  <2>5. CASE LoopStep
    BY <2>1, <2>2, <2>3, <2>5 DEF LoopStep, Loop!OfferBlock, Loop!EncodeBuffers,
       Loop!EncodeUnit, Loop!FlushUnit, Loop!TakeUnit, Loop!FlushEnds, Loop!EncodeFails,
       Loop!Done
  <2>6. CASE Signal \/ Ended \/ UNCHANGED pipelineVars
    BY <2>2, <2>6 DEF Signal, Ended, Loop!Signal, Loop!Ended, pipelineVars, vars, loopVars,
       Loop!vars, Loop!outputVars
  <2> QED
    BY <2>4, <2>5, <2>6 DEF PipelineNext, PipelineStep
<1> QED
  BY ReaderInvariant, DataInvariant, LoopHolds, <1>1, <1>2, PTL DEF PipelineSpec
=============================================================================
