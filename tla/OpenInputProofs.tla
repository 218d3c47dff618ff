--------------------------- MODULE OpenInputProofs ---------------------------
(***************************************************************************)
(* What the readers of WAV, raw and CAF files do with every file, cut off  *)
(* anywhere, from disk or through a pipe: proofs about OpenInput.          *)
(***************************************************************************)
EXTENDS OpenInput, Induction

-----------------------------------------------------------------------------
\* The length that stands for none at all is one and the same.
LEMMA Bounds ==
  Wav!Unlimited \in Nat /\ Wav!Unlimited > 0 /\ Caf!Unlimited = Wav!Unlimited
BY SMT DEF Wav!Unlimited, Caf!Unlimited

(***************************************************************************)
(* Where the chunks are.                                                   *)
(***************************************************************************)

\* g adds up the numbers of d, and h for each.
IsSum(g, n, first, h, d) ==
  g[0] = first /\ \A k \in 1 .. n : g[k] = g[k - 1] + h + d[k]

\* There is such a sum.
LEMMA SumsExist ==
  ASSUME NEW n \in Nat, NEW first \in Int, NEW h \in Nat, NEW d \in [1 .. n -> Nat]
  PROVE  \E g \in [0 .. n -> Int] : IsSum(g, n, first, h, d)
<1> DEFINE Steps == [k \in Nat |-> [v \in Int |-> IF k \in 1 .. n THEN v + h + d[k] ELSE v]]
<1>1. Steps \in [Nat -> [Int -> Int]]
  OBVIOUS
<1>2. \A k \in 1 .. n, v \in Int : Steps[k][v] = v + h + d[k]
  OBVIOUS
<1>3. PICK g \in [0 .. n -> Int] :
        g[0] = first /\ \A k \in 1 .. n : g[k] = Steps[k][g[k - 1]]
  <2> HIDE DEF Steps
  <2>1. \E g : Unfolds(g, Int, n, first, Steps)
    BY <1>1, Recursion
  <2> QED
    BY <2>1 DEF Unfolds
<1> HIDE DEF Steps
<1>4. \A k \in 1 .. n : g[k - 1] \in Int /\ g[k] = Steps[k][g[k - 1]]
  BY <1>3
<1>5. \A k \in 1 .. n : g[k] = g[k - 1] + h + d[k]
  BY <1>2, <1>4
<1> QED
  BY <1>3, <1>5 DEF IsSum

\* They are numbers, and the earlier one is the smaller one.
LEMMA SumsGrow ==
  ASSUME NEW n \in Nat, NEW first \in Int, NEW h \in Nat, NEW d \in [1 .. n -> Nat],
         NEW e, IsSum(e, n, first, h, d)
  PROVE  /\ \A k \in 0 .. n : e[k] \in Int
         /\ \A j, k \in 0 .. n : j < k => e[j] + h <= e[k]
<1> USE DEF IsSum
<1> DEFINE T == {k \in Nat : k <= n => e[k] \in Int}
<1>1. \A k \in 0 .. n : k \in T
  <2>1. 0 \in T
    OBVIOUS
  <2>2. ASSUME NEW k \in 0 .. (n - 1), k \in T PROVE k + 1 \in T
    <3>1. k + 1 \in 1 .. n /\ (k + 1) - 1 = k /\ k <= n /\ k + 1 \in Nat
      OBVIOUS
    <3>2. e[k] \in Int /\ e[k + 1] = e[k] + h + d[k + 1] /\ d[k + 1] \in Nat
      BY <2>2, <3>1
    <3> QED
      BY <3>1, <3>2
  <2> HIDE DEF T
  <2> QED
    BY <2>1, <2>2, UpTo
<1>2. \A k \in 0 .. n : e[k] \in Int
  BY <1>1
<1> DEFINE f == [k \in 0 .. n |-> e[k]]
<1>3. f \in [0 .. n -> Int] /\ \A k \in 0 .. n : f[k] = e[k]
  BY <1>2
<1>4. \A k \in 1 .. n : f[k - 1] + h <= f[k]
  <2> SUFFICES ASSUME NEW k \in 1 .. n PROVE f[k - 1] + h <= f[k]
    OBVIOUS
  <2>1. k - 1 \in 0 .. n /\ k \in 0 .. n /\ d[k] \in Nat /\ e[k - 1] \in Int
    BY <1>2
  <2>2. f[k] = e[k - 1] + h + d[k] /\ f[k - 1] = e[k - 1]
    BY <1>3, <2>1
  <2> HIDE DEF f
  <2> QED
    BY <2>1, <2>2
<1>5. \A j, k \in 0 .. n : j < k => f[j] + h <= f[k]
  <2> HIDE DEF f
  <2> QED
    BY <1>3, <1>4, Growing
<1> HIDE DEF f
<1> QED
  BY <1>2, <1>3, <1>5

\* The recursion of Ends, unfolded, for WAV files.
LEMMA WavEnds ==
  ASSUME IsWavFile(file)
  PROVE  /\ Wav!Ends[0] = 12
         /\ \A k \in 1 .. Len(file.chunks) :
              Wav!Ends[k] = Wav!Ends[k - 1] + 8 + Wav!RoundUp(file.chunks[k].length)
<1> DEFINE n == Len(file.chunks)
           Size(k) == Wav!RoundUp(file.chunks[k].length)
           d == [k \in 1 .. n |-> Size(k)]
<1>1. n \in Nat /\ \A k \in 1 .. n : file.chunks[k].length \in Nat
  BY DEF IsWavFile, IsWavChunk
<1>2. \A k \in 1 .. n : Size(k) \in Nat
  BY <1>1 DEF Wav!RoundUp
<1>3. PICK g \in [0 .. n -> Int] : g[0] = 12 /\ \A k \in 1 .. n : g[k] = g[k - 1] + 8 + d[k]
  <2> HIDE DEF Size, n
  <2>1. d \in [1 .. n -> Nat] /\ 12 \in Int /\ 8 \in Nat /\ n \in Nat
    BY <1>1, <1>2
  <2> HIDE DEF d
  <2>2. \E g \in [0 .. n -> Int] : IsSum(g, n, 12, 8, d)
    BY <2>1, SumsExist
  <2> QED
    BY <2>2 DEF IsSum
<1>4. g = [k \in 0 .. n |-> IF k = 0 THEN 12 ELSE g[k - 1] + 8 + Size(k)]
  <2> HIDE DEF Size, n
  <2>1. \A k \in 1 .. n : d[k] = Size(k)
    OBVIOUS
  <2>2. \A k \in 1 .. n : g[k] = g[k - 1] + 8 + Size(k)
    BY <1>3, <2>1
  <2> HIDE DEF d
  <2> QED
    BY <1>1, <1>3, <2>2
<1> DEFINE ends == Wav!Ends
<1>5. ends = [k \in 0 .. n |-> IF k = 0 THEN 12 ELSE ends[k - 1] + 8 + Size(k)]
  BY <1>4 DEF Wav!Ends
<1>6. ends[0] = 12 /\ \A k \in 1 .. n : ends[k] = ends[k - 1] + 8 + Size(k)
  <2> HIDE DEF ends, Size, n
  <2> QED
    BY <1>1, <1>5
<1> QED
  BY <1>6

\* The recursion of Ends, unfolded, for CAF files.
LEMMA CafEnds ==
  ASSUME IsCafFile(file)
  PROVE  /\ Caf!Ends[0] = 8
         /\ \A k \in 1 .. Len(file.chunks) :
              Caf!Ends[k] = Caf!Ends[k - 1] + 12 + Caf!RoundUp(file.chunks[k].length)
<1> DEFINE n == Len(file.chunks)
           Size(k) == Caf!RoundUp(file.chunks[k].length)
           d == [k \in 1 .. n |-> Size(k)]
<1>1. n \in Nat /\ \A k \in 1 .. n : file.chunks[k].length \in Nat
  BY Bounds DEF IsCafFile, IsCafChunk, Number
<1>2. \A k \in 1 .. n : Size(k) \in Nat
  BY <1>1 DEF Caf!RoundUp
<1>3. PICK g \in [0 .. n -> Int] : g[0] = 8 /\ \A k \in 1 .. n : g[k] = g[k - 1] + 12 + d[k]
  <2> HIDE DEF Size, n
  <2>1. d \in [1 .. n -> Nat] /\ 8 \in Int /\ 12 \in Nat /\ n \in Nat
    BY <1>1, <1>2
  <2> HIDE DEF d
  <2>2. \E g \in [0 .. n -> Int] : IsSum(g, n, 8, 12, d)
    BY <2>1, SumsExist
  <2> QED
    BY <2>2 DEF IsSum
<1>4. g = [k \in 0 .. n |-> IF k = 0 THEN 8 ELSE g[k - 1] + 12 + Size(k)]
  <2> HIDE DEF Size, n
  <2>1. \A k \in 1 .. n : d[k] = Size(k)
    OBVIOUS
  <2>2. \A k \in 1 .. n : g[k] = g[k - 1] + 12 + Size(k)
    BY <1>3, <2>1
  <2> HIDE DEF d
  <2> QED
    BY <1>1, <1>3, <2>2
<1> DEFINE ends == Caf!Ends
<1>5. ends = [k \in 0 .. n |-> IF k = 0 THEN 8 ELSE ends[k - 1] + 12 + Size(k)]
  BY <1>4 DEF Caf!Ends
<1>6. ends[0] = 8 /\ \A k \in 1 .. n : ends[k] = ends[k - 1] + 12 + Size(k)
  <2> HIDE DEF ends, Size, n
  <2> QED
    BY <1>1, <1>5
<1> QED
  BY <1>6
\* Where the chunks of a WAV file are: behind its prologue, each behind the one
\* before it, by its header at least.
LEMMA WavLayout ==
  ASSUME IsWavFile(file)
  PROVE  /\ Len(file.chunks) \in Nat
         /\ \A i \in 1 .. Len(file.chunks) + 1 : Wav!Start(i) \in Int
         /\ Wav!Start(1) = 12
         /\ \A i \in 1 .. Len(file.chunks) :
              /\ Wav!RoundUp(file.chunks[i].length) \in Nat
              /\ Wav!RoundUp(file.chunks[i].length) >= file.chunks[i].length
              /\ Wav!Body(i) = Wav!Start(i) + 8
              /\ Wav!Start(i + 1) = Wav!Start(i) + 8 + Wav!RoundUp(file.chunks[i].length)
         /\ \A i, j \in 1 .. Len(file.chunks) + 1 : i < j => Wav!Start(i) + 8 <= Wav!Start(j)
<1> DEFINE n == Len(file.chunks)
           Size(k) == Wav!RoundUp(file.chunks[k].length)
           d == [k \in 1 .. n |-> Size(k)]
           ends == Wav!Ends
<1>1. n \in Nat /\ \A k \in 1 .. n : file.chunks[k].length \in Nat
  BY DEF IsWavFile, IsWavChunk
<1>2. \A k \in 1 .. n : Size(k) \in Nat /\ Size(k) >= file.chunks[k].length
  BY <1>1 DEF Wav!RoundUp
<1>3. ends[0] = 12 /\ \A k \in 1 .. n : ends[k] = ends[k - 1] + 8 + Size(k)
  BY WavEnds
<1>4. /\ \A k \in 0 .. n : ends[k] \in Int
      /\ \A j, k \in 0 .. n : j < k => ends[j] + 8 <= ends[k]
  <2> HIDE DEF ends, Size, n
  <2>1. d \in [1 .. n -> Nat] /\ \A k \in 1 .. n : d[k] = Size(k)
    BY <1>2
  <2> HIDE DEF d
  <2>2. IsSum(ends, n, 12, 8, d)
    BY <1>3, <2>1 DEF IsSum
  <2>3. 12 \in Int /\ 8 \in Nat
    OBVIOUS
  <2> QED
    BY <1>1, <2>1, <2>2, <2>3, SumsGrow
<1>5. \A i : Wav!Start(i) = ends[i - 1] /\ Wav!Body(i) = ends[i - 1] + 8
  BY DEF Wav!Start, Wav!Body
<1> HIDE DEF ends, Size, n
<1>6. \A i \in 1 .. n + 1 : i - 1 \in 0 .. n
  BY <1>1
<1>7. \A i \in 1 .. n + 1 : Wav!Start(i) \in Int
  BY <1>4, <1>5, <1>6
<1>8. Wav!Start(1) = 12
  BY <1>3, <1>5
<1>9. ASSUME NEW i \in 1 .. n
      PROVE  Wav!Body(i) = Wav!Start(i) + 8 /\ Wav!Start(i + 1) = Wav!Start(i) + 8 + Size(i)
  <2>1. (i + 1) - 1 = i /\ i \in Int
    BY <1>1
  <2> QED
    BY <1>3, <1>5, <2>1
<1>10. ASSUME NEW i \in 1 .. n + 1, NEW j \in 1 .. n + 1, i < j
       PROVE  Wav!Start(i) + 8 <= Wav!Start(j)
  <2>1. i - 1 \in 0 .. n /\ j - 1 \in 0 .. n /\ i - 1 < j - 1
    BY <1>1, <1>10
  <2> QED
    BY <1>4, <1>5, <2>1
<1> QED
  BY <1>1, <1>2, <1>7, <1>8, <1>9, <1>10 DEF n, Size

\* Where the chunks of a CAF file are: behind its prologue, each behind the one
\* before it, by its header at least.
LEMMA CafLayout ==
  ASSUME IsCafFile(file)
  PROVE  /\ Len(file.chunks) \in Nat
         /\ \A i \in 1 .. Len(file.chunks) + 1 : Caf!Start(i) \in Int
         /\ Caf!Start(1) = 8
         /\ \A i \in 1 .. Len(file.chunks) :
              /\ Caf!RoundUp(file.chunks[i].length) \in Nat
              /\ Caf!RoundUp(file.chunks[i].length) >= file.chunks[i].length
              /\ Caf!Body(i) = Caf!Start(i) + 12
              /\ Caf!Start(i + 1) = Caf!Start(i) + 12 + Caf!RoundUp(file.chunks[i].length)
         /\ \A i, j \in 1 .. Len(file.chunks) + 1 : i < j => Caf!Start(i) + 12 <= Caf!Start(j)
<1> DEFINE n == Len(file.chunks)
           Size(k) == Caf!RoundUp(file.chunks[k].length)
           d == [k \in 1 .. n |-> Size(k)]
           ends == Caf!Ends
<1>1. n \in Nat /\ \A k \in 1 .. n : file.chunks[k].length \in Nat
  BY Bounds DEF IsCafFile, IsCafChunk, Number
<1>2. \A k \in 1 .. n : Size(k) \in Nat /\ Size(k) >= file.chunks[k].length
  BY <1>1 DEF Caf!RoundUp
<1>3. ends[0] = 8 /\ \A k \in 1 .. n : ends[k] = ends[k - 1] + 12 + Size(k)
  BY CafEnds
<1>4. /\ \A k \in 0 .. n : ends[k] \in Int
      /\ \A j, k \in 0 .. n : j < k => ends[j] + 12 <= ends[k]
  <2> HIDE DEF ends, Size, n
  <2>1. d \in [1 .. n -> Nat] /\ \A k \in 1 .. n : d[k] = Size(k)
    BY <1>2
  <2> HIDE DEF d
  <2>2. IsSum(ends, n, 8, 12, d)
    BY <1>3, <2>1 DEF IsSum
  <2>3. 8 \in Int /\ 12 \in Nat
    OBVIOUS
  <2> QED
    BY <1>1, <2>1, <2>2, <2>3, SumsGrow
<1>5. \A i : Caf!Start(i) = ends[i - 1] /\ Caf!Body(i) = ends[i - 1] + 12
  BY DEF Caf!Start, Caf!Body
<1> HIDE DEF ends, Size, n
<1>6. \A i \in 1 .. n + 1 : i - 1 \in 0 .. n
  BY <1>1
<1>7. \A i \in 1 .. n + 1 : Caf!Start(i) \in Int
  BY <1>4, <1>5, <1>6
<1>12. Caf!Start(1) = 8
  BY <1>3, <1>5
<1>9. ASSUME NEW i \in 1 .. n
      PROVE  Caf!Body(i) = Caf!Start(i) + 12 /\ Caf!Start(i + 1) = Caf!Start(i) + 12 + Size(i)
  <2>1. (i + 1) - 1 = i /\ i \in Int
    BY <1>1
  <2> QED
    BY <1>3, <1>5, <2>1
<1>10. ASSUME NEW i \in 1 .. n + 1, NEW j \in 1 .. n + 1, i < j
       PROVE  Caf!Start(i) + 12 <= Caf!Start(j)
  <2>1. i - 1 \in 0 .. n /\ j - 1 \in 0 .. n /\ i - 1 < j - 1
    BY <1>1, <1>10
  <2> QED
    BY <1>4, <1>5, <2>1
<1> QED
  BY <1>1, <1>2, <1>7, <1>12, <1>9, <1>10 DEF n, Size

\* What pcm_scan*() finds at the header of a chunk.
LEMMA WavHeader ==
  ASSUME IsWavFile(file), NEW j \in 1 .. Len(file.chunks), off = Wav!Start(j)
  PROVE  Wav!ChunkHere = IF Wav!Body(j) <= size THEN file.chunks[j] ELSE Wav!NoChunk
<1> DEFINE n == Len(file.chunks)
           here == {i \in 1 .. n : Wav!Start(i) = off /\ Wav!Body(i) <= size}
<1>1. ASSUME NEW i \in 1 .. n, Wav!Start(i) = off PROVE i = j
  <2>1. /\ i \in 1 .. n + 1 /\ j \in 1 .. n + 1 /\ n \in Nat
        /\ Wav!Start(i) \in Int /\ Wav!Start(j) \in Int /\ Wav!Start(i) = Wav!Start(j)
    BY <1>1, WavLayout
  <2>2. ~ (i < j) /\ ~ (j < i)
    BY <2>1, WavLayout
  <2> HIDE DEF n
  <2> QED
    BY <2>1, <2>2
<1>2. here = IF Wav!Body(j) <= size THEN {j} ELSE {}
  <2>1. CASE Wav!Body(j) <= size
    <3>1. j \in here
      BY <2>1
    <3> HIDE DEF n
    <3>2. ASSUME NEW i \in here PROVE i = j
      BY <1>1
    <3> HIDE DEF here
    <3> QED
      BY <2>1, <3>1, <3>2
  <2>2. CASE ~ (Wav!Body(j) <= size)
    <3>1. here = {}
      BY <1>1, <2>2
    <3> QED
      BY <2>2, <3>1
  <2> QED
    BY <2>1, <2>2
<1>3. Wav!ChunkHere = IF here = {} THEN Wav!NoChunk ELSE file.chunks[CHOOSE i \in here : TRUE]
  BY DEF Wav!ChunkHere
<1> HIDE DEF here
<1>4. (CHOOSE i \in {j} : TRUE) = j
  OBVIOUS
<1> QED
  BY <1>2, <1>3, <1>4

\* The chunks that a WAV file has once, and what is in them.
LEMMA WavChunks ==
  ASSUME IsWavFile(file)
  PROVE  /\ \A i \in 1 .. Len(file.chunks) :
              /\ file.chunks[i].id # "none"
              /\ file.chunks[i].length \in Nat
              /\ file.chunks[i].id = "data" => i = Wav!TheData
              /\ file.chunks[i].id # "data" => file.chunks[i].declared = file.chunks[i].length
              /\ file.chunks[i].id = "fmt" =>
                   /\ file.chunks[i].length >= 16
                   /\ file.chunks[i].value = Wav!TheFrame
                   /\ Wav!TheFrame \in Nat \ {0}
         /\ Wav!TheData \in 1 .. Len(file.chunks)
         /\ file.chunks[Wav!TheData].id = "data"
         /\ file.kind = "RF64" =>
              /\ Wav!TheData > 1
              /\ file.chunks[1].id = "ds64"
              /\ file.chunks[1].length >= 28
              /\ file.chunks[1].value = Wav!StatedBytes
         /\ file.kind = "RIFF" => file.chunks[Wav!TheData].declared = Wav!StatedBytes
         /\ Wav!StatedBytes \in Number
         /\ Wav!FirstByte = Wav!Body(Wav!TheData)
<1> DEFINE c == file.chunks
           n == Len(c)
<1>1. /\ file.kind \in {"RIFF", "RF64"} /\ n \in Nat
      /\ One(c, "data") /\ AtMostOne(c, "fmt")
  BY DEF IsWavFile
<1>2. \A i \in 1 .. n : IsWavChunk(c[i])
  BY DEF IsWavFile
<1>3. Wav!TheData \in 1 .. n /\ c[Wav!TheData].id = "data"
  <2>1. PICK i \in 1 .. n : c[i].id = "data"
    BY <1>1 DEF One
  <2>2. i \in Wav!Positions("data")
    BY <2>1 DEF Wav!Positions
  <2>3. Wav!TheData \in Wav!Positions("data")
    BY <2>2 DEF Wav!TheData
  <2> QED
    BY <2>3 DEF Wav!Positions
<1>4. \A i \in 1 .. n : c[i].id = "data" => i = Wav!TheData
  BY <1>1, <1>3 DEF One, AtMostOne
<1>5. ASSUME NEW i \in 1 .. n, c[i].id = "fmt"
      PROVE  c[i].value = Wav!TheFrame
  <2> DEFINE at == CHOOSE k \in Wav!Positions("fmt") : TRUE
  <2>1. i \in Wav!Positions("fmt")
    BY <1>5 DEF Wav!Positions
  <2>2. at \in Wav!Positions("fmt")
    BY <2>1
  <2> HIDE DEF at
  <2>3. at = i
    BY <1>1, <1>5, <2>2 DEF Wav!Positions, AtMostOne
  <2>4. Wav!TheFrame = c[at].value
    BY <1>1 DEF Wav!TheFrame, at
  <2> QED
    BY <2>3, <2>4
<1>6. CASE file.kind = "RIFF"
  <2>1. Wav!StatedBytes = c[Wav!TheData].declared
    BY <1>6 DEF Wav!StatedBytes
  <2>2. Wav!FirstByte = Wav!Body(Wav!TheData)
    BY <1>6 DEF Wav!FirstByte
  <2>3. c[Wav!TheData].declared \in Number
    BY <1>2, <1>3 DEF IsWavChunk
  <2> QED
    BY <1>2, <1>3, <1>4, <1>5, <1>6, <2>1, <2>2, <2>3 DEF IsWavChunk
<1>7. CASE file.kind = "RF64"
  <2>1. /\ AtMostOne(c, "ds64")
        /\ c[1].id = "ds64" /\ c[1].length >= 28 /\ c[1].value \in Number
    BY <1>7 DEF IsWavFile
  <2>2. Wav!TheData > 1
    BY <1>1, <1>3, <2>1
  <2> DEFINE at == CHOOSE k \in Wav!Positions("ds64") : TRUE
  <2>3. 1 \in Wav!Positions("ds64")
    BY <1>1, <1>3, <2>1 DEF Wav!Positions
  <2>4. at \in Wav!Positions("ds64")
    BY <2>3
  <2> HIDE DEF at
  <2>5. at = 1
    BY <2>1, <2>3, <2>4 DEF Wav!Positions, AtMostOne
  <2>6. Wav!StatedBytes = c[at].value
    BY <1>7 DEF Wav!StatedBytes, at
  <2>7. Wav!FirstByte = Wav!Body(Wav!TheData)
    BY <1>7 DEF Wav!FirstByte
  <2> QED
    BY <1>2, <1>3, <1>4, <1>5, <1>7, <2>1, <2>2, <2>5, <2>6, <2>7 DEF IsWavChunk
<1> QED
  BY <1>1, <1>6, <1>7

\* What is known of the file as it was written stays as long as the file does.
LEMMA WavStays ==
  ASSUME UNCHANGED <<file, size, seekable, faulty, ignore_length>>
  PROVE  /\ \A i : Wav!Start(i)' = Wav!Start(i) /\ Wav!Body(i)' = Wav!Body(i)
         /\ Wav!TheData' = Wav!TheData /\ Wav!TheFrame' = Wav!TheFrame
         /\ Wav!FirstByte' = Wav!FirstByte /\ Wav!StatedBytes' = Wav!StatedBytes
         /\ Wav!WellFormed' = Wav!WellFormed
         /\ Wav!FramesThere' = Wav!FramesThere /\ Wav!FramesStated' = Wav!FramesStated
         /\ Wav!FramesInAll' = Wav!FramesInAll
<1>1. Wav!Ends' = Wav!Ends
  BY DEF Wav!Ends, Wav!RoundUp
<1>2. \A i : Wav!Start(i)' = Wav!Start(i) /\ Wav!Body(i)' = Wav!Body(i)
  BY <1>1 DEF Wav!Start, Wav!Body
<1>3. /\ Wav!Positions("data")' = Wav!Positions("data")
      /\ Wav!Positions("fmt")' = Wav!Positions("fmt")
      /\ Wav!Positions("ds64")' = Wav!Positions("ds64")
  BY DEF Wav!Positions
<1>4. Wav!TheData' = Wav!TheData
  BY <1>3 DEF Wav!TheData
<1> DEFINE fmt == CHOOSE i \in Wav!Positions("fmt") : TRUE
           ds64 == CHOOSE i \in Wav!Positions("ds64") : TRUE
<1>12. fmt' = fmt /\ ds64' = ds64
  BY <1>3
<1>5. Wav!TheFrame' = Wav!TheFrame
  <2>1. Wav!TheFrame = IF file.kind = "raw" THEN file.chunks[1].value ELSE file.chunks[fmt].value
    BY DEF Wav!TheFrame
  <2>2. Wav!TheFrame' = IF file'.kind = "raw" THEN file'.chunks[1].value
                                              ELSE file'.chunks[fmt'].value
    BY DEF Wav!TheFrame
  <2> HIDE DEF fmt
  <2> QED
    BY <1>12, <2>1, <2>2
<1>6. Wav!FirstByte' = Wav!FirstByte
  BY <1>2, <1>4 DEF Wav!FirstByte
<1>7. Wav!StatedBytes' = Wav!StatedBytes
  <2>1. Wav!StatedBytes =
          IF file.kind = "raw" THEN 0
          ELSE IF file.kind = "RIFF" THEN file.chunks[Wav!TheData].declared
          ELSE file.chunks[ds64].value
    BY DEF Wav!StatedBytes
  <2>2. Wav!StatedBytes' =
          IF file'.kind = "raw" THEN 0
          ELSE IF file'.kind = "RIFF" THEN file'.chunks[Wav!TheData'].declared
          ELSE file'.chunks[ds64'].value
    BY DEF Wav!StatedBytes
  <2> HIDE DEF ds64
  <2> QED
    BY <1>4, <1>12, <2>1, <2>2
<1>8. Wav!WellFormed' = Wav!WellFormed
  BY <1>2, <1>3, <1>4 DEF Wav!WellFormed
<1>9. Wav!FramesThere' = Wav!FramesThere
  BY <1>5, <1>6 DEF Wav!FramesThere
<1>10. Wav!FramesStated' = Wav!FramesStated
  BY <1>5, <1>7 DEF Wav!FramesStated
<1>11. Wav!FramesInAll' = Wav!FramesInAll
  BY <1>8, <1>9, <1>10 DEF Wav!FramesInAll
<1> QED
  BY <1>2, <1>4, <1>5, <1>6, <1>7, <1>8, <1>9, <1>10, <1>11

-----------------------------------------------------------------------------
(***************************************************************************)
(* The walk over the chunks of a WAV file.                                 *)
(***************************************************************************)

\* What never changes.
GivenInv ==
  /\ file \in WavFiles \cup CafFiles \cup Others
  /\ size \in Nat /\ size < Wav!Unlimited
  /\ seekable \in BOOLEAN /\ faulty \in BOOLEAN /\ ignore_length \in BOOLEAN
  /\ file.kind = "raw" => ~ignore_length

GivenVars == <<file, size, seekable, faulty, ignore_length>>

\* Nothing has been read for the caller.
Unread == position = 0 /\ count = 0 /\ delivered = <<>> /\ nread = 1

\* There is a format in front of chunk j.
FormatBefore(j) == \E i \in 1 .. (j - 1) : file.chunks[i].id = "fmt"

\* The walk is at chunk j, and what is in front of it has been taken in.
WavAt(j) ==
  /\ off = Wav!Start(j)
  /\ fmt_seen <=> FormatBefore(j)
  /\ fmt_seen => bpf = Wav!TheFrame
  /\ file.kind = "RF64" => j > 1 /\ data_length = Wav!StatedBytes

\* The file is cut off within ds64, and what is behind the header of it is no
\* chunk.
WavLost ==
  /\ file.kind = "RF64"
  /\ size < Wav!Start(2)
  /\ \A i \in 1 .. Len(file.chunks) : ~ (Wav!Start(i) = off /\ Wav!Body(i) <= size)

WavWalk ==
  /\ phase = "open" => off = 0 /\ ~fmt_seen
  /\ phase = "ds64" => file.kind = "RF64" /\ off = Wav!Start(1) /\ ~fmt_seen
  /\ phase = "walk" => WavLost \/ \E j \in 1 .. Wav!TheData : WavAt(j)
  /\ phase \in {"open", "ds64", "walk"} => Unread
  /\ phase = "failed" => ~Wav!WellFormed

\* A file that is cut off before the body of a chunk that is not behind its
\* data is not well-formed.
LEMMA WavCutOff ==
  ASSUME IsWavFile(file), GivenInv, NEW j \in 1 .. Wav!TheData, size < Wav!Body(j)
  PROVE  ~Wav!WellFormed
<1> DEFINE D == Wav!TheData
<1>1. D \in 1 .. Len(file.chunks) /\ Len(file.chunks) \in Nat
  BY WavChunks, WavLayout
<1>2. /\ j \in 1 .. Len(file.chunks) /\ j \in 1 .. Len(file.chunks) + 1
      /\ D \in 1 .. Len(file.chunks) + 1
  BY <1>1
<1>3. /\ Wav!Body(j) = Wav!Start(j) + 8 /\ Wav!Body(D) = Wav!Start(D) + 8
      /\ Wav!Start(j) \in Int /\ Wav!Start(D) \in Int
      /\ j < D => Wav!Start(j) + 8 <= Wav!Start(D)
  BY <1>1, <1>2, WavLayout
<1>4. Wav!Body(j) <= Wav!Body(D)
  <2>1. CASE j = D
    BY <1>3, <2>1
  <2>2. CASE j # D
    <3>1. j < D
      BY <2>2, <1>1
    <3> HIDE DEF D
    <3> QED
      BY <1>3, <3>1
  <2> QED
    BY <2>1, <2>2
<1>5. size \in Nat /\ ~ (Wav!Body(D) <= size)
  BY <1>3, <1>4 DEF GivenInv
<1>6. file.kind # "raw"
  BY DEF IsWavFile
<1> QED
  BY <1>5, <1>6 DEF Wav!WellFormed

\* The prologue, and the file is at its first chunk.
LEMMA WavPrologue ==
  ASSUME IsWavFile(file), GivenInv, WavWalk, Wav!Prologue
  PROVE  WavWalk'
<1>1. /\ phase = "open" /\ off = 0 /\ ~fmt_seen /\ Unread
      /\ UNCHANGED <<file, size, seekable, faulty, ignore_length, fmt_seen,
                     position, count, delivered, nread>>
  BY DEF Wav!Prologue, Wav!Fail, Wav!formatVars, Wav!callerVars, WavWalk
<1>2. /\ Wav!Start(1)' = 12 /\ Wav!TheData' = Wav!TheData /\ Wav!WellFormed' = Wav!WellFormed
      /\ Wav!TheData \in Nat /\ Wav!TheData >= 1 /\ Wav!Body(1) = 20 /\ 1 \in 1 .. Wav!TheData
  BY <1>1, WavStays, WavLayout, WavChunks
<1>3. size \in Nat /\ (Wav!Read(12) = 12 <=> size >= 12)
  BY <1>1 DEF GivenInv, Wav!Read
<1>4. Unread'
  BY <1>1 DEF Unread
<1>5. CASE size >= 12
  <2>1. off' = 12 /\ phase' = IF file.kind = "RF64" THEN "ds64" ELSE "walk"
    BY <1>3, <1>5 DEF Wav!Prologue
  <2>2. CASE file.kind = "RF64"
    BY <1>1, <1>2, <1>4, <2>1, <2>2 DEF WavWalk
  <2>3. CASE file.kind # "RF64"
    <3>1. ~FormatBefore(1)'
      BY DEF FormatBefore
    <3>2. WavAt(1)'
      BY <1>1, <1>2, <2>1, <2>3, <3>1 DEF WavAt
    <3>3. \E j \in 1 .. Wav!TheData' : WavAt(j)'
      BY <1>2, <3>2
    <3> QED
      BY <1>4, <2>1, <2>3, <3>3 DEF WavWalk
  <2> QED
    BY <2>2, <2>3
<1>6. CASE size < 12
  <2>1. phase' = "failed"
    BY <1>3, <1>6 DEF Wav!Prologue, Wav!Fail
  <2>2. size < Wav!Body(1)
    BY <1>2, <1>3, <1>6
  <2>3. ~Wav!WellFormed
    BY <1>2, <2>2, WavCutOff
  <2> QED
    BY <1>2, <2>1, <2>3 DEF WavWalk
<1> QED
  BY <1>3, <1>5, <1>6

\* The header of a chunk that is found is that of the chunk the walk is at.
LEMMA WavFound ==
  ASSUME IsWavFile(file), WavWalk, phase = "walk"
  PROVE  \/ /\ WavLost /\ Wav!ChunkHere = Wav!NoChunk
         \/ \E j \in 1 .. Wav!TheData :
              /\ WavAt(j)
              /\ Wav!ChunkHere = IF Wav!Body(j) <= size THEN file.chunks[j] ELSE Wav!NoChunk
<1>1. CASE WavLost
  <2>1. Wav!ChunkHere = Wav!NoChunk
    BY <1>1 DEF WavLost, Wav!ChunkHere
  <2> QED
    BY <1>1, <2>1
<1>2. CASE \E j \in 1 .. Wav!TheData : WavAt(j)
  <2>1. PICK j \in 1 .. Wav!TheData : WavAt(j)
    BY <1>2
  <2>2. j \in 1 .. Len(file.chunks) /\ off = Wav!Start(j)
    BY <2>1, WavChunks, WavLayout DEF WavAt
  <2>3. Wav!ChunkHere = IF Wav!Body(j) <= size THEN file.chunks[j] ELSE Wav!NoChunk
    BY <2>2, WavHeader
  <2> QED
    BY <2>1, <2>3
<1> QED
  BY <1>1, <1>2 DEF WavWalk

\* Past a chunk in front of the data the walk is at the next one.
LEMMA WavPassed ==
  ASSUME IsWavFile(file), NEW j \in 1 .. Wav!TheData, WavAt(j),
         file.chunks[j].id # "data",
         UNCHANGED GivenVars, data_length' = data_length,
         off' = off + 8 + Wav!Padded(file.chunks[j].declared),
         IF file.chunks[j].id = "fmt" THEN fmt_seen' /\ bpf' = file.chunks[j].value
                                      ELSE UNCHANGED <<fmt_seen, bpf>>
  PROVE  j + 1 \in 1 .. Wav!TheData /\ WavAt(j + 1)'
<1> DEFINE c == file.chunks
           D == Wav!TheData
<1>1. /\ D \in 1 .. Len(c) /\ Len(c) \in Nat /\ j \in 1 .. Len(c) /\ c[D].id = "data"
      /\ j \in 1 .. Len(c) + 1 /\ Wav!Start(j) \in Int
  BY WavChunks, WavLayout
<1>2. j # D /\ j + 1 \in 1 .. D
  BY <1>1
<1>3. off = Wav!Start(j) /\ c[j].declared = c[j].length
  BY <1>1, WavChunks DEF WavAt
<1>4. Wav!Start(j + 1) = off + 8 + Wav!Padded(c[j].declared)
  BY <1>1, <1>3, WavLayout DEF Wav!Padded
<1>5. UNCHANGED <<file, size, seekable, faulty, ignore_length>>
  BY DEF GivenVars
<1>6. Wav!Start(j + 1)' = Wav!Start(j + 1) /\ Wav!TheFrame' = Wav!TheFrame
      /\ Wav!StatedBytes' = Wav!StatedBytes
  BY <1>5, WavStays
<1>7. FormatBefore(j + 1)' <=> FormatBefore(j) \/ c[j].id = "fmt"
  <2>1. \A i : i \in 1 .. ((j + 1) - 1) <=> i \in 1 .. (j - 1) \/ i = j
    BY <1>1
  <2> QED
    BY <1>5, <2>1 DEF FormatBefore
<1>8. off' = Wav!Start(j + 1)'
  BY <1>4, <1>6
<1>9. CASE c[j].id = "fmt"
  <2>1. fmt_seen' /\ bpf' = Wav!TheFrame /\ FormatBefore(j + 1)'
    BY <1>1, <1>7, <1>9, WavChunks
  <2> QED
    BY <1>1, <1>2, <1>5, <1>6, <1>8, <2>1 DEF WavAt
<1>10. CASE c[j].id # "fmt"
  <2>1. fmt_seen' = fmt_seen /\ bpf' = bpf /\ (FormatBefore(j + 1)' <=> FormatBefore(j))
    BY <1>7, <1>10
  <2> QED
    BY <1>1, <1>2, <1>5, <1>6, <1>8, <2>1 DEF WavAt
<1> QED
  BY <1>9, <1>10

\* ds64, which gives the length, or leaves the reader where no chunk is.
LEMMA WavDs64 ==
  ASSUME IsWavFile(file), GivenInv, WavWalk, Wav!Ds64
  PROVE  WavWalk'
<1>1. /\ phase = "ds64" /\ off = Wav!Start(1) /\ ~fmt_seen /\ Unread /\ file.kind = "RF64"
      /\ phase' = "walk"
      /\ UNCHANGED <<file, size, seekable, faulty, ignore_length, fmt_seen, bpf,
                     position, count, delivered, nread>>
  BY DEF Wav!Ds64, Wav!callerVars, WavWalk
<1> DEFINE c == file.chunks
           n == Len(file.chunks)
<1>2. /\ n \in Nat /\ 1 \in 1 .. n /\ 2 \in 1 .. n /\ 2 \in 1 .. Wav!TheData
      /\ c[1].id = "ds64" /\ c[1].declared = c[1].length /\ c[1].length >= 28
      /\ c[1].value = Wav!StatedBytes /\ c[1].length \in Nat
  <2>1. /\ n \in Nat /\ Wav!TheData \in 1 .. n /\ Wav!TheData > 1
        /\ c[1].id = "ds64" /\ c[1].length >= 28 /\ c[1].value = Wav!StatedBytes
    BY <1>1, WavChunks, WavLayout
  <2>2. 1 \in 1 .. n /\ 2 \in 1 .. n /\ 2 \in 1 .. Wav!TheData
    BY <2>1
  <2>3. c[1].declared = c[1].length /\ c[1].length \in Nat
    BY <2>1, <2>2, WavChunks
  <2> QED
    BY <2>1, <2>2, <2>3
<1>3. /\ off = 12 /\ Wav!Body(1) = 20 /\ Wav!RoundUp(c[1].length) >= 28
      /\ Wav!RoundUp(c[1].length) \in Nat
      /\ Wav!Start(2) = 20 + Wav!RoundUp(c[1].length)
      /\ \A i \in 2 .. n : Wav!Start(2) <= Wav!Start(i) /\ Wav!Start(i) \in Int
  <2>1. \A i \in 2 .. n : i \in 1 .. n + 1 /\ 2 \in 1 .. n + 1 /\ (2 = i \/ 2 < i)
    BY <1>2
  <2>2. \A i \in 2 .. n : /\ Wav!Start(2) \in Int /\ Wav!Start(i) \in Int
                          /\ 2 = i \/ Wav!Start(2) + 8 <= Wav!Start(i)
    BY <2>1, WavLayout
  <2>3. 1 + 1 = 2
    OBVIOUS
  <2>4. /\ off = 12 /\ Wav!Body(1) = 20 /\ Wav!RoundUp(c[1].length) \in Nat
        /\ Wav!RoundUp(c[1].length) >= c[1].length
        /\ Wav!Start(2) = 20 + Wav!RoundUp(c[1].length)
    BY <1>1, <1>2, <2>3, WavLayout
  <2> HIDE DEF n, c
  <2> QED
    BY <1>2, <2>2, <2>4
<1>4. size \in Nat
  BY DEF GivenInv
<1>5. Wav!ChunkHere = IF 20 <= size THEN c[1] ELSE Wav!NoChunk
  BY <1>1, <1>2, <1>3, WavHeader
<1>6. Unread'
  BY <1>1 DEF Unread
<1>7. /\ \A i : Wav!Start(i)' = Wav!Start(i) /\ Wav!Body(i)' = Wav!Body(i)
      /\ Wav!TheData' = Wav!TheData /\ Wav!StatedBytes' = Wav!StatedBytes
  BY <1>1, WavStays
<1>8. CASE size >= 48
  <2>1. Wav!ChunkHere = c[1] /\ off + 8 + 28 <= size
    BY <1>3, <1>4, <1>5, <1>8
  <2>2. data_length' = Wav!StatedBytes /\ off' = off + 8 + Wav!Padded(c[1].declared)
    BY <1>2, <2>1 DEF Wav!Ds64, Wav!FixedDs64
  <2>3. off' = Wav!Start(2)'
    BY <1>2, <1>3, <1>7, <2>2 DEF Wav!Padded
  <2>4. ~FormatBefore(2)'
    BY <1>1, <1>2 DEF FormatBefore
  <2>5. WavAt(2)'
    BY <1>1, <1>7, <2>2, <2>3, <2>4 DEF WavAt
  <2>6. \E j \in 1 .. Wav!TheData' : WavAt(j)'
    BY <1>2, <1>7, <2>5
  <2> QED
    BY <1>1, <1>6, <2>6 DEF WavWalk
<1>9. CASE size < 48
  <2>1. off' = Wav!Lesser(20, size)
    BY <1>3, <1>4, <1>9 DEF Wav!Ds64, Wav!FixedDs64
  <2>2. size < Wav!Start(2)
    BY <1>3, <1>4, <1>9
  <2>3. ASSUME NEW i \in 1 .. n, Wav!Start(i) = off', Wav!Body(i) <= size PROVE FALSE
    <3>1. off' \in Int /\ off' <= 20 /\ off' <= size
      BY <1>4, <2>1 DEF Wav!Lesser
    <3>2. CASE i = 1
      <4>1. off' = 12 /\ 20 <= size
        BY <1>1, <1>3, <2>3, <3>2
      <4> QED
        BY <1>4, <2>1, <4>1 DEF Wav!Lesser
    <3>3. CASE i # 1
      <4>1. i \in 2 .. n
        BY <1>2, <3>3
      <4>2. Wav!Start(2) <= off' /\ Wav!Start(2) >= 48
        BY <1>3, <2>3, <4>1
      <4> QED
        BY <1>3, <3>1, <4>2
    <3> QED
      BY <3>2, <3>3
  <2>4. WavLost'
    BY <1>1, <1>7, <2>2, <2>3 DEF WavLost
  <2> QED
    BY <1>1, <1>6, <2>4 DEF WavWalk
<1> QED
  BY <1>4, <1>8, <1>9

\* A file that is cut off within a chunk in front of its data.
LEMMA WavCutShort ==
  ASSUME IsWavFile(file), GivenInv, NEW j \in 1 .. Wav!TheData, WavAt(j),
         file.chunks[j].id # "data",
         size < off + 8 + Wav!Padded(file.chunks[j].declared)
  PROVE  ~Wav!WellFormed
<1> DEFINE c == file.chunks
           D == Wav!TheData
<1>1. /\ D \in 1 .. Len(c) /\ Len(c) \in Nat /\ j \in 1 .. Len(c) /\ c[D].id = "data"
  BY WavChunks, WavLayout
<1>2. j + 1 \in 1 .. D /\ j + 1 \in 1 .. Len(c) /\ j + 1 \in 1 .. Len(c) + 1
  BY <1>1
<1>3. off = Wav!Start(j) /\ c[j].declared = c[j].length
  BY <1>1, WavChunks DEF WavAt
<1>4. /\ Wav!Start(j + 1) = off + 8 + Wav!Padded(c[j].declared)
      /\ Wav!Body(j + 1) = Wav!Start(j + 1) + 8 /\ Wav!Start(j + 1) \in Int
  BY <1>1, <1>2, <1>3, WavLayout DEF Wav!Padded
<1>5. size < Wav!Body(j + 1)
  BY <1>4 DEF GivenInv
<1> QED
  BY <1>2, <1>5, WavCutOff

\* The format, if all of the chunk can be read and skipped.
LEMMA WavFmt ==
  ASSUME IsWavFile(file), GivenInv, WavWalk, Wav!Fmt
  PROVE  WavWalk'
<1> DEFINE c == file.chunks
<1>1. /\ phase = "walk" /\ Wav!ChunkHere.id = "fmt" /\ Unread
      /\ UNCHANGED <<file, size, seekable, faulty, ignore_length,
                     position, count, delivered, nread>>
  BY DEF Wav!Fmt, Wav!Fail, Wav!formatVars, Wav!callerVars, WavWalk
<1>2. PICK j \in 1 .. Wav!TheData :
        /\ WavAt(j)
        /\ Wav!ChunkHere = IF Wav!Body(j) <= size THEN c[j] ELSE Wav!NoChunk
  <2>1. Wav!NoChunk.id = "none"
    BY DEF Wav!NoChunk, Wav!Chunk
  <2> QED
    BY <1>1, <2>1, WavFound
<1>3. Wav!ChunkHere = c[j] /\ c[j].id = "fmt"
  BY <1>1, <1>2 DEF Wav!NoChunk, Wav!Chunk
<1>4. /\ j \in 1 .. Len(c) /\ off = Wav!Start(j) /\ off \in Int
      /\ c[j].declared = c[j].length /\ c[j].length \in Nat /\ c[j].length >= 16
      /\ Wav!Padded(c[j].declared) \in Nat /\ Wav!Padded(c[j].declared) >= 16
  <2>1. j \in 1 .. Len(c) /\ j \in 1 .. Len(c) + 1
    BY WavChunks, WavLayout
  <2>2. c[j].declared = c[j].length /\ c[j].length \in Nat /\ c[j].length >= 16
    BY <1>3, <2>1, WavChunks
  <2>3. off = Wav!Start(j) /\ off \in Int
    BY <1>2, <2>1, WavLayout DEF WavAt
  <2>4. Wav!RoundUp(c[j].length) \in Nat /\ Wav!RoundUp(c[j].length) >= c[j].length
    BY <2>1, WavLayout
  <2> QED
    BY <2>1, <2>2, <2>3, <2>4 DEF Wav!Padded
<1>5. size \in Nat /\ seekable \in BOOLEAN
  BY DEF GivenInv
<1> DEFINE Can == /\ c[j].declared >= 16 /\ (off + 8) + 16 <= size
                  /\ Wav!CanSkip((off + 8) + 16, Wav!Padded(c[j].declared) - 16)
<1>6. CASE Can
  <2>1. /\ off' = (off + 8) + Wav!Padded(c[j].declared) /\ bpf' = c[j].value
        /\ fmt_seen' /\ phase' = phase /\ data_length' = data_length
    BY <1>3, <1>6 DEF Wav!Fmt, Wav!Fixed
  <2>2. UNCHANGED GivenVars
    BY <1>1 DEF GivenVars
  <2>3. off' = off + 8 + Wav!Padded(c[j].declared)
    BY <2>1
  <2>4. j + 1 \in 1 .. Wav!TheData /\ WavAt(j + 1)'
    BY <1>2, <1>3, <2>1, <2>2, <2>3, WavPassed
  <2>5. Wav!TheData' = Wav!TheData
    BY <1>1, WavStays
  <2>6. \E k \in 1 .. Wav!TheData' : WavAt(k)'
    BY <2>4, <2>5
  <2>7. Unread'
    BY <1>1 DEF Unread
  <2> QED
    BY <1>1, <2>1, <2>6, <2>7 DEF WavWalk
<1>7. CASE ~Can
  <2>1. phase' = "failed"
    BY <1>3, <1>7 DEF Wav!Fmt, Wav!Fixed, Wav!Fail
  <2>2. size < off + 8 + Wav!Padded(c[j].declared)
    BY <1>4, <1>5, <1>7 DEF Wav!CanSkip
  <2>3. ~Wav!WellFormed
    BY <1>2, <1>3, <2>2, WavCutShort
  <2>4. Wav!WellFormed' = Wav!WellFormed
    BY <1>1, WavStays
  <2> QED
    BY <2>1, <2>3, <2>4 DEF WavWalk
<1> QED
  BY <1>6, <1>7

\* A chunk of no account, if it can be skipped.
LEMMA WavOtherChunk ==
  ASSUME IsWavFile(file), GivenInv, WavWalk, Wav!OtherChunk
  PROVE  WavWalk'
<1> DEFINE c == file.chunks
<1>1. /\ phase = "walk" /\ Wav!ChunkHere.id \notin {"fmt", "data", "none"} /\ Unread
      /\ UNCHANGED <<file, size, seekable, faulty, ignore_length,
                     position, count, delivered, nread>>
  BY DEF Wav!OtherChunk, Wav!Fail, Wav!formatVars, Wav!callerVars, WavWalk
<1>2. PICK j \in 1 .. Wav!TheData :
        /\ WavAt(j)
        /\ Wav!ChunkHere = IF Wav!Body(j) <= size THEN c[j] ELSE Wav!NoChunk
  <2>1. Wav!NoChunk.id = "none"
    BY DEF Wav!NoChunk, Wav!Chunk
  <2> QED
    BY <1>1, <2>1, WavFound
<1>3. Wav!ChunkHere = c[j] /\ c[j].id \notin {"fmt", "data"}
  BY <1>1, <1>2 DEF Wav!NoChunk, Wav!Chunk
<1>4. /\ off \in Int /\ Wav!Padded(c[j].declared) \in Nat
      /\ (off + 8) + Wav!Padded(c[j].declared) >= Wav!Body(j)
      /\ Wav!Body(j) \in Int /\ Wav!Body(j) <= size
  <2>1. j \in 1 .. Len(c) /\ j \in 1 .. Len(c) + 1
    BY WavChunks, WavLayout
  <2>2. c[j].declared = c[j].length
    BY <1>3, <2>1, WavChunks
  <2>3. off = Wav!Start(j) /\ off \in Int /\ Wav!Body(j) = off + 8
    BY <1>2, <2>1, WavLayout DEF WavAt
  <2>4. Wav!RoundUp(c[j].length) \in Nat
    BY <2>1, WavLayout
  <2>5. Wav!Body(j) <= size
    BY <1>1, <1>2 DEF Wav!NoChunk, Wav!Chunk
  <2> QED
    BY <2>2, <2>3, <2>4, <2>5 DEF Wav!Padded
<1>5. size \in Nat /\ seekable \in BOOLEAN
  BY DEF GivenInv
<1> DEFINE Can == Wav!CanSkip(off + 8, Wav!Padded(c[j].declared))
<1>6. CASE Can
  <2>1. /\ off' = (off + 8) + Wav!Padded(c[j].declared)
        /\ phase' = phase /\ data_length' = data_length /\ UNCHANGED <<fmt_seen, bpf>>
    BY <1>3, <1>6 DEF Wav!OtherChunk, Wav!SkippedBytes, Wav!formatVars
  <2>2. UNCHANGED GivenVars
    BY <1>1 DEF GivenVars
  <2>3. off' = off + 8 + Wav!Padded(c[j].declared)
    BY <2>1
  <2>4. j + 1 \in 1 .. Wav!TheData /\ WavAt(j + 1)'
    BY <1>2, <1>3, <2>1, <2>2, <2>3, WavPassed
  <2>5. Wav!TheData' = Wav!TheData
    BY <1>1, WavStays
  <2>6. \E k \in 1 .. Wav!TheData' : WavAt(k)'
    BY <2>4, <2>5
  <2>7. Unread'
    BY <1>1 DEF Unread
  <2> QED
    BY <1>1, <2>1, <2>6, <2>7 DEF WavWalk
<1>7. CASE ~Can
  <2>1. phase' = "failed"
    BY <1>3, <1>7 DEF Wav!OtherChunk, Wav!SkippedBytes, Wav!Fail
  <2>2. size < off + 8 + Wav!Padded(c[j].declared)
    BY <1>4, <1>5, <1>7 DEF Wav!CanSkip
  <2>3. ~Wav!WellFormed
    BY <1>2, <1>3, <2>2, WavCutShort
  <2>4. Wav!WellFormed' = Wav!WellFormed
    BY <1>1, WavStays
  <2> QED
    BY <2>1, <2>3, <2>4 DEF WavWalk
<1> QED
  BY <1>6, <1>7

\* No header is found where the file is cut off before the body of a chunk.
LEMMA WavNoFurtherChunk ==
  ASSUME IsWavFile(file), GivenInv, WavWalk, Wav!NoFurtherChunk
  PROVE  WavWalk'
<1>1. /\ phase = "walk" /\ phase' = "failed" /\ Wav!ChunkHere = Wav!NoChunk
      /\ UNCHANGED <<file, size, seekable, faulty, ignore_length>>
  BY DEF Wav!NoFurtherChunk, Wav!Fail, Wav!formatVars
<1>2. \E j \in 1 .. Wav!TheData : size < Wav!Body(j)
  <2>1. CASE WavLost
    <3>1. 2 \in 1 .. Wav!TheData /\ 2 \in 1 .. Len(file.chunks)
          /\ 2 \in 1 .. Len(file.chunks) + 1
      BY <2>1, WavChunks, WavLayout DEF WavLost
    <3>2. Wav!Body(2) = Wav!Start(2) + 8 /\ Wav!Start(2) \in Int
      BY <3>1, WavLayout
    <3>3. size < Wav!Body(2)
      BY <2>1, <3>2 DEF WavLost, GivenInv
    <3> QED
      BY <3>1, <3>3
  <2>2. CASE ~WavLost
    <3>1. PICK j \in 1 .. Wav!TheData :
            Wav!ChunkHere = IF Wav!Body(j) <= size THEN file.chunks[j] ELSE Wav!NoChunk
      BY <1>1, <2>2, WavFound
    <3>2. /\ j \in 1 .. Len(file.chunks) /\ j \in 1 .. Len(file.chunks) + 1
          /\ file.chunks[j].id # "none"
      BY WavChunks, WavLayout
    <3>3. Wav!Body(j) \in Int
      BY <3>2, WavLayout
    <3>4. ~ (Wav!Body(j) <= size)
      BY <1>1, <3>1, <3>2 DEF Wav!NoChunk, Wav!Chunk
    <3> QED
      BY <3>3, <3>4 DEF GivenInv
  <2> QED
    BY <2>1, <2>2
<1>3. ~Wav!WellFormed /\ Wav!WellFormed' = Wav!WellFormed
  BY <1>1, <1>2, WavCutOff, WavStays
<1> QED
  BY <1>1, <1>3 DEF WavWalk

-----------------------------------------------------------------------------
(***************************************************************************)
(* Reading frames, from either reader.                                     *)
(***************************************************************************)

\* Frames and bytes, of which there are f to a frame.
LEMMA Products ==
  ASSUME NEW x \in Int, NEW y \in Int, NEW f \in Nat \ {0}
  PROVE  /\ x <= y <=> x * f <= y * f
         /\ x * f \in Int
         /\ (x + y) * f = x * f + y * f
         /\ x < y => x * f + f <= y * f
         /\ x \in Nat => x * f \in Nat
  OBVIOUS

\* What division by the bytes of a frame does.
LEMMA Division ==
  ASSUME NEW x \in Nat, NEW f \in Nat \ {0}
  PROVE  /\ x \div f \in Nat
         /\ (x \div f) * f <= x
         /\ x < (x \div f) * f + f
         /\ x % f \in 0 .. (f - 1)
         /\ x = (x \div f) * f + (x % f)
<1>1. x \div f \in Nat
  OBVIOUS
<1>2. (x \div f) * f <= x
  OBVIOUS
<1>3. x < (x \div f) * f + f
  OBVIOUS
<1>4. x % f \in 0 .. (f - 1)
  OBVIOUS
<1>5. x = (x \div f) * f + (x % f)
  OBVIOUS
<1> QED
  BY <1>1, <1>2, <1>3, <1>4, <1>5

\* A quotient is the one number whose multiple is at most a divisor away.
LEMMA QuotientIs ==
  ASSUME NEW x \in Nat, NEW f \in Nat \ {0}, NEW q \in Nat, q * f <= x, x < q * f + f
  PROVE  x \div f = q
<1> DEFINE d == x \div f
<1>1. d \in Nat /\ d * f <= x /\ x < d * f + f
  BY Division
<1> HIDE DEF d
<1>2. ~ (d < q)
  <2>1. d < q => d * f + f <= q * f
    BY <1>1, Products
  <2>2. d * f \in Int /\ q * f \in Int
    BY <1>1, Products
  <2> QED
    BY <1>1, <2>1, <2>2
<1>3. ~ (q < d)
  <2>1. q < d => q * f + f <= d * f
    BY <1>1, Products
  <2>2. d * f \in Int /\ q * f \in Int
    BY <1>1, Products
  <2> QED
    BY <1>1, <2>1, <2>2
<1> QED
  BY <1>1, <1>2, <1>3 DEF d

\* The blocks that go into n frames.
LEMMA WholeBlocks ==
  ASSUME NEW n \in Nat, NEW b \in Nat \ {0}, NEW q \in Nat
  PROVE  LET whole == n - (n % b)
         IN  /\ whole \in 0 .. n
             /\ q * b + b <= n => q * b + b <= whole
             /\ q * b <= whole /\ q * b + b > n => q * b = whole
<1> DEFINE d == n \div b
           r == n % b
<1>1. d \in Nat /\ r \in 0 .. (b - 1) /\ n = d * b + r
  BY Division
<1> HIDE DEF d, r
<1>2. d * b \in Nat /\ q * b \in Nat
  BY <1>1, Products
<1>3. n - r = d * b
  BY <1>1, <1>2
<1>4. q < d => q * b + b <= d * b
  BY <1>1, Products
<1>5. d < q => d * b + b <= q * b
  BY <1>1, Products
<1>6. q * b + b <= n => q * b + b <= d * b
  <2>1. CASE q < d
    BY <1>4, <2>1
  <2>2. CASE ~ (q < d)
    <3>1. q * b >= d * b
      BY <1>1, <1>5, <1>2, <2>2
    <3> QED
      BY <1>1, <1>2, <3>1
  <2> QED
    BY <2>1, <2>2
<1>7. q * b <= d * b /\ q * b + b > n => q * b = d * b
  <2> SUFFICES ASSUME q * b <= d * b, q * b + b > n PROVE q * b = d * b
    OBVIOUS
  <2>1. ~ (q < d)
    BY <1>1, <1>2, <1>4
  <2>2. ~ (d < q)
    BY <1>1, <1>2, <1>5
  <2> QED
    BY <1>1, <2>1, <2>2
<1>8. n - r \in 0 .. n
  BY <1>1, <1>2, <1>3
<1> QED
  BY <1>3, <1>6, <1>7, <1>8 DEF r

\* What comes of asking for a frames at offset o when p have been read: p is N
\* at the end of size bytes, and as many as there are follow the first byte.
LEMMA Outcomes ==
  ASSUME NEW a \in Nat, NEW p \in Nat, NEW N \in Nat, NEW there \in Nat,
         NEW first \in Nat, NEW frame \in Nat \ {0}, NEW s \in Nat, NEW o \in Int,
         NEW fails \in BOOLEAN,
         first <= s => there * frame <= s - first,
         s < first => there = 0,
         s - first < there * frame + frame,
         o = first + p * frame \/ (p = N /\ o >= s),
         NEW rc, NEW n,
         rc = IF a = 0 THEN 0
              ELSE IF o + a * frame <= s THEN a * frame
              ELSE IF fails THEN -1 ELSE IF o < s THEN s - o ELSE 0,
         n = IF rc < 0 THEN -1 ELSE rc \div frame
  PROVE  \/ a = 0 /\ rc = 0 /\ n = 0
         \/ a > 0 /\ rc = a * frame /\ n = a /\ o = first + p * frame /\ p + a <= there
         \/ a > 0 /\ rc = -1 /\ n = -1 /\ fails /\ (p = N \/ p + a > there)
         \/ a > 0 /\ ~fails /\ rc = 0 /\ n = 0 /\ o >= s /\ (p = N \/ p >= there)
         \/ /\ a > 0 /\ ~fails /\ rc = s - o /\ rc > 0 /\ o = first + p * frame
            /\ p + a > there /\ n \in Nat /\ p + n = there
<1> DEFINE x(k) == k * frame
<1>0. /\ first <= s => x(there) <= s - first
      /\ s - first < x(there) + frame
      /\ o = first + x(p) \/ (p = N /\ o >= s)
  OBVIOUS
<1>1. /\ x(p) \in Nat /\ x(a) \in Nat /\ x(p + a) = x(p) + x(a) /\ x(there) \in Nat
      /\ x(0) = 0 /\ x(p + 1) = x(p) + frame /\ (a > 0 => x(a) >= frame)
  <2>1. x(1) = frame /\ x(0) = 0
    OBVIOUS
  <2>2. a > 0 => x(1) <= x(a)
    BY Products
  <2>3. x(p + a) = x(p) + x(a) /\ x(p + 1) = x(p) + x(1)
    BY Products
  <2>4. x(p) \in Nat /\ x(a) \in Nat /\ x(there) \in Nat
    BY Products
  <2> QED
    BY <2>1, <2>2, <2>3, <2>4
<1>2. \A k \in Nat : first + x(k) <= s => k <= there
  <2> SUFFICES ASSUME NEW k \in Nat, first + x(k) <= s, ~ (k <= there) PROVE FALSE
    OBVIOUS
  <2>1. x(there) + frame <= x(k)
    BY Products
  <2>2. x(k) \in Nat
    BY Products
  <2> HIDE DEF x
  <2> QED
    BY <1>0, <1>1, <2>1, <2>2
<1>3. \A k \in Nat : first + x(k) > s => k >= there
  <2> SUFFICES ASSUME NEW k \in Nat, first + x(k) > s, ~ (k >= there) PROVE FALSE
    OBVIOUS
  <2>1. x(k) + frame <= x(there)
    BY Products
  <2>2. x(k) \in Nat /\ there # 0
    BY Products
  <2> HIDE DEF x
  <2> QED
    BY <1>0, <1>1, <2>1, <2>2
<1>4. first <= s => ~ (first + x(there) > s)
  <2> HIDE DEF x
  <2> QED
    BY <1>0, <1>1
<1>5. \A k \in Nat : first + x(k) = s => k >= there
  <2> SUFFICES ASSUME NEW k \in Nat, first + x(k) = s, ~ (k >= there) PROVE FALSE
    OBVIOUS
  <2>1. x(k) + frame <= x(there)
    BY Products
  <2>2. x(k) \in Nat /\ there # 0
    BY Products
  <2> HIDE DEF x
  <2> QED
    BY <1>0, <1>1, <2>1, <2>2
<1>6. CASE a = 0
  <2>1. rc = 0 /\ 0 \div frame = 0
    BY <1>6
  <2> QED
    BY <1>6, <2>1
<1>7. CASE a > 0 /\ o + x(a) <= s
  <2>1. o = first + x(p)
    <3> HIDE DEF x
    <3>1. x(a) > 0
      BY <1>1, <1>7
    <3>2. ~ (o >= s)
      BY <1>1, <1>7, <3>1
    <3> QED
      BY <1>0, <3>2
  <2>2. rc = x(a)
    BY <1>7
  <2>3. x(a) \div frame = a
    BY <1>1, QuotientIs
  <2>4. ~ (rc < 0)
    BY <1>1, <2>2
  <2>5. first + x(p + a) <= s
    <3> HIDE DEF x
    <3> QED
      BY <1>1, <1>7, <2>1
  <2>6. p + a <= there
    BY <1>2, <2>5
  <2>7. n = a
    BY <2>2, <2>3, <2>4
  <2> QED
    BY <1>7, <2>1, <2>2, <2>6, <2>7
<1>8. CASE a > 0 /\ ~ (o + x(a) <= s) /\ fails
  <2>1. rc = -1 /\ n = -1
    BY <1>8
  <2>2. o = first + x(p) => p + a > there
    <3> SUFFICES ASSUME o = first + x(p), ~ (p + a > there) PROVE FALSE
      OBVIOUS
    <3>1. first + x(p + a) > s
      <4> HIDE DEF x
      <4> QED
        BY <1>1, <1>8
    <3>2. p + a = there
      BY <1>3, <3>1
    <3>3. s < first
      BY <1>4, <3>1, <3>2
    <3> QED
      BY <1>8, <3>2, <3>3
  <2> QED
    BY <1>8, <2>1, <2>2
<1>9. CASE a > 0 /\ ~ (o + x(a) <= s) /\ ~fails /\ ~ (o < s)
  <2>1. rc = 0 /\ 0 \div frame = 0
    BY <1>9
  <2>2. n = 0 /\ o >= s
    BY <1>9, <2>1
  <2>3. o = first + x(p) => p >= there
    <3> HIDE DEF x
    <3> QED
      BY <1>1, <1>3, <1>5, <2>2
  <2> QED
    BY <1>9, <2>1, <2>2, <2>3
<1>10. CASE a > 0 /\ ~ (o + x(a) <= s) /\ ~fails /\ o < s
  <2>1. rc = s - o /\ rc > 0 /\ rc \in Nat /\ ~ (rc < 0)
    BY <1>10
  <2>2. o = first + x(p)
    <3> HIDE DEF x
    <3> QED
      BY <1>0, <1>10
  <2>3. n = rc \div frame /\ n \in Nat /\ x(n) <= rc /\ rc < x(n) + frame
    BY <2>1, Division
  <2>4. x(p + n) = x(p) + x(n) /\ x(n) \in Nat /\ p + n \in Nat
    BY <2>3, Products
  <2>5. first <= s
    <3> HIDE DEF x
    <3> QED
      BY <1>1, <1>10, <2>2
  <2>6. first + x(p + n) <= s
    <3> HIDE DEF x
    <3> QED
      BY <1>1, <2>1, <2>2, <2>3, <2>4
  <2>7. p + n <= there
    BY <1>2, <2>4, <2>6
  <2>8. ~ (p + n < there)
    <3>1. p + n < there => x(p + n) + frame <= x(there)
      BY <2>4, Products
    <3> HIDE DEF x
    <3> QED
      BY <1>0, <1>1, <2>1, <2>2, <2>3, <2>4, <2>5, <3>1
  <2>9. p + n = there
    BY <2>3, <2>7, <2>8
  <2>10. p + a > there
    <3> SUFFICES ASSUME ~ (p + a > there) PROVE FALSE
      OBVIOUS
    <3>1. first + x(p + a) > s
      <4> HIDE DEF x
      <4> QED
        BY <1>1, <1>10, <2>2
    <3>2. p + a = there
      BY <1>3, <3>1
    <3> QED
      BY <1>4, <2>5, <3>1, <3>2
  <2> QED
    BY <1>10, <2>1, <2>2, <2>3, <2>9, <2>10
<1> QED
  BY <1>6, <1>7, <1>8, <1>9, <1>10

\* The lengths that a reader has to do with: of the frames that are there and of
\* those that are stated, what it has made of them, and what it comes to.
\* Ragged is a file that fails before what is asked for has been read.
Lengths(N, there, stated, len, seeks, ignores, fails, ragged) ==
  /\ N \in Nat /\ there \in Nat /\ stated \in Nat /\ len \in Int
  /\ there < Wav!Unlimited
  /\ ragged \in BOOLEAN /\ fails \in BOOLEAN /\ seeks \in BOOLEAN /\ ignores \in BOOLEAN
  /\ ignores => stated = Wav!Unlimited
  /\ ragged = (/\ fails /\ there < stated
               /\ ~ (seeks /\ ~ignores /\ stated = Wav!Unlimited))
  /\ N = IF stated <= there THEN stated ELSE IF ragged THEN there - (there % Block) ELSE there
  /\ IF stated = Wav!Unlimited /\ seeks THEN len = there \/ (len < 0 /\ there = 0)
                                        ELSE len = stated

\* The frames that are asked for.
AskedFor(p, c, len, ignores) ==
  IF ignores THEN Block - c
  ELSE IF len < p THEN Wav!Unlimited
  ELSE IF Block - c < len - p THEN Block - c ELSE len - p

\* What comes of asking for a frames, in numbers of frames.
Brought(a, n, p, N, there, fails) ==
  \/ a = 0 /\ n = 0
  \/ a > 0 /\ n = a /\ p + a <= there
  \/ a > 0 /\ n = -1 /\ fails /\ (p = N \/ p + a > there)
  \/ a > 0 /\ ~fails /\ n = 0 /\ (p = N \/ p >= there)
  \/ a > 0 /\ ~fails /\ n >= 0 /\ p + a > there /\ p + n = there

\* Nothing but whole blocks has been read.
InBlocks(p, c) == c = 0 /\ \E q \in Nat : p = q * Block

\* A read that brings nothing is one at the end, and no read goes beyond it.
LEMMA Progress ==
  ASSUME NEW N, NEW there, NEW stated, NEW len, NEW seeks, NEW ignores, NEW fails, NEW ragged,
         Lengths(N, there, stated, len, seeks, ignores, fails, ragged),
         NEW p \in 0 .. N, NEW c \in 0 .. (Block - 1),
         ragged => InBlocks(p, c),
         NEW a, a = AskedFor(p, c, len, ignores),
         NEW n \in Int, Brought(a, n, p, N, there, fails)
  PROVE  /\ a \in Nat
         /\ n <= 0 => p = N
         /\ n > 0 => p + n <= N /\ c + n <= Block
         /\ ragged /\ n > 0 => n = Block
         /\ n = 0 => ~ragged \/ a > 0
<1> USE BlockAssumption DEF InBlocks, Brought
<1> DEFINE U == Wav!Unlimited
<1>1. /\ N \in Nat /\ there \in Nat /\ stated \in Nat /\ len \in Int /\ there < U
      /\ U \in Nat /\ U > 0 /\ p \in Nat /\ p <= N /\ N <= there /\ Block \in Nat /\ Block > 0
      /\ c \in Nat /\ c < Block
  <2>1. there % Block \in 0 .. (Block - 1) /\ there - (there % Block) \in 0 .. there
    BY Division, WholeBlocks DEF Lengths
  <2> QED
    BY <2>1, Bounds DEF Lengths
<1>2. CASE stated <= there
  <2>1. ~ignores /\ ~ragged /\ N = stated /\ len = N
    BY <1>1, <1>2 DEF Lengths
  <2>2. a = IF Block - c < len - p THEN Block - c ELSE len - p
    BY <1>1, <2>1 DEF AskedFor
  <2>3. a \in Nat /\ p + a <= N /\ c + a <= Block /\ (a = 0 => p = N)
    BY <1>1, <2>1, <2>2
  <2> QED
    BY <1>1, <2>1, <2>3
<1>3. CASE stated > there /\ ragged
  <2>1. c = 0 /\ N = there - (there % Block) /\ fails
    <3>1. c = 0
      BY <1>3
    <3>2. ~ (stated <= there)
      BY <1>1, <1>3
    <3>3. N = there - (there % Block)
      BY <1>3, <3>2 DEF Lengths
    <3>4. fails
      BY <1>3, Zenon DEF Lengths
    <3> QED
      BY <3>1, <3>3, <3>4
  <2>2. PICK q \in Nat : p = q * Block
    BY <1>3
  <2>3. /\ p + Block <= there => p + Block <= N
        /\ p + Block > there => p = N
    BY <1>1, <2>1, <2>2, WholeBlocks
  <2>4. ignores \/ len = stated
    BY <1>3 DEF Lengths
  <2>5. a = IF ignores \/ Block < len - p THEN Block ELSE len - p
    BY <1>1, <1>3, <2>1, <2>4 DEF AskedFor
  <2>6. a \in Nat /\ a > 0 /\ a <= Block /\ (p + a <= there => a = Block)
    BY <1>1, <1>3, <2>4, <2>5
  <2> QED
    BY <1>1, <1>3, <2>1, <2>3, <2>6
<1>4. CASE stated > there /\ ~ragged
  <2>1. N = there
    BY <1>1, <1>4 DEF Lengths
  <2>2. a \in Nat /\ (a <= Block - c \/ (a > there /\ N = 0 /\ len < 0))
    BY <1>1, <2>1, <1>4 DEF Lengths, AskedFor
  <2>3. a = 0 => p = N
    BY <1>1, <2>1, <1>4 DEF Lengths, AskedFor
  <2>4. fails => p = N \/ p + a <= N
    <3> SUFFICES ASSUME fails, p # N PROVE p + a <= N
      OBVIOUS
    <3>1. ~ignores /\ len = N
      BY <1>1, <1>4, <2>1 DEF Lengths
    <3> QED
      BY <1>1, <3>1 DEF AskedFor
  <2> QED
    BY <1>1, <1>4, <2>1, <2>2, <2>3, <2>4
<1> QED
  BY <1>1, <1>2, <1>3, <1>4 DEF Lengths

\* What the caller has, of frames from offset first on, N in all.
Caller(first, frame, N, ragged) ==
  /\ position \in 0 .. N /\ count \in 0 .. (Block - 1) /\ nread \in Nat
  /\ nread = 0 => position = N /\ count = 0
  /\ delivered \in Seq(Int) /\ Len(delivered) = position
  /\ \A k \in 1 .. position : delivered[k] = first + (k - 1) * frame
  /\ off \in Int
  /\ off = first + position * frame \/ (position = N /\ off >= size)
  /\ ragged => InBlocks(position, count)

\* The caller gets f frames, or nothing.
Gets(f, frame) ==
  /\ position' = position + f
  /\ delivered' = delivered \o [k \in 1 .. f |-> off + (k - 1) * frame]
  /\ IF f = 0 \/ count + f = Block THEN count' = 0 /\ nread' = count + f
                                   ELSE count' = count + f /\ nread' = nread

\* A read of the caller's, by the contract of the chain.
Answered(N) ==
  \/ position' - count' = position - count /\ nread' = nread
  \/ /\ nread > 0
     /\ nread' = IF position - count >= N THEN 0
                 ELSE IF Block < N - (position - count) THEN Block ELSE N - (position - count)
     /\ position' - count' = (position - count) + nread'

\* A function on the first n numbers is a sequence.
LEMMA Listed ==
  ASSUME NEW n \in Nat, NEW t \in [1 .. n -> Int], NEW s \in Seq(Int)
  PROVE  /\ s \o t \in Seq(Int) /\ Len(s \o t) = Len(s) + n
         /\ \A k \in 1 .. Len(s) : (s \o t)[k] = s[k]
         /\ \A k \in (Len(s) + 1) .. (Len(s) + n) : (s \o t)[k] = t[k - Len(s)]
<1>1. t \in Seq(Int) /\ Len(t) = n
  OBVIOUS
<1>2. s \o t \in Seq(Int)
  BY <1>1
<1>3. Len(s \o t) = Len(s) + n
  BY <1>1
<1>4. \A k \in 1 .. Len(s) : (s \o t)[k] = s[k]
  BY <1>1
<1>5. ASSUME NEW k \in (Len(s) + 1) .. (Len(s) + n) PROVE (s \o t)[k] = t[k - Len(s)]
  <2>1. k \in 1 .. Len(s) + Len(t) /\ k > Len(s)
    BY <1>1
  <2> QED
    BY <1>1, <2>1
<1> QED
  BY <1>2, <1>3, <1>4, <1>5

\* The frames that came are those that follow, and there are no more than N.
LEMMA Returns ==
  ASSUME NEW CONSTANT first \in Nat, NEW CONSTANT frame \in Nat \ {0}, NEW CONSTANT N \in Nat,
         NEW CONSTANT ragged \in BOOLEAN,
         Caller(first, frame, N, ragged), nread > 0, size' = size,
         NEW CONSTANT n \in Int,
         n <= 0 => position = N,
         n > 0 => position + n <= N /\ count + n <= Block /\ off = first + position * frame,
         ragged /\ n > 0 => n = Block,
         NEW CONSTANT f, f = (IF n > 0 THEN n ELSE 0), Gets(f, frame),
         off' \in Int,
         off' = first + position' * frame \/ (position' = N /\ off' >= size')
  PROVE  Caller(first, frame, N, ragged)' /\ Answered(N)
<1> USE BlockAssumption DEF Gets
<1>1. /\ position \in Nat /\ position <= N /\ count \in Nat /\ count < Block /\ nread \in Nat
      /\ delivered \in Seq(Int) /\ Len(delivered) = position /\ f \in Nat
      /\ position + f <= N /\ count + f <= Block /\ Block \in Nat /\ Block > 0
      /\ f = 0 => position = N
      /\ f > 0 => f = n
  BY DEF Caller
<1>2. position' \in 0 .. N /\ count' \in 0 .. (Block - 1) /\ nread' \in Nat
      /\ (nread' = 0 => position' = N /\ count' = 0)
  BY <1>1
<1> DEFINE t == [k \in 1 .. f |-> off + (k - 1) * frame]
<1>3. /\ t \in [1 .. f -> Int]
      /\ \A k \in 1 .. f : t[k] = first + ((position + k) - 1) * frame
  <2>1. ASSUME NEW k \in 1 .. f
        PROVE  /\ off + (k - 1) * frame \in Int
               /\ off + (k - 1) * frame = first + ((position + k) - 1) * frame
    <3>1. off = first + position * frame
      BY <1>1
    <3>2. (position + (k - 1)) * frame = position * frame + (k - 1) * frame
      BY <1>1, Products
    <3>3. position * frame \in Int /\ (k - 1) * frame \in Int
      BY <1>1, Products
    <3>4. (position + k) - 1 = position + (k - 1)
      BY <1>1
    <3> DEFINE x == position * frame
               y == (k - 1) * frame
    <3>5. off = first + x /\ x \in Int /\ y \in Int /\ ((position + k) - 1) * frame = x + y
      BY <3>1, <3>2, <3>3, <3>4
    <3> HIDE DEF x, y
    <3>6. off + y \in Int /\ off + y = first + (x + y)
      BY <3>5
    <3> QED
      BY <3>5, <3>6 DEF y
  <2> QED
    BY <2>1
<1>4. delivered' = delivered \o t
  OBVIOUS
<1> HIDE DEF t
<1>5. /\ delivered' \in Seq(Int) /\ Len(delivered') = position'
      /\ \A k \in 1 .. position : delivered'[k] = delivered[k]
      /\ \A k \in (position + 1) .. (position + f) : delivered'[k] = t[k - position]
  <2> DEFINE both == delivered \o t
  <2>1. /\ both \in Seq(Int) /\ Len(both) = Len(delivered) + f
        /\ \A k \in 1 .. Len(delivered) : both[k] = delivered[k]
        /\ \A k \in (Len(delivered) + 1) .. (Len(delivered) + f) :
             both[k] = t[k - Len(delivered)]
    BY <1>1, <1>3, Listed
  <2>2. delivered' = both /\ Len(delivered) = position /\ position' = position + f
    BY <1>1, <1>4
  <2> HIDE DEF both
  <2> QED
    BY <2>1, <2>2
<1>6. ASSUME NEW k \in 1 .. position' PROVE delivered'[k] = first + (k - 1) * frame
  <2>1. CASE k <= position
    <3>1. k \in 1 .. position
      BY <1>1, <2>1
    <3> QED
      BY <1>5, <3>1 DEF Caller
  <2>2. CASE k > position
    <3>1. /\ k \in (position + 1) .. (position + f) /\ k - position \in 1 .. f
          /\ (position + (k - position)) - 1 = k - 1
      BY <1>1, <2>2
    <3> QED
      BY <1>3, <1>5, <3>1
  <2> QED
    BY <1>1, <2>1, <2>2
<1>7. ragged => InBlocks(position', count')
  <2> USE DEF InBlocks
  <2> SUFFICES ASSUME ragged PROVE count' = 0 /\ \E q \in Nat : position' = q * Block
    OBVIOUS
  <2>1. PICK q \in Nat : position = q * Block
    BY DEF Caller
  <2>2. count = 0
    BY DEF Caller
  <2>3. f = 0 \/ f = Block
    BY <1>1
  <2>4. count' = 0
    BY <1>1, <2>2, <2>3
  <2>5. (q + 1) * Block = q * Block + Block /\ q + 1 \in Nat
    OBVIOUS
  <2>6. position' = q * Block \/ position' = (q + 1) * Block
    BY <1>1, <2>1, <2>3, <2>5
  <2> QED
    BY <2>4, <2>5, <2>6
<1>8. Caller(first, frame, N, ragged)'
  BY <1>2, <1>5, <1>6, <1>7 DEF Caller, InBlocks
<1>9. Answered(N)
  <2>1. CASE f = 0
    <3>1. /\ count' = 0 /\ nread' = count /\ position' = position /\ position = N
      BY <1>1, <2>1
    <3> QED
      BY <1>1, <3>1 DEF Answered
  <2>2. CASE f > 0 /\ count + f = Block
    <3>1. count' = 0 /\ nread' = Block
      BY <1>1, <2>2
    <3>2. position - count + Block <= N /\ position' = position - count + Block
      BY <1>1, <2>2
    <3> QED
      BY <1>1, <3>1, <3>2 DEF Answered
  <2>3. CASE f > 0 /\ count + f # Block
    <3>1. count' = count + f /\ nread' = nread
      BY <1>1, <2>3
    <3> QED
      BY <1>1, <3>1 DEF Answered
  <2> QED
    BY <1>1, <2>1, <2>2, <2>3
<1> QED
  BY <1>8, <1>9

\* The frames there are, there of them, begin at offset first.
InPlace(first, frame, there) ==
  /\ first \in Nat /\ frame \in Nat \ {0} /\ there \in Nat /\ size \in Nat
  /\ first <= size => there * frame <= size - first
  /\ size < first => there = 0
  /\ size - first < there * frame + frame

\* Asked for a frames, pcm_read() returns rc, which are n frames.
ReadsFor(a, rc, n, frame) ==
  /\ rc = IF a = 0 THEN 0
          ELSE IF off + a * frame <= size THEN a * frame
          ELSE IF faulty THEN -1 ELSE IF off < size THEN size - off ELSE 0
  /\ n = IF rc < 0 THEN -1 ELSE rc \div frame

\* The offset behind what has been read; or, with no frame of it, the end.
MovesOn(rc, n) ==
  \/ off' = off + (IF rc > 0 THEN rc ELSE 0)
  \/ n = 0 /\ off' = IF off < size THEN size ELSE off

\* What can come of it.
Outcome(a, rc, n, first, frame, N, there) ==
  \/ a = 0 /\ rc = 0 /\ n = 0
  \/ a > 0 /\ rc = a * frame /\ n = a /\ off = first + position * frame /\ position + a <= there
  \/ a > 0 /\ rc = -1 /\ n = -1 /\ faulty /\ (position = N \/ position + a > there)
  \/ a > 0 /\ ~faulty /\ rc = 0 /\ n = 0 /\ off >= size /\ (position = N \/ position >= there)
  \/ /\ a > 0 /\ ~faulty /\ rc = size - off /\ rc > 0 /\ off = first + position * frame
     /\ position + a > there /\ n \in Nat /\ position + n = there

\* Each block the caller reads is what comes next in the data.
LEMMA Served ==
  ASSUME NEW CONSTANT first, NEW CONSTANT frame, NEW CONSTANT there, NEW CONSTANT stated,
         NEW CONSTANT N, NEW CONSTANT len, NEW CONSTANT ignores, NEW CONSTANT ragged,
         Lengths(N, there, stated, len, seekable, ignores, faulty, ragged),
         InPlace(first, frame, there),
         Caller(first, frame, N, ragged), nread > 0, size' = size,
         NEW CONSTANT a, a = AskedFor(position, count, len, ignores),
         NEW CONSTANT rc, NEW CONSTANT n, ReadsFor(a, rc, n, frame),
         NEW CONSTANT f, f = (IF n > 0 THEN n ELSE 0), Gets(f, frame),
         MovesOn(rc, n)
  PROVE  /\ Caller(first, frame, N, ragged)' /\ Answered(N)
         /\ Outcome(a, rc, n, first, frame, N, there)
         /\ N <= there
         /\ n \in Int /\ (n <= 0 => position = N) /\ (n > 0 => position + n <= N)
<1> USE BlockAssumption
<1>2. /\ first \in Nat /\ frame \in Nat \ {0} /\ there \in Nat /\ size \in Nat
      /\ first <= size => there * frame <= size - first
      /\ size < first => there = 0
      /\ size - first < there * frame + frame
  BY DEF InPlace
<1>4. N \in Nat /\ len \in Int /\ ragged \in BOOLEAN /\ faulty \in BOOLEAN
  BY DEF Lengths
<1>5. /\ position \in 0 .. N /\ count \in 0 .. (Block - 1)
      /\ ragged => InBlocks(position, count)
      /\ off = first + position * frame \/ (position = N /\ off >= size)
      /\ off \in Int
  BY DEF Caller
<1>10. a \in Nat
  BY <1>4, <1>5, Bounds DEF AskedFor
<1>11. /\ rc = IF a = 0 THEN 0
              ELSE IF off + a * frame <= size THEN a * frame
              ELSE IF faulty THEN -1 ELSE IF off < size THEN size - off ELSE 0
       /\ n = IF rc < 0 THEN -1 ELSE rc \div frame
  BY DEF ReadsFor
<1>12. off \in Int /\ position \in Nat
  BY <1>4, <1>5
<1>13. Outcome(a, rc, n, first, frame, N, there)
  BY <1>2, <1>4, <1>5, <1>10, <1>11, <1>12, Outcomes DEF Outcome
<1>14. /\ n \in Int
       /\ n <= 0 => position = N
       /\ n > 0 => position + n <= N /\ count + n <= Block /\ off = first + position * frame
       /\ ragged /\ n > 0 => n = Block
  <2>1. n \in Int
    BY <1>10, <1>13 DEF Outcome
  <2>2. Brought(a, n, position, N, there, faulty)
    BY <1>13 DEF Brought, Outcome
  <2>3. /\ n <= 0 => position = N
        /\ n > 0 => position + n <= N /\ count + n <= Block
        /\ ragged /\ n > 0 => n = Block
    BY <1>5, <2>1, <2>2, Progress
  <2>4. n > 0 => off = first + position * frame
    BY <1>13 DEF Outcome
  <2> QED
    BY <2>1, <2>3, <2>4
<1>15. N <= there
  <2>1. there - (there % Block) \in 0 .. there
    BY <1>2, WholeBlocks
  <2> QED
    BY <1>2, <1>4, <2>1 DEF Lengths
<1>7. position' = position + f /\ (off' = off + (IF rc > 0 THEN rc ELSE 0)
                                     \/ (n = 0 /\ off' = IF off < size THEN size ELSE off))
  BY DEF Gets, MovesOn
<1>16. off' \in Int /\ (off' = first + position' * frame \/ (position' = N /\ off' >= size'))
  <2>3. CASE rc <= 0 /\ n <= 0 /\ rc \in Int /\ off' = off + (IF rc > 0 THEN rc ELSE 0)
    <3>1. off' = off /\ position' = position
      BY <1>7, <1>12, <1>14, <2>3
    <3> QED
      BY <1>5, <3>1
  <2>4. CASE a > 0 /\ rc = a * frame /\ n = a /\ off = first + position * frame
    <3>1. a * frame \in Nat /\ position * frame \in Nat
          /\ (position + a) * frame = position * frame + a * frame
      BY <1>2, <1>10, <1>12, Products
    <3>2. off' = first + (position * frame + a * frame)
      BY <1>2, <1>7, <1>10, <2>4, <3>1
    <3>3. position' = position + a
      BY <1>7, <1>10, <2>4
    <3>4. off' \in Int
      BY <1>2, <3>1, <3>2
    <3> QED
      BY <3>1, <3>2, <3>3, <3>4
  <2>5. CASE /\ rc = size - off /\ rc > 0 /\ n \in Nat /\ position + n = there
             /\ off' = off + (IF rc > 0 THEN rc ELSE 0)
    <3>1. off' = size
      BY <1>2, <1>12, <2>5
    <3>2. position' = there /\ position' = N
      BY <1>2, <1>4, <1>7, <1>12, <1>14, <1>15, <2>5
    <3> QED
      BY <1>2, <3>1, <3>2
  <2>6. CASE n = 0 /\ off' = IF off < size THEN size ELSE off
    <3>1. position' = position /\ position = N
      BY <1>7, <1>12, <1>14, <2>6
    <3>2. off' \in Int /\ off' >= size
      BY <1>2, <1>12, <2>6
    <3> QED
      BY <3>1, <3>2
  <2>7. -1 \in Int /\ 0 \in Int /\ -1 <= 0
    OBVIOUS
  <2> QED
    BY <1>7, <1>13, <2>3, <2>4, <2>5, <2>6, <2>7 DEF Outcome
<1>18. Caller(first, frame, N, ragged)' /\ Answered(N)
  BY <1>2, <1>4, <1>14, <1>16, Returns
<1> QED
  BY <1>13, <1>14, <1>15, <1>18

-----------------------------------------------------------------------------
(***************************************************************************)
(* Reading a WAV file, or a raw one.                                       *)
(***************************************************************************)
IsRawFile(f) == f.kind = "raw" /\ f.chunks[1].value \in Nat \ {0}

\* The file fails before what is asked for has been read.
WavRagged ==
  /\ faulty /\ Wav!FramesThere < Wav!FramesStated
  /\ ~ (seekable /\ ~ignore_length /\ Wav!FramesStated = Wav!Unlimited)

\* The reader's length is one of those the file gives it.
WavLengths ==
  Lengths(Wav!FramesInAll, Wav!FramesThere, Wav!FramesStated, length,
          seekable, ignore_length, faulty, WavRagged)

WavReading ==
  /\ Wav!WellFormed
  /\ bpf = Wav!TheFrame
  /\ WavLengths /\ length \in Nat
  /\ Caller(Wav!FirstByte, Wav!TheFrame, Wav!FramesInAll, WavRagged)

\* Where the data are, and how many frames of them there are.
LEMMA WavSizes ==
  ASSUME IsWavFile(file) \/ IsRawFile(file), GivenInv, Wav!WellFormed
  PROVE  /\ Wav!TheFrame \in Nat \ {0} /\ Wav!FirstByte \in Nat /\ Wav!FirstByte <= size
         /\ Wav!FramesThere \in Nat
         /\ Wav!FramesThere * Wav!TheFrame <= size - Wav!FirstByte
         /\ size - Wav!FirstByte < Wav!FramesThere * Wav!TheFrame + Wav!TheFrame
         /\ Wav!FramesThere < Wav!Unlimited
         /\ Wav!StatedBytes \in Nat
<1> DEFINE first == Wav!FirstByte
           frame == Wav!TheFrame
           there == Wav!FramesThere
<1>1. frame \in Nat \ {0} /\ first \in Nat /\ first <= size /\ Wav!StatedBytes \in Nat
  <2>1. CASE IsRawFile(file)
    BY <2>1 DEF IsRawFile, Wav!TheFrame, Wav!FirstByte, Wav!StatedBytes, GivenInv
  <2>2. CASE IsWavFile(file)
    <3> DEFINE D == Wav!TheData
    <3>1. file.kind # "raw"
      BY <2>2 DEF IsWavFile
    <3>2. PICK i \in Wav!Positions("fmt") : i < D
      BY <3>1 DEF Wav!WellFormed
    <3>3. frame \in Nat \ {0}
      BY <2>2, <3>2, WavChunks DEF Wav!Positions
    <3>4. /\ first = Wav!Body(D) /\ D \in 1 .. Len(file.chunks) /\ Len(file.chunks) \in Nat
          /\ D \in 1 .. Len(file.chunks) + 1 /\ 1 \in 1 .. Len(file.chunks) + 1
      BY <2>2, WavChunks, WavLayout
    <3>5. /\ Wav!Body(D) = Wav!Start(D) + 8 /\ Wav!Start(D) \in Int /\ Wav!Start(1) = 12
          /\ 1 < D => Wav!Start(1) + 8 <= Wav!Start(D)
      BY <2>2, <3>4, WavLayout
    <3>6. Wav!Start(D) >= 12
      <4>1. CASE D = 1
        BY <3>5, <4>1
      <4>2. CASE D # 1
        <5>1. 1 < D
          BY <3>4, <4>2
        <5> HIDE DEF D
        <5> QED
          BY <3>5, <5>1
      <4> QED
        BY <4>1, <4>2
    <3>7. Wav!Body(D) <= size
      BY <3>1 DEF Wav!WellFormed
    <3>8. Wav!StatedBytes \in Nat
      BY <2>2, WavChunks, Bounds DEF Number
    <3> HIDE DEF D
    <3> QED
      BY <3>3, <3>4, <3>5, <3>6, <3>7, <3>8
  <2> QED
    BY <2>1, <2>2
<1>2. there = (size - first) \div frame
  BY DEF Wav!FramesThere
<1>3. size - first \in Nat /\ size \in Nat /\ size < Wav!Unlimited
  BY <1>1 DEF GivenInv
<1> DEFINE left == size - first
<1>4. /\ there \in Nat /\ there * frame <= left /\ left < there * frame + frame
  <2>1. there = left \div frame /\ left \in Nat
    BY <1>2, <1>3
  <2> HIDE DEF there, left, frame
  <2> QED
    BY <1>1, <2>1, Division
<1>5. there <= there * frame
  <2>1. 1 * there <= frame * there
    <3>1. 1 <= frame /\ there \in Nat /\ frame \in Int
      BY <1>1, <1>4
    <3> QED
      BY <3>1
  <2> QED
    BY <1>1, <1>4, <2>1
<1>6. there < Wav!Unlimited
  <2>1. there * frame \in Int /\ left <= size /\ left \in Int
    BY <1>1, <1>3, <1>4, Products
  <2> HIDE DEF left, there, frame, first
  <2> QED
    BY <1>3, <1>4, <1>5, <2>1, Bounds
<1> QED
  BY <1>1, <1>4, <1>6

\* What the file states, and what the reader makes of it.
LEMMA WavSettled ==
  ASSUME IsWavFile(file) \/ IsRawFile(file), GivenInv, Wav!WellFormed,
         NEW len, len = IF Wav!FramesStated = Wav!Unlimited /\ seekable
                         THEN Wav!FramesThere ELSE Wav!FramesStated
  PROVE  /\ Lengths(Wav!FramesInAll, Wav!FramesThere, Wav!FramesStated, len,
                    seekable, ignore_length, faulty, WavRagged)
         /\ len \in Nat
<1> USE BlockAssumption
<1> DEFINE there == Wav!FramesThere
           stated == Wav!FramesStated
           N == Wav!FramesInAll
           U == Wav!Unlimited
<1>1. there \in Nat /\ there < U /\ U \in Nat /\ Wav!StatedBytes \in Nat
      /\ Wav!TheFrame \in Nat \ {0}
  BY WavSizes, Bounds
<1>2. stated \in Nat /\ (ignore_length => stated = U)
  <2>1. CASE ignore_length \/ Wav!StatedBytes = 0 \/ Wav!StatedBytes % Wav!TheFrame # 0
    <3>1. stated = U
      BY <2>1 DEF Wav!FramesStated
    <3> QED
      BY <1>1, <3>1
  <2>2. CASE ~ (ignore_length \/ Wav!StatedBytes = 0 \/ Wav!StatedBytes % Wav!TheFrame # 0)
    <3>1. stated = Wav!StatedBytes \div Wav!TheFrame
      BY <2>2 DEF Wav!FramesStated
    <3>2. Wav!StatedBytes \div Wav!TheFrame \in Nat
      BY <1>1, Division
    <3> QED
      BY <2>2, <3>1, <3>2
  <2> QED
    BY <2>1, <2>2
<1>3. faulty \in BOOLEAN /\ seekable \in BOOLEAN /\ ignore_length \in BOOLEAN
  BY DEF GivenInv
<1>4. N = IF stated <= there THEN stated
          ELSE IF ~faulty THEN there
          ELSE IF seekable /\ ~ignore_length /\ stated = U THEN there
          ELSE there - (there % Block)
  BY DEF Wav!FramesInAll
<1>5. there % Block \in 0 .. (Block - 1) /\ there - (there % Block) \in 0 .. there
  BY <1>1, Division, WholeBlocks
<1>6. len = IF stated = U /\ seekable THEN there ELSE stated
  OBVIOUS
<1>7. WavRagged = (faulty /\ there < stated /\ ~ (seekable /\ ~ignore_length /\ stated = U))
  BY DEF WavRagged
<1> HIDE DEF there, stated, N, U
<1>8. N = IF stated <= there THEN stated ELSE IF WavRagged THEN there - (there % Block) ELSE there
  <2>1. CASE stated <= there
    BY <1>4, <2>1
  <2>2. CASE ~ (stated <= there)
    <3>1. there < stated
      BY <1>1, <1>2, <2>2
    <3>2. WavRagged = (faulty /\ ~ (seekable /\ ~ignore_length /\ stated = U))
      BY <1>7, <3>1
    <3>3. N = IF WavRagged THEN there - (there % Block) ELSE there
      <4>1. CASE WavRagged
        BY <1>4, <2>2, <3>2, <4>1
      <4>2. CASE ~WavRagged
        BY <1>4, <2>2, <3>2, <4>2
      <4> QED
        BY <4>1, <4>2
    <3> QED
      BY <2>2, <3>3
  <2> QED
    BY <2>1, <2>2
<1>9. N \in Nat
  BY <1>1, <1>2, <1>5, <1>8
<1>10. len \in Nat /\ (IF stated = U /\ seekable THEN len = there \/ (len < 0 /\ there = 0)
                                                   ELSE len = stated)
  BY <1>1, <1>2, <1>6
<1>11. WavRagged \in BOOLEAN /\ len \in Int
  BY <1>7, <1>10
<1> QED
  BY <1>1, <1>2, <1>3, <1>7, <1>8, <1>9, <1>10, <1>11
  DEF Lengths, there, stated, N, U

\* Before the first block the caller has nothing.
LEMMA Begun ==
  ASSUME NEW CONSTANT first \in Nat, NEW CONSTANT frame \in Nat \ {0}, NEW CONSTANT N \in Nat,
         NEW CONSTANT ragged \in BOOLEAN,
         Unread, UNCHANGED <<position, count, delivered, nread>>, off' = first
  PROVE  Caller(first, frame, N, ragged)'
<1>1. position' = 0 /\ count' = 0 /\ delivered' = <<>> /\ nread' = 1
  BY DEF Unread
<1>2. position' \in 0 .. N /\ count' \in 0 .. (Block - 1) /\ nread' \in Nat /\ nread' # 0
  BY <1>1, BlockAssumption
<1>3. delivered' \in Seq(Int) /\ Len(delivered') = position'
  BY <1>1
<1>4. off' \in Int /\ off' = first + position' * frame
  BY <1>1
<1>5. InBlocks(position', count')
  <2>1. 0 \in Nat /\ 0 = 0 * Block
    BY BlockAssumption
  <2> QED
    BY <1>1, <2>1 DEF InBlocks
<1>6. \A k \in 1 .. position' : delivered'[k] = first + (k - 1) * frame
  BY <1>1
<1> QED
  BY <1>2, <1>3, <1>4, <1>5, <1>6 DEF Caller, InBlocks

\* At the first byte of the data, with the length settled, reading can begin.
LEMMA WavBegun ==
  ASSUME IsWavFile(file) \/ IsRawFile(file), GivenInv, Wav!WellFormed, Unread,
         UNCHANGED <<file, size, seekable, faulty, ignore_length,
                     position, count, delivered, nread>>,
         off' = Wav!FirstByte, bpf' = Wav!TheFrame,
         length' = IF Wav!FramesStated = Wav!Unlimited /\ seekable
                     THEN Wav!FramesThere ELSE Wav!FramesStated
  PROVE  WavReading'
<1>1. PICK first, frame, N, ragged, there, stated, len :
        /\ first = Wav!FirstByte /\ frame = Wav!TheFrame /\ N = Wav!FramesInAll
        /\ ragged = WavRagged /\ there = Wav!FramesThere /\ stated = Wav!FramesStated
        /\ len = length'
  OBVIOUS
<1>2. Lengths(N, there, stated, len, seekable, ignore_length, faulty, ragged) /\ len \in Nat
  BY <1>1, WavSettled
<1>3. /\ first \in Nat /\ frame \in Nat \ {0} /\ N \in Nat /\ ragged \in BOOLEAN
  BY <1>1, <1>2, WavSizes DEF Lengths
<1>4. Caller(first, frame, N, ragged)'
  BY <1>1, <1>3, Begun
<1>5. /\ Wav!FirstByte' = first /\ Wav!TheFrame' = frame /\ Wav!FramesInAll' = N
      /\ Wav!FramesThere' = there /\ Wav!FramesStated' = stated
      /\ Wav!WellFormed' /\ bpf' = Wav!TheFrame'
  BY <1>1, WavStays
<1>6. WavRagged' = ragged
  BY <1>1, WavStays DEF WavRagged
<1>7. WavLengths' /\ length' \in Nat
  BY <1>1, <1>2, <1>5, <1>6 DEF WavLengths
<1>8. Caller(Wav!FirstByte, Wav!TheFrame, Wav!FramesInAll, WavRagged)'
  BY <1>4, <1>5, <1>6 DEF Caller
<1> QED
  BY <1>5, <1>7, <1>8 DEF WavReading

\* The data chunk, which ends the walk.
LEMMA WavData ==
  ASSUME IsWavFile(file), GivenInv, WavWalk, Wav!Data
  PROVE  /\ phase' = "reading" => WavReading'
         /\ phase' = "failed" => ~Wav!WellFormed'
         /\ phase' \in {"reading", "failed"}
<1> DEFINE c == file.chunks
           D == Wav!TheData
<1>1. /\ phase = "walk" /\ Wav!ChunkHere.id = "data" /\ Unread
      /\ UNCHANGED <<file, size, seekable, faulty, ignore_length,
                     position, count, delivered, nread>>
  BY DEF Wav!Data, Wav!Fail, Wav!formatVars, Wav!callerVars, WavWalk
<1>2. PICK j \in 1 .. Wav!TheData :
        /\ WavAt(j)
        /\ Wav!ChunkHere = IF Wav!Body(j) <= size THEN c[j] ELSE Wav!NoChunk
  <2>1. Wav!NoChunk.id = "none"
    BY DEF Wav!NoChunk, Wav!Chunk
  <2> QED
    BY <1>1, <2>1, WavFound
<1>3. Wav!ChunkHere = c[j] /\ c[j].id = "data" /\ Wav!Body(j) <= size
  BY <1>1, <1>2 DEF Wav!NoChunk, Wav!Chunk
<1>4. j = D /\ D \in 1 .. Len(c) /\ Len(c) \in Nat /\ file.kind # "raw"
      /\ file.kind \in {"RIFF", "RF64"}
  <2>1. D \in 1 .. Len(c) /\ Len(c) \in Nat
    BY WavChunks, WavLayout
  <2>2. j \in 1 .. Len(c)
    BY <2>1
  <2> QED
    BY <1>3, <2>1, <2>2, WavChunks DEF IsWavFile
<1>5. off + 8 = Wav!FirstByte
  <2>1. off = Wav!Start(j) /\ Wav!FirstByte = Wav!Body(j) /\ Wav!Body(j) = Wav!Start(j) + 8
    BY <1>2, <1>4, WavLayout DEF WavAt, Wav!FirstByte
  <2> QED
    BY <2>1
<1>6. fmt_seen <=> Wav!WellFormed
  <2>1. FormatBefore(D) <=> \E i \in Wav!Positions("fmt") : i < D
    <3>1. \A i : i \in 1 .. (D - 1) <=> i \in 1 .. Len(c) /\ i < D
      BY <1>4
    <3> QED
      BY <3>1 DEF FormatBefore, Wav!Positions
  <2>2. fmt_seen <=> FormatBefore(D)
    BY <1>2, <1>4 DEF WavAt
  <2> QED
    BY <1>3, <1>4, <2>1, <2>2 DEF Wav!WellFormed
<1>7. Wav!DataBytes(c[j].declared) = Wav!StatedBytes
  BY <1>2, <1>4 DEF Wav!DataBytes, Wav!StatedBytes, WavAt
<1>8. CASE ~fmt_seen
  <2>1. phase' = "failed"
    BY <1>8 DEF Wav!Data, Wav!Fail
  <2>2. ~Wav!WellFormed'
    BY <1>1, <1>6, <1>8, WavStays
  <2> QED
    BY <2>1, <2>2
<1>9. CASE fmt_seen
  <2>1. Wav!WellFormed /\ bpf = Wav!TheFrame
    BY <1>2, <1>6, <1>9 DEF WavAt
  <2>2. Wav!DeclaredFrames(Wav!StatedBytes) = Wav!FramesStated
    BY <2>1 DEF Wav!DeclaredFrames, Wav!FramesStated
  <2>3. Wav!FramesFrom(off + 8, bpf) = Wav!FramesThere
    BY <1>5, <2>1 DEF Wav!FramesFrom, Wav!FramesThere
  <2>4. /\ phase' = "reading" /\ off' = off + 8 /\ bpf' = bpf
        /\ length' = IF Wav!DeclaredFrames(Wav!DataBytes(c[j].declared)) = Wav!Unlimited
                          /\ seekable
                       THEN Wav!FramesFrom(off + 8, bpf)
                       ELSE Wav!DeclaredFrames(Wav!DataBytes(c[j].declared))
    BY <1>3, <1>9 DEF Wav!Data
  <2>5. length' = IF Wav!FramesStated = Wav!Unlimited /\ seekable
                    THEN Wav!FramesThere ELSE Wav!FramesStated
    BY <1>7, <2>2, <2>3, <2>4
  <2>6. WavReading'
    BY <1>1, <1>5, <2>1, <2>4, <2>5, WavBegun
  <2> QED
    BY <2>4, <2>6
<1> QED
  BY <1>8, <1>9

\* A raw file, which is nothing but data.
LEMMA WavOpenRaw ==
  ASSUME IsRawFile(file), GivenInv, WavWalk, Wav!OpenRaw
  PROVE  phase' = "reading" /\ WavReading'
<1>1. /\ phase = "open" /\ phase' = "reading" /\ Unread /\ off = 0 /\ off' = 0
      /\ UNCHANGED <<file, size, seekable, faulty, ignore_length,
                     position, count, delivered, nread>>
      /\ bpf' = file.chunks[1].value
      /\ length' = IF seekable THEN Wav!FramesFrom(0, bpf') ELSE Wav!Unlimited
  BY DEF Wav!OpenRaw, Wav!fileVars, Wav!callerVars, WavWalk
<1>2. Wav!WellFormed /\ Wav!FirstByte = 0 /\ bpf' = Wav!TheFrame /\ Wav!StatedBytes = 0
  BY <1>1 DEF IsRawFile, Wav!WellFormed, Wav!FirstByte, Wav!TheFrame, Wav!StatedBytes
<1>3. Wav!FramesStated = Wav!Unlimited
  BY <1>2 DEF Wav!FramesStated
<1>4. Wav!FramesFrom(0, bpf') = Wav!FramesThere
  BY <1>2 DEF Wav!FramesFrom, Wav!FramesThere
<1>5. length' = IF Wav!FramesStated = Wav!Unlimited /\ seekable
                  THEN Wav!FramesThere ELSE Wav!FramesStated
  BY <1>1, <1>3, <1>4
<1> QED
  BY <1>1, <1>2, <1>5, WavBegun

\* A read, which leaves the file as it is.
LEMMA WavRead ==
  ASSUME IsWavFile(file) \/ IsRawFile(file), GivenInv, WavReading, Wav!ReadFrames
  PROVE  WavReading' /\ Answered(Wav!FramesInAll)
<1> USE BlockAssumption
<1>1. PICK first, frame, N, ragged, there, stated, len, ignores, a, rc, n, f :
        /\ first = Wav!FirstByte /\ frame = Wav!TheFrame /\ N = Wav!FramesInAll
        /\ ragged = WavRagged /\ there = Wav!FramesThere /\ stated = Wav!FramesStated
        /\ len = length /\ ignores = ignore_length
        /\ a = Wav!Asked /\ rc = (IF a = 0 THEN 0 ELSE Wav!Read(a * bpf))
        /\ n = Wav!FramesRead(rc) /\ f = (IF n > 0 THEN n ELSE 0)
  OBVIOUS
<1>2. InPlace(first, frame, there)
  BY <1>1, WavSizes DEF WavReading, GivenInv, InPlace
<1>3. /\ Lengths(N, there, stated, len, seekable, ignores, faulty, ragged)
      /\ Caller(first, frame, N, ragged) /\ bpf = frame /\ Wav!WellFormed /\ len \in Nat
  BY <1>1 DEF WavReading, WavLengths
<1>4. N \in Nat /\ len \in Int /\ there \in Nat /\ stated \in Nat
  BY <1>3 DEF Lengths
<1>5. position \in 0 .. N
  BY <1>3 DEF Caller
<1>6. position <= len \/ ignores
  <2>1. N <= there
    <3>1. there - (there % Block) \in 0 .. there
      BY <1>4, WholeBlocks
    <3> QED
      BY <1>3, <1>4, <3>1 DEF Lengths
  <2>2. len = there \/ len = stated \/ len < 0
    BY <1>3 DEF Lengths
  <2>3. stated < there => N = stated
    BY <1>3, <1>4 DEF Lengths
  <2> QED
    BY <1>3, <1>4, <1>5, <2>1, <2>2, <2>3
<1>7. nread > 0 /\ UNCHANGED <<file, size, seekable, faulty, ignore_length, bpf, length>>
  BY DEF Wav!ReadFrames, Wav!formatVars
<1>8. MovesOn(rc, n) /\ Gets(f, frame)
  BY <1>1, <1>3 DEF Wav!ReadFrames, Wav!Returned, MovesOn, Gets
<1>9. a = AskedFor(position, count, len, ignores)
  <2>1. CASE ignores
    BY <1>1, <2>1 DEF Wav!Asked, Wav!Room, AskedFor
  <2>2. CASE ~ignores
    <3>1. ~ (len < position)
      BY <1>4, <1>5, <1>6, <2>2
    <3> QED
      BY <1>1, <2>2, <3>1 DEF Wav!Asked, Wav!Room, Wav!Lesser, AskedFor
  <2> QED
    BY <2>1, <2>2
<1>10. ReadsFor(a, rc, n, frame)
  BY <1>1, <1>3 DEF Wav!Read, Wav!FramesRead, ReadsFor
<1>11. f = IF n > 0 THEN n ELSE 0
  BY <1>1
<1>12. size' = size /\ nread > 0
  BY <1>7
<1>18. Caller(first, frame, N, ragged)' /\ Answered(N)
  BY <1>2, <1>3, <1>8, <1>9, <1>10, <1>11, <1>12, Served
<1>19. /\ Wav!FirstByte' = first /\ Wav!TheFrame' = frame /\ Wav!FramesInAll' = N
       /\ Wav!WellFormed' /\ bpf' = Wav!TheFrame' /\ length' = length
  BY <1>1, <1>3, <1>7, WavStays
<1>20. WavRagged' = ragged
  BY <1>1, <1>7, WavStays DEF WavRagged
<1>21. WavLengths' /\ length' \in Nat
  BY <1>1, <1>3, <1>7, <1>20, WavStays DEF WavLengths
<1>22. Caller(Wav!FirstByte, Wav!TheFrame, Wav!FramesInAll, WavRagged)'
  BY <1>18, <1>19, <1>20 DEF Caller
<1> QED
  BY <1>1, <1>18, <1>19, <1>21, <1>22 DEF WavReading

-----------------------------------------------------------------------------
(***************************************************************************)
(* The chunks of a CAF file.                                               *)
(***************************************************************************)

\* The next chunk of a CAF file is right behind the one before it.
LEMMA CafUnpadded ==
  ASSUME IsCafFile(file), NEW i \in 1 .. Len(file.chunks)
  PROVE  /\ file.chunks[i].length \in Nat
         /\ Caf!Start(i + 1) = Caf!Start(i) + 12 + file.chunks[i].length
<1>1. file.chunks[i].length \in Nat
  BY Bounds DEF IsCafFile, IsCafChunk, Number
<1>2. Caf!RoundUp(file.chunks[i].length) = file.chunks[i].length
  BY <1>1 DEF Caf!RoundUp
<1> QED
  BY <1>1, <1>2, CafLayout

\* What pcm_scan*() finds at the header of a chunk.
LEMMA CafHeader ==
  ASSUME IsCafFile(file), NEW j \in 1 .. Len(file.chunks), off = Caf!Start(j)
  PROVE  Caf!ChunkHere = IF Caf!Body(j) <= size THEN file.chunks[j] ELSE Caf!NoChunk
<1> DEFINE n == Len(file.chunks)
           here == {i \in 1 .. n : Caf!Start(i) = off /\ Caf!Body(i) <= size}
<1>1. ASSUME NEW i \in 1 .. n, Caf!Start(i) = off PROVE i = j
  <2>1. /\ i \in 1 .. n + 1 /\ j \in 1 .. n + 1 /\ n \in Nat
        /\ Caf!Start(i) \in Int /\ Caf!Start(j) \in Int /\ Caf!Start(i) = Caf!Start(j)
    BY <1>1, CafLayout
  <2>2. ~ (i < j) /\ ~ (j < i)
    BY <2>1, CafLayout
  <2> HIDE DEF n
  <2> QED
    BY <2>1, <2>2
<1>2. here = IF Caf!Body(j) <= size THEN {j} ELSE {}
  <2>1. CASE Caf!Body(j) <= size
    <3>1. j \in here
      BY <2>1
    <3> HIDE DEF n
    <3>2. ASSUME NEW i \in here PROVE i = j
      BY <1>1
    <3> HIDE DEF here
    <3> QED
      BY <2>1, <3>1, <3>2
  <2>2. CASE ~ (Caf!Body(j) <= size)
    <3>1. here = {}
      BY <1>1, <2>2
    <3> QED
      BY <2>2, <3>1
  <2> QED
    BY <2>1, <2>2
<1>3. Caf!ChunkHere = IF here = {} THEN Caf!NoChunk ELSE file.chunks[CHOOSE i \in here : TRUE]
  BY DEF Caf!ChunkHere
<1> HIDE DEF here
<1>4. (CHOOSE i \in {j} : TRUE) = j
  OBVIOUS
<1> QED
  BY <1>2, <1>3, <1>4

\* The members of tags: strings, and the null key among them.
Strings == STRING
Names == Strings \cup {Caf!Flush}

\* The chunks that a CAF file has once, and what is in them.
LEMMA CafChunks ==
  ASSUME IsCafFile(file)
  PROVE  /\ \A i \in 1 .. Len(file.chunks) :
              /\ file.chunks[i].id # "none"
              /\ file.chunks[i].length \in Nat
              /\ file.chunks[i].id = "data" => i = Caf!TheData
              /\ file.chunks[i].id # "data" => file.chunks[i].declared = file.chunks[i].length
              /\ file.chunks[i].id = "desc" =>
                   /\ file.chunks[i].length >= 32
                   /\ file.chunks[i].value = Caf!TheFrame
                   /\ Caf!TheFrame \in Nat \ {0}
              /\ file.chunks[i].id = "chan" => file.chunks[i].length >= 12
              /\ file.chunks[i].id = "info" => file.chunks[i].value \in Seq(Names)
         /\ \A i, k \in 1 .. Len(file.chunks) :
              file.chunks[i].id = "desc" /\ file.chunks[k].id = "desc" => i = k
         /\ Caf!TheData \in 1 .. Len(file.chunks)
         /\ file.chunks[Caf!TheData].id = "data"
         /\ file.chunks[Caf!TheData].length >= 4
         /\ file.chunks[Caf!TheData].length < Wav!Unlimited
         /\ file.chunks[Caf!TheData].declared \in {-1, file.chunks[Caf!TheData].length}
<1> DEFINE c == file.chunks
           n == Len(c)
<1>1. /\ file.kind = "caff" /\ n \in Nat
      /\ One(c, "data") /\ AtMostOne(c, "desc")
  BY DEF IsCafFile
<1>2. \A i \in 1 .. n : IsCafChunk(c[i])
  BY DEF IsCafFile
<1>3. Caf!TheData \in 1 .. n /\ c[Caf!TheData].id = "data"
  <2>1. PICK i \in 1 .. n : c[i].id = "data"
    BY <1>1 DEF One
  <2>2. i \in Caf!Positions("data")
    BY <2>1 DEF Caf!Positions
  <2>3. Caf!TheData \in Caf!Positions("data")
    BY <2>2 DEF Caf!TheData
  <2> QED
    BY <2>3 DEF Caf!Positions
<1>4. \A i \in 1 .. n : c[i].id = "data" => i = Caf!TheData
  BY <1>1, <1>3 DEF One, AtMostOne
<1>5. ASSUME NEW i \in 1 .. n, c[i].id = "desc"
      PROVE  c[i].value = Caf!TheFrame
  <2> DEFINE at == CHOOSE k \in Caf!Positions("desc") : TRUE
  <2>1. i \in Caf!Positions("desc")
    BY <1>5 DEF Caf!Positions
  <2>2. at \in Caf!Positions("desc")
    BY <2>1
  <2> HIDE DEF at
  <2>3. at = i
    BY <1>1, <1>5, <2>2 DEF Caf!Positions, AtMostOne
  <2>4. Caf!TheFrame = c[at].value
    BY DEF Caf!TheFrame, at
  <2> QED
    BY <2>3, <2>4
<1>6. \A i \in 1 .. n :
        /\ c[i].id # "none" /\ c[i].length \in Number
        /\ c[i].id # "data" => c[i].declared = c[i].length
        /\ c[i].id = "desc" => c[i].length >= 32 /\ c[i].value \in Nat \ {0}
        /\ c[i].id = "chan" => c[i].length >= 12
  BY <1>2 DEF IsCafChunk
<1>10. ASSUME NEW i \in 1 .. n, c[i].id = "info" PROVE c[i].value \in Seq(Names)
  <2>1. c[i].value \in Seq(STRING)
    BY <1>2, <1>10, Zenon DEF IsCafChunk
  <2>2. c[i].value \in Seq(Strings)
    BY <2>1, Zenon DEF Strings
  <2> QED
    BY <2>2 DEF Names
<1>7. \A i \in 1 .. n : c[i].length \in Nat /\ c[i].length < Wav!Unlimited
  BY <1>6, Bounds DEF Number
<1>8. \A i, k \in 1 .. n : c[i].id = "desc" /\ c[k].id = "desc" => i = k
  BY <1>1 DEF AtMostOne
<1>9. c[Caf!TheData].length >= 4 /\ c[Caf!TheData].declared \in {-1, c[Caf!TheData].length}
  BY <1>2, <1>3 DEF IsCafChunk
<1> QED
  BY <1>3, <1>4, <1>5, <1>6, <1>7, <1>8, <1>9, <1>10

\* What is known of the file as it was written stays as long as the file does.
LEMMA CafStays ==
  ASSUME UNCHANGED <<file, size, seekable, faulty>>
  PROVE  /\ \A i : Caf!Start(i)' = Caf!Start(i) /\ Caf!Body(i)' = Caf!Body(i)
         /\ \A i : Caf!TooShort(i)' <=> Caf!TooShort(i)
         /\ \A i : Caf!StringsFrom(i)' = Caf!StringsFrom(i)
         /\ Caf!TheData' = Caf!TheData /\ Caf!TheFrame' = Caf!TheFrame
         /\ Caf!FirstByte' = Caf!FirstByte /\ Caf!WellFormed' = Caf!WellFormed
         /\ Caf!FramesThere' = Caf!FramesThere /\ Caf!FramesStated' = Caf!FramesStated
         /\ Caf!FramesInAll' = Caf!FramesInAll
<1>1. Caf!Ends' = Caf!Ends
  BY DEF Caf!Ends, Caf!RoundUp
<1>2. \A i : Caf!Start(i)' = Caf!Start(i) /\ Caf!Body(i)' = Caf!Body(i)
  BY <1>1 DEF Caf!Start, Caf!Body
<1>3. /\ Caf!Positions("data")' = Caf!Positions("data")
      /\ Caf!Positions("desc")' = Caf!Positions("desc")
      /\ Caf!Positions("chan")' = Caf!Positions("chan")
  BY DEF Caf!Positions
<1>4. Caf!TheData' = Caf!TheData
  BY <1>3 DEF Caf!TheData
<1>5. Caf!TheFrame' = Caf!TheFrame
  <2> DEFINE desc == CHOOSE i \in Caf!Positions("desc") : TRUE
  <2>1. desc' = desc
    BY <1>3
  <2>2. Caf!TheFrame = file.chunks[desc].value /\ Caf!TheFrame' = file'.chunks[desc'].value
    BY DEF Caf!TheFrame
  <2> HIDE DEF desc
  <2> QED
    BY <2>1, <2>2
<1>6. Caf!FirstByte' = Caf!FirstByte
  BY <1>2, <1>4 DEF Caf!FirstByte
<1>7. Caf!StatedBytes' = Caf!StatedBytes /\ Caf!Stated' = Caf!Stated
  BY <1>4 DEF Caf!StatedBytes, Caf!Stated
<1>13. \A i : Caf!TooShort(i)' <=> Caf!TooShort(i)
  BY DEF Caf!TooShort
<1>8. Caf!WellFormed' = Caf!WellFormed
  BY <1>2, <1>3, <1>4 DEF Caf!WellFormed, Caf!TooShort
<1>9. Caf!FramesThere' = Caf!FramesThere
  BY <1>5, <1>6 DEF Caf!FramesThere
<1>10. Caf!FramesStated' = Caf!FramesStated
  BY <1>5, <1>7 DEF Caf!FramesStated
<1>11. Caf!FramesInAll' = Caf!FramesInAll
  BY <1>8, <1>9, <1>10 DEF Caf!FramesInAll
<1>12. \A i : Caf!StringsFrom(i)' = Caf!StringsFrom(i)
  BY <1>2, <1>13 DEF Caf!StringsFrom
<1> QED
  BY <1>2, <1>4, <1>5, <1>6, <1>8, <1>9, <1>10, <1>11, <1>12, <1>13

-----------------------------------------------------------------------------
(***************************************************************************)
(* The strings of a CAF file.                                              *)
(***************************************************************************)

\* One more chunk, if it is to be taken.
Taken(I, c, i, v) == IF i \in I THEN v \o c[i].value \o <<Caf!Flush>> ELSE v

\* g[i] are the strings of those of the chunks up to i that are in I.
Collects(g, I, c) ==
  g[0] = <<>> /\ \A i \in 1 .. Len(c) : g[i] = Taken(I, c, i, g[i - 1])

\* There is such a collection, made of what the chunks are made of.
LEMMA CollectionExists ==
  ASSUME NEW I, NEW c, Len(c) \in Nat, \A i \in I : c[i].value \in Seq(Names)
  PROVE  \E g \in [0 .. Len(c) -> Seq(Names)] : Collects(g, I, c)
<1> DEFINE V == Seq(Names)
           n == Len(c)
           Steps == [i \in Nat |-> [v \in V |-> Taken(I, c, i, v)]]
<1>1. \A i \in Nat, v \in V : Taken(I, c, i, v) \in V
  <2> SUFFICES ASSUME NEW i \in Nat, NEW v \in V PROVE Taken(I, c, i, v) \in V
    OBVIOUS
  <2>1. CASE i \in I
    <3>3. Caf!Flush \in Names
      BY DEF Names
    <3>4. <<Caf!Flush>> \in Seq(Names)
      BY <3>3
    <3>1. <<Caf!Flush>> \in Seq(Names) /\ c[i].value \in Seq(Names)
      BY <2>1, <3>4
    <3>2. v \o c[i].value \in Seq(Names)
      BY <3>1
    <3>5. (v \o c[i].value) \o <<Caf!Flush>> \in Seq(Names)
      BY <3>1, <3>2
    <3> QED
      BY <2>1, <3>5 DEF Taken
  <2>2. CASE i \notin I
    BY <2>2 DEF Taken
  <2> QED
    BY <2>1, <2>2
<1>2. <<>> \in V /\ n \in Nat
  OBVIOUS
<1> HIDE DEF V, n
<1>3. Steps \in [Nat -> [V -> V]] /\ \A i \in Nat, v \in V : Steps[i][v] = Taken(I, c, i, v)
  BY <1>1
<1> HIDE DEF Steps
<1>4. \E g : Unfolds(g, V, n, <<>>, Steps)
  BY <1>2, <1>3, Recursion
<1>5. PICK g \in [0 .. n -> V] :
        g[0] = <<>> /\ \A i \in 1 .. n : g[i] = Steps[i][g[i - 1]]
  BY <1>4 DEF Unfolds
<1>6. \A i \in 1 .. n : g[i] = Taken(I, c, i, g[i - 1])
  <2> SUFFICES ASSUME NEW i \in 1 .. n PROVE g[i] = Taken(I, c, i, g[i - 1])
    OBVIOUS
  <2>1. i \in Nat /\ i - 1 \in 0 .. n
    BY <1>2
  <2>2. g[i - 1] \in V /\ g[i] = Steps[i][g[i - 1]]
    BY <1>5, <2>1
  <2> QED
    BY <1>3, <2>1, <2>2
<1> QED
  BY <1>5, <1>6 DEF Collects, n, V

SameUpTo(I, J, n) == \A i \in 1 .. n : i \in I <=> i \in J

\* Two collections that take the same chunks are the same.
LEMMA CollectedAlike ==
  ASSUME NEW I, NEW J, NEW c, Len(c) \in Nat, NEW f, NEW g, Collects(f, I, c), Collects(g, J, c),
         SameUpTo(I, J, Len(c))
  PROVE  \A i \in 0 .. Len(c) : f[i] = g[i]
<1> DEFINE T == {i \in Nat : i <= Len(c) => f[i] = g[i]}
<1>1. 0 \in T
  BY DEF Collects
<1>2. ASSUME NEW i \in 0 .. (Len(c) - 1), i \in T PROVE i + 1 \in T
  <2>1. i + 1 \in 1 .. Len(c) /\ (i + 1) - 1 = i /\ i + 1 \in Nat
    OBVIOUS
  <2>2. f[i] = g[i]
    BY <1>2
  <2>3. f[i + 1] = Taken(I, c, i + 1, f[i]) /\ g[i + 1] = Taken(J, c, i + 1, g[i])
    BY <2>1 DEF Collects
  <2>4. f[i + 1] = g[i + 1]
    BY <2>1, <2>2, <2>3 DEF Taken, SameUpTo
  <2> QED
    BY <2>1, <2>4
<1> HIDE DEF T
<1>3. \A i \in 0 .. Len(c) : i \in T
  BY <1>1, <1>2, UpTo
<1> QED
  BY <1>3 DEF T

\* As long as nothing is taken there is nothing.
LEMMA NothingCollected ==
  ASSUME NEW I, NEW c, Len(c) \in Nat, NEW g, Collects(g, I, c), NEW m \in 0 .. Len(c),
         \A i \in 1 .. m : i \notin I
  PROVE  \A i \in 0 .. m : g[i] = <<>>
<1> DEFINE T == {i \in Nat : i <= m => g[i] = <<>>}
<1>1. 0 \in T
  BY DEF Collects
<1>2. ASSUME NEW i \in 0 .. (m - 1), i \in T PROVE i + 1 \in T
  <2>1. i + 1 \in 1 .. Len(c) /\ i + 1 \in 1 .. m /\ (i + 1) - 1 = i /\ i + 1 \in Nat
    OBVIOUS
  <2>2. g[i + 1] = g[i]
    BY <2>1 DEF Collects, Taken
  <2> QED
    BY <1>2, <2>1, <2>2
<1> HIDE DEF T
<1>3. m \in Nat
  OBVIOUS
<1>4. \A i \in 0 .. m : i \in T
  BY <1>1, <1>2, <1>3, UpTo
<1> QED
  BY <1>4 DEF T

\* The info chunks from one on that are wholly in the file and not behind one
\* that is too short.
InfosFrom(first) ==
  {i \in 1 .. Len(file.chunks) :
     /\ i >= first /\ file.chunks[i].id = "info" /\ Caf!Start(i + 1) <= size
     /\ \A k \in first .. i : ~Caf!TooShort(k)}

\* The recursion of StringsFrom, unfolded.
LEMMA CafStrings ==
  ASSUME IsCafFile(file), NEW first \in 1 .. Len(file.chunks) + 1
  PROVE  /\ Collects(Caf!StringsFrom(first), InfosFrom(first), file.chunks)
         /\ \A i \in 0 .. Len(file.chunks) : Caf!StringsFrom(first)[i] \in Seq(Names)
<1> DEFINE c == file.chunks
           n == Len(file.chunks)
           I == InfosFrom(first)
           Next1(i, v) == IF /\ file.chunks[i].id = "info" /\ Caf!Start(i + 1) <= size
                             /\ \A k \in first .. i : ~Caf!TooShort(k)
                            THEN v \o file.chunks[i].value \o <<Caf!Flush>> ELSE v
           strings == Caf!StringsFrom(first)
<1>1. n \in Nat /\ first \in Nat /\ first >= 1 /\ \A i \in I : c[i].value \in Seq(Names)
  <2>1. n \in Nat
    BY CafLayout
  <2>2. \A i \in I : i \in 1 .. n /\ c[i].id = "info"
    BY DEF InfosFrom
  <2> QED
    BY <2>1, <2>2, CafChunks
<1>2. \A v : \A i \in 1 .. n : i >= first => Taken(I, c, i, v) = Next1(i, v)
  BY DEF Taken, InfosFrom
<1>3. \A i \in 1 .. n : i < first => i \notin I
  BY <1>1 DEF InfosFrom
<1> HIDE DEF I
<1>4. PICK g \in [0 .. n -> Seq(Names)] : Collects(g, I, c)
  BY <1>1, CollectionExists
<1>5. \A i \in 0 .. n : i < first => g[i] = <<>>
  <2>1. first - 1 \in 0 .. n /\ \A i \in 1 .. (first - 1) : i \notin I
    BY <1>1, <1>3
  <2>2. \A i \in 0 .. (first - 1) : g[i] = <<>>
    BY <1>1, <1>4, <2>1, NothingCollected
  <2> QED
    BY <1>1, <2>2
<1>6. \A i \in 0 .. n : i >= first => g[i] = Next1(i, g[i - 1])
  <2> SUFFICES ASSUME NEW i \in 0 .. n, i >= first PROVE g[i] = Next1(i, g[i - 1])
    OBVIOUS
  <2>1. i \in 1 .. n
    BY <1>1
  <2>2. g[i] = Taken(I, c, i, g[i - 1])
    BY <1>4, <2>1 DEF Collects
  <2> HIDE DEF Next1, c
  <2> QED
    BY <1>2, <2>1, <2>2
<1>7. g = [i \in 0 .. n |-> IF i < first THEN <<>> ELSE Next1(i, g[i - 1])]
  <2> HIDE DEF Next1
  <2> QED
    BY <1>1, <1>5, <1>6
<1>8. strings = [i \in 0 .. n |-> IF i < first THEN <<>> ELSE Next1(i, strings[i - 1])]
  BY <1>7 DEF Caf!StringsFrom
<1>9. /\ \A i \in 0 .. n : i < first => strings[i] = <<>>
      /\ \A i \in 0 .. n : i >= first => strings[i] = Next1(i, strings[i - 1])
  <2> HIDE DEF strings, Next1, n
  <2> QED
    BY <1>1, <1>8
<1> HIDE DEF strings
<1>10. Collects(strings, I, c)
  <2>1. strings[0] = <<>>
    BY <1>1, <1>9
  <2>2. ASSUME NEW i \in 1 .. n PROVE strings[i] = Taken(I, c, i, strings[i - 1])
    <3>1. CASE i < first
      <4>1. strings[i] = <<>> /\ strings[i - 1] = <<>> /\ i \notin I
        BY <1>1, <1>3, <1>9, <3>1
      <4> QED
        BY <4>1 DEF Taken
    <3>2. CASE i >= first
      <4>1. strings[i] = Next1(i, strings[i - 1])
        BY <1>1, <1>9, <3>2
      <4> HIDE DEF Next1, c
      <4> QED
        BY <1>2, <3>2, <4>1
    <3> QED
      BY <1>1, <3>1, <3>2
  <2> QED
    BY <2>1, <2>2 DEF Collects
<1>11. \A i \in 0 .. n : strings[i] = g[i]
  <2> HIDE DEF c
  <2>1. Len(c) = n /\ SameUpTo(I, I, Len(c))
    BY DEF c, SameUpTo
  <2>2. \A i \in 0 .. Len(c) : strings[i] = g[i]
    BY <1>1, <1>4, <1>10, <2>1, CollectedAlike
  <2> QED
    BY <2>1, <2>2
<1> QED
  BY <1>10, <1>11 DEF I, strings

\* The info chunks that the walk from here to the end of the file comes to.
Passable(i) ==
  /\ Caf!Body(i) <= size
  /\ IF file.chunks[i].id = "info"
       THEN /\ file.chunks[i].declared >= Caf!FixedInfo
            /\ Caf!Body(i) + file.chunks[i].declared <= size
       ELSE Caf!CanSkip(Caf!Body(i), file.chunks[i].declared)

Reached ==
  {i \in 1 .. Len(file.chunks) :
     /\ file.chunks[i].id = "info" /\ Caf!Start(i) >= off
     /\ \A k \in 1 .. Len(file.chunks) : Caf!Start(k) >= off /\ k <= i => Passable(k)}

\* The recursion in TrailingTags, unfolded.
LEMMA TrailingDef ==
  ASSUME IsCafFile(file)
  PROVE  \E g : /\ Collects(g, Reached, file.chunks)
                /\ Caf!TrailingTags = g[Len(file.chunks)]
<1> DEFINE chunks == file.chunks
           n == Len(chunks)
           Passed(i) ==
             /\ Caf!Body(i) <= size
             /\ IF chunks[i].id = "info"
                  THEN /\ chunks[i].declared >= Caf!FixedInfo
                       /\ Caf!Body(i) + chunks[i].declared <= size
                  ELSE Caf!CanSkip(Caf!Body(i), chunks[i].declared)
           here == {i \in 1 .. Len(chunks) : Caf!Start(i) >= off}
           reached == {i \in here : \A k \in here : k <= i => Passed(k)}
           Next1(i, v) == IF i \in reached /\ chunks[i].id = "info"
                            THEN v \o chunks[i].value \o <<Caf!Flush>> ELSE v
           all == CHOOSE f : f = [i \in 0 .. Len(chunks) |-> IF i = 0 THEN <<>> ELSE Next1(i, f[i - 1])]
<1>1. Caf!TrailingTags = all[n]
  BY DEF Caf!TrailingTags
<1>2. n \in Nat /\ \A i \in Reached : chunks[i].value \in Seq(Names)
  BY CafLayout, CafChunks DEF Reached
<1>3. \A v : \A i \in 1 .. n : Taken(Reached, chunks, i, v) = Next1(i, v)
  <2>1. \A i \in 1 .. n : i \in Reached <=> i \in reached /\ chunks[i].id = "info"
    BY DEF Reached, Passable
  <2> HIDE DEF reached, chunks, n
  <2> QED
    BY <2>1 DEF Taken
<1>4. PICK g \in [0 .. n -> Seq(Names)] : Collects(g, Reached, chunks)
  <2> HIDE DEF chunks
  <2> QED
    BY <1>2, CollectionExists DEF n
<1>5. g = [i \in 0 .. Len(chunks) |-> IF i = 0 THEN <<>> ELSE Next1(i, g[i - 1])]
  <2>1. g[0] = <<>> /\ \A i \in 1 .. n : g[i] = Taken(Reached, chunks, i, g[i - 1])
    BY <1>4 DEF Collects
  <2> HIDE DEF Next1, chunks
  <2>2. \A i \in 1 .. n : g[i] = Next1(i, g[i - 1])
    BY <1>3, <2>1
  <2> QED
    BY <1>2, <1>4, <2>1, <2>2 DEF n
<1>6. all = [i \in 0 .. Len(chunks) |-> IF i = 0 THEN <<>> ELSE Next1(i, all[i - 1])]
  <2> HIDE DEF Next1, chunks
  <2> QED
    BY <1>5 DEF all
<1>7. Collects(all, Reached, chunks)
  <2> HIDE DEF Next1, chunks, all
  <2>1. all[0] = <<>> /\ \A i \in 1 .. n : all[i] = Next1(i, all[i - 1])
    BY <1>2, <1>6 DEF n
  <2>2. \A i \in 1 .. n : all[i] = Taken(Reached, chunks, i, all[i - 1])
    BY <1>3, <2>1
  <2> QED
    BY <2>1, <2>2 DEF Collects, n
<1> HIDE DEF all, Next1
<1> QED
  BY <1>1, <1>7

\* Nothing is found in what is too short for a header.
LEMMA TrailingNone ==
  ASSUME IsCafFile(file), \A i \in 1 .. Len(file.chunks) : Caf!Start(i) >= off => ~ (Caf!Body(i) <= size)
  PROVE  Caf!TrailingTags = <<>>
<1> DEFINE n == Len(file.chunks)
           c == file.chunks
<1>1. PICK g : Collects(g, Reached, c) /\ Caf!TrailingTags = g[n]
  BY TrailingDef
<1>2. n \in Nat
  BY CafLayout
<1>3. \A i \in 1 .. n : i \notin Reached
  <2> SUFFICES ASSUME NEW i \in 1 .. n, i \in Reached PROVE FALSE
    OBVIOUS
  <2>1. Caf!Start(i) >= off /\ (i <= i => Passable(i))
    BY DEF Reached
  <2>2. i <= i
    BY <1>2
  <2> QED
    BY <2>1, <2>2 DEF Passable
<1> HIDE DEF c
<1>4. n = Len(c)
  BY DEF c
<1> HIDE DEF n
<1>5. \A i \in 0 .. n : g[i] = <<>>
  <2>1. n \in 0 .. Len(c) /\ Len(c) \in Nat /\ \A i \in 1 .. n : i \notin Reached
    BY <1>2, <1>3, <1>4
  <2> QED
    BY <1>1, <2>1, NothingCollected
<1> QED
  BY <1>1, <1>2, <1>5

\* From the header of a chunk on, all strings that are wholly there are found, up
\* to a chunk that is too short.
LEMMA TrailingFrom ==
  ASSUME IsCafFile(file), GivenInv, NEW m \in 1 .. Len(file.chunks) + 1, off = Caf!Start(m),
         m > Caf!TheData
  PROVE  Caf!TrailingTags = Caf!StringsOf(m, Len(file.chunks))
<1> DEFINE n == Len(file.chunks)
           c == file.chunks
<1>1. PICK g : Collects(g, Reached, c) /\ Caf!TrailingTags = g[n]
  BY TrailingDef
<1>2. /\ Collects(Caf!StringsFrom(m), InfosFrom(m), c)
      /\ Caf!StringsOf(m, n) = Caf!StringsFrom(m)[n]
  BY CafStrings DEF Caf!StringsOf
<1>3. n \in Nat /\ m \in Nat /\ m >= 1 /\ Caf!Start(m) \in Int
  BY CafLayout
<1>4. ASSUME NEW i \in 1 .. n
      PROVE  /\ Caf!Start(i) \in Int /\ (Caf!Start(i) >= off <=> i >= m)
             /\ Caf!Body(i) = Caf!Start(i) + 12
             /\ i >= m => Caf!Start(i + 1) = Caf!Body(i) + c[i].declared /\ c[i].declared \in Nat
  <2>1. i \in 1 .. n + 1 /\ i \in Int
    BY <1>3
  <2>2. Caf!Start(i) \in Int /\ Caf!Body(i) = Caf!Start(i) + 12
        /\ (i < m => Caf!Start(i) + 12 <= Caf!Start(m))
        /\ (m < i => Caf!Start(m) + 12 <= Caf!Start(i))
    BY <2>1, CafLayout
  <2>3. Caf!Start(i) >= off <=> i >= m
    <3>1. CASE i < m
      BY <1>3, <2>1, <2>2, <3>1
    <3>2. CASE i = m
      BY <1>3, <2>1, <2>2, <3>2
    <3>3. CASE i > m
      BY <1>3, <2>1, <2>2, <3>3
    <3> QED
      BY <1>3, <2>1, <3>1, <3>2, <3>3
  <2>4. i >= m => i # Caf!TheData
    BY <1>3, <2>1, CafChunks
  <2>5. i >= m => c[i].declared = c[i].length
    BY <2>4, CafChunks
  <2>6. c[i].length \in Nat /\ Caf!Start(i + 1) = Caf!Start(i) + 12 + c[i].length
    BY CafUnpadded
  <2> HIDE DEF c, n
  <2> QED
    BY <2>2, <2>3, <2>5, <2>6
<1>5. ASSUME NEW i \in 1 .. n PROVE i \in Reached <=> i \in InfosFrom(m)
  <2>1. CASE i < m \/ c[i].id # "info"
    BY <1>3, <1>4, <2>1 DEF Reached, InfosFrom
  <2>2. CASE i >= m /\ c[i].id = "info"
    <3>1. i \in InfosFrom(m) <=>
            Caf!Start(i + 1) <= size /\ \A k \in m .. i : ~Caf!TooShort(k)
      BY <2>2 DEF InfosFrom
    <3>2. i \in Reached <=> \A k \in 1 .. n : k >= m /\ k <= i => Passable(k)
      BY <1>4, <2>2 DEF Reached
    <3>3. ASSUME i \in Reached
          PROVE  Caf!Start(i + 1) <= size /\ \A k \in m .. i : ~Caf!TooShort(k)
      <4>1. Passable(i)
        BY <1>3, <2>2, <3>2, <3>3
      <4>2. ASSUME NEW k \in m .. i PROVE ~Caf!TooShort(k)
        <5>1. k \in 1 .. n /\ k >= m /\ k <= i
          BY <1>3
        <5>2. Passable(k) /\ c[k].declared \in Nat
          BY <1>4, <3>2, <3>3, <5>1
        <5> QED
          BY <5>2 DEF Passable, Caf!TooShort, Caf!FixedInfo
      <4> QED
        BY <1>4, <2>2, <4>1, <4>2 DEF Passable
    <3>4. ASSUME Caf!Start(i + 1) <= size, \A k \in m .. i : ~Caf!TooShort(k),
                 NEW k \in 1 .. n, k >= m, k <= i
          PROVE  Passable(k)
      <4>1. k + 1 \in 1 .. n + 1 /\ i + 1 \in 1 .. n + 1 /\ k \in Int /\ i \in Int
            /\ (k = i \/ k + 1 < i + 1)
        BY <1>3, <3>4
      <4>2. /\ Caf!Start(k + 1) \in Int /\ Caf!Start(i + 1) \in Int
            /\ k + 1 < i + 1 => Caf!Start(k + 1) + 12 <= Caf!Start(i + 1)
        BY <4>1, CafLayout
      <4>3. Caf!Start(k + 1) <= size /\ size \in Nat
        <5>1. CASE k = i
          BY <3>4, <5>1 DEF GivenInv
        <5>2. CASE k + 1 < i + 1
          BY <3>4, <4>2, <5>2 DEF GivenInv
        <5> QED
          BY <4>1, <5>1, <5>2
      <4>4. /\ Caf!Start(k + 1) = Caf!Body(k) + c[k].declared /\ c[k].declared \in Nat
            /\ Caf!Body(k) \in Int
        BY <1>4, <3>4
      <4>5. Caf!Body(k) + c[k].declared <= size /\ Caf!Body(k) <= size
        BY <4>3, <4>4
      <4>6. ~Caf!TooShort(k)
        BY <1>3, <3>4
      <4> QED
        BY <4>4, <4>5, <4>6 DEF Passable, Caf!CanSkip, Caf!TooShort, Caf!FixedInfo
    <3> QED
      BY <3>1, <3>2, <3>3, <3>4
  <2> QED
    BY <1>3, <2>1, <2>2
<1> HIDE DEF c
<1>6. n = Len(c)
  BY DEF c
<1> HIDE DEF n
<1>7. \A i \in 0 .. n : g[i] = Caf!StringsFrom(m)[i]
  <2>1. Len(c) \in Nat /\ SameUpTo(Reached, InfosFrom(m), Len(c))
    BY <1>3, <1>5, <1>6 DEF SameUpTo
  <2>2. \A i \in 0 .. Len(c) : g[i] = Caf!StringsFrom(m)[i]
    BY <1>1, <1>2, <2>1, CollectedAlike
  <2> QED
    BY <1>6, <2>2
<1>8. g[n] = Caf!StringsFrom(m)[n]
  BY <1>3, <1>7
<1> QED
  BY <1>1, <1>2, <1>8 DEF n

-----------------------------------------------------------------------------
(***************************************************************************)
(* The walk over the chunks of a CAF file.                                 *)
(***************************************************************************)

\* There is a format in front of chunk j.
DescBefore(j) == \E i \in 1 .. (j - 1) : file.chunks[i].id = "desc"

\* The walk is at chunk j, and what is in front of it has been taken in.
CafAt(j) ==
  /\ off = Caf!Start(j)
  /\ bpf # 0 <=> DescBefore(j)
  /\ bpf # 0 => bpf = Caf!TheFrame
  /\ \A k \in 1 .. (j - 1) : file.chunks[k].id = "chan" => DescBefore(k)
  /\ \A k \in 1 .. (j - 1) : ~Caf!TooShort(k)
  /\ tags = Caf!StringsFrom(1)[j - 1]

CafWalk ==
  /\ phase = "open" => off = 0 /\ bpf = 0 /\ tags = <<>>
  /\ phase = "walk" => \E j \in 1 .. Caf!TheData : CafAt(j)
  /\ phase \in {"open", "walk"} => Unread
  /\ phase = "failed" => ~Caf!WellFormed

\* What has been taken for good by the walk does not move.
CafWalked == <<file, size, seekable, faulty, position, count, delivered, nread>>

\* A file that is cut off before the body of a chunk that is not behind its
\* data is not well-formed.
LEMMA CafCutOff ==
  ASSUME IsCafFile(file), GivenInv, NEW j \in 1 .. Caf!TheData, size < Caf!Body(j)
  PROVE  ~Caf!WellFormed
<1> DEFINE D == Caf!TheData
<1>1. /\ D \in 1 .. Len(file.chunks) /\ Len(file.chunks) \in Nat /\ j \in 1 .. Len(file.chunks)
      /\ j \in 1 .. Len(file.chunks) + 1 /\ D \in 1 .. Len(file.chunks) + 1
      /\ j \in Int /\ D \in Int /\ j <= D
  <2>1. D \in 1 .. Len(file.chunks) /\ Len(file.chunks) \in Nat
    BY CafChunks, CafLayout
  <2> QED
    BY <2>1
<1>2. /\ Caf!Body(j) = Caf!Start(j) + 12 /\ Caf!Body(D) = Caf!Start(D) + 12
      /\ Caf!Start(j) \in Int /\ Caf!Start(D) \in Int
      /\ j < D => Caf!Start(j) + 12 <= Caf!Start(D)
  BY <1>1, CafLayout
<1>3. Caf!Body(j) <= Caf!Body(D)
  <2> HIDE DEF D
  <2>1. CASE j = D
    BY <1>2, <2>1
  <2>2. CASE j < D
    BY <1>2, <2>2
  <2> QED
    BY <1>1, <2>1, <2>2
<1>4. size < Caf!Body(D) /\ size \in Nat
  <2> HIDE DEF D
  <2> QED
    BY <1>2, <1>3 DEF GivenInv
<1>5. ~ (Caf!Body(D) + (IF seekable THEN 0 ELSE 4) <= size)
  <2> HIDE DEF D
  <2> QED
    BY <1>2, <1>4
<1> QED
  BY <1>5 DEF Caf!WellFormed, Caf!EditCount

\* The start of the file.
LEMMA CafPrologue ==
  ASSUME IsCafFile(file), GivenInv, CafWalk, Caf!Prologue
  PROVE  CafWalk' /\ phase' \in {"walk", "failed"}
<1>1. /\ phase = "open" /\ off = 0 /\ bpf = 0 /\ tags = <<>> /\ Unread
      /\ UNCHANGED CafWalked
  BY DEF Caf!Prologue, Caf!Fail, Caf!callerVars, CafWalk, CafWalked
<1>2. /\ UNCHANGED <<file, size, seekable, faulty>>
      /\ Caf!WellFormed' = Caf!WellFormed /\ Caf!TheData' = Caf!TheData
      /\ Caf!Start(1)' = Caf!Start(1) /\ Caf!StringsFrom(1)' = Caf!StringsFrom(1)
  BY <1>1, CafStays DEF CafWalked
<1>3. /\ Caf!TheData \in 1 .. Len(file.chunks) /\ Len(file.chunks) \in Nat
      /\ 1 \in 1 .. Len(file.chunks) /\ 1 \in 1 .. Caf!TheData
      /\ Caf!Start(1) = 8 /\ Caf!Body(1) = 20 /\ size \in Nat
  <2>1. /\ Caf!TheData \in 1 .. Len(file.chunks) /\ Len(file.chunks) \in Nat
        /\ Caf!Start(1) = 8
    BY CafChunks, CafLayout
  <2>2. 1 \in 1 .. Len(file.chunks) /\ 1 \in 1 .. Caf!TheData
    BY <2>1
  <2>3. Caf!Body(1) = 20
    BY <2>1, <2>2, CafLayout
  <2> QED
    BY <2>1, <2>2, <2>3 DEF GivenInv
<1>4. Unread'
  BY <1>1 DEF Unread, CafWalked
<1>5. CASE Caf!Read(8) = 8
  <2>1. off' = 8 /\ phase' = "walk" /\ UNCHANGED <<bpf, tags>>
    BY <1>5 DEF Caf!Prologue
  <2>2. ~DescBefore(1)'
    BY DEF DescBefore
  <2>3. tags' = Caf!StringsFrom(1)[1 - 1]'
    <3>1. Collects(Caf!StringsFrom(1), InfosFrom(1), file.chunks)
      <4>1. 1 \in 1 .. Len(file.chunks) + 1
        BY <1>3
      <4> QED
        BY <4>1, CafStrings
    <3>2. Caf!StringsFrom(1)[0] = <<>> /\ 1 - 1 = 0
      BY <3>1 DEF Collects
    <3> QED
      BY <1>1, <1>2, <2>1, <3>2
  <2>4. CafAt(1)'
    BY <1>1, <1>2, <1>3, <2>1, <2>2, <2>3 DEF CafAt
  <2> QED
    BY <1>2, <1>3, <1>4, <2>1, <2>4 DEF CafWalk
<1>6. CASE Caf!Read(8) # 8
  <2>1. phase' = "failed"
    BY <1>6 DEF Caf!Prologue, Caf!Fail
  <2>2. size < 8
    BY <1>1, <1>3, <1>6 DEF Caf!Read
  <2>3. size < Caf!Body(1)
    BY <1>3, <2>2
  <2>4. ~Caf!WellFormed
    BY <1>3, <2>3, CafCutOff
  <2> QED
    BY <1>2, <2>1, <2>4 DEF CafWalk
<1> QED
  BY <1>5, <1>6

\* The header of a chunk that is found is that of the chunk the walk is at.
LEMMA CafFound ==
  ASSUME IsCafFile(file), CafWalk, phase = "walk"
  PROVE  \E j \in 1 .. Caf!TheData :
           /\ CafAt(j)
           /\ Caf!ChunkHere = IF Caf!Body(j) <= size THEN file.chunks[j] ELSE Caf!NoChunk
<1>1. PICK j \in 1 .. Caf!TheData : CafAt(j)
  BY DEF CafWalk
<1>2. j \in 1 .. Len(file.chunks) /\ off = Caf!Start(j)
  BY <1>1, CafChunks, CafLayout DEF CafAt
<1>3. Caf!ChunkHere = IF Caf!Body(j) <= size THEN file.chunks[j] ELSE Caf!NoChunk
  BY <1>2, CafHeader
<1> QED
  BY <1>1, <1>3

\* A chunk that is found in front of the data: what is known of it and of the
\* next one.
LEMMA CafPlace ==
  ASSUME IsCafFile(file), GivenInv, NEW j \in 1 .. Caf!TheData, CafAt(j),
         file.chunks[j].id # "data"
  PROVE  /\ j \in Int /\ j >= 1 /\ j \in 1 .. Len(file.chunks) /\ j + 1 \in 1 .. Caf!TheData
         /\ j + 1 \in 1 .. Len(file.chunks)
         /\ off = Caf!Start(j) /\ off \in Int
         /\ file.chunks[j].declared = file.chunks[j].length /\ file.chunks[j].length \in Nat
         /\ Caf!Start(j + 1) = off + 12 + file.chunks[j].declared
         /\ Caf!Body(j) = off + 12
         /\ Caf!Body(j + 1) = off + 12 + file.chunks[j].declared + 12
         /\ size \in Nat /\ seekable \in BOOLEAN
<1> DEFINE c == file.chunks
           D == Caf!TheData
<1>1. /\ D \in 1 .. Len(c) /\ Len(c) \in Nat /\ j \in 1 .. Len(c) /\ c[D].id = "data"
      /\ j \in 1 .. Len(c) + 1
  BY CafChunks, CafLayout
<1>2. j \in Int /\ j >= 1 /\ j # D /\ j + 1 \in 1 .. D /\ j + 1 \in 1 .. Len(c)
  BY <1>1
<1>3. /\ off = Caf!Start(j) /\ off \in Int /\ c[j].declared = c[j].length /\ c[j].length \in Nat
      /\ Caf!Start(j + 1) = Caf!Start(j) + 12 + c[j].length
      /\ Caf!Body(j) = Caf!Start(j) + 12
      /\ Caf!Body(j + 1) = Caf!Start(j + 1) + 12
  BY <1>1, <1>2, CafChunks, CafLayout, CafUnpadded DEF CafAt
<1> HIDE DEF c, D
<1> QED
  BY <1>1, <1>2, <1>3 DEF GivenInv, c, D

\* Past a chunk in front of the data the walk is at the next one.
LEMMA CafPassed ==
  ASSUME IsCafFile(file), GivenInv, NEW j \in 1 .. Caf!TheData, CafAt(j),
         file.chunks[j].id # "data", UNCHANGED CafWalked, Unread, phase' = "walk",
         off' = off + 12 + file.chunks[j].declared,
         bpf' = IF file.chunks[j].id = "desc" THEN file.chunks[j].value ELSE bpf,
         file.chunks[j].id = "chan" => bpf # 0, ~Caf!TooShort(j),
         tags' = Taken(InfosFrom(1), file.chunks, j, tags)
  PROVE  CafWalk'
<1> DEFINE c == file.chunks
           D == Caf!TheData
<1>1. /\ j \in Int /\ j >= 1 /\ j \in 1 .. Len(c) /\ j + 1 \in 1 .. D
      /\ Caf!Start(j + 1) = off + 12 + c[j].declared
  BY CafPlace
<1>2. UNCHANGED <<file, size, seekable, faulty>>
  BY DEF CafWalked
<1>3. /\ Caf!Start(j + 1)' = Caf!Start(j + 1) /\ Caf!TheFrame' = Caf!TheFrame
      /\ Caf!TheData' = Caf!TheData /\ Caf!StringsFrom(1)' = Caf!StringsFrom(1)
  BY <1>2, CafStays
<1>4. off' = Caf!Start(j + 1)'
  BY <1>1, <1>3
<1>5. \A k : DescBefore(k)' <=> DescBefore(k)
  BY <1>2 DEF DescBefore
<1>6. DescBefore(j + 1) <=> DescBefore(j) \/ c[j].id = "desc"
  <2>1. \A i : i \in 1 .. ((j + 1) - 1) <=> i \in 1 .. (j - 1) \/ i = j
    BY <1>1
  <2> QED
    BY <2>1 DEF DescBefore
<1>7. (bpf' # 0 <=> DescBefore(j + 1)') /\ (bpf' # 0 => bpf' = Caf!TheFrame')
  <2>1. CASE c[j].id = "desc"
    <3>1. bpf' = Caf!TheFrame /\ Caf!TheFrame # 0
      BY <1>1, <2>1, CafChunks
    <3> QED
      BY <1>3, <1>5, <1>6, <2>1, <3>1
  <2>2. CASE c[j].id # "desc"
    <3>1. bpf' = bpf /\ (bpf # 0 <=> DescBefore(j)) /\ (bpf # 0 => bpf = Caf!TheFrame)
      BY <2>2 DEF CafAt
    <3> QED
      BY <1>3, <1>5, <1>6, <2>2, <3>1
  <2> QED
    BY <2>1, <2>2
<1>8. \A k \in 1 .. ((j + 1) - 1) : file'.chunks[k].id = "chan" => DescBefore(k)'
  <2> SUFFICES ASSUME NEW k \in 1 .. ((j + 1) - 1), c[k].id = "chan" PROVE DescBefore(k)
    BY <1>2, <1>5
  <2>1. CASE k = j
    <3>1. bpf # 0
      BY <2>1
    <3> QED
      BY <2>1, <3>1 DEF CafAt
  <2>2. CASE k # j
    <3>1. k \in 1 .. (j - 1)
      BY <1>1, <2>2
    <3> QED
      BY <3>1 DEF CafAt
  <2> QED
    BY <2>1, <2>2
<1>9. tags' = Caf!StringsFrom(1)[(j + 1) - 1]'
  <2>1. 1 \in 1 .. Len(c) + 1
    BY <1>1
  <2>2. Collects(Caf!StringsFrom(1), InfosFrom(1), c)
    BY <2>1, CafStrings
  <2>3. Caf!StringsFrom(1)[j] = Taken(InfosFrom(1), c, j, Caf!StringsFrom(1)[j - 1])
    BY <1>1, <2>2 DEF Collects
  <2>4. tags = Caf!StringsFrom(1)[j - 1] /\ (j + 1) - 1 = j
    BY <1>1 DEF CafAt
  <2> QED
    BY <1>3, <2>3, <2>4
<1>13. \A k \in 1 .. ((j + 1) - 1) : ~Caf!TooShort(k)'
  <2> SUFFICES ASSUME NEW k \in 1 .. ((j + 1) - 1) PROVE ~Caf!TooShort(k)
    BY <1>2, CafStays
  <2>1. k = j \/ k \in 1 .. (j - 1)
    BY <1>1
  <2> QED
    BY <2>1 DEF CafAt
<1>10. CafAt(j + 1)'
  BY <1>4, <1>7, <1>8, <1>9, <1>13 DEF CafAt
<1>11. \E k \in 1 .. Caf!TheData' : CafAt(k)'
  BY <1>1, <1>3, <1>10
<1>12. Unread'
  BY DEF Unread, CafWalked
<1> QED
  BY <1>11, <1>12 DEF CafWalk

\* A file whose end is in front of the next chunk's body, refused.
LEMMA CafRefused ==
  ASSUME IsCafFile(file), GivenInv, NEW j \in 1 .. Caf!TheData, CafAt(j),
         UNCHANGED CafWalked, phase' = "failed",
         \/ size < Caf!Body(j)
         \/ file.chunks[j].id # "data" /\ size < off + 12 + file.chunks[j].declared
  PROVE  CafWalk'
<1>1. Caf!WellFormed' = Caf!WellFormed
  BY CafStays DEF CafWalked
<1>2. ~Caf!WellFormed
  <2>1. CASE size < Caf!Body(j)
    BY <2>1, CafCutOff
  <2>2. CASE file.chunks[j].id # "data" /\ size < off + 12 + file.chunks[j].declared
    <3>1. /\ j + 1 \in 1 .. Caf!TheData /\ size \in Nat /\ off \in Int
          /\ Caf!Body(j + 1) = off + 12 + file.chunks[j].declared + 12
          /\ file.chunks[j].declared \in Nat
      BY <2>2, CafPlace
    <3>2. size < Caf!Body(j + 1)
      BY <2>2, <3>1
    <3> QED
      BY <3>1, <3>2, CafCutOff
  <2> QED
    BY <2>1, <2>2
<1> QED
  BY <1>1, <1>2 DEF CafWalk

\* The description, whose bytes are all there or can be skipped.
LEMMA CafDesc ==
  ASSUME IsCafFile(file), GivenInv, CafWalk, Caf!Desc
  PROVE  CafWalk' /\ phase' \in {"walk", "failed"}
<1> DEFINE c == file.chunks
<1>1. phase = "walk" /\ Caf!ChunkHere.id = "desc" /\ Unread /\ UNCHANGED CafWalked
  BY DEF Caf!Desc, Caf!Steps, Caf!Fail, Caf!callerVars, CafWalk, CafWalked
<1>2. PICK j \in 1 .. Caf!TheData :
        CafAt(j) /\ Caf!ChunkHere = IF Caf!Body(j) <= size THEN c[j] ELSE Caf!NoChunk
  BY <1>1, CafFound
<1>3. Caf!ChunkHere = c[j] /\ c[j].id = "desc"
  BY <1>1, <1>2 DEF Caf!NoChunk, Caf!Chunk
<1>4. /\ j \in 1 .. Len(c) /\ c[j].declared = c[j].length /\ c[j].length \in Nat
      /\ off \in Int /\ size \in Nat /\ seekable \in BOOLEAN
  BY <1>2, <1>3, CafPlace
<1>5. c[j].length >= 32
  BY <1>3, <1>4, CafChunks
<1> DEFINE Can == /\ off + 12 + 32 <= size
                  /\ Caf!CanSkip(off + 12 + 32, c[j].declared - 32)
<1>6. CASE Can
  <2>1. /\ off' = off + 12 + c[j].declared /\ bpf' = c[j].value
        /\ phase' = phase /\ tags' = tags
    BY <1>3, <1>4, <1>5, <1>6 DEF Caf!Desc, Caf!Fixed, Caf!Skippable, Caf!PastChunk
  <2>2. tags' = Taken(InfosFrom(1), c, j, tags)
    BY <1>3, <2>1 DEF Taken, InfosFrom
  <2>3. ~Caf!TooShort(j)
    BY <1>3 DEF Caf!TooShort
  <2> QED
    BY <1>1, <1>2, <1>3, <2>1, <2>2, <2>3, CafPassed
<1>7. CASE ~Can
  <2>1. phase' = "failed"
    BY <1>3, <1>7 DEF Caf!Desc, Caf!Fixed, Caf!Skippable, Caf!Fail
  <2>2. size < off + 12 + c[j].declared
    BY <1>4, <1>5, <1>7 DEF Caf!CanSkip
  <2> QED
    BY <1>1, <1>2, <1>3, <2>1, <2>2, CafRefused
<1> QED
  BY <1>6, <1>7

\* The strings of an info chunk, which must have room for their number, and all
\* of which must be there.
LEMMA CafInfo ==
  ASSUME IsCafFile(file), GivenInv, CafWalk, Caf!Info
  PROVE  CafWalk' /\ phase' \in {"walk", "failed"}
<1> DEFINE c == file.chunks
<1>1. phase = "walk" /\ Caf!ChunkHere.id = "info" /\ Unread /\ UNCHANGED CafWalked
  BY DEF Caf!Info, Caf!Steps, Caf!Fail, Caf!callerVars, CafWalk, CafWalked
<1>2. PICK j \in 1 .. Caf!TheData :
        CafAt(j) /\ Caf!ChunkHere = IF Caf!Body(j) <= size THEN c[j] ELSE Caf!NoChunk
  BY <1>1, CafFound
<1>3. Caf!ChunkHere = c[j] /\ c[j].id = "info"
  BY <1>1, <1>2 DEF Caf!NoChunk, Caf!Chunk
<1>4. /\ j \in Int /\ j >= 1 /\ j \in 1 .. Len(c) /\ c[j].declared = c[j].length
      /\ c[j].length \in Nat /\ off \in Int /\ size \in Nat
      /\ Caf!Start(j + 1) = off + 12 + c[j].declared
  BY <1>2, <1>3, CafPlace
<1>5. CASE Caf!Whole /\ c[j].declared >= 4
  <2>1. /\ off' = off + 12 + c[j].declared /\ bpf' = bpf /\ phase' = phase
        /\ tags' = tags \o c[j].value \o <<Caf!Flush>>
    BY <1>3, <1>5 DEF Caf!Info, Caf!PastChunk, Caf!FixedInfo
  <2>2. Caf!Start(j + 1) <= size
    BY <1>3, <1>4, <1>5 DEF Caf!Whole
  <2>3. ~Caf!TooShort(j)
    BY <1>4, <1>5 DEF Caf!TooShort, Caf!FixedInfo
  <2>4. ASSUME NEW k \in 1 .. j PROVE ~Caf!TooShort(k)
    <3>1. k = j \/ k \in 1 .. (j - 1)
      BY <1>4
    <3> QED
      BY <1>2, <2>3, <3>1 DEF CafAt
  <2>5. j \in InfosFrom(1)
    BY <1>3, <1>4, <2>2, <2>4 DEF InfosFrom
  <2>6. tags' = Taken(InfosFrom(1), c, j, tags)
    BY <2>1, <2>5 DEF Taken
  <2> QED
    BY <1>1, <1>2, <1>3, <2>1, <2>3, <2>6, CafPassed
<1>6. CASE ~Caf!Whole
  <2>1. phase' = "failed"
    BY <1>6 DEF Caf!Info, Caf!Fail
  <2>2. size < off + 12 + c[j].declared
    BY <1>3, <1>4, <1>6 DEF Caf!Whole
  <2> QED
    BY <1>1, <1>2, <1>3, <2>1, <2>2, CafRefused
<1>7. CASE ~ (c[j].declared >= 4)
  <2>1. phase' = "failed"
    BY <1>3, <1>7 DEF Caf!Info, Caf!Fail, Caf!FixedInfo
  <2>2. Caf!TooShort(j)
    BY <1>3, <1>4, <1>7 DEF Caf!TooShort, Caf!FixedInfo
  <2>3. j \in 1 .. (Caf!TheData - 1)
    <3>1. Caf!TheData \in Int /\ j + 1 \in 1 .. Caf!TheData
      BY <1>2, <1>3, CafPlace, CafChunks, CafLayout
    <3> QED
      BY <1>4, <3>1
  <2>4. ~Caf!WellFormed /\ Caf!WellFormed' = Caf!WellFormed
    BY <1>1, <2>2, <2>3, CafStays DEF Caf!WellFormed, CafWalked
  <2> QED
    BY <2>1, <2>4 DEF CafWalk
<1> QED
  BY <1>5, <1>6, <1>7

\* The channel layout, for which the format must be known.
LEMMA CafChan ==
  ASSUME IsCafFile(file), GivenInv, CafWalk, Caf!Chan
  PROVE  CafWalk' /\ phase' \in {"walk", "failed"}
<1> DEFINE c == file.chunks
           D == Caf!TheData
<1>1. phase = "walk" /\ Caf!ChunkHere.id = "chan" /\ Unread /\ UNCHANGED CafWalked
  BY DEF Caf!Chan, Caf!Steps, Caf!Fail, Caf!callerVars, CafWalk, CafWalked
<1>2. PICK j \in 1 .. Caf!TheData :
        CafAt(j) /\ Caf!ChunkHere = IF Caf!Body(j) <= size THEN c[j] ELSE Caf!NoChunk
  BY <1>1, CafFound
<1>3. Caf!ChunkHere = c[j] /\ c[j].id = "chan"
  BY <1>1, <1>2 DEF Caf!NoChunk, Caf!Chunk
<1>4. /\ j \in Int /\ j >= 1 /\ j \in 1 .. Len(c) /\ j + 1 \in 1 .. D
      /\ c[j].declared = c[j].length /\ c[j].length \in Nat
      /\ off \in Int /\ size \in Nat /\ seekable \in BOOLEAN
  BY <1>2, <1>3, CafPlace
<1>5. c[j].length >= 12
  BY <1>3, <1>4, CafChunks
<1> DEFINE Can == /\ off + 12 + 12 <= size
                  /\ Caf!CanSkip(off + 12 + 12, c[j].declared - 12)
<1>6. CASE bpf # 0 /\ Can
  <2>1. /\ off' = off + 12 + c[j].declared /\ bpf' = bpf
        /\ phase' = phase /\ tags' = tags
    BY <1>3, <1>4, <1>5, <1>6 DEF Caf!Chan, Caf!FixedChan, Caf!Skippable, Caf!PastChunk
  <2>2. tags' = Taken(InfosFrom(1), c, j, tags)
    BY <1>3, <2>1 DEF Taken, InfosFrom
  <2>3. ~Caf!TooShort(j)
    BY <1>3 DEF Caf!TooShort
  <2> QED
    BY <1>1, <1>2, <1>3, <1>6, <2>1, <2>2, <2>3, CafPassed
<1>7. CASE bpf # 0 /\ ~Can
  <2>1. phase' = "failed"
    BY <1>3, <1>7 DEF Caf!Chan, Caf!FixedChan, Caf!Skippable, Caf!Fail
  <2>2. size < off + 12 + c[j].declared
    BY <1>4, <1>5, <1>7 DEF Caf!CanSkip
  <2> QED
    BY <1>1, <1>2, <1>3, <2>1, <2>2, CafRefused
<1>8. CASE bpf = 0
  <2>1. phase' = "failed"
    BY <1>8 DEF Caf!Chan, Caf!Fail
  <2>2. ~DescBefore(j)
    BY <1>2, <1>8 DEF CafAt
  <2>3. D \in Int /\ j \in Caf!Positions("chan") /\ j < D
    <3>1. D \in 1 .. Len(c) /\ Len(c) \in Nat
      BY CafChunks, CafLayout
    <3> QED
      BY <1>3, <1>4, <3>1 DEF Caf!Positions
  <2>4. ASSUME NEW i \in Caf!Positions("desc"), i < j PROVE FALSE
    <3>1. i \in 1 .. (j - 1) /\ c[i].id = "desc"
      BY <1>4, <2>4 DEF Caf!Positions
    <3> QED
      BY <2>2, <3>1 DEF DescBefore
  <2>5. ~Caf!WellFormed
    <3>1. ~ (j > D)
      BY <1>4, <2>3
    <3> QED
      BY <2>3, <2>4, <3>1 DEF Caf!WellFormed
  <2>6. Caf!WellFormed' = Caf!WellFormed
    BY <1>1, CafStays DEF CafWalked
  <2> QED
    BY <2>1, <2>5, <2>6 DEF CafWalk
<1> QED
  BY <1>6, <1>7, <1>8

\* A chunk of no account, if it can be skipped.
LEMMA CafOtherChunk ==
  ASSUME IsCafFile(file), GivenInv, CafWalk, Caf!OtherChunk
  PROVE  CafWalk' /\ phase' \in {"walk", "failed"}
<1> DEFINE c == file.chunks
<1>1. /\ phase = "walk" /\ Caf!ChunkHere.id \notin {"desc", "info", "chan", "data", "none"}
      /\ Unread /\ UNCHANGED CafWalked
  BY DEF Caf!OtherChunk, Caf!Fail, Caf!callerVars, CafWalk, CafWalked
<1>2. PICK j \in 1 .. Caf!TheData :
        CafAt(j) /\ Caf!ChunkHere = IF Caf!Body(j) <= size THEN c[j] ELSE Caf!NoChunk
  BY <1>1, CafFound
<1>3. Caf!ChunkHere = c[j] /\ c[j].id \notin {"desc", "info", "chan", "data"}
      /\ Caf!Body(j) <= size
  BY <1>1, <1>2 DEF Caf!NoChunk, Caf!Chunk
<1>4. /\ c[j].declared \in Nat /\ Caf!Body(j) = off + 12
      /\ off \in Int /\ size \in Nat /\ seekable \in BOOLEAN
  BY <1>2, <1>3, CafPlace
<1> DEFINE Can == off + 12 + 0 <= size /\ Caf!CanSkip(off + 12 + 0, c[j].declared - 0)
<1>6. CASE Can
  <2>1. /\ off' = off + 12 + c[j].declared /\ bpf' = bpf
        /\ phase' = phase /\ tags' = tags
    BY <1>3, <1>6 DEF Caf!OtherChunk, Caf!Skippable, Caf!PastChunk
  <2>2. tags' = Taken(InfosFrom(1), c, j, tags)
    BY <1>3, <2>1 DEF Taken, InfosFrom
  <2>3. ~Caf!TooShort(j)
    BY <1>3 DEF Caf!TooShort
  <2> QED
    BY <1>1, <1>2, <1>3, <2>1, <2>2, <2>3, CafPassed
<1>7. CASE ~Can
  <2>1. phase' = "failed"
    BY <1>3, <1>7 DEF Caf!OtherChunk, Caf!Skippable, Caf!Fail
  <2>2. size < off + 12 + c[j].declared
    BY <1>3, <1>4, <1>7 DEF Caf!CanSkip
  <2> QED
    BY <1>1, <1>2, <1>3, <2>1, <2>2, CafRefused
<1> QED
  BY <1>6, <1>7

\* No header is found where the file is cut off before the body of a chunk.
LEMMA CafNoFurtherChunk ==
  ASSUME IsCafFile(file), GivenInv, CafWalk, Caf!NoFurtherChunk
  PROVE  CafWalk' /\ phase' \in {"walk", "failed"}
<1>1. /\ phase = "walk" /\ phase' = "failed" /\ Caf!ChunkHere = Caf!NoChunk
      /\ UNCHANGED CafWalked
  BY DEF Caf!NoFurtherChunk, Caf!Fail, Caf!callerVars, CafWalked
<1>2. PICK j \in 1 .. Caf!TheData :
        CafAt(j) /\ Caf!ChunkHere = IF Caf!Body(j) <= size THEN file.chunks[j] ELSE Caf!NoChunk
  BY <1>1, CafFound
<1>3. /\ Caf!TheData \in 1 .. Len(file.chunks) /\ Len(file.chunks) \in Nat
  BY CafChunks, CafLayout
<1>4. j \in 1 .. Len(file.chunks) /\ j \in 1 .. Len(file.chunks) + 1
  BY <1>3
<1>5. file.chunks[j].id # "none" /\ Caf!Body(j) = Caf!Start(j) + 12 /\ Caf!Start(j) \in Int
  BY <1>4, CafChunks, CafLayout
<1>6. ~ (Caf!Body(j) <= size)
  BY <1>1, <1>2, <1>5 DEF Caf!NoChunk, Caf!Chunk
<1>7. size < Caf!Body(j)
  BY <1>5, <1>6 DEF GivenInv
<1> QED
  BY <1>1, <1>2, <1>7, CafRefused

-----------------------------------------------------------------------------
(***************************************************************************)
(* Reading a CAF file.                                                     *)
(***************************************************************************)

\* The file fails before what is asked for has been read.
CafRagged ==
  /\ faulty /\ Caf!FramesThere < Caf!FramesStated
  /\ ~ (seekable /\ ~FALSE /\ Caf!FramesStated = Caf!Unlimited)

\* The reader's length is one of those the file gives it.
CafLengths ==
  Lengths(Caf!FramesInAll, Caf!FramesThere, Caf!FramesStated, length,
          seekable, FALSE, faulty, CafRagged)

\* The strings in front of the data, and those behind it, as far as they count.
StringsBefore == Caf!StringsFrom(1)[Caf!TheData - 1]
StringsBehind ==
  IF Caf!FramesStated # Caf!Unlimited
    THEN Caf!StringsFrom(Caf!TheData + 1)[Len(file.chunks)] ELSE <<>>

\* The strings behind the data are taken at its end, if there are any.
CafTags(first, frame, N, before, after) ==
  \/ tags = before /\ off = first + position * frame /\ (nread = 0 => after = <<>>)
  \/ tags = before \o after /\ off >= size /\ position = N

CafReading ==
  /\ Caf!WellFormed
  /\ bpf = Caf!TheFrame
  /\ CafLengths /\ (length < 0 => size < Caf!FirstByte)
  /\ Caller(Caf!FirstByte, Caf!TheFrame, Caf!FramesInAll, CafRagged)
  /\ CafTags(Caf!FirstByte, Caf!TheFrame, Caf!FramesInAll, StringsBefore, StringsBehind)

\* Where the data are, and how many frames of them there are.
LEMMA CafSizes ==
  ASSUME IsCafFile(file), GivenInv, Caf!WellFormed
  PROVE  /\ InPlace(Caf!FirstByte, Caf!TheFrame, Caf!FramesThere)
         /\ Caf!FramesThere < Caf!Unlimited
         /\ Caf!TheData \in 1 .. Len(file.chunks)
         /\ Caf!FirstByte = Caf!Start(Caf!TheData) + 16
         /\ Caf!Start(Caf!TheData) \in Nat /\ Caf!Start(Caf!TheData) + 12 <= size
         /\ Caf!Stated => /\ Caf!StatedBytes \in Nat /\ Caf!StatedBytes < Caf!Unlimited
                          /\ Caf!Start(Caf!TheData + 1) = Caf!FirstByte + Caf!StatedBytes
         /\ \E e \in 1 .. Len(file.chunks) :
              file.chunks[e].id = "desc" /\ file.chunks[e].value = Caf!TheFrame
<1> DEFINE first == Caf!FirstByte
           frame == Caf!TheFrame
           there == Caf!FramesThere
           D == Caf!TheData
           c == file.chunks
<1>1. PICK i \in Caf!Positions("desc") : i < D
  BY DEF Caf!WellFormed
<1>2. i \in 1 .. Len(c) /\ c[i].id = "desc" /\ c[i].value = frame /\ frame \in Nat \ {0}
  BY <1>1, CafChunks DEF Caf!Positions
<1>3. /\ D \in 1 .. Len(c) /\ Len(c) \in Nat /\ D \in 1 .. Len(c) + 1 /\ 1 \in 1 .. Len(c) + 1
  <2>1. D \in 1 .. Len(c) /\ Len(c) \in Nat
    BY CafChunks, CafLayout
  <2> QED
    BY <2>1
<1>4. /\ Caf!Body(D) = Caf!Start(D) + 12 /\ Caf!Start(D) \in Int /\ Caf!Start(1) = 8
      /\ 1 < D => Caf!Start(1) + 12 <= Caf!Start(D)
  BY <1>3, CafLayout
<1>5. Caf!Start(D) \in Nat
  <2>1. CASE D = 1
    BY <1>4, <2>1
  <2>2. CASE D # 1
    <3>1. 1 < D
      BY <1>3, <2>2
    <3> HIDE DEF D
    <3> QED
      BY <1>4, <3>1
  <2> QED
    BY <2>1, <2>2
<1>6. first = Caf!Start(D) + 16
  <2>1. first = Caf!Body(D) + 4
    BY DEF Caf!FirstByte, Caf!EditCount
  <2> HIDE DEF D, first
  <2> QED
    BY <1>4, <2>1
<1>7. Caf!Start(D) + 12 <= size /\ size \in Nat /\ size < Caf!Unlimited
  <2>1. Caf!Body(D) + (IF seekable THEN 0 ELSE 4) <= size
    BY DEF Caf!WellFormed, Caf!EditCount
  <2>2. size \in Nat /\ size < Caf!Unlimited
    BY Bounds DEF GivenInv
  <2> HIDE DEF D
  <2> QED
    BY <1>4, <2>1, <2>2
<1>8. Caf!Stated => /\ Caf!StatedBytes \in Nat /\ Caf!StatedBytes < Caf!Unlimited
                    /\ Caf!Start(D + 1) = first + Caf!StatedBytes
  <2> SUFFICES ASSUME Caf!Stated
               PROVE  /\ Caf!StatedBytes \in Nat /\ Caf!StatedBytes < Caf!Unlimited
                      /\ Caf!Start(D + 1) = first + Caf!StatedBytes
    OBVIOUS
  <2>1. c[D].declared = c[D].length /\ c[D].length >= 4 /\ c[D].length < Caf!Unlimited
    BY CafChunks, Bounds DEF Caf!Stated
  <2>2. c[D].length \in Nat /\ Caf!Start(D + 1) = Caf!Start(D) + 12 + c[D].length
    BY <1>3, CafUnpadded
  <2>3. Caf!StatedBytes = c[D].declared - 4
    BY DEF Caf!StatedBytes, Caf!EditCount
  <2>4. Caf!Unlimited \in Nat
    BY Bounds
  <2> HIDE DEF c, D, first
  <2> QED
    BY <1>4, <1>6, <2>1, <2>2, <2>3, <2>4
<1>9. there = IF size < first THEN 0 ELSE (size - first) \div frame
  BY DEF Caf!FramesThere
<1> HIDE DEF first, there, frame, D
<1>10. first \in Nat
  BY <1>5, <1>6
<1>11. InPlace(first, frame, there) /\ there < Caf!Unlimited
  <2>1. CASE size < first
    <3>1. there = 0 /\ 0 * frame = 0
      BY <1>2, <1>9, <2>1
    <3>2. size - first < there * frame + frame
      BY <1>2, <1>7, <1>10, <2>1, <3>1
    <3>3. 0 < Caf!Unlimited
      BY Bounds
    <3>4. ~ (first <= size) /\ there \in Nat
      BY <1>7, <1>10, <2>1, <3>1
    <3> QED
      BY <1>2, <1>7, <1>10, <3>1, <3>2, <3>3, <3>4 DEF InPlace
  <2>2. CASE ~ (size < first)
    <3> DEFINE left == size - first
    <3>1. there = left \div frame /\ left \in Nat /\ left <= size
      BY <1>7, <1>9, <1>10, <2>2
    <3>2. there \in Nat /\ there * frame <= left /\ left < there * frame + frame
      <4> HIDE DEF left
      <4> QED
        BY <1>2, <3>1, Division
    <3>3. there <= there * frame /\ there * frame \in Int
      <4>1. 1 * there <= frame * there
        <5>1. 1 <= frame /\ frame \in Int
          BY <1>2
        <5> QED
          BY <3>2, <5>1
      <4>2. there * frame \in Int
        BY <1>2, <3>2, Products
      <4> QED
        BY <1>2, <3>2, <4>1, <4>2
    <3>4. there < Caf!Unlimited
      <4>1. Caf!Unlimited \in Nat
        BY Bounds
      <4> HIDE DEF left
      <4> QED
        BY <1>7, <3>1, <3>2, <3>3, <4>1
    <3> QED
      BY <1>2, <1>7, <1>10, <2>2, <3>2, <3>4 DEF InPlace
  <2> QED
    BY <2>1, <2>2
<1> QED
  BY <1>2, <1>3, <1>5, <1>6, <1>7, <1>8, <1>11 DEF first, there, frame, D

\* What the file states, and what the reader makes of it.
LEMMA CafSettled ==
  ASSUME IsCafFile(file), GivenInv, Caf!WellFormed, NEW len,
         IF Caf!FramesStated = Caf!Unlimited /\ seekable
           THEN len = Caf!Quotient(size - Caf!FirstByte, Caf!TheFrame)
           ELSE len = Caf!FramesStated
  PROVE  Lengths(Caf!FramesInAll, Caf!FramesThere, Caf!FramesStated, len,
                 seekable, FALSE, faulty, CafRagged)
<1> USE BlockAssumption
<1> DEFINE first == Caf!FirstByte
           frame == Caf!TheFrame
           there == Caf!FramesThere
           stated == Caf!FramesStated
           N == Caf!FramesInAll
           U == Caf!Unlimited
<1>1. /\ there \in Nat /\ there < U /\ U \in Nat /\ frame \in Nat \ {0} /\ first \in Nat
      /\ size \in Nat /\ U = Wav!Unlimited
      /\ size < first => there = 0
  BY CafSizes, Bounds DEF InPlace
<1>2. stated \in Nat
  <2>1. CASE Caf!Stated /\ Caf!StatedBytes % frame = 0
    <3>1. stated = Caf!StatedBytes \div frame /\ Caf!StatedBytes \in Nat
      BY <2>1, CafSizes DEF Caf!FramesStated
    <3> HIDE DEF stated, frame
    <3> QED
      BY <1>1, <3>1, Division
  <2>2. CASE ~ (Caf!Stated /\ Caf!StatedBytes % frame = 0)
    <3>1. stated = U
      BY <2>2 DEF Caf!FramesStated
    <3> QED
      BY <1>1, <3>1
  <2> QED
    BY <2>1, <2>2
<1>3. faulty \in BOOLEAN /\ seekable \in BOOLEAN
  BY DEF GivenInv
<1>4. N = IF stated <= there THEN stated
          ELSE IF ~faulty \/ (seekable /\ stated = U) THEN there
          ELSE there - (there % Block)
  BY DEF Caf!FramesInAll
<1>5. there % Block \in 0 .. (Block - 1) /\ there - (there % Block) \in 0 .. there
  BY <1>1, Division, WholeBlocks
<1>6. CafRagged = (faulty /\ there < stated /\ ~ (seekable /\ ~FALSE /\ stated = U))
  BY DEF CafRagged
<1>7. there = IF size < first THEN 0 ELSE (size - first) \div frame
  BY DEF Caf!FramesThere
<1>8. IF stated = U /\ seekable THEN len = Caf!Quotient(size - first, frame) ELSE len = stated
  OBVIOUS
<1> HIDE DEF there, stated, N, U, first, frame
<1>9. N = IF stated <= there THEN stated ELSE IF CafRagged THEN there - (there % Block) ELSE there
  <2>1. CASE stated <= there
    BY <1>4, <2>1
  <2>2. CASE ~ (stated <= there)
    <3>1. there < stated
      BY <1>1, <1>2, <2>2
    <3>2. CafRagged = (faulty /\ ~ (seekable /\ stated = U))
      BY <1>6, <3>1
    <3>3. N = IF CafRagged THEN there - (there % Block) ELSE there
      <4>1. CASE CafRagged
        BY <1>4, <2>2, <3>2, <4>1
      <4>2. CASE ~CafRagged
        BY <1>4, <2>2, <3>2, <4>2
      <4> QED
        BY <4>1, <4>2
    <3> QED
      BY <2>2, <3>3
  <2> QED
    BY <2>1, <2>2
<1>10. N \in Nat
  BY <1>1, <1>2, <1>5, <1>9
<1>11. CASE stated = U /\ seekable
  <2>1. CASE size < first
    <3> DEFINE short == -(size - first)
    <3>1. len = -(short \div frame) /\ short \in Nat
      BY <1>1, <1>8, <1>11, <2>1 DEF Caf!Quotient
    <3>2. short \div frame \in Nat
      <4> HIDE DEF short
      <4> QED
        BY <1>1, <3>1, Division
    <3> HIDE DEF short
    <3>3. len \in Int /\ (len < 0 \/ len = 0) /\ there = 0
      BY <1>1, <2>1, <3>1, <3>2
    <3> QED
      BY <1>1, <1>2, <1>3, <1>6, <1>9, <1>10, <1>11, <3>3
      DEF Lengths, there, stated, N, U
  <2>2. CASE ~ (size < first)
    <3>1. len = there
      BY <1>1, <1>7, <1>8, <1>11, <2>2 DEF Caf!Quotient
    <3>2. len \in Int
      BY <1>1, <3>1
    <3> QED
      BY <1>1, <1>2, <1>3, <1>6, <1>9, <1>10, <1>11, <3>1, <3>2
      DEF Lengths, there, stated, N, U
  <2> QED
    BY <2>1, <2>2
<1>12. CASE ~ (stated = U /\ seekable)
  <2>1. len = stated /\ len \in Int
    BY <1>2, <1>8, <1>12
  <2> QED
    BY <1>1, <1>2, <1>3, <1>6, <1>9, <1>10, <1>12, <2>1
    DEF Lengths, there, stated, N, U
<1> QED
  BY <1>11, <1>12

\* The data chunk, which ends the walk.
LEMMA CafData ==
  ASSUME IsCafFile(file), GivenInv, CafWalk, Caf!Data
  PROVE  /\ phase' = "reading" => CafReading'
         /\ phase' = "failed" => ~Caf!WellFormed'
         /\ phase' \in {"reading", "failed"}
<1> DEFINE c == file.chunks
           D == Caf!TheData
<1>1. phase = "walk" /\ Caf!ChunkHere.id = "data" /\ Unread /\ UNCHANGED CafWalked
  BY DEF Caf!Data, Caf!Steps, Caf!Fail, Caf!callerVars, CafWalk, CafWalked
<1>2. PICK j \in 1 .. Caf!TheData :
        CafAt(j) /\ Caf!ChunkHere = IF Caf!Body(j) <= size THEN c[j] ELSE Caf!NoChunk
  BY <1>1, CafFound
<1>3. Caf!ChunkHere = c[j] /\ c[j].id = "data" /\ Caf!Body(j) <= size
  BY <1>1, <1>2 DEF Caf!NoChunk, Caf!Chunk
<1>4. /\ j = D /\ D \in 1 .. Len(c) /\ Len(c) \in Nat /\ D \in Int
      /\ off = Caf!Start(D) /\ off \in Int /\ Caf!Body(D) = off + 12
      /\ size \in Nat /\ seekable \in BOOLEAN
  <2>1. D \in 1 .. Len(c) /\ Len(c) \in Nat
    BY CafChunks, CafLayout
  <2>2. j \in 1 .. Len(c) /\ D \in 1 .. Len(c) + 1 /\ D \in Int
    BY <2>1
  <2>3. j = D
    BY <1>3, <2>2, CafChunks
  <2>4. off = Caf!Start(D) /\ Caf!Start(D) \in Int /\ Caf!Body(D) = Caf!Start(D) + 12
    BY <1>2, <2>1, <2>2, <2>3, CafLayout DEF CafAt
  <2> QED
    BY <2>1, <2>2, <2>3, <2>4 DEF GivenInv
<1>5. (\E i \in Caf!Positions("desc") :
         i < D /\ \A k \in Caf!Positions("chan") : i < k \/ k > D)
        <=> bpf # 0
  <2>1. bpf # 0 <=> DescBefore(D)
    BY <1>2, <1>4 DEF CafAt
  <2>2. ASSUME NEW i \in Caf!Positions("desc"), i < D PROVE DescBefore(D)
    <3>1. i \in 1 .. (D - 1) /\ c[i].id = "desc"
      BY <1>4, <2>2 DEF Caf!Positions
    <3> QED
      BY <3>1 DEF DescBefore
  <2>3. ASSUME NEW i \in 1 .. (D - 1), c[i].id = "desc"
        PROVE  /\ i \in Caf!Positions("desc") /\ i < D
               /\ \A k \in Caf!Positions("chan") : i < k \/ k > D
    <3>1. i \in Caf!Positions("desc") /\ i < D /\ i \in 1 .. Len(c) /\ i \in Int
      BY <1>4, <2>3 DEF Caf!Positions
    <3>2. ASSUME NEW k \in Caf!Positions("chan") PROVE i < k \/ k > D
      <4>1. k \in 1 .. Len(c) /\ c[k].id = "chan" /\ k # D /\ k \in Int
        BY <1>3, <1>4, <3>2 DEF Caf!Positions
      <4>2. CASE k > D
        BY <4>2
      <4>3. CASE k < D
        <5>1. k \in 1 .. (D - 1)
          BY <1>4, <4>1, <4>3
        <5>2. DescBefore(k)
          BY <1>2, <1>4, <4>1, <5>1 DEF CafAt
        <5>3. PICK e \in 1 .. (k - 1) : c[e].id = "desc"
          BY <5>2 DEF DescBefore
        <5>4. e \in 1 .. Len(c) /\ e < k
          BY <1>4, <4>1, <5>3
        <5>5. e = i
          BY <2>3, <3>1, <5>3, <5>4, CafChunks
        <5> QED
          BY <5>4, <5>5
      <4> QED
        BY <1>4, <4>1, <4>2, <4>3
    <3> QED
      BY <3>1, <3>2
  <2>4. DescBefore(D) => \E i \in 1 .. (D - 1) : c[i].id = "desc"
    BY DEF DescBefore
  <2> HIDE DEF D, c
  <2> QED
    BY <2>1, <2>2, <2>3, <2>4
<1>10. \A k \in 1 .. (D - 1) : ~Caf!TooShort(k)
  BY <1>2, <1>4 DEF CafAt
<1>6. Caf!WellFormed <=> bpf # 0 /\ Caf!Body(D) + (IF seekable THEN 0 ELSE 4) <= size
  BY <1>5, <1>10 DEF Caf!WellFormed, Caf!EditCount
<1>7. Caf!CanSkip(off + 12, 4) <=> Caf!Body(D) + (IF seekable THEN 0 ELSE 4) <= size
  <2>1. off + 12 <= size
    BY <1>3, <1>4
  <2> HIDE DEF D
  <2> QED
    BY <1>4, <2>1 DEF Caf!CanSkip
<1> DEFINE start == (off + 12) + 4
           frames == Caf!FramesOf(Caf!DataLength(c[j].declared))
<1>8. CASE ~Caf!WellFormed
  <2>1. phase' = "failed"
    BY <1>6, <1>7, <1>8 DEF Caf!Data, Caf!Fail, Caf!EditCount
  <2>2. ~Caf!WellFormed'
    BY <1>1, <1>8, CafStays DEF CafWalked
  <2> QED
    BY <2>1, <2>2
<1>9. CASE Caf!WellFormed
  <2>1. /\ phase' = "reading" /\ off' = start /\ bpf' = bpf /\ tags' = tags
        /\ length' = IF frames = Caf!Unlimited /\ seekable
                       THEN Caf!Quotient(size - start, bpf) ELSE frames
    BY <1>3, <1>6, <1>7, <1>9 DEF Caf!Data, Caf!EditCount
  <2>2. bpf = Caf!TheFrame
    BY <1>2, <1>6, <1>9 DEF CafAt
  <2>3. start = Caf!FirstByte
    BY <1>4 DEF Caf!FirstByte, Caf!EditCount
  <2>4. frames = Caf!FramesStated
    <3>1. CASE c[D].declared = -1
      BY <1>4, <3>1 DEF Caf!DataLength, Caf!FramesOf, Caf!FramesStated, Caf!Stated
    <3>2. CASE c[D].declared # -1
      <4>1. Caf!Stated /\ Caf!StatedBytes = c[D].declared - 4 /\ Caf!StatedBytes \in Nat
        BY <1>9, <3>2, CafSizes DEF Caf!Stated, Caf!StatedBytes, Caf!EditCount
      <4>2. Caf!DataLength(c[j].declared) = Caf!StatedBytes
        BY <1>4, <3>2, <4>1 DEF Caf!DataLength, Caf!EditCount
      <4> QED
        BY <2>2, <4>1, <4>2 DEF Caf!FramesOf, Caf!FramesStated
    <3> QED
      BY <3>1, <3>2
  <2> HIDE DEF start, frames
  <2>5. PICK first, frame, N, ragged, there, stated, len, before, after :
          /\ first = Caf!FirstByte /\ frame = Caf!TheFrame /\ N = Caf!FramesInAll
          /\ ragged = CafRagged /\ there = Caf!FramesThere /\ stated = Caf!FramesStated
          /\ len = length' /\ before = StringsBefore /\ after = StringsBehind
    OBVIOUS
  <2>6. Lengths(N, there, stated, len, seekable, FALSE, faulty, ragged)
    <3>1. IF Caf!FramesStated = Caf!Unlimited /\ seekable
            THEN len = Caf!Quotient(size - Caf!FirstByte, Caf!TheFrame)
            ELSE len = Caf!FramesStated
      BY <2>1, <2>2, <2>3, <2>4, <2>5
    <3> QED
      BY <1>9, <2>5, <3>1, CafSettled
  <2>7. first \in Nat /\ frame \in Nat \ {0} /\ N \in Nat /\ ragged \in BOOLEAN
    BY <1>9, <2>5, <2>6, CafSizes DEF Lengths, InPlace
  <2>8. Caller(first, frame, N, ragged)'
    <3>1. UNCHANGED <<position, count, delivered, nread>> /\ off' = first
      BY <1>1, <2>1, <2>3, <2>5 DEF CafWalked
    <3> QED
      BY <1>1, <2>7, <3>1, Begun
  <2>9. CafTags(first, frame, N, before, after)'
    <3>1. tags = before
      BY <1>2, <1>4, <2>5 DEF CafAt, StringsBefore
    <3>2. position' = 0 /\ nread' = 1 /\ off' = first /\ first + 0 * frame = first
      BY <1>1, <2>1, <2>3, <2>5, <2>7 DEF CafWalked, Unread
    <3> QED
      BY <2>1, <3>1, <3>2 DEF CafTags
  <2>10. UNCHANGED <<file, size, seekable, faulty>>
    BY <1>1 DEF CafWalked
  <2>11. /\ Caf!FirstByte' = first /\ Caf!TheFrame' = frame /\ Caf!FramesInAll' = N
         /\ Caf!FramesThere' = there /\ Caf!FramesStated' = stated
         /\ Caf!WellFormed' /\ bpf' = Caf!TheFrame'
    BY <1>9, <2>1, <2>2, <2>5, <2>10, CafStays
  <2>12. CafRagged' = ragged /\ StringsBefore' = before /\ StringsBehind' = after
    <3>1. Caf!Unlimited' = Caf!Unlimited
      BY DEF Caf!Unlimited
    <3> QED
      BY <2>5, <2>10, <3>1, CafStays DEF CafRagged, StringsBefore, StringsBehind
  <2>13. CafLengths' /\ (length' < 0 => size' < first)
    <3>1. CafLengths'
      BY <2>5, <2>6, <2>10, <2>11, <2>12 DEF CafLengths
    <3>2. CASE frames = Caf!Unlimited /\ seekable /\ ~ (size < first)
      <4> DEFINE some == size - first
      <4>1. size \in Nat /\ some \in Nat /\ ~ (some < 0)
        BY <1>4, <2>7, <3>2
      <4>2. length' = some \div frame
        BY <2>1, <2>2, <2>3, <2>5, <3>2, <4>1 DEF Caf!Quotient
      <4>3. some \div frame \in Nat
        <5> HIDE DEF some
        <5> QED
          BY <2>7, <4>1, Division
      <4> HIDE DEF some
      <4> QED
        BY <3>1, <4>2, <4>3
    <3>3. CASE ~ (frames = Caf!Unlimited /\ seekable)
      <4>1. length' = stated
        BY <2>1, <2>4, <2>5, <3>3
      <4>2. stated \in Nat
        BY <2>6 DEF Lengths
      <4> QED
        BY <3>1, <4>1, <4>2
    <3>4. CASE size < first
      BY <2>10, <3>1, <3>4
    <3> QED
      BY <3>2, <3>3, <3>4
  <2>14. Caller(Caf!FirstByte, Caf!TheFrame, Caf!FramesInAll, CafRagged)'
    BY <2>8, <2>11, <2>12 DEF Caller
  <2>15. CafTags(Caf!FirstByte, Caf!TheFrame, Caf!FramesInAll, StringsBefore, StringsBehind)'
    BY <2>9, <2>11, <2>12 DEF CafTags
  <2> QED
    BY <2>1, <2>11, <2>13, <2>14, <2>15 DEF CafReading
<1> QED
  BY <1>8, <1>9

\* The strings that chunks hold are strings.
LEMMA StringsAreNames ==
  ASSUME IsCafFile(file)
  PROVE  StringsBefore \in Seq(Names) /\ StringsBehind \in Seq(Names)
<1> DEFINE n == Len(file.chunks)
<1>1. Caf!TheData \in 1 .. n /\ n \in Nat
  BY CafChunks, CafLayout
<1>2. /\ 1 \in 1 .. n + 1 /\ Caf!TheData + 1 \in 1 .. n + 1
      /\ Caf!TheData - 1 \in 0 .. n /\ n \in 0 .. n
  BY <1>1
<1>3. StringsBefore \in Seq(Names)
  BY <1>2, CafStrings DEF StringsBefore
<1>4. Caf!StringsFrom(Caf!TheData + 1)[n] \in Seq(Names)
  BY <1>2, CafStrings
<1> QED
  BY <1>3, <1>4 DEF StringsBehind

\* A file that is cut off before the end of its data has nothing behind them.
LEMMA NothingBehind ==
  ASSUME IsCafFile(file), GivenInv, Caf!WellFormed, Caf!FramesThere < Caf!FramesStated
  PROVE  StringsBehind = <<>>
<1> DEFINE n == Len(file.chunks)
           D == Caf!TheData
           c == file.chunks
           first == Caf!FirstByte
           frame == Caf!TheFrame
           there == Caf!FramesThere
           stated == Caf!FramesStated
<1>1. CASE stated = Caf!Unlimited
  BY <1>1 DEF StringsBehind
<1>2. CASE stated # Caf!Unlimited
  <2>1. /\ InPlace(first, frame, there) /\ D \in 1 .. n /\ n \in Nat
        /\ Caf!Stated => /\ Caf!StatedBytes \in Nat
                         /\ Caf!Start(D + 1) = first + Caf!StatedBytes
    BY CafSizes, CafLayout
  <2>2. Caf!Stated /\ Caf!StatedBytes % frame = 0 /\ stated = Caf!StatedBytes \div frame
    BY <1>2 DEF Caf!FramesStated
  <2>3. Caf!StatedBytes \in Nat /\ Caf!Start(D + 1) = first + Caf!StatedBytes
    BY <2>1, <2>2
  <2> HIDE DEF stated, there, first, frame, D, n
  <2>4. /\ first \in Nat /\ frame \in Nat \ {0} /\ there \in Nat /\ size \in Nat
        /\ size - first < there * frame + frame
    BY <2>1 DEF InPlace
  <2>5. /\ stated \in Nat /\ Caf!StatedBytes = stated * frame + (Caf!StatedBytes % frame)
    BY <2>2, <2>3, <2>4, Division
  <2>6. there < stated => there * frame + frame <= stated * frame
    BY <2>4, <2>5, Products
  <2>7. stated * frame \in Int /\ there * frame \in Int
    BY <2>4, <2>5, Products
  <2>8. there < stated
    BY DEF there, stated
  <2>9. Caf!Start(D + 1) > size
    <3>1. Caf!StatedBytes = stated * frame
      BY <2>2, <2>5, <2>7
    <3> QED
      BY <2>3, <2>4, <2>6, <2>7, <2>8, <3>1
  <2>10. D + 1 \in 1 .. n + 1 /\ n \in 0 .. n /\ D \in Nat
    BY <2>1
  <2>11. ASSUME NEW i \in 1 .. n PROVE i \notin InfosFrom(D + 1)
    <3> SUFFICES ASSUME i >= D + 1, Caf!Start(i + 1) <= size PROVE FALSE
      BY DEF InfosFrom, n
    <3>1. i + 1 \in 1 .. n + 1 /\ D + 1 \in 1 .. n + 1 /\ D + 1 < i + 1
      BY <2>1, <2>10
    <3>2. /\ Caf!Start(i + 1) \in Int /\ Caf!Start(D + 1) \in Int
          /\ Caf!Start(D + 1) + 12 <= Caf!Start(i + 1)
      BY <3>1, CafLayout DEF n
    <3> QED
      BY <2>4, <2>9, <3>2
  <2> DEFINE g == Caf!StringsFrom(D + 1)
  <2>12. Collects(g, InfosFrom(D + 1), c) /\ Len(c) = n
    BY <2>10, CafStrings DEF n
  <2> HIDE DEF g, c
  <2>13. \A i \in 0 .. n : g[i] = <<>>
    BY <2>1, <2>10, <2>11, <2>12, NothingCollected
  <2>14. g[n] = <<>>
    BY <2>10, <2>13
  <2> QED
    BY <2>14 DEF StringsBehind, g, n, D
<1> QED
  BY <1>1, <1>2

\* No header is found at the end of the file.
LEMMA TrailingAtTheEnd ==
  ASSUME IsCafFile(file), GivenInv, off \in Int, off >= size
  PROVE  Caf!TrailingTags = <<>>
<1>1. ASSUME NEW i \in 1 .. Len(file.chunks), Caf!Start(i) >= off
      PROVE  ~ (Caf!Body(i) <= size)
  <2>1. i \in 1 .. Len(file.chunks) + 1 /\ Len(file.chunks) \in Nat
    BY CafLayout
  <2>2. Caf!Body(i) = Caf!Start(i) + 12 /\ Caf!Start(i) \in Int
    BY <2>1, CafLayout
  <2> QED
    BY <1>1, <2>2 DEF GivenInv
<1> QED
  BY <1>1, TrailingNone

\* Behind all frames that there are of data whose length is not stated, less
\* than a frame is left, in which no header is found either.
LEMMA TrailingInAFrame ==
  ASSUME IsCafFile(file), GivenInv, Caf!WellFormed, Caf!FramesStated = Caf!Unlimited,
         off = Caf!FirstByte + Caf!FramesThere * Caf!TheFrame
  PROVE  Caf!TrailingTags = <<>>
<1> DEFINE n == Len(file.chunks)
           D == Caf!TheData
           c == file.chunks
           first == Caf!FirstByte
           frame == Caf!TheFrame
           there == Caf!FramesThere
           x == there * frame
<1>1. /\ InPlace(first, frame, there) /\ D \in 1 .. n /\ n \in Nat
      /\ first = Caf!Start(D) + 16 /\ Caf!Start(D) \in Nat
      /\ Caf!Stated => Caf!StatedBytes \in Nat /\ Caf!StatedBytes < Caf!Unlimited
  BY CafSizes, CafLayout
<1>2. PICK e \in 1 .. n : c[e].id = "desc" /\ c[e].value = frame
  BY CafSizes
<1>3. D < n => frame <= 12
  <2> SUFFICES ASSUME D < n PROVE frame <= 12
    OBVIOUS
  <2>1. c[D].declared # -1 /\ ((c[D].declared - 4) % c[e].value = 0 \/ c[e].value <= 12)
    <3>1. c[D].id = "data"
      BY CafChunks
    <3> QED
      BY <1>1, <1>2, <3>1 DEF IsCafFile
  <2>2. Caf!Stated /\ Caf!StatedBytes = c[D].declared - 4
    BY <2>1 DEF Caf!Stated, Caf!StatedBytes, Caf!EditCount
  <2>3. Caf!StatedBytes % frame # 0
    <3> SUFFICES ASSUME Caf!StatedBytes % frame = 0 PROVE FALSE
      OBVIOUS
    <3>1. Caf!Unlimited = Caf!StatedBytes \div frame
      BY <2>2 DEF Caf!FramesStated
    <3> HIDE DEF frame, first, there, D
    <3>2. frame \in Nat \ {0} /\ Caf!StatedBytes \in Nat /\ Caf!StatedBytes < Caf!Unlimited
          /\ Caf!Unlimited \in Nat
      BY <1>1, <2>2, Bounds DEF InPlace
    <3>3. Caf!Unlimited * frame <= Caf!StatedBytes
      BY <3>1, <3>2, Division
    <3>4. Caf!Unlimited <= Caf!Unlimited * frame
      <4>1. 1 * Caf!Unlimited <= frame * Caf!Unlimited
        <5>1. 1 <= frame /\ frame \in Int
          BY <3>2
        <5> QED
          BY <3>2, <5>1
      <4> QED
        BY <3>2, <4>1
    <3>5. Caf!Unlimited * frame \in Int
      BY <3>2, Products
    <3> QED
      BY <3>2, <3>3, <3>4, <3>5
  <2> QED
    BY <1>2, <2>1, <2>2, <2>3
<1>4. off = first + x
  OBVIOUS
<1> HIDE DEF first, frame, there, D
<1>5. /\ first \in Nat /\ frame \in Nat \ {0} /\ size \in Nat /\ x \in Nat
      /\ size - first < x + frame
  <2>1. first \in Nat /\ frame \in Nat \ {0} /\ size \in Nat /\ there \in Nat
        /\ size - first < there * frame + frame
    BY <1>1 DEF InPlace
  <2>2. there * frame \in Nat
    BY <2>1, Products
  <2> QED
    BY <2>1, <2>2
<1> HIDE DEF x
<1>7. off \in Int /\ off > Caf!Start(D) /\ Caf!Start(D) \in Int
  <2>1. PICK s \in Nat : s = Caf!Start(D) /\ first = s + 16
    BY <1>1
  <2> QED
    BY <1>4, <1>5, <2>1
<1>6. ASSUME NEW i \in 1 .. n, Caf!Start(i) >= off PROVE ~ (Caf!Body(i) <= size)
  <2>1. i \in 1 .. n + 1 /\ D \in 1 .. n + 1 /\ i \in Int /\ D \in Int
    BY <1>1
  <2>2. /\ Caf!Body(i) = Caf!Start(i) + 12 /\ Caf!Start(i) \in Int
        /\ i < D => Caf!Start(i) + 12 <= Caf!Start(D)
    BY <1>1, <2>1, CafLayout
  <2>3. i > D
    <3>1. Caf!Start(i) > Caf!Start(D)
      BY <1>6, <1>7, <2>2
    <3> QED
      BY <1>7, <2>1, <2>2, <3>1
  <2>4. frame <= 12
    BY <1>1, <1>3, <2>1, <2>3
  <2> QED
    BY <1>4, <1>5, <1>6, <2>2, <2>4
<1> QED
  BY <1>6, TrailingNone

\* Behind data of a stated length, all of which are there, is the next chunk.
LEMMA TrailingBehindData ==
  ASSUME IsCafFile(file), GivenInv, Caf!WellFormed, Caf!FramesStated # Caf!Unlimited,
         off = Caf!FirstByte + Caf!FramesStated * Caf!TheFrame
  PROVE  Caf!TrailingTags = StringsBehind
<1> DEFINE n == Len(file.chunks)
           D == Caf!TheData
           frame == Caf!TheFrame
           stated == Caf!FramesStated
<1>1. Caf!Stated /\ Caf!StatedBytes % frame = 0 /\ stated = Caf!StatedBytes \div frame
  BY DEF Caf!FramesStated
<1>2. /\ Caf!StatedBytes \in Nat /\ Caf!Start(D + 1) = Caf!FirstByte + Caf!StatedBytes
      /\ frame \in Nat \ {0} /\ D \in 1 .. n /\ n \in Nat /\ Caf!FirstByte \in Nat
  BY <1>1, CafSizes, CafLayout DEF InPlace
<1>3. stated * frame = Caf!StatedBytes
  <2> HIDE DEF stated, frame
  <2>1. Caf!StatedBytes = stated * frame + (Caf!StatedBytes % frame) /\ stated \in Nat
    BY <1>1, <1>2, Division
  <2>2. stated * frame \in Nat
    BY <1>2, <2>1, Products
  <2> QED
    BY <1>1, <2>1, <2>2
<1>4. off = Caf!Start(D + 1)
  BY <1>2, <1>3
<1>5. D + 1 \in 1 .. n + 1 /\ D + 1 > D
  BY <1>2
<1>6. Caf!TrailingTags = Caf!StringsOf(D + 1, n)
  BY <1>4, <1>5, TrailingFrom
<1> QED
  BY <1>6 DEF Caf!StringsOf, StringsBehind

\* What the walk behind the data takes in, when a read has brought no frame.
LEMMA TrailingSettled ==
  ASSUME IsCafFile(file), GivenInv, CafReading,
         NEW a, a = AskedFor(position, count, length, FALSE), a = 0,
         off = Caf!FirstByte + position * Caf!TheFrame
  PROVE  Caf!TrailingTags = StringsBehind
<1> USE BlockAssumption
<1> DEFINE there == Caf!FramesThere
           stated == Caf!FramesStated
           N == Caf!FramesInAll
           U == Wav!Unlimited
<1>1. Lengths(N, there, stated, length, seekable, FALSE, faulty, CafRagged)
  BY DEF CafReading, CafLengths
<1>2. position \in 0 .. N /\ count \in 0 .. (Block - 1)
  BY DEF CafReading, Caller
<1>3. /\ N \in Nat /\ there \in Nat /\ stated \in Nat /\ length \in Int /\ there < U
      /\ U \in Nat /\ U > 0 /\ Caf!Unlimited = U
  BY <1>1, Bounds DEF Lengths
<1>4. N <= there /\ (stated <= there => N = stated)
  <2>1. there - (there % Block) \in 0 .. there
    BY <1>3, WholeBlocks
  <2> QED
    BY <1>1, <1>3, <2>1 DEF Lengths
<1>5. IF stated = U /\ seekable THEN length = there \/ (length < 0 /\ there = 0)
                                ELSE length = stated
  BY <1>1 DEF Lengths
<1> HIDE DEF there, stated, N
<1>6. length = position
  BY <1>2, <1>3 DEF AskedFor
<1>7. CASE stated = U
  <2>1. position = there
    BY <1>2, <1>3, <1>4, <1>5, <1>6, <1>7
  <2>2. Caf!TrailingTags = <<>>
    BY <1>3, <1>7, <2>1, TrailingInAFrame DEF CafReading, there, stated
  <2> QED
    BY <1>3, <1>7, <2>2 DEF StringsBehind, stated
<1>8. CASE stated # U
  <2>1. position = stated
    BY <1>5, <1>6, <1>8
  <2> QED
    BY <1>3, <1>8, <2>1, TrailingBehindData DEF CafReading, stated
<1> QED
  BY <1>7, <1>8

\* A read that is asked for something and comes to nothing, to a part of it or
\* to a failure was meant for frames that are not there.
LEMMA ShortOfFrames ==
  ASSUME NEW N, NEW there, NEW stated, NEW len, NEW seeks, NEW ignores, NEW fails, NEW ragged,
         Lengths(N, there, stated, len, seeks, ignores, fails, ragged),
         NEW p \in 0 .. N, NEW c \in 0 .. (Block - 1),
         NEW a, a = AskedFor(p, c, len, ignores), a > 0,
         NEW n, Brought(a, n, p, N, there, fails), n # a
  PROVE  there < stated
<1> USE BlockAssumption
<1>1. /\ N \in Nat /\ there \in Nat /\ stated \in Nat /\ len \in Int
      /\ Wav!Unlimited \in Nat /\ there < Wav!Unlimited
  BY Bounds DEF Lengths
<1> SUFFICES ASSUME stated <= there PROVE FALSE
  BY <1>1
<1>2. N = stated /\ stated # Wav!Unlimited /\ ~ignores
  BY <1>1 DEF Lengths
<1>3. len = stated
  BY <1>2 DEF Lengths
<1>4. a \in Nat /\ p + a <= there /\ p # N /\ ~ (p >= there) /\ ~ (p + a > there)
  BY <1>1, <1>2, <1>3 DEF AskedFor
<1> QED
  BY <1>4 DEF Brought

\* A read, which leaves the file as it is; the strings behind the data are taken
\* when it comes to their end.
LEMMA CafRead ==
  ASSUME IsCafFile(file), GivenInv, CafReading, Caf!ReadFrames
  PROVE  CafReading' /\ Answered(Caf!FramesInAll)
<1> USE BlockAssumption
<1>1. PICK first, frame, N, ragged, there, stated, len, ignores, a, rc, n, f, before, after :
        /\ first = Caf!FirstByte /\ frame = Caf!TheFrame /\ N = Caf!FramesInAll
        /\ ragged = CafRagged /\ there = Caf!FramesThere /\ stated = Caf!FramesStated
        /\ len = length /\ ignores = FALSE /\ before = StringsBefore /\ after = StringsBehind
        /\ a = Caf!Asked /\ rc = (IF a = 0 THEN 0 ELSE Caf!Read(a * bpf))
        /\ n = (IF rc < 0 THEN -1 ELSE rc \div bpf) /\ f = (IF n > 0 THEN n ELSE 0)
  OBVIOUS
<1>2. InPlace(first, frame, there)
  BY <1>1, CafSizes DEF CafReading
<1>3. /\ Lengths(N, there, stated, len, seekable, ignores, faulty, ragged)
      /\ Caller(first, frame, N, ragged) /\ bpf = frame /\ Caf!WellFormed
      /\ CafTags(first, frame, N, before, after)
  BY <1>1 DEF CafReading, CafLengths
<1>4. N \in Nat /\ len \in Int /\ there \in Nat /\ stated \in Nat /\ size \in Nat
  BY <1>3 DEF Lengths, GivenInv
<1>5. position \in 0 .. N /\ count \in 0 .. (Block - 1) /\ off \in Int
  BY <1>3 DEF Caller
<1>7. nread > 0 /\ UNCHANGED <<file, size, seekable, faulty, bpf, length>>
  BY DEF Caf!ReadFrames
<1>8. /\ Gets(f, frame)
      /\ IF n = 0 THEN /\ tags' = tags \o (IF rc = 0 THEN Caf!TrailingTags ELSE <<>>)
                       /\ off' = IF off < size THEN size ELSE off
                  ELSE /\ off' = off + (IF rc > 0 THEN rc ELSE 0)
                       /\ tags' = tags
  BY <1>1, <1>3 DEF Caf!ReadFrames, Caf!Returned, Caf!AtTheEnd, Gets
<1>9. a = AskedFor(position, count, len, ignores)
  BY <1>1, Bounds DEF Caf!Asked, Caf!Room, Caf!Lesser, AskedFor
<1>10. ReadsFor(a, rc, n, frame)
  BY <1>1, <1>3 DEF Caf!Read, ReadsFor
<1>11. f = IF n > 0 THEN n ELSE 0
  BY <1>1
<1>12. size' = size /\ MovesOn(rc, n)
  BY <1>7, <1>8 DEF MovesOn
<1>13. /\ Caller(first, frame, N, ragged)' /\ Answered(N)
       /\ Outcome(a, rc, n, first, frame, N, there)
       /\ N <= there
       /\ n \in Int /\ (n <= 0 => position = N) /\ (n > 0 => position + n <= N)
  BY <1>2, <1>3, <1>7, <1>8, <1>9, <1>10, <1>11, <1>12, Served
<1>14. before \in Seq(Names) /\ after \in Seq(Names)
  BY <1>1, StringsAreNames
<1>15. n # a /\ a > 0 => after = <<>>
  <2> SUFFICES ASSUME n # a, a > 0 PROVE after = <<>>
    OBVIOUS
  <2>1. PICK p \in 0 .. N, c \in 0 .. (Block - 1) : p = position /\ c = count
    BY <1>5
  <2>2. a = AskedFor(p, c, len, ignores)
    BY <1>9, <2>1
  <2>3. Brought(a, n, p, N, there, faulty)
    BY <1>13, <2>1 DEF Outcome, Brought
  <2>4. there < stated
    BY <1>3, <2>2, <2>3, ShortOfFrames
  <2> QED
    BY <1>1, <1>3, <2>4, NothingBehind
<1>16. off >= size => Caf!TrailingTags = <<>>
  BY <1>5, TrailingAtTheEnd
<1>17. CafTags(first, frame, N, before, after)'
  <2>1. before \o <<>> = before /\ (before \o after) \o <<>> = before \o after
    BY <1>14
  <2>2. CASE n > 0
    <3>1. tags' = tags /\ position # N /\ position' = position + n
      BY <1>4, <1>5, <1>8, <1>11, <1>13, <2>2 DEF Gets
    <3>2. tags = before
      BY <1>3, <3>1 DEF CafTags
    <3>3. off' = off + (IF rc > 0 THEN rc ELSE 0)
      BY <1>8, <2>2
    <3>4. CASE a > 0 /\ rc = a * frame /\ n = a
      <4>1. off = first + position * frame
        BY <1>3, <3>1 DEF CafTags
      <4>2. first \in Nat /\ frame \in Nat \ {0} /\ position \in Nat /\ a \in Nat
        BY <1>2, <1>4, <1>5, <1>13, <3>4 DEF InPlace
      <4>3. a * frame \in Nat /\ position * frame \in Nat
            /\ (position + a) * frame = position * frame + a * frame
        BY <4>2, Products
      <4>4. off' = first + (position * frame + a * frame)
        BY <3>3, <3>4, <4>1, <4>2, <4>3
      <4>5. off' = first + position' * frame
        BY <3>1, <3>4, <4>3, <4>4
      <4>6. nread' # 0
        BY <1>4, <1>5, <1>7, <1>8, <1>11, <2>2 DEF Gets
      <4> QED
        BY <3>1, <3>2, <4>5, <4>6 DEF CafTags
    <3>5. CASE /\ a > 0 /\ rc = size - off /\ rc > 0 /\ position + n = there
               /\ position + a > there
      <4>1. off' = size /\ size' = size
        BY <1>4, <1>5, <1>7, <3>3, <3>5
      <4>2. n # a
        BY <1>4, <1>5, <1>13, <3>5
      <4>3. after = <<>>
        BY <1>15, <3>5, <4>2
      <4>4. position' = N
        BY <1>4, <1>5, <1>13, <3>1, <3>5
      <4> QED
        BY <1>4, <2>1, <3>1, <3>2, <4>1, <4>3, <4>4 DEF CafTags
    <3> QED
      BY <1>13, <2>2, <3>4, <3>5 DEF Outcome
  <2>3. CASE n = 0
    <3>1. /\ off' \in Int /\ off' >= size' /\ position' = position /\ position = N
          /\ tags' = tags \o (IF rc = 0 THEN Caf!TrailingTags ELSE <<>>)
      BY <1>4, <1>5, <1>7, <1>8, <1>11, <1>13, <2>3 DEF Gets
    <3>2. tags' = before \o after
      <4>1. CASE tags = before \o after /\ off >= size
        BY <1>16, <2>1, <3>1, <4>1
      <4>2. CASE tags = before /\ off = first + position * frame /\ a = 0
        <5>1. rc = 0
          BY <1>10, <4>2 DEF ReadsFor
        <5>2. Caf!TrailingTags = after
          BY <1>1, <1>9, <4>2, TrailingSettled
        <5> QED
          BY <3>1, <4>2, <5>1, <5>2
      <4>3. CASE tags = before /\ a # 0
        <5>1. a > 0 /\ (rc = 0 => off >= size)
          BY <1>13, <2>3, <4>3 DEF Outcome
        <5>2. after = <<>>
          BY <1>15, <2>3, <5>1
        <5>3. tags' = before
          BY <1>16, <2>1, <3>1, <4>3, <5>1
        <5> QED
          BY <2>1, <5>2, <5>3
      <4> QED
        BY <1>3, <4>1, <4>2, <4>3 DEF CafTags
    <3> QED
      BY <3>1, <3>2 DEF CafTags
  <2>4. CASE n < 0
    <3>1. a > 0 /\ rc = -1 /\ n = -1
      <4>1. CASE a > 0 /\ n = a
        BY <1>13, <2>4, <4>1
      <4> QED
        BY <1>13, <2>4, <4>1 DEF Outcome
    <3>2. off' = off /\ tags' = tags /\ size' = size /\ position' = position /\ position = N
      BY <1>4, <1>5, <1>7, <1>8, <1>11, <1>13, <3>1 DEF Gets
    <3>3. n # a
      BY <1>13, <3>1
    <3>4. after = <<>>
      BY <1>15, <3>1, <3>3
    <3> QED
      BY <1>3, <3>2, <3>4 DEF CafTags
  <2> QED
    BY <1>13, <2>2, <2>3, <2>4
<1>18. /\ Caf!FirstByte' = first /\ Caf!TheFrame' = frame /\ Caf!FramesInAll' = N
       /\ Caf!FramesThere' = there /\ Caf!FramesStated' = stated
       /\ Caf!WellFormed' /\ bpf' = Caf!TheFrame' /\ length' = length
  BY <1>1, <1>3, <1>7, CafStays
<1>19. CafRagged' = ragged /\ StringsBefore' = before /\ StringsBehind' = after
  <2>1. Caf!Unlimited' = Caf!Unlimited
    BY DEF Caf!Unlimited
  <2> QED
    BY <1>1, <1>7, <2>1, CafStays DEF CafRagged, StringsBefore, StringsBehind
<1>20. CafLengths' /\ (length' < 0 => size' < first)
  <2>1. CafLengths'
    BY <1>1, <1>3, <1>7, <1>18, <1>19 DEF CafLengths
  <2> QED
    BY <1>1, <1>7, <2>1 DEF CafReading
<1>21. Caller(Caf!FirstByte, Caf!TheFrame, Caf!FramesInAll, CafRagged)'
  BY <1>13, <1>18, <1>19 DEF Caller
<1>22. CafTags(Caf!FirstByte, Caf!TheFrame, Caf!FramesInAll, StringsBefore, StringsBehind)'
  BY <1>17, <1>18, <1>19 DEF CafTags
<1> QED
  BY <1>1, <1>13, <1>18, <1>20, <1>21, <1>22 DEF CafReading

-----------------------------------------------------------------------------
(***************************************************************************)
(* The reader of whatever file there is.                                   *)
(***************************************************************************)

\* The kind of a file, which its first bytes tell, says what is in it.
LEMMA Kinds ==
  ASSUME GivenInv
  PROVE  /\ file.kind = "raw" => IsRawFile(file)
         /\ file.kind \in {"RIFF", "RF64"} => IsWavFile(file)
         /\ file.kind = "caff" => IsCafFile(file)
BY FilesAssumption DEF GivenInv, IsRawFile, IsWavFile, IsCafFile

IsOfWav == file.kind \in {"raw", "RIFF", "RF64"}

WavInv ==
  /\ WavWalk
  /\ phase = "reading" => WavReading
  /\ phase \in {"open", "ds64", "walk", "reading", "failed"}
  /\ file.kind = "raw" => phase \in {"open", "reading"}

CafInv ==
  /\ CafWalk
  /\ phase = "reading" => CafReading
  /\ phase \in {"open", "walk", "reading", "failed"}

\* The inductive invariant.
ReaderInv ==
  /\ GivenInv
  /\ IsOfWav => WavInv
  /\ file.kind = "caff" => CafInv
  /\ ~Known => phase \in {"open", "failed"} /\ Unread

\* What is given with the file stays as long as the file does.
LEMMA GivenStays ==
  ASSUME GivenInv, UNCHANGED GivenVars
  PROVE  GivenInv'
BY DEF GivenInv, GivenVars

\* Every step of the reader of WAV and raw files.
LEMMA WavSteps ==
  ASSUME IsOfWav, GivenInv, WavInv, Wav!Next
  PROVE  /\ WavInv' /\ UNCHANGED GivenVars
         /\ UNCHANGED <<position, count, nread>> \/ (phase = "reading" /\ Answered(Wav!FramesInAll))
<1>1. CASE file.kind = "raw"
  <2>1. IsRawFile(file) /\ phase \in {"open", "reading"}
    BY <1>1, Kinds DEF WavInv
  <2>2. CASE Wav!OpenRaw
    <3>1. phase' = "reading" /\ WavReading' /\ UNCHANGED <<file, position, count, nread>>
      BY <2>1, <2>2, WavOpenRaw DEF WavInv, Wav!OpenRaw, Wav!fileVars, Wav!callerVars
    <3>2. UNCHANGED GivenVars
      BY <2>2 DEF Wav!OpenRaw, Wav!fileVars, GivenVars
    <3> QED
      BY <3>1, <3>2 DEF WavInv, WavWalk
  <2>3. CASE Wav!ReadFrames
    <3>1. phase = "reading" /\ phase' = "reading" /\ UNCHANGED GivenVars
      BY <2>3 DEF Wav!ReadFrames, Wav!formatVars, GivenVars
    <3>2. WavReading' /\ Answered(Wav!FramesInAll)
      BY <2>1, <2>3, <3>1, WavRead DEF WavInv
    <3> QED
      BY <3>1, <3>2 DEF WavInv, WavWalk
  <2>4. Wav!OpenRaw \/ Wav!ReadFrames
    BY <1>1, <2>1
    DEF Wav!Next, Wav!Prologue, Wav!Ds64, Wav!Fmt, Wav!OtherChunk, Wav!NoFurtherChunk, Wav!Data
  <2> QED
    BY <2>2, <2>3, <2>4
<1>2. CASE file.kind # "raw"
  <2>1. IsWavFile(file)
    BY <1>2, Kinds DEF IsOfWav
  <2>2. CASE Wav!Prologue
    <3>1. WavWalk'
      BY <2>1, <2>2, WavPrologue DEF WavInv
    <3>2. phase' \in {"ds64", "walk", "failed"} /\ UNCHANGED GivenVars
      BY <2>2 DEF Wav!Prologue, Wav!Fail, Wav!formatVars, GivenVars
    <3>3. UNCHANGED <<file, position, count, nread>>
      BY <2>2 DEF Wav!Prologue, Wav!callerVars
    <3> QED
      BY <1>2, <3>1, <3>2, <3>3 DEF WavInv
  <2>3. CASE Wav!Ds64
    <3>1. WavWalk'
      BY <2>1, <2>3, WavDs64 DEF WavInv
    <3>2. phase' = "walk" /\ UNCHANGED GivenVars
      BY <2>3 DEF Wav!Ds64, GivenVars
    <3>3. UNCHANGED <<file, position, count, nread>>
      BY <2>3 DEF Wav!Ds64, Wav!callerVars
    <3> QED
      BY <1>2, <3>1, <3>2, <3>3 DEF WavInv
  <2>4. CASE Wav!Fmt
    <3>1. WavWalk'
      BY <2>1, <2>4, WavFmt DEF WavInv
    <3>2. phase' \in {"walk", "failed"} /\ UNCHANGED GivenVars
      BY <2>4 DEF Wav!Fmt, Wav!Fail, Wav!formatVars, GivenVars
    <3>3. UNCHANGED <<file, position, count, nread>>
      BY <2>4 DEF Wav!Fmt, Wav!callerVars
    <3> QED
      BY <1>2, <3>1, <3>2, <3>3 DEF WavInv
  <2>5. CASE Wav!OtherChunk
    <3>1. WavWalk'
      BY <2>1, <2>5, WavOtherChunk DEF WavInv
    <3>2. phase' \in {"walk", "failed"} /\ UNCHANGED GivenVars
      BY <2>5 DEF Wav!OtherChunk, Wav!Fail, Wav!formatVars, GivenVars
    <3>3. UNCHANGED <<file, position, count, nread>>
      BY <2>5 DEF Wav!OtherChunk, Wav!callerVars
    <3> QED
      BY <1>2, <3>1, <3>2, <3>3 DEF WavInv
  <2>6. CASE Wav!NoFurtherChunk
    <3>1. WavWalk'
      BY <2>1, <2>6, WavNoFurtherChunk DEF WavInv
    <3>2. phase' = "failed" /\ UNCHANGED GivenVars
      BY <2>6 DEF Wav!NoFurtherChunk, Wav!Fail, Wav!formatVars, GivenVars
    <3>3. UNCHANGED <<file, position, count, nread>>
      BY <2>6 DEF Wav!NoFurtherChunk, Wav!callerVars
    <3> QED
      BY <1>2, <3>1, <3>2, <3>3 DEF WavInv
  <2>7. CASE Wav!Data
    <3>1. /\ phase' = "reading" => WavReading'
          /\ phase' = "failed" => ~Wav!WellFormed'
          /\ phase' \in {"reading", "failed"}
      BY <2>1, <2>7, WavData DEF WavInv
    <3>2. UNCHANGED GivenVars
      BY <2>7 DEF Wav!Data, Wav!Fail, Wav!formatVars, GivenVars
    <3>3. UNCHANGED <<file, position, count, nread>>
      BY <2>7 DEF Wav!Data, Wav!callerVars
    <3>4. WavWalk'
      BY <3>1 DEF WavWalk
    <3> QED
      BY <1>2, <3>1, <3>2, <3>3, <3>4 DEF WavInv
  <2>8. CASE Wav!ReadFrames
    <3>1. phase = "reading" /\ phase' = "reading" /\ UNCHANGED GivenVars
      BY <2>8 DEF Wav!ReadFrames, Wav!formatVars, GivenVars
    <3>2. WavReading' /\ Answered(Wav!FramesInAll)
      BY <2>1, <2>8, <3>1, WavRead DEF WavInv
    <3>3. file' = file
      BY <2>8 DEF Wav!ReadFrames
    <3> QED
      BY <1>2, <3>1, <3>2, <3>3 DEF WavInv, WavWalk
  <2>9. ~Wav!OpenRaw
    BY <1>2 DEF Wav!OpenRaw
  <2> QED
    BY <2>2, <2>3, <2>4, <2>5, <2>6, <2>7, <2>8, <2>9 DEF Wav!Next
<1> QED
  BY <1>1, <1>2

\* Every step of the reader of CAF files.
LEMMA CafSteps ==
  ASSUME file.kind = "caff", GivenInv, CafInv, Caf!Next, ignore_length' = ignore_length
  PROVE  /\ CafInv' /\ UNCHANGED GivenVars
         /\ UNCHANGED <<position, count, nread>> \/ (phase = "reading" /\ Answered(Caf!FramesInAll))
<1>1. IsCafFile(file)
  BY Kinds
<1>2. CASE Caf!Prologue \/ Caf!Desc \/ Caf!Info \/ Caf!Chan \/ Caf!OtherChunk \/ Caf!NoFurtherChunk
  <2>1. UNCHANGED <<file, size, seekable, faulty, position, count, nread>>
    <3>1. CASE Caf!Prologue
      BY <3>1 DEF Caf!Prologue, Caf!callerVars
    <3>2. CASE Caf!Desc
      BY <3>2 DEF Caf!Desc, Caf!callerVars
    <3>3. CASE Caf!Info
      BY <3>3 DEF Caf!Info, Caf!callerVars
    <3>4. CASE Caf!Chan
      BY <3>4 DEF Caf!Chan, Caf!callerVars
    <3>5. CASE Caf!OtherChunk
      BY <3>5 DEF Caf!OtherChunk, Caf!callerVars
    <3>6. CASE Caf!NoFurtherChunk
      BY <3>6 DEF Caf!NoFurtherChunk, Caf!callerVars
    <3> QED
      BY <1>2, <3>1, <3>2, <3>3, <3>4, <3>5, <3>6
  <2>2. CafWalk' /\ phase' \in {"walk", "failed"}
    <3>1. CafWalk
      BY DEF CafInv
    <3> QED
      BY <1>1, <1>2, <3>1, CafPrologue, CafDesc, CafInfo, CafChan, CafOtherChunk, CafNoFurtherChunk
  <2> QED
    BY <2>1, <2>2 DEF CafInv, GivenVars
<1>3. CASE Caf!Data
  <2>1. /\ phase' = "reading" => CafReading'
        /\ phase' = "failed" => ~Caf!WellFormed'
        /\ phase' \in {"reading", "failed"}
    BY <1>1, <1>3, CafData DEF CafInv
  <2>2. UNCHANGED <<file, size, seekable, faulty, position, count, nread>>
    BY <1>3 DEF Caf!Data, Caf!callerVars
  <2> QED
    BY <2>1, <2>2 DEF CafInv, CafWalk, GivenVars
<1>4. CASE Caf!ReadFrames
  <2>1. phase = "reading" /\ phase' = "reading" /\ UNCHANGED <<file, size, seekable, faulty>>
    BY <1>4 DEF Caf!ReadFrames
  <2>2. CafReading' /\ Answered(Caf!FramesInAll)
    BY <1>1, <1>4, <2>1, CafRead DEF CafInv
  <2> QED
    BY <2>1, <2>2 DEF CafInv, CafWalk, GivenVars
<1> QED
  BY <1>2, <1>3, <1>4 DEF Caf!Next

\* The frames there are in all are a number, and stay what they are.
LEMMA FramesBounded ==
  ASSUME GivenInv
  PROVE  FramesInAll \in 0 .. Wav!Unlimited
<1>0. Wav!Unlimited \in Nat
  BY Bounds
<1>1. CASE IsOfWav
  <2>1. IsWavFile(file) \/ IsRawFile(file)
    BY <1>1, Kinds DEF IsOfWav
  <2>2. FramesInAll = Wav!FramesInAll
    BY <1>1 DEF IsOfWav, FramesInAll, Known
  <2>3. CASE ~Wav!WellFormed
    BY <1>0, <2>2, <2>3 DEF Wav!FramesInAll
  <2>4. CASE Wav!WellFormed
    <3>1. PICK len : len = IF Wav!FramesStated = Wav!Unlimited /\ seekable
                             THEN Wav!FramesThere ELSE Wav!FramesStated
      OBVIOUS
    <3>2. Lengths(Wav!FramesInAll, Wav!FramesThere, Wav!FramesStated, len,
                  seekable, ignore_length, faulty, WavRagged)
      BY <2>1, <2>4, <3>1, WavSettled
    <3>3. PICK N, there, stated : N = Wav!FramesInAll /\ there = Wav!FramesThere
                                    /\ stated = Wav!FramesStated
      OBVIOUS
    <3>4. N \in Nat /\ there \in Nat /\ stated \in Nat /\ there < Wav!Unlimited
          /\ (N = stated \/ N = there \/ N = there - (there % Block))
          /\ (N = stated => stated <= there \/ N = there \/ N = there - (there % Block))
      BY <3>2, <3>3 DEF Lengths
    <3>5. there - (there % Block) \in 0 .. there
      BY <3>4, WholeBlocks, BlockAssumption
    <3> QED
      BY <1>0, <2>2, <3>3, <3>4, <3>5
  <2> QED
    BY <2>3, <2>4
<1>2. CASE file.kind = "caff"
  <2>1. IsCafFile(file)
    BY <1>2, Kinds
  <2>2. FramesInAll = Caf!FramesInAll
    BY <1>2 DEF FramesInAll, Known
  <2>3. CASE ~Caf!WellFormed
    BY <1>0, <2>2, <2>3 DEF Caf!FramesInAll
  <2>4. CASE Caf!WellFormed
    <3>1. PICK len : len = IF Caf!FramesStated = Caf!Unlimited /\ seekable
                             THEN Caf!Quotient(size - Caf!FirstByte, Caf!TheFrame)
                             ELSE Caf!FramesStated
      OBVIOUS
    <3>2. Lengths(Caf!FramesInAll, Caf!FramesThere, Caf!FramesStated, len,
                  seekable, FALSE, faulty, CafRagged)
      BY <2>1, <2>4, <3>1, CafSettled
    <3>3. PICK N, there, stated : N = Caf!FramesInAll /\ there = Caf!FramesThere
                                    /\ stated = Caf!FramesStated
      OBVIOUS
    <3>4. N \in Nat /\ there \in Nat /\ stated \in Nat /\ there < Wav!Unlimited
          /\ (N = stated \/ N = there \/ N = there - (there % Block))
          /\ (N = stated => stated <= there \/ N = there \/ N = there - (there % Block))
      BY <3>2, <3>3 DEF Lengths
    <3>5. there - (there % Block) \in 0 .. there
      BY <3>4, WholeBlocks, BlockAssumption
    <3> QED
      BY <1>0, <2>2, <3>3, <3>4, <3>5
  <2> QED
    BY <2>3, <2>4
<1>3. CASE ~Known
  BY <1>0, <1>3 DEF FramesInAll
<1> QED
  BY <1>1, <1>2, <1>3 DEF Known, IsOfWav

\* The frames there are in all stay the same while a file is read.
LEMMA FramesStay ==
  ASSUME UNCHANGED GivenVars
  PROVE  FramesInAll' = FramesInAll
<1>1. UNCHANGED <<file, size, seekable, faulty, ignore_length>>
  BY DEF GivenVars
<1> QED
  BY <1>1, WavStays, CafStays DEF FramesInAll, Known

\* A file of no kind that is supported, or an empty one, is refused.
LEMMA UnsupportedStep ==
  ASSUME ReaderInv, Unsupported
  PROVE  ReaderInv' /\ UNCHANGED GivenVars /\ UNCHANGED <<position, count, nread>>
<1>1. /\ phase = "open" /\ phase' = "failed" /\ file.kind # "raw"
      /\ Known => size <= 0
      /\ UNCHANGED <<file, size, seekable, faulty, ignore_length>>
      /\ UNCHANGED <<position, count, delivered, nread>>
  <2>1. ~ (size > 0) => size <= 0
    BY DEF ReaderInv, GivenInv
  <2> QED
    BY <2>1 DEF Unsupported, IsRaw, IsWav, IsCaf, Known
<1>2. GivenInv /\ GivenInv' /\ file' = file
  BY <1>1, GivenStays DEF ReaderInv, GivenVars
<1>3. IsOfWav => WavInv'
  <2> SUFFICES ASSUME IsOfWav PROVE WavInv'
    OBVIOUS
  <2>1. IsWavFile(file)
    BY <1>1, <1>2, Kinds DEF IsOfWav
  <2> DEFINE D == Wav!TheData
  <2>2. /\ D \in 1 .. Len(file.chunks) /\ Len(file.chunks) \in Nat /\ 1 \in 1 .. D
        /\ 1 \in 1 .. Len(file.chunks) /\ Wav!Start(1) = 12
    <3>1. D \in 1 .. Len(file.chunks) /\ Len(file.chunks) \in Nat /\ Wav!Start(1) = 12
      BY <2>1, WavChunks, WavLayout
    <3> QED
      BY <3>1
  <2>3. Wav!Body(1) = 20
    BY <2>1, <2>2, WavLayout
  <2>4. size < Wav!Body(1)
    BY <1>1, <1>2, <2>3 DEF Known, IsOfWav, GivenInv
  <2>5. ~Wav!WellFormed /\ Wav!WellFormed' = Wav!WellFormed
    BY <1>1, <1>2, <2>1, <2>2, <2>4, WavCutOff, WavStays
  <2> QED
    BY <1>1, <2>5 DEF WavInv, WavWalk
<1>4. file.kind = "caff" => CafInv'
  <2> SUFFICES ASSUME file.kind = "caff" PROVE CafInv'
    OBVIOUS
  <2>1. IsCafFile(file)
    BY <1>2, Kinds
  <2> DEFINE D == Caf!TheData
  <2>2. /\ D \in 1 .. Len(file.chunks) /\ Len(file.chunks) \in Nat /\ 1 \in 1 .. D
        /\ 1 \in 1 .. Len(file.chunks) /\ Caf!Start(1) = 8
    <3>1. D \in 1 .. Len(file.chunks) /\ Len(file.chunks) \in Nat /\ Caf!Start(1) = 8
      BY <2>1, CafChunks, CafLayout
    <3> QED
      BY <3>1
  <2>3. Caf!Body(1) = 20
    BY <2>1, <2>2, CafLayout
  <2>4. size < Caf!Body(1)
    BY <1>1, <1>2, <2>3 DEF Known, GivenInv
  <2>5. ~Caf!WellFormed /\ Caf!WellFormed' = Caf!WellFormed
    BY <1>1, <1>2, <2>1, <2>2, <2>4, CafCutOff, CafStays
  <2> QED
    BY <1>1, <2>5 DEF CafInv, CafWalk
<1>5. ~Known => phase' = "failed" /\ Unread'
  BY <1>1 DEF ReaderInv, Unread
<1> QED
  BY <1>1, <1>2, <1>3, <1>4, <1>5 DEF ReaderInv, GivenVars, IsOfWav, Known

\* Every step leaves the invariant and answers the caller.
LEMMA StepKeeps ==
  ASSUME ReaderInv, Step
  PROVE  /\ ReaderInv' /\ UNCHANGED GivenVars
         /\ \/ UNCHANGED <<position, count, nread>>
            \/ phase = "reading" /\ Answered(FramesInAll)
<1>1. CASE Unsupported
  BY <1>1, UnsupportedStep
<1>2. CASE ReadsWav
  <2>1. IsOfWav /\ GivenInv /\ WavInv /\ Wav!Next
    BY <1>2 DEF ReadsWav, IsRaw, IsWav, IsOfWav, ReaderInv
  <2>2. /\ WavInv' /\ UNCHANGED GivenVars
        /\ \/ UNCHANGED <<position, count, nread>>
           \/ phase = "reading" /\ Answered(Wav!FramesInAll)
    BY <2>1, WavSteps
  <2>3. GivenInv' /\ file' = file
    BY <2>1, <2>2, GivenStays DEF GivenVars
  <2>4. FramesInAll = Wav!FramesInAll /\ Known /\ file.kind # "caff"
    BY <2>1 DEF IsOfWav, FramesInAll, Known
  <2> QED
    BY <2>1, <2>2, <2>3, <2>4 DEF ReaderInv, IsOfWav, Known
<1>3. CASE ReadsCaf
  <2>1. file.kind = "caff" /\ GivenInv /\ CafInv /\ Caf!Next /\ ignore_length' = ignore_length
    BY <1>3 DEF ReadsCaf, IsCaf, ReaderInv
  <2>2. /\ CafInv' /\ UNCHANGED GivenVars
        /\ \/ UNCHANGED <<position, count, nread>>
           \/ phase = "reading" /\ Answered(Caf!FramesInAll)
    BY <2>1, CafSteps
  <2>3. GivenInv' /\ file' = file
    BY <2>1, <2>2, GivenStays DEF GivenVars
  <2>4. FramesInAll = Caf!FramesInAll /\ Known /\ ~IsOfWav
    BY <2>1 DEF IsOfWav, FramesInAll, Known
  <2> QED
    BY <2>1, <2>2, <2>3, <2>4 DEF ReaderInv, IsOfWav, Known
<1> QED
  BY <1>1, <1>2, <1>3 DEF Step

\* So does a step in which nothing happens.
LEMMA StutterKeeps ==
  ASSUME ReaderInv, UNCHANGED vars
  PROVE  ReaderInv'
<1>1. /\ UNCHANGED <<file, size, seekable, faulty, ignore_length>>
      /\ UNCHANGED <<off, position, count, delivered, nread, phase, bpf, length,
                     fmt_seen, data_length, tags>>
  BY DEF vars
<1>2. GivenInv' /\ (Unread => Unread')
  BY <1>1, GivenStays DEF ReaderInv, GivenVars, Unread
<1>3. /\ \A i : Wav!Start(i)' = Wav!Start(i) /\ Wav!Body(i)' = Wav!Body(i)
      /\ \A i : Caf!Start(i)' = Caf!Start(i) /\ Caf!Body(i)' = Caf!Body(i)
      /\ \A i : Caf!StringsFrom(i)' = Caf!StringsFrom(i)
  BY <1>1, WavStays, CafStays
<1>4. WavInv => WavInv'
  <2>1. \A j : FormatBefore(j)' <=> FormatBefore(j)
    BY <1>1 DEF FormatBefore
  <2>2. \A j : WavAt(j)' <=> WavAt(j)
    BY <1>1, <1>3, <2>1, WavStays DEF WavAt
  <2>3. WavLost => WavLost'
    BY <1>1, <1>3 DEF WavLost
  <2>4. WavWalk => WavWalk'
    BY <1>1, <1>2, <1>3, <2>2, <2>3, WavStays DEF WavWalk
  <2>5. WavRagged' = WavRagged
    BY <1>1, WavStays DEF WavRagged
  <2>6. WavLengths => WavLengths'
    BY <1>1, <2>5, WavStays DEF WavLengths
  <2>7. Caller(Wav!FirstByte, Wav!TheFrame, Wav!FramesInAll, WavRagged)
          => Caller(Wav!FirstByte, Wav!TheFrame, Wav!FramesInAll, WavRagged)'
    BY <1>1, <2>5, WavStays DEF Caller
  <2>8. WavReading => WavReading'
    BY <1>1, <2>6, <2>7, WavStays DEF WavReading
  <2> QED
    BY <1>1, <2>4, <2>8 DEF WavInv
<1>5. CafInv => CafInv'
  <2>1. \A j : DescBefore(j)' <=> DescBefore(j)
    BY <1>1 DEF DescBefore
  <2>2. \A j : CafAt(j)' <=> CafAt(j)
    BY <1>1, <1>3, <2>1, CafStays DEF CafAt
  <2>3. CafWalk => CafWalk'
    BY <1>1, <1>2, <2>2, CafStays DEF CafWalk
  <2>4. Caf!Unlimited' = Caf!Unlimited
    BY DEF Caf!Unlimited
  <2>5. CafRagged' = CafRagged /\ StringsBefore' = StringsBefore /\ StringsBehind' = StringsBehind
    BY <1>1, <1>3, <2>4, CafStays DEF CafRagged, StringsBefore, StringsBehind
  <2>6. CafLengths => CafLengths'
    BY <1>1, <2>5, CafStays DEF CafLengths
  <2>7. Caller(Caf!FirstByte, Caf!TheFrame, Caf!FramesInAll, CafRagged)
          => Caller(Caf!FirstByte, Caf!TheFrame, Caf!FramesInAll, CafRagged)'
    BY <1>1, <2>5, CafStays DEF Caller
  <2>8. CafTags(Caf!FirstByte, Caf!TheFrame, Caf!FramesInAll, StringsBefore, StringsBehind)
          => CafTags(Caf!FirstByte, Caf!TheFrame, Caf!FramesInAll, StringsBefore, StringsBehind)'
    BY <1>1, <2>5, CafStays DEF CafTags
  <2>9. CafReading => CafReading'
    BY <1>1, <2>6, <2>7, <2>8, CafStays DEF CafReading
  <2> QED
    BY <1>1, <2>3, <2>9 DEF CafInv
<1>6. (IsOfWav' <=> IsOfWav) /\ (Known' <=> Known)
  BY <1>1 DEF IsOfWav, Known
<1> QED
  BY <1>1, <1>2, <1>4, <1>5, <1>6 DEF ReaderInv

\* A reader to which a file has just been handed has read nothing of it.
LEMMA InitReader ==
  ASSUME Init
  PROVE  ReaderInv
<1>1. CASE Wav!Init /\ tags = <<>>
  <2>1. /\ file \in WavFiles \cup Others /\ size \in 0 .. Wav!FileEnd /\ size < Wav!Unlimited
        /\ seekable \in BOOLEAN /\ faulty \in BOOLEAN
        /\ ignore_length \in (IF file.kind = "raw" THEN {FALSE} ELSE BOOLEAN)
        /\ phase = "open" /\ off = 0 /\ fmt_seen = FALSE
        /\ position = 0 /\ count = 0 /\ delivered = <<>> /\ nread = 1
    BY <1>1 DEF Wav!Init, Wav!FileInit
  <2>2. size \in Nat
    BY <2>1
  <2>3. ignore_length \in BOOLEAN /\ (file.kind = "raw" => ~ignore_length)
    <3>1. CASE file.kind = "raw"
      BY <2>1, <3>1
    <3>2. CASE file.kind # "raw"
      BY <2>1, <3>2
    <3> QED
      BY <3>1, <3>2
  <2>4. GivenInv /\ Unread
    BY <2>1, <2>2, <2>3 DEF GivenInv, Unread
  <2>5. WavInv
    BY <2>1, <2>4 DEF WavInv, WavWalk
  <2>6. file.kind # "caff"
    BY <2>1, FilesAssumption DEF IsWavFile
  <2> QED
    BY <2>1, <2>4, <2>5, <2>6 DEF ReaderInv
<1>2. CASE Caf!Init /\ ignore_length \in BOOLEAN
  <2>1. /\ file \in CafFiles /\ size \in 0 .. Caf!FileEnd /\ size < Wav!Unlimited
        /\ seekable \in BOOLEAN /\ faulty \in BOOLEAN
        /\ phase = "open" /\ off = 0 /\ bpf = 0 /\ tags = <<>>
        /\ position = 0 /\ count = 0 /\ delivered = <<>> /\ nread = 1
    BY <1>2, Bounds DEF Caf!Init, Caf!FileInit
  <2>2. file.kind = "caff"
    BY <2>1, FilesAssumption DEF IsCafFile
  <2>3. size \in Nat
    BY <2>1
  <2>4. GivenInv /\ Unread
    BY <1>2, <2>1, <2>2, <2>3 DEF GivenInv, Unread
  <2>5. CafInv
    BY <2>1, <2>4 DEF CafInv, CafWalk
  <2> QED
    BY <2>2, <2>4, <2>5 DEF ReaderInv, IsOfWav, Known
<1> QED
  BY <1>1, <1>2 DEF Init

\* While frames are read the caller has no more than there are.
LEMMA CallerNow ==
  ASSUME ReaderInv, phase = "reading"
  PROVE  position \in 0 .. FramesInAll /\ count \in 0 .. (Block - 1) /\ nread \in Nat
<1>1. CASE IsOfWav
  <2>1. /\ Caller(Wav!FirstByte, Wav!TheFrame, Wav!FramesInAll, WavRagged)
        /\ FramesInAll = Wav!FramesInAll
    BY <1>1 DEF ReaderInv, WavInv, WavReading, IsOfWav, FramesInAll, Known
  <2> QED
    BY <2>1 DEF Caller
<1>2. CASE file.kind = "caff"
  <2>1. /\ Caller(Caf!FirstByte, Caf!TheFrame, Caf!FramesInAll, CafRagged)
        /\ FramesInAll = Caf!FramesInAll
    BY <1>2 DEF ReaderInv, CafInv, CafReading, FramesInAll, Known
  <2> QED
    BY <2>1 DEF Caller
<1> QED
  BY <1>1, <1>2 DEF ReaderInv, IsOfWav, Known

-----------------------------------------------------------------------------
(***************************************************************************)
(* The theorems.                                                           *)
(***************************************************************************)

\* The invariant holds of every file, wherever it is cut off.
THEOREM ReaderInvAlways == Spec => []ReaderInv
<1>1. Init => ReaderInv
  BY InitReader
<1>2. ReaderInv /\ [Next]_vars => ReaderInv'
  <2> SUFFICES ASSUME ReaderInv, [Next]_vars PROVE ReaderInv'
    OBVIOUS
  <2>1. CASE Step
    BY <2>1, StepKeeps
  <2>2. CASE UNCHANGED vars
    BY <2>2, StutterKeeps
  <2> QED
    BY <2>1, <2>2 DEF Next, Finished
<1> QED
  BY <1>1, <1>2, PTL DEF Spec

\* A file is refused exactly when it is of no known kind, lacks a format before
\* its data, is cut off before its data, or has an info chunk in front of its
\* data that is too short (wav_parse, caf_parse, caf_info).
THEOREM OpensExactlyWellFormed == Spec => []OpensWellFormed
<1>1. ReaderInv => OpensWellFormed
  <2> SUFFICES ASSUME ReaderInv PROVE OpensWellFormed
    OBVIOUS
  <2>1. CASE IsOfWav
    <3>1. WavInv /\ Known /\ file.kind # "caff"
      BY <2>1 DEF ReaderInv, IsOfWav, Known
    <3> QED
      BY <3>1 DEF OpensWellFormed, WavInv, WavWalk, WavReading
  <2>2. CASE file.kind = "caff"
    <3>1. CafInv /\ Known
      BY <2>2 DEF ReaderInv, Known
    <3> QED
      BY <2>2, <3>1 DEF OpensWellFormed, CafInv, CafWalk, CafReading
  <2>3. CASE ~Known
    BY <2>3 DEF ReaderInv, OpensWellFormed
  <2> QED
    BY <2>1, <2>2, <2>3 DEF IsOfWav, Known
<1> QED
  BY <1>1, ReaderInvAlways, PTL

\* The caller gets the frames of the data chunk, from its first one on, each
\* once and in order, and all of them by the time it is told of the end
\* (wav_read_frames, caf_read_frames).
THEOREM AlwaysDeliversTheData == Spec => []DeliversTheData
<1>1. ReaderInv => DeliversTheData
  <2> SUFFICES ASSUME ReaderInv, phase = "reading" PROVE DeliversTheData
    BY DEF DeliversTheData
  <2>1. FramesInAll \in 0 .. Wav!Unlimited
    BY FramesBounded DEF ReaderInv
  <2>2. CASE IsOfWav
    <3>1. /\ Caller(Wav!FirstByte, Wav!TheFrame, Wav!FramesInAll, WavRagged)
          /\ file.kind # "caff" /\ FramesInAll = Wav!FramesInAll
      BY <2>2 DEF ReaderInv, WavInv, WavReading, IsOfWav, FramesInAll, Known
    <3>2. /\ Len(delivered) = position /\ position \in 0 .. FramesInAll
          /\ nread = 0 => position = FramesInAll
          /\ \A k \in 1 .. position : delivered[k] = Wav!FirstByte + (k - 1) * Wav!TheFrame
      BY <3>1 DEF Caller
    <3> QED
      BY <2>1, <3>1, <3>2 DEF DeliversTheData
  <2>3. CASE file.kind = "caff"
    <3>1. /\ Caller(Caf!FirstByte, Caf!TheFrame, Caf!FramesInAll, CafRagged)
          /\ FramesInAll = Caf!FramesInAll
      BY <2>3 DEF ReaderInv, CafInv, CafReading, FramesInAll, Known
    <3>2. /\ Len(delivered) = position /\ position \in 0 .. FramesInAll
          /\ nread = 0 => position = FramesInAll
          /\ \A k \in 1 .. position : delivered[k] = Caf!FirstByte + (k - 1) * Caf!TheFrame
      BY <3>1 DEF Caller
    <3> QED
      BY <2>1, <2>3, <3>1, <3>2 DEF DeliversTheData
  <2> QED
    BY <2>2, <2>3 DEF ReaderInv, IsOfWav, Known
<1> QED
  BY <1>1, ReaderInvAlways, PTL

\* By the end of the data the tags hold the strings of every info chunk that is
\* wholly in the file, in the order of the file and once, but for what comes
\* behind an info chunk that is too short (caf_info, caf_read_frames).
THEOREM TagsAlwaysComplete == Spec => []TagsComplete
<1>1. ReaderInv => TagsComplete
  <2> SUFFICES ASSUME ReaderInv, phase = "reading", file.kind = "caff" PROVE Caf!TagsRead
    BY DEF TagsComplete
  <2>1. /\ IsCafFile(file) /\ GivenInv
        /\ Caller(Caf!FirstByte, Caf!TheFrame, Caf!FramesInAll, CafRagged)
        /\ CafTags(Caf!FirstByte, Caf!TheFrame, Caf!FramesInAll, StringsBefore, StringsBehind)
    BY Kinds DEF ReaderInv, CafInv, CafReading
  <2>2. Caf!FramesInAll \in 0 .. Wav!Unlimited
    BY <2>1, FramesBounded DEF FramesInAll, Known
  <2>3. /\ Len(delivered) = position /\ position \in 0 .. Caf!FramesInAll /\ nread \in Nat
        /\ nread = 0 => position = Caf!FramesInAll
    BY <2>1 DEF Caller
  <2>4. StringsBefore \o <<>> = StringsBefore
    <3>1. StringsBefore \in Seq(Names)
      BY <2>1, StringsAreNames
    <3> QED
      BY <3>1
  <2>5. nread > 0 /\ Len(delivered) < Caf!FramesInAll => tags = StringsBefore
    BY <2>1, <2>2, <2>3 DEF CafTags
  <2>6. nread = 0 => tags = StringsBefore \o StringsBehind
    BY <2>1, <2>4 DEF CafTags
  <2> QED
    BY <2>5, <2>6 DEF Caf!TagsRead, Caf!StringsOf, StringsBefore, StringsBehind
<1> QED
  BY <1>1, ReaderInvAlways, PTL

\* The reader keeps the safety half of the contract of pcm_read_frames(): full
\* blocks of the frames there are in all, and what is left of them at the end.
THEOREM OpenInputKeepsReaderContract == Spec => Contract!Spec
<1> USE BlockAssumption
<1>1. Init => Contract!Init
  <2> SUFFICES ASSUME Init PROVE Contract!Init
    OBVIOUS
  <2>1. FramesInAll \in 0 .. Wav!Unlimited
    BY InitReader, FramesBounded DEF ReaderInv
  <2>2. position = 0 /\ count = 0 /\ nread = 1
    BY DEF Init, Wav!Init, Caf!Init, Wav!FileInit, Caf!FileInit
  <2> QED
    BY <2>1, <2>2 DEF Contract!Init, Contract!ChainLengths
<1>2. ReaderInv /\ ReaderInv' /\ [Next]_vars => [Contract!Next]_(Contract!readerVars)
  <2> SUFFICES ASSUME ReaderInv, ReaderInv', [Next]_vars
               PROVE  [Contract!Next]_(Contract!readerVars)
    OBVIOUS
  <2> DEFINE N == FramesInAll
             left == position - count
  <2>1. CASE UNCHANGED vars
    <3>1. UNCHANGED GivenVars /\ UNCHANGED <<position, count, nread>>
      BY <2>1 DEF vars, GivenVars
    <3>2. N' = N
      BY <3>1, FramesStay
    <3> QED
      BY <3>1, <3>2 DEF Contract!readerVars
  <2>2. CASE Step
    <3>1. /\ UNCHANGED GivenVars
          /\ \/ UNCHANGED <<position, count, nread>>
             \/ phase = "reading" /\ Answered(N)
      BY <2>2, StepKeeps
    <3>2. N' = N /\ N \in 0 .. Wav!Unlimited
      BY <3>1, FramesStay, FramesBounded DEF ReaderInv
    <3>3. CASE UNCHANGED <<position, count, nread>>
      BY <3>2, <3>3 DEF Contract!readerVars
    <3>4. CASE phase = "reading" /\ Answered(N)
      <4>1. position \in 0 .. N /\ count \in 0 .. (Block - 1) /\ nread \in Nat
        BY <3>4, CallerNow
      <4>2. CASE position' - count' = position - count /\ nread' = nread
        BY <3>2, <4>2 DEF Contract!readerVars
      <4>3. CASE /\ nread > 0
                 /\ nread' = IF position - count >= N THEN 0
                             ELSE IF Block < N - (position - count) THEN Block
                             ELSE N - (position - count)
                 /\ position' - count' = (position - count) + nread'
        <5>1. PICK p \in Int, n \in Nat : p = position - count /\ n = N
          BY <3>2, <4>1
        <5>2. nread' = Contract!Counted(Contract!Answer)
          BY <4>3, <5>1 DEF Contract!Counted, Contract!Answer, Contract!Lesser
        <5>3. position' - count' = Contract!Lesser(N, position' - count')
          BY <4>1, <4>3, <5>1 DEF Contract!Lesser
        <5> QED
          BY <3>2, <4>3, <5>2, <5>3 DEF Contract!Next, Contract!ReadFrames
      <4> QED
        BY <3>4, <4>2, <4>3 DEF Answered
    <3> QED
      BY <3>1, <3>3, <3>4
  <2> QED
    BY <2>1, <2>2 DEF Next, Finished
<1> QED
  BY <1>1, <1>2, ReaderInvAlways, PTL DEF Spec, Contract!Spec

\* As many bytes as are there from the first one on are as many frames.
LEMMA Covered ==
  ASSUME NEW first, NEW frame, NEW there, InPlace(first, frame, there),
         NEW b \in Nat, b % frame = 0, first + b <= size
  PROVE  b \div frame <= there
<1>1. /\ first \in Nat /\ frame \in Nat \ {0} /\ there \in Nat /\ size \in Nat
      /\ size - first < there * frame + frame
  BY DEF InPlace
<1>2. PICK q \in Nat : q = b \div frame
  BY <1>1, Division
<1>3. b = q * frame + (b % frame)
  BY <1>1, <1>2, Division
<1>4. q * frame \in Nat /\ there * frame \in Nat /\ (there < q => there * frame + frame <= q * frame)
  BY <1>1, <1>2, Products
<1>5. b = q * frame
  BY <1>3, <1>4
<1>6. ~ (there < q)
  BY <1>1, <1>4, <1>5
<1> QED
  BY <1>1, <1>2, <1>6

\* What is read of a file that neither ends early nor fails, and its length.
LEMMA LengthsKept ==
  ASSUME NEW N, NEW there, NEW stated, NEW len, NEW seeks, NEW ignores, NEW fails, NEW ragged,
         Lengths(N, there, stated, len, seeks, ignores, fails, ragged)
  PROVE  /\ len = Wav!Unlimited <=> ~seeks /\ stated = Wav!Unlimited
         /\ /\ ~fails /\ len >= 0 /\ len # Wav!Unlimited
            /\ stated # Wav!Unlimited => stated <= there
            => N = len
<1>1. /\ N \in Nat /\ there \in Nat /\ stated \in Nat /\ len \in Int
      /\ Wav!Unlimited \in Nat /\ Wav!Unlimited > 0 /\ there < Wav!Unlimited
  BY Bounds DEF Lengths
<1>2. len = Wav!Unlimited <=> ~seeks /\ stated = Wav!Unlimited
  BY <1>1 DEF Lengths
<1>3. ~fails => ~ragged
  BY DEF Lengths
<1>4. ASSUME ~fails, len >= 0, len # Wav!Unlimited,
             stated # Wav!Unlimited => stated <= there
      PROVE  N = len
  <2>1. CASE stated = Wav!Unlimited
    <3>1. len = there
      BY <1>1, <1>4, <2>1 DEF Lengths
    <3>2. N = there
      BY <1>1, <1>3, <1>4, <2>1 DEF Lengths
    <3> QED
      BY <3>1, <3>2
  <2>2. CASE stated # Wav!Unlimited
    BY <1>1, <1>4, <2>2 DEF Lengths
  <2> QED
    BY <2>1, <2>2
<1> QED
  BY <1>2, <1>4

\* The length that is announced beforehand (wav_open, caf_open) is what is read,
\* in a file that is neither cut off nor fails and that does not state more than
\* there is; it is known unless the file is a pipe whose length is not stated.
THEOREM LengthAlwaysKept ==
  ASSUME \A f \in WavFiles : f.kind # "raw" => IsTruthful(f)
  PROVE  Spec => []LengthIsKept
<1> DEFINE U == Wav!Unlimited
<1>1. ASSUME ReaderInv, phase = "reading", IsOfWav
      PROVE  /\ length = U <=> ~seekable /\ Wav!FramesStated = U
             /\ nread = 0 /\ size = Wav!FileEnd /\ ~faulty /\ length # U => position = length
  <2>1. /\ GivenInv /\ WavLengths /\ length \in Nat /\ Wav!WellFormed
        /\ IsWavFile(file) \/ IsRawFile(file)
        /\ Caller(Wav!FirstByte, Wav!TheFrame, Wav!FramesInAll, WavRagged)
    BY <1>1, Kinds DEF ReaderInv, WavInv, WavReading, IsOfWav
  <2>2. nread = 0 => position = Wav!FramesInAll
    BY <2>1 DEF Caller
  <2>3. InPlace(Wav!FirstByte, Wav!TheFrame, Wav!FramesThere) /\ Wav!StatedBytes \in Nat
    BY <2>1, WavSizes DEF InPlace, GivenInv
  <2>4. ASSUME size = Wav!FileEnd, Wav!FramesStated # U
        PROVE  Wav!FramesStated <= Wav!FramesThere
    <3> DEFINE c == file.chunks
               D == Wav!TheData
               b == Wav!StatedBytes
               frame == Wav!TheFrame
    <3>1. b # 0 /\ b % frame = 0 /\ Wav!FramesStated = b \div frame
      BY <2>4 DEF Wav!FramesStated
    <3>2. file.kind # "raw"
      BY <3>1 DEF Wav!StatedBytes
    <3>3. IsWavFile(file) /\ IsTruthful(file)
      <4>1. file \in WavFiles
        BY <1>1, <2>1, <3>2, FilesAssumption DEF IsOfWav, GivenInv, IsCafFile
      <4> QED
        BY <2>1, <3>2, <4>1 DEF IsRawFile
    <3>4. PICK e \in 1 .. Len(c) : c[e].id = "fmt" /\ c[e].value = frame
      <4>1. PICK i \in Wav!Positions("fmt") : i < D
        BY <2>1, <3>2 DEF Wav!WellFormed
      <4> QED
        BY <3>3, <4>1, WavChunks DEF Wav!Positions
    <3>5. /\ D \in 1 .. Len(c) /\ Len(c) \in Nat /\ c[D].id = "data" /\ c[D].length \in Nat
          /\ Wav!FirstByte = Wav!Body(D) /\ Wav!Body(D) = Wav!Start(D) + 8
          /\ b = IF file.kind = "RIFF" THEN c[D].declared ELSE c[1].value
      <4>1. /\ D \in 1 .. Len(c) /\ Len(c) \in Nat /\ c[D].id = "data"
            /\ Wav!FirstByte = Wav!Body(D)
            /\ b = IF file.kind = "RIFF" THEN c[D].declared ELSE c[1].value
        BY <3>3, WavChunks, WavLayout DEF IsWavFile
      <4>2. c[D].length \in Nat /\ Wav!Body(D) = Wav!Start(D) + 8
        BY <3>3, <4>1, WavChunks, WavLayout
      <4> QED
        BY <4>1, <4>2
    <3>6. b <= c[D].length \/ b % c[e].value # 0
      BY <3>3, <3>4, <3>5 DEF IsTruthful
    <3>7. Wav!FirstByte + c[D].length <= size
      <4>1. D \in 1 .. Len(c) + 1 /\ D + 1 \in 1 .. Len(c) + 1 /\ Len(c) + 1 \in 1 .. Len(c) + 1
            /\ (D + 1 = Len(c) + 1 \/ D + 1 < Len(c) + 1)
        BY <3>5
      <4>2. /\ Wav!Start(D) \in Int /\ Wav!Start(D + 1) \in Int /\ Wav!Start(Len(c) + 1) \in Int
            /\ Wav!RoundUp(c[D].length) \in Nat /\ Wav!RoundUp(c[D].length) >= c[D].length
            /\ Wav!Start(D + 1) = Wav!Start(D) + 8 + Wav!RoundUp(c[D].length)
            /\ D + 1 < Len(c) + 1 => Wav!Start(D + 1) + 8 <= Wav!Start(Len(c) + 1)
        BY <3>3, <3>5, <4>1, WavLayout
      <4>3. size = Wav!Start(Len(c) + 1)
        BY <2>4 DEF Wav!FileEnd
      <4>4. Wav!Start(D + 1) <= size
        <5>1. CASE D + 1 = Len(c) + 1
          BY <4>2, <4>3, <5>1
        <5>2. CASE D + 1 < Len(c) + 1
          BY <4>2, <4>3, <5>2
        <5> QED
          BY <4>1, <5>1, <5>2
      <4> HIDE DEF c, D
      <4> QED
        BY <2>1, <3>5, <4>2, <4>4 DEF GivenInv
    <3>8. Wav!FirstByte + b <= size
      <4>1. b <= c[D].length
        BY <3>1, <3>4, <3>6
      <4>2. Wav!FirstByte \in Nat /\ size \in Nat
        BY <2>3 DEF InPlace
      <4> HIDE DEF c, D, b
      <4> QED
        BY <2>3, <3>5, <3>7, <4>1, <4>2 DEF b
    <3> QED
      BY <2>3, <3>1, <3>8, Covered
  <2>5. /\ length = U <=> ~seekable /\ Wav!FramesStated = U
        /\ /\ ~faulty /\ length >= 0 /\ length # U
           /\ Wav!FramesStated # U => Wav!FramesStated <= Wav!FramesThere
           => Wav!FramesInAll = length
    BY <2>1, LengthsKept DEF WavLengths
  <2>6. length >= 0
    BY <2>1
  <2> QED
    BY <2>2, <2>4, <2>5, <2>6
<1>2. ASSUME ReaderInv, phase = "reading", file.kind = "caff"
      PROVE  /\ length = U <=> ~seekable /\ Caf!FramesStated = U
             /\ nread = 0 /\ size = Caf!FileEnd /\ ~faulty /\ length # U => position = length
  <2>1. /\ GivenInv /\ CafLengths /\ Caf!WellFormed /\ IsCafFile(file)
        /\ Caller(Caf!FirstByte, Caf!TheFrame, Caf!FramesInAll, CafRagged)
        /\ length < 0 => size < Caf!FirstByte
    BY <1>2, Kinds DEF ReaderInv, CafInv, CafReading
  <2>2. nread = 0 => position = Caf!FramesInAll
    BY <2>1 DEF Caller
  <2> DEFINE c == file.chunks
             D == Caf!TheData
             b == Caf!StatedBytes
  <2>3. /\ InPlace(Caf!FirstByte, Caf!TheFrame, Caf!FramesThere)
        /\ D \in 1 .. Len(c) /\ Len(c) \in Nat /\ Caf!Start(D) \in Nat
        /\ Caf!FirstByte = Caf!Start(D) + 16
        /\ Caf!Stated => b \in Nat /\ Caf!Start(D + 1) = Caf!FirstByte + b
    BY <2>1, CafSizes, CafLayout
  <2>4. size = Caf!FileEnd => Caf!Start(D + 1) <= size
    <3> SUFFICES ASSUME size = Caf!Start(Len(c) + 1) PROVE Caf!Start(D + 1) <= size
      BY DEF Caf!FileEnd
    <3>1. D + 1 \in 1 .. Len(c) + 1 /\ Len(c) + 1 \in 1 .. Len(c) + 1
          /\ (D + 1 = Len(c) + 1 \/ D + 1 < Len(c) + 1)
      BY <2>3
    <3>2. /\ Caf!Start(D + 1) \in Int /\ Caf!Start(Len(c) + 1) \in Int
          /\ D + 1 < Len(c) + 1 => Caf!Start(D + 1) + 12 <= Caf!Start(Len(c) + 1)
      BY <2>1, <3>1, CafLayout
    <3>3. CASE D + 1 = Len(c) + 1
      BY <3>2, <3>3
    <3>4. CASE D + 1 < Len(c) + 1
      BY <3>2, <3>4
    <3> QED
      BY <3>1, <3>3, <3>4
  <2>5. size = Caf!FileEnd => length >= 0
    <3>1. c[D].length \in Nat /\ c[D].length >= 4 /\ Caf!Start(D + 1) = Caf!Start(D) + 12 + c[D].length
      BY <2>1, <2>3, CafChunks, CafUnpadded
    <3>2. size \in Nat /\ length \in Int
      BY <2>1 DEF GivenInv, CafLengths, Lengths
    <3> HIDE DEF c, D
    <3> QED
      BY <2>1, <2>3, <2>4, <3>1, <3>2
  <2>6. ASSUME size = Caf!FileEnd, Caf!FramesStated # U
        PROVE  Caf!FramesStated <= Caf!FramesThere
    <3>1. Caf!Stated /\ b % Caf!TheFrame = 0 /\ Caf!FramesStated = b \div Caf!TheFrame
      BY <2>6, Bounds DEF Caf!FramesStated
    <3>2. b \in Nat /\ Caf!FirstByte + b <= size
      BY <2>3, <2>4, <2>6, <3>1
    <3> QED
      BY <2>3, <3>1, <3>2, Covered
  <2>7. PICK ignores : ignores = FALSE
    OBVIOUS
  <2>8. /\ length = U <=> ~seekable /\ Caf!FramesStated = U
        /\ /\ ~faulty /\ length >= 0 /\ length # U
           /\ Caf!FramesStated # U => Caf!FramesStated <= Caf!FramesThere
           => Caf!FramesInAll = length
    <3>1. Lengths(Caf!FramesInAll, Caf!FramesThere, Caf!FramesStated, length,
                  seekable, ignores, faulty, CafRagged)
      BY <2>1, <2>7 DEF CafLengths
    <3> QED
      BY <3>1, LengthsKept
  <2> QED
    BY <2>2, <2>5, <2>6, <2>8
<1>3. ReaderInv => LengthIsKept
  <2> SUFFICES ASSUME ReaderInv, phase = "reading" PROVE LengthIsKept
    BY DEF LengthIsKept
  <2>1. CASE IsOfWav
    <3>1. file.kind # "caff"
      BY <2>1 DEF IsOfWav
    <3> QED
      BY <1>1, <2>1, <3>1 DEF LengthIsKept
  <2>2. CASE file.kind = "caff"
    BY <1>2, <2>2 DEF LengthIsKept
  <2> QED
    BY <2>1, <2>2 DEF ReaderInv, IsOfWav, Known
<1> QED
  BY <1>3, ReaderInvAlways, PTL
=============================================================================
