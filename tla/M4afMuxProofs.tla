--------------------------- MODULE M4afMuxProofs ---------------------------
(***************************************************************************)
(* Proofs about M4afMux, for all sizes and numbers of samples, lengths of  *)
(* chunks, sizes of boxes and of the block that is moved, and every limit  *)
(* of the 32-bit fields; and at the end about the bitrates of BoxWriters.  *)
(***************************************************************************)
EXTENDS M4afMux, BoxWriters, Induction, SequenceTheorems

(***************************************************************************)
(* The inductive invariant.                                                *)
(***************************************************************************)
Kinds == {"size", "longsize", "data", "body", "hole", "ftyp", "free", "mdat", "moov"}
Cells == [kind : Kinds, n : Nat, k : Nat]
Chunks == [offset : Nat, size : Nat, samples_per_chunk : Nat, duration : Nat]

DataStart == FtypSize + 2 * HeaderSize

\* What moov and the free box behind it take when they are in front.
FrontSize == MoovSize(chunk_table) + Reserve

Steps == {"create", "open", "mdat", "moov", "patch", "shift", "front", "return", "end"}

\* The types of the variables, and the places that do not depend on success.
TypeInv ==
  /\ pc \in Steps
  /\ optimize \in BOOLEAN /\ last_error \in BOOLEAN /\ ferror \in BOOLEAN
  /\ mdat_pos \in Nat /\ mdat_size \in Nat /\ fpos \in Nat
  /\ shift \in Nat /\ end \in Nat
  /\ sample_table \in Seq(Nat)
  /\ chunk_table \in Seq(Chunks)
  /\ chunk_buffer \in Seq(Cells)
  /\ file \in Seq(Cells)
  /\ result \in {-1, 0}
  /\ pc # "create" => mdat_pos >= DataStart
  /\ pc = "shift" => shift = FrontSize
  /\ pc = "front" => mdat_pos >= DataStart + FrontSize

\* An error that anyone noticed is one that main() is told of.
ErrorInv ==
  /\ ferror => last_error
  /\ pc = "end" => (result = 0 <=> ~last_error)
  /\ pc # "end" => result = -1

Begins == Sums(sample_table)
Counts(list) == [c \in 1 .. Len(list) |-> list[c].samples_per_chunk]
Before == Sums(Counts(chunk_table))

\* The chunks share out the samples, and none is without any.
SharesInv ==
  /\ Before[Len(chunk_table)] = Len(sample_table)
  /\ \A c \in 1 .. Len(chunk_table) :
       /\ chunk_table[c].samples_per_chunk >= 1
       /\ chunk_table[c].size = Begins[Before[c]] - Begins[Before[c - 1]]

\* Only the last sample may be empty, and something is written before mdat ends.
SampleInv ==
  /\ \A s \in 1 .. (Len(sample_table) - 1) : sample_table[s] > 0
  /\ pc = "create" => sample_table = <<>>
  /\ pc \notin {"create", "open", "end"} => chunk_table # <<>>

ChunkInv == SharesInv /\ SampleInv

MdatBegin == IF pc = "shift" THEN mdat_pos + shift ELSE mdat_pos

\* Every chunk that was written has its offset.
Placed(c) == c < Len(chunk_table) \/ (pc # "open" /\ chunk_table[c].size > 0)

OffsetInv ==
  pc # "create" /\ ~last_error =>
    /\ \A c \in 1 .. Len(chunk_table) :
         Placed(c) => chunk_table[c].offset = MdatBegin + Begins[Before[c - 1]]
    /\ mdat_size + Len(chunk_buffer) = Begins[Len(sample_table)]
    /\ pc = "open" => mdat_size = IF chunk_table = <<>> THEN 0
                                  ELSE Begins[Before[Len(chunk_table) - 1]]
    /\ pc # "open" => chunk_buffer = <<>>

\* The i-th cell of the content of mdat: written, or still in the buffer.
ContentCell(i) ==
  IF i > mdat_size THEN chunk_buffer[i - mdat_size]
  ELSE IF pc = "shift" /\ mdat_pos + i > end THEN file[mdat_pos + shift + i]
  ELSE file[mdat_pos + i]

ContentInv ==
  pc # "create" /\ ~last_error =>
    \A s \in 1 .. Len(sample_table) : \A k \in 1 .. sample_table[s] :
      ContentCell(Begins[s - 1] + k) = Data(s, k)

FreeAt(pos, size) == file[pos + 1] = Size(size) /\ file[pos + 2] = Type("free")

\* The header of mdat before and after m4af_finalize_mdat().
OpenHeader ==
  FreeAt(mdat_pos - LongHeaderSize, HeaderSize) /\ file[mdat_pos] = Type("mdat")

ClosedHeader ==
  IF IsLong
    THEN /\ file[mdat_pos - 3] = Size(1)
         /\ file[mdat_pos - 2] = Type("mdat")
         /\ file[mdat_pos - 1] = LongSize(mdat_size + LongHeaderSize)
    ELSE /\ FreeAt(mdat_pos - LongHeaderSize, HeaderSize)
         /\ file[mdat_pos - 1] = Size(mdat_size + HeaderSize)
         /\ file[mdat_pos] = Type("mdat")

MoovAt(pos, version) ==
  /\ file[pos + 1] = Size(MoovSize(chunk_table))
  /\ file[pos + 2] = Type("moov")
  /\ \A k \in 1 .. (MoovSize(chunk_table) - HeaderSize) : file[pos + 2 + k] = Body(version, k)

\* The boxes of the file at each step, if nothing failed so far.
Layout ==
  /\ FileEnd >= DataStart /\ file[1] = Size(FtypSize) /\ file[2] = Type("ftyp")
  /\ pc \in {"open", "mdat", "moov", "patch", "shift"} => mdat_pos = DataStart
  /\ pc \in {"open", "mdat"} => OpenHeader /\ FileEnd = mdat_pos + mdat_size
  /\ pc \in {"open", "moov"} => fpos = mdat_pos + mdat_size
  /\ pc \in {"open", "mdat", "moov"} => moovs = <<>>
  /\ pc \in {"patch", "shift", "front"} => moovs = <<moovs[1]>> /\ optimize
  /\ pc = "moov" => ClosedHeader /\ FileEnd = mdat_pos + mdat_size
  /\ pc = "patch" => FileEnd = mdat_pos + mdat_size + MoovSize(chunk_table)
  /\ pc = "shift" => /\ end \in mdat_pos .. (mdat_pos + mdat_size)
                     /\ FileEnd >= mdat_pos + mdat_size
                     /\ FileEnd <= mdat_pos + mdat_size + shift
                     /\ end < mdat_pos + mdat_size => FileEnd = mdat_pos + mdat_size + shift
  /\ pc = "front" => /\ mdat_pos = DataStart + FrontSize
                     /\ ClosedHeader
                     /\ FileEnd = mdat_pos + mdat_size
  /\ pc \in {"return", "end"} =>
       /\ ClosedHeader
       /\ moovs # <<>> /\ moovs[Len(moovs)] = Tables(chunk_table)
       /\ IF optimize
            THEN /\ mdat_pos = DataStart + FrontSize
                 /\ FileEnd = mdat_pos + mdat_size
                 /\ MoovAt(FtypSize, Len(moovs))
                 /\ FreeAt(FtypSize + MoovSize(chunk_table), Reserve)
            ELSE /\ mdat_pos = DataStart
                 /\ FileEnd = mdat_pos + mdat_size + MoovSize(chunk_table)
                 /\ MoovAt(mdat_pos + mdat_size, Len(moovs))

LayoutInv ==
  /\ pc = "create" => /\ file = <<>> /\ moovs = <<>>
                      /\ mdat_size = 0 /\ chunk_buffer = <<>> /\ chunk_table = <<>>
  /\ pc # "create" /\ ~last_error => Layout

-----------------------------------------------------------------------------
(***************************************************************************)
(* Sums().                                                                 *)
(***************************************************************************)
\* The function that Sums() is defined to be exists: its values follow each
\* other from 0 on.
LEMMA SumsExist ==
  ASSUME NEW s \in Seq(Nat)
  PROVE  \E g \in [0 .. Len(s) -> Nat] :
           g = [i \in 0 .. Len(s) |-> IF i = 0 THEN 0 ELSE g[i - 1] + s[i]]
<1> DEFINE n == Len(s)
           Goes(g, k) == g[0] = 0 /\ \A i \in 1 .. k : g[i] = g[i - 1] + s[i]
           T == {k \in Nat : \E g \in [0 .. k -> Nat] : Goes(g, k)}
<1>0. n \in Nat /\ \A i \in 1 .. n : s[i] \in Nat
  BY LenProperties, ElementOfSeq
<1> HIDE DEF n
<1>1. 0 \in T
  <2>1. [i \in 0 .. 0 |-> 0] \in [0 .. 0 -> Nat] /\ Goes([i \in 0 .. 0 |-> 0], 0)
    OBVIOUS
  <2> QED
    BY <2>1
<1>2. ASSUME NEW k \in 0 .. (n - 1), k \in T PROVE k + 1 \in T
  <2>1. PICK g \in [0 .. k -> Nat] : Goes(g, k)
    BY <1>2
  <2> DEFINE h == [i \in 0 .. (k + 1) |-> IF i = k + 1 THEN g[k] + s[k + 1] ELSE g[i]]
  <2>2. k \in Nat /\ k + 1 \in 1 .. n /\ g[k] \in Nat /\ s[k + 1] \in Nat
    BY <1>0
  <2>3. h \in [0 .. (k + 1) -> Nat]
    BY <2>2
  <2>4. h[0] = 0
    BY <2>1, <2>2
  <2>5. ASSUME NEW i \in 1 .. (k + 1) PROVE h[i] = h[i - 1] + s[i]
    <3>1. CASE i = k + 1
      BY <3>1, <2>2
    <3>2. CASE i # k + 1
      <4>1. i \in 1 .. k /\ i - 1 \in 0 .. k
        BY <3>2, <2>2
      <4>2. h[i] = g[i] /\ h[i - 1] = g[i - 1]
        BY <4>1, <2>2
      <4> QED
        BY <4>1, <4>2, <2>1
    <3> QED
      BY <3>1, <3>2
  <2>6. \E f \in [0 .. (k + 1) -> Nat] : Goes(f, k + 1)
    <3> HIDE DEF h
    <3> QED
      BY <2>3, <2>4, <2>5
  <2>7. k + 1 \in Nat
    BY <2>2
  <2> HIDE DEF Goes
  <2> QED
    BY <2>6, <2>7
<1>3. n \in T
  <2> HIDE DEF T
  <2>1. \A i \in 0 .. n : i \in T
    BY <1>0, <1>1, <1>2, UpTo
  <2> QED
    BY <1>0, <2>1
<1>4. PICK g \in [0 .. n -> Nat] : Goes(g, n)
  BY <1>3
<1>5. g = [i \in 0 .. n |-> IF i = 0 THEN 0 ELSE g[i - 1] + s[i]]
  BY <1>4
<1> QED
  BY <1>5 DEF n

\* The recursion of Sums(), unfolded.
LEMMA SumsDef ==
  ASSUME NEW s \in Seq(Nat)
  PROVE  /\ Sums(s) \in [0 .. Len(s) -> Nat]
         /\ Sums(s)[0] = 0
         /\ \A i \in 1 .. Len(s) : Sums(s)[i] = Sums(s)[i - 1] + s[i]
<1> DEFINE n == Len(s)
           sum == Sums(s)
<1>0. n \in Nat /\ \A i \in 1 .. n : s[i] \in Nat
  BY LenProperties, ElementOfSeq
<1>1. sum = [i \in 0 .. n |-> IF i = 0 THEN 0 ELSE sum[i - 1] + s[i]]
  BY SumsExist DEF Sums
<1> HIDE DEF n, sum
<1>2. sum[0] = 0
  BY <1>0, <1>1
<1>3. ASSUME NEW i \in 1 .. n PROVE sum[i] = sum[i - 1] + s[i]
  BY <1>0, <1>1
<1> DEFINE T == {i \in Nat : sum[i] \in Nat}
<1>4. \A i \in 0 .. n : i \in T
  <2>1. 0 \in T
    BY <1>2
  <2>2. ASSUME NEW i \in 0 .. (n - 1), i \in T PROVE i + 1 \in T
    <3>1. i + 1 \in 1 .. n /\ (i + 1) - 1 = i /\ i \in Nat
      BY <1>0
    <3>2. sum[i + 1] = sum[i] + s[i + 1]
      BY <3>1, <1>3
    <3> QED
      BY <3>1, <3>2, <1>0, <2>2
  <2> HIDE DEF T
  <2> QED
    BY <1>0, <2>1, <2>2, UpTo
<1>5. sum \in [0 .. n -> Nat]
  BY <1>1, <1>4
<1> QED
  BY <1>2, <1>3, <1>5 DEF n, sum

\* Sums never shrink.
LEMMA SumsGrow ==
  ASSUME NEW s \in Seq(Nat), NEW i \in 0 .. Len(s), NEW j \in i .. Len(s)
  PROVE  Sums(s)[i] <= Sums(s)[j]
<1> DEFINE n == Len(s)
           sum == Sums(s)
           T == {d \in Nat : i + d <= n => sum[i] <= sum[i + d]}
<1>0. n \in Nat /\ \A k \in 1 .. n : s[k] \in Nat
  BY LenProperties, ElementOfSeq
<1>1. /\ sum \in [0 .. n -> Nat]
      /\ \A k \in 1 .. n : sum[k] = sum[k - 1] + s[k]
  BY SumsDef
<1>2. i \in 0 .. n /\ j \in i .. n
  OBVIOUS
<1> HIDE DEF n, sum
<1>3. 0 \in T
  BY <1>1, <1>2, <1>0
<1>4. ASSUME NEW d \in 0 .. (n - 1), d \in T PROVE d + 1 \in T
  <2>1. d \in Nat /\ i \in Nat
    BY <1>0, <1>2
  <2>2. CASE i + (d + 1) <= n
    <3>1. i + (d + 1) \in 1 .. n /\ (i + (d + 1)) - 1 = i + d /\ i + d \in 0 .. n
      BY <2>1, <2>2, <1>0
    <3>2. sum[i + (d + 1)] = sum[i + d] + s[i + (d + 1)]
      BY <3>1, <1>1
    <3>3. sum[i] \in Nat /\ sum[i + d] \in Nat /\ s[i + (d + 1)] \in Nat
      BY <3>1, <1>0, <1>1, <1>2
    <3>4. sum[i] <= sum[i + d]
      BY <1>4, <3>1
    <3> QED
      BY <2>1, <3>2, <3>3, <3>4
  <2>3. CASE ~ (i + (d + 1) <= n)
    BY <2>1, <2>3
  <2> QED
    BY <2>2, <2>3
<1>5. j - i \in 0 .. n /\ i + (j - i) = j /\ j <= n
  BY <1>0, <1>2
<1>6. j - i \in T
  <2> HIDE DEF T
  <2> QED
    BY <1>0, <1>3, <1>4, <1>5, UpTo
<1> QED
  BY <1>5, <1>6 DEF n, sum

\* The sums of two sequences agree as far as the sequences do.
LEMMA SumsAgree ==
  ASSUME NEW s \in Seq(Nat), NEW t \in Seq(Nat), NEW n \in Nat,
         n <= Len(s), n <= Len(t), \A i \in 1 .. n : s[i] = t[i]
  PROVE  \A i \in 0 .. n : Sums(s)[i] = Sums(t)[i]
<1> DEFINE T == {i \in Nat : Sums(s)[i] = Sums(t)[i]}
<1>1. Len(s) \in Nat /\ Len(t) \in Nat
  BY LenProperties
<1>2. 0 \in T
  BY SumsDef
<1>3. ASSUME NEW i \in 0 .. (n - 1), i \in T PROVE i + 1 \in T
  <2>1. /\ i + 1 \in 1 .. n /\ i + 1 \in 1 .. Len(s) /\ i + 1 \in 1 .. Len(t)
        /\ (i + 1) - 1 = i /\ i + 1 \in Nat
    BY <1>1
  <2>2. Sums(s)[i + 1] = Sums(s)[i] + s[i + 1] /\ Sums(t)[i + 1] = Sums(t)[i] + t[i + 1]
    BY <2>1, SumsDef
  <2> QED
    BY <2>1, <2>2, <1>3
<1> HIDE DEF T
<1>4. \A i \in 0 .. n : i \in T
  BY <1>2, <1>3, UpTo
<1> QED
  BY <1>4 DEF T

-----------------------------------------------------------------------------
(***************************************************************************)
(* Cells, sequences of them, and the tables.                               *)
(***************************************************************************)
\* A function on 1 .. n is a sequence of length n.
LEMMA FunctionIsSeq ==
  ASSUME NEW S, NEW n \in Nat, NEW f \in [1 .. n -> S]
  PROVE  f \in Seq(S) /\ Len(f) = n
<1>1. f \in Seq(S)
  BY SeqDef
<1>2. Len(f) \in Nat /\ DOMAIN f = 1 .. Len(f) /\ DOMAIN f = 1 .. n
  BY <1>1, LenProperties
<1>3. n = 0 \/ n \in 1 .. Len(f)
  BY <1>2
<1>4. Len(f) = 0 \/ Len(f) \in 1 .. n
  BY <1>2
<1> QED
  BY <1>1, <1>2, <1>3, <1>4

\* A sequence of one element, and one more.
LEMMA OneMore ==
  ASSUME NEW S, NEW t \in S, NEW u \in S, NEW s, s = <<t>>
  PROVE  Len(s) = 1 /\ Append(s, u) = <<t, u>>
<1>1. s \in Seq(S) /\ Len(s) = 1 /\ s[1] = t
  OBVIOUS
<1> DEFINE a == Append(s, u)
           b == <<t, u>>
<1>2. a \in Seq(S) /\ Len(a) = 2 /\ a[2] = u
  <2>1. s \in Seq(S) /\ Len(s) + 1 = 2
    BY <1>1
  <2> QED
    BY ONLY <2>1, AppendProperties, u \in S
<1>3. a[1] = s[1]
  <2>1. ASSUME NEW r \in Seq(S), NEW i \in 1 .. Len(r) PROVE Append(r, u)[i] = r[i]
    OBVIOUS
  <2>2. 1 \in 1 .. Len(s)
    BY <1>1
  <2> QED
    BY <1>1, <2>1, <2>2
<1>4. b \in Seq(S) /\ Len(b) = 2 /\ b[1] = t /\ b[2] = u
  OBVIOUS
<1> HIDE DEF a, b
<1>5. \A i \in 1 .. Len(a) : a[i] = b[i]
  BY <1>1, <1>2, <1>3, <1>4
<1>6. a = b
  BY ONLY <1>2, <1>4, <1>5, SeqEqual
<1> QED
  BY <1>1, <1>6 DEF a, b

\* Two sequences, one after the other.
LEMMA Joined ==
  ASSUME NEW s \in Seq(Cells), NEW t \in Seq(Cells)
  PROVE  /\ s \o t \in Seq(Cells) /\ Len(s \o t) = Len(s) + Len(t)
         /\ \A i \in 1 .. Len(s) : (s \o t)[i] = s[i]
         /\ \A i \in 1 .. Len(t) : (s \o t)[Len(s) + i] = t[i]
<1>1. Len(s) \in Nat /\ Len(t) \in Nat
  BY LenProperties
<1>2. /\ s \o t \in Seq(Cells) /\ Len(s \o t) = Len(s) + Len(t)
      /\ \A i \in 1 .. Len(s) + Len(t) :
           (s \o t)[i] = IF i <= Len(s) THEN s[i] ELSE t[i - Len(s)]
  BY ConcatProperties
<1>3. ASSUME NEW i \in 1 .. Len(s) PROVE (s \o t)[i] = s[i]
  <2>1. i \in 1 .. Len(s) + Len(t) /\ i <= Len(s)
    BY <1>1
  <2> QED
    BY <1>2, <2>1
<1>4. ASSUME NEW i \in 1 .. Len(t) PROVE (s \o t)[Len(s) + i] = t[i]
  <2>1. /\ Len(s) + i \in 1 .. Len(s) + Len(t)
        /\ ~ (Len(s) + i <= Len(s)) /\ (Len(s) + i) - Len(s) = i
    BY <1>1
  <2> QED
    BY <1>2, <2>1
<1> QED
  BY <1>2, <1>3, <1>4

\* The cells that the model writes.
LEMMA CellType ==
  ASSUME NEW n \in Nat, NEW k \in Nat
  PROVE  /\ Size(n) \in Cells /\ LongSize(n) \in Cells
         /\ Data(n, k) \in Cells /\ Body(n, k) \in Cells /\ Hole \in Cells
         /\ Type("ftyp") \in Cells /\ Type("free") \in Cells
         /\ Type("mdat") \in Cells /\ Type("moov") \in Cells
BY DEF Cells, Kinds, Cell, Size, LongSize, Data, Body, Hole, Type

\* Writing cells at a position changes them and no others.
LEMMA PutProperties ==
  ASSUME NEW f \in Seq(Cells), NEW cells \in Seq(Cells), NEW pos \in Nat
  PROVE  /\ Put(f, pos, cells) \in Seq(Cells)
         /\ Len(Put(f, pos, cells)) =
              IF pos + Len(cells) < Len(f) THEN Len(f) ELSE pos + Len(cells)
         /\ \A k \in 1 .. Len(cells) : Put(f, pos, cells)[pos + k] = cells[k]
         /\ \A k \in 1 .. Len(f) :
              k <= pos \/ k > pos + Len(cells) => Put(f, pos, cells)[k] = f[k]
<1> DEFINE last == pos + Len(cells)
           size == IF last < Len(f) THEN Len(f) ELSE last
           put == [k \in 1 .. size |->
                     IF k - pos \in 1 .. Len(cells) THEN cells[k - pos]
                     ELSE IF k <= Len(f) THEN f[k] ELSE Hole]
<1>1. /\ Len(f) \in Nat /\ Len(cells) \in Nat
      /\ \A k \in 1 .. Len(f) : f[k] \in Cells
      /\ \A k \in 1 .. Len(cells) : cells[k] \in Cells
  BY LenProperties, ElementOfSeq
<1>2. size \in Nat /\ last \in Nat /\ last <= size /\ Len(f) <= size
  BY <1>1
<1>3. Hole \in Cells
  BY CellType
<1>4. Put(f, pos, cells) = put
  BY DEF Put
<1> HIDE DEF last, size
<1>5. put \in [1 .. size -> Cells]
  BY <1>1, <1>2, <1>3
<1>6. ASSUME NEW k \in 1 .. Len(cells) PROVE put[pos + k] = cells[k]
  <2>1. pos + k \in 1 .. size /\ (pos + k) - pos = k
    BY <1>1, <1>2 DEF last
  <2> QED
    BY <2>1
<1>7. ASSUME NEW k \in 1 .. Len(f), k <= pos \/ k > last PROVE put[k] = f[k]
  <2>1. k \in 1 .. size /\ k - pos \notin 1 .. Len(cells) /\ k <= Len(f)
    BY <1>1, <1>2, <1>7 DEF last
  <2> QED
    BY <2>1
<1> HIDE DEF put
<1>8. put \in Seq(Cells) /\ Len(put) = size
  BY <1>2, <1>5, FunctionIsSeq
<1> QED
  BY <1>4, <1>6, <1>7, <1>8 DEF last, size

\* What is read from the file.
LEMMA GetProperties ==
  ASSUME NEW f \in Seq(Cells), NEW pos \in Nat, NEW limit \in Nat, pos <= limit
  PROVE  /\ Get(f, pos, limit) \in Seq(Cells)
         /\ Len(Get(f, pos, limit)) = limit - pos
         /\ \A k \in 1 .. (limit - pos) :
              pos + k <= Len(f) => Get(f, pos, limit)[k] = f[pos + k]
<1>1. Len(f) \in Nat /\ \A k \in 1 .. Len(f) : f[k] \in Cells
  BY LenProperties, ElementOfSeq
<1>2. Hole \in Cells
  BY CellType
<1>3. limit - pos \in Nat
  OBVIOUS
<1>4. Get(f, pos, limit) \in [1 .. (limit - pos) -> Cells]
  BY <1>1, <1>2, <1>3 DEF Get
<1> QED
  BY <1>1, <1>3, <1>4, FunctionIsSeq DEF Get

LEMMA SampleDataProperties ==
  ASSUME NEW s \in Nat, NEW size \in Nat
  PROVE  /\ SampleData(s, size) \in Seq(Cells)
         /\ Len(SampleData(s, size)) = size
         /\ \A k \in 1 .. size : SampleData(s, size)[k] = Data(s, k)
<1>1. \A k \in 1 .. size : Data(s, k) \in Cells
  BY CellType
<1>2. SampleData(s, size) \in [1 .. size -> Cells]
  BY <1>1 DEF SampleData
<1> QED
  BY <1>2, FunctionIsSeq DEF SampleData

\* The size of a moov box is that of its tables.
LEMMA MoovSizeType ==
  ASSUME NEW list \in Seq(Chunks), sample_table \in Seq(Nat)
  PROVE  MoovSize(list) \in Nat /\ MoovSize(list) >= MoovBase
<1> DEFINE n == Len(list)
           E == StscEntries(list)
           w == IF IsCo64(list) THEN 2 ELSE 1
<1>1. n \in Nat /\ Len(sample_table) \in Nat
  BY LenProperties
<1>2. Cardinality(E) \in Nat
  <2>1. IsFiniteSet(1 .. n) /\ E \subseteq 1 .. n
    BY <1>1, FS_Interval DEF StscEntries
  <2> HIDE DEF E
  <2> QED
    BY <2>1, FS_Subset, FS_CardinalityType
<1>3. w \in Nat
  OBVIOUS
<1> HIDE DEF n, E, w
<1>4. n * w \in Nat
  BY <1>1, <1>3
<1>5. MoovSize(list) = MoovBase + Len(sample_table) + 3 * Cardinality(E) + n * w
  BY DEF MoovSize, n, E, w
<1> QED
  BY <1>1, <1>2, <1>4, <1>5, LayoutAssumption

\* A moov box is as long as it says.
LEMMA MoovBoxProperties ==
  ASSUME NEW list \in Seq(Chunks), sample_table \in Seq(Nat), NEW version \in Nat
  PROVE  /\ MoovBox(list, version) \in Seq(Cells)
         /\ Len(MoovBox(list, version)) = MoovSize(list)
         /\ MoovBox(list, version)[1] = Size(MoovSize(list))
         /\ MoovBox(list, version)[2] = Type("moov")
         /\ \A k \in 1 .. (MoovSize(list) - HeaderSize) :
              MoovBox(list, version)[HeaderSize + k] = Body(version, k)
<1> DEFINE size == MoovSize(list)
           head == <<Size(size), Type("moov")>>
           body == [k \in 1 .. (size - HeaderSize) |-> Body(version, k)]
<1>1. size \in Nat /\ size - HeaderSize \in Nat
  BY MoovSizeType, LayoutAssumption DEF HeaderSize
<1> HIDE DEF size
<1>2. Size(size) \in Cells /\ Type("moov") \in Cells
  BY <1>1, CellType
<1>3. head \in Seq(Cells) /\ Len(head) = 2
  BY <1>2
<1>4. \A k \in 1 .. (size - HeaderSize) : Body(version, k) \in Cells
  BY <1>1, CellType
<1>5. body \in [1 .. (size - HeaderSize) -> Cells]
  BY <1>4
<1>6. /\ body \in Seq(Cells) /\ Len(body) = size - HeaderSize
      /\ \A k \in 1 .. (size - HeaderSize) : body[k] = Body(version, k)
  <2>1. \A k \in 1 .. (size - HeaderSize) : body[k] = Body(version, k)
    OBVIOUS
  <2> HIDE DEF body
  <2> QED
    BY <1>1, <1>5, <2>1, FunctionIsSeq
<1>7. MoovBox(list, version) = head \o body
  BY DEF MoovBox, size
<1>8. head[1] = Size(size) /\ head[2] = Type("moov")
  OBVIOUS
<1> HIDE DEF head, body
<1>9. /\ head \o body \in Seq(Cells) /\ Len(head \o body) = 2 + (size - HeaderSize)
      /\ \A i \in 1 .. 2 : (head \o body)[i] = head[i]
      /\ \A i \in 1 .. (size - HeaderSize) : (head \o body)[2 + i] = body[i]
  <2>1. /\ head \o body \in Seq(Cells) /\ Len(head \o body) = Len(head) + Len(body)
        /\ \A i \in 1 .. Len(head) : (head \o body)[i] = head[i]
        /\ \A i \in 1 .. Len(body) : (head \o body)[Len(head) + i] = body[i]
    BY <1>3, <1>6, Joined
  <2> QED
    BY <1>3, <1>6, <2>1
<1>10. Len(head \o body) = size
  BY <1>1, <1>9 DEF HeaderSize
<1>11. (head \o body)[1] = Size(size) /\ (head \o body)[2] = Type("moov")
  <2>1. 1 \in 1 .. 2 /\ 2 \in 1 .. 2
    OBVIOUS
  <2> QED
    BY <1>8, <1>9, <2>1
<1>12. \A k \in 1 .. (size - HeaderSize) : (head \o body)[HeaderSize + k] = Body(version, k)
  BY <1>6, <1>9 DEF HeaderSize
<1> QED
  BY <1>7, <1>9, <1>10, <1>11, <1>12 DEF size

LEMMA FreeBoxProperties ==
  ASSUME NEW size \in Nat
  PROVE  /\ FreeBox(size) \in Seq(Cells) /\ Len(FreeBox(size)) = 2
         /\ FreeBox(size)[1] = Size(size) /\ FreeBox(size)[2] = Type("free")
<1>1. Size(size) \in Cells /\ Type("free") \in Cells
  BY CellType
<1> QED
  BY <1>1 DEF FreeBox

\* The header of mdat: four cells, or the one that is filled in.
LEMMA MdatHeaderProperties ==
  ASSUME NEW pos \in Nat, pos >= DataStart, mdat_size \in Nat
  PROVE  /\ MdatHeader(pos).cells \in Seq(Cells)
         /\ MdatHeader(pos).pos \in Nat
         /\ IsLong => /\ MdatHeader(pos).pos = pos - 4
                      /\ Len(MdatHeader(pos).cells) = 4
                      /\ MdatHeader(pos).cells[1] = Size(1)
                      /\ MdatHeader(pos).cells[2] = Type("mdat")
                      /\ MdatHeader(pos).cells[3] = LongSize(mdat_size + LongHeaderSize)
         /\ ~IsLong => /\ MdatHeader(pos).pos = pos - 2
                       /\ Len(MdatHeader(pos).cells) = 1
                       /\ MdatHeader(pos).cells[1] = Size(mdat_size + HeaderSize)
<1>1. Size(1) \in Cells /\ Type("mdat") \in Cells /\ Hole \in Cells
  BY CellType
<1>2. LongSize(mdat_size + LongHeaderSize) \in Cells
  BY CellType DEF LongHeaderSize
<1>3. pos - 4 \in Nat /\ pos - 2 \in Nat
  BY DEF DataStart, FtypSize, HeaderSize
<1>4. CASE IsLong
  <2> DEFINE c == <<Size(1), Type("mdat"), LongSize(mdat_size + LongHeaderSize), Hole>>
  <2>1. MdatHeader(pos).pos = pos - 4 /\ MdatHeader(pos).cells = c
    BY <1>4 DEF MdatHeader, LongHeaderSize
  <2>2. /\ c \in Seq(Cells) /\ Len(c) = 4 /\ c[1] = Size(1) /\ c[2] = Type("mdat")
        /\ c[3] = LongSize(mdat_size + LongHeaderSize)
    BY <1>1, <1>2
  <2> QED
    BY <1>3, <1>4, <2>1, <2>2
<1>5. CASE ~IsLong
  <2>1. mdat_size + 2 \in Nat /\ mdat_size + 2 <= Limit /\ Limit \in Nat
    BY <1>5, LimitAssumption DEF IsLong, HeaderSize
  <2>2. Field32(mdat_size + HeaderSize) = mdat_size + HeaderSize
    <3> DEFINE a == mdat_size + 2
               b == Limit + 1
    <3>1. a \in Nat /\ b \in Nat /\ a < b
      BY <2>1
    <3> HIDE DEF a, b
    <3>2. a % b = a
      BY <3>1
    <3> QED
      BY <3>2 DEF a, b, Field32, HeaderSize
  <2>3. Size(mdat_size + HeaderSize) \in Cells
    BY <2>1, CellType DEF HeaderSize
  <2>4. /\ MdatHeader(pos).pos = pos - 2
        /\ MdatHeader(pos).cells = <<Size(mdat_size + HeaderSize)>>
    BY <1>5, <2>2 DEF MdatHeader, HeaderSize
  <2> QED
    BY <1>3, <1>5, <2>3, <2>4
<1> QED
  BY <1>4, <1>5

\* One more sample in the last chunk.
LEMMA WithSampleProperties ==
  ASSUME NEW list \in Seq(Chunks), list # <<>>, NEW size \in Nat
  PROVE  LET with == WithSample(list, size)
             n == Len(list)
         IN  /\ n \in Nat /\ n >= 1
             /\ with \in Seq(Chunks) /\ Len(with) = n
             /\ \A c \in 1 .. n : c < n => with[c] = list[c]
             /\ with[n].offset = list[n].offset
             /\ with[n].size = list[n].size + size
             /\ with[n].samples_per_chunk = list[n].samples_per_chunk + 1
<1> DEFINE n == Len(list)
           last == [offset |-> list[n].offset, size |-> list[n].size + size,
                    samples_per_chunk |-> list[n].samples_per_chunk + 1,
                    duration |-> list[n].duration + FrameDuration]
<1>1. n \in Nat /\ n >= 1
  BY EmptySeq
<1>2. list[n] \in Chunks
  BY <1>1, ElementOfSeq
<1>3. last \in Chunks
  <2>1. /\ list[n].offset \in Nat /\ list[n].size \in Nat
        /\ list[n].samples_per_chunk \in Nat /\ list[n].duration \in Nat
    BY <1>2 DEF Chunks
  <2>2. /\ list[n].size + size \in Nat /\ list[n].samples_per_chunk + 1 \in Nat
        /\ list[n].duration + FrameDuration \in Nat
    BY <2>1, DurationAssumption
  <2> QED
    BY <2>1, <2>2 DEF Chunks
<1>4. WithSample(list, size) = [list EXCEPT ![n] = last]
  BY DEF WithSample
<1>5. /\ last.offset = list[n].offset
      /\ last.size = list[n].size + size
      /\ last.samples_per_chunk = list[n].samples_per_chunk + 1
  OBVIOUS
<1> HIDE DEF last
<1> DEFINE new == [list EXCEPT ![n] = last]
<1>6. /\ new \in Seq(Chunks) /\ Len(new) = n
      /\ \A c \in 1 .. n : new[c] = IF c = n THEN last ELSE list[c]
  BY <1>1, <1>3, ExceptSeq
<1> HIDE DEF n, new
<1>7. new[n] = last
  BY <1>1, <1>6
<1>8. \A c \in 1 .. n : c < n => new[c] = list[c]
  BY <1>1, <1>6
<1> QED
  BY <1>1, <1>4, <1>5, <1>6, <1>7, <1>8 DEF n, new

\* The last chunk gets its offset.
LEMMA FlushedProperties ==
  ASSUME NEW list \in Seq(Chunks), list # <<>>, NEW pos \in Nat
  PROVE  LET flushed == Flushed(list, pos)
             n == Len(list)
         IN  /\ n \in Nat /\ n >= 1
             /\ flushed \in Seq(Chunks) /\ Len(flushed) = n
             /\ \A c \in 1 .. n : c < n => flushed[c] = list[c]
             /\ flushed[n].offset = pos
             /\ flushed[n].size = list[n].size
             /\ flushed[n].samples_per_chunk = list[n].samples_per_chunk
<1> DEFINE n == Len(list)
           last == [list[n] EXCEPT !.offset = pos]
<1>1. n \in Nat /\ n >= 1
  BY EmptySeq
<1>2. list[n] \in Chunks
  BY <1>1, ElementOfSeq
<1>3. /\ last \in Chunks
      /\ last.offset = pos
      /\ last.size = list[n].size
      /\ last.samples_per_chunk = list[n].samples_per_chunk
  BY <1>2 DEF Chunks
<1>4. Flushed(list, pos) = [list EXCEPT ![n] = last]
  BY DEF Flushed
<1> HIDE DEF last
<1> DEFINE new == [list EXCEPT ![n] = last]
<1>6. /\ new \in Seq(Chunks) /\ Len(new) = n
      /\ \A c \in 1 .. n : new[c] = IF c = n THEN last ELSE list[c]
  BY <1>1, <1>3, ExceptSeq
<1> HIDE DEF n, new
<1>7. new[n] = last
  BY <1>1, <1>6
<1>8. \A c \in 1 .. n : c < n => new[c] = list[c]
  BY <1>1, <1>6
<1> QED
  BY <1>1, <1>3, <1>4, <1>6, <1>7, <1>8 DEF n, new

\* A chunk gets an offset.
LEMMA OffsetSet ==
  ASSUME NEW chunk \in Chunks, NEW offset \in Nat
  PROVE  LET set == [chunk EXCEPT !.offset = offset]
         IN  /\ set \in Chunks
             /\ set.offset = offset
             /\ set.size = chunk.size
             /\ set.samples_per_chunk = chunk.samples_per_chunk
BY DEF Chunks

\* All chunks are moved by an offset.
LEMMA MovedProperties ==
  ASSUME NEW list \in Seq(Chunks), NEW offset \in Nat
  PROVE  LET moved == Moved(list, offset)
         IN  /\ moved \in Seq(Chunks) /\ Len(moved) = Len(list)
             /\ \A c \in 1 .. Len(list) :
                  /\ moved[c].offset = list[c].offset + offset
                  /\ moved[c].size = list[c].size
                  /\ moved[c].samples_per_chunk = list[c].samples_per_chunk
<1> DEFINE n == Len(list)
           moved == Moved(list, offset)
<1>1. n \in Nat /\ \A c \in 1 .. n : list[c] \in Chunks
  BY LenProperties, ElementOfSeq
<1>2. ASSUME NEW c \in 1 .. n
      PROVE  /\ moved[c] \in Chunks
             /\ moved[c].offset = list[c].offset + offset
             /\ moved[c].size = list[c].size
             /\ moved[c].samples_per_chunk = list[c].samples_per_chunk
  <2>1. moved[c] = [list[c] EXCEPT !.offset = list[c].offset + offset]
    BY DEF Moved
  <2>2. list[c] \in Chunks
    BY <1>1
  <2>3. list[c].offset + offset \in Nat
    BY <2>2 DEF Chunks
  <2> HIDE DEF moved
  <2> QED
    BY <2>1, <2>2, <2>3, OffsetSet
<1>3. moved \in [1 .. n -> Chunks]
  <2>1. moved = [c \in 1 .. n |-> moved[c]]
    BY DEF Moved
  <2> HIDE DEF moved
  <2> QED
    BY <1>2, <2>1
<1> HIDE DEF moved, n
<1>4. moved \in Seq(Chunks) /\ Len(moved) = n
  BY <1>1, <1>3, FunctionIsSeq
<1> QED
  BY <1>2, <1>4 DEF moved, n

\* What m4af_begin_write() writes.
Preamble ==
  <<Size(FtypSize), Type("ftyp")>>
    \o [k \in 1 .. (FtypSize - HeaderSize) |-> Body(0, k)]
    \o FreeBox(HeaderSize) \o <<Size(0), Type("mdat")>>

LEMMA PreambleProperties ==
  /\ Preamble \in Seq(Cells) /\ Len(Preamble) = DataStart
  /\ Preamble[1] = Size(FtypSize) /\ Preamble[2] = Type("ftyp")
  /\ Preamble[9] = Size(HeaderSize) /\ Preamble[10] = Type("free")
  /\ Preamble[12] = Type("mdat")
<1> DEFINE a == <<Size(FtypSize), Type("ftyp")>>
           b == [k \in 1 .. (FtypSize - HeaderSize) |-> Body(0, k)]
           c == FreeBox(HeaderSize)
           d == <<Size(0), Type("mdat")>>
<1>1. a \in Seq(Cells) /\ Len(a) = 2 /\ a[1] = Size(FtypSize) /\ a[2] = Type("ftyp")
  <2>1. Size(FtypSize) \in Cells /\ Type("ftyp") \in Cells
    BY CellType DEF FtypSize
  <2> QED
    BY <2>1
<1>2. b \in Seq(Cells) /\ Len(b) = 6
  <2>1. \A k \in 1 .. 6 : Body(0, k) \in Cells
    BY CellType
  <2>2. b \in [1 .. 6 -> Cells]
    BY <2>1 DEF FtypSize, HeaderSize
  <2>3. b = [k \in 1 .. 6 |-> Body(0, k)]
    BY DEF FtypSize, HeaderSize
  <2> HIDE DEF b
  <2> QED
    BY <2>2, FunctionIsSeq
<1>3. c \in Seq(Cells) /\ Len(c) = 2 /\ c[1] = Size(HeaderSize) /\ c[2] = Type("free")
  BY FreeBoxProperties DEF HeaderSize
<1>4. d \in Seq(Cells) /\ Len(d) = 2 /\ d[2] = Type("mdat")
  <2>1. Size(0) \in Cells /\ Type("mdat") \in Cells
    BY CellType
  <2> QED
    BY <2>1
<1>5. Preamble = ((a \o b) \o c) \o d
  BY DEF Preamble
<1> HIDE DEF a, b, c, d
<1>6. a \o b \in Seq(Cells) /\ Len(a \o b) = 8 /\ \A i \in 1 .. 2 : (a \o b)[i] = a[i]
  <2>1. /\ a \o b \in Seq(Cells) /\ Len(a \o b) = Len(a) + Len(b)
        /\ \A i \in 1 .. Len(a) : (a \o b)[i] = a[i]
    BY <1>1, <1>2, Joined
  <2> QED
    BY <1>1, <1>2, <2>1
<1>7. /\ (a \o b) \o c \in Seq(Cells) /\ Len((a \o b) \o c) = 10
      /\ \A i \in 1 .. 8 : ((a \o b) \o c)[i] = (a \o b)[i]
      /\ \A i \in 1 .. 2 : ((a \o b) \o c)[8 + i] = c[i]
  <2> DEFINE ab == a \o b
  <2>1. ab \in Seq(Cells) /\ Len(ab) = 8
    BY <1>6
  <2> HIDE DEF ab
  <2>2. /\ ab \o c \in Seq(Cells) /\ Len(ab \o c) = Len(ab) + Len(c)
        /\ \A i \in 1 .. Len(ab) : (ab \o c)[i] = ab[i]
        /\ \A i \in 1 .. Len(c) : (ab \o c)[Len(ab) + i] = c[i]
    BY <1>3, <2>1, Joined
  <2>3. 8 + 2 = 10
    OBVIOUS
  <2>4. Len(ab \o c) = 10
    BY <1>3, <2>1, <2>2, <2>3
  <2>5. \A i \in 1 .. 8 : (ab \o c)[i] = ab[i]
    BY <2>1, <2>2
  <2>6. \A i \in 1 .. 2 : (ab \o c)[8 + i] = c[i]
    BY <1>3, <2>1, <2>2
  <2> QED
    BY <2>2, <2>4, <2>5, <2>6 DEF ab
<1>8. /\ Preamble \in Seq(Cells) /\ Len(Preamble) = 12
      /\ \A i \in 1 .. 10 : Preamble[i] = ((a \o b) \o c)[i]
      /\ \A i \in 1 .. 2 : Preamble[10 + i] = d[i]
  <2> DEFINE abc == (a \o b) \o c
  <2>1. abc \in Seq(Cells) /\ Len(abc) = 10
    BY <1>7
  <2>2. Preamble = abc \o d
    BY <1>5
  <2> HIDE DEF abc
  <2>3. /\ abc \o d \in Seq(Cells) /\ Len(abc \o d) = Len(abc) + Len(d)
        /\ \A i \in 1 .. Len(abc) : (abc \o d)[i] = abc[i]
        /\ \A i \in 1 .. Len(d) : (abc \o d)[Len(abc) + i] = d[i]
    BY <1>4, <2>1, Joined
  <2>4. Len(abc \o d) = 12
    <3>1. 10 + 2 = 12
      OBVIOUS
    <3> QED
      BY <1>4, <2>1, <2>3, <3>1
  <2>5. \A i \in 1 .. 10 : (abc \o d)[i] = abc[i]
    BY <2>1, <2>3
  <2>6. \A i \in 1 .. 2 : (abc \o d)[10 + i] = d[i]
    BY <1>4, <2>1, <2>3
  <2> QED
    BY <2>2, <2>3, <2>4, <2>5, <2>6 DEF abc
<1>9. Preamble[1] = a[1] /\ Preamble[2] = a[2]
  <2> DEFINE ab == a \o b
  <2>1. {1, 2} \subseteq 1 .. 2 /\ {1, 2} \subseteq 1 .. 8 /\ {1, 2} \subseteq 1 .. 10
    OBVIOUS
  <2>2. ab[1] = a[1] /\ ab[2] = a[2]
    BY <1>6, <2>1
  <2> HIDE DEF ab
  <2>3. (ab \o c)[1] = ab[1] /\ (ab \o c)[2] = ab[2]
    BY <1>7, <2>1 DEF ab
  <2> DEFINE abc == ab \o c
  <2>4. Preamble[1] = abc[1] /\ Preamble[2] = abc[2]
    BY <1>8, <2>1 DEF ab
  <2> HIDE DEF abc
  <2> QED
    BY <2>2, <2>3, <2>4 DEF abc
<1>10. Preamble[8 + 1] = c[1] /\ Preamble[8 + 2] = c[2]
  <2>1. 1 \in 1 .. 2 /\ 2 \in 1 .. 2 /\ 8 + 1 \in 1 .. 10 /\ 8 + 2 \in 1 .. 10
    OBVIOUS
  <2> QED
    BY <1>7, <1>8, <2>1
<1>11. Preamble[10 + 2] = d[2]
  BY <1>8
<1>12. 8 + 1 = 9 /\ 8 + 2 = 10 /\ 10 + 2 = 12
  OBVIOUS
<1> QED
  BY <1>1, <1>3, <1>4, <1>8, <1>9, <1>10, <1>11, <1>12 DEF DataStart, FtypSize, HeaderSize

\* What a moov box needs for the offsets, above what their chunks need.
OffsetCells(list) ==
  IF IsCo64(list) THEN Len(list) + Len(list) ELSE Len(list)

\* The size of moov depends on the offsets by their width alone.
LEMMA MoovSizeOfMoved ==
  ASSUME NEW list \in Seq(Chunks), NEW offset \in Nat, sample_table \in Seq(Nat)
  PROVE  /\ OffsetCells(list) \in Nat /\ OffsetCells(Moved(list, offset)) \in Nat
         /\ MoovSize(Moved(list, offset)) - OffsetCells(Moved(list, offset))
              = MoovSize(list) - OffsetCells(list)
<1> DEFINE moved == Moved(list, offset)
           Rest(x) == MoovBase + Len(sample_table) + 3 * Cardinality(StscEntries(x))
<1>1. /\ moved \in Seq(Chunks) /\ Len(moved) = Len(list)
      /\ \A c \in 1 .. Len(list) : moved[c].samples_per_chunk = list[c].samples_per_chunk
  BY MovedProperties
<1>2. Len(list) \in Nat /\ Len(sample_table) \in Nat
  BY LenProperties
<1> HIDE DEF moved
<1>3. StscEntries(moved) = StscEntries(list)
  <2>1. ASSUME NEW c \in 1 .. Len(list), c > 1
        PROVE  /\ moved[c].samples_per_chunk = list[c].samples_per_chunk
               /\ moved[c - 1].samples_per_chunk = list[c - 1].samples_per_chunk
    <3>1. c - 1 \in 1 .. Len(list)
      BY <2>1, <1>2
    <3> QED
      BY <1>1, <3>1
  <2> QED
    BY <1>1, <2>1 DEF StscEntries
<1>4. ASSUME NEW x \in Seq(Chunks), Len(x) = Len(list)
      PROVE  MoovSize(x) = Rest(x) + OffsetCells(x) /\ OffsetCells(x) \in Nat
  <2>1. CASE IsCo64(x)
    <3>1. MoovSize(x) = Rest(x) + Len(x) * 2
      BY <2>1 DEF MoovSize
    <3>2. Len(x) * 2 = Len(x) + Len(x)
      BY <1>2, <1>4
    <3> QED
      BY <1>2, <1>4, <2>1, <3>1, <3>2 DEF OffsetCells
  <2>2. CASE ~IsCo64(x)
    <3>1. MoovSize(x) = Rest(x) + Len(x) * 1
      BY <2>2 DEF MoovSize
    <3>2. Len(x) * 1 = Len(x)
      BY <1>2, <1>4
    <3> QED
      BY <1>2, <1>4, <2>2, <3>1, <3>2 DEF OffsetCells
  <2> QED
    BY <2>1, <2>2
<1>5. Rest(moved) = Rest(list)
  BY <1>3
<1>6. MoovSize(list) \in Nat
  BY MoovSizeType
<1>7. MoovSize(moved) \in Nat
  BY <1>1, MoovSizeType
<1>8. MoovSize(list) = Rest(list) + OffsetCells(list) /\ OffsetCells(list) \in Nat
  BY <1>4
<1>9. MoovSize(moved) = Rest(moved) + OffsetCells(moved) /\ OffsetCells(moved) \in Nat
  BY <1>1, <1>4
<1>10. Rest(list) \in Nat
  <2>1. IsFiniteSet(1 .. Len(list)) /\ StscEntries(list) \subseteq 1 .. Len(list)
    BY <1>2, FS_Interval DEF StscEntries
  <2>2. Cardinality(StscEntries(list)) \in Nat
    BY <2>1, FS_Subset, FS_CardinalityType
  <2> QED
    BY <1>2, <2>2, LayoutAssumption
<1> HIDE DEF Rest
<1> QED
  BY <1>5, <1>6, <1>7, <1>8, <1>9, <1>10 DEF moved

\* m4af_patch_moov() adds to every offset what the final moov box and the free
\* box behind it take, although it does so in two turns and the first one may
\* change the size.
LEMMA PatchedProperties ==
  ASSUME NEW list \in Seq(Chunks), sample_table \in Seq(Nat)
  PROVE  LET patched == Patched(list)
         IN  /\ patched \in Seq(Chunks) /\ Len(patched) = Len(list)
             /\ MoovSize(list) \in Nat /\ MoovSize(patched) \in Nat
             /\ MoovSize(list) <= MoovSize(patched)
             /\ \A c \in 1 .. Len(list) :
                  /\ patched[c].offset = list[c].offset + (MoovSize(patched) + Reserve)
                  /\ patched[c].size = list[c].size
                  /\ patched[c].samples_per_chunk = list[c].samples_per_chunk
<1> DEFINE n == Len(list)
           size0 == MoovSize(list)
           once == Moved(list, size0 + Reserve)
           size1 == MoovSize(once)
           patched == Moved(once, size1 - size0)
           size2 == MoovSize(patched)
<1>1. size0 \in Nat /\ Reserve \in Nat /\ n \in Nat
  BY MoovSizeType, LenProperties, LayoutAssumption
<1>2. size0 + Reserve \in Nat
  BY <1>1
<1>3. /\ once \in Seq(Chunks) /\ Len(once) = n
      /\ \A c \in 1 .. n : /\ once[c].offset = list[c].offset + (size0 + Reserve)
                           /\ once[c].size = list[c].size
                           /\ once[c].samples_per_chunk = list[c].samples_per_chunk
  BY <1>2, MovedProperties
<1>4. /\ OffsetCells(list) \in Nat /\ OffsetCells(once) \in Nat
      /\ size1 - OffsetCells(once) = size0 - OffsetCells(list)
  BY <1>2, MoovSizeOfMoved
<1>5. Patched(list) = patched
  BY DEF Patched
<1>6. size1 \in Nat
  BY <1>3, MoovSizeType
<1> HIDE DEF n, size0, once, size1, patched, size2
<1>7. \A c \in 1 .. n : list[c].offset \in Nat
  <2>1. \A c \in 1 .. n : list[c] \in Chunks
    BY ElementOfSeq DEF n
  <2> QED
    BY <2>1 DEF Chunks
<1>8. n >= 1 /\ IsCo64(list) => IsCo64(once)
  <2>1. ASSUME n >= 1 PROVE once[n].offset = list[n].offset + (size0 + Reserve) /\ list[n].offset \in Nat
    BY <1>1, <1>3, <1>7, <2>1
  <2> QED
    BY <1>1, <1>3, <2>1, LimitAssumption DEF IsCo64, n
<1>9. size0 <= size1 /\ (n >= 1 /\ ~IsCo64(once) => size0 = size1)
  <2>1. n = 0 => OffsetCells(list) = 0 /\ OffsetCells(once) = 0
    BY <1>3 DEF OffsetCells, n
  <2>2. OffsetCells(list) <= n + n /\ OffsetCells(list) >= n
    BY <1>1 DEF OffsetCells, n
  <2>3. OffsetCells(once) <= n + n /\ OffsetCells(once) >= n
    BY <1>1, <1>3 DEF OffsetCells, n
  <2>4. IsCo64(once) => OffsetCells(once) = n + n
    BY <1>3 DEF OffsetCells
  <2>5. ~IsCo64(list) => OffsetCells(list) = n
    BY DEF OffsetCells, n
  <2>6. ~IsCo64(once) => OffsetCells(once) = n
    BY <1>3 DEF OffsetCells
  <2>7. n = 0 \/ n >= 1
    BY <1>1
  <2>8. OffsetCells(list) <= OffsetCells(once)
    BY <1>1, <1>4, <1>8, <2>1, <2>2, <2>3, <2>4, <2>5, <2>6, <2>7
  <2> QED
    BY <1>1, <1>4, <1>6, <1>8, <2>5, <2>6, <2>8
<1>10. size1 - size0 \in Nat
  BY <1>1, <1>6, <1>9
<1>11. /\ patched \in Seq(Chunks) /\ Len(patched) = n
       /\ \A c \in 1 .. n : /\ patched[c].offset = once[c].offset + (size1 - size0)
                            /\ patched[c].size = once[c].size
                            /\ patched[c].samples_per_chunk = once[c].samples_per_chunk
  BY <1>3, <1>10, MovedProperties DEF patched
<1>12. /\ OffsetCells(patched) \in Nat
       /\ size2 - OffsetCells(patched) = size1 - OffsetCells(once)
  BY <1>3, <1>10, MoovSizeOfMoved DEF patched, size1, size2
<1>13. size2 \in Nat
  BY <1>11, MoovSizeType DEF size2
<1>14. OffsetCells(patched) = OffsetCells(once)
  <2>1. CASE n = 0
    BY <2>1, <1>3, <1>11 DEF OffsetCells
  <2>2. CASE n >= 1
    <3>1. /\ patched[n].offset = once[n].offset + (size1 - size0)
          /\ once[n].offset = list[n].offset + (size0 + Reserve)
          /\ list[n].offset \in Nat
      BY <2>2, <1>1, <1>3, <1>7, <1>11
    <3>2. IsCo64(once) => IsCo64(patched)
      BY <3>1, <1>1, <1>3, <1>10, <1>11, LimitAssumption DEF IsCo64
    <3>3. ~IsCo64(once) => ~IsCo64(patched)
      <4>1. ASSUME ~IsCo64(once) PROVE ~IsCo64(patched)
        <5>1. size1 - size0 = 0
          BY <4>1, <2>2, <1>9, <1>1, <1>6
        <5>2. patched[n].offset = once[n].offset
          BY <3>1, <5>1, <1>1
        <5> QED
          BY <4>1, <5>2, <1>3, <1>11 DEF IsCo64
      <4> QED
        BY <4>1
    <3> QED
      BY <3>2, <3>3, <1>3, <1>11 DEF OffsetCells
  <2> QED
    BY <2>1, <2>2, <1>1
<1>15. size2 = size1
  BY <1>4, <1>6, <1>12, <1>13, <1>14
<1>16. ASSUME NEW c \in 1 .. n
       PROVE  /\ patched[c].offset = list[c].offset + (size2 + Reserve)
              /\ patched[c].size = list[c].size
              /\ patched[c].samples_per_chunk = list[c].samples_per_chunk
  <2>1. list[c].offset \in Nat
    BY <1>7
  <2>2. /\ patched[c].offset = once[c].offset + (size1 - size0)
        /\ once[c].offset = list[c].offset + (size0 + Reserve)
    BY <1>3, <1>11
  <2>3. patched[c].offset = list[c].offset + (size2 + Reserve)
    BY <2>1, <2>2, <1>1, <1>6, <1>15
  <2> QED
    BY <2>3, <1>3, <1>11
<1> QED
  BY <1>5, <1>1, <1>9, <1>11, <1>13, <1>15, <1>16 DEF n, size0, size1, size2

(***************************************************************************)
(* Steps that write to the file.                                           *)
(***************************************************************************)
\* Output() leaves cells in the file, and when it reports no error those it
\* was given.
LEMMA OutputEffect ==
  ASSUME NEW before \in BOOLEAN, NEW cells \in Seq(Cells), NEW pos \in Nat, NEW next,
         file \in Seq(Cells), last_error \in BOOLEAN, Output(before, cells, pos, next)
  PROVE  /\ file' \in Seq(Cells)
         /\ last_error' \in BOOLEAN /\ ferror' \in BOOLEAN
         /\ fpos' = next
         /\ ferror' => last_error'
         /\ ~last_error' => /\ ~last_error /\ ~before /\ ~ferror'
                            /\ file' = Put(file, pos, cells)
<1>1. PICK fault \in BOOLEAN :
        /\ ferror' = (before \/ fault)
        /\ last_error' = (last_error \/ Reported(before, fault))
        /\ file' = IF Reported(before, fault) THEN file ELSE Put(file, pos, cells)
        /\ fpos' = next
  BY DEF Output
<1>2. Reported(before, fault) = (before \/ fault)
  BY DEF Reported
<1>3. Put(file, pos, cells) \in Seq(Cells)
  BY PutProperties
<1>4. file' \in Seq(Cells)
  BY <1>1, <1>3
<1>5. last_error' \in BOOLEAN /\ ferror' \in BOOLEAN
  BY <1>1, <1>2
<1>6. ferror' => last_error'
  BY <1>1, <1>2
<1>7. ASSUME ~last_error'
      PROVE  ~last_error /\ ~before /\ ~ferror' /\ file' = Put(file, pos, cells)
  BY <1>1, <1>2, <1>7
<1> QED
  BY <1>1, <1>4, <1>5, <1>6, <1>7

-----------------------------------------------------------------------------
(***************************************************************************)
(* Types and errors.                                                       *)
(***************************************************************************)
\* The values that the steps write, and where.
LEMMA WrittenCells ==
  ASSUME TypeInv
  PROVE  /\ Len(chunk_buffer) \in Nat /\ Len(sample_table) \in Nat
         /\ MoovSize(chunk_table) \in Nat
         /\ pc # "create" => /\ MdatHeader(mdat_pos).cells \in Seq(Cells)
                             /\ MdatHeader(mdat_pos).pos \in Nat
BY LenProperties, MoovSizeType, MdatHeaderProperties DEF TypeInv

\* The size of moov depends on the tables of samples and chunks only.
LEMMA MoovSizeUnchanged ==
  ASSUME UNCHANGED <<sample_table, chunk_table>>
  PROVE  MoovSize(chunk_table)' = MoovSize(chunk_table) /\ FrontSize' = FrontSize
BY DEF MoovSize, StscEntries, IsCo64, FrontSize

\* A sample is given a place in the tables.
LEMMA ChunkWithSample ==
  ASSUME TypeInv, NEW size \in Nat
  PROVE  /\ SampleData(Len(sample_table) + 1, size) \in Seq(Cells)
         /\ Len(SampleData(Len(sample_table) + 1, size)) = size
         /\ Append(sample_table, size) \in Seq(Nat)
         /\ EmptyChunk \in Chunks
         /\ ~NeedsChunk => chunk_table # <<>>
         /\ \A list \in Seq(Chunks) :
              /\ Append(list, EmptyChunk) \in Seq(Chunks)
              /\ Append(list, EmptyChunk) # <<>>
              /\ Len(Append(list, EmptyChunk)) = Len(list) + 1
              /\ \A c \in 1 .. Len(list) : Append(list, EmptyChunk)[c] = list[c]
              /\ Append(list, EmptyChunk)[Len(list) + 1] = EmptyChunk
<1>1. Len(sample_table) + 1 \in Nat /\ sample_table \in Seq(Nat)
  BY LenProperties DEF TypeInv
<1>2. Append(sample_table, size) \in Seq(Nat)
  BY <1>1, AppendProperties
<1>3. EmptyChunk \in Chunks
  BY DEF EmptyChunk, Chunks
<1>4. ASSUME NEW list \in Seq(Chunks)
      PROVE  /\ Append(list, EmptyChunk) \in Seq(Chunks)
             /\ Append(list, EmptyChunk) # <<>>
             /\ Len(Append(list, EmptyChunk)) = Len(list) + 1
             /\ \A c \in 1 .. Len(list) : Append(list, EmptyChunk)[c] = list[c]
             /\ Append(list, EmptyChunk)[Len(list) + 1] = EmptyChunk
  BY <1>3, AppendProperties
<1>5. /\ SampleData(Len(sample_table) + 1, size) \in Seq(Cells)
      /\ Len(SampleData(Len(sample_table) + 1, size)) = size
  BY <1>1, SampleDataProperties
<1>6. ~NeedsChunk => chunk_table # <<>>
  BY DEF NeedsChunk
<1> QED
  BY <1>2, <1>3, <1>4, <1>5, <1>6

\* What ShiftBlock writes has the length of the block, wherever it was read.
LEMMA BlockProperties ==
  ASSUME TypeInv, end > mdat_pos
  PROVE  /\ BlockBegin \in Nat /\ mdat_pos <= BlockBegin /\ BlockBegin < end
         /\ [k \in 1 .. (end - BlockBegin) |-> Hole] \in Seq(Cells)
         /\ Block \in Seq(Cells) /\ Len(Block) = end - BlockBegin
         /\ \A k \in 1 .. (end - BlockBegin) :
              BlockBegin + k <= Len(file) => Block[k] = file[BlockBegin + k]
<1>1. BlockBegin \in Nat /\ mdat_pos <= BlockBegin /\ BlockBegin < end /\ end \in Nat
  BY LayoutAssumption DEF TypeInv, BlockBegin
<1>2. /\ Block \in Seq(Cells) /\ Len(Block) = end - BlockBegin
      /\ \A k \in 1 .. (end - BlockBegin) :
           BlockBegin + k <= Len(file) => Block[k] = file[BlockBegin + k]
  <2>1. file \in Seq(Cells) /\ BlockBegin <= end
    BY <1>1 DEF TypeInv
  <2> QED
    BY <1>1, <2>1, GetProperties DEF Block
<1>3. end - BlockBegin \in Nat /\ Hole \in Cells
  BY <1>1, CellType
<1>4. [k \in 1 .. (end - BlockBegin) |-> Hole] \in [1 .. (end - BlockBegin) -> Cells]
  BY <1>3
<1>5. [k \in 1 .. (end - BlockBegin) |-> Hole] \in Seq(Cells)
  BY <1>3, <1>4, FunctionIsSeq
<1> QED
  BY <1>1, <1>2, <1>5

\* The four cells in front of mdat at its new place.
ShiftedHeader(to) ==
  IF IsLong THEN MdatHeader(to).cells
            ELSE FreeBox(HeaderSize) \o MdatHeader(to).cells \o <<Type("mdat")>>

LEMMA ShiftedHeaderProperties ==
  ASSUME NEW to \in Nat, to >= DataStart, mdat_size \in Nat
  PROVE  LET header == ShiftedHeader(to)
         IN  /\ header \in Seq(Cells) /\ Len(header) = LongHeaderSize
             /\ IsLong => /\ header[1] = Size(1) /\ header[2] = Type("mdat")
                          /\ header[3] = LongSize(mdat_size + LongHeaderSize)
             /\ ~IsLong => /\ header[1] = Size(HeaderSize) /\ header[2] = Type("free")
                           /\ header[3] = Size(mdat_size + HeaderSize)
                           /\ header[4] = Type("mdat")
<1>1. CASE IsLong
  BY <1>1, MdatHeaderProperties DEF ShiftedHeader, LongHeaderSize
<1>2. CASE ~IsLong
  <2> DEFINE a == FreeBox(HeaderSize)
             b == MdatHeader(to).cells
             c == <<Type("mdat")>>
  <2>1. a \in Seq(Cells) /\ Len(a) = 2 /\ a[1] = Size(HeaderSize) /\ a[2] = Type("free")
    BY FreeBoxProperties DEF HeaderSize
  <2>2. b \in Seq(Cells) /\ Len(b) = 1 /\ b[1] = Size(mdat_size + HeaderSize)
    BY <1>2, MdatHeaderProperties
  <2>3. c \in Seq(Cells) /\ Len(c) = 1 /\ c[1] = Type("mdat")
    <3>1. Type("mdat") \in Cells
      BY CellType
    <3> QED
      BY <3>1
  <2>4. ShiftedHeader(to) = (a \o b) \o c
    BY <1>2 DEF ShiftedHeader
  <2> HIDE DEF a, b, c
  <2> DEFINE ab == a \o b
  <2>5. /\ ab \in Seq(Cells) /\ Len(ab) = Len(a) + Len(b)
        /\ \A i \in 1 .. Len(a) : ab[i] = a[i]
        /\ \A i \in 1 .. Len(b) : ab[Len(a) + i] = b[i]
    BY <2>1, <2>2, Joined
  <2>6. Len(ab) = 3 /\ ab[1] = a[1] /\ ab[2] = a[2] /\ ab[3] = b[1]
    <3>1. 1 \in 1 .. 2 /\ 2 \in 1 .. 2 /\ 1 \in 1 .. 1 /\ 2 + 1 = 3
      OBVIOUS
    <3> QED
      BY <2>1, <2>2, <2>5, <3>1
  <2> HIDE DEF ab
  <2>7. /\ ab \o c \in Seq(Cells) /\ Len(ab \o c) = Len(ab) + Len(c)
        /\ \A i \in 1 .. Len(ab) : (ab \o c)[i] = ab[i]
        /\ \A i \in 1 .. Len(c) : (ab \o c)[Len(ab) + i] = c[i]
    BY <2>3, <2>5, Joined
  <2>8. /\ Len(ab \o c) = 4 /\ (ab \o c)[1] = ab[1] /\ (ab \o c)[2] = ab[2]
        /\ (ab \o c)[3] = ab[3] /\ (ab \o c)[4] = c[1]
    <3>1. 1 \in 1 .. 3 /\ 2 \in 1 .. 3 /\ 3 \in 1 .. 3 /\ 1 \in 1 .. 1 /\ 3 + 1 = 4
      OBVIOUS
    <3> QED
      BY <2>3, <2>6, <2>7, <3>1
  <2>9. ShiftedHeader(to) = ab \o c
    BY <2>4 DEF ab
  <2> QED
    BY <1>2, <2>1, <2>2, <2>3, <2>6, <2>7, <2>8, <2>9 DEF LongHeaderSize
<1> QED
  BY <1>1, <1>2

\* The moov box in front of mdat and the free box behind it.
LEMMA FrontBoxes ==
  ASSUME NEW list \in Seq(Chunks), sample_table \in Seq(Nat), NEW version \in Nat,
         NEW free \in Nat
  PROVE  LET boxes == MoovBox(list, version) \o FreeBox(free)
             size == MoovSize(list)
         IN  /\ boxes \in Seq(Cells) /\ Len(boxes) = size + 2
             /\ boxes[1] = Size(size) /\ boxes[2] = Type("moov")
             /\ \A k \in 1 .. (size - HeaderSize) : boxes[2 + k] = Body(version, k)
             /\ boxes[size + 1] = Size(free) /\ boxes[size + 2] = Type("free")
<1> DEFINE a == MoovBox(list, version)
           b == FreeBox(free)
           size == MoovSize(list)
<1>1. /\ a \in Seq(Cells) /\ Len(a) = size
      /\ a[1] = Size(size) /\ a[2] = Type("moov")
      /\ \A k \in 1 .. (size - 2) : a[2 + k] = Body(version, k)
  BY MoovBoxProperties DEF HeaderSize
<1>2. b \in Seq(Cells) /\ Len(b) = 2 /\ b[1] = Size(free) /\ b[2] = Type("free")
  BY FreeBoxProperties
<1>3. size \in Nat /\ size >= 2
  BY MoovSizeType, LayoutAssumption
<1> HIDE DEF a, b, size
<1>4. /\ a \o b \in Seq(Cells) /\ Len(a \o b) = Len(a) + Len(b)
      /\ \A i \in 1 .. Len(a) : (a \o b)[i] = a[i]
      /\ \A i \in 1 .. Len(b) : (a \o b)[Len(a) + i] = b[i]
  BY <1>1, <1>2, Joined
<1>5. (a \o b)[1] = a[1] /\ (a \o b)[2] = a[2]
  <2>1. 1 \in 1 .. size /\ 2 \in 1 .. size
    BY <1>3
  <2> QED
    BY <1>1, <1>4, <2>1
<1>6. ASSUME NEW k \in 1 .. (size - 2) PROVE (a \o b)[2 + k] = Body(version, k)
  <2>1. 2 + k \in 1 .. size
    BY <1>3
  <2> QED
    BY <1>1, <1>4, <2>1
<1>7. (a \o b)[size + 1] = b[1] /\ (a \o b)[size + 2] = b[2]
  <2>1. 1 \in 1 .. 2 /\ 2 \in 1 .. 2
    OBVIOUS
  <2> QED
    BY <1>1, <1>2, <1>4, <2>1
<1> QED
  BY <1>1, <1>2, <1>4, <1>5, <1>6, <1>7 DEF a, b, size, HeaderSize

LEMMA TypeInit == Init => TypeInv
<1> SUFFICES ASSUME Init PROVE TypeInv
  OBVIOUS
<1>1. /\ <<>> \in Seq(Nat) /\ <<>> \in Seq(Chunks) /\ <<>> \in Seq(Cells)
  BY EmptySeq
<1> QED
  BY <1>1 DEF Init, TypeInv, Steps

LEMMA TypeNext == TypeInv /\ [Next]_vars => TypeInv'
<1> SUFFICES ASSUME TypeInv, [Next]_vars PROVE TypeInv'
  OBVIOUS
<1> USE DEF TypeInv
<1>0. \A size \in SampleSizes : size \in Nat
  BY SampleSizesAssumption
<1>e. <<>> \in Seq(Cells)
  BY EmptySeq
<1>1. CASE BeginWrite
  <2>1. Output(ferror, Preamble, 0, DataStart)
    BY <1>1 DEF BeginWrite, Preamble, DataStart
  <2>2. file' \in Seq(Cells) /\ last_error' \in BOOLEAN /\ ferror' \in BOOLEAN /\ fpos' = DataStart
    BY <2>1, PreambleProperties, OutputEffect
  <2>3. DataStart \in Nat
    BY DEF DataStart, FtypSize, HeaderSize
  <2> QED
    BY <1>1, <2>2, <2>3 DEF BeginWrite, Steps
<1>2. ASSUME NEW size \in SampleSizes, WriteSample(size) PROVE TypeInv'
  <2>1. chunk_table # <<>> /\ size \in Nat
    BY <1>0, <1>2, ChunkWithSample DEF WriteSample
  <2>2. WithSample(chunk_table, size) \in Seq(Chunks)
    BY <2>1, WithSampleProperties
  <2>3. chunk_buffer \o SampleData(Len(sample_table) + 1, size) \in Seq(Cells)
    BY <2>1, ChunkWithSample, Joined
  <2>4. Append(sample_table, size) \in Seq(Nat)
    BY <2>1, ChunkWithSample
  <2> QED
    BY <1>2, <2>2, <2>3, <2>4 DEF WriteSample, TakesSample, ioVars, Steps
<1>3. ASSUME NEW size \in SampleSizes, WriteSampleInNewChunk(size) PROVE TypeInv'
  <2> DEFINE flushed == Append(Flushed(chunk_table, fpos), EmptyChunk)
             plain == Append(chunk_table, EmptyChunk)
  <2>1. /\ size \in Nat /\ Append(sample_table, size) \in Seq(Nat) /\ EmptyChunk \in Chunks
        /\ SampleData(Len(sample_table) + 1, size) \in Seq(Cells)
    BY <1>0, ChunkWithSample
  <2>2. CASE HasUnwritten
    <3>1. Flushed(chunk_table, fpos) \in Seq(Chunks)
      BY <2>2, FlushedProperties DEF HasUnwritten
    <3>2. flushed \in Seq(Chunks) /\ flushed # <<>>
      BY <2>1, <3>1, ChunkWithSample
    <3>3. WithSample(flushed, size) \in Seq(Chunks)
      <4> HIDE DEF flushed
      <4> QED
        BY <2>1, <3>2, WithSampleProperties
    <3>4. /\ Output(ferror, chunk_buffer, fpos, fpos + Len(chunk_buffer))
          /\ mdat_size' = mdat_size + Len(chunk_buffer)
          /\ chunk_table' = WithSample(flushed, size)
      BY <1>3, <2>2 DEF WriteSampleInNewChunk
    <3>5. /\ file' \in Seq(Cells) /\ last_error' \in BOOLEAN /\ ferror' \in BOOLEAN
          /\ fpos' = fpos + Len(chunk_buffer)
      BY <3>4, OutputEffect
    <3>6. fpos' \in Nat /\ mdat_size' \in Nat
      BY <3>4, <3>5, WrittenCells
    <3> QED
      BY <1>3, <2>1, <3>3, <3>4, <3>5, <3>6 DEF WriteSampleInNewChunk, TakesSample, Steps
  <2>3. CASE ~HasUnwritten
    <3>2. plain \in Seq(Chunks) /\ plain # <<>>
      BY <2>1, ChunkWithSample
    <3>3. WithSample(plain, size) \in Seq(Chunks)
      <4> HIDE DEF plain
      <4> QED
        BY <2>1, <3>2, WithSampleProperties
    <3> QED
      BY <1>3, <2>1, <2>3, <3>3 DEF WriteSampleInNewChunk, TakesSample, Steps
  <2> QED
    BY <2>2, <2>3
<1>4. CASE WriteSampleFails
  BY <1>4 DEF WriteSampleFails, Steps
<1>5. CASE FlushLast
  <2>1. CASE HasUnwritten
    <3>1. Flushed(chunk_table, fpos) \in Seq(Chunks)
      BY <2>1, FlushedProperties DEF HasUnwritten
    <3>2. /\ Output(ferror, chunk_buffer, fpos, fpos + Len(chunk_buffer))
          /\ mdat_size' = mdat_size + Len(chunk_buffer)
          /\ chunk_table' = Flushed(chunk_table, fpos)
      BY <1>5, <2>1 DEF FlushLast
    <3>3. /\ file' \in Seq(Cells) /\ last_error' \in BOOLEAN /\ ferror' \in BOOLEAN
          /\ fpos' = fpos + Len(chunk_buffer)
      BY <3>2, OutputEffect
    <3>4. fpos' \in Nat /\ mdat_size' \in Nat
      BY <3>2, <3>3, WrittenCells
    <3> QED
      BY <1>5, <1>e, <3>1, <3>2, <3>3, <3>4 DEF FlushLast, Steps
  <2>2. CASE ~HasUnwritten
    BY <1>5, <1>e, <2>2 DEF FlushLast, Steps
  <2> QED
    BY <2>1, <2>2
<1>6. CASE FinalizeMdat
  <2>1. Output(ferror, MdatHeader(mdat_pos).cells, MdatHeader(mdat_pos).pos, mdat_pos + mdat_size)
    BY <1>6 DEF FinalizeMdat
  <2>2. MdatHeader(mdat_pos).cells \in Seq(Cells) /\ MdatHeader(mdat_pos).pos \in Nat
    BY <1>6, WrittenCells DEF FinalizeMdat
  <2>3. /\ file' \in Seq(Cells) /\ last_error' \in BOOLEAN /\ ferror' \in BOOLEAN
        /\ fpos' = mdat_pos + mdat_size
    BY <2>1, <2>2, OutputEffect
  <2> QED
    BY <1>6, <2>3 DEF FinalizeMdat, Steps
<1>7. CASE WriteMoov
  <2> DEFINE version == Len(moovs) + 1
  <2>1. /\ Output(ferror, MoovBox(chunk_table, version), fpos, fpos + MoovSize(chunk_table))
        /\ version \in Nat
    BY <1>7 DEF WriteMoov
  <2>2. MoovBox(chunk_table, version) \in Seq(Cells) /\ MoovSize(chunk_table) \in Nat
    BY <2>1, MoovBoxProperties, WrittenCells
  <2>3. /\ file' \in Seq(Cells) /\ last_error' \in BOOLEAN /\ ferror' \in BOOLEAN
        /\ fpos' = fpos + MoovSize(chunk_table)
    BY <2>1, <2>2, OutputEffect
  <2> QED
    BY <1>7, <2>2, <2>3 DEF WriteMoov, Steps
<1>8. CASE PatchMoov
  <2>1. Patched(chunk_table) \in Seq(Chunks) /\ MoovSize(Patched(chunk_table)) \in Nat
    BY PatchedProperties
  <2>2. MoovSize(Patched(chunk_table)) + Reserve \in Nat
    BY <2>1, LayoutAssumption
  <2>3. FrontSize' = MoovSize(Patched(chunk_table)) + Reserve
    BY <1>8 DEF PatchMoov, FrontSize, MoovSize, StscEntries, IsCo64
  <2> QED
    BY <1>8, <2>1, <2>2, <2>3 DEF PatchMoov, ioVars, Steps
<1>9. CASE ShiftBlock
  <2> DEFINE hole == [k \in 1 .. (end - BlockBegin) |-> Hole]
  <2>1. /\ BlockBegin \in Nat /\ hole \in Seq(Cells) /\ Block \in Seq(Cells)
    BY <1>9, BlockProperties DEF ShiftBlock
  <2>2. PICK readFault \in BOOLEAN :
          Output(ferror \/ readFault, IF readFault THEN hole ELSE Block,
                 BlockBegin + shift, end + shift)
    BY <1>9 DEF ShiftBlock
  <2>3. /\ (IF readFault THEN hole ELSE Block) \in Seq(Cells)
        /\ BlockBegin + shift \in Nat /\ (ferror \/ readFault) \in BOOLEAN
    BY <2>1
  <2>4. /\ file' \in Seq(Cells) /\ last_error' \in BOOLEAN /\ ferror' \in BOOLEAN
        /\ fpos' = end + shift
    <3> HIDE DEF hole
    <3> QED
      BY <2>2, <2>3, OutputEffect
  <2> QED
    BY <1>9, <2>1, <2>4, MoovSizeUnchanged DEF ShiftBlock, Steps
<1>10. CASE ShiftHeader
  <2> DEFINE to == mdat_pos + shift
  <2>1. /\ Output(ferror, ShiftedHeader(to), to - LongHeaderSize, to + mdat_size)
        /\ mdat_pos' = to
    BY <1>10 DEF ShiftHeader, ShiftedHeader
  <2>2. to \in Nat /\ to >= DataStart /\ to - LongHeaderSize \in Nat
    BY <1>10 DEF ShiftHeader, DataStart, FtypSize, HeaderSize, LongHeaderSize
  <2>3. ShiftedHeader(to) \in Seq(Cells)
    BY <2>2, ShiftedHeaderProperties
  <2>4. /\ file' \in Seq(Cells) /\ last_error' \in BOOLEAN /\ ferror' \in BOOLEAN
        /\ fpos' = to + mdat_size
    BY <2>1, <2>2, <2>3, OutputEffect
  <2>5. FrontSize' = FrontSize /\ shift = FrontSize
    BY <1>10, MoovSizeUnchanged DEF ShiftHeader
  <2>6. mdat_pos' >= DataStart + FrontSize'
    <3>1. mdat_pos \in Nat /\ mdat_pos >= 12 /\ shift \in Nat
      BY <1>10 DEF ShiftHeader, DataStart, FtypSize, HeaderSize
    <3>2. mdat_pos + shift >= 12 + shift
      BY <3>1
    <3> QED
      BY <2>1, <2>5, <3>2 DEF DataStart, FtypSize, HeaderSize
  <2> QED
    BY <1>10, <2>1, <2>2, <2>4, <2>6 DEF ShiftHeader, Steps
<1>11. CASE WriteMoovInFront
  <2> DEFINE size == MoovSize(chunk_table)
             version == Len(moovs) + 1
             free == FreeSize(FtypSize + size)
             boxes == MoovBox(chunk_table, version) \o FreeBox(free)
  <2>1. Output(ferror, boxes, FtypSize, mdat_pos - LongHeaderSize)
    BY <1>11 DEF WriteMoovInFront
  <2>2. free \in Nat /\ mdat_pos - LongHeaderSize \in Nat /\ FtypSize \in Nat
    <3>1. mdat_pos >= 12 + (size + Reserve)
      BY <1>11 DEF WriteMoovInFront, FrontSize, DataStart, FtypSize, HeaderSize
    <3>2. size \in Nat /\ Reserve \in Nat /\ mdat_pos \in Nat
      BY WrittenCells, LayoutAssumption
    <3> HIDE DEF size
    <3>3. mdat_pos - (8 + size) - 4 \in Nat /\ mdat_pos - 4 \in Nat
      BY <3>1, <3>2
    <3> QED
      BY <3>3 DEF FreeSize, FtypSize, LongHeaderSize
  <2>3. version \in Nat
    OBVIOUS
  <2>4. boxes \in Seq(Cells)
    <3> HIDE DEF free, version
    <3> QED
      BY <2>2, <2>3, FrontBoxes
  <2>5. /\ file' \in Seq(Cells) /\ last_error' \in BOOLEAN /\ ferror' \in BOOLEAN
        /\ fpos' = mdat_pos - LongHeaderSize
    <3> HIDE DEF boxes
    <3> QED
      BY <2>1, <2>2, <2>4, OutputEffect
  <2> QED
    BY <1>11, <2>2, <2>5 DEF WriteMoovInFront, Steps
<1>12. CASE Return
  BY <1>12 DEF Return, ctxVars, ioVars, Steps
<1>13. CASE UNCHANGED vars
  BY <1>13, MoovSizeUnchanged DEF vars, ctxVars, ioVars
<1> QED
  BY <1>1, <1>2, <1>3, <1>4, <1>5, <1>6, <1>7, <1>8, <1>9, <1>10, <1>11, <1>12, <1>13
     DEF Next, Ended

\* Whatever is written, wherever: an error of the stream is one of the context.
LEMMA OutputReports ==
  ASSUME NEW before \in BOOLEAN, NEW cells, NEW pos, NEW next,
         Output(before, cells, pos, next)
  PROVE  ferror' => last_error'
BY DEF Output, Reported

LEMMA ErrorNext == TypeInv /\ ErrorInv /\ [Next]_vars => ErrorInv'
<1> SUFFICES ASSUME TypeInv, ErrorInv, [Next]_vars PROVE ErrorInv'
  OBVIOUS
<1>0. ferror \in BOOLEAN /\ last_error \in BOOLEAN
  BY DEF TypeInv
<1>1. CASE BeginWrite
  BY <1>0, <1>1, OutputReports DEF BeginWrite, ErrorInv
<1>2. ASSUME NEW size \in SampleSizes, WriteSample(size) PROVE ErrorInv'
  BY <1>2 DEF WriteSample, TakesSample, ioVars, ErrorInv
<1>3. ASSUME NEW size \in SampleSizes, WriteSampleInNewChunk(size) PROVE ErrorInv'
  BY <1>0, <1>3, OutputReports DEF WriteSampleInNewChunk, TakesSample, ErrorInv
<1>4. CASE WriteSampleFails
  BY <1>4 DEF WriteSampleFails, ErrorInv
<1>5. CASE FlushLast
  BY <1>0, <1>5, OutputReports DEF FlushLast, ErrorInv
<1>6. CASE FinalizeMdat
  BY <1>0, <1>6, OutputReports DEF FinalizeMdat, ErrorInv
<1>7. CASE WriteMoov
  BY <1>0, <1>7, OutputReports DEF WriteMoov, ErrorInv
<1>8. CASE PatchMoov
  BY <1>8 DEF PatchMoov, ioVars, ErrorInv
<1>9. CASE ShiftBlock
  BY <1>0, <1>9, OutputReports DEF ShiftBlock, ErrorInv
<1>10. CASE ShiftHeader
  BY <1>0, <1>10, OutputReports DEF ShiftHeader, ErrorInv
<1>11. CASE WriteMoovInFront
  BY <1>0, <1>11, OutputReports DEF WriteMoovInFront, ErrorInv
<1>12. CASE Return
  BY <1>12 DEF Return, ctxVars, ioVars, ErrorInv
<1>13. CASE UNCHANGED vars
  BY <1>13 DEF vars, ctxVars, ioVars, ErrorInv
<1> QED
  BY <1>1, <1>2, <1>3, <1>4, <1>5, <1>6, <1>7, <1>8, <1>9, <1>10, <1>11, <1>12, <1>13
     DEF Next, Ended

\* The types of the muxer's state.
THEOREM TypeCorrect == Spec => []TypeInv
BY TypeInit, TypeNext, PTL DEF Spec

\* An error of any read or write of the output file makes m4af_finalize() or
\* the write of a sample return -1, however many writes came after it
\* (m4af_write, m4af_finalize, write_callback).
THEOREM FaultsAlwaysReported == Spec => []FaultsReported
<1>1. Init => ErrorInv
  BY DEF Init, ErrorInv
<1>2. TypeInv /\ ErrorInv => FaultsReported
  BY DEF TypeInv, ErrorInv, FaultsReported
<1> QED
  BY TypeCorrect, ErrorNext, <1>1, <1>2, PTL DEF Spec

-----------------------------------------------------------------------------
(***************************************************************************)
(* How samples fall into chunks.                                           *)
(***************************************************************************)
LEMMA CountsProperties ==
  ASSUME NEW list \in Seq(Chunks)
  PROVE  /\ Counts(list) \in Seq(Nat) /\ Len(Counts(list)) = Len(list)
         /\ Len(list) \in Nat
         /\ \A c \in 1 .. Len(list) :
              /\ Counts(list)[c] = list[c].samples_per_chunk
              /\ list[c] \in Chunks /\ list[c].size \in Nat
              /\ list[c].samples_per_chunk \in Nat /\ list[c].offset \in Nat
<1>1. Len(list) \in Nat /\ \A c \in 1 .. Len(list) : list[c] \in Chunks
  BY LenProperties, ElementOfSeq
<1>2. \A c \in 1 .. Len(list) :
        /\ list[c].size \in Nat /\ list[c].samples_per_chunk \in Nat
        /\ list[c].offset \in Nat
  BY <1>1 DEF Chunks
<1>3. Counts(list) \in [1 .. Len(list) -> Nat]
  BY <1>2 DEF Counts
<1>4. Counts(list) \in Seq(Nat) /\ Len(Counts(list)) = Len(list)
  BY <1>1, <1>3, FunctionIsSeq
<1>5. \A c \in 1 .. Len(list) : Counts(list)[c] = list[c].samples_per_chunk
  BY DEF Counts
<1> QED
  BY <1>1, <1>2, <1>4, <1>5

\* The number of samples before a chunk, and the number of cells before a sample.
LEMMA TablesInOrder ==
  ASSUME TypeInv, SharesInv
  PROVE  LET n == Len(chunk_table)
             m == Len(sample_table)
         IN  /\ n \in Nat /\ m \in Nat
             /\ Before[0] = 0 /\ Before[n] = m
             /\ \A c \in 0 .. n : Before[c] \in 0 .. m
             /\ \A c \in 1 .. n :
                  /\ Before[c] = Before[c - 1] + chunk_table[c].samples_per_chunk
                  /\ Before[c - 1] < Before[c]
                  /\ c - 1 \in 0 .. n
             /\ Begins[0] = 0
             /\ \A s \in 0 .. m : Begins[s] \in Nat
             /\ \A s \in 1 .. m : /\ Begins[s] = Begins[s - 1] + sample_table[s]
                                  /\ sample_table[s] \in Nat /\ s - 1 \in 0 .. m
             /\ \A s \in 0 .. m : \A t \in s .. m : Begins[s] <= Begins[t]
<1> DEFINE n == Len(chunk_table)
           m == Len(sample_table)
           counts == Counts(chunk_table)
<1>1. /\ counts \in Seq(Nat) /\ Len(counts) = n /\ n \in Nat
      /\ \A c \in 1 .. n : /\ counts[c] = chunk_table[c].samples_per_chunk
                           /\ chunk_table[c].samples_per_chunk \in Nat
  BY CountsProperties DEF TypeInv
<1>2. /\ sample_table \in Seq(Nat) /\ m \in Nat
      /\ \A s \in 1 .. m : sample_table[s] \in Nat
  BY LenProperties, ElementOfSeq DEF TypeInv
<1>3. /\ Begins \in [0 .. m -> Nat] /\ Begins[0] = 0
      /\ \A s \in 1 .. m : Begins[s] = Begins[s - 1] + sample_table[s]
  BY <1>2, SumsDef DEF Begins
<1>4. /\ Before \in [0 .. n -> Nat] /\ Before[0] = 0
      /\ \A c \in 1 .. n : Before[c] = Before[c - 1] + counts[c]
  <2> HIDE DEF counts
  <2>1. /\ Sums(counts) \in [0 .. Len(counts) -> Nat] /\ Sums(counts)[0] = 0
        /\ \A c \in 1 .. Len(counts) : Sums(counts)[c] = Sums(counts)[c - 1] + counts[c]
    BY <1>1, SumsDef
  <2> QED
    BY <1>1, <2>1 DEF Before, counts
<1>5. \A s \in 0 .. m : \A t \in s .. m : Begins[s] <= Begins[t]
  BY <1>2, SumsGrow DEF Begins
<1>6. Before[n] = m /\ \A c \in 1 .. n : chunk_table[c].samples_per_chunk >= 1
  BY DEF SharesInv
<1>7. ASSUME NEW c \in 0 .. n PROVE Before[c] \in 0 .. m
  <2>1. Sums(counts)[c] <= Sums(counts)[n]
    <3>1. c \in 0 .. Len(counts) /\ n \in c .. Len(counts)
      BY <1>1
    <3> HIDE DEF counts, n
    <3> QED
      BY <1>1, <3>1, SumsGrow
  <2>2. Before[c] <= m /\ Before[c] \in Nat
    BY <1>4, <1>6, <2>1 DEF Before
  <2> QED
    BY <1>2, <2>2
<1> HIDE DEF n, m, counts
<1>8. ASSUME NEW c \in 1 .. n
      PROVE  /\ Before[c] = Before[c - 1] + chunk_table[c].samples_per_chunk
             /\ Before[c - 1] < Before[c]
             /\ c - 1 \in 0 .. n
  <2>1. c - 1 \in 0 .. n /\ c \in 0 .. n
    BY <1>1
  <2>2. /\ Before[c] = Before[c - 1] + chunk_table[c].samples_per_chunk
        /\ Before[c - 1] \in Nat /\ chunk_table[c].samples_per_chunk >= 1
        /\ chunk_table[c].samples_per_chunk \in Nat
    BY <1>1, <1>4, <1>6, <2>1
  <2> QED
    BY <2>1, <2>2
<1>9. \A s \in 1 .. m : s - 1 \in 0 .. m
  BY <1>2
<1> QED
  BY <1>1, <1>2, <1>3, <1>4, <1>5, <1>6, <1>7, <1>8, <1>9 DEF n, m

\* A step that takes a sample moves no sample before it.
LEMMA SampleTaken ==
  ASSUME TypeInv, NEW size \in Nat, sample_table' = Append(sample_table, size)
  PROVE  LET m == Len(sample_table)
         IN  /\ m \in Nat /\ Len(sample_table') = m + 1
             /\ \A s \in 1 .. m : sample_table'[s] = sample_table[s]
             /\ sample_table'[m + 1] = size
             /\ \A s \in 0 .. m : Begins'[s] = Begins[s]
             /\ Begins'[m + 1] = Begins[m] + size
<1> DEFINE m == Len(sample_table)
           more == Append(sample_table, size)
<1>1. sample_table \in Seq(Nat) /\ m \in Nat
  BY LenProperties DEF TypeInv
<1>2. /\ more \in Seq(Nat) /\ Len(more) = m + 1
      /\ \A s \in 1 .. m : more[s] = sample_table[s]
      /\ more[m + 1] = size
  BY <1>1, AppendProperties
<1> HIDE DEF m, more
<1>3. \A s \in 0 .. m : Sums(more)[s] = Sums(sample_table)[s]
  <2>1. m <= Len(more) /\ m <= Len(sample_table)
    BY <1>1, <1>2 DEF m
  <2> QED
    BY <1>1, <1>2, <2>1, SumsAgree
<1>4. Sums(more)[m + 1] = Sums(more)[m] + more[m + 1]
  <2>1. m + 1 \in 1 .. Len(more) /\ (m + 1) - 1 = m
    BY <1>1, <1>2
  <2> QED
    BY <1>2, <2>1, SumsDef
<1>5. m \in 0 .. m
  BY <1>1
<1>6. Begins' = Sums(more) /\ Begins = Sums(sample_table)
  BY DEF Begins, more
<1> QED
  BY <1>1, <1>2, <1>3, <1>4, <1>5, <1>6 DEF m, more

\* The samples before a chunk depend on the chunks before it only.
LEMMA BeforeAgrees ==
  ASSUME NEW list \in Seq(Chunks), NEW others \in Seq(Chunks), NEW n \in Nat,
         n <= Len(list), n <= Len(others),
         \A c \in 1 .. n : list[c].samples_per_chunk = others[c].samples_per_chunk
  PROVE  \A c \in 0 .. n : Sums(Counts(list))[c] = Sums(Counts(others))[c]
<1> DEFINE s == Counts(list)
           t == Counts(others)
<1>1. s \in Seq(Nat) /\ Len(s) = Len(list) /\ t \in Seq(Nat) /\ Len(t) = Len(others)
  BY CountsProperties
<1>2. ASSUME NEW c \in 1 .. n PROVE s[c] = t[c]
  <2>1. c \in 1 .. Len(list) /\ c \in 1 .. Len(others)
    BY CountsProperties
  <2> QED
    BY <2>1, CountsProperties
<1>3. n <= Len(s) /\ n <= Len(t)
  BY <1>1
<1> HIDE DEF s, t
<1> QED
  BY <1>1, <1>2, <1>3, SumsAgree DEF s, t

\* Steps that change at most the offsets leave the shares as they are.
LEMMA SharesKept ==
  ASSUME TypeInv, TypeInv', SharesInv, sample_table' = sample_table,
         Len(chunk_table') = Len(chunk_table),
         \A c \in 1 .. Len(chunk_table) :
           /\ chunk_table'[c].size = chunk_table[c].size
           /\ chunk_table'[c].samples_per_chunk = chunk_table[c].samples_per_chunk
  PROVE  SharesInv' /\ Begins' = Begins /\ \A c \in 0 .. Len(chunk_table) : Before'[c] = Before[c]
<1> DEFINE n == Len(chunk_table)
<1>1. chunk_table \in Seq(Chunks) /\ chunk_table' \in Seq(Chunks) /\ n \in Nat
  BY LenProperties DEF TypeInv
<1>2. Begins' = Begins
  BY DEF Begins
<1>3. ASSUME NEW c \in 0 .. n PROVE Before'[c] = Before[c]
  <2>1. n <= Len(chunk_table) /\ n <= Len(chunk_table')
    BY <1>1
  <2>2. \A i \in 0 .. n : Sums(Counts(chunk_table'))[i] = Sums(Counts(chunk_table))[i]
    BY <1>1, <2>1, BeforeAgrees
  <2> QED
    BY <2>2 DEF Before
<1>4. Before'[n] = Len(sample_table)
  BY <1>1, <1>3 DEF SharesInv
<1>5. ASSUME NEW c \in 1 .. n
      PROVE  /\ chunk_table'[c].samples_per_chunk >= 1
             /\ chunk_table'[c].size = Begins'[Before'[c]] - Begins'[Before'[c - 1]]
  <2>1. c \in 0 .. n /\ c - 1 \in 0 .. n
    BY <1>1
  <2> QED
    BY <1>2, <1>3, <2>1 DEF SharesInv
<1> QED
  BY <1>1, <1>2, <1>3, <1>4, <1>5 DEF SharesInv

\* A sample that goes to the chunk behind the first k ones, be it new or not.
LEMMA SharesGrow ==
  ASSUME TypeInv, TypeInv', SharesInv, NEW size \in Nat,
         sample_table' = Append(sample_table, size),
         NEW k \in 0 .. Len(chunk_table), Len(chunk_table') = k + 1,
         \A c \in 1 .. k :
           /\ chunk_table'[c].size = chunk_table[c].size
           /\ chunk_table'[c].samples_per_chunk = chunk_table[c].samples_per_chunk,
         chunk_table'[k + 1].samples_per_chunk = Len(sample_table) - Before[k] + 1,
         chunk_table'[k + 1].size = Begins[Len(sample_table)] - Begins[Before[k]] + size
  PROVE  /\ SharesInv'
         /\ \A c \in 0 .. k : Before'[c] = Before[c]
<1> DEFINE n == Len(chunk_table)
           m == Len(sample_table)
<1>1. chunk_table \in Seq(Chunks) /\ chunk_table' \in Seq(Chunks) /\ n \in Nat /\ k \in Nat
  BY LenProperties DEF TypeInv
<1>2. /\ m \in Nat /\ Len(sample_table') = m + 1
      /\ \A s \in 0 .. m : Begins'[s] = Begins[s]
      /\ Begins'[m + 1] = Begins[m] + size
  BY SampleTaken
<1>3. /\ \A c \in 0 .. n : Before[c] \in 0 .. m
      /\ \A s \in 0 .. m : Begins[s] \in Nat
  BY TablesInOrder
<1>4. ASSUME NEW c \in 0 .. k PROVE Before'[c] = Before[c]
  <2>1. k <= Len(chunk_table) /\ k <= Len(chunk_table')
    BY <1>1
  <2>2. \A i \in 0 .. k : Sums(Counts(chunk_table'))[i] = Sums(Counts(chunk_table))[i]
    BY <1>1, <2>1, BeforeAgrees
  <2> QED
    BY <2>2 DEF Before
<1>5. Before'[k + 1] = m + 1
  <2> DEFINE counts == Counts(chunk_table')
  <2>1. /\ counts \in Seq(Nat) /\ Len(counts) = k + 1
        /\ counts[k + 1] = chunk_table'[k + 1].samples_per_chunk
    <3>1. k + 1 \in 1 .. Len(chunk_table')
      BY <1>1
    <3> QED
      BY <1>1, <3>1, CountsProperties
  <2> HIDE DEF counts
  <2>2. Sums(counts)[k + 1] = Sums(counts)[k] + counts[k + 1]
    <3>1. k + 1 \in 1 .. Len(counts) /\ (k + 1) - 1 = k
      BY <1>1, <2>1
    <3> QED
      BY <2>1, <3>1, SumsDef
  <2>3. Sums(counts)[k] = Before[k] /\ Before[k] \in 0 .. m
    <3>1. k \in 0 .. k /\ k \in 0 .. n
      BY <1>1
    <3> QED
      BY <1>3, <1>4, <3>1 DEF Before, counts
  <2>4. Sums(counts)[k + 1] = m + 1
    BY <1>2, <2>1, <2>2, <2>3
  <2> QED
    BY <2>4 DEF Before, counts
<1>6. ASSUME NEW c \in 1 .. (k + 1)
      PROVE  /\ chunk_table'[c].samples_per_chunk >= 1
             /\ chunk_table'[c].size = Begins'[Before'[c]] - Begins'[Before'[c - 1]]
  <2>1. CASE c <= k
    <3>1. c \in 1 .. n /\ c \in 1 .. k /\ c \in 0 .. k /\ c - 1 \in 0 .. k /\ c \in 0 .. n /\ c - 1 \in 0 .. n
      BY <1>1, <2>1
    <3>2. Before'[c] = Before[c] /\ Before'[c - 1] = Before[c - 1]
      BY <1>4, <3>1
    <3>3. Begins'[Before[c]] = Begins[Before[c]] /\ Begins'[Before[c - 1]] = Begins[Before[c - 1]]
      BY <1>2, <1>3, <3>1
    <3> QED
      BY <3>1, <3>2, <3>3 DEF SharesInv
  <2>2. CASE c > k
    <3>1. c = k + 1 /\ c - 1 = k /\ k \in 0 .. k /\ k \in 0 .. n /\ m \in 0 .. m
      BY <1>1, <1>2, <2>2
    <3>2. Before'[k] = Before[k] /\ Before[k] \in 0 .. m
      BY <1>3, <1>4, <3>1
    <3>3. Begins'[Before[k]] = Begins[Before[k]]
      BY <1>2, <3>2
    <3>4. chunk_table'[c].samples_per_chunk >= 1
      BY <1>2, <3>1, <3>2
    <3>5. Begins[Before[k]] \in Nat /\ Begins[m] \in Nat
      BY <1>3, <3>1, <3>2
    <3>6. Begins[m] - Begins[Before[k]] + size = (Begins[m] + size) - Begins[Before[k]]
      BY <3>5
    <3>7. chunk_table'[c].size = Begins'[m + 1] - Begins'[Before[k]]
      BY <1>2, <3>1, <3>3, <3>6
    <3> QED
      BY <1>5, <3>1, <3>2, <3>4, <3>7
  <2> QED
    BY <1>1, <2>1, <2>2
<1> QED
  BY <1>2, <1>4, <1>5, <1>6 DEF SharesInv

\* The chunks after a sample that joins the last one.
LEMMA ChunksAfterSample ==
  ASSUME TypeInv, SharesInv, NEW size \in SampleSizes, WriteSample(size)
  PROVE  LET n == Len(chunk_table)
         IN  /\ n \in Nat /\ n >= 1 /\ size \in Nat /\ Len(chunk_table') = n
             /\ \A c \in 1 .. n : c < n => chunk_table'[c] = chunk_table[c]
             /\ chunk_table'[n].samples_per_chunk = Len(sample_table) - Before[n - 1] + 1
             /\ chunk_table'[n].size = Begins[Len(sample_table)] - Begins[Before[n - 1]] + size
             /\ chunk_table'[n].size = chunk_table[n].size + size
<1> DEFINE n == Len(chunk_table)
           m == Len(sample_table)
<1>1. chunk_table # <<>> /\ size \in Nat /\ chunk_table \in Seq(Chunks)
  BY SampleSizesAssumption, ChunkWithSample DEF WriteSample, TypeInv
<1>2. chunk_table' = WithSample(chunk_table, size)
  BY DEF WriteSample
<1>3. /\ n \in Nat /\ n >= 1 /\ Len(chunk_table') = n
      /\ \A c \in 1 .. n : c < n => chunk_table'[c] = chunk_table[c]
      /\ chunk_table'[n].size = chunk_table[n].size + size
      /\ chunk_table'[n].samples_per_chunk = chunk_table[n].samples_per_chunk + 1
  BY <1>1, <1>2, WithSampleProperties
<1>4. n \in 1 .. n
  BY <1>3
<1>5. /\ chunk_table[n].size = Begins[Before[n]] - Begins[Before[n - 1]]
      /\ Before[n] = m
  BY <1>4 DEF SharesInv
<1>6. /\ Before[n] = Before[n - 1] + chunk_table[n].samples_per_chunk
      /\ Before[n - 1] \in 0 .. m
      /\ chunk_table[n].samples_per_chunk \in Nat
  BY <1>1, <1>4, TablesInOrder, CountsProperties
<1>7. chunk_table'[n].samples_per_chunk = m - Before[n - 1] + 1
  BY <1>3, <1>5, <1>6
<1>8. chunk_table'[n].size = Begins[m] - Begins[Before[n - 1]] + size
  BY <1>3, <1>5
<1> QED
  BY <1>1, <1>3, <1>7, <1>8

\* The chunks after a sample that opens a new one.
LEMMA ChunksAfterNewChunk ==
  ASSUME TypeInv, SharesInv, NEW size \in SampleSizes, WriteSampleInNewChunk(size)
  PROVE  LET n == Len(chunk_table)
         IN  /\ n \in Nat /\ size \in Nat /\ Len(chunk_table') = n + 1
             /\ \A c \in 1 .. n :
                  /\ c < n \/ ~HasUnwritten => chunk_table'[c] = chunk_table[c]
                  /\ c = n /\ HasUnwritten => chunk_table'[c].offset = fpos
                  /\ chunk_table'[c].size = chunk_table[c].size
                  /\ chunk_table'[c].samples_per_chunk = chunk_table[c].samples_per_chunk
             /\ chunk_table'[n + 1].samples_per_chunk = 1
             /\ chunk_table'[n + 1].size = size
<1> DEFINE n == Len(chunk_table)
           old == IF HasUnwritten THEN Flushed(chunk_table, fpos) ELSE chunk_table
           more == Append(old, EmptyChunk)
<1>1. n \in Nat /\ size \in Nat /\ chunk_table \in Seq(Chunks) /\ fpos \in Nat
  BY SampleSizesAssumption, LenProperties DEF TypeInv
<1>2. chunk_table' = WithSample(more, size)
  BY DEF WriteSampleInNewChunk
<1>3. /\ old \in Seq(Chunks) /\ Len(old) = n
      /\ \A c \in 1 .. n :
           /\ c < n \/ ~HasUnwritten => old[c] = chunk_table[c]
           /\ c = n /\ HasUnwritten => old[c].offset = fpos
           /\ old[c].size = chunk_table[c].size
           /\ old[c].samples_per_chunk = chunk_table[c].samples_per_chunk
  <2>1. CASE HasUnwritten
    <3> DEFINE flushed == Flushed(chunk_table, fpos)
    <3>1. /\ flushed \in Seq(Chunks) /\ Len(flushed) = n
          /\ \A c \in 1 .. n : c < n => flushed[c] = chunk_table[c]
          /\ flushed[n].offset = fpos
          /\ flushed[n].size = chunk_table[n].size
          /\ flushed[n].samples_per_chunk = chunk_table[n].samples_per_chunk
      BY <1>1, <2>1, FlushedProperties DEF HasUnwritten
    <3>2. \A c \in 1 .. n : c < n \/ c = n
      BY <1>1
    <3>3. old = flushed
      BY <2>1
    <3> HIDE DEF old, flushed, n
    <3> QED
      BY <2>1, <3>1, <3>2, <3>3
  <2>2. CASE ~HasUnwritten
    BY <1>1, <2>2
  <2> QED
    BY <2>1, <2>2
<1> HIDE DEF old
<1>4. /\ more \in Seq(Chunks) /\ more # <<>> /\ Len(more) = n + 1
      /\ \A c \in 1 .. n : more[c] = old[c]
      /\ more[n + 1] = EmptyChunk
  BY <1>1, <1>3, ChunkWithSample
<1> HIDE DEF more, n
<1>5. /\ Len(chunk_table') = n + 1
      /\ \A c \in 1 .. (n + 1) : c < n + 1 => chunk_table'[c] = more[c]
      /\ chunk_table'[n + 1].size = more[n + 1].size + size
      /\ chunk_table'[n + 1].samples_per_chunk = more[n + 1].samples_per_chunk + 1
  <2> DEFINE with == WithSample(more, size)
  <2>1. /\ Len(with) = Len(more)
        /\ \A c \in 1 .. Len(more) : c < Len(more) => with[c] = more[c]
        /\ with[Len(more)].size = more[Len(more)].size + size
        /\ with[Len(more)].samples_per_chunk = more[Len(more)].samples_per_chunk + 1
    BY <1>1, <1>4, WithSampleProperties
  <2>2. chunk_table' = with /\ Len(more) = n + 1
    BY <1>2, <1>4
  <2> HIDE DEF with
  <2> QED
    BY <2>1, <2>2
<1>6. chunk_table'[n + 1].size = size /\ chunk_table'[n + 1].samples_per_chunk = 1
  BY <1>1, <1>4, <1>5 DEF EmptyChunk
<1>7. ASSUME NEW c \in 1 .. n PROVE chunk_table'[c] = old[c]
  <2>1. c \in 1 .. (n + 1) /\ c < n + 1
    BY <1>1
  <2> QED
    BY <1>4, <1>5, <2>1
<1> QED
  BY <1>1, <1>3, <1>5, <1>6, <1>7 DEF n

LEMMA ChunkInit == Init => ChunkInv
<1> SUFFICES ASSUME Init PROVE ChunkInv
  OBVIOUS
<1>1. sample_table = <<>> /\ chunk_table = <<>> /\ pc = "create"
  BY DEF Init
<1>2. chunk_table \in Seq(Chunks) /\ Len(chunk_table) = 0 /\ Len(sample_table) = 0
  BY <1>1, EmptySeq
<1>3. Counts(chunk_table) \in Seq(Nat)
  BY <1>2, CountsProperties
<1>4. Before[0] = 0
  BY <1>3, SumsDef DEF Before
<1> QED
  BY <1>1, <1>2, <1>4 DEF ChunkInv, SharesInv, SampleInv

LEMMA ChunkNext == TypeInv /\ TypeInv' /\ ChunkInv /\ [Next]_vars => ChunkInv'
<1> SUFFICES ASSUME TypeInv, TypeInv', ChunkInv, [Next]_vars PROVE ChunkInv'
  OBVIOUS
<1> DEFINE n == Len(chunk_table)
           m == Len(sample_table)
<1>0. SharesInv /\ SampleInv
  BY DEF ChunkInv
<1>1. /\ n \in Nat /\ m \in Nat /\ Before[n] = m
      /\ \A c \in 0 .. n : Before[c] \in 0 .. m
      /\ \A s \in 0 .. m : Begins[s] \in Nat
  BY <1>0, TablesInOrder
<1>2. ASSUME sample_table' = sample_table, chunk_table' = chunk_table,
             pc' \notin {"create", "open", "end"} =>
               pc \notin {"create", "open", "end"} \/ chunk_table # <<>>,
             pc' = "create" => pc = "create"
      PROVE  ChunkInv'
  <2>1. SharesInv'
    BY <1>0, <1>2, SharesKept
  <2>2. SampleInv'
    BY <1>0, <1>2 DEF SampleInv
  <2> QED
    BY <2>1, <2>2 DEF ChunkInv
<1>3. ASSUME NEW size \in SampleSizes, TakesSample, pc' = pc, SharesInv', size \in Nat,
             sample_table' = Append(sample_table, size)
      PROVE  ChunkInv'
  <2>1. /\ Len(sample_table') = m + 1
        /\ \A s \in 1 .. m : sample_table'[s] = sample_table[s]
    BY <1>3, SampleTaken
  <2>2. ASSUME NEW s \in 1 .. m PROVE sample_table'[s] > 0
    <3>1. CASE s < m
      <4>1. s \in 1 .. (m - 1)
        BY <1>1, <3>1
      <4> QED
        BY <1>0, <2>1, <4>1 DEF SampleInv
    <3>2. CASE s = m
      <4>1. sample_table # <<>> /\ sample_table \in Seq(Nat)
        BY <1>1, <3>2, EmptySeq DEF TypeInv
      <4>2. sample_table[m] # 0 /\ sample_table[m] \in Nat
        BY <1>3, <3>2, <4>1, ElementOfSeq DEF TakesSample, Last
      <4> QED
        BY <2>1, <3>2, <4>2
    <3> QED
      BY <1>1, <3>1, <3>2
  <2>3. SampleInv'
    <3>1. Len(sample_table') - 1 = m
      BY <1>1, <2>1
    <3> QED
      BY <1>3, <2>2, <3>1 DEF SampleInv, TakesSample
  <2> QED
    BY <1>3, <2>3 DEF ChunkInv
<1>4. CASE BeginWrite
  BY <1>2, <1>4 DEF BeginWrite
<1>5. ASSUME NEW size \in SampleSizes, WriteSample(size) PROVE ChunkInv'
  <2>1. /\ n >= 1 /\ size \in Nat /\ Len(chunk_table') = n
        /\ \A c \in 1 .. n : c < n => chunk_table'[c] = chunk_table[c]
        /\ chunk_table'[n].samples_per_chunk = m - Before[n - 1] + 1
        /\ chunk_table'[n].size = Begins[m] - Begins[Before[n - 1]] + size
    BY <1>0, <1>5, ChunksAfterSample
  <2>2. /\ n - 1 \in 0 .. n /\ (n - 1) + 1 = n
        /\ \A c \in 1 .. (n - 1) : c \in 1 .. n /\ c < n
    BY <1>1, <2>1
  <2>3. TakesSample /\ pc' = pc /\ sample_table' = Append(sample_table, size)
    BY <1>5 DEF WriteSample
  <2>4. SharesInv'
    <3> DEFINE k == n - 1
    <3>1. /\ k \in 0 .. n /\ Len(chunk_table') = k + 1
          /\ \A c \in 1 .. k : chunk_table'[c] = chunk_table[c]
          /\ chunk_table'[k + 1].samples_per_chunk = m - Before[k] + 1
          /\ chunk_table'[k + 1].size = Begins[m] - Begins[Before[k]] + size
      BY <2>1, <2>2
    <3> HIDE DEF k
    <3> QED
      BY <1>0, <2>1, <2>3, <3>1, SharesGrow
  <2> QED
    BY <1>3, <2>1, <2>3, <2>4
<1>6. ASSUME NEW size \in SampleSizes, WriteSampleInNewChunk(size) PROVE ChunkInv'
  <2>1. /\ size \in Nat /\ Len(chunk_table') = n + 1
        /\ \A c \in 1 .. n :
             /\ chunk_table'[c].size = chunk_table[c].size
             /\ chunk_table'[c].samples_per_chunk = chunk_table[c].samples_per_chunk
        /\ chunk_table'[n + 1].samples_per_chunk = 1
        /\ chunk_table'[n + 1].size = size
    BY <1>0, <1>6, ChunksAfterNewChunk
  <2>2. TakesSample /\ pc' = pc /\ sample_table' = Append(sample_table, size)
    BY <1>6 DEF WriteSampleInNewChunk
  <2>3. n \in 0 .. n /\ m \in 0 .. m
    BY <1>1
  <2>4. m - Before[n] + 1 = 1 /\ Begins[m] - Begins[Before[n]] + size = size
    BY <1>1, <2>1, <2>3
  <2>5. SharesInv'
    BY <1>0, <2>1, <2>2, <2>3, <2>4, SharesGrow
  <2> QED
    BY <1>3, <2>1, <2>2, <2>5
<1>7. CASE WriteSampleFails
  BY <1>2, <1>7 DEF WriteSampleFails
<1>8. CASE FlushLast
  <2>1. SharesInv'
    <3>1. CASE HasUnwritten
      <4>1. /\ chunk_table' = Flushed(chunk_table, fpos) /\ sample_table' = sample_table
            /\ chunk_table \in Seq(Chunks) /\ fpos \in Nat /\ chunk_table # <<>>
        BY <1>8, <3>1 DEF FlushLast, TypeInv
      <4>2. /\ Len(chunk_table') = n
            /\ \A c \in 1 .. n : c < n => chunk_table'[c] = chunk_table[c]
            /\ chunk_table'[n].size = chunk_table[n].size
            /\ chunk_table'[n].samples_per_chunk = chunk_table[n].samples_per_chunk
        BY <4>1, FlushedProperties
      <4>3. \A c \in 1 .. n : c < n \/ c = n
        BY <1>1
      <4>4. \A c \in 1 .. n :
              /\ chunk_table'[c].size = chunk_table[c].size
              /\ chunk_table'[c].samples_per_chunk = chunk_table[c].samples_per_chunk
        BY <4>2, <4>3
      <4> QED
        BY <1>0, <4>1, <4>2, <4>4, SharesKept
    <3>2. CASE ~HasUnwritten
      BY <1>0, <1>8, <3>2, SharesKept DEF FlushLast
    <3> QED
      BY <3>1, <3>2
  <2>2. chunk_table' # <<>>
    <3>1. CASE HasUnwritten
      <4>1. Flushed(chunk_table, fpos) # <<>>
        <5>1. Len(Flushed(chunk_table, fpos)) >= 1
          BY <1>8, FlushedProperties DEF FlushLast, TypeInv
        <5> QED
          BY <5>1, EmptySeq
      <4> QED
        BY <1>8, <3>1, <4>1 DEF FlushLast
    <3>2. CASE ~HasUnwritten
      BY <1>8, <3>2 DEF FlushLast
    <3> QED
      BY <3>1, <3>2
  <2> QED
    BY <1>0, <1>8, <2>1, <2>2 DEF FlushLast, ChunkInv, SampleInv
<1>9. CASE FinalizeMdat
  BY <1>2, <1>9 DEF FinalizeMdat
<1>10. CASE WriteMoov
  BY <1>2, <1>10 DEF WriteMoov
<1>11. CASE PatchMoov
  <2>1. /\ chunk_table' = Patched(chunk_table) /\ sample_table' = sample_table
        /\ chunk_table \in Seq(Chunks) /\ sample_table \in Seq(Nat)
    BY <1>11 DEF PatchMoov, TypeInv
  <2>2. /\ Len(chunk_table') = n
        /\ \A c \in 1 .. n :
             /\ chunk_table'[c].size = chunk_table[c].size
             /\ chunk_table'[c].samples_per_chunk = chunk_table[c].samples_per_chunk
    BY <2>1, PatchedProperties
  <2>3. SharesInv'
    BY <1>0, <2>1, <2>2, SharesKept
  <2>4. chunk_table' # <<>>
    <3>1. chunk_table # <<>> /\ n >= 1
      BY <1>0, <1>11, <2>1, EmptySeq DEF PatchMoov, SampleInv
    <3> QED
      BY <2>2, <3>1, EmptySeq
  <2> QED
    BY <1>0, <1>11, <2>3, <2>4 DEF PatchMoov, ChunkInv, SampleInv
<1>12. CASE ShiftBlock
  BY <1>2, <1>12 DEF ShiftBlock
<1>13. CASE ShiftHeader
  BY <1>2, <1>13 DEF ShiftHeader
<1>14. CASE WriteMoovInFront
  BY <1>2, <1>14 DEF WriteMoovInFront
<1>15. CASE Return
  BY <1>2, <1>15 DEF Return, ctxVars
<1>16. CASE UNCHANGED vars
  BY <1>2, <1>16 DEF vars, ctxVars
<1> QED
  BY <1>4, <1>5, <1>6, <1>7, <1>8, <1>9, <1>10, <1>11, <1>12, <1>13, <1>14, <1>15, <1>16
     DEF Next, Ended

-----------------------------------------------------------------------------
(***************************************************************************)
(* The boxes of the file.                                                  *)
(***************************************************************************)
\* A write that begins inside the file or at its end, as they all do.
LEMMA Written ==
  ASSUME TypeInv, NEW cells \in Seq(Cells), NEW pos \in Nat, file' = Put(file, pos, cells)
  PROVE  /\ FileEnd \in Nat /\ Len(cells) \in Nat
         /\ FileEnd' = IF pos + Len(cells) < FileEnd THEN FileEnd ELSE pos + Len(cells)
         /\ \A k \in 1 .. Len(cells) : file'[pos + k] = cells[k]
         /\ \A k \in 1 .. FileEnd :
              k <= pos \/ k > pos + Len(cells) => file'[k] = file[k]
<1>1. file \in Seq(Cells) /\ FileEnd \in Nat /\ Len(cells) \in Nat
  BY LenProperties DEF TypeInv, FileEnd
<1> QED
  BY <1>1, PutProperties DEF FileEnd

\* Steps that touch neither the file nor what its layout depends on.
LEMMA LayoutKept ==
  ASSUME TypeInv, Layout,
         file' = file, moovs' = moovs, mdat_pos' = mdat_pos, mdat_size' = mdat_size,
         optimize' = optimize, sample_table' = sample_table, chunk_table' = chunk_table,
         fpos' = fpos, shift' = shift, end' = end, pc' = pc
  PROVE  Layout'
<1>1. MoovSize(chunk_table)' = MoovSize(chunk_table) /\ FrontSize' = FrontSize
  BY MoovSizeUnchanged
<1>2. Tables(chunk_table)' = Tables(chunk_table)
  BY DEF Tables, StscEntries, IsCo64
<1>3. /\ FileEnd' = FileEnd /\ (OpenHeader => OpenHeader') /\ (ClosedHeader => ClosedHeader')
  BY DEF FileEnd, OpenHeader, ClosedHeader, FreeAt, IsLong
<1>4. MoovAt(FtypSize, Len(moovs)) => MoovAt(FtypSize, Len(moovs))'
  BY <1>1 DEF MoovAt, FtypSize
<1>5. MoovAt(mdat_pos + mdat_size, Len(moovs)) => MoovAt(mdat_pos + mdat_size, Len(moovs))'
  BY <1>1 DEF MoovAt
<1>6. FreeAt(FtypSize + MoovSize(chunk_table), Reserve)
        => FreeAt(FtypSize + MoovSize(chunk_table), Reserve)'
  BY <1>1 DEF FreeAt
<1> QED
  BY <1>1, <1>2, <1>3, <1>4, <1>5, <1>6 DEF Layout

\* The preamble.
LEMMA LayoutBegins ==
  ASSUME TypeInv, LayoutInv, BeginWrite, ~last_error'
  PROVE  Layout'
<1>1. Output(ferror, Preamble, 0, DataStart)
  BY DEF BeginWrite, Preamble, DataStart
<1>2. /\ file' = Put(file, 0, Preamble) /\ fpos' = DataStart
  BY <1>1, PreambleProperties, OutputEffect DEF TypeInv
<1>3. file = <<>> /\ moovs = <<>> /\ mdat_size = 0
  BY DEF LayoutInv, BeginWrite
<1>4. FileEnd = 0
  BY <1>3, EmptySeq DEF FileEnd
<1>5. Len(Preamble) = 12 /\ DataStart = 12
  BY PreambleProperties DEF DataStart, FtypSize, HeaderSize
<1>6. /\ FileEnd' = IF 0 + Len(Preamble) < FileEnd THEN FileEnd ELSE 0 + Len(Preamble)
      /\ \A k \in 1 .. Len(Preamble) : file'[0 + k] = Preamble[k]
  BY <1>2, PreambleProperties, Written
<1>7. FileEnd' = 12 /\ \A k \in 1 .. 12 : file'[k] = Preamble[k]
  BY <1>4, <1>5, <1>6
<1>8. /\ file'[1] = Size(FtypSize) /\ file'[2] = Type("ftyp")
      /\ file'[9] = Size(HeaderSize) /\ file'[10] = Type("free") /\ file'[12] = Type("mdat")
  BY <1>7, PreambleProperties
<1>9. pc' = "open" /\ mdat_pos' = 12 /\ mdat_size' = 0 /\ moovs' = <<>> /\ fpos' = 12
  BY <1>2, <1>3, <1>5 DEF BeginWrite
<1>10. OpenHeader'
  BY <1>8, <1>9 DEF OpenHeader, FreeAt, LongHeaderSize
<1> QED
  BY <1>5, <1>7, <1>8, <1>9, <1>10 DEF Layout

\* A chunk is appended to mdat.
LEMMA LayoutFlushed ==
  ASSUME TypeInv, Layout, pc = "open", pc' \in {"open", "mdat"},
         Output(ferror, chunk_buffer, fpos, fpos + Len(chunk_buffer)), ~last_error',
         mdat_size' = mdat_size + Len(chunk_buffer),
         mdat_pos' = mdat_pos, moovs' = moovs
  PROVE  Layout'
<1>1. /\ mdat_pos = 12 /\ FileEnd = mdat_pos + mdat_size /\ fpos = mdat_pos + mdat_size
      /\ OpenHeader /\ moovs = <<>> /\ DataStart = 12
      /\ file[1] = Size(FtypSize) /\ file[2] = Type("ftyp")
  BY DEF Layout, DataStart, FtypSize, HeaderSize
<1>2. /\ chunk_buffer \in Seq(Cells) /\ fpos \in Nat /\ mdat_size \in Nat
      /\ Len(chunk_buffer) \in Nat
  BY WrittenCells DEF TypeInv
<1>3. file' = Put(file, fpos, chunk_buffer) /\ fpos' = fpos + Len(chunk_buffer)
  BY <1>2, OutputEffect DEF TypeInv
<1>4. /\ FileEnd' = fpos + Len(chunk_buffer)
      /\ \A k \in 1 .. FileEnd : k <= fpos => file'[k] = file[k]
  BY <1>1, <1>2, <1>3, Written
<1>5. ASSUME NEW k \in 1 .. 12 PROVE file'[k] = file[k]
  <2>1. FileEnd >= 12 /\ fpos >= 12 /\ FileEnd \in Nat /\ fpos \in Nat
    BY <1>1, <1>2
  <2>2. k \in 1 .. FileEnd /\ k <= fpos
    BY <2>1
  <2> QED
    BY <1>4, <2>2
<1>6. OpenHeader'
  BY <1>1, <1>5 DEF OpenHeader, FreeAt, LongHeaderSize
<1>7. FileEnd' = mdat_pos' + mdat_size' /\ fpos' = mdat_pos' + mdat_size' /\ FileEnd' >= 12
  BY <1>1, <1>2, <1>3, <1>4
<1>8. file'[1] = Size(FtypSize) /\ file'[2] = Type("ftyp")
  BY <1>1, <1>5
<1> QED
  BY <1>1, <1>6, <1>7, <1>8 DEF Layout

\* m4af_finalize_mdat() behind the free box of the preamble.
LEMMA LayoutClosed ==
  ASSUME TypeInv, Layout, FinalizeMdat, ~last_error'
  PROVE  Layout'
<1> DEFINE cells == MdatHeader(mdat_pos).cells
           pos == MdatHeader(mdat_pos).pos
<1>1. /\ mdat_pos = 12 /\ FileEnd = mdat_pos + mdat_size
      /\ OpenHeader /\ moovs = <<>> /\ DataStart = 12
      /\ file[1] = Size(FtypSize) /\ file[2] = Type("ftyp")
  BY DEF Layout, FinalizeMdat, DataStart, FtypSize, HeaderSize
<1>2. mdat_size \in Nat /\ cells \in Seq(Cells) /\ pos \in Nat
  BY WrittenCells DEF TypeInv, FinalizeMdat
<1>3. file' = Put(file, pos, cells) /\ fpos' = mdat_pos + mdat_size
  <2>1. Output(ferror, cells, pos, mdat_pos + mdat_size)
    BY DEF FinalizeMdat
  <2> HIDE DEF cells, pos
  <2> QED
    BY <1>2, <2>1, OutputEffect DEF TypeInv
<1>4. mdat_pos' = 12 /\ mdat_size' = mdat_size /\ pc' = "moov" /\ moovs' = <<>>
  BY <1>1 DEF FinalizeMdat
<1>5. IsLong' = IsLong
  BY <1>4 DEF IsLong
<1>6. /\ IsLong => /\ pos = 8 /\ Len(cells) = 4
                   /\ cells[1] = Size(1) /\ cells[2] = Type("mdat")
                   /\ cells[3] = LongSize(mdat_size + LongHeaderSize)
      /\ ~IsLong => /\ pos = 10 /\ Len(cells) = 1
                    /\ cells[1] = Size(mdat_size + HeaderSize)
  BY <1>1, <1>2, MdatHeaderProperties
<1> HIDE DEF cells, pos
<1>7. /\ FileEnd' = IF pos + Len(cells) < FileEnd THEN FileEnd ELSE pos + Len(cells)
      /\ \A k \in 1 .. Len(cells) : file'[pos + k] = cells[k]
      /\ \A k \in 1 .. FileEnd : k <= pos \/ k > pos + Len(cells) => file'[k] = file[k]
  BY <1>2, <1>3, Written
<1>8. FileEnd' = 12 + mdat_size /\ file'[1] = file[1] /\ file'[2] = file[2]
  <2>1. pos + Len(cells) <= 12 /\ 2 <= pos
    <3>1. (pos = 8 /\ Len(cells) = 4) \/ (pos = 10 /\ Len(cells) = 1)
      BY <1>6
    <3>2. CASE pos = 8 /\ Len(cells) = 4
      BY <3>2
    <3>3. CASE pos = 10 /\ Len(cells) = 1
      BY <3>3
    <3> QED
      BY <3>1, <3>2, <3>3
  <2>2. 1 \in 1 .. FileEnd /\ 2 \in 1 .. FileEnd /\ FileEnd >= 12
    BY <1>1, <1>2
  <2> QED
    BY <1>1, <1>2, <1>6, <1>7, <2>1, <2>2
<1>9. ClosedHeader'
  <2>1. CASE IsLong
    <3>1. 1 \in 1 .. Len(cells) /\ 2 \in 1 .. Len(cells) /\ 3 \in 1 .. Len(cells)
      BY <1>6, <2>1
    <3>2. /\ file'[pos + 1] = Size(1) /\ file'[pos + 2] = Type("mdat")
          /\ file'[pos + 3] = LongSize(mdat_size + LongHeaderSize)
      BY <1>6, <1>7, <2>1, <3>1
    <3>3. /\ file'[9] = Size(1) /\ file'[10] = Type("mdat")
          /\ file'[11] = LongSize(mdat_size + LongHeaderSize)
      BY <1>6, <2>1, <3>2
    <3> QED
      BY <1>4, <1>5, <2>1, <3>3 DEF ClosedHeader
  <2>2. CASE ~IsLong
    <3>0. pos = 10 /\ Len(cells) = 1
      BY <1>6, <2>2
    <3>1. 1 \in 1 .. Len(cells) /\ 9 \in 1 .. FileEnd /\ 10 \in 1 .. FileEnd /\ 12 \in 1 .. FileEnd
      <4>1. FileEnd = 12 + mdat_size /\ mdat_size \in Nat
        BY <1>1, <1>2
      <4> QED
        BY <3>0, <4>1
    <3>2. file'[11] = Size(mdat_size + HeaderSize)
      BY <1>6, <1>7, <2>2, <3>1
    <3>3. file'[9] = file[9] /\ file'[10] = file[10] /\ file'[12] = file[12]
      <4>1. 9 <= pos /\ 10 <= pos /\ 12 > pos + Len(cells)
        BY <3>0
      <4> QED
        BY <1>7, <3>1, <4>1
    <3>4. /\ file[9] = Size(HeaderSize) /\ file[10] = Type("free") /\ file[12] = Type("mdat")
      BY <1>1 DEF OpenHeader, FreeAt, LongHeaderSize
    <3> QED
      BY <1>4, <1>5, <2>2, <3>2, <3>3, <3>4 DEF ClosedHeader, FreeAt, LongHeaderSize
  <2> QED
    BY <2>1, <2>2
<1> QED
  BY <1>1, <1>2, <1>3, <1>4, <1>8, <1>9 DEF Layout

\* A sample or the last flush, when nothing is written to the file.
LEMMA LayoutUnwritten ==
  ASSUME TypeInv, Layout, pc = "open", pc' \in {"open", "mdat"},
         file' = file, fpos' = fpos, moovs' = moovs, mdat_pos' = mdat_pos,
         mdat_size' = mdat_size
  PROVE  Layout'
<1>1. FileEnd' = FileEnd /\ (OpenHeader => OpenHeader')
  BY DEF FileEnd, OpenHeader, FreeAt
<1> QED
  BY <1>1 DEF Layout

\* Cells of the header of mdat that are left alone.
LEMMA ClosedHeaderKept ==
  ASSUME TypeInv, ClosedHeader, mdat_pos >= DataStart,
         mdat_pos' = mdat_pos, mdat_size' = mdat_size,
         \A k \in (mdat_pos - 3) .. mdat_pos : file'[k] = file[k]
  PROVE  ClosedHeader'
<1>1. mdat_pos \in Nat /\ mdat_pos >= 12
  BY DEF TypeInv, DataStart, FtypSize, HeaderSize
<1>2. /\ mdat_pos - 3 \in (mdat_pos - 3) .. mdat_pos
      /\ mdat_pos - 2 \in (mdat_pos - 3) .. mdat_pos
      /\ mdat_pos - 1 \in (mdat_pos - 3) .. mdat_pos
      /\ mdat_pos \in (mdat_pos - 3) .. mdat_pos
  BY <1>1
<1>3. /\ file'[mdat_pos - 3] = file[mdat_pos - 3] /\ file'[mdat_pos - 2] = file[mdat_pos - 2]
      /\ file'[mdat_pos - 1] = file[mdat_pos - 1] /\ file'[mdat_pos] = file[mdat_pos]
  BY <1>2
<1>4. IsLong' = IsLong
  BY DEF IsLong
<1>5. (mdat_pos - LongHeaderSize) + 1 = mdat_pos - 3 /\ (mdat_pos - LongHeaderSize) + 2 = mdat_pos - 2
  BY <1>1 DEF LongHeaderSize
<1> QED
  BY <1>3, <1>4, <1>5 DEF ClosedHeader, FreeAt

\* The moov box behind mdat.
LEMMA LayoutMoov ==
  ASSUME TypeInv, Layout, WriteMoov, ~last_error'
  PROVE  Layout'
<1> DEFINE cells == MoovBox(chunk_table, Len(moovs) + 1)
           size == MoovSize(chunk_table)
<1>1. /\ mdat_pos = 12 /\ FileEnd = mdat_pos + mdat_size /\ fpos = mdat_pos + mdat_size
      /\ ClosedHeader /\ moovs = <<>> /\ DataStart = 12 /\ pc = "moov"
      /\ file[1] = Size(FtypSize) /\ file[2] = Type("ftyp")
  BY DEF Layout, WriteMoov, DataStart, FtypSize, HeaderSize
<1>2. Len(moovs) = 0 /\ moovs' = <<Tables(chunk_table)>>
  BY <1>1, EmptySeq DEF WriteMoov
<1>3. /\ size \in Nat /\ size >= 2 /\ cells \in Seq(Cells) /\ Len(cells) = size
      /\ cells[1] = Size(size) /\ cells[2] = Type("moov")
      /\ \A k \in 1 .. (size - 2) : cells[2 + k] = Body(1, k)
  BY <1>2, MoovBoxProperties, MoovSizeType, LayoutAssumption DEF TypeInv, HeaderSize
<1>4. Output(ferror, cells, fpos, fpos + size)
  BY DEF WriteMoov
<1>5. /\ mdat_pos' = mdat_pos /\ mdat_size' = mdat_size /\ optimize' = optimize
      /\ chunk_table' = chunk_table /\ sample_table' = sample_table
      /\ pc' = IF optimize THEN "patch" ELSE "return"
  BY DEF WriteMoov
<1>6. mdat_size \in Nat /\ fpos \in Nat /\ optimize \in BOOLEAN
  BY DEF TypeInv
<1>7. MoovSize(chunk_table)' = size /\ Tables(chunk_table)' = Tables(chunk_table)
  BY <1>5, MoovSizeUnchanged DEF Tables, StscEntries, IsCo64
<1> HIDE DEF cells, size
<1>8. file' = Put(file, fpos, cells) /\ fpos' = fpos + size
  BY <1>3, <1>4, <1>6, OutputEffect DEF TypeInv
<1>9. /\ FileEnd' = IF fpos + size < FileEnd THEN FileEnd ELSE fpos + size
      /\ \A k \in 1 .. size : file'[fpos + k] = cells[k]
      /\ \A k \in 1 .. FileEnd : k <= fpos \/ k > fpos + size => file'[k] = file[k]
  BY <1>3, <1>6, <1>8, Written
<1>10. FileEnd' = 12 + mdat_size + size
  BY <1>1, <1>3, <1>6, <1>9
<1>11. ASSUME NEW k \in 1 .. 12 PROVE file'[k] = file[k]
  <2>1. k \in 1 .. FileEnd /\ k <= fpos
    BY <1>1, <1>6
  <2> QED
    BY <1>9, <2>1
<1>12. ClosedHeader'
  <2>1. \A k \in (mdat_pos - 3) .. mdat_pos : file'[k] = file[k]
    BY <1>1, <1>11
  <2>2. mdat_pos >= DataStart
    BY <1>1
  <2> QED
    BY <1>1, <1>5, <2>1, <2>2, ClosedHeaderKept
<1>13. file'[fpos + 1] = Size(size) /\ file'[fpos + 2] = Type("moov")
  <2>1. 1 \in 1 .. size /\ 2 \in 1 .. size
    BY <1>3
  <2> QED
    BY <1>3, <1>9, <2>1
<1>14. ASSUME NEW k \in 1 .. (size - 2) PROVE file'[fpos + 2 + k] = Body(1, k)
  <2>1. 2 + k \in 1 .. size /\ fpos + (2 + k) = fpos + 2 + k
    BY <1>3, <1>6
  <2>2. file'[fpos + (2 + k)] = cells[2 + k]
    BY <1>9, <2>1
  <2> QED
    BY <1>3, <2>1, <2>2
<1>15. moovs' # <<>> /\ Len(moovs') = 1 /\ moovs'[1] = Tables(chunk_table) /\ moovs' = <<moovs'[1]>>
  BY <1>2
<1>16. MoovAt(mdat_pos + mdat_size, Len(moovs))'
  BY <1>1, <1>5, <1>7, <1>13, <1>14, <1>15 DEF MoovAt, HeaderSize
<1>17. FileEnd' >= DataStart /\ file'[1] = Size(FtypSize) /\ file'[2] = Type("ftyp")
  BY <1>1, <1>3, <1>6, <1>10, <1>11
<1>18. CASE optimize
  <2>1. pc' = "patch" /\ optimize'
    BY <1>5, <1>18
  <2> QED
    BY <1>1, <1>5, <1>7, <1>10, <1>15, <1>17, <2>1 DEF Layout
<1>19. CASE ~optimize
  <2>1. pc' = "return" /\ ~optimize'
    BY <1>5, <1>19
  <2> QED
    BY <1>1, <1>5, <1>7, <1>10, <1>12, <1>15, <1>16, <1>17, <2>1 DEF Layout
<1> QED
  BY <1>18, <1>19

\* The offsets get ready for a moov box in front.
LEMMA LayoutPatched ==
  ASSUME TypeInv, Layout, PatchMoov
  PROVE  Layout'
<1> DEFINE size == MoovSize(chunk_table)
           patched == MoovSize(Patched(chunk_table))
<1>1. /\ mdat_pos = DataStart /\ FileEnd = mdat_pos + mdat_size + size
      /\ moovs = <<moovs[1]>> /\ optimize /\ pc = "patch" /\ FileEnd >= DataStart
      /\ file[1] = Size(FtypSize) /\ file[2] = Type("ftyp")
  BY DEF Layout, PatchMoov
<1>2. /\ mdat_pos' = mdat_pos /\ mdat_size' = mdat_size /\ moovs' = moovs /\ file' = file
      /\ optimize' = optimize /\ pc' = "shift" /\ end' = mdat_pos + mdat_size
      /\ shift' = patched + Reserve
  BY DEF PatchMoov, ioVars
<1>3. size \in Nat /\ patched \in Nat /\ size <= patched
  BY PatchedProperties DEF TypeInv
<1>4. mdat_pos \in Nat /\ mdat_size \in Nat /\ Reserve \in Nat
  BY LayoutAssumption DEF TypeInv
<1> HIDE DEF size, patched
<1>5. FileEnd' = FileEnd
  BY <1>2 DEF FileEnd
<1>6. /\ end' \in mdat_pos' .. (mdat_pos' + mdat_size')
      /\ FileEnd' >= mdat_pos' + mdat_size'
      /\ FileEnd' <= mdat_pos' + mdat_size' + shift'
      /\ ~(end' < mdat_pos' + mdat_size')
  BY <1>1, <1>2, <1>3, <1>4, <1>5
<1> QED
  BY <1>1, <1>2, <1>5, <1>6 DEF Layout

\* What ShiftBlock does when no read and no write fails.
LEMMA BlockShifted ==
  ASSUME TypeInv, ShiftBlock, ~last_error'
  PROVE  /\ end > mdat_pos /\ pc = "shift" /\ pc' = "shift" /\ end' = BlockBegin
         /\ file' = Put(file, BlockBegin + shift, Block)
         /\ UNCHANGED <<optimize, mdat_pos, mdat_size, sample_table, chunk_table,
                        chunk_buffer, moovs, shift>>
<1>1. PICK fault \in BOOLEAN :
        Output(ferror \/ fault,
               IF fault THEN [k \in 1 .. (end - BlockBegin) |-> Hole] ELSE Block,
               BlockBegin + shift, end + shift)
  BY DEF ShiftBlock
<1>2. /\ end > mdat_pos /\ pc = "shift" /\ pc' = "shift" /\ end' = BlockBegin
      /\ UNCHANGED <<optimize, mdat_pos, mdat_size, sample_table, chunk_table,
                     chunk_buffer, moovs, shift>>
  BY DEF ShiftBlock
<1> DEFINE cells == IF fault THEN [k \in 1 .. (end - BlockBegin) |-> Hole] ELSE Block
<1>3. cells \in Seq(Cells) /\ BlockBegin + shift \in Nat /\ (ferror \/ fault) \in BOOLEAN
  BY <1>2, BlockProperties DEF TypeInv
<1>4. Output(ferror \/ fault, cells, BlockBegin + shift, end + shift)
  BY <1>1
<1>5. ~fault => cells = Block
  OBVIOUS
<1> HIDE DEF cells
<1>6. ~(ferror \/ fault) /\ file' = Put(file, BlockBegin + shift, cells)
  BY <1>3, <1>4, OutputEffect DEF TypeInv
<1> QED
  BY <1>2, <1>5, <1>6

LEMMA LayoutShifted ==
  ASSUME TypeInv, Layout, ShiftBlock, ~last_error'
  PROVE  Layout'
<1>1. /\ end > mdat_pos /\ pc = "shift" /\ pc' = "shift" /\ end' = BlockBegin
      /\ file' = Put(file, BlockBegin + shift, Block)
      /\ mdat_pos' = mdat_pos /\ mdat_size' = mdat_size /\ shift' = shift
      /\ moovs' = moovs /\ optimize' = optimize
  BY BlockShifted
<1>2. /\ mdat_pos = DataStart /\ FileEnd >= DataStart /\ moovs = <<moovs[1]>> /\ optimize
      /\ file[1] = Size(FtypSize) /\ file[2] = Type("ftyp")
      /\ end \in mdat_pos .. (mdat_pos + mdat_size)
      /\ FileEnd >= mdat_pos + mdat_size
      /\ FileEnd <= mdat_pos + mdat_size + shift
      /\ end < mdat_pos + mdat_size => FileEnd = mdat_pos + mdat_size + shift
  BY <1>1 DEF Layout
<1>3. mdat_pos \in Nat /\ mdat_size \in Nat /\ shift \in Nat /\ end \in Nat
  BY DEF TypeInv
<1>4. /\ BlockBegin \in Nat /\ mdat_pos <= BlockBegin /\ BlockBegin < end
      /\ Block \in Seq(Cells) /\ Len(Block) = end - BlockBegin
  BY <1>1, BlockProperties
<1> DEFINE pos == BlockBegin + shift
<1>5. pos \in Nat
  BY <1>3, <1>4
<1>6. /\ FileEnd \in Nat
      /\ FileEnd' = IF pos + Len(Block) < FileEnd THEN FileEnd ELSE pos + Len(Block)
      /\ \A k \in 1 .. FileEnd : k <= pos \/ k > pos + Len(Block) => file'[k] = file[k]
  BY <1>1, <1>4, <1>5, Written
<1>7. FileEnd' = mdat_pos + mdat_size + shift
  <2>1. pos + Len(Block) = end + shift
    BY <1>3, <1>4
  <2>2. FileEnd' = IF end + shift < FileEnd THEN FileEnd ELSE end + shift
    BY <1>6, <2>1
  <2>3. CASE end < mdat_pos + mdat_size
    BY <1>2, <1>3, <2>2, <2>3
  <2>4. CASE end = mdat_pos + mdat_size
    BY <1>2, <1>3, <1>6, <2>2, <2>4
  <2> QED
    BY <1>2, <1>3, <2>3, <2>4
<1>8. file'[1] = file[1] /\ file'[2] = file[2]
  <2>1. mdat_pos >= 12
    BY <1>2 DEF DataStart, FtypSize, HeaderSize
  <2>2. 1 \in 1 .. FileEnd /\ 1 <= pos /\ 2 \in 1 .. FileEnd /\ 2 <= pos
    BY <1>2, <1>3, <1>4, <1>6, <2>1
  <2> QED
    BY <1>6, <2>2
<1>9. /\ end' \in mdat_pos' .. (mdat_pos' + mdat_size')
      /\ FileEnd' >= mdat_pos' + mdat_size'
      /\ FileEnd' <= mdat_pos' + mdat_size' + shift'
      /\ FileEnd' = mdat_pos' + mdat_size' + shift'
      /\ FileEnd' >= DataStart
  BY <1>1, <1>2, <1>3, <1>4, <1>7
<1> QED
  BY <1>1, <1>2, <1>8, <1>9 DEF Layout

\* The header of mdat at its new place.
LEMMA LayoutHeaderShifted ==
  ASSUME TypeInv, Layout, ShiftHeader, ~last_error'
  PROVE  Layout'
<1> DEFINE to == mdat_pos + shift
           cells == ShiftedHeader(to)
<1>1. /\ pc = "shift" /\ end = mdat_pos /\ pc' = "front" /\ mdat_pos' = to
      /\ Output(ferror, cells, to - LongHeaderSize, to + mdat_size)
      /\ UNCHANGED <<optimize, mdat_size, sample_table, chunk_table, moovs>>
  BY DEF ShiftHeader, ShiftedHeader
<1>2. /\ mdat_pos = DataStart /\ FileEnd >= DataStart /\ moovs = <<moovs[1]>> /\ optimize
      /\ file[1] = Size(FtypSize) /\ file[2] = Type("ftyp")
      /\ FileEnd >= mdat_pos + mdat_size
      /\ FileEnd <= mdat_pos + mdat_size + shift
      /\ end < mdat_pos + mdat_size => FileEnd = mdat_pos + mdat_size + shift
  BY <1>1 DEF Layout
<1>3. /\ mdat_size \in Nat /\ shift \in Nat /\ shift = FrontSize /\ DataStart = 12
      /\ FrontSize >= 4 /\ FrontSize' = FrontSize /\ FrontSize \in Nat
  <2>1. /\ MoovSize(chunk_table) \in Nat /\ MoovSize(chunk_table) >= MoovBase
        /\ MoovBase \in Nat /\ MoovBase >= 2 /\ Reserve \in Nat /\ Reserve >= 2
    BY MoovSizeType, LayoutAssumption DEF TypeInv
  <2>2. FrontSize \in Nat /\ FrontSize >= 4
    BY <2>1 DEF FrontSize
  <2> QED
    BY <1>1, <2>2, MoovSizeUnchanged DEF TypeInv, DataStart, FtypSize, HeaderSize
<1>4. to = 12 + shift /\ to \in Nat /\ to >= 16
  BY <1>2, <1>3
<1>5. /\ cells \in Seq(Cells) /\ Len(cells) = 4
      /\ IsLong => /\ cells[1] = Size(1) /\ cells[2] = Type("mdat")
                   /\ cells[3] = LongSize(mdat_size + LongHeaderSize)
      /\ ~IsLong => /\ cells[1] = Size(HeaderSize) /\ cells[2] = Type("free")
                    /\ cells[3] = Size(mdat_size + HeaderSize)
                    /\ cells[4] = Type("mdat")
  BY <1>3, <1>4, ShiftedHeaderProperties DEF LongHeaderSize
<1> HIDE DEF to, cells
<1>6. to - LongHeaderSize = to - 4 /\ to - 4 \in Nat
  BY <1>4 DEF LongHeaderSize
<1>7. file' = Put(file, to - 4, cells)
  BY <1>1, <1>5, <1>6, OutputEffect DEF TypeInv
<1>8. /\ FileEnd \in Nat
      /\ FileEnd' = IF (to - 4) + 4 < FileEnd THEN FileEnd ELSE (to - 4) + 4
      /\ \A k \in 1 .. 4 : file'[(to - 4) + k] = cells[k]
      /\ \A k \in 1 .. FileEnd : k <= to - 4 \/ k > (to - 4) + 4 => file'[k] = file[k]
  BY <1>5, <1>6, <1>7, Written
<1>9. FileEnd' = to + mdat_size
  BY <1>1, <1>2, <1>3, <1>4, <1>8
<1>10. file'[1] = file[1] /\ file'[2] = file[2]
  <2>1. 1 \in 1 .. FileEnd /\ 1 <= to - 4 /\ 2 \in 1 .. FileEnd /\ 2 <= to - 4
    BY <1>2, <1>3, <1>4, <1>8
  <2> QED
    BY <1>8, <2>1
<1>11. /\ file'[to - 3] = cells[1] /\ file'[to - 2] = cells[2]
       /\ file'[to - 1] = cells[3] /\ file'[to] = cells[4]
  <2>1. 1 \in 1 .. 4 /\ 2 \in 1 .. 4 /\ 3 \in 1 .. 4 /\ 4 \in 1 .. 4
    OBVIOUS
  <2>2. (to - 4) + 1 = to - 3 /\ (to - 4) + 2 = to - 2 /\ (to - 4) + 3 = to - 1 /\ (to - 4) + 4 = to
    BY <1>4
  <2>3. /\ file'[(to - 4) + 1] = cells[1] /\ file'[(to - 4) + 2] = cells[2]
        /\ file'[(to - 4) + 3] = cells[3] /\ file'[(to - 4) + 4] = cells[4]
    BY <1>8, <2>1
  <2> QED
    BY <2>2, <2>3
<1>12. IsLong' = IsLong
  BY <1>1 DEF IsLong
<1>13. ClosedHeader'
  <2>1. (to - LongHeaderSize) + 1 = to - 3 /\ (to - LongHeaderSize) + 2 = to - 2
    BY <1>4 DEF LongHeaderSize
  <2>2. CASE IsLong
    BY <1>1, <1>5, <1>11, <1>12, <2>2 DEF ClosedHeader
  <2>3. CASE ~IsLong
    BY <1>1, <1>5, <1>11, <1>12, <2>1, <2>3 DEF ClosedHeader, FreeAt
  <2> QED
    BY <2>2, <2>3
<1>14. /\ mdat_pos' = DataStart + FrontSize' /\ FileEnd' = mdat_pos' + mdat_size'
       /\ FileEnd' >= DataStart
  BY <1>1, <1>3, <1>4, <1>9
<1> QED
  BY <1>1, <1>2, <1>10, <1>13, <1>14 DEF Layout

\* The moov box in front, and the free box behind it.
LEMMA LayoutFront ==
  ASSUME TypeInv, Layout, WriteMoovInFront, ~last_error'
  PROVE  Layout'
<1> DEFINE size == MoovSize(chunk_table)
           cells == MoovBox(chunk_table, 2) \o FreeBox(Reserve)
<1>1. /\ pc = "front" /\ pc' = "return"
      /\ Output(ferror, MoovBox(chunk_table, Len(moovs) + 1) \o FreeBox(FreeSize(FtypSize + size)),
                FtypSize, mdat_pos - LongHeaderSize)
      /\ moovs' = Append(moovs, Tables(chunk_table))
      /\ UNCHANGED <<optimize, mdat_pos, mdat_size, sample_table, chunk_table>>
  BY DEF WriteMoovInFront
<1>2. /\ mdat_pos = DataStart + FrontSize /\ ClosedHeader /\ FileEnd = mdat_pos + mdat_size
      /\ moovs = <<moovs[1]>> /\ optimize
      /\ file[1] = Size(FtypSize) /\ file[2] = Type("ftyp")
  BY <1>1 DEF Layout
<1>3. /\ mdat_size \in Nat /\ size \in Nat /\ size >= 2 /\ Reserve \in Nat /\ Reserve >= 2
      /\ mdat_pos = 12 + (size + Reserve) /\ FtypSize = 8
  BY <1>2, MoovSizeType, LayoutAssumption
     DEF TypeInv, DataStart, FrontSize, FtypSize, HeaderSize
<1>4. /\ Len(moovs) = 1 /\ Len(moovs) + 1 = 2
      /\ moovs' = <<moovs[1], Tables(chunk_table)>>
  <2> DEFINE S == {moovs[1], Tables(chunk_table)}
  <2>1. moovs[1] \in S /\ Tables(chunk_table) \in S
    OBVIOUS
  <2> HIDE DEF S
  <2>2. Len(moovs) = 1 /\ Append(moovs, Tables(chunk_table)) = <<moovs[1], Tables(chunk_table)>>
    BY ONLY <1>2, <2>1, OneMore
  <2> QED
    BY <1>1, <2>2
<1>5. FreeSize(FtypSize + size) = Reserve
  BY <1>3 DEF FreeSize, LongHeaderSize
<1>6. /\ cells \in Seq(Cells) /\ Len(cells) = size + 2
      /\ cells[1] = Size(size) /\ cells[2] = Type("moov")
      /\ \A k \in 1 .. (size - 2) : cells[2 + k] = Body(2, k)
      /\ cells[size + 1] = Size(Reserve) /\ cells[size + 2] = Type("free")
  <2>1. chunk_table \in Seq(Chunks) /\ sample_table \in Seq(Nat) /\ 2 \in Nat /\ HeaderSize = 2
    BY DEF TypeInv, HeaderSize
  <2> QED
    BY <1>3, <2>1, FrontBoxes
<1>7. MoovSize(chunk_table)' = size /\ FrontSize' = FrontSize
  BY <1>1, MoovSizeUnchanged
<1>8. Tables(chunk_table)' = Tables(chunk_table)
  BY <1>1 DEF Tables, StscEntries, IsCo64
<1>9. /\ moovs' # <<>> /\ Len(moovs') = 2 /\ moovs'[Len(moovs')] = Tables(chunk_table)'
  <2>1. ASSUME NEW s, NEW t, NEW u, s = <<t, u>>
        PROVE  s # <<>> /\ Len(s) = 2 /\ s[Len(s)] = u
    BY <2>1
  <2>2. moovs' # <<>> /\ Len(moovs') = 2 /\ moovs'[Len(moovs')] = Tables(chunk_table)
    BY <1>4, <2>1
  <2> QED
    BY <1>8, <2>2
<1>10. Output(ferror, cells, 8, mdat_pos - LongHeaderSize)
  BY <1>1, <1>3, <1>4, <1>5
<1> HIDE DEF size, cells
<1>11. file' = Put(file, 8, cells)
  BY <1>6, <1>10, OutputEffect DEF TypeInv
<1>12. /\ FileEnd \in Nat
       /\ FileEnd' = IF 8 + (size + 2) < FileEnd THEN FileEnd ELSE 8 + (size + 2)
       /\ \A k \in 1 .. (size + 2) : file'[8 + k] = cells[k]
       /\ \A k \in 1 .. FileEnd : k <= 8 \/ k > 8 + (size + 2) => file'[k] = file[k]
  BY <1>6, <1>11, Written
<1>13. FileEnd' = FileEnd
  BY <1>2, <1>3, <1>12
<1>14. file'[1] = file[1] /\ file'[2] = file[2]
  <2>1. 1 \in 1 .. FileEnd /\ 2 \in 1 .. FileEnd
    BY <1>2, <1>3
  <2> QED
    BY <1>12, <2>1
<1>15. ClosedHeader'
  <2>1. ASSUME NEW k \in (mdat_pos - 3) .. mdat_pos PROVE file'[k] = file[k]
    <3>1. k \in 1 .. FileEnd /\ k > 8 + (size + 2)
      BY <1>2, <1>3
    <3> QED
      BY <1>12, <3>1
  <2>2. mdat_pos >= DataStart
    BY <1>3 DEF DataStart, FtypSize, HeaderSize
  <2> QED
    BY <1>1, <1>2, <2>1, <2>2, ClosedHeaderKept
<1>16. MoovAt(FtypSize, Len(moovs))'
  <2>1. 1 \in 1 .. (size + 2) /\ 2 \in 1 .. (size + 2)
    BY <1>3
  <2>2. file'[8 + 1] = Size(size) /\ file'[8 + 2] = Type("moov")
    BY <1>6, <1>12, <2>1
  <2>3. ASSUME NEW k \in 1 .. (size - 2) PROVE file'[8 + 2 + k] = Body(2, k)
    <3>1. 2 + k \in 1 .. (size + 2) /\ 8 + (2 + k) = 8 + 2 + k
      BY <1>3
    <3>2. file'[8 + (2 + k)] = cells[2 + k]
      BY <1>12, <3>1
    <3> QED
      BY <1>6, <3>1, <3>2
  <2> QED
    BY <1>3, <1>7, <1>9, <2>2, <2>3 DEF MoovAt, HeaderSize
<1>17. FreeAt(FtypSize + MoovSize(chunk_table), Reserve)'
  <2>1. size + 1 \in 1 .. (size + 2) /\ size + 2 \in 1 .. (size + 2)
    BY <1>3
  <2>2. 8 + (size + 1) = 8 + size + 1 /\ 8 + (size + 2) = 8 + size + 2
    BY <1>3
  <2>3. file'[8 + size + 1] = Size(Reserve) /\ file'[8 + size + 2] = Type("free")
    BY <1>6, <1>12, <2>1, <2>2
  <2> QED
    BY <1>3, <1>7, <2>3 DEF FreeAt
<1>18. FileEnd' >= DataStart /\ DataStart' = DataStart
  BY <1>2, <1>3, <1>13 DEF DataStart, FtypSize, HeaderSize
<1> QED
  BY <1>1, <1>2, <1>7, <1>9, <1>13, <1>14, <1>15, <1>16, <1>17, <1>18 DEF Layout

\* The end.
LEMMA LayoutReturned ==
  ASSUME TypeInv, Layout, Return
  PROVE  Layout'
<1>1. /\ pc = "return" /\ pc' = "end" /\ file' = file /\ moovs' = moovs
      /\ UNCHANGED <<optimize, mdat_pos, mdat_size, sample_table, chunk_table>>
  BY DEF Return, ctxVars, ioVars
<1>2. MoovSize(chunk_table)' = MoovSize(chunk_table) /\ FrontSize' = FrontSize
  BY <1>1, MoovSizeUnchanged
<1>3. Tables(chunk_table)' = Tables(chunk_table)
  BY <1>1 DEF Tables, StscEntries, IsCo64
<1>4. FileEnd' = FileEnd /\ (ClosedHeader => ClosedHeader')
  BY <1>1 DEF FileEnd, ClosedHeader, FreeAt, IsLong
<1>5. MoovAt(FtypSize, Len(moovs)) => MoovAt(FtypSize, Len(moovs))'
  BY <1>1, <1>2 DEF MoovAt, FtypSize
<1>6. MoovAt(mdat_pos + mdat_size, Len(moovs)) => MoovAt(mdat_pos + mdat_size, Len(moovs))'
  BY <1>1, <1>2 DEF MoovAt
<1>7. FreeAt(FtypSize + MoovSize(chunk_table), Reserve)
        => FreeAt(FtypSize + MoovSize(chunk_table), Reserve)'
  BY <1>1, <1>2 DEF FreeAt
<1> QED
  BY <1>1, <1>2, <1>3, <1>4, <1>5, <1>6, <1>7 DEF Layout

LEMMA LayoutInit == Init => LayoutInv
BY DEF Init, LayoutInv

LEMMA LayoutNext == TypeInv /\ TypeInv' /\ LayoutInv /\ [Next]_vars => LayoutInv'
<1> SUFFICES ASSUME TypeInv, TypeInv', LayoutInv, [Next]_vars PROVE LayoutInv'
  OBVIOUS
<1>1. CASE BeginWrite
  <2>1. pc' = "open"
    BY <1>1 DEF BeginWrite
  <2> QED
    BY <1>1, <2>1, LayoutBegins DEF LayoutInv
<1>2. ASSUME pc # "create", pc' # "create",
             last_error \in BOOLEAN, last_error => last_error',
             Layout /\ ~last_error' => Layout'
      PROVE  LayoutInv'
  BY <1>2 DEF LayoutInv
<1>3. ASSUME NEW size \in SampleSizes, WriteSample(size) PROVE LayoutInv'
  <2>1. /\ pc = "open" /\ pc' = "open" /\ last_error' = last_error
        /\ file' = file /\ fpos' = fpos /\ moovs' = moovs
        /\ mdat_pos' = mdat_pos /\ mdat_size' = mdat_size
    BY <1>3 DEF WriteSample, TakesSample, ioVars
  <2> QED
    BY <1>2, <2>1, LayoutUnwritten DEF TypeInv
<1>4. ASSUME NEW size \in SampleSizes, WriteSampleInNewChunk(size) PROVE LayoutInv'
  <2>1. pc = "open" /\ pc' = "open" /\ moovs' = moovs /\ mdat_pos' = mdat_pos /\ ~last_error
    BY <1>4 DEF WriteSampleInNewChunk, TakesSample
  <2>2. CASE HasUnwritten
    <3>1. /\ Output(ferror, chunk_buffer, fpos, fpos + Len(chunk_buffer))
          /\ mdat_size' = mdat_size + Len(chunk_buffer)
      BY <1>4, <2>2 DEF WriteSampleInNewChunk
    <3> QED
      BY <1>2, <2>1, <3>1, LayoutFlushed DEF TypeInv
  <2>3. CASE ~HasUnwritten
    <3>1. file' = file /\ fpos' = fpos /\ mdat_size' = mdat_size
      BY <1>4, <2>3 DEF WriteSampleInNewChunk
    <3> QED
      BY <1>2, <2>1, <3>1, LayoutUnwritten DEF TypeInv
  <2> QED
    BY <2>2, <2>3
<1>5. CASE WriteSampleFails
  BY <1>2, <1>5 DEF WriteSampleFails, TypeInv
<1>6. CASE FlushLast
  <2>1. pc = "open" /\ pc' = "mdat" /\ moovs' = moovs /\ mdat_pos' = mdat_pos /\ ~last_error
    BY <1>6 DEF FlushLast
  <2>2. CASE HasUnwritten
    <3>1. /\ Output(ferror, chunk_buffer, fpos, fpos + Len(chunk_buffer))
          /\ mdat_size' = mdat_size + Len(chunk_buffer)
      BY <1>6, <2>2 DEF FlushLast
    <3> QED
      BY <1>2, <2>1, <3>1, LayoutFlushed DEF TypeInv
  <2>3. CASE ~HasUnwritten
    <3>1. file' = file /\ fpos' = fpos /\ mdat_size' = mdat_size
      BY <1>6, <2>3 DEF FlushLast
    <3> QED
      BY <1>2, <2>1, <3>1, LayoutUnwritten DEF TypeInv
  <2> QED
    BY <2>2, <2>3
<1>7. CASE FinalizeMdat
  <2>1. pc = "mdat" /\ pc' = "moov" /\ last_error \in BOOLEAN /\ (last_error => last_error')
    BY <1>7 DEF FinalizeMdat, Output, TypeInv
  <2> QED
    BY <1>2, <1>7, <2>1, LayoutClosed
<1>8. CASE WriteMoov
  <2>1. /\ pc = "moov" /\ pc' # "create" /\ last_error \in BOOLEAN
        /\ last_error => last_error'
    BY <1>8 DEF WriteMoov, Output, TypeInv
  <2> QED
    BY <1>2, <1>8, <2>1, LayoutMoov
<1>9. CASE PatchMoov
  <2>1. pc = "patch" /\ pc' = "shift" /\ last_error \in BOOLEAN /\ last_error' = last_error
    BY <1>9 DEF PatchMoov, TypeInv
  <2> QED
    BY <1>2, <1>9, <2>1, LayoutPatched
<1>10. CASE ShiftBlock
  <2>1. /\ pc = "shift" /\ pc' = "shift" /\ last_error \in BOOLEAN
        /\ last_error => last_error'
    BY <1>10 DEF ShiftBlock, Output, TypeInv
  <2> QED
    BY <1>2, <1>10, <2>1, LayoutShifted
<1>11. CASE ShiftHeader
  <2>1. /\ pc = "shift" /\ pc' = "front" /\ last_error \in BOOLEAN
        /\ last_error => last_error'
    BY <1>11 DEF ShiftHeader, Output, TypeInv
  <2> QED
    BY <1>2, <1>11, <2>1, LayoutHeaderShifted
<1>12. CASE WriteMoovInFront
  <2>1. /\ pc = "front" /\ pc' = "return" /\ last_error \in BOOLEAN
        /\ last_error => last_error'
    BY <1>12 DEF WriteMoovInFront, Output, TypeInv
  <2> QED
    BY <1>2, <1>12, <2>1, LayoutFront
<1>13. CASE Return
  <2>1. pc = "return" /\ pc' = "end" /\ last_error \in BOOLEAN /\ last_error' = last_error
    BY <1>13 DEF Return, ctxVars, TypeInv
  <2> QED
    BY <1>2, <1>13, <2>1, LayoutReturned
<1>14. CASE UNCHANGED vars
  <2>1. /\ file' = file /\ moovs' = moovs /\ mdat_pos' = mdat_pos /\ mdat_size' = mdat_size
        /\ optimize' = optimize /\ sample_table' = sample_table
        /\ chunk_table' = chunk_table /\ chunk_buffer' = chunk_buffer
        /\ fpos' = fpos /\ shift' = shift /\ end' = end /\ pc' = pc
        /\ last_error' = last_error
    BY <1>14 DEF vars, ctxVars, ioVars
  <2> QED
    BY <2>1, LayoutKept DEF LayoutInv
<1>15. CASE Ended
  BY <1>14, <1>15 DEF Ended
<1> QED
  BY <1>1, <1>3, <1>4, <1>5, <1>6, <1>7, <1>8, <1>9, <1>10, <1>11, <1>12, <1>13, <1>14, <1>15
     DEF Next

-----------------------------------------------------------------------------
(***************************************************************************)
(* Offsets of the chunks.                                                  *)
(***************************************************************************)
\* Steps that leave the tables alone.
LEMMA OffsetsKept ==
  ASSUME TypeInv, OffsetInv, pc # "create", ~last_error, pc = "open" <=> pc' = "open",
         chunk_table' = chunk_table, sample_table' = sample_table,
         mdat_size' = mdat_size, chunk_buffer' = chunk_buffer, MdatBegin' = MdatBegin
  PROVE  OffsetInv'
<1>1. Begins' = Begins /\ Before' = Before
  BY DEF Begins, Before, Counts
<1>2. \A c : Placed(c)' <=> Placed(c)
  BY DEF Placed
<1> QED
  BY <1>1, <1>2 DEF OffsetInv

\* The first sample has nothing before it.
LEMMA OffsetBegins ==
  ASSUME TypeInv, SampleInv, LayoutInv, BeginWrite
  PROVE  OffsetInv'
<1>1. /\ sample_table' = <<>> /\ chunk_table' = <<>> /\ chunk_buffer' = <<>>
      /\ mdat_size' = 0 /\ pc' = "open"
  BY DEF BeginWrite, SampleInv, LayoutInv
<1>2. <<>> \in Seq(Nat) /\ Len(<<>>) = 0
  OBVIOUS
<1>3. Begins'[0] = 0
  BY <1>1, <1>2, SumsDef DEF Begins
<1>4. 1 .. Len(chunk_table') = {}
  BY <1>1, <1>2
<1>5. mdat_size' + Len(chunk_buffer') = Begins'[Len(sample_table')]
  BY <1>1, <1>2, <1>3
<1> QED
  BY <1>1, <1>4, <1>5 DEF OffsetInv

\* A sample joins the last chunk.
LEMMA OffsetWithSample ==
  ASSUME TypeInv, TypeInv', SharesInv, OffsetInv, NEW size \in SampleSizes,
         WriteSample(size)
  PROVE  OffsetInv'
<1> DEFINE n == Len(chunk_table)
           m == Len(sample_table)
<1>1. /\ pc = "open" /\ pc' = "open" /\ ~last_error
      /\ mdat_pos' = mdat_pos /\ mdat_size' = mdat_size
      /\ sample_table' = Append(sample_table, size)
      /\ chunk_buffer' = chunk_buffer \o SampleData(m + 1, size)
  BY DEF WriteSample, TakesSample
<1>2. /\ n \in Nat /\ n >= 1 /\ size \in Nat /\ Len(chunk_table') = n
      /\ \A c \in 1 .. n : c < n => chunk_table'[c] = chunk_table[c]
      /\ chunk_table'[n].samples_per_chunk = m - Before[n - 1] + 1
      /\ chunk_table'[n].size = Begins[m] - Begins[Before[n - 1]] + size
  BY ChunksAfterSample
<1>3. \A c \in 0 .. (n - 1) : Before'[c] = Before[c]
  <2> DEFINE k == n - 1
  <2>1. k \in 0 .. n /\ k + 1 = n /\ \A c \in 1 .. k : c \in 1 .. n /\ c < n
    BY <1>2
  <2>2. /\ Len(chunk_table') = k + 1
        /\ \A c \in 1 .. k : /\ chunk_table'[c].size = chunk_table[c].size
                             /\ chunk_table'[c].samples_per_chunk = chunk_table[c].samples_per_chunk
        /\ chunk_table'[k + 1].samples_per_chunk = m - Before[k] + 1
        /\ chunk_table'[k + 1].size = Begins[m] - Begins[Before[k]] + size
    BY <1>2, <2>1
  <2> HIDE DEF k
  <2>3. \A c \in 0 .. k : Before'[c] = Before[c]
    BY <1>1, <1>2, <2>1, <2>2, SharesGrow
  <2> QED
    BY <2>3 DEF k
<1>4. /\ m \in Nat /\ Len(sample_table') = m + 1
      /\ \A s \in 0 .. m : Begins'[s] = Begins[s]
      /\ Begins'[m + 1] = Begins[m] + size
  BY <1>1, <1>2, SampleTaken
<1>5. /\ \A c \in 0 .. n : Before[c] \in 0 .. m
      /\ \A s \in 0 .. m : Begins[s] \in Nat
  BY TablesInOrder
<1>6. /\ \A c \in 1 .. n : Placed(c) => chunk_table[c].offset = mdat_pos + Begins[Before[c - 1]]
      /\ mdat_size + Len(chunk_buffer) = Begins[m]
      /\ mdat_size = IF chunk_table = <<>> THEN 0 ELSE Begins[Before[n - 1]]
  BY <1>1 DEF OffsetInv, MdatBegin
<1>7. chunk_table # <<>> /\ chunk_table' # <<>>
  BY <1>2, EmptySeq
<1>8. Len(chunk_buffer') = Len(chunk_buffer) + size /\ Len(chunk_buffer) \in Nat /\ mdat_size \in Nat
  <2> DEFINE inMdat == SampleData(m + 1, size)
  <2>1. inMdat \in Seq(Cells) /\ Len(inMdat) = size
    BY <1>2, ChunkWithSample
  <2>2. chunk_buffer \in Seq(Cells) /\ chunk_buffer' = chunk_buffer \o inMdat
    BY <1>1 DEF TypeInv
  <2> HIDE DEF inMdat
  <2>3. Len(chunk_buffer') = Len(chunk_buffer) + size
    BY <2>1, <2>2, Joined
  <2> QED
    BY <2>3, WrittenCells DEF TypeInv
<1> HIDE DEF n, m
<1>9. ASSUME NEW c \in 0 .. (n - 1) PROVE Begins'[Before'[c]] = Begins[Before[c]]
  <2>1. c \in 0 .. n
    BY <1>2
  <2> QED
    BY <1>3, <1>4, <1>5, <2>1
<1>10. ASSUME NEW c \in 1 .. n, c < n
       PROVE  chunk_table'[c].offset = mdat_pos + Begins'[Before'[c - 1]]
  <2>1. c - 1 \in 0 .. (n - 1) /\ chunk_table'[c] = chunk_table[c]
    BY <1>2, <1>10
  <2>2. Placed(c)
    BY <1>10 DEF Placed, n
  <2> QED
    BY <1>6, <1>9, <2>1, <2>2
<1>11. mdat_size' + Len(chunk_buffer') = Begins'[m + 1]
  <2>1. Begins[m] = mdat_size + Len(chunk_buffer) /\ Begins'[m + 1] = Begins[m] + size
    BY <1>4, <1>6
  <2>2. mdat_size' = mdat_size /\ Len(chunk_buffer') = Len(chunk_buffer) + size
    BY <1>1, <1>8
  <2> QED
    BY <1>2, <1>8, <2>1, <2>2
<1>12. mdat_size' = Begins'[Before'[n - 1]]
  BY <1>1, <1>2, <1>6, <1>7, <1>9
<1>13. \A c : Placed(c)' <=> c < n
  BY <1>1, <1>2 DEF Placed
<1>14. MdatBegin' = mdat_pos
  BY <1>1 DEF MdatBegin
<1> QED
  BY <1>1, <1>2, <1>4, <1>7, <1>10, <1>11, <1>12, <1>13, <1>14 DEF OffsetInv

\* While samples are written the last chunk is the one in the buffer.
LEMMA LastChunk ==
  ASSUME TypeInv, SharesInv, OffsetInv, pc = "open", ~last_error, chunk_table # <<>>
  PROVE  LET n == Len(chunk_table)
             m == Len(sample_table)
         IN  /\ n \in Nat /\ n >= 1 /\ m \in Nat /\ m >= 1
             /\ Before[n - 1] \in 0 .. (m - 1) /\ Before[n] = m
             /\ mdat_size = Begins[Before[n - 1]]
             /\ chunk_table[n].size = Begins[m] - Begins[Before[n - 1]]
             /\ chunk_table[n].size = Len(chunk_buffer)
<1> DEFINE n == Len(chunk_table)
           m == Len(sample_table)
<1>1. /\ n \in Nat /\ m \in Nat /\ Before[n] = m
      /\ \A c \in 0 .. n : Before[c] \in 0 .. m
      /\ \A c \in 1 .. n : Before[c - 1] < Before[c] /\ c - 1 \in 0 .. n
      /\ \A s \in 0 .. m : Begins[s] \in Nat
  BY TablesInOrder
<1>2. /\ mdat_size + Len(chunk_buffer) = Begins[m]
      /\ mdat_size = Begins[Before[n - 1]]
  BY DEF OffsetInv
<1>3. Len(chunk_buffer) \in Nat /\ mdat_size \in Nat
  BY WrittenCells DEF TypeInv
<1>4. n >= 1
  <2>1. n # 0
    BY EmptySeq DEF TypeInv
  <2> QED
    BY <1>1, <2>1
<1>5. n \in 1 .. n /\ chunk_table[n].size = Begins[Before[n]] - Begins[Before[n - 1]]
  <2>1. n \in 1 .. n
    BY <1>1, <1>4
  <2> QED
    BY <2>1 DEF SharesInv
<1> HIDE DEF n, m
<1>6. Before[n - 1] < m /\ Before[n - 1] \in 0 .. m
  BY <1>1, <1>5
<1>7. Before[n - 1] \in 0 .. (m - 1) /\ m >= 1
  BY <1>1, <1>6
<1>8. chunk_table[n].size = Begins[m] - mdat_size /\ Begins[m] \in Nat
  <2>1. m \in 0 .. m
    BY <1>1
  <2> QED
    BY <1>1, <1>2, <1>5, <2>1
<1>9. chunk_table[n].size = Len(chunk_buffer)
  BY <1>2, <1>3, <1>8
<1> QED
  BY <1>1, <1>2, <1>4, <1>5, <1>7, <1>9 DEF n, m

\* A sample opens a chunk: no chunk is left without its offset, since only the
\* last sample of all may be empty.
LEMMA OffsetWithChunk ==
  ASSUME TypeInv, TypeInv', ChunkInv, LayoutInv, OffsetInv, NEW size \in SampleSizes,
         WriteSampleInNewChunk(size)
  PROVE  OffsetInv'
<1> DEFINE n == Len(chunk_table)
           m == Len(sample_table)
<1>0. SharesInv /\ SampleInv
  BY DEF ChunkInv
<1>1. /\ pc = "open" /\ pc' = "open" /\ ~last_error
      /\ mdat_pos' = mdat_pos
      /\ sample_table' = Append(sample_table, size)
      /\ chunk_buffer' = SampleData(m + 1, size)
      /\ mdat_size' = IF HasUnwritten THEN mdat_size + Len(chunk_buffer) ELSE mdat_size
      /\ sample_table # <<>> => Last(sample_table) # 0
  BY DEF WriteSampleInNewChunk, TakesSample
<1>2. /\ n \in Nat /\ size \in Nat /\ Len(chunk_table') = n + 1
      /\ \A c \in 1 .. n :
           /\ c < n \/ ~HasUnwritten => chunk_table'[c] = chunk_table[c]
           /\ c = n /\ HasUnwritten => chunk_table'[c].offset = fpos
           /\ chunk_table'[c].size = chunk_table[c].size
           /\ chunk_table'[c].samples_per_chunk = chunk_table[c].samples_per_chunk
      /\ chunk_table'[n + 1].samples_per_chunk = 1
      /\ chunk_table'[n + 1].size = size
  BY <1>0, ChunksAfterNewChunk
<1>3. /\ n \in Nat /\ m \in Nat /\ Before[n] = m
      /\ \A c \in 0 .. n : Before[c] \in 0 .. m
      /\ \A s \in 0 .. m : Begins[s] \in Nat
      /\ \A s \in 1 .. m : Begins[s] = Begins[s - 1] + sample_table[s]
                           /\ sample_table[s] \in Nat /\ s - 1 \in 0 .. m
      /\ \A s \in 0 .. m : \A t \in s .. m : Begins[s] <= Begins[t]
  BY <1>0, TablesInOrder
<1>4. \A c \in 0 .. n : Before'[c] = Before[c]
  <2>1. /\ n \in 0 .. n
        /\ chunk_table'[n + 1].samples_per_chunk = m - Before[n] + 1
        /\ chunk_table'[n + 1].size = Begins[m] - Begins[Before[n]] + size
    <3>1. m \in 0 .. m /\ Begins[m] \in Nat
      BY <1>3
    <3> QED
      BY <1>2, <1>3, <3>1
  <2> QED
    BY <1>0, <1>1, <1>2, <2>1, SharesGrow
<1>5. /\ Len(sample_table') = m + 1
      /\ \A s \in 0 .. m : Begins'[s] = Begins[s]
      /\ Begins'[m + 1] = Begins[m] + size
  BY <1>1, <1>2, SampleTaken
<1>6. /\ \A c \in 1 .. n : Placed(c) => chunk_table[c].offset = mdat_pos + Begins[Before[c - 1]]
      /\ mdat_size + Len(chunk_buffer) = Begins[m]
      /\ mdat_size = IF chunk_table = <<>> THEN 0 ELSE Begins[Before[n - 1]]
  BY <1>1 DEF OffsetInv, MdatBegin
<1>7. fpos = mdat_pos + mdat_size
  BY <1>1 DEF LayoutInv, Layout
<1>8. /\ Len(chunk_buffer') = size /\ Len(chunk_buffer) \in Nat /\ mdat_size \in Nat
  BY <1>1, <1>2, ChunkWithSample, WrittenCells DEF TypeInv
<1>9. ~HasUnwritten => n = 0 /\ chunk_buffer = <<>>
  <2> SUFFICES ASSUME ~HasUnwritten PROVE n = 0 /\ chunk_buffer = <<>>
    OBVIOUS
  <2>1. CASE chunk_table = <<>>
    <3>1. n = 0
      BY <2>1, EmptySeq
    <3>2. m = 0 /\ mdat_size = 0
      BY <1>3, <1>0, <2>1, <3>1, TablesInOrder, <1>6
    <3>3. Begins[0] = 0
      BY <1>0, TablesInOrder
    <3>4. Len(chunk_buffer) = 0
      BY <1>6, <1>8, <3>2, <3>3
    <3> QED
      BY <3>1, <3>4, EmptySeq DEF TypeInv
  <2>2. CASE chunk_table # <<>>
    <3>1. chunk_buffer = <<>>
      BY <2>2 DEF HasUnwritten
    <3>2. /\ m >= 1 /\ Before[n - 1] \in 0 .. (m - 1)
          /\ mdat_size = Begins[Before[n - 1]]
      BY <1>0, <1>1, <2>2, LastChunk
    <3>3. Begins[m] = Begins[Before[n - 1]]
      <4>1. Len(chunk_buffer) = 0
        BY <3>1, EmptySeq
      <4> QED
        BY <1>6, <1>8, <3>2, <4>1
    <3>4. sample_table[m] # 0
      <4>1. sample_table # <<>>
        BY <3>2, EmptySeq
      <4> QED
        BY <1>1, <4>1 DEF Last
    <3> HIDE DEF n, m
    <3>5. m \in 1 .. m /\ m - 1 \in 0 .. m /\ m - 1 \in Before[n - 1] .. m /\ Before[n - 1] \in 0 .. m
      BY <1>3, <3>2
    <3>6. /\ Begins[m] = Begins[m - 1] + sample_table[m] /\ sample_table[m] \in Nat
          /\ Begins[Before[n - 1]] <= Begins[m - 1]
          /\ Begins[m - 1] \in Nat /\ Begins[Before[n - 1]] \in Nat
      BY <1>3, <3>5
    <3> QED
      BY <3>3, <3>4, <3>6
  <2> QED
    BY <2>1, <2>2
<1>10. mdat_size' = Begins[m]
  <2>1. CASE HasUnwritten
    BY <1>1, <1>6, <2>1
  <2>2. CASE ~HasUnwritten
    <3>1. Len(chunk_buffer) = 0
      BY <1>9, <2>2, EmptySeq
    <3> QED
      BY <1>1, <1>6, <1>8, <2>2, <3>1
  <2> QED
    BY <2>1, <2>2
<1>11. ASSUME NEW c \in 1 .. n
       PROVE  chunk_table'[c].offset = mdat_pos + Begins'[Before'[c - 1]]
  <2>1. c - 1 \in 0 .. n
    BY <1>2
  <2>2. Begins'[Before'[c - 1]] = Begins[Before[c - 1]]
    BY <1>3, <1>4, <1>5, <2>1
  <2>3. CASE c < n
    <3>1. Placed(c) /\ chunk_table'[c] = chunk_table[c]
      BY <1>2, <2>3 DEF Placed
    <3> QED
      BY <1>6, <2>2, <3>1
  <2>4. CASE c = n
    <3>1. HasUnwritten
      BY <1>2, <1>9, <2>4
    <3>2. chunk_table'[c].offset = fpos /\ chunk_table # <<>>
      BY <1>2, <2>4, <3>1 DEF HasUnwritten
    <3> QED
      BY <1>6, <1>7, <2>2, <2>4, <3>2
  <2> QED
    BY <1>2, <2>3, <2>4
<1>12. \A c \in 1 .. (n + 1) : Placed(c)' => c \in 1 .. n
  BY <1>1, <1>2 DEF Placed
<1>13. MdatBegin' = mdat_pos
  BY <1>1 DEF MdatBegin
<1>14. chunk_table' # <<>>
  BY <1>2, EmptySeq
<1>15. mdat_size' = Begins'[Before'[n]]
  <2>1. n \in 0 .. n /\ m \in 0 .. m
    BY <1>3
  <2> QED
    BY <1>3, <1>4, <1>5, <1>10, <2>1
<1>16. mdat_size' + Len(chunk_buffer') = Begins'[m + 1]
  BY <1>5, <1>8, <1>10
<1> HIDE DEF n, m
<1>17. /\ \A c \in 1 .. Len(chunk_table') :
            Placed(c)' => chunk_table'[c].offset = MdatBegin' + Begins'[Before'[c - 1]]
  BY <1>2, <1>11, <1>12, <1>13
<1>18. mdat_size' = Begins'[Before'[Len(chunk_table') - 1]]
  BY <1>2, <1>15
<1> QED
  BY <1>1, <1>5, <1>14, <1>16, <1>17, <1>18 DEF OffsetInv

\* The last chunk gets its offset, unless it is empty.
LEMMA OffsetFlushed ==
  ASSUME TypeInv, TypeInv', ChunkInv, LayoutInv, OffsetInv, FlushLast
  PROVE  OffsetInv'
<1> DEFINE n == Len(chunk_table)
           m == Len(sample_table)
<1>0. SharesInv
  BY DEF ChunkInv
<1>1. /\ pc = "open" /\ pc' = "mdat" /\ ~last_error /\ chunk_table # <<>>
      /\ mdat_pos' = mdat_pos /\ sample_table' = sample_table /\ chunk_buffer' = <<>>
      /\ chunk_table' = IF HasUnwritten THEN Flushed(chunk_table, fpos) ELSE chunk_table
      /\ mdat_size' = IF HasUnwritten THEN mdat_size + Len(chunk_buffer) ELSE mdat_size
  BY DEF FlushLast
<1>2. /\ n \in Nat /\ n >= 1 /\ m \in Nat /\ m >= 1
      /\ Before[n - 1] \in 0 .. (m - 1) /\ Before[n] = m
      /\ mdat_size = Begins[Before[n - 1]]
      /\ chunk_table[n].size = Len(chunk_buffer)
  BY <1>0, <1>1, LastChunk
<1>3. /\ Len(chunk_table') = n
      /\ \A c \in 1 .. n :
           /\ c < n => chunk_table'[c] = chunk_table[c]
           /\ chunk_table'[c].size = chunk_table[c].size
           /\ chunk_table'[c].samples_per_chunk = chunk_table[c].samples_per_chunk
      /\ HasUnwritten => chunk_table'[n].offset = fpos
  <2>1. CASE HasUnwritten
    <3>1. chunk_table' = Flushed(chunk_table, fpos)
      BY <1>1, <2>1
    <3>2. /\ Len(Flushed(chunk_table, fpos)) = n
          /\ \A c \in 1 .. n : c < n => Flushed(chunk_table, fpos)[c] = chunk_table[c]
          /\ Flushed(chunk_table, fpos)[n].offset = fpos
          /\ Flushed(chunk_table, fpos)[n].size = chunk_table[n].size
          /\ Flushed(chunk_table, fpos)[n].samples_per_chunk = chunk_table[n].samples_per_chunk
      BY <1>1, FlushedProperties DEF TypeInv
    <3>3. \A c \in 1 .. n : c < n \/ c = n
      BY <1>2
    <3> HIDE DEF n
    <3> QED
      BY <3>1, <3>2, <3>3
  <2>2. CASE ~HasUnwritten
    BY <1>1, <2>2
  <2> QED
    BY <2>1, <2>2
<1>4. Begins' = Begins /\ \A c \in 0 .. n : Before'[c] = Before[c]
  BY <1>0, <1>1, <1>3, SharesKept
<1>5. /\ \A c \in 1 .. n : Placed(c) => chunk_table[c].offset = mdat_pos + Begins[Before[c - 1]]
      /\ mdat_size + Len(chunk_buffer) = Begins[m]
  BY <1>1 DEF OffsetInv, MdatBegin
<1>6. fpos = mdat_pos + mdat_size
  BY <1>1 DEF LayoutInv, Layout
<1>7. Len(chunk_buffer) \in Nat /\ mdat_size \in Nat
  BY WrittenCells DEF TypeInv
<1>8. ~HasUnwritten => Len(chunk_buffer) = 0
  BY <1>1, EmptySeq DEF HasUnwritten
<1>9. mdat_size' + Len(chunk_buffer') = Begins'[m]
  <2>1. Len(chunk_buffer') = 0
    BY <1>1, EmptySeq
  <2> QED
    BY <1>1, <1>4, <1>5, <1>7, <1>8, <2>1
<1>10. ASSUME NEW c \in 1 .. n, Placed(c)'
       PROVE  chunk_table'[c].offset = mdat_pos + Begins'[Before'[c - 1]]
  <2>1. c - 1 \in 0 .. n
    BY <1>2
  <2>2. CASE c < n
    <3>1. Placed(c) /\ chunk_table'[c] = chunk_table[c]
      BY <1>3, <2>2 DEF Placed
    <3> QED
      BY <1>4, <1>5, <2>1, <3>1
  <2>3. CASE c = n
    <3>1. chunk_table[n].size > 0
      BY <1>2, <1>3, <1>10, <2>3 DEF Placed
    <3>2. HasUnwritten
      BY <1>2, <1>8, <3>1
    <3> QED
      BY <1>2, <1>3, <1>4, <1>6, <2>1, <2>3, <3>2
  <2> QED
    BY <1>2, <2>2, <2>3
<1>11. MdatBegin' = mdat_pos
  BY <1>1 DEF MdatBegin
<1> HIDE DEF n, m
<1> QED
  BY <1>1, <1>3, <1>9, <1>10, <1>11 DEF OffsetInv, m

\* Patching keeps the offsets in step with the move of mdat.
LEMMA OffsetPatched ==
  ASSUME TypeInv, TypeInv', ChunkInv, OffsetInv, PatchMoov, ~last_error
  PROVE  OffsetInv'
<1> DEFINE n == Len(chunk_table)
           by == MoovSize(Patched(chunk_table)) + Reserve
<1>1. /\ pc = "patch" /\ pc' = "shift" /\ chunk_table' = Patched(chunk_table)
      /\ shift' = by /\ UNCHANGED <<mdat_pos, mdat_size, sample_table, chunk_buffer>>
  BY DEF PatchMoov
<1>2. /\ Len(chunk_table') = n /\ by \in Nat
      /\ \A c \in 1 .. n :
           /\ chunk_table'[c].offset = chunk_table[c].offset + by
           /\ chunk_table'[c].size = chunk_table[c].size
           /\ chunk_table'[c].samples_per_chunk = chunk_table[c].samples_per_chunk
  BY <1>1, PatchedProperties, LayoutAssumption DEF TypeInv
<1> HIDE DEF by
<1>3. Begins' = Begins /\ \A c \in 0 .. n : Before'[c] = Before[c]
  BY <1>1, <1>2, SharesKept DEF ChunkInv
<1>4. /\ \A c \in 1 .. n : Placed(c) => chunk_table[c].offset = mdat_pos + Begins[Before[c - 1]]
      /\ mdat_size + Len(chunk_buffer) = Begins[Len(sample_table)]
      /\ chunk_buffer = <<>>
  BY <1>1 DEF OffsetInv, MdatBegin
<1>5. MdatBegin' = mdat_pos + by
  BY <1>1 DEF MdatBegin
<1>6. /\ n \in Nat
      /\ \A c \in 0 .. n : Begins[Before[c]] \in Nat
  BY TablesInOrder DEF ChunkInv
<1>7. ASSUME NEW c \in 1 .. n, Placed(c)'
      PROVE  chunk_table'[c].offset = MdatBegin' + Begins'[Before'[c - 1]]
  <2>1. Placed(c)
    BY <1>1, <1>2, <1>7 DEF Placed
  <2>2. c - 1 \in 0 .. n
    BY <1>6
  <2>3. /\ chunk_table[c].offset = mdat_pos + Begins[Before[c - 1]]
        /\ Begins'[Before'[c - 1]] = Begins[Before[c - 1]] /\ Begins[Before[c - 1]] \in Nat
    BY <1>3, <1>4, <1>6, <2>1, <2>2
  <2>4. mdat_pos \in Nat
    BY DEF TypeInv
  <2> QED
    BY <1>2, <1>5, <2>3, <2>4
<1> HIDE DEF n
<1> QED
  BY <1>1, <1>2, <1>3, <1>4, <1>7 DEF OffsetInv

LEMMA OffsetInit == Init => OffsetInv
BY DEF Init, OffsetInv

LEMMA OffsetNext ==
  TypeInv /\ TypeInv' /\ ChunkInv /\ LayoutInv /\ OffsetInv /\ [Next]_vars => OffsetInv'
<1> SUFFICES ASSUME TypeInv, TypeInv', ChunkInv, LayoutInv, OffsetInv, [Next]_vars
             PROVE  OffsetInv'
  OBVIOUS
<1>0. SharesInv /\ SampleInv
  BY DEF ChunkInv
<1>1. CASE BeginWrite
  BY <1>0, <1>1, OffsetBegins
<1>2. ASSUME NEW size \in SampleSizes, WriteSample(size) PROVE OffsetInv'
  BY <1>0, <1>2, OffsetWithSample
<1>3. ASSUME NEW size \in SampleSizes, WriteSampleInNewChunk(size) PROVE OffsetInv'
  BY <1>3, OffsetWithChunk
<1>4. CASE WriteSampleFails
  BY <1>4 DEF WriteSampleFails, OffsetInv
<1>5. CASE FlushLast
  BY <1>5, OffsetFlushed
<1>6. ASSUME chunk_table' = chunk_table, sample_table' = sample_table,
             mdat_size' = mdat_size, chunk_buffer' = chunk_buffer, MdatBegin' = MdatBegin,
             pc # "create", pc = "open" <=> pc' = "open", last_error => last_error'
      PROVE  OffsetInv'
  <2>1. CASE last_error
    BY <1>6, <2>1 DEF OffsetInv
  <2>2. CASE ~last_error
    BY <1>6, <2>2, OffsetsKept
  <2> QED
    BY <2>1, <2>2
<1>7. CASE FinalizeMdat
  BY <1>6, <1>7 DEF FinalizeMdat, Output, MdatBegin
<1>8. CASE WriteMoov
  BY <1>6, <1>8 DEF WriteMoov, Output, MdatBegin
<1>9. CASE PatchMoov
  <2>1. CASE last_error
    BY <1>9, <2>1 DEF OffsetInv, PatchMoov
  <2>2. CASE ~last_error
    BY <1>9, <2>2, OffsetPatched
  <2> QED
    BY <2>1, <2>2
<1>10. CASE ShiftBlock
  BY <1>6, <1>10 DEF ShiftBlock, Output, MdatBegin
<1>11. CASE ShiftHeader
  BY <1>6, <1>11 DEF ShiftHeader, Output, MdatBegin
<1>12. CASE WriteMoovInFront
  BY <1>6, <1>12 DEF WriteMoovInFront, Output, MdatBegin
<1>13. CASE Return
  BY <1>6, <1>13 DEF Return, ctxVars, MdatBegin
<1>14. CASE UNCHANGED vars
  <2>1. /\ chunk_table' = chunk_table /\ sample_table' = sample_table
        /\ mdat_size' = mdat_size /\ chunk_buffer' = chunk_buffer /\ MdatBegin' = MdatBegin
        /\ pc' = pc /\ last_error' = last_error
    BY <1>14 DEF vars, ctxVars, MdatBegin
  <2>2. CASE pc = "create"
    BY <2>1, <2>2 DEF OffsetInv
  <2> QED
    BY <1>6, <2>1, <2>2
<1>15. CASE Ended
  BY <1>14, <1>15 DEF Ended
<1> QED
  BY <1>1, <1>2, <1>3, <1>4, <1>5, <1>7, <1>8, <1>9, <1>10, <1>11, <1>12, <1>13, <1>14, <1>15
     DEF Next

LEMMA TileHolds ==
  TypeInv /\ ChunkInv /\ LayoutInv /\ OffsetInv => ChunksTile
<1> SUFFICES ASSUME TypeInv, ChunkInv, LayoutInv, OffsetInv,
                    pc \notin {"create", "end"}, ~last_error, Len(chunk_table) > 0
             PROVE  LET n == Len(chunk_table)
                        written == IF pc = "open" \/ chunk_table[n].size = 0 THEN n - 1 ELSE n
                        begin == IF pc = "shift" THEN mdat_pos + shift ELSE mdat_pos
                    IN  /\ written > 0 => chunk_table[1].offset = begin
                        /\ \A c \in 2 .. written :
                             chunk_table[c].offset
                               = chunk_table[c - 1].offset + chunk_table[c - 1].size
                        /\ IF written > 0
                             THEN begin + mdat_size
                                    = chunk_table[written].offset + chunk_table[written].size
                             ELSE mdat_size = 0
                        /\ pc = "open" => /\ fpos = mdat_pos + mdat_size
                                          /\ chunk_table[n].size = Len(chunk_buffer)
  BY DEF ChunksTile
<1> DEFINE n == Len(chunk_table)
           m == Len(sample_table)
           written == IF pc = "open" \/ chunk_table[n].size = 0 THEN n - 1 ELSE n
           start(c) == Begins[Before[c]]
<1>1. MdatBegin = IF pc = "shift" THEN mdat_pos + shift ELSE mdat_pos
  BY DEF MdatBegin
<1>2. /\ n \in Nat /\ start(n) = Begins[m] /\ start(0) = 0
      /\ \A c \in 0 .. n : start(c) \in Nat
      /\ \A c \in 1 .. n : c - 1 \in 0 .. n
  BY TablesInOrder DEF ChunkInv
<1>3. \A c \in 1 .. n : chunk_table[c].size = start(c) - start(c - 1)
  BY DEF ChunkInv, SharesInv
<1>4. /\ \A c \in 1 .. n : Placed(c) => chunk_table[c].offset = MdatBegin + start(c - 1)
      /\ mdat_size + Len(chunk_buffer) = Begins[m]
      /\ pc = "open" => mdat_size = IF chunk_table = <<>> THEN 0 ELSE start(n - 1)
      /\ pc # "open" => chunk_buffer = <<>>
  BY DEF OffsetInv
<1>5. chunk_table # <<>> /\ n >= 1 /\ MdatBegin \in Nat /\ mdat_size \in Nat
  BY <1>2, EmptySeq DEF TypeInv, MdatBegin
<1>6. \A c \in 1 .. n : /\ chunk_table[c].size \in Nat /\ chunk_table[c] \in Chunks
                        /\ Placed(c) <=> c <= written
  <2>1. \A c \in 1 .. n : chunk_table[c].size \in Nat /\ chunk_table[c] \in Chunks
    BY CountsProperties DEF TypeInv
  <2>2. ASSUME NEW c \in 1 .. n PROVE Placed(c) <=> c <= written
    <3>1. CASE c < n
      BY <1>5, <3>1 DEF Placed
    <3>2. CASE c = n
      BY <1>5, <2>1, <3>2 DEF Placed
    <3> QED
      BY <1>2, <3>1, <3>2
  <2> QED
    BY <2>1, <2>2
<1>7. mdat_size = start(written)
  <2>1. CASE pc = "open"
    BY <1>4, <1>5, <2>1
  <2>2. CASE pc # "open"
    <3>1. mdat_size = start(n)
      BY <1>2, <1>4, <1>5, <2>2, EmptySeq
    <3>2. CASE chunk_table[n].size = 0
      <4>1. n \in 1 .. n /\ n - 1 \in 0 .. n /\ n \in 0 .. n
        BY <1>5
      <4>2. start(n) = start(n - 1)
        BY <1>2, <1>3, <3>2, <4>1
      <4> QED
        BY <3>1, <3>2, <4>2
    <3>3. CASE chunk_table[n].size # 0
      BY <2>2, <3>1, <3>3
    <3> QED
      BY <3>2, <3>3
  <2> QED
    BY <2>1, <2>2
<1>8. written \in 0 .. n
  BY <1>2, <1>5
<1>9. pc = "open" => fpos = mdat_pos + mdat_size /\ chunk_table[n].size = Len(chunk_buffer)
  BY <1>5, LastChunk DEF LayoutInv, Layout, ChunkInv
<1> HIDE DEF n, m, written, start
<1>10. ASSUME NEW c \in 1 .. written PROVE chunk_table[c].offset = MdatBegin + start(c - 1)
  <2>1. c \in 1 .. n /\ c <= written
    BY <1>2, <1>8
  <2>2. Placed(c)
    BY <1>6, <2>1
  <2> QED
    BY <1>4, <2>1, <2>2
<1>11. written > 0 => chunk_table[1].offset = MdatBegin
  <2> SUFFICES ASSUME written > 0 PROVE chunk_table[1].offset = MdatBegin
    OBVIOUS
  <2>1. 1 \in 1 .. written /\ 1 - 1 = 0
    BY <1>8
  <2> QED
    BY <1>2, <1>5, <1>10, <2>1
<1>12. ASSUME NEW c \in 2 .. written
       PROVE  chunk_table[c].offset = chunk_table[c - 1].offset + chunk_table[c - 1].size
  <2>1. /\ c \in 1 .. written /\ c - 1 \in 1 .. written /\ c - 1 \in 1 .. n
        /\ c - 1 \in 0 .. n /\ (c - 1) - 1 \in 0 .. n
    BY <1>2, <1>8
  <2>2. /\ chunk_table[c].offset = MdatBegin + start(c - 1)
        /\ chunk_table[c - 1].offset = MdatBegin + start((c - 1) - 1)
        /\ chunk_table[c - 1].size = start(c - 1) - start((c - 1) - 1)
    BY <1>3, <1>10, <2>1
  <2>3. start(c - 1) \in Nat /\ start((c - 1) - 1) \in Nat
    BY <1>2, <2>1
  <2> QED
    BY <1>5, <2>2, <2>3
<1>13. written > 0 =>
         MdatBegin + mdat_size = chunk_table[written].offset + chunk_table[written].size
  <2> SUFFICES ASSUME written > 0
               PROVE  MdatBegin + mdat_size
                        = chunk_table[written].offset + chunk_table[written].size
    OBVIOUS
  <2>1. /\ written \in 1 .. written /\ written \in 1 .. n
        /\ written - 1 \in 0 .. n /\ written \in 0 .. n
    BY <1>2, <1>8
  <2>2. /\ chunk_table[written].offset = MdatBegin + start(written - 1)
        /\ chunk_table[written].size = start(written) - start(written - 1)
        /\ start(written) \in Nat /\ start(written - 1) \in Nat
    BY <1>2, <1>3, <1>10, <2>1
  <2> QED
    BY <1>5, <1>7, <2>2
<1>14. ~(written > 0) => mdat_size = 0
  BY <1>2, <1>7, <1>8
<1> QED
  BY <1>1, <1>9, <1>11, <1>12, <1>13, <1>14 DEF n, written

\* Chunk by chunk the table of offsets tiles the content of mdat, at every
\* step of the muxer's life: also while mdat is moved, and after the offsets
\* were patched for a moov box that patching made larger (m4af_flush_chunk,
\* m4af_update_chunk_table, m4af_patch_moov).
THEOREM ChunksAlwaysTile == Spec => []ChunksTile
<1> DEFINE Inv == TypeInv /\ ChunkInv /\ LayoutInv /\ OffsetInv
<1>1. Init => Inv
  BY TypeInit, ChunkInit, LayoutInit, OffsetInit
<1>2. Inv /\ [Next]_vars => Inv'
  BY TypeNext, ChunkNext, LayoutNext, OffsetNext
<1>3. Inv => ChunksTile
  BY TileHolds
<1> QED
  BY <1>1, <1>2, <1>3, PTL DEF Spec

-----------------------------------------------------------------------------
(***************************************************************************)
(* The content of mdat.                                                    *)
(***************************************************************************)
\* Every cell of a sample is one of mdat's content.
LEMMA CellOfSample ==
  ASSUME TypeInv, SharesInv, NEW s \in 1 .. Len(sample_table), NEW k \in 1 .. sample_table[s]
  PROVE  /\ Len(sample_table) \in Nat /\ Begins[Len(sample_table)] \in Nat
         /\ Begins[s - 1] + k \in 1 .. Begins[Len(sample_table)]
<1> DEFINE m == Len(sample_table)
<1>1. /\ m \in Nat /\ \A t \in 0 .. m : Begins[t] \in Nat
      /\ \A t \in 1 .. m : /\ Begins[t] = Begins[t - 1] + sample_table[t]
                           /\ sample_table[t] \in Nat /\ t - 1 \in 0 .. m
      /\ \A t \in 0 .. m : \A u \in t .. m : Begins[t] <= Begins[u]
  BY TablesInOrder
<1> HIDE DEF m
<1>2. s \in 0 .. m /\ m \in s .. m /\ s - 1 \in 0 .. m /\ m \in 0 .. m /\ s \in 1 .. m
  BY <1>1 DEF m
<1>3. /\ Begins[s] <= Begins[m] /\ Begins[s] = Begins[s - 1] + sample_table[s]
      /\ sample_table[s] \in Nat /\ Begins[s - 1] \in Nat /\ Begins[m] \in Nat
  BY <1>1, <1>2
<1>4. Begins[s - 1] + k \in 1 .. Begins[m]
  BY <1>3
<1> QED
  BY <1>1, <1>3, <1>4 DEF m

\* Steps that take no sample and leave every cell of the content readable.
LEMMA ContentKept ==
  ASSUME TypeInv, SharesInv, ContentInv, pc # "create", ~last_error,
         sample_table' = sample_table,
         \A i \in 1 .. Begins[Len(sample_table)] : ContentCell(i)' = ContentCell(i)
  PROVE  ContentInv'
<1>1. Begins' = Begins
  BY DEF Begins
<1>2. ASSUME NEW s \in 1 .. Len(sample_table), NEW k \in 1 .. sample_table[s]
      PROVE  ContentCell(Begins[s - 1] + k)' = Data(s, k)
  <2>1. PICK i \in 1 .. Begins[Len(sample_table)] : i = Begins[s - 1] + k
    BY CellOfSample
  <2>2. ContentCell(i) = Data(s, k)
    BY <2>1 DEF ContentInv
  <2>3. ContentCell(i)' = ContentCell(i)
    BY <2>1
  <2>4. i = Begins'[s - 1] + k
    BY <1>1, <2>1
  <2> QED
    BY <2>2, <2>3, <2>4 DEF ContentCell
<1>3. \A s \in 1 .. Len(sample_table') : \A k \in 1 .. sample_table'[s] :
        ContentCell(Begins[s - 1] + k)' = Data(s, k)
  BY <1>2
<1> QED
  BY <1>1, <1>3 DEF ContentInv, ContentCell

\* Steps that take a sample: it comes last.
LEMMA ContentGrows ==
  ASSUME TypeInv, SharesInv, ContentInv, pc # "create", ~last_error,
         NEW size \in Nat, sample_table' = Append(sample_table, size),
         \A i \in 1 .. Begins[Len(sample_table)] : ContentCell(i)' = ContentCell(i),
         \A k \in 1 .. size : \A i \in Nat :
           i = Begins[Len(sample_table)] + k => ContentCell(i)' = Data(Len(sample_table) + 1, k)
  PROVE  ContentInv'
<1> DEFINE m == Len(sample_table)
<1>1. /\ m \in Nat /\ Len(sample_table') = m + 1
      /\ \A s \in 1 .. m : sample_table'[s] = sample_table[s]
      /\ sample_table'[m + 1] = size
      /\ \A s \in 0 .. m : Begins'[s] = Begins[s]
  BY SampleTaken
<1>2. ASSUME NEW s \in 1 .. (m + 1), NEW k \in 1 .. sample_table'[s]
      PROVE  ContentCell(Begins[s - 1] + k)' = Data(s, k)
  <2>1. CASE s = m + 1
    <3>1. k \in 1 .. size /\ s - 1 = m /\ m \in 0 .. m
      BY <1>1, <1>2, <2>1
    <3>2. Begins'[s - 1] = Begins[m] /\ Begins[m] \in Nat
      BY <1>1, <3>1, TablesInOrder
    <3>3. PICK i \in Nat : i = Begins[m] + k
      BY <3>1, <3>2
    <3>4. ContentCell(i)' = Data(s, k)
      BY <2>1, <3>1, <3>3
    <3>5. i = Begins'[s - 1] + k
      BY <3>2, <3>3
    <3> QED
      BY <3>4, <3>5 DEF ContentCell
  <2>2. CASE s # m + 1
    <3>1. s \in 1 .. m /\ s - 1 \in 0 .. m
      BY <1>1, <2>2
    <3>2. k \in 1 .. sample_table[s] /\ Begins'[s - 1] = Begins[s - 1]
      BY <1>1, <1>2, <3>1
    <3>3. PICK i \in 1 .. Begins[m] : i = Begins[s - 1] + k
      BY <3>1, <3>2, CellOfSample
    <3>4. ContentCell(i) = Data(s, k)
      BY <3>1, <3>2, <3>3 DEF ContentInv
    <3>5. ContentCell(i)' = ContentCell(i)
      BY <3>3
    <3>6. i = Begins'[s - 1] + k
      BY <3>2, <3>3
    <3> QED
      BY <3>4, <3>5, <3>6 DEF ContentCell
  <2> QED
    BY <2>1, <2>2
<1>3. \A s \in 1 .. Len(sample_table') : \A k \in 1 .. sample_table'[s] :
        ContentCell(Begins[s - 1] + k)' = Data(s, k)
  BY <1>1, <1>2
<1> QED
  BY <1>3 DEF ContentInv, ContentCell

LEMMA ContentWithSample ==
  ASSUME TypeInv, SharesInv, OffsetInv, ContentInv, NEW size \in SampleSizes,
         WriteSample(size)
  PROVE  ContentInv'
<1> DEFINE m == Len(sample_table)
           inMdat == SampleData(m + 1, size)
<1>1. /\ pc = "open" /\ pc' = "open" /\ ~last_error
      /\ mdat_pos' = mdat_pos /\ mdat_size' = mdat_size /\ file' = file
      /\ sample_table' = Append(sample_table, size)
      /\ chunk_buffer' = chunk_buffer \o inMdat
  BY DEF WriteSample, TakesSample, ioVars
<1>2. /\ size \in Nat /\ m \in Nat /\ mdat_size \in Nat /\ Len(chunk_buffer) \in Nat
      /\ chunk_buffer \in Seq(Cells) /\ m + 1 \in Nat
  BY SampleSizesAssumption, WrittenCells DEF TypeInv
<1>3. inMdat \in Seq(Cells) /\ Len(inMdat) = size /\ \A k \in 1 .. size : inMdat[k] = Data(m + 1, k)
  BY <1>2, SampleDataProperties
<1> HIDE DEF inMdat
<1>4. /\ \A i \in 1 .. Len(chunk_buffer) : chunk_buffer'[i] = chunk_buffer[i]
      /\ \A k \in 1 .. size : chunk_buffer'[Len(chunk_buffer) + k] = inMdat[k]
  BY <1>1, <1>2, <1>3, Joined
<1>5. Begins[m] = mdat_size + Len(chunk_buffer)
  BY <1>1 DEF OffsetInv
<1>6. ASSUME NEW i \in 1 .. Begins[m] PROVE ContentCell(i)' = ContentCell(i)
  <2>1. CASE i > mdat_size
    <3>1. i - mdat_size \in 1 .. Len(chunk_buffer)
      BY <1>2, <1>5, <2>1
    <3> QED
      BY <1>1, <1>4, <2>1, <3>1 DEF ContentCell
  <2>2. CASE ~(i > mdat_size)
    BY <1>1, <2>2 DEF ContentCell
  <2> QED
    BY <2>1, <2>2
<1>7. ASSUME NEW k \in 1 .. size, NEW i \in Nat, i = Begins[m] + k
      PROVE  ContentCell(i)' = Data(m + 1, k)
  <2>1. i > mdat_size /\ i - mdat_size = Len(chunk_buffer) + k
    BY <1>2, <1>5, <1>7
  <2> QED
    BY <1>1, <1>3, <1>4, <2>1 DEF ContentCell
<1> QED
  BY <1>1, <1>2, <1>6, <1>7, ContentGrows

\* A chunk goes from the buffer to the end of mdat.
LEMMA ContentFlushed ==
  ASSUME TypeInv, Layout, OffsetInv, pc = "open", ~last_error,
         file' = Put(file, fpos, chunk_buffer),
         NEW i \in 1 .. Begins[Len(sample_table)]
  PROVE  file'[mdat_pos + i] = ContentCell(i)
<1>1. fpos = mdat_pos + mdat_size /\ FileEnd = mdat_pos + mdat_size
  BY DEF Layout
<1>2. Begins[Len(sample_table)] = mdat_size + Len(chunk_buffer)
  BY DEF OffsetInv
<1>3. /\ mdat_pos \in Nat /\ mdat_size \in Nat /\ Len(chunk_buffer) \in Nat
      /\ chunk_buffer \in Seq(Cells) /\ fpos \in Nat
  BY WrittenCells DEF TypeInv
<1>4. /\ \A k \in 1 .. Len(chunk_buffer) : file'[fpos + k] = chunk_buffer[k]
      /\ \A k \in 1 .. FileEnd : k <= fpos \/ k > fpos + Len(chunk_buffer) => file'[k] = file[k]
  BY <1>3, Written
<1>5. CASE i > mdat_size
  <2>1. i - mdat_size \in 1 .. Len(chunk_buffer) /\ fpos + (i - mdat_size) = mdat_pos + i
    BY <1>1, <1>2, <1>3, <1>5
  <2>2. file'[fpos + (i - mdat_size)] = chunk_buffer[i - mdat_size]
    BY <1>4, <2>1
  <2> QED
    BY <1>5, <2>1, <2>2 DEF ContentCell
<1>6. CASE ~(i > mdat_size)
  <2>1. mdat_pos + i \in 1 .. FileEnd /\ mdat_pos + i <= fpos
    BY <1>1, <1>2, <1>3, <1>6
  <2>2. file'[mdat_pos + i] = file[mdat_pos + i]
    BY <1>4, <2>1
  <2> QED
    BY <1>6, <2>2 DEF ContentCell
<1> QED
  BY <1>5, <1>6

LEMMA ContentWithChunk ==
  ASSUME TypeInv, SharesInv, LayoutInv, OffsetInv, OffsetInv', ContentInv,
         NEW size \in SampleSizes, WriteSampleInNewChunk(size)
  PROVE  ContentInv'
<1> DEFINE m == Len(sample_table)
<1>1. /\ pc = "open" /\ pc' = "open" /\ ~last_error
      /\ mdat_pos' = mdat_pos /\ sample_table' = Append(sample_table, size)
      /\ chunk_buffer' = SampleData(m + 1, size)
      /\ IF HasUnwritten THEN Output(ferror, chunk_buffer, fpos, fpos + Len(chunk_buffer)) /\ ~last_error'
                         ELSE last_error' = last_error /\ file' = file /\ mdat_size' = mdat_size
  BY DEF WriteSampleInNewChunk, TakesSample
<1>2. /\ size \in Nat /\ m \in Nat /\ mdat_size \in Nat /\ Len(chunk_buffer) \in Nat
      /\ chunk_buffer \in Seq(Cells) /\ m + 1 \in Nat /\ mdat_pos \in Nat /\ fpos \in Nat
  BY SampleSizesAssumption, WrittenCells DEF TypeInv
<1>3. Len(chunk_buffer') = size /\ \A k \in 1 .. size : chunk_buffer'[k] = Data(m + 1, k)
  BY <1>1, <1>2, SampleDataProperties
<1>4. Begins[m] = mdat_size + Len(chunk_buffer) /\ Begins[m] \in Nat
  BY <1>1, <1>2 DEF OffsetInv
<1>5. mdat_size' = Begins[m]
  <2>1. mdat_size' + size = Begins'[m + 1] /\ Begins'[m + 1] = Begins[m] + size
    <3>1. ~last_error' /\ Len(sample_table') = m + 1
      BY <1>1, <1>2, SampleTaken
    <3>2. mdat_size' + Len(chunk_buffer') = Begins'[Len(sample_table')]
      BY <1>1, <3>1 DEF OffsetInv
    <3> QED
      BY <1>1, <1>2, <1>3, <3>1, <3>2, SampleTaken
  <2>2. mdat_size' \in Nat
    BY <1>1, <1>2 DEF WriteSampleInNewChunk
  <2> QED
    BY <1>2, <1>4, <2>1, <2>2
<1>6. ASSUME NEW i \in 1 .. Begins[m] PROVE ContentCell(i)' = ContentCell(i)
  <2>1. ContentCell(i)' = file'[mdat_pos + i]
    BY <1>1, <1>4, <1>5 DEF ContentCell
  <2>2. CASE HasUnwritten
    <3>1. Output(ferror, chunk_buffer, fpos, fpos + Len(chunk_buffer)) /\ ~last_error'
      BY <1>1, <2>2
    <3>2. file' = Put(file, fpos, chunk_buffer)
      BY <1>2, <3>1, OutputEffect DEF TypeInv
    <3> QED
      BY <1>1, <2>1, <3>2, ContentFlushed DEF LayoutInv
  <2>3. CASE ~HasUnwritten
    <3>1. file' = file /\ mdat_size = Begins[m]
      BY <1>1, <1>5, <2>3
    <3>2. ~(i > mdat_size)
      BY <1>4, <3>1
    <3> QED
      BY <1>1, <2>1, <3>1, <3>2 DEF ContentCell
  <2> QED
    BY <2>2, <2>3
<1>7. ASSUME NEW k \in 1 .. size, NEW i \in Nat, i = Begins[m] + k
      PROVE  ContentCell(i)' = Data(m + 1, k)
  <2>1. i > mdat_size' /\ i - mdat_size' = k
    BY <1>4, <1>5, <1>7
  <2> QED
    BY <1>3, <2>1 DEF ContentCell
<1> QED
  BY <1>1, <1>2, <1>6, <1>7, ContentGrows

LEMMA ContentAllWritten ==
  ASSUME TypeInv, OffsetInv, pc \notin {"create", "open"}, ~last_error
  PROVE  /\ mdat_size = Begins[Len(sample_table)]
         /\ mdat_pos \in Nat /\ mdat_size \in Nat
         /\ \A i \in 1 .. mdat_size : ~(i > mdat_size)
<1>1. /\ mdat_size + Len(chunk_buffer) = Begins[Len(sample_table)]
      /\ chunk_buffer = <<>>
  BY DEF OffsetInv
<1>2. Len(chunk_buffer) = 0
  BY <1>1, EmptySeq
<1>3. mdat_size \in Nat /\ mdat_pos \in Nat
  BY DEF TypeInv
<1> QED
  BY <1>1, <1>2, <1>3

\* The last chunk.
LEMMA ContentLastFlushed ==
  ASSUME TypeInv, SharesInv, LayoutInv, OffsetInv, OffsetInv', TypeInv', ContentInv,
         FlushLast, ~last_error'
  PROVE  ContentInv'
<1> DEFINE m == Len(sample_table)
<1>1. /\ pc = "open" /\ pc' = "mdat" /\ ~last_error
      /\ mdat_pos' = mdat_pos /\ sample_table' = sample_table
      /\ IF HasUnwritten THEN Output(ferror, chunk_buffer, fpos, fpos + Len(chunk_buffer))
                         ELSE file' = file /\ mdat_size' = mdat_size
  BY DEF FlushLast
<1>2. Begins[m] = mdat_size + Len(chunk_buffer) /\ Layout
  BY <1>1 DEF OffsetInv, LayoutInv
<1>3. mdat_size' = Begins[m]
  <2>1. Begins' = Begins /\ m' = m
    BY <1>1 DEF Begins
  <2>2. mdat_size' + Len(chunk_buffer') = Begins'[m'] /\ chunk_buffer' = <<>>
    BY <1>1 DEF OffsetInv
  <2>3. Len(chunk_buffer') = 0 /\ mdat_size' \in Nat
    BY <2>2, EmptySeq DEF TypeInv
  <2> QED
    BY <2>1, <2>2, <2>3
<1>4. /\ chunk_buffer \in Seq(Cells) /\ fpos \in Nat /\ Begins[m] \in Nat
      /\ mdat_size \in Nat /\ Len(chunk_buffer) \in Nat
  BY <1>2, WrittenCells DEF TypeInv
<1>5. ASSUME NEW i \in 1 .. Begins[m] PROVE ContentCell(i)' = ContentCell(i)
  <2>1. ContentCell(i)' = file'[mdat_pos + i]
    BY <1>1, <1>3, <1>4 DEF ContentCell
  <2>2. CASE HasUnwritten
    <3>1. Output(ferror, chunk_buffer, fpos, fpos + Len(chunk_buffer))
      BY <1>1, <2>2
    <3>2. file' = Put(file, fpos, chunk_buffer)
      BY <1>4, <3>1, OutputEffect DEF TypeInv
    <3> QED
      BY <1>1, <1>2, <2>1, <3>2, ContentFlushed
  <2>3. CASE ~HasUnwritten
    <3>1. file' = file /\ mdat_size = Begins[m]
      BY <1>1, <1>3, <2>3
    <3>2. ~(i > mdat_size)
      BY <1>4, <3>1
    <3> QED
      BY <1>1, <2>1, <3>1, <3>2 DEF ContentCell
  <2> QED
    BY <2>2, <2>3
<1> QED
  BY <1>1, <1>5, ContentKept

\* A write outside the content, when mdat is in one piece.
LEMMA ContentUntouched ==
  ASSUME TypeInv, SharesInv, OffsetInv, ContentInv, ~last_error,
         pc \in {"mdat", "moov", "patch", "front", "return"}, pc' # "shift",
         sample_table' = sample_table, mdat_pos' = mdat_pos, mdat_size' = mdat_size,
         \A i \in 1 .. mdat_size : file'[mdat_pos + i] = file[mdat_pos + i]
  PROVE  ContentInv'
<1>1. /\ mdat_size = Begins[Len(sample_table)] /\ mdat_size \in Nat
      /\ \A i \in 1 .. mdat_size : ~(i > mdat_size)
  BY ContentAllWritten
<1>2. ASSUME NEW i \in 1 .. Begins[Len(sample_table)] PROVE ContentCell(i)' = ContentCell(i)
  <2>1. i \in 1 .. mdat_size /\ ~(i > mdat_size)
    BY <1>1
  <2> QED
    BY <2>1 DEF ContentCell
<1> QED
  BY <1>2, ContentKept

LEMMA ContentClosed ==
  ASSUME TypeInv, SharesInv, LayoutInv, OffsetInv, ContentInv, FinalizeMdat, ~last_error'
  PROVE  ContentInv'
<1> DEFINE cells == MdatHeader(mdat_pos).cells
           pos == MdatHeader(mdat_pos).pos
<1>1. /\ pc = "mdat" /\ pc' = "moov" /\ UNCHANGED <<sample_table, mdat_pos, mdat_size>>
      /\ Output(ferror, cells, pos, mdat_pos + mdat_size)
  BY DEF FinalizeMdat
<1>2. /\ mdat_size \in Nat /\ mdat_pos \in Nat /\ mdat_pos >= DataStart
      /\ cells \in Seq(Cells) /\ pos \in Nat
      /\ (pos = mdat_pos - 4 /\ Len(cells) = 4) \/ (pos = mdat_pos - 2 /\ Len(cells) = 1)
  BY <1>1, MdatHeaderProperties DEF TypeInv
<1> HIDE DEF cells, pos
<1>3. ~last_error /\ file' = Put(file, pos, cells)
  BY <1>1, <1>2, OutputEffect DEF TypeInv
<1>4. FileEnd = mdat_pos + mdat_size
  BY <1>1, <1>3 DEF LayoutInv, Layout
<1>5. \A k \in 1 .. FileEnd : k > pos + Len(cells) => file'[k] = file[k]
  BY <1>2, <1>3, Written
<1>6. ASSUME NEW i \in 1 .. mdat_size PROVE file'[mdat_pos + i] = file[mdat_pos + i]
  <2>1. mdat_pos + i \in 1 .. FileEnd
    BY <1>2, <1>4
  <2>2. mdat_pos + i > pos + Len(cells)
    <3>1. CASE pos = mdat_pos - 4 /\ Len(cells) = 4
      BY <1>2, <3>1
    <3>2. CASE pos = mdat_pos - 2 /\ Len(cells) = 1
      BY <1>2, <3>2
    <3> QED
      BY <1>2, <3>1, <3>2
  <2> QED
    BY <1>5, <2>1, <2>2
<1> QED
  BY <1>1, <1>3, <1>6, ContentUntouched

LEMMA ContentBeforeMoov ==
  ASSUME TypeInv, SharesInv, LayoutInv, OffsetInv, ContentInv, WriteMoov, ~last_error'
  PROVE  ContentInv'
<1> DEFINE cells == MoovBox(chunk_table, Len(moovs) + 1)
<1>1. /\ pc = "moov" /\ pc' # "shift" /\ UNCHANGED <<sample_table, mdat_pos, mdat_size>>
      /\ Output(ferror, cells, fpos, fpos + MoovSize(chunk_table))
  BY DEF WriteMoov
<1>2. /\ mdat_size \in Nat /\ mdat_pos \in Nat /\ fpos \in Nat /\ last_error \in BOOLEAN
      /\ last_error => last_error'
  BY <1>1 DEF TypeInv, Output
<1>3. /\ moovs = <<>> /\ FileEnd = mdat_pos + mdat_size /\ fpos = mdat_pos + mdat_size
  BY <1>1, <1>2 DEF LayoutInv, Layout
<1>4. cells \in Seq(Cells)
  <2>1. Len(moovs) + 1 \in Nat
    BY <1>3, EmptySeq
  <2> QED
    BY <2>1, MoovBoxProperties DEF TypeInv
<1> HIDE DEF cells
<1>5. ~last_error /\ file' = Put(file, fpos, cells)
  BY <1>1, <1>2, <1>4, OutputEffect DEF TypeInv
<1>6. \A k \in 1 .. FileEnd : k <= fpos => file'[k] = file[k]
  BY <1>2, <1>4, <1>5, Written
<1>7. ASSUME NEW i \in 1 .. mdat_size PROVE file'[mdat_pos + i] = file[mdat_pos + i]
  <2>1. mdat_pos + i \in 1 .. FileEnd /\ mdat_pos + i <= fpos
    BY <1>2, <1>3
  <2> QED
    BY <1>6, <2>1
<1> QED
  BY <1>1, <1>5, <1>7, ContentUntouched

LEMMA ContentBehindMoov ==
  ASSUME TypeInv, SharesInv, LayoutInv, OffsetInv, ContentInv, WriteMoovInFront, ~last_error'
  PROVE  ContentInv'
<1> DEFINE size == MoovSize(chunk_table)
           cells == MoovBox(chunk_table, Len(moovs) + 1) \o FreeBox(FreeSize(FtypSize + size))
<1>1. /\ pc = "front" /\ pc' # "shift" /\ UNCHANGED <<sample_table, mdat_pos, mdat_size>>
      /\ Output(ferror, cells, FtypSize, mdat_pos - LongHeaderSize)
  BY DEF WriteMoovInFront
<1>2. /\ mdat_size \in Nat /\ mdat_pos \in Nat /\ size \in Nat
      /\ Reserve \in Nat /\ Reserve >= 2 /\ FtypSize = 8
      /\ last_error \in BOOLEAN /\ last_error => last_error'
  BY <1>1, MoovSizeType, LayoutAssumption DEF TypeInv, Output, FtypSize
<1>3. /\ moovs = <<moovs[1]>> /\ FileEnd = mdat_pos + mdat_size
      /\ mdat_pos = 12 + (size + Reserve)
  <2>1. Layout
    BY <1>1, <1>2 DEF LayoutInv
  <2>2. moovs = <<moovs[1]>> /\ FileEnd = mdat_pos + mdat_size /\ mdat_pos = DataStart + FrontSize
    BY <1>1, <2>1 DEF Layout
  <2> QED
    BY <2>2 DEF FrontSize, DataStart, FtypSize, HeaderSize
<1>4. cells \in Seq(Cells) /\ Len(cells) = size + 2
  <2>1. Len(moovs) = 1
    <3>1. ASSUME NEW s, NEW t, s = <<t>> PROVE Len(s) = 1
      BY <3>1
    <3> QED
      BY <1>3, <3>1
  <2>2. FreeSize(FtypSize + size) = Reserve
    BY <1>2, <1>3 DEF FreeSize, LongHeaderSize
  <2>3. Len(moovs) + 1 \in Nat /\ FreeSize(FtypSize + size) \in Nat
    BY <1>2, <2>1, <2>2
  <2> QED
    BY <2>3, FrontBoxes DEF TypeInv
<1> HIDE DEF cells, size
<1>5. ~last_error /\ file' = Put(file, FtypSize, cells)
  BY <1>1, <1>2, <1>4, OutputEffect DEF TypeInv
<1>6. \A k \in 1 .. FileEnd : k > FtypSize + Len(cells) => file'[k] = file[k]
  BY <1>2, <1>4, <1>5, Written
<1>7. ASSUME NEW i \in 1 .. mdat_size PROVE file'[mdat_pos + i] = file[mdat_pos + i]
  <2>1. mdat_pos + i \in 1 .. FileEnd /\ mdat_pos + i > FtypSize + Len(cells)
    BY <1>2, <1>3, <1>4
  <2> QED
    BY <1>6, <2>1
<1> QED
  BY <1>1, <1>5, <1>7, ContentUntouched

\* A block goes to its new place, which may overlap the old one: what is there
\* was moved before.
LEMMA ContentShifted ==
  ASSUME TypeInv, SharesInv, LayoutInv, OffsetInv, ContentInv, ShiftBlock, ~last_error'
  PROVE  ContentInv'
<1>1. /\ end > mdat_pos /\ pc = "shift" /\ pc' = "shift" /\ end' = BlockBegin
      /\ file' = Put(file, BlockBegin + shift, Block)
      /\ mdat_pos' = mdat_pos /\ mdat_size' = mdat_size /\ shift' = shift
      /\ sample_table' = sample_table
  BY BlockShifted
<1>2. ~last_error
  BY DEF ShiftBlock, Output
<1>3. /\ end \in mdat_pos .. (mdat_pos + mdat_size)
      /\ FileEnd >= mdat_pos + mdat_size
      /\ end < mdat_pos + mdat_size => FileEnd = mdat_pos + mdat_size + shift
  BY <1>1, <1>2 DEF LayoutInv, Layout
<1>4. mdat_pos \in Nat /\ mdat_size \in Nat /\ shift \in Nat /\ end \in Nat
  BY DEF TypeInv
<1>5. /\ BlockBegin \in Nat /\ mdat_pos <= BlockBegin /\ BlockBegin < end
      /\ Block \in Seq(Cells) /\ Len(Block) = end - BlockBegin
      /\ \A k \in 1 .. (end - BlockBegin) :
           BlockBegin + k <= FileEnd => Block[k] = file[BlockBegin + k]
  BY <1>1, BlockProperties DEF FileEnd
<1> DEFINE pos == BlockBegin + shift
<1>6. /\ pos \in Nat /\ FileEnd \in Nat
      /\ \A k \in 1 .. Len(Block) : file'[pos + k] = Block[k]
      /\ \A k \in 1 .. FileEnd : k <= pos \/ k > pos + Len(Block) => file'[k] = file[k]
  <2>1. pos \in Nat
    BY <1>4, <1>5
  <2> QED
    BY <1>1, <1>5, <2>1, Written
<1>7. mdat_size = Begins[Len(sample_table)]
  BY <1>1, <1>2, ContentAllWritten
<1>8. ASSUME NEW i \in 1 .. mdat_size PROVE ContentCell(i)' = ContentCell(i)
  <2> DEFINE p == mdat_pos + i
  <2>0. p \in 1 .. (mdat_pos + mdat_size) /\ ~(i > mdat_size)
    BY <1>4
  <2>1. CASE p > end
    <3>1. p + shift \in 1 .. FileEnd /\ p + shift > pos + Len(Block) /\ p > end'
      <4>1. end < mdat_pos + mdat_size /\ p \in Nat
        BY <1>3, <1>4, <2>0, <2>1
      <4>2. FileEnd = mdat_pos + mdat_size + shift
        BY <1>3, <4>1
      <4>3. pos + Len(Block) = end + shift
        BY <1>4, <1>5
      <4> HIDE DEF p, pos
      <4>4. p + shift \in 1 .. FileEnd
        BY <1>4, <2>0, <4>1, <4>2
      <4>5. p + shift > end + shift /\ p > BlockBegin
        BY <1>4, <1>5, <2>1, <4>1
      <4> QED
        BY <1>1, <4>3, <4>4, <4>5
    <3>2. file'[p + shift] = file[p + shift] /\ mdat_pos + shift + i = p + shift
      BY <1>4, <1>6, <3>1
    <3> QED
      BY <1>1, <2>0, <2>1, <3>1, <3>2 DEF ContentCell
  <2>2. CASE p > BlockBegin /\ ~(p > end)
    <3>1. /\ p - BlockBegin \in 1 .. (end - BlockBegin)
          /\ BlockBegin + (p - BlockBegin) = p /\ p <= FileEnd
          /\ pos + (p - BlockBegin) = mdat_pos + shift + i
      BY <1>3, <1>4, <1>5, <1>6, <2>0, <2>2
    <3>2. Block[p - BlockBegin] = file[p]
      BY <1>5, <3>1
    <3>3. file'[mdat_pos + shift + i] = Block[p - BlockBegin]
      BY <1>5, <1>6, <3>1
    <3> QED
      BY <1>1, <2>0, <2>2, <3>2, <3>3 DEF ContentCell
  <2>3. CASE ~(p > BlockBegin)
    <3>1. ~(p > end) /\ p \in 1 .. FileEnd /\ p <= pos
      BY <1>3, <1>4, <1>5, <1>6, <2>0, <2>3
    <3>2. file'[p] = file[p]
      BY <1>6, <3>1
    <3> QED
      BY <1>1, <2>0, <2>3, <3>1, <3>2 DEF ContentCell
  <2> QED
    BY <2>1, <2>2, <2>3
<1> QED
  BY <1>1, <1>2, <1>7, <1>8, ContentKept

\* When all blocks have been moved, the place of mdat is the new one.
LEMMA ContentInPlace ==
  ASSUME TypeInv, SharesInv, LayoutInv, OffsetInv, ContentInv, ShiftHeader, ~last_error'
  PROVE  ContentInv'
<1> DEFINE to == mdat_pos + shift
           cells == ShiftedHeader(to)
<1>1. /\ pc = "shift" /\ end = mdat_pos /\ pc' = "front" /\ mdat_pos' = to
      /\ Output(ferror, cells, to - LongHeaderSize, to + mdat_size)
      /\ UNCHANGED <<mdat_size, sample_table>>
  BY DEF ShiftHeader, ShiftedHeader
<1>2. ~last_error
  BY <1>1 DEF Output
<1>3. /\ mdat_pos \in Nat /\ mdat_pos >= 12 /\ mdat_size \in Nat /\ shift \in Nat
      /\ end < mdat_pos + mdat_size => FileEnd = mdat_pos + mdat_size + shift
  BY <1>1, <1>2 DEF TypeInv, LayoutInv, Layout, DataStart, FtypSize, HeaderSize
<1>4. to \in Nat /\ to >= DataStart /\ to - 4 \in Nat /\ to - LongHeaderSize = to - 4
  BY <1>3 DEF DataStart, FtypSize, HeaderSize, LongHeaderSize
<1>5. cells \in Seq(Cells) /\ Len(cells) = 4
  BY <1>3, <1>4, ShiftedHeaderProperties DEF LongHeaderSize
<1> HIDE DEF cells
<1>6. file' = Put(file, to - 4, cells)
  BY <1>1, <1>4, <1>5, OutputEffect DEF TypeInv
<1>7. FileEnd \in Nat /\ \A k \in 1 .. FileEnd : k > (to - 4) + 4 => file'[k] = file[k]
  BY <1>4, <1>5, <1>6, Written
<1>8. mdat_size = Begins[Len(sample_table)]
  BY <1>1, <1>2, ContentAllWritten
<1>9. ASSUME NEW i \in 1 .. mdat_size PROVE ContentCell(i)' = ContentCell(i)
  <2>1. /\ to + i \in 1 .. FileEnd /\ to + i > (to - 4) + 4 /\ to + i = mdat_pos + shift + i
        /\ ~(i > mdat_size) /\ mdat_pos + i > end
    BY <1>1, <1>3, <1>4
  <2>2. file'[to + i] = file[to + i]
    BY <1>7, <2>1
  <2> QED
    BY <1>1, <2>1, <2>2 DEF ContentCell
<1> QED
  BY <1>1, <1>2, <1>8, <1>9, ContentKept

LEMMA ContentInit == Init => ContentInv
BY DEF Init, ContentInv

LEMMA ContentNext ==
  TypeInv /\ TypeInv' /\ SharesInv /\ SampleInv /\ LayoutInv
    /\ OffsetInv /\ OffsetInv' /\ ContentInv /\ [Next]_vars => ContentInv'
<1> SUFFICES ASSUME TypeInv, TypeInv', SharesInv, SampleInv, LayoutInv, OffsetInv, OffsetInv',
                    ContentInv, [Next]_vars
             PROVE  ContentInv'
  OBVIOUS
<1>0. last_error' => ContentInv'
  BY DEF ContentInv
<1>1. CASE BeginWrite
  <2>1. sample_table' = <<>>
    BY <1>1 DEF BeginWrite, SampleInv
  <2>2. 1 .. Len(sample_table') = {}
    BY <2>1, EmptySeq
  <2> QED
    BY <2>2 DEF ContentInv
<1>2. ASSUME NEW size \in SampleSizes, WriteSample(size) PROVE ContentInv'
  BY <1>2, ContentWithSample
<1>3. ASSUME NEW size \in SampleSizes, WriteSampleInNewChunk(size) PROVE ContentInv'
  BY <1>3, ContentWithChunk
<1>4. CASE WriteSampleFails
  BY <1>0, <1>4 DEF WriteSampleFails
<1>5. CASE FlushLast
  BY <1>0, <1>5, ContentLastFlushed
<1>6. CASE FinalizeMdat
  BY <1>0, <1>6, ContentClosed
<1>7. CASE WriteMoov
  BY <1>0, <1>7, ContentBeforeMoov
<1>8. CASE PatchMoov
  <2>1. /\ pc = "patch" /\ pc' = "shift" /\ last_error' = last_error
        /\ end' = mdat_pos + mdat_size /\ file' = file
        /\ UNCHANGED <<mdat_pos, mdat_size, sample_table>>
    BY <1>8 DEF PatchMoov, ioVars
  <2>2. CASE ~last_error
    <3>1. /\ mdat_size = Begins[Len(sample_table)] /\ mdat_pos \in Nat /\ mdat_size \in Nat
      BY <2>1, <2>2, ContentAllWritten
    <3>2. ASSUME NEW i \in 1 .. Begins[Len(sample_table)] PROVE ContentCell(i)' = ContentCell(i)
      <4>1. ~(i > mdat_size) /\ ~(mdat_pos + i > mdat_pos + mdat_size)
        BY <3>1
      <4> QED
        BY <2>1, <4>1 DEF ContentCell
    <3> QED
      BY <2>1, <2>2, <3>2, ContentKept
  <2> QED
    BY <1>0, <2>1, <2>2
<1>9. CASE ShiftBlock
  BY <1>0, <1>9, ContentShifted
<1>10. CASE ShiftHeader
  BY <1>0, <1>10, ContentInPlace
<1>11. CASE WriteMoovInFront
  BY <1>0, <1>11, ContentBehindMoov
<1>12. CASE Return
  <2>1. /\ pc = "return" /\ pc' = "end" /\ last_error' = last_error /\ file' = file
        /\ UNCHANGED <<mdat_pos, mdat_size, sample_table>>
    BY <1>12 DEF Return, ctxVars, ioVars
  <2> QED
    BY <1>0, <2>1, ContentUntouched
<1>13. CASE UNCHANGED vars
  BY <1>13 DEF vars, ctxVars, ioVars, ContentInv, ContentCell, Begins
<1>14. CASE Ended
  BY <1>13, <1>14 DEF Ended
<1> QED
  BY <1>1, <1>2, <1>3, <1>4, <1>5, <1>6, <1>7, <1>8, <1>9, <1>10, <1>11, <1>12, <1>13, <1>14
     DEF Next

LEMMA ContentIsSamples ==
  TypeInv /\ SharesInv /\ OffsetInv /\ ContentInv => RelocationLosesNothing
<1> SUFFICES ASSUME TypeInv, SharesInv, OffsetInv, ContentInv,
                    pc \in {"moov", "patch", "shift", "front", "return"}, ~last_error,
                    NEW s \in 1 .. Len(sample_table), NEW k \in 1 .. sample_table[s]
             PROVE  LET pos == mdat_pos + Sums(sample_table)[s - 1] + k - 1
                    IN  At(IF pc = "shift" /\ pos >= end THEN pos + shift ELSE pos) = Data(s, k)
  BY DEF RelocationLosesNothing
<1> DEFINE i == Begins[s - 1] + k
           pos == mdat_pos + Begins[s - 1] + k - 1
<1>1. /\ mdat_size = Begins[Len(sample_table)] /\ mdat_pos \in Nat
      /\ i \in 1 .. mdat_size /\ ~(i > mdat_size)
  BY ContentAllWritten, CellOfSample
<1>2. ContentCell(i) = Data(s, k)
  BY DEF ContentInv
<1>3. /\ pos + 1 = mdat_pos + i /\ (pos + shift) + 1 = mdat_pos + shift + i
      /\ pos >= end <=> mdat_pos + i > end
  <2> DEFINE begin == Begins[s - 1]
  <2>1. end \in Nat /\ shift \in Nat /\ begin \in Nat /\ k \in Nat
    <3>1. sample_table[s] \in Nat /\ Begins[s - 1] \in Nat
      <4>1. s - 1 \in 0 .. Len(sample_table)
        BY TablesInOrder
      <4> QED
        BY <4>1, TablesInOrder
    <3> QED
      BY <3>1 DEF TypeInv
  <2> HIDE DEF begin
  <2>2. /\ (mdat_pos + begin + k - 1) + 1 = mdat_pos + (begin + k)
        /\ (mdat_pos + begin + k - 1 + shift) + 1 = mdat_pos + shift + (begin + k)
        /\ mdat_pos + begin + k - 1 >= end <=> mdat_pos + (begin + k) > end
    BY <1>1, <2>1
  <2> QED
    BY <2>2 DEF begin
<1>4. At(IF pc = "shift" /\ pos >= end THEN pos + shift ELSE pos) = ContentCell(i)
  BY <1>1, <1>3 DEF At, ContentCell
<1> QED
  BY <1>2, <1>4 DEF Begins

\* From the closing of mdat to the return, through every step of the move
\* within the file and the writing of moov in front, each cell of each sample
\* is where the tables of samples say (m4af_shift_mdat_pos, m4af_finalize).
THEOREM NothingIsLost == Spec => []RelocationLosesNothing
<1> DEFINE Inv == TypeInv /\ ChunkInv /\ LayoutInv /\ OffsetInv /\ ContentInv
<1>1. Init => Inv
  BY TypeInit, ChunkInit, LayoutInit, OffsetInit, ContentInit
<1>2. Inv /\ [Next]_vars => Inv'
  BY TypeNext, ChunkNext, LayoutNext, OffsetNext, ContentNext DEF ChunkInv
<1>3. Inv => RelocationLosesNothing
  BY ContentIsSamples DEF ChunkInv
<1> QED
  BY <1>1, <1>2, <1>3, PTL DEF Spec

-----------------------------------------------------------------------------
(***************************************************************************)
(* The boxes of the file.                                                  *)
(***************************************************************************)
\* A sequence of positions with one more in front.
LEMMA InFront ==
  ASSUME NEW a \in Nat, NEW s \in Seq(Nat)
  PROVE  /\ <<a>> \o s \in Seq(Nat) /\ Len(<<a>> \o s) = Len(s) + 1
         /\ (<<a>> \o s)[1] = a
         /\ \A i \in 1 .. Len(s) : (<<a>> \o s)[i + 1] = s[i]
<1> DEFINE one == <<a>>
<1>1. one \in Seq(Nat) /\ Len(one) = 1 /\ one[1] = a /\ Len(s) \in Nat
  OBVIOUS
<1> HIDE DEF one
<1>2. /\ one \o s \in Seq(Nat) /\ Len(one \o s) = 1 + Len(s)
      /\ \A i \in 1 .. (1 + Len(s)) : (one \o s)[i] = IF i <= 1 THEN one[i] ELSE s[i - 1]
  <2>1. ASSUME NEW t \in Seq(Nat)
        PROVE  /\ t \o s \in Seq(Nat) /\ Len(t \o s) = Len(t) + Len(s)
               /\ \A i \in 1 .. Len(t) + Len(s) :
                    (t \o s)[i] = IF i <= Len(t) THEN t[i] ELSE s[i - Len(t)]
    BY ConcatProperties
  <2>2. /\ one \o s \in Seq(Nat) /\ Len(one \o s) = Len(one) + Len(s)
        /\ \A i \in 1 .. Len(one) + Len(s) :
             (one \o s)[i] = IF i <= Len(one) THEN one[i] ELSE s[i - Len(one)]
    BY <1>1, <2>1
  <2> QED
    BY <1>1, <2>2
<1>3. (one \o s)[1] = a
  <2>1. 1 \in 1 .. (1 + Len(s))
    BY <1>1
  <2> QED
    BY <1>1, <1>2, <2>1
<1>4. ASSUME NEW i \in 1 .. Len(s) PROVE (one \o s)[i + 1] = s[i]
  <2>1. i + 1 \in 1 .. (1 + Len(s)) /\ ~(i + 1 <= 1) /\ (i + 1) - 1 = i
    BY <1>1
  <2> QED
    BY <1>2, <2>1
<1> QED
  BY <1>1, <1>2, <1>3, <1>4 DEF one

LEMMA BoxSizeType ==
  ASSUME TypeInv, NEW pos \in Nat
  PROVE  BoxSize(pos) \in Nat /\ FileEnd \in Nat
<1>1. FileEnd \in Nat /\ \A k \in 1 .. FileEnd : file[k] \in Cells
  BY LenProperties, ElementOfSeq DEF TypeInv, FileEnd
<1>2. \A k \in 1 .. FileEnd : file[k].n \in Nat
  BY <1>1 DEF Cells
<1>3. pos + HeaderSize <= FileEnd => pos + 1 \in 1 .. FileEnd
  BY <1>1 DEF HeaderSize
<1>4. pos + LongHeaderSize <= FileEnd => (pos + 2) + 1 \in 1 .. FileEnd
  BY <1>1 DEF LongHeaderSize
<1>5. pos + HeaderSize \in Nat /\ pos + LongHeaderSize \in Nat
  BY DEF HeaderSize, LongHeaderSize
<1> QED
  BY <1>1, <1>2, <1>3, <1>4, <1>5 DEF BoxSize, At

\* The walk over the boxes, unfolded.  It ends, for a box is not empty.
WalkFrom(g, pos) ==
  IF BoxSize(pos) < HeaderSize \/ pos + BoxSize(pos) > FileEnd
    THEN <<pos>>
    ELSE (IF At(pos + 1).kind = "free" THEN <<>> ELSE <<pos>>) \o g[pos + BoxSize(pos)]

LEMMA WalkExists ==
  ASSUME TypeInv
  PROVE  \E g \in [0 .. FileEnd -> Seq(Nat)] : g = [pos \in 0 .. FileEnd |-> WalkFrom(g, pos)]
<1> DEFINE e == FileEnd
           Walk(g, k) == \A pos \in (e - k) .. e : g[pos] = WalkFrom(g, pos)
           T == {k \in Nat : \E g \in [(e - k) .. e -> Seq(Nat)] : Walk(g, k)}
<1>0. e \in Nat /\ \A pos \in Nat : BoxSize(pos) \in Nat
  BY BoxSizeType, 0 \in Nat
<1>1. ASSUME NEW pos \in 0 .. e, NEW g, ~(BoxSize(pos) < HeaderSize), ~(pos + BoxSize(pos) > e),
             g[pos + BoxSize(pos)] \in Seq(Nat)
      PROVE  WalkFrom(g, pos) \in Seq(Nat)
  <2>1. pos \in Nat
    BY <1>0
  <2>2. <<>> \o g[pos + BoxSize(pos)] \in Seq(Nat)
    BY <1>1
  <2>3. <<pos>> \o g[pos + BoxSize(pos)] \in Seq(Nat)
    BY <1>1, <2>1, InFront
  <2> QED
    BY <1>1, <2>2, <2>3 DEF WalkFrom
<1>2. ASSUME NEW pos \in 0 .. e, NEW g, BoxSize(pos) < HeaderSize \/ pos + BoxSize(pos) > e
      PROVE  WalkFrom(g, pos) = <<pos>> /\ <<pos>> \in Seq(Nat)
  <2>1. pos \in Nat
    BY <1>0
  <2>2. WalkFrom(g, pos) = <<pos>>
    BY <1>2 DEF WalkFrom
  <2> QED
    BY <2>1, <2>2
<1>3. ASSUME NEW pos \in 0 .. e, ~(BoxSize(pos) < HeaderSize), ~(pos + BoxSize(pos) > e)
      PROVE  pos + BoxSize(pos) \in (pos + 1) .. e
  BY <1>0, <1>3 DEF HeaderSize
<1> HIDE DEF e
<1>4. 0 \in T
  <2> DEFINE g == [pos \in (e - 0) .. e |-> <<pos>>]
  <2>1. ASSUME NEW pos \in (e - 0) .. e PROVE g[pos] = <<pos>> /\ <<pos>> \in Seq(Nat) /\ WalkFrom(g, pos) = <<pos>>
    <3>1. pos = e /\ pos \in 0 .. e /\ e \in Nat
      BY <1>0
    <3>2. BoxSize(pos) < HeaderSize \/ pos + BoxSize(pos) > e
      BY <1>0, <3>1 DEF HeaderSize
    <3> QED
      BY <1>2, <3>1, <3>2
  <2>2. g \in [(e - 0) .. e -> Seq(Nat)] /\ Walk(g, 0)
    BY <2>1
  <2> QED
    BY <2>2
<1>5. ASSUME NEW k \in 0 .. (e - 1), k \in T PROVE k + 1 \in T
  <2>1. PICK g \in [(e - k) .. e -> Seq(Nat)] : Walk(g, k)
    BY <1>5
  <2> DEFINE q == e - (k + 1)
             h == [pos \in q .. e |-> IF pos = q THEN WalkFrom(g, q) ELSE g[pos]]
  <2>2. k \in Nat /\ k + 1 \in Nat /\ q \in 0 .. e /\ q + 1 = e - k
    BY <1>0
  <2>3. WalkFrom(g, q) \in Seq(Nat)
    <3>1. CASE BoxSize(q) < HeaderSize \/ q + BoxSize(q) > e
      BY <1>2, <2>2, <3>1
    <3>2. CASE ~(BoxSize(q) < HeaderSize) /\ ~(q + BoxSize(q) > e)
      <4>1. q + BoxSize(q) \in (e - k) .. e
        BY <1>3, <2>2, <3>2
      <4>2. g[q + BoxSize(q)] \in Seq(Nat)
        BY <4>1
      <4> QED
        BY <1>1, <2>2, <3>2, <4>2
    <3> QED
      BY <3>1, <3>2
  <2>4. ASSUME NEW pos \in (e - k) .. e PROVE h[pos] = g[pos] /\ g[pos] \in Seq(Nat)
    <3>1. pos \in q .. e /\ pos # q
      BY <1>0, <2>2
    <3> QED
      BY <3>1
  <2>5. h[q] = WalkFrom(g, q)
    <3>1. q \in q .. e
      BY <1>0, <2>2
    <3> QED
      BY <3>1
  <2>6. ASSUME NEW pos \in q .. e PROVE pos = q \/ pos \in (e - k) .. e
    BY <1>0, <2>2
  <2>7. h \in [q .. e -> Seq(Nat)]
    BY <2>3, <2>4, <2>6
  <2> HIDE DEF h
  <2>8. ASSUME NEW pos \in q .. e PROVE WalkFrom(h, pos) = WalkFrom(g, pos)
    <3>1. pos \in 0 .. e
      BY <1>0, <2>2
    <3>2. CASE BoxSize(pos) < HeaderSize \/ pos + BoxSize(pos) > e
      BY <1>2, <3>1, <3>2
    <3>3. CASE ~(BoxSize(pos) < HeaderSize) /\ ~(pos + BoxSize(pos) > e)
      <4>1. pos + BoxSize(pos) \in (e - k) .. e
        <5>1. pos + BoxSize(pos) \in (pos + 1) .. e /\ pos >= q
          BY <1>3, <3>1, <3>3
        <5> QED
          BY <1>0, <2>2, <5>1
      <4>2. h[pos + BoxSize(pos)] = g[pos + BoxSize(pos)]
        BY <2>4, <4>1
      <4> QED
        BY <4>2 DEF WalkFrom
    <3> QED
      BY <3>2, <3>3
  <2>9. ASSUME NEW pos \in q .. e PROVE h[pos] = WalkFrom(h, pos)
    <3>1. CASE pos = q
      BY <2>5, <2>8, <3>1
    <3>2. CASE pos \in (e - k) .. e
      <4>1. g[pos] = WalkFrom(g, pos)
        BY <2>1, <3>2
      <4> QED
        BY <2>4, <2>8, <3>2, <4>1
    <3> QED
      BY <2>6, <3>1, <3>2
  <2>10. \E f \in [(e - (k + 1)) .. e -> Seq(Nat)] : Walk(f, k + 1)
    BY <2>7, <2>9
  <2> HIDE DEF Walk, q
  <2> QED
    BY <2>2, <2>10
<1>6. e \in T
  <2> HIDE DEF T
  <2>1. e \in 0 .. e
    BY <1>0
  <2> QED
    BY <1>0, <1>4, <1>5, <2>1, UpTo
<1>7. PICK g \in [(e - e) .. e -> Seq(Nat)] : Walk(g, e)
  BY <1>6
<1>8. e - e = 0
  BY <1>0
<1>9. g \in [0 .. e -> Seq(Nat)] /\ \A pos \in 0 .. e : g[pos] = WalkFrom(g, pos)
  BY <1>7, <1>8
<1>10. g = [pos \in 0 .. e |-> WalkFrom(g, pos)]
  BY <1>9
<1> QED
  BY <1>9, <1>10 DEF e

LEMMA Walk ==
  ASSUME TypeInv
  PROVE  \A pos \in 0 .. FileEnd : BoxesFrom[pos] = WalkFrom(BoxesFrom, pos)
<1>1. BoxesFrom = [pos \in 0 .. FileEnd |-> WalkFrom(BoxesFrom, pos)]
  BY WalkExists DEF BoxesFrom, WalkFrom
<1> QED
  BY <1>1

\* A box and those behind it.
LEMMA BoxAt ==
  ASSUME TypeInv, NEW pos \in Nat, NEW size \in Nat, size >= 2, pos + size <= FileEnd,
         NEW word \in {"ftyp", "free", "mdat", "moov"},
         file[pos + 2] = Type(word),
         \/ file[pos + 1] = Size(size)
         \/ file[pos + 1] = Size(1) /\ file[pos + 3] = LongSize(size) /\ size >= 4
  PROVE  /\ At(pos + 1).kind = word /\ BoxSize(pos) = size
         /\ BoxesFrom[pos] = (IF word = "free" THEN <<>> ELSE <<pos>>) \o BoxesFrom[pos + size]
<1>1. FileEnd \in Nat /\ pos \in 0 .. FileEnd /\ (pos + 1) + 1 = pos + 2 /\ (pos + 2) + 1 = pos + 3
  BY BoxSizeType
<1>2. At(pos + 1).kind = word
  BY <1>1 DEF At, Type, Cell
<1>3. BoxSize(pos) = size
  <2>1. CASE file[pos + 1] = Size(size)
    BY <1>1, <2>1 DEF BoxSize, At, Size, Cell, HeaderSize
  <2>2. CASE file[pos + 1] = Size(1) /\ file[pos + 3] = LongSize(size) /\ size >= 4
    BY <1>1, <2>2 DEF BoxSize, At, Size, LongSize, Cell, HeaderSize, LongHeaderSize
  <2> QED
    BY <2>1, <2>2
<1>4. WalkFrom(BoxesFrom, pos)
        = (IF word = "free" THEN <<>> ELSE <<pos>>) \o BoxesFrom[pos + size]
  <2>1. ~(size < HeaderSize) /\ ~(pos + size > FileEnd)
    BY <1>1 DEF HeaderSize
  <2> QED
    BY <1>2, <1>3, <2>1 DEF WalkFrom
<1> QED
  BY <1>1, <1>2, <1>3, <1>4, Walk

\* The end of the file is where the walk ends.
LEMMA WalkEnds ==
  ASSUME TypeInv
  PROVE  FileEnd \in Nat /\ BoxesFrom[FileEnd] = <<FileEnd>>
<1>1. FileEnd \in Nat /\ FileEnd \in 0 .. FileEnd
  BY BoxSizeType, 0 \in Nat
<1>2. FileEnd + HeaderSize > FileEnd
  BY <1>1 DEF HeaderSize
<1>3. BoxSize(FileEnd) = 0
  BY <1>2 DEF BoxSize
<1>4. BoxSize(FileEnd) < HeaderSize
  BY <1>3 DEF HeaderSize
<1>5. WalkFrom(BoxesFrom, FileEnd) = <<FileEnd>>
  BY <1>4 DEF WalkFrom
<1> QED
  BY <1>1, <1>5, Walk

\* mdat, with the free box in front of it if its size is in a 32-bit field.
LEMMA MdatBox ==
  ASSUME TypeInv, ClosedHeader, mdat_pos >= DataStart, mdat_pos + mdat_size <= FileEnd,
         BoxesFrom[mdat_pos + mdat_size] \in Seq(Nat)
  PROVE  LET first == IF IsLong THEN mdat_pos - 4 ELSE mdat_pos - 2
         IN  /\ first \in Nat /\ At(first + 1).kind = "mdat"
             /\ BoxesFrom[mdat_pos - 4] = <<first>> \o BoxesFrom[mdat_pos + mdat_size]
<1>1. /\ mdat_pos \in Nat /\ mdat_pos >= 12 /\ mdat_size \in Nat /\ FileEnd \in Nat
  BY BoxSizeType, 0 \in Nat DEF TypeInv, DataStart, FtypSize, HeaderSize
<1>2. BoxesFrom[mdat_pos + mdat_size] \in Seq(Nat)
  OBVIOUS
<1>3. CASE IsLong
  <2> DEFINE p == mdat_pos - 4
             size == mdat_size + 4
  <2>1. /\ p \in Nat /\ size \in Nat /\ size >= 2 /\ size >= 4
        /\ p + 1 = mdat_pos - 3 /\ p + 2 = mdat_pos - 2 /\ p + 3 = mdat_pos - 1
        /\ p + size = mdat_pos + mdat_size
    BY <1>1
  <2>2. file[p + 1] = Size(1) /\ file[p + 2] = Type("mdat") /\ file[p + 3] = LongSize(size)
    BY <1>3, <2>1 DEF ClosedHeader, LongHeaderSize
  <2> HIDE DEF p, size
  <2>3. /\ At(p + 1).kind = "mdat"
        /\ BoxesFrom[p] = <<p>> \o BoxesFrom[p + size]
    BY <2>1, <2>2, BoxAt
  <2> QED
    BY <1>2, <1>3, <2>1, <2>3 DEF p
<1>4. CASE ~IsLong
  <2> DEFINE f == mdat_pos - 4
             p == mdat_pos - 2
             size == mdat_size + 2
  <2>1. /\ f \in Nat /\ p \in Nat /\ size \in Nat /\ size >= 2
        /\ f + 1 = (mdat_pos - LongHeaderSize) + 1 /\ f + 2 = (mdat_pos - LongHeaderSize) + 2
        /\ f + 2 = p /\ f + 2 <= FileEnd
        /\ p + 1 = mdat_pos - 1 /\ p + 2 = mdat_pos
        /\ p + size = mdat_pos + mdat_size
    BY <1>1 DEF LongHeaderSize
  <2>2. /\ file[f + 1] = Size(2) /\ file[f + 2] = Type("free")
        /\ file[p + 1] = Size(size) /\ file[p + 2] = Type("mdat")
    BY <1>4, <2>1 DEF ClosedHeader, FreeAt, HeaderSize
  <2> HIDE DEF f, p, size
  <2>3. /\ At(p + 1).kind = "mdat"
        /\ BoxesFrom[p] = <<p>> \o BoxesFrom[p + size]
    BY <2>1, <2>2, BoxAt
  <2>4. BoxesFrom[f] = <<>> \o BoxesFrom[p]
    <3>1. /\ 2 \in Nat /\ 2 >= 2 /\ "free" \in {"ftyp", "free", "mdat", "moov"}
          /\ file[f + 1] = Size(2) /\ file[f + 2] = Type("free")
      BY <2>2
    <3>2. BoxesFrom[f] = <<>> \o BoxesFrom[f + 2]
      BY <2>1, <3>1, BoxAt
    <3> QED
      BY <2>1, <3>2
  <2>5. <<p>> \o BoxesFrom[p + size] \in Seq(Nat)
    BY <1>2, <2>1, InFront
  <2>6. BoxesFrom[f] = BoxesFrom[p]
    BY <2>3, <2>4, <2>5
  <2> QED
    BY <1>2, <1>4, <2>1, <2>3, <2>6 DEF f, p
<1> QED
  BY <1>3, <1>4

\* Three boxes that are not free, up to the end of the file.
LEMMA ThreeBoxes ==
  ASSUME NEW a \in Nat, NEW b \in Nat, NEW c \in Nat, NEW e \in Nat, e = FileEnd,
         Boxes = <<a>> \o (<<b>> \o (<<c>> \o <<e>>))
  PROVE  /\ Boxes[Len(Boxes)] = FileEnd
         /\ BoxTypes = <<At(a + 1).kind, At(b + 1).kind, At(c + 1).kind>>
         /\ Boxes[1] = a /\ Boxes[2] = b /\ Boxes[3] = c
<1> DEFINE last == <<e>>
           two == <<c>> \o last
           three == <<b>> \o two
           kindA == At(a + 1).kind
           kindB == At(b + 1).kind
           kindC == At(c + 1).kind
<1>1. last \in Seq(Nat) /\ Len(last) = 1 /\ last[1] = e
  OBVIOUS
<1> HIDE DEF last
<1>2. two \in Seq(Nat) /\ Len(two) = 2 /\ two[1] = c /\ two[2] = e
  <2>1. two \in Seq(Nat) /\ Len(two) = Len(last) + 1 /\ two[1] = c
    BY <1>1, InFront
  <2>2. \A i \in 1 .. Len(last) : two[i + 1] = last[i]
    BY <1>1, InFront
  <2>3. 1 \in 1 .. Len(last) /\ 1 + 1 = 2 /\ Len(last) + 1 = 2
    BY <1>1
  <2>4. two[1 + 1] = last[1]
    BY <2>2, <2>3
  <2> QED
    BY <1>1, <2>1, <2>3, <2>4
<1> HIDE DEF two
<1>3. three \in Seq(Nat) /\ Len(three) = 3 /\ three[1] = b /\ three[2] = c /\ three[3] = e
  <2>1. three \in Seq(Nat) /\ Len(three) = Len(two) + 1 /\ three[1] = b
    BY <1>2, InFront
  <2>2. \A i \in 1 .. Len(two) : three[i + 1] = two[i]
    BY <1>2, InFront
  <2>3. 1 \in 1 .. Len(two) /\ 2 \in 1 .. Len(two) /\ 1 + 1 = 2 /\ 2 + 1 = 3 /\ Len(two) + 1 = 3
    BY <1>2
  <2>4. three[1 + 1] = two[1] /\ three[2 + 1] = two[2]
    BY <2>2, <2>3
  <2> QED
    BY <1>2, <2>1, <2>3, <2>4
<1> HIDE DEF three
<1>4. Boxes = <<a>> \o three
  BY DEF three, two, last
<1>5. Len(Boxes) = 4 /\ Boxes[1] = a /\ Boxes[2] = b /\ Boxes[3] = c /\ Boxes[4] = e
  <2>1. Len(Boxes) = Len(three) + 1 /\ Boxes[1] = a
    BY <1>3, <1>4, InFront
  <2>2. \A i \in 1 .. Len(three) : Boxes[i + 1] = three[i]
    BY <1>3, <1>4, InFront
  <2>3. /\ 1 \in 1 .. Len(three) /\ 2 \in 1 .. Len(three) /\ 3 \in 1 .. Len(three)
        /\ 1 + 1 = 2 /\ 2 + 1 = 3 /\ 3 + 1 = 4 /\ Len(three) + 1 = 4
    BY <1>3
  <2>4. Boxes[1 + 1] = three[1] /\ Boxes[2 + 1] = three[2] /\ Boxes[3 + 1] = three[3]
    BY <2>2, <2>3
  <2> QED
    BY <1>3, <2>1, <2>3, <2>4
<1>6. BoxTypes = [i \in 1 .. 3 |-> At(Boxes[i] + 1).kind]
  BY <1>5 DEF BoxTypes
<1>7. BoxTypes[1] = kindA /\ BoxTypes[2] = kindB /\ BoxTypes[3] = kindC
  <2>1. 1 \in 1 .. 3 /\ 2 \in 1 .. 3 /\ 3 \in 1 .. 3
    OBVIOUS
  <2>2. /\ BoxTypes[1] = At(Boxes[1] + 1).kind /\ BoxTypes[2] = At(Boxes[2] + 1).kind
        /\ BoxTypes[3] = At(Boxes[3] + 1).kind
    BY <1>6, <2>1
  <2> QED
    BY <1>5, <2>2
<1> HIDE DEF kindA, kindB, kindC
<1>8. ASSUME NEW f, f = [i \in 1 .. 3 |-> f[i]], f[1] = kindA, f[2] = kindB, f[3] = kindC
      PROVE  f = <<kindA, kindB, kindC>>
  BY <1>8
<1>9. BoxTypes = [i \in 1 .. 3 |-> BoxTypes[i]]
  BY <1>6
<1> QED
  <2>1. BoxTypes = <<kindA, kindB, kindC>>
    BY <1>7, <1>8, <1>9
  <2> QED
    BY <1>5, <2>1 DEF kindA, kindB, kindC

\* The file at the end, box by box.
LEMMA BoxesOfFile ==
  ASSUME TypeInv, Layout, pc \in {"return", "end"}
  PROVE  LET mdat == IF IsLong THEN mdat_pos - 4 ELSE mdat_pos - 2
             moov == IF optimize THEN FtypSize ELSE mdat_pos + mdat_size
         IN  /\ Boxes[Len(Boxes)] = FileEnd
             /\ IF optimize
                  THEN BoxTypes = <<"ftyp", "moov", "mdat">> /\ Boxes[2] = moov
                  ELSE BoxTypes = <<"ftyp", "mdat", "moov">> /\ Boxes[3] = moov
<1> DEFINE size == MoovSize(chunk_table)
           first == IF IsLong THEN mdat_pos - 4 ELSE mdat_pos - 2
<1>1. /\ FileEnd >= DataStart /\ file[1] = Size(FtypSize) /\ file[2] = Type("ftyp")
      /\ ClosedHeader /\ DataStart = 12 /\ FtypSize = 8
  BY DEF Layout, DataStart, FtypSize, HeaderSize
<1>2. /\ mdat_size \in Nat /\ mdat_pos \in Nat /\ mdat_pos >= DataStart /\ mdat_pos >= 12
      /\ size \in Nat /\ size >= 2 /\ Reserve \in Nat /\ Reserve >= 2
      /\ FileEnd \in Nat /\ BoxesFrom[FileEnd] = <<FileEnd>>
      /\ <<FileEnd>> \in Seq(Nat)
  BY <1>1, MoovSizeType, LayoutAssumption, WalkEnds DEF TypeInv
<1>3. At(0 + 1).kind = "ftyp" /\ BoxesFrom[0] = <<0>> \o BoxesFrom[8]
  <2>1. /\ 8 \in Nat /\ 8 >= 2 /\ 0 + 8 <= FileEnd /\ 0 \in Nat
        /\ file[0 + 2] = Type("ftyp") /\ file[0 + 1] = Size(8)
        /\ "ftyp" \in {"ftyp", "free", "mdat", "moov"}
    BY <1>1, <1>2
  <2>2. At(0 + 1).kind = "ftyp" /\ BoxesFrom[0] = <<0>> \o BoxesFrom[0 + 8]
    BY <2>1, BoxAt
  <2> QED
    BY <2>2
<1>4. CASE optimize
  <2>1. /\ mdat_pos = 12 + (size + Reserve) /\ FileEnd = mdat_pos + mdat_size
        /\ MoovAt(FtypSize, Len(moovs)) /\ FreeAt(FtypSize + size, Reserve)
    BY <1>1, <1>4 DEF Layout, FrontSize
  <2>2. /\ first \in Nat /\ At(first + 1).kind = "mdat"
        /\ BoxesFrom[mdat_pos - 4] = <<first>> \o <<FileEnd>>
    <3>1. mdat_pos + mdat_size <= FileEnd /\ BoxesFrom[mdat_pos + mdat_size] = <<FileEnd>>
      BY <1>2, <2>1
    <3> QED
      BY <1>1, <1>2, <3>1, MdatBox
  <2>3. At(8 + 1).kind = "moov" /\ BoxesFrom[8] = <<8>> \o BoxesFrom[8 + size]
    <3>1. /\ 8 \in Nat /\ 8 + size <= FileEnd
          /\ file[8 + 1] = Size(size) /\ file[8 + 2] = Type("moov")
          /\ "moov" \in {"ftyp", "free", "mdat", "moov"}
      BY <1>1, <1>2, <2>1 DEF MoovAt
    <3> HIDE DEF size
    <3> QED
      BY <1>2, <3>1, BoxAt
  <2>4. BoxesFrom[8 + size] = <<>> \o BoxesFrom[mdat_pos - 4]
    <3> DEFINE pos == 8 + size
    <3>1. /\ pos \in Nat /\ pos + Reserve <= FileEnd /\ pos + Reserve = mdat_pos - 4
          /\ file[pos + 1] = Size(Reserve) /\ file[pos + 2] = Type("free")
          /\ "free" \in {"ftyp", "free", "mdat", "moov"}
      <4>1. file[pos + 1] = Size(Reserve) /\ file[pos + 2] = Type("free")
        BY <1>1, <2>1 DEF FreeAt
      <4> HIDE DEF size
      <4>2. pos \in Nat /\ pos + Reserve <= FileEnd /\ pos + Reserve = mdat_pos - 4
        BY <1>2, <2>1
      <4> QED
        BY <4>1, <4>2
    <3> HIDE DEF pos
    <3>2. BoxesFrom[pos] = <<>> \o BoxesFrom[pos + Reserve]
      BY <1>2, <3>1, BoxAt
    <3> QED
      BY <3>1, <3>2 DEF pos
  <2> HIDE DEF first
  <2>5. <<first>> \o <<FileEnd>> \in Seq(Nat)
    BY <1>2, <2>2, InFront
  <2>6. Boxes = <<0>> \o (<<8>> \o (<<first>> \o <<FileEnd>>))
    BY <1>3, <2>2, <2>3, <2>4, <2>5 DEF Boxes
  <2>7. /\ Boxes[Len(Boxes)] = FileEnd /\ BoxTypes = <<"ftyp", "moov", "mdat">> /\ Boxes[2] = 8
    <3> DEFINE a == 0
               b == 8
    <3>1. /\ a \in Nat /\ b \in Nat /\ first \in Nat /\ FileEnd \in Nat
          /\ Boxes = <<a>> \o (<<b>> \o (<<first>> \o <<FileEnd>>))
          /\ At(a + 1).kind = "ftyp" /\ At(b + 1).kind = "moov" /\ At(first + 1).kind = "mdat"
      BY <1>2, <1>3, <2>2, <2>3, <2>6
    <3> HIDE DEF a, b
    <3>2. /\ Boxes[Len(Boxes)] = FileEnd /\ Boxes[2] = b
          /\ BoxTypes = <<At(a + 1).kind, At(b + 1).kind, At(first + 1).kind>>
      BY <3>1, ThreeBoxes
    <3> QED
      BY <3>1, <3>2 DEF b
  <2> QED
    BY <1>1, <1>4, <2>7
<1>5. CASE ~optimize
  <2> DEFINE after == mdat_pos + mdat_size
  <2>1. /\ mdat_pos = 12 /\ FileEnd = after + size /\ MoovAt(after, Len(moovs))
    BY <1>1, <1>5 DEF Layout
  <2>2. /\ after \in Nat
        /\ At(after + 1).kind = "moov" /\ BoxesFrom[after] = <<after>> \o <<FileEnd>>
    <3>1. /\ after \in Nat /\ after + size <= FileEnd /\ after + size = FileEnd
          /\ file[after + 1] = Size(size) /\ file[after + 2] = Type("moov")
          /\ "moov" \in {"ftyp", "free", "mdat", "moov"}
      BY <1>2, <2>1 DEF MoovAt
    <3> HIDE DEF size, after
    <3>2. At(after + 1).kind = "moov" /\ BoxesFrom[after] = <<after>> \o BoxesFrom[after + size]
      BY <1>2, <3>1, BoxAt
    <3> QED
      BY <1>2, <3>1, <3>2
  <2>3. BoxesFrom[after] \in Seq(Nat)
    BY <1>2, <2>2, InFront
  <2>4. /\ first \in Nat /\ At(first + 1).kind = "mdat"
        /\ BoxesFrom[mdat_pos - 4] = <<first>> \o BoxesFrom[after]
    <3>1. mdat_pos + mdat_size <= FileEnd
      BY <1>2, <2>1
    <3> QED
      BY <1>1, <1>2, <2>3, <3>1, MdatBox
  <2>5. mdat_pos - 4 = 8
    BY <2>1
  <2> HIDE DEF first, after
  <2>6. Boxes = <<0>> \o (<<first>> \o (<<after>> \o <<FileEnd>>))
    BY <1>3, <2>2, <2>4, <2>5 DEF Boxes
  <2>7. /\ Boxes[Len(Boxes)] = FileEnd /\ BoxTypes = <<"ftyp", "mdat", "moov">> /\ Boxes[3] = after
    <3> DEFINE a == 0
    <3>1. /\ a \in Nat /\ first \in Nat /\ after \in Nat /\ FileEnd \in Nat
          /\ Boxes = <<a>> \o (<<first>> \o (<<after>> \o <<FileEnd>>))
          /\ At(a + 1).kind = "ftyp" /\ At(first + 1).kind = "mdat" /\ At(after + 1).kind = "moov"
      BY <1>2, <1>3, <2>2, <2>4, <2>6
    <3> HIDE DEF a
    <3>2. /\ Boxes[Len(Boxes)] = FileEnd /\ Boxes[3] = after
          /\ BoxTypes = <<At(a + 1).kind, At(first + 1).kind, At(after + 1).kind>>
      BY <3>1, ThreeBoxes
    <3> QED
      BY <3>1, <3>2
  <2> QED
    BY <1>5, <2>7 DEF after
<1> QED
  BY <1>4, <1>5

\* A successful m4af_finalize() leaves a file that its boxes fill without a
\* gap or an overlap, in the order the option asks for, whatever size the
\* header of mdat and the offsets had to take (m4af_begin_write,
\* m4af_finalize_mdat, m4af_shift_mdat_pos, m4af_finalize).
THEOREM BoxesAlwaysFillFile == Spec => []BoxesFillFile
<1> DEFINE Inv == TypeInv /\ ErrorInv /\ LayoutInv
<1>1. Init => Inv
  BY TypeInit, LayoutInit DEF Init, ErrorInv
<1>2. Inv /\ [Next]_vars => Inv'
  BY TypeNext, ErrorNext, LayoutNext
<1>3. Inv => BoxesFillFile
  <2> SUFFICES ASSUME Inv, result = 0 PROVE BoxesFillFile
    BY DEF BoxesFillFile
  <2>1. pc = "end" /\ ~last_error
    BY DEF ErrorInv
  <2>2. Layout
    BY <2>1 DEF LayoutInv
  <2> QED
    BY <2>1, <2>2, BoxesOfFile DEF BoxesFillFile
<1> QED
  BY <1>1, <1>2, <1>3, PTL DEF Spec

-----------------------------------------------------------------------------
(***************************************************************************)
(* What a reader of the file gets.                                         *)
(***************************************************************************)
\* stsc gives for every chunk the number of its samples, although it has an
\* entry only where that number changes.
LEMMA SamplesInChunk ==
  ASSUME NEW list \in Seq(Chunks), NEW c \in 1 .. Len(list)
  PROVE  SamplesIn(Tables(list), c) = list[c].samples_per_chunk
<1> DEFINE n == Len(list)
           entries == StscEntries(list)
           T == {f \in entries : f <= c}
           runs == [e \in entries |-> list[e].samples_per_chunk]
<1>1. n \in Nat /\ c \in 1 .. n /\ entries \subseteq 1 .. n
  BY LenProperties DEF StscEntries
<1>2. 1 \in T
  BY <1>1 DEF StscEntries
<1>3. T \in SUBSET Int /\ T # {} /\ c \in Int /\ \A y \in T : y <= c
  BY <1>1, <1>2
<1>4. Max(T) \in T /\ \A y \in T : y <= Max(T)
  <2> HIDE DEF T
  <2> QED
    BY <1>3, MaxOf
<1>5. PICK f \in T : f = Max(T) /\ \A y \in T : y <= f
  BY <1>4
<1>6. f \in entries /\ f \in 1 .. n /\ f <= c
  BY <1>1, <1>5
<1>7. ASSUME NEW d \in (f + 1) .. c
      PROVE  list[d].samples_per_chunk = list[d - 1].samples_per_chunk
  <2>1. d \in 1 .. n /\ d <= c /\ d > f /\ d > 1
    BY <1>1, <1>6
  <2>2. d \notin T
    BY <1>5, <1>6, <2>1
  <2>3. d \notin entries
    BY <2>1, <2>2
  <2> QED
    BY <2>1, <2>3 DEF StscEntries
<1>8. list[c].samples_per_chunk = list[f].samples_per_chunk
  <2> DEFINE U == {k \in Nat : f + k <= c =>
                      list[f + k].samples_per_chunk = list[f].samples_per_chunk}
  <2>1. 0 \in U
    BY <1>6
  <2>2. ASSUME NEW k \in 0 .. (c - 1), k \in U PROVE k + 1 \in U
    <3>1. k \in Nat /\ k + 1 \in Nat
      OBVIOUS
    <3>2. ASSUME f + (k + 1) <= c
          PROVE  list[f + (k + 1)].samples_per_chunk = list[f].samples_per_chunk
      <4>1. /\ f + (k + 1) \in (f + 1) .. c /\ (f + (k + 1)) - 1 = f + k /\ f + k <= c
        BY <1>1, <1>6, <3>1, <3>2
      <4>2. list[f + (k + 1)].samples_per_chunk = list[f + k].samples_per_chunk
        BY <1>7, <4>1
      <4> QED
        BY <2>2, <4>1, <4>2
    <3> QED
      BY <3>1, <3>2
  <2>3. c - f \in 0 .. c /\ f + (c - f) = c /\ c \in Nat
    BY <1>1, <1>6
  <2>4. c - f \in U
    <3> HIDE DEF U
    <3> QED
      BY <2>1, <2>2, <2>3, UpTo
  <2> QED
    BY <2>3, <2>4
<1>9. Tables(list).stsc = runs /\ DOMAIN runs = entries
  BY DEF Tables
<1>10. SamplesIn(Tables(list), c) = runs[Max(T)]
  BY <1>9 DEF SamplesIn
<1> HIDE DEF T
<1> QED
  BY <1>5, <1>6, <1>8, <1>10

\* The offsets in the box are those of the table: if they are written to
\* 32-bit fields, the last and largest of them fits, unless the last chunk has
\* none and cuts those of the others.
LEMMA OffsetsInBox ==
  ASSUME TypeInv, SharesInv, OffsetInv, pc = "return", ~last_error, ~OffsetsCut,
         NEW c \in 1 .. Len(chunk_table), chunk_table[c].size > 0
  PROVE  /\ Tables(chunk_table).offsets[c] = mdat_pos + Begins[Before[c - 1]]
         /\ Begins[Before[c - 1]] \in Nat /\ mdat_pos \in Nat
<1> DEFINE n == Len(chunk_table)
           m == Len(sample_table)
           start(d) == Begins[Before[d]]
<1>1. /\ n \in Nat /\ m \in Nat
      /\ \A d \in 0 .. n : Before[d] \in 0 .. m
      /\ \A d \in 1 .. n : Before[d - 1] < Before[d] /\ d - 1 \in 0 .. n
      /\ \A s \in 0 .. m : Begins[s] \in Nat
      /\ \A s \in 1 .. m : /\ Begins[s] = Begins[s - 1] + sample_table[s]
                           /\ sample_table[s] \in Nat /\ s - 1 \in 0 .. m
      /\ \A s \in 0 .. m : \A t \in s .. m : Begins[s] <= Begins[t]
  BY TablesInOrder
<1>2. \A d \in 0 .. n : start(d) \in Nat
  BY <1>1
<1>3. ASSUME NEW d \in 1 .. n, chunk_table[d].size > 0
      PROVE  chunk_table[d].offset = mdat_pos + start(d - 1)
  <2>1. Placed(d)
    BY <1>3 DEF Placed
  <2> QED
    BY <2>1 DEF OffsetInv, MdatBegin
<1>4. mdat_pos \in Nat /\ Limit \in Nat /\ c \in 1 .. n /\ n \in 1 .. n
  BY <1>1, LimitAssumption DEF TypeInv
<1>5. start(c - 1) <= start(n - 1)
  <2> DEFINE U == {k \in Nat : (c - 1) + k <= n - 1 => start(c - 1) <= start((c - 1) + k)}
  <2>1. c - 1 \in 0 .. n
    BY <1>1
  <2>2. 0 \in U
    BY <1>2, <2>1
  <2>3. ASSUME NEW k \in 0 .. (n - 1), k \in U PROVE k + 1 \in U
    <3>1. CASE (c - 1) + (k + 1) <= n - 1
      <4> DEFINE d == (c - 1) + (k + 1)
      <4>1. /\ d \in 1 .. n /\ d - 1 = (c - 1) + k /\ d - 1 \in 0 .. n /\ d \in 0 .. n
            /\ (c - 1) + k <= n - 1
        BY <1>1, <3>1
      <4>2. start(c - 1) <= start(d - 1)
        BY <2>3, <4>1
      <4>3. Before[d - 1] \in 0 .. m /\ Before[d] \in 0 .. m /\ Before[d - 1] < Before[d]
        BY <1>1, <4>1
      <4>4. start(d - 1) <= start(d)
        <5>1. Before[d] \in Before[d - 1] .. m
          BY <4>3
        <5> QED
          BY <1>1, <4>3, <5>1
      <4>5. start(c - 1) \in Nat /\ start(d - 1) \in Nat /\ start(d) \in Nat
        BY <1>2, <2>1, <4>1
      <4> HIDE DEF start, d
      <4>6. start(c - 1) <= start(d)
        BY <4>2, <4>4, <4>5
      <4> QED
        BY <4>6 DEF d
    <3>2. CASE ~((c - 1) + (k + 1) <= n - 1)
      BY <3>2
    <3> QED
      BY <3>1, <3>2
  <2>4. n - c \in 0 .. n /\ (c - 1) + (n - c) = n - 1
    BY <1>1
  <2>5. n - c \in U
    <3> HIDE DEF U, start
    <3> QED
      BY <1>1, <2>2, <2>3, <2>4, UpTo
  <2> HIDE DEF start
  <2> QED
    BY <2>4, <2>5
<1> HIDE DEF start
<1>6. c - 1 \in 0 .. n /\ n - 1 \in 0 .. n /\ start(c - 1) \in Nat /\ start(n - 1) \in Nat
  BY <1>1, <1>2, <1>4
<1>7. chunk_table[c].offset = mdat_pos + start(c - 1)
  BY <1>3
<1>8. CASE IsCo64(chunk_table)
  <2>1. Tables(chunk_table).offsets[c] = chunk_table[c].offset
    BY <1>8 DEF Tables
  <2> QED
    BY <1>4, <1>6, <1>7, <2>1 DEF start
<1>9. CASE ~IsCo64(chunk_table)
  <2>1. Tables(chunk_table).offsets[c] = Field32(chunk_table[c].offset)
    BY <1>9 DEF Tables
  <2>2. mdat_pos + start(c - 1) <= Limit
    <3>1. chunk_table \in Seq(Chunks) /\ chunk_table # <<>> /\ Last(chunk_table) = chunk_table[n]
      BY <1>4 DEF TypeInv, Last
    <3>2. chunk_table[n].size \in Nat /\ chunk_table[c].offset \in Nat
      <4>1. chunk_table[n] \in Chunks /\ chunk_table[c] \in Chunks
        BY <1>4, <3>1, ElementOfSeq
      <4> QED
        BY <4>1 DEF Chunks
    <3>3. CASE chunk_table[n].size = 0
      <4>1. ~(chunk_table[c].offset > Limit)
        BY <1>4, <1>9, <3>1, <3>3 DEF OffsetsCut
      <4> QED
        BY <1>4, <1>7, <3>2, <4>1
    <3>4. CASE chunk_table[n].size > 0
      <4>1. chunk_table[n].offset = mdat_pos + start(n - 1)
        BY <1>3, <1>4, <3>4
      <4>2. mdat_pos + start(n - 1) <= Limit
        BY <1>4, <1>6, <1>9, <4>1 DEF IsCo64
      <4> QED
        BY <1>4, <1>5, <1>6, <4>2
    <3> QED
      BY <3>2, <3>3, <3>4
  <2>3. mdat_pos + start(c - 1) \in 0 .. Limit
    BY <1>4, <1>6, <2>2
  <2>4. Field32(mdat_pos + start(c - 1)) = mdat_pos + start(c - 1)
    <3>1. ASSUME NEW x \in 0 .. Limit PROVE x % (Limit + 1) = x
      BY <1>4
    <3> QED
      BY <2>3, <3>1 DEF Field32
  <2> QED
    BY <1>4, <1>6, <1>7, <2>1, <2>4 DEF start
<1> QED
  BY <1>8, <1>9

\* Whatever the offset of a chunk is, a number stands in the box.
LEMMA OffsetsAreNumbers ==
  ASSUME TypeInv, NEW c \in 1 .. Len(chunk_table)
  PROVE  Tables(chunk_table).offsets[c] \in Nat
<1>1. chunk_table \in Seq(Chunks) /\ Limit \in Nat
  BY LimitAssumption DEF TypeInv
<1>2. chunk_table[c].offset \in Nat
  <2>1. chunk_table[c] \in Chunks
    BY <1>1, ElementOfSeq
  <2> QED
    BY <2>1 DEF Chunks
<1>3. Field32(chunk_table[c].offset) \in Nat
  <2>1. ASSUME NEW x \in Nat PROVE x % (Limit + 1) \in Nat
    BY <1>1
  <2> QED
    BY <1>2, <2>1 DEF Field32
<1> QED
  BY <1>2, <1>3 DEF Tables

\* A reader that follows the tables finds the cells of a sample.
LEMMA SampleFound ==
  ASSUME TypeInv, SharesInv, LayoutInv, OffsetInv, ContentInv,
         pc = "return", ~last_error, ~OffsetsCut, NEW s \in 1 .. Len(sample_table)
  PROVE  Located(Tables(chunk_table), s) = SampleData(s, sample_table[s])
<1> DEFINE n == Len(chunk_table)
           m == Len(sample_table)
           tables == Tables(chunk_table)
           C == {c \in 1 .. n : s <= Before[c]}
           chosen == CHOOSE c \in 1 .. n : Before[c - 1] < s /\ s <= Before[c]
           size == sample_table[s]
           pos == mdat_pos + Begins[s - 1]
<1>1. /\ n \in Nat /\ m \in Nat /\ Before[0] = 0 /\ Before[n] = m
      /\ \A c \in 0 .. n : Before[c] \in 0 .. m
      /\ \A c \in 1 .. n : Before[c - 1] < Before[c] /\ c - 1 \in 0 .. n
      /\ \A t \in 0 .. m : Begins[t] \in Nat
      /\ s - 1 \in 0 .. m /\ size \in Nat
  BY TablesInOrder
<1>2. tables.sizes = sample_table /\ Len(tables.offsets) = n
  <2>1. tables.sizes = sample_table
    BY DEF Tables
  <2> DEFINE f == tables.offsets
  <2>2. f \in [1 .. n -> Nat]
    <3>1. \A c \in 1 .. n : f[c] \in Nat
      <4>1. ASSUME NEW c \in 1 .. n PROVE f[c] \in Nat
        BY OffsetsAreNumbers
      <4> QED
        BY <4>1
    <3>2. f = [c \in 1 .. n |-> f[c]]
      BY DEF Tables
    <3> QED
      BY <3>1, <3>2
  <2> HIDE DEF f
  <2>3. Len(f) = n
    BY <1>1, <2>2, FunctionIsSeq
  <2> QED
    BY <2>1, <2>3 DEF f
<1>3. [c \in 1 .. Len(tables.offsets) |-> SamplesIn(tables, c)] = Counts(chunk_table)
  <2>1. chunk_table \in Seq(Chunks)
    BY DEF TypeInv
  <2>2. \A c \in 1 .. n : SamplesIn(tables, c) = chunk_table[c].samples_per_chunk
    BY <2>1, SamplesInChunk
  <2> QED
    BY <1>2, <2>2 DEF Counts
<1>4. \E c \in 1 .. n : Before[c - 1] < s /\ s <= Before[c]
  <2>1. s \in 1 .. m /\ n # 0
    BY <1>1
  <2>2. n \in C
    BY <1>1, <2>1
  <2>3. C \in SUBSET Nat /\ C # {}
    BY <1>1, <2>2
  <2>4. PICK c \in C : \A d \in C : c <= d
    <3> HIDE DEF C
    <3> QED
      BY <2>3, SmallestOf
  <2>5. c \in 1 .. n /\ s <= Before[c]
    BY <2>4
  <2>6. Before[c - 1] < s
    <3>1. CASE c = 1
      BY <1>1, <2>1, <3>1
    <3>2. CASE c # 1
      <4>1. c - 1 \in 1 .. n /\ ~(c <= c - 1)
        BY <1>1, <2>5, <3>2
      <4>2. ~(s <= Before[c - 1])
        BY <2>4, <4>1
      <4>3. Before[c - 1] \in 0 .. m
        BY <1>1, <2>5
      <4> QED
        BY <1>1, <2>1, <4>2, <4>3
    <3> QED
      BY <3>1, <3>2
  <2> QED
    BY <2>5, <2>6
<1>5. chosen \in 1 .. n
  BY <1>4
<1>6. /\ tables.offsets[chosen] \in Nat /\ mdat_pos \in Nat
      /\ size > 0 => tables.offsets[chosen] = mdat_pos + Begins[Before[chosen - 1]]
  <2>1. Before[chosen - 1] < s /\ s <= Before[chosen]
    BY <1>4
  <2> HIDE DEF chosen
  <2>2. tables.offsets[chosen] \in Nat /\ mdat_pos \in Nat
    BY <1>5, OffsetsAreNumbers DEF TypeInv
  <2>3. ASSUME size > 0 PROVE chunk_table[chosen].size > 0
    <3> DEFINE a == Before[chosen - 1]
               b == Before[chosen]
    <3>1. a \in 0 .. m /\ b \in 0 .. m /\ s - 1 \in a .. m /\ b \in s .. m /\ s \in 0 .. m
      BY <1>1, <1>5, <2>1
    <3>2. chunk_table[chosen].size = Begins[b] - Begins[a]
      BY <1>5 DEF SharesInv
    <3> HIDE DEF a, b
    <3>3. Begins[a] <= Begins[s - 1] /\ Begins[s] <= Begins[b] /\ Begins[s] = Begins[s - 1] + size
      BY <3>1, TablesInOrder
    <3>4. Begins[a] \in Nat /\ Begins[b] \in Nat /\ Begins[s] \in Nat /\ Begins[s - 1] \in Nat
      BY <1>1, <3>1
    <3> QED
      BY <1>1, <2>3, <3>2, <3>3, <3>4
  <2> QED
    BY <1>5, <2>2, <2>3, OffsetsInBox
<1>7. Located(tables, s)
        = LET p == tables.offsets[chosen] + Begins[s - 1] - Begins[Before[chosen - 1]]
          IN  Get(file, p, p + size)
  BY <1>2, <1>3 DEF Located, Before, Begins
<1>8. Before[chosen - 1] \in 0 .. m /\ Begins[Before[chosen - 1]] \in Nat
  <2> HIDE DEF chosen
  <2> QED
    BY <1>1, <1>5
<1> HIDE DEF chosen, tables, n, m
<1>9. Begins[s - 1] \in Nat /\ pos \in Nat
  BY <1>1, <1>6
<1>10. ASSUME NEW k \in 1 .. size
       PROVE  pos + k <= FileEnd /\ file[pos + k] = Data(s, k)
  <2>1. RelocationLosesNothing
    BY ContentIsSamples
  <2>2. At(mdat_pos + Begins[s - 1] + k - 1) = Data(s, k)
    <3>1. pc # "shift"
      OBVIOUS
    <3> QED
      BY <2>1, <3>1 DEF RelocationLosesNothing, Begins
  <2>3. mdat_size = Begins[Len(sample_table)] /\ Begins[s - 1] + k \in 1 .. mdat_size
    <3>1. mdat_size = Begins[Len(sample_table)]
      BY ContentAllWritten
    <3> QED
      BY <3>1, CellOfSample
  <2>4. mdat_pos + mdat_size <= FileEnd
    <3>1. /\ pc \in {"return", "end"} /\ Layout
      BY DEF LayoutInv
    <3>2. IF optimize THEN FileEnd = mdat_pos + mdat_size
                      ELSE FileEnd = mdat_pos + mdat_size + MoovSize(chunk_table)
      BY <3>1 DEF Layout
    <3>3. MoovSize(chunk_table) \in Nat /\ mdat_size \in Nat /\ mdat_pos \in Nat
      BY WrittenCells DEF TypeInv
    <3> QED
      BY <3>2, <3>3
  <2>5. mdat_size \in Nat /\ mdat_pos \in Nat /\ k \in Nat /\ FileEnd \in Nat
    BY <1>1, BoxSizeType, 0 \in Nat DEF TypeInv
  <2> DEFINE b == Begins[s - 1]
  <2>6. b \in Nat /\ b + k \in 1 .. mdat_size /\ At(mdat_pos + b + k - 1) = Data(s, k)
    BY <1>9, <2>2, <2>3
  <2> HIDE DEF b
  <2>7. mdat_pos + b + k <= FileEnd /\ (mdat_pos + b + k - 1) + 1 = mdat_pos + b + k
    BY <2>4, <2>5, <2>6
  <2>8. file[mdat_pos + b + k] = Data(s, k)
    BY <2>6, <2>7 DEF At
  <2> QED
    BY <2>7, <2>8 DEF b
<1> HIDE DEF pos, size
<1>11. Get(file, pos, pos + size) = [k \in 1 .. size |-> Data(s, k)]
  <2>1. (pos + size) - pos = size
    BY <1>1, <1>9
  <2>2. Get(file, pos, pos + size)
          = [k \in 1 .. size |-> IF pos + k <= Len(file) THEN file[pos + k] ELSE Hole]
    BY <2>1 DEF Get
  <2> QED
    BY <1>10, <2>2 DEF FileEnd
<1> DEFINE x == Begins[Before[chosen - 1]]
           y == Begins[s - 1]
           p == tables.offsets[chosen] + y - x
<1>12. x \in Nat /\ y \in Nat /\ pos = mdat_pos + y
  BY <1>1, <1>8 DEF pos
<1> HIDE DEF x, y
<1>13. CASE size > 0
  <2>1. p = pos
    <3>1. tables.offsets[chosen] = mdat_pos + x
      BY <1>6, <1>13 DEF x
    <3> QED
      BY <1>6, <1>12, <3>1
  <2>2. Located(tables, s) = Get(file, p, p + size)
    BY <1>7 DEF x, y
  <2>3. Located(tables, s) = Get(file, pos, pos + size)
    BY <2>1, <2>2
  <2> QED
    BY <1>11, <2>3 DEF SampleData, tables, size
<1>14. CASE size = 0
  <2>1. (p + size) - p = 0 /\ 1 .. 0 = {}
    BY <1>6, <1>12, <1>14
  <2>2. Get(file, p, p + size) = SampleData(s, size)
    <3>1. Get(file, p, p + size)
            = [k \in 1 .. 0 |-> IF p + k <= Len(file) THEN file[p + k] ELSE Hole]
      BY <2>1 DEF Get
    <3>2. SampleData(s, size) = [k \in 1 .. 0 |-> Data(s, k)]
      BY <1>14 DEF SampleData
    <3> QED
      BY <2>1, <3>1, <3>2
  <2>3. Located(tables, s) = Get(file, p, p + size)
    BY <1>7 DEF x, y
  <2> QED
    BY <2>2, <2>3 DEF tables, size
<1> HIDE DEF p, x, y
<1> QED
  BY <1>1, <1>13, <1>14 DEF size, tables

\* A reader finds the moov box, and through it every sample.
LEMMA AllSamplesRead ==
  ASSUME TypeInv, SharesInv, LayoutInv, OffsetInv, ContentInv,
         pc = "return", ~last_error, ~OffsetsCut
  PROVE  ReadSamples = 1 .. Len(sample_table)
<1> DEFINE version == Len(moovs)
           tables == moovs[version]
           at == {i \in DOMAIN BoxTypes : BoxTypes[i] = "moov"}
           place == IF optimize THEN FtypSize ELSE mdat_pos + mdat_size
           size == MoovSize(chunk_table)
<1>1. pc \in {"return", "end"} /\ Layout
  BY DEF LayoutInv
<1>2. /\ tables = Tables(chunk_table) /\ MoovAt(place, version)
      /\ FileEnd >= place + size /\ place \in Nat /\ size \in Nat /\ size >= 2
  <2>1. /\ size \in Nat /\ size >= 2 /\ Reserve \in Nat /\ mdat_pos \in Nat /\ mdat_size \in Nat
    BY MoovSizeType, LayoutAssumption DEF TypeInv
  <2>2. tables = Tables(chunk_table) /\ MoovAt(place, version)
    BY <1>1 DEF Layout
  <2>3. /\ optimize => FileEnd = 12 + (size + Reserve) + mdat_size
        /\ ~optimize => FileEnd = mdat_pos + mdat_size + size
    BY <1>1 DEF Layout, FrontSize, DataStart, FtypSize, HeaderSize
  <2>4. FtypSize = 8
    BY DEF FtypSize
  <2> HIDE DEF size
  <2>5. CASE optimize
    BY <2>1, <2>2, <2>3, <2>4, <2>5
  <2>6. CASE ~optimize
    BY <2>1, <2>2, <2>3, <2>6
  <2> QED
    BY <2>5, <2>6
<1>3. at # {} /\ Boxes[Min(at)] = place
  <2>1. IF optimize
          THEN BoxTypes = <<"ftyp", "moov", "mdat">> /\ Boxes[2] = place
          ELSE BoxTypes = <<"ftyp", "mdat", "moov">> /\ Boxes[3] = place
    BY <1>1, BoxesOfFile
  <2>2. optimize => at = {2}
    BY <2>1
  <2>3. ~optimize => at = {3}
    BY <2>1
  <2> HIDE DEF at, place
  <2>4. ASSUME NEW i \in Nat, at = {i} PROVE Min(at) = i
    <3>1. at \in SUBSET Nat /\ at # {}
      BY <2>4
    <3> QED
      BY <2>4, <3>1, MinOf
  <2> QED
    BY <2>1, <2>2, <2>3, <2>4
<1>4. BoxSize(place) = size
  <2>1. /\ file[place + 1] = Size(size) /\ file[place + 2] = Type("moov")
        /\ place + size <= FileEnd /\ "moov" \in {"ftyp", "free", "mdat", "moov"}
    <3>1. FileEnd \in Nat
      BY BoxSizeType, 0 \in Nat
    <3>2. file[place + 1] = Size(size) /\ file[place + 2] = Type("moov")
      BY <1>2 DEF MoovAt
    <3> HIDE DEF size, place
    <3> QED
      BY <1>2, <3>1, <3>2
  <2> HIDE DEF size, place
  <2> QED
    BY <1>2, <2>1, BoxAt
<1>5. MoovIntact(place, version)
  <2> SUFFICES ASSUME NEW k \in 1 .. (size - HeaderSize) PROVE At(place + 1 + k) = Body(version, k)
    BY <1>4 DEF MoovIntact
  <2>1. file[place + 2 + k] = Body(version, k)
    BY <1>2 DEF MoovAt
  <2> HIDE DEF place, size
  <2>2. (place + 1 + k) + 1 = place + 2 + k
    BY <1>2
  <2> QED
    BY <2>1, <2>2 DEF At
<1>6. ReadSamples = {s \in 1 .. Len(tables.sizes) :
                       Located(tables, s) = SampleData(s, sample_table[s])}
  BY <1>3, <1>5 DEF ReadSamples
<1>7. tables.sizes = sample_table
  BY <1>2 DEF Tables
<1>8. \A s \in 1 .. Len(sample_table) : Located(tables, s) = SampleData(s, sample_table[s])
  BY <1>2, SampleFound
<1> QED
  BY <1>6, <1>7, <1>8

-----------------------------------------------------------------------------
(***************************************************************************)
(* The refinement of SampleStore.                                          *)
(***************************************************************************)
\* What the steps look like to the caller.
LEMMA StepsOfStore ==
  ASSUME TypeInv, ErrorInv, SharesInv, LayoutInv, OffsetInv, ContentInv,
         ErrorInv', [Next]_vars
  PROVE  [Store!StoreNext]_(Store!storeVars)
<1> DEFINE readable == IF IsGood THEN ReadSamples ELSE {}
           status == IF pc # "end" THEN "open" ELSE IF IsGood THEN "closed" ELSE "failed"
<1>1. ASSUME pc # "end", pc' # "end"
      PROVE  readable' = readable /\ status' = status /\ status = "open"
  BY <1>1 DEF ErrorInv, IsGood
<1>2. ASSUME sample_table' = sample_table, pc # "end", pc' # "end"
      PROVE  [Store!StoreNext]_(Store!storeVars)
  BY <1>1, <1>2 DEF Store!storeVars
<1>3. ASSUME NEW size \in SampleSizes, sample_table' = Append(sample_table, size),
             Len(sample_table) < MaxSamples, pc = "open", pc' = "open"
      PROVE  [Store!StoreNext]_(Store!storeVars)
  <2>1. Store!Append1(size)
    BY <1>1, <1>3 DEF Store!Append1
  <2> QED
    BY <2>1 DEF Store!StoreNext
<1>4. ASSUME NEW size \in SampleSizes, WriteSample(size)
      PROVE  [Store!StoreNext]_(Store!storeVars)
  BY <1>3, <1>4 DEF WriteSample, TakesSample
<1>5. ASSUME NEW size \in SampleSizes, WriteSampleInNewChunk(size)
      PROVE  [Store!StoreNext]_(Store!storeVars)
  BY <1>3, <1>5 DEF WriteSampleInNewChunk, TakesSample
<1>6. ASSUME sample_table' = sample_table, pc # "end", pc' = "end", ~IsGood'
      PROVE  [Store!StoreNext]_(Store!storeVars)
  <2>1. /\ status = "open" /\ status' = "failed" /\ readable = {} /\ readable' = {}
    BY <1>6 DEF ErrorInv, IsGood
  <2>2. Store!Fail
    BY <1>6, <2>1 DEF Store!Fail
  <2> QED
    BY <2>2 DEF Store!StoreNext
<1>7. CASE WriteSampleFails
  BY <1>6, <1>7 DEF WriteSampleFails, IsGood
<1>8. CASE Return
  <2>1. /\ pc = "return" /\ pc' = "end"
        /\ UNCHANGED <<file, moovs, sample_table, chunk_table>>
    BY <1>8 DEF Return, ctxVars, ioVars
  <2>2. OffsetsCut' = OffsetsCut
    BY <2>1 DEF OffsetsCut, IsCo64
  <2>3. CASE last_error \/ OffsetsCut
    <3>1. ~IsGood'
      BY <1>8, <2>2, <2>3 DEF Return, IsGood
    <3> QED
      BY <1>6, <2>1, <3>1
  <2>4. CASE ~last_error /\ ~OffsetsCut
    <3>1. ~IsGood /\ IsGood'
      BY <1>8, <2>1, <2>2, <2>4 DEF Return, ErrorInv, IsGood
    <3>2. ReadSamples = 1 .. Len(sample_table)
      BY <2>1, <2>4, AllSamplesRead
    <3>3. ReadSamples' = ReadSamples
      BY <2>1 DEF ReadSamples, MoovIntact, Boxes, BoxTypes, BoxesFrom, BoxSize, At, FileEnd,
                  Located, Get
    <3>4. /\ status = "open" /\ status' = "closed" /\ readable' = 1 .. Len(sample_table)
      BY <2>1, <3>1, <3>2, <3>3
    <3>5. Store!Close
      BY <2>1, <3>4 DEF Store!Close
    <3> QED
      BY <3>5 DEF Store!StoreNext
  <2> QED
    BY <2>3, <2>4 DEF TypeInv
<1>9. CASE UNCHANGED vars
  <2>1. UNCHANGED <<pc, result, file, moovs, sample_table, chunk_table>>
    BY <1>9 DEF vars, ctxVars, ioVars
  <2>2. ReadSamples' = ReadSamples
    BY <2>1 DEF ReadSamples, MoovIntact, Boxes, BoxTypes, BoxesFrom, BoxSize, At, FileEnd,
                Located, Get
  <2>3. IsGood' = IsGood
    BY <2>1 DEF IsGood, OffsetsCut, IsCo64
  <2> QED
    BY <2>1, <2>2, <2>3 DEF Store!storeVars
<1>10. CASE Ended
  BY <1>9, <1>10 DEF Ended
<1>11. CASE BeginWrite
  BY <1>2, <1>11 DEF BeginWrite
<1>12. CASE FlushLast
  BY <1>2, <1>12 DEF FlushLast
<1>13. CASE FinalizeMdat
  BY <1>2, <1>13 DEF FinalizeMdat
<1>14. CASE WriteMoov
  BY <1>2, <1>14 DEF WriteMoov
<1>15. CASE PatchMoov
  BY <1>2, <1>15 DEF PatchMoov
<1>16. CASE ShiftBlock
  BY <1>2, <1>16 DEF ShiftBlock
<1>17. CASE ShiftHeader
  BY <1>2, <1>17 DEF ShiftHeader
<1>18. CASE WriteMoovInFront
  BY <1>2, <1>18 DEF WriteMoovInFront
<1> QED
  BY <1>4, <1>5, <1>7, <1>8, <1>9, <1>10, <1>11, <1>12, <1>13, <1>14, <1>15, <1>16, <1>17, <1>18
     DEF Next

\* The muxer implements the store of samples: after a success a reader that
\* walks the boxes and follows stsz, stsc and stco or co64 gets every cell of
\* every sample that was written, and no other, with moov at either end of the
\* file, and also when an interruption ends the track with an empty sample
\* (m4af_write_sample, m4af_finalize).  The one exception is OffsetsCut.
THEOREM MuxerStoresSamples == Spec => StoresSamples
<1> DEFINE Inv == /\ TypeInv /\ ErrorInv /\ SharesInv /\ SampleInv /\ LayoutInv
                  /\ OffsetInv /\ ContentInv
<1>1. Init => Inv
  <2>1. Init => ErrorInv
    BY DEF Init, ErrorInv
  <2> QED
    BY <2>1, TypeInit, ChunkInit, LayoutInit, OffsetInit, ContentInit DEF ChunkInv
<1>2. Inv /\ [Next]_vars => Inv'
  <2> SUFFICES ASSUME Inv, [Next]_vars PROVE Inv'
    OBVIOUS
  <2>1. TypeInv' /\ ErrorInv' /\ LayoutInv'
    BY TypeNext, ErrorNext, LayoutNext
  <2>2. ChunkInv /\ ChunkInv'
    BY <2>1, ChunkNext DEF ChunkInv
  <2>3. OffsetInv'
    BY <2>1, <2>2, OffsetNext
  <2>4. ContentInv'
    BY <2>1, <2>3, ContentNext
  <2> QED
    BY <2>1, <2>2, <2>3, <2>4 DEF ChunkInv
<1>3. Init => Store!StoreInit
  BY DEF Init, Store!StoreInit, IsGood
<1>4. Inv /\ Inv' /\ [Next]_vars => [Store!StoreNext]_(Store!storeVars)
  BY StepsOfStore
<1> HIDE DEF Inv
<1> QED
  BY <1>1, <1>2, <1>3, <1>4, PTL DEF Spec, StoresSamples, Store!StoreSpec

-----------------------------------------------------------------------------
(***************************************************************************)
(* The bitrates of BoxWriters, the other half of m4af.c.                   *)
(***************************************************************************)
\* Bytes x of samples over a time y stay below a rate m.
Below(x, y, m) == 16 * x * Timescale + y < 2 * y * (m + 1)

\* The first k samples, at a rate of no more than m.
FirstBelow(sizes, k, m) == Below(Sums(sizes)[k], FrameDuration * k, m)

\* A rate is rounded, and then compared.
LEMMA RateBelow ==
  ASSUME NEW x \in Nat, NEW y \in Nat \ {0}, NEW m \in Nat
  PROVE  Rate(x, y) \in Nat /\ (Rate(x, y) <= m <=> Below(x, y, m))
<1> DEFINE n == 16 * x * Timescale + y
           d == 2 * y
           q == n \div d
<1>1. n \in Nat /\ d \in Nat /\ d > 0
  <2>1. Timescale \in Nat
    BY DurationAssumption
  <2>2. 16 * x \in Nat
    OBVIOUS
  <2>3. 16 * x * Timescale \in Nat
    BY <2>1, <2>2
  <2> QED
    BY <2>3
<1>2. Rate(x, y) = q
  BY DEF Rate
<1>3. Below(x, y, m) <=> n < d * (m + 1)
  BY DEF Below
<1> HIDE DEF n, d
<1>4. q \in Nat /\ d * q <= n /\ n < d * (q + 1)
  BY <1>1
<1> HIDE DEF q
<1>5. CASE q <= m
  <2>1. PICK e \in Nat : m = q + e
    <3>1. m - q \in Nat /\ m = q + (m - q)
      BY <1>4, <1>5
    <3> QED
      BY <3>1
  <2>2. d * (m + 1) = d * (q + 1) + d * e /\ d * e >= 0
    BY <1>1, <1>4, <2>1
  <2> QED
    BY <1>1, <1>2, <1>3, <1>4, <1>5, <2>2
<1>6. CASE ~ (q <= m)
  <2>1. PICK e \in Nat : q = (m + 1) + e
    <3>1. q - (m + 1) \in Nat /\ q = (m + 1) + (q - (m + 1))
      BY <1>4, <1>6
    <3> QED
      BY <3>1
  <2>2. d * q = d * (m + 1) + d * e /\ d * e >= 0
    BY <1>1, <2>1
  <2> QED
    BY <1>1, <1>2, <1>3, <1>4, <1>6, <2>2
<1> QED
  BY <1>5, <1>6

\* What is below a rate is below a higher one.
LEMMA BelowMore ==
  ASSUME NEW x \in Nat, NEW y \in Nat, NEW m \in Nat, NEW n \in Nat, m <= n, Below(x, y, m)
  PROVE  Below(x, y, n)
<1>1. PICK e \in Nat : n = m + e
  <2>1. n - m \in Nat /\ n = m + (n - m)
    OBVIOUS
  <2> QED
    BY <2>1
<1>2. 2 * y * (n + 1) = 2 * y * (m + 1) + 2 * (y * e) /\ y * e >= 0
  BY <1>1
<1> DEFINE z == 16 * x * Timescale
<1>3. z \in Nat
  BY DurationAssumption
<1>4. z + y < 2 * y * (m + 1)
  BY DEF Below
<1> HIDE DEF z
<1>5. 2 * y * (m + 1) \in Nat /\ y * e \in Nat
  BY <1>1
<1>6. z + y < 2 * y * (n + 1)
  BY <1>2, <1>3, <1>4, <1>5
<1> QED
  BY <1>6 DEF Below, z

\* Two stretches that are below a rate are so together.
LEMMA BelowJoined ==
  ASSUME NEW x1 \in Nat, NEW y1 \in Nat, NEW x2 \in Nat, NEW y2 \in Nat, NEW m \in Nat,
         Below(x1, y1, m), Below(x2, y2, m)
  PROVE  Below(x1 + x2, y1 + y2, m)
<1>1. Timescale \in Nat
  BY DurationAssumption
<1>2. 16 * (x1 + x2) * Timescale = 16 * x1 * Timescale + 16 * x2 * Timescale
  BY <1>1
<1>3. 2 * (y1 + y2) * (m + 1) = 2 * y1 * (m + 1) + 2 * y2 * (m + 1)
  OBVIOUS
<1> DEFINE a1 == 16 * x1 * Timescale
           a2 == 16 * x2 * Timescale
           b1 == 2 * y1 * (m + 1)
           b2 == 2 * y2 * (m + 1)
<1>4. a1 \in Int /\ a2 \in Int /\ b1 \in Int /\ b2 \in Int
  BY <1>1
<1>5. a1 + y1 < b1 /\ a2 + y2 < b2
  BY DEF Below
<1>6. Below(x1 + x2, y1 + y2, m) <=> (a1 + a2) + (y1 + y2) < b1 + b2
  BY <1>2, <1>3 DEF Below
<1> HIDE DEF a1, a2, b1, b2
<1> QED
  BY <1>4, <1>5, <1>6

\* The sum of the last elements.
LEMMA SumOfRest ==
  ASSUME NEW s \in Seq(Nat), NEW a \in 0 .. (Len(s) - 1)
  PROVE  /\ Len(SubSeq(s, a + 1, Len(s))) = Len(s) - a
         /\ Sum(SubSeq(s, a + 1, Len(s))) = Sums(s)[Len(s)] - Sums(s)[a]
<1> DEFINE rest == SubSeq(s, a + 1, Len(s))
<1>1. PICK n \in Nat : n = Len(s)
  BY LenProperties
<1>2. /\ rest \in Seq(Nat) /\ Len(rest) = n - a
      /\ \A i \in 1 .. (n - a) : rest[i] = s[a + i]
  <2>1. a + 1 \in 1 .. (Len(s) + 1) /\ Len(s) \in (a + 1) - 1 .. Len(s)
    BY <1>1
  <2>2. /\ rest \in Seq(Nat)
        /\ Len(rest) = IF a + 1 <= Len(s) THEN Len(s) - (a + 1) + 1 ELSE 0
        /\ \A i \in 1 .. (Len(s) - (a + 1) + 1) : rest[i] = s[(a + 1) + i - 1]
    BY <1>1, SubSeqProperties
  <2>3. a \in Nat /\ a < n
    BY <1>1
  <2> HIDE DEF rest
  <2>4. Len(rest) = n - a
    BY <1>1, <2>2, <2>3
  <2>5. ASSUME NEW i \in 1 .. (n - a) PROVE rest[i] = s[a + i]
    <3>1. i \in 1 .. (Len(s) - (a + 1) + 1) /\ (a + 1) + i - 1 = a + i
      BY <1>1, <2>3
    <3> QED
      BY <2>2, <3>1
  <2> QED
    BY <2>2, <2>4, <2>5
<1>3. a \in Nat /\ a < n
  BY <1>1
<1> HIDE DEF rest
<1> DEFINE sums == Sums(s)
           part == Sums(rest)
           T == {d \in Nat : part[d] = sums[a + d] - sums[a]}
<1>4. /\ sums \in [0 .. n -> Nat] /\ \A i \in 1 .. n : sums[i] = sums[i - 1] + s[i]
      /\ part \in [0 .. (n - a) -> Nat] /\ part[0] = 0
      /\ \A i \in 1 .. (n - a) : part[i] = part[i - 1] + rest[i]
  BY <1>1, <1>2, SumsDef
<1> HIDE DEF sums, part
<1>5. 0 \in T
  BY <1>3, <1>4
<1>6. ASSUME NEW d \in 0 .. (n - a - 1), d \in T PROVE d + 1 \in T
  <2>1. /\ d + 1 \in 1 .. (n - a) /\ (d + 1) - 1 = d /\ d \in 0 .. (n - a) /\ d + 1 \in Nat
        /\ a + (d + 1) \in 1 .. n /\ (a + (d + 1)) - 1 = a + d /\ a + d \in 0 .. n /\ a \in 0 .. n
    BY <1>3
  <2>2. part[d + 1] = part[d] + s[a + (d + 1)]
    BY <1>2, <1>4, <2>1
  <2>3. sums[a + (d + 1)] = sums[a + d] + s[a + (d + 1)]
    BY <1>4, <2>1
  <2>4. s[a + (d + 1)] \in Nat
    BY <1>1, <2>1, ElementOfSeq
  <2>5. sums[a] \in Nat /\ sums[a + d] \in Nat
    BY <1>4, <2>1
  <2> QED
    BY <1>6, <2>1, <2>2, <2>3, <2>4, <2>5
<1>7. n - a \in T
  <2> HIDE DEF T
  <2>1. n - a \in Nat /\ n - a \in 0 .. (n - a)
    BY <1>3
  <2>2. \A i \in 0 .. (n - a) : i \in T
    BY <1>5, <1>6, <2>1, UpTo
  <2> QED
    BY <2>1, <2>2
<1>8. part[n - a] = sums[n] - sums[a]
  <2>1. a + (n - a) = n
    BY <1>3
  <2> QED
    BY <1>7, <2>1
<1>9. Sum(rest) = part[n - a]
  BY <1>2 DEF Sum, Sums, part
<1> QED
  BY <1>1, <1>2, <1>8, <1>9 DEF rest, sums, part

\* The samples of the latest second are those behind some a of them.
LEMMA LatestWindow ==
  ASSUME NEW sizes \in Seq(Nat), sizes # <<>>
  PROVE  \E a \in 0 .. (Len(sizes) - 1) :
           LET size == Sums(sizes)[Len(sizes)] - Sums(sizes)[a]
               length == FrameDuration * (Len(sizes) - a)
           IN  /\ size \in Nat /\ length \in Nat \ {0}
               /\ LatestRate(sizes) = Rate(size, length)
<1> DEFINE needed == (Timescale + FrameDuration - 1) \div FrameDuration
           sums == Sums(sizes)
           z == Timescale + FrameDuration - 1
<1>1. PICK n \in Nat \ {0} : n = Len(sizes)
  BY LenProperties, EmptySeq
<1>2. FrameDuration \in Nat \ {0} /\ Timescale \in Nat \ {0}
  BY DurationAssumption
<1>3. z \in Nat /\ z >= FrameDuration /\ needed = z \div FrameDuration
  BY <1>2
<1>4. sums \in [0 .. n -> Nat] /\ sums[0] = 0
  BY <1>1, SumsDef
<1> HIDE DEF needed, z
<1>5. needed \in Nat \ {0}
  <2>1. needed \in Nat /\ z < FrameDuration * (needed + 1)
    BY <1>2, <1>3
  <2>2. FrameDuration * (0 + 1) = FrameDuration
    BY <1>2
  <2> QED
    BY <1>2, <1>3, <2>1, <2>2
<1>6. CASE n <= needed
  <2>1. LatestSecond(sizes) = sizes
    BY <1>1, <1>6 DEF LatestSecond, needed
  <2>2. Sum(sizes) = sums[n]
    BY <1>1 DEF Sum, Sums
  <2>3. LatestRate(sizes) = Rate(sums[n], FrameDuration * n)
    BY <1>1, <2>1, <2>2 DEF LatestRate
  <2> HIDE DEF sums
  <2>4. sums[n] - sums[0] = sums[n] /\ sums[n] \in Nat /\ FrameDuration * n \in Nat \ {0} /\ n - 0 = n
    BY <1>2, <1>4
  <2>5. 0 \in 0 .. (n - 1)
    OBVIOUS
  <2> QED
    BY <1>1, <2>3, <2>4, <2>5 DEF sums
<1>7. CASE ~ (n <= needed)
  <2> DEFINE a == n - needed
  <2>1. a \in 0 .. (n - 1) /\ n - a = needed /\ a \in 0 .. n
    BY <1>5, <1>7
  <2>2. LatestSecond(sizes) = SubSeq(sizes, a + 1, n)
    BY <1>1, <1>7 DEF LatestSecond, needed
  <2> HIDE DEF a
  <2>3. /\ Len(SubSeq(sizes, a + 1, n)) = n - a
        /\ Sum(SubSeq(sizes, a + 1, n)) = sums[n] - sums[a]
    BY <1>1, <2>1, SumOfRest
  <2>4. LatestRate(sizes) = Rate(sums[n] - sums[a], FrameDuration * (n - a))
    BY <2>2, <2>3 DEF LatestRate
  <2>5. sums[a] <= sums[n]
    <3>1. a \in 0 .. Len(sizes) /\ n \in a .. Len(sizes)
      BY <1>1, <2>1
    <3> QED
      BY <3>1, SumsGrow
  <2> HIDE DEF sums
  <2>6. sums[n] - sums[a] \in Nat /\ FrameDuration * (n - a) \in Nat \ {0}
    BY <1>2, <1>4, <1>5, <2>1, <2>5
  <2> QED
    BY <1>1, <2>1, <2>4, <2>6 DEF sums
<1> QED
  BY <1>6, <1>7

\* The rate of the latest second bounds that of all samples, if it did so for
\* all numbers of samples before: what came before that second is such a
\* number of samples.
LEMMA WindowsJoin ==
  ASSUME NEW sizes \in Seq(Nat), sizes # <<>>, NEW m \in Nat, LatestRate(sizes) <= m,
         \A k \in 1 .. (Len(sizes) - 1) : FirstBelow(sizes, k, m)
  PROVE  FirstBelow(sizes, Len(sizes), m)
<1> DEFINE sums == Sums(sizes)
<1>1. PICK n \in Nat \ {0} : n = Len(sizes)
  BY LenProperties, EmptySeq
<1>2. FrameDuration \in Nat \ {0}
  BY DurationAssumption
<1>3. PICK a \in 0 .. (n - 1) :
        /\ sums[n] - sums[a] \in Nat /\ FrameDuration * (n - a) \in Nat \ {0}
        /\ LatestRate(sizes) = Rate(sums[n] - sums[a], FrameDuration * (n - a))
  BY <1>1, LatestWindow
<1>4. Below(sums[n] - sums[a], FrameDuration * (n - a), m)
  <2> DEFINE size == sums[n] - sums[a]
             length == FrameDuration * (n - a)
  <2>1. size \in Nat /\ length \in Nat \ {0} /\ Rate(size, length) <= m
    BY <1>3
  <2> HIDE DEF size, length
  <2>2. Below(size, length, m)
    BY <2>1, RateBelow
  <2> QED
    BY <2>2 DEF size, length
<1>5. sums \in [0 .. n -> Nat] /\ sums[0] = 0
  BY <1>1, SumsDef
<1>6. a = 0 \/ (a \in 1 .. (n - 1) /\ FirstBelow(sizes, a, m))
  BY <1>1
<1>7. a = 0 \/ Below(sums[a], FrameDuration * a, m)
  BY <1>6 DEF FirstBelow
<1> HIDE DEF sums
<1>8. CASE a = 0
  <2>1. sums[n] - sums[0] = sums[n] /\ n - 0 = n
    BY <1>5
  <2> QED
    BY <1>1, <1>4, <1>8, <2>1 DEF FirstBelow, sums
<1>9. CASE a # 0
  <2>1. sums[n] \in Nat /\ sums[a] \in Nat /\ FrameDuration * a \in Nat
    BY <1>2, <1>5
  <2>2. Below(sums[a] + (sums[n] - sums[a]), FrameDuration * a + FrameDuration * (n - a), m)
    <3> DEFINE x == sums[n] - sums[a]
               y == FrameDuration * (n - a)
    <3>1. x \in Nat /\ y \in Nat /\ Below(x, y, m) /\ Below(sums[a], FrameDuration * a, m)
      BY <1>3, <1>4, <1>7, <1>9
    <3> HIDE DEF x, y
    <3>2. Below(sums[a] + x, FrameDuration * a + y, m)
      BY <2>1, <3>1, BelowJoined
    <3> QED
      BY <3>2 DEF x, y
  <2>3. sums[a] + (sums[n] - sums[a]) = sums[n]
    BY <2>1
  <2>4. FrameDuration * a + FrameDuration * (n - a) = FrameDuration * n
    BY <1>2
  <2> QED
    BY <1>1, <2>2, <2>3, <2>4 DEF FirstBelow, sums
<1> QED
  BY <1>8, <1>9

\* The invariant: however many of the samples one takes, from the first on,
\* their rate is no more than the maximum.
BitrateInv ==
  /\ samples \in Seq(Nat)
  /\ maxBitrate \in Nat
  /\ duration = FrameDuration * Len(samples)
  /\ stage = "samples" => avgBitrate = 0
  /\ stage # "samples" => samples # <<>>
  /\ \A k \in 1 .. Len(samples) : FirstBelow(samples, k, maxBitrate)
  /\ avgBitrate <= maxBitrate

LEMMA BitrateInit == MoovInit => BitrateInv
<1> SUFFICES ASSUME MoovInit PROVE BitrateInv
  OBVIOUS
<1>1. samples = <<>> /\ duration = 0 /\ stage = "samples" /\ avgBitrate = 0 /\ maxBitrate = 0
  BY DEF MoovInit
<1>2. <<>> \in Seq(Nat) /\ Len(<<>>) = 0 /\ FrameDuration * 0 = 0 /\ 1 .. 0 = {}
  BY DurationAssumption
<1> QED
  BY <1>1, <1>2 DEF BitrateInv

\* A sample more.
LEMMA BitrateSample ==
  ASSUME BitrateInv, NoteSample
  PROVE  BitrateInv'
<1>1. PICK size \in SampleSizes :
        /\ samples' = Append(samples, size)
        /\ maxBitrate' = IF LatestRate(samples') > maxBitrate
                           THEN LatestRate(samples') ELSE maxBitrate
  BY DEF NoteSample
<1>2. /\ samples \in Seq(Nat) /\ maxBitrate \in Nat /\ duration = FrameDuration * Len(samples)
      /\ avgBitrate = 0
      /\ \A k \in 1 .. Len(samples) : FirstBelow(samples, k, maxBitrate)
  BY DEF BitrateInv, NoteSample
<1>3. PICK n \in Nat : n = Len(samples)
  BY <1>2, LenProperties
<1>4. size \in Nat
  BY SampleSizesAssumption
<1>5. PICK more : more = samples'
  OBVIOUS
<1>6. /\ more \in Seq(Nat) /\ Len(more) = n + 1 /\ \A i \in 1 .. n : more[i] = samples[i]
  <2>1. /\ Append(samples, size) \in Seq(Nat) /\ Len(Append(samples, size)) = Len(samples) + 1
        /\ \A i \in 1 .. Len(samples) : Append(samples, size)[i] = samples[i]
    BY <1>2, <1>4, AppendProperties
  <2> QED
    BY <1>1, <1>3, <1>5, <2>1
<1>7. more # <<>>
  BY <1>6
<1> DEFINE rate == LatestRate(more)
           most == IF rate > maxBitrate THEN rate ELSE maxBitrate
<1>8. rate \in Nat
  <2>1. PICK a \in 0 .. (Len(more) - 1) :
          LET taken == Sums(more)[Len(more)] - Sums(more)[a]
              lasts == FrameDuration * (Len(more) - a)
          IN  /\ taken \in Nat /\ lasts \in Nat \ {0}
              /\ LatestRate(more) = Rate(taken, lasts)
    BY <1>6, <1>7, LatestWindow
  <2>2. \A x \in Nat, y \in Nat \ {0}, m \in {0} : Rate(x, y) \in Nat
    BY RateBelow
  <2> QED
    BY <2>1, <2>2
<1>9. most \in Nat /\ maxBitrate <= most /\ rate <= most
  <2> HIDE DEF rate
  <2> QED
    BY <1>2, <1>8
<1>10. maxBitrate' = most
  BY <1>1, <1>5
<1> HIDE DEF most, rate
<1>11. ASSUME NEW k \in 1 .. n PROVE FirstBelow(more, k, most)
  <2>1. Sums(more)[k] = Sums(samples)[k]
    <3>1. \A i \in 0 .. n : Sums(samples)[i] = Sums(more)[i]
      <4>1. n <= Len(samples) /\ n <= Len(more)
        BY <1>3, <1>6
      <4>2. \A i \in 1 .. n : samples[i] = more[i]
        BY <1>6, Zenon
      <4> QED
        BY <1>2, <1>6, <4>1, <4>2, SumsAgree
    <3>2. k \in 0 .. n
      OBVIOUS
    <3> QED
      BY <3>1, <3>2
  <2>2. Below(Sums(samples)[k], FrameDuration * k, maxBitrate)
    BY <1>2, <1>3 DEF FirstBelow
  <2>3. Sums(samples)[k] \in Nat /\ FrameDuration * k \in Nat
    BY <1>2, <1>3, SumsDef, DurationAssumption
  <2>4. Below(Sums(samples)[k], FrameDuration * k, most)
    BY <1>2, <1>9, <2>2, <2>3, BelowMore
  <2> QED
    BY <2>1, <2>4 DEF FirstBelow
<1>12. FirstBelow(more, n + 1, most)
  <2>1. LatestRate(more) <= most
    BY <1>9 DEF rate
  <2>2. \A k \in 1 .. (Len(more) - 1) : FirstBelow(more, k, most)
    BY <1>6, <1>11
  <2>3. FirstBelow(more, Len(more), most)
    BY <1>6, <1>7, <1>9, <2>1, <2>2, WindowsJoin
  <2> QED
    BY <1>6, <2>3
<1>13. \A k \in 1 .. (n + 1) : FirstBelow(more, k, most)
  <2> SUFFICES ASSUME NEW k \in 1 .. (n + 1) PROVE FirstBelow(more, k, most)
    OBVIOUS
  <2>1. k = n + 1 \/ k \in 1 .. n
    OBVIOUS
  <2> QED
    BY <1>11, <1>12, <2>1
<1>14. /\ duration' = FrameDuration * (n + 1)
       /\ avgBitrate' = 0 /\ stage' = "samples"
  <2>1. FrameDuration * (n + 1) = FrameDuration * n + FrameDuration
    BY DurationAssumption
  <2> QED
    BY <1>2, <1>3, <2>1 DEF NoteSample
<1> QED
  BY <1>5, <1>6, <1>9, <1>10, <1>13, <1>14 DEF BitrateInv

\* The average is the rate of all samples.
LEMMA BitrateFinalize ==
  ASSUME BitrateInv, Finalize
  PROVE  BitrateInv'
<1>1. /\ samples \in Seq(Nat) /\ maxBitrate \in Nat /\ duration = FrameDuration * Len(samples)
      /\ samples # <<>>
      /\ \A k \in 1 .. Len(samples) : FirstBelow(samples, k, maxBitrate)
  BY DEF BitrateInv, Finalize
<1>2. PICK n \in Nat \ {0} : n = Len(samples)
  BY <1>1, LenProperties, EmptySeq
<1>3. Below(Sums(samples)[n], FrameDuration * n, maxBitrate)
  <2>1. n \in 1 .. Len(samples)
    BY <1>2
  <2> QED
    BY <1>1, <2>1 DEF FirstBelow
<1>4. Sums(samples)[n] \in Nat /\ FrameDuration * n \in Nat \ {0}
  <2>1. Sums(samples) \in [0 .. n -> Nat]
    BY <1>1, <1>2, SumsDef
  <2>2. Sums(samples)[n] \in Nat
    BY <2>1
  <2> QED
    BY <2>2, DurationAssumption
<1>5. Rate(Sums(samples)[n], FrameDuration * n) <= maxBitrate
  BY <1>1, <1>3, <1>4, RateBelow
<1>6. Sum(samples) = Sums(samples)[n]
  BY <1>2 DEF Sum, Sums
<1>7. avgBitrate' <= maxBitrate
  BY <1>1, <1>2, <1>5, <1>6 DEF Finalize
<1>8. stage' # "samples" /\ UNCHANGED <<samples, maxBitrate, duration>>
  BY DEF Finalize
<1> QED
  BY <1>1, <1>7, <1>8 DEF BitrateInv

LEMMA BitrateNext ==
  ASSUME BitrateInv, [MoovNext]_moovVars
  PROVE  BitrateInv'
<1>1. CASE NoteSample
  BY <1>1, BitrateSample
<1>2. CASE Finalize
  BY <1>2, BitrateFinalize
<1>3. CASE SetPriming
  <2>1. /\ samples # <<>> /\ stage' # "samples"
        /\ UNCHANGED <<samples, duration, maxBitrate, avgBitrate>>
    BY <1>3 DEF SetPriming
  <2> QED
    BY <2>1 DEF BitrateInv
<1>4. CASE AddTags
  <2>1. /\ stage # "samples" /\ stage' # "samples"
        /\ UNCHANGED <<samples, duration, maxBitrate, avgBitrate>>
    BY <1>4 DEF AddTags
  <2> QED
    BY <2>1 DEF BitrateInv
<1>5. CASE Finished \/ UNCHANGED moovVars
  <2>1. UNCHANGED <<stage, samples, duration, maxBitrate, avgBitrate>>
    BY <1>5 DEF Finished, moovVars
  <2> QED
    BY <2>1 DEF BitrateInv
<1> QED
  BY <1>1, <1>2, <1>3, <1>4, <1>5 DEF MoovNext

\* The average rate that esds declares is no more than the maximum
\* (AverageBelowMax of BoxWriters), for all sizes and numbers of samples,
\* durations and time scales (m4af_update_max_bitrate, m4af_finalize).
THEOREM AverageAlwaysBelowMax == MoovSpec => []AverageBelowMax
<1>1. BitrateInv => AverageBelowMax
  BY DEF BitrateInv, AverageBelowMax
<1>2. BitrateInv /\ [MoovNext]_moovVars => BitrateInv'
  BY BitrateNext
<1> QED
  BY <1>1, <1>2, BitrateInit, PTL DEF MoovSpec
=============================================================================
