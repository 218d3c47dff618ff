--------------------------- MODULE LimiterProofs ---------------------------
(***************************************************************************)
(* Proofs about the limiter: its safety properties hold for every set of   *)
(* channels, every source and every block size, and it keeps the contract  *)
(* of the reader chain.                                                    *)
(*                                                                         *)
(* The samples of a channel are looked at as one sequence, what was handed *)
(* out followed by what is held; the first `passed' of them have been bent *)
(* or found to need no bending.                                            *)
(***************************************************************************)
EXTENDS Limiter, Induction

Samples == [v : Int, bent : Nat]

\* A half-wave begins at the i-th of the values g.
Starts(g, i) == i = 1 \/ ~SameSide(g[i - 1], g[i])

\* The p samples passed of g end where the last run of one sign begins, unless
\* all the n samples of the source are there: then nothing is held back.
Boundary(g, p, n) ==
  \/ Len(g) = n /\ p = n
  \/ /\ p = 0 \/ ~SameSide(g[p], g[Len(g)])
     /\ \A j \in (p + 1) .. Len(g) : SameSide(g[j], g[Len(g)])

\* The samples a of a channel are the values g, none of them beyond 3.
Tracks(a, g) ==
  /\ a \in Seq(Samples) /\ g \in Seq(Int)
  /\ Len(a) = Len(g)
  /\ \A k \in 1 .. Len(g) : a[k].v = g[k] /\ Magnitude(g[k]) <= 3 * One

\* What has been done to the p samples passed, and to no other.
Curved(a, g, p) ==
  /\ \A k \in (p + 1) .. Len(a) : a[k].bent = 0
  /\ \A i \in 1 .. p : ~Starts(g, i) => Bounded(a[i])
  /\ \A i \in 2 .. (p - 1) :
       ~Starts(g, i) /\ ~Starts(g, i + 1) => a[i].bent = a[i + 1].bent

All(c) == released[c] \o buffer[c]

Passed(c) == position + head[c]

(***************************************************************************)
(* The inductive invariant.                                                *)
(***************************************************************************)
TypeInv ==
  /\ total \in 0 .. MaxFrames
  /\ given \in [Channels -> Seq(Int)]
  /\ buffer \in [Channels -> Seq(Samples)]
  /\ head \in [Channels -> Nat]
  /\ released \in [Channels -> Seq(Samples)]
  /\ position \in Nat
  /\ count \in 0 .. (Block - 1)
  /\ nread \in 0 .. Block

\* The channels are in step with each other and with the caller.
StepInv ==
  /\ count <= position
  /\ \A c \in Channels :
       /\ Len(given[c]) = Len(given[First])
       /\ Len(given[c]) <= total
       /\ Len(released[c]) = position
       /\ head[c] <= Len(buffer[c])
       /\ Len(given[c]) = position + Len(buffer[c])

WaveInv ==
  \A c \in Channels :
    /\ Tracks(All(c), given[c])
    /\ Boundary(given[c], Passed(c), total)
    /\ Curved(All(c), given[c], Passed(c))

IInv == TypeInv /\ StepInv /\ WaveInv

-----------------------------------------------------------------------------
(***************************************************************************)
(* The operators of a pass.                                                *)
(***************************************************************************)

\* A magnitude is a natural number.
LEMMA MagnitudeType ==
  ASSUME NEW v \in Int
  PROVE  Magnitude(v) \in Nat
BY DEF Magnitude

\* Clipping leaves an integer of at most 3.
LEMMA ClipType ==
  ASSUME NEW v \in Int
  PROVE  Clip(v) \in Int /\ Magnitude(Clip(v)) <= 3 * One
BY NumbersAssumption DEF Clip, Magnitude

\* The values of a channel are integers.
LEMMA ValueType ==
  ASSUME NEW x \in Seq(Samples), NEW k \in 1 .. Len(x)
  PROVE  x[k].v \in Int /\ x[k].bent \in Nat
<1>1. x[k] \in Samples
  OBVIOUS
<1> QED
  BY <1>1 DEF Samples

\* Being of one sign is an equivalence on what is not zero.
LEMMA SidesMatch ==
  ASSUME NEW a \in Int, NEW b \in Int, NEW d \in Int, SameSide(a, b)
  PROVE  /\ SameSide(b, a) /\ SameSide(a, a) /\ SameSide(b, b)
         /\ SameSide(b, d) <=> SameSide(a, d)
         /\ SameSide(d, b) <=> SameSide(d, a)
         /\ Opposite(d, b) <=> Opposite(d, a)
         /\ ~ Opposite(b, a)
BY DEF SameSide, Opposite

\* What has a side is not zero.
LEMMA SidesNotZero ==
  ASSUME NEW a \in Int, NEW b \in Int, SameSide(a, b)
  PROVE  a # 0 /\ b # 0
BY DEF SameSide

\* What is held back of x is a run of one sign at its end, all of it; nothing
\* is when the source has ended.
LEMMA HeldFromIsBoundary ==
  ASSUME NEW x \in Seq(Samples), NEW n \in Nat
  PROVE  /\ HeldFrom(x, n) \in 0 .. Len(x)
         /\ n = 0 => HeldFrom(x, n) = Len(x)
         /\ x # <<>> /\ n # 0 =>
              /\ HeldFrom(x, n) = 0
                   \/ ~SameSide(x[HeldFrom(x, n)].v, x[Len(x)].v)
              /\ \A k \in (HeldFrom(x, n) + 1) .. Len(x) :
                   SameSide(x[k].v, x[Len(x)].v)
<1>1. CASE x = <<>> \/ n = 0
  BY <1>1 DEF HeldFrom
<1>2. CASE x # <<>> /\ n # 0
  <2> DEFINE T == {k \in 0 .. Len(x) :
              IF k = 0 THEN TRUE ELSE ~SameSide(x[k].v, x[Len(x)].v)}
  <2>1. HeldFrom(x, n) = Max(T)
    BY <1>2 DEF HeldFrom
  <2>2. /\ T \in SUBSET Int /\ 0 \in T /\ \A k \in T : k <= Len(x)
        /\ T # {} /\ Len(x) \in Int
    OBVIOUS
  <2>3. Max(T) \in T /\ \A k \in T : k <= Max(T)
    <3> HIDE DEF T
    <3> QED
      BY <2>2, MaxOf
  <2>4. ASSUME NEW k \in (Max(T) + 1) .. Len(x)
        PROVE  SameSide(x[k].v, x[Len(x)].v)
    <3>1. k \in 0 .. Len(x) /\ k # 0 /\ ~ (k <= Max(T))
      BY <2>3
    <3> QED
      BY <2>3, <3>1
  <2> QED
    BY <1>2, <2>1, <2>3, <2>4
<1> QED
  BY <1>1, <1>2

\* The frames let go are those of the channel that lets go the fewest.
LEMMA LetGoIsLeast ==
  ASSUME NEW h \in [Channels -> Nat]
  PROVE  /\ LetGo(h) \in Nat
         /\ \A c \in Channels : LetGo(h) <= h[c]
         /\ \E c \in Channels : LetGo(h) = h[c]
<1> DEFINE T == {h[c] : c \in Channels}
<1>1. T \in SUBSET Nat /\ T # {}
  BY ChannelsAssumption
<1>2. Min(T) \in T /\ \A y \in T : Min(T) <= y
  <2> HIDE DEF T
  <2> QED
    BY <1>1, MinOf
<1> QED
  BY <1>1, <1>2 DEF LetGo

\* The peak of a half-wave: the largest magnitude in it.
Peak(x, h, limit, i) == Max({Magnitude(x[j].v) : j \in Wave(x, h, limit, i)})

\* A sample of a pass is in its own half-wave, whose peak is not below it and
\* is at most 3 when all the samples are.
LEMMA PeakBounds ==
  ASSUME NEW x \in Seq(Samples), NEW h \in Nat, NEW limit \in 0 .. Len(x),
         NEW i \in (h + 1) .. limit,
         \A k \in 1 .. Len(x) : Magnitude(x[k].v) <= 3 * One
  PROVE  /\ Peak(x, h, limit, i) \in Nat
         /\ Magnitude(x[i].v) <= Peak(x, h, limit, i)
         /\ Peak(x, h, limit, i) <= 3 * One
<1> DEFINE T == {Magnitude(x[j].v) : j \in Wave(x, h, limit, i)}
<1>1. i \in 1 .. Len(x) /\ x[i].v \in Int
  <2>1. i \in 1 .. Len(x)
    OBVIOUS
  <2>2. x[i] \in Samples
    BY <2>1
  <2> QED
    BY <2>1, <2>2 DEF Samples
<1>2. i \in Wave(x, h, limit, i)
  BY <1>1 DEF Wave, Lesser, Opposite
<1>3. ASSUME NEW j \in Wave(x, h, limit, i)
      PROVE  Magnitude(x[j].v) \in Nat /\ Magnitude(x[j].v) <= 3 * One
  <2>1. j \in 1 .. Len(x)
    BY DEF Wave
  <2>2. x[j] \in Samples
    BY <2>1
  <2>3. x[j].v \in Int
    BY <2>2 DEF Samples
  <2> QED
    BY <2>1, <2>3, MagnitudeType
<1>4. /\ T \in SUBSET Int /\ T # {} /\ \A m \in T : m \in Nat /\ m <= 3 * One
      /\ 3 * One \in Int
  BY <1>2, <1>3, NumbersAssumption
<1>5. Max(T) \in T /\ \A m \in T : m <= Max(T)
  <2> HIDE DEF T
  <2> QED
    BY <1>4, MaxOf, NumbersAssumption
<1> QED
  BY <1>2, <1>4, <1>5 DEF Peak

\* The quadratic curve of a peak p from 1 to 2 takes a magnitude m of at most p
\* to at most 1.
LEMMA QuadraticBounded ==
  ASSUME NEW m \in Nat, NEW p \in Nat, m <= p, p > One, p < 2 * One
  PROVE  m * p * p - (p - One) * m * m <= One * p * p
<1> DEFINE d == p - m
           e == One * (p + m) - m * p
<1>1. One \in Nat /\ One > 0
  BY NumbersAssumption
<1>2. e >= 0
  <2> DEFINE u == p - One
             w == One - (m - One)
  <2>1. u \in Nat /\ w \in Nat
    BY <1>1
  <2>2. e = One * (One - u) + u * w
    BY <1>1
  <2>3. One - u \in Nat
    BY <1>1
  <2>4. One * (One - u) >= 0 /\ u * w >= 0
    BY <1>1, <2>1, <2>3
  <2> QED
    BY <1>1, <2>1, <2>2, <2>3, <2>4
<1>3. d \in Nat /\ e \in Int
  BY <1>1
<1>4. d * e >= 0
  BY <1>2, <1>3
<1>5. One * p * p - (m * p * p - (p - One) * m * m) = d * e
  BY <1>1
<1>6. m * p * p - (p - One) * m * m \in Int /\ One * p * p \in Int
  BY <1>1
<1> QED
  BY <1>4, <1>5, <1>6

\* So does the cubic curve of a peak from 2 to 3.
LEMMA CubicBounded ==
  ASSUME NEW m \in Nat, NEW p \in Nat, m <= p, p >= 2 * One, p <= 3 * One
  PROVE  m * p * p * p + (3 * One - 2 * p) * m * m * p
           + (p - 2 * One) * m * m * m <= One * p * p * p
<1> DEFINE d == p - m
           e == One * p - (p - 2 * One) * m
<1>1. One \in Nat /\ One > 0
  BY NumbersAssumption
<1>2. e >= 0
  <2> DEFINE u == p - 2 * One
             w == 3 * One - p
  <2>1. u \in Nat /\ w \in Nat /\ d \in Nat
    BY <1>1
  <2>2. e = u * d + w * p
    BY <1>1
  <2>3. u * d >= 0 /\ w * p >= 0
    BY <1>1, <2>1
  <2> QED
    BY <1>1, <2>1, <2>2, <2>3
<1>3. d \in Nat /\ e \in Int
  BY <1>1
<1>4. d * d * e >= 0
  <2>1. d * d \in Nat
    BY <1>3
  <2> HIDE DEF d, e
  <2> QED
    BY <1>2, <1>3, <2>1
<1>5. One * p * p * p
        - (m * p * p * p + (3 * One - 2 * p) * m * m * p
           + (p - 2 * One) * m * m * m) = d * d * e
  BY <1>1
<1>6. /\ m * p * p * p + (3 * One - 2 * p) * m * m * p
           + (p - 2 * One) * m * m * m \in Int
      /\ One * p * p * p \in Int
  BY <1>1
<1> QED
  BY <1>4, <1>5, <1>6

\* A sample bent by the peak of its half-wave is at most 1.
LEMMA BentIsBounded ==
  ASSUME NEW s \in Samples,
         IF s.bent = 0 THEN Magnitude(s.v) <= One
         ELSE s.bent > One /\ s.bent <= 3 * One /\ Magnitude(s.v) <= s.bent
  PROVE  Bounded(s)
<1>1. Magnitude(s.v) \in Nat /\ s.bent \in Nat
  BY MagnitudeType DEF Samples
<1>2. CASE s.bent = 0
  BY <1>2 DEF Bounded
<1>3. CASE s.bent # 0 /\ s.bent < 2 * One
  BY <1>1, <1>3, QuadraticBounded DEF Bounded
<1>4. CASE s.bent # 0 /\ ~ (s.bent < 2 * One)
  <2>1. s.bent >= 2 * One
    BY <1>1, <1>4, NumbersAssumption
  <2> QED
    BY <1>1, <1>4, <2>1, CubicBounded DEF Bounded
<1> QED
  BY <1>2, <1>3, <1>4

\* A pass changes no value, and no sample outside its range.
LEMMA LimitedKeeps ==
  ASSUME NEW x \in Seq(Samples), NEW h \in Nat, NEW limit \in 0 .. Len(x),
         \A k \in 1 .. Len(x) : Magnitude(x[k].v) <= 3 * One
  PROVE  /\ Limited(x, h, limit) \in Seq(Samples)
         /\ Len(Limited(x, h, limit)) = Len(x)
         /\ \A k \in 1 .. Len(x) :
              /\ Limited(x, h, limit)[k].v = x[k].v
              /\ k \notin (h + 1) .. limit => Limited(x, h, limit)[k] = x[k]
<1> DEFINE y == Limited(x, h, limit)
<1>1. ASSUME NEW i \in 1 .. Len(x)
      PROVE  /\ y[i] \in Samples /\ y[i].v = x[i].v
             /\ i \notin (h + 1) .. limit => y[i] = x[i]
  <2>1. x[i] \in Samples
    OBVIOUS
  <2>2. CASE i \in (h + 1) .. limit
    <3>1. Peak(x, h, limit, i) \in Nat
      BY <2>2, PeakBounds
    <3>2. y[i] = x[i] \/ y[i] = [x[i] EXCEPT !.bent = Peak(x, h, limit, i)]
      BY DEF Limited, Peak
    <3>3. CASE y[i] = x[i]
      BY <2>1, <2>2, <3>3
    <3>4. CASE y[i] = [x[i] EXCEPT !.bent = Peak(x, h, limit, i)]
      BY <2>1, <2>2, <3>1, <3>4 DEF Samples
    <3> QED
      BY <3>2, <3>3, <3>4
  <2>3. CASE i \notin (h + 1) .. limit
    <3>1. y[i] = x[i]
      BY <2>3 DEF Limited
    <3> QED
      BY <2>1, <2>3, <3>1
  <2> QED
    BY <2>2, <2>3
<1>2. y = [i \in 1 .. Len(x) |-> y[i]]
  BY DEF Limited
<1>3. y \in Seq(Samples) /\ Len(y) = Len(x)
  <2>1. Len(x) \in Nat
    OBVIOUS
  <2> HIDE DEF y
  <2>2. y \in [1 .. Len(x) -> Samples]
    BY <1>1, <1>2
  <2> QED
    BY <2>1, <2>2
<1> QED
  BY <1>1, <1>3

\* What a pass does to a sample that it does not leave out: the sample is bent
\* by the peak of its half-wave if that is above 1, and is at most 1 after it.
LEMMA LimitedBounds ==
  ASSUME NEW x \in Seq(Samples), NEW h \in Nat, NEW limit \in 0 .. Len(x),
         \A k \in 1 .. Len(x) : Magnitude(x[k].v) <= 3 * One,
         NEW i \in (h + 2) .. limit, x[i].bent = 0
  PROVE  /\ x[i].v # 0 =>
              Limited(x, h, limit)[i].bent =
                IF Peak(x, h, limit, i) > One THEN Peak(x, h, limit, i) ELSE 0
         /\ Bounded(Limited(x, h, limit)[i])
<1> DEFINE y == Limited(x, h, limit)
           p == Peak(x, h, limit, i)
<1>1. i \in 1 .. Len(x) /\ i \in (h + 1) .. limit /\ ~LeftOut(h, i)
  BY DEF LeftOut
<1>2. x[i] \in Samples /\ y[i] \in Samples /\ y[i].v = x[i].v
  BY <1>1, LimitedKeeps
<1>3. p \in Nat /\ Magnitude(x[i].v) <= p /\ p <= 3 * One
  BY <1>1, PeakBounds
<1>4. One \in Nat /\ One > 0 /\ Magnitude(x[i].v) \in Nat
  <2>1. x[i].v \in Int
    BY <1>2 DEF Samples
  <2>2. Magnitude(x[i].v) \in Nat
    BY <2>1, MagnitudeType
  <2> QED
    BY <2>2, NumbersAssumption
<1>5. CASE x[i].v = 0
  <2>1. y[i] = x[i]
    BY <1>1, <1>5 DEF Limited
  <2>2. Magnitude(y[i].v) <= One /\ y[i].bent = 0
    BY <1>4, <1>5, <2>1 DEF Magnitude
  <2> QED
    BY <1>2, <1>5, <2>2, BentIsBounded
<1>6. CASE x[i].v # 0 /\ p > One
  <2>1. y[i] = [x[i] EXCEPT !.bent = p]
    BY <1>1, <1>6 DEF Limited, Peak
  <2>2. y[i].bent = p
    BY <1>2, <2>1 DEF Samples
  <2>3. p # 0
    BY <1>3, <1>4, <1>6
  <2>4. Bounded(y[i])
    <3> HIDE DEF y, p
    <3> QED
      BY <1>2, <1>3, <1>6, <2>2, <2>3, BentIsBounded
  <2> QED
    BY <1>6, <2>2, <2>4
<1>7. CASE x[i].v # 0 /\ ~ (p > One)
  <2>1. y[i] = x[i]
    BY <1>1, <1>7 DEF Limited, Peak
  <2>2. Magnitude(y[i].v) <= One /\ y[i].bent = 0
    BY <1>2, <1>3, <1>4, <1>7, <2>1
  <2>3. Bounded(y[i])
    BY <1>2, <2>2, BentIsBounded
  <2> QED
    BY <1>7, <2>2, <2>3
<1> QED
  BY <1>5, <1>6, <1>7

\* Neighbours on one side are in one half-wave.
LEMMA OneWave ==
  ASSUME NEW x \in Seq(Samples), NEW h \in Nat, NEW limit \in 0 .. Len(x),
         NEW i \in (h + 1) .. limit, i + 1 \in (h + 1) .. limit,
         SameSide(x[i].v, x[i + 1].v)
  PROVE  Peak(x, h, limit, i) = Peak(x, h, limit, i + 1)
<1>0. x[i].v \in Int /\ x[i + 1].v \in Int
  <2>1. i \in 1 .. Len(x) /\ i + 1 \in 1 .. Len(x)
    OBVIOUS
  <2>2. x[i] \in Samples /\ x[i + 1] \in Samples
    BY <2>1
  <2> QED
    BY <2>2 DEF Samples
<1>1. ASSUME NEW k \in 1 .. Len(x)
      PROVE  Opposite(x[k].v, x[i].v) <=> Opposite(x[k].v, x[i + 1].v)
  <2>1. x[k].v \in Int
    BY ValueType
  <2>2. SameSide(x[i + 1].v, x[i].v)
    BY <1>0, SidesMatch
  <2> QED
    BY <1>0, <2>1, <2>2, SidesMatch
<1>2. ~Opposite(x[i + 1].v, x[i].v) /\ ~Opposite(x[i].v, x[i + 1].v)
  BY <1>0 DEF SameSide, Opposite
<1>3. ASSUME NEW j \in (h + 1) .. limit
      PROVE  (\A k \in Lesser(i, j) .. (i + j - Lesser(i, j)) :
                ~Opposite(x[k].v, x[i].v))
             <=> (\A k \in Lesser(i + 1, j) .. (i + 1 + j - Lesser(i + 1, j)) :
                    ~Opposite(x[k].v, x[i + 1].v))
  <2>1. CASE j <= i
    <3>1. /\ Lesser(i, j) = j /\ Lesser(i + 1, j) = j
          /\ i + j - Lesser(i, j) = i
          /\ i + 1 + j - Lesser(i + 1, j) = i + 1
      BY <2>1 DEF Lesser
    <3>2. j .. (i + 1) = (j .. i) \cup {i + 1} /\ j .. (i + 1) \subseteq 1 .. Len(x)
      BY <2>1
    <3>3. (\A k \in j .. i : ~Opposite(x[k].v, x[i].v))
          <=> (\A k \in j .. (i + 1) : ~Opposite(x[k].v, x[i + 1].v))
      BY <1>1, <1>2, <3>2
    <3> QED
      BY <3>1, <3>3
  <2>2. CASE ~ (j <= i)
    <3>1. /\ Lesser(i, j) = i /\ Lesser(i + 1, j) = i + 1
          /\ i + j - Lesser(i, j) = j
          /\ i + 1 + j - Lesser(i + 1, j) = j
      BY <2>2 DEF Lesser
    <3>2. i .. j = ((i + 1) .. j) \cup {i} /\ i .. j \subseteq 1 .. Len(x)
      BY <2>2
    <3>3. (\A k \in i .. j : ~Opposite(x[k].v, x[i].v))
          <=> (\A k \in (i + 1) .. j : ~Opposite(x[k].v, x[i + 1].v))
      BY <1>1, <1>2, <3>2
    <3> QED
      BY <3>1, <3>3
  <2> QED
    BY <2>1, <2>2
<1>4. Wave(x, h, limit, i) = Wave(x, h, limit, i + 1)
  BY <1>3 DEF Wave
<1> QED
  BY <1>4 DEF Peak

-----------------------------------------------------------------------------
(***************************************************************************)
(* One round of one channel.  w are its values with those read in the      *)
(* round, l of them known before; q samples were handed out before, p      *)
(* passed, and r are passed after the round.                               *)
(***************************************************************************)

\* A pass never goes back, its range ends at a boundary again, and where the
\* passes meet a half-wave begins.
LEMMA PassesMeetAtBoundary ==
  ASSUME NEW w \in Seq(Int), NEW n \in Nat, NEW q \in Nat, NEW l \in Nat,
         NEW p \in Nat, NEW r \in Nat,
         q <= p, p <= l, l <= Len(w), Len(w) <= n, q <= r, r <= Len(w),
         \/ l = n /\ p = n
         \/ /\ p = 0 \/ ~SameSide(w[p], w[l])
            /\ \A j \in (p + 1) .. l : SameSide(w[j], w[l]),
         l = Len(w) => l = n /\ r = Len(w),
         l < Len(w) =>
           /\ r = q \/ ~SameSide(w[r], w[Len(w)])
           /\ \A k \in (r + 1) .. Len(w) : SameSide(w[k], w[Len(w)])
  PROVE  /\ p <= r
         /\ Boundary(w, r, n)
         /\ p # 0 /\ p < r => ~SameSide(w[p], w[p + 1])
<1>1. CASE l = Len(w)
  <2>1. p <= r /\ Boundary(w, r, n)
    BY <1>1 DEF Boundary
  <2>2. ASSUME p # 0, p < r PROVE ~SameSide(w[p], w[p + 1])
    <3>1. /\ p \in 1 .. Len(w) /\ p + 1 \in 1 .. Len(w) /\ l \in 1 .. Len(w)
          /\ p + 1 \in (p + 1) .. l
      BY <1>1, <2>2
    <3>2. w[p] \in Int /\ w[p + 1] \in Int /\ w[l] \in Int
      BY <3>1
    <3>3. ~SameSide(w[p], w[l]) /\ SameSide(w[p + 1], w[l])
      BY <1>1, <2>2, <3>1
    <3> QED
      BY <3>2, <3>3, SidesMatch
  <2> QED
    BY <2>1, <2>2
<1>2. CASE l < Len(w)
  <2>1. /\ p = 0 \/ ~SameSide(w[p], w[l])
        /\ \A j \in (p + 1) .. l : SameSide(w[j], w[l])
    BY <1>2
  <2>2. ASSUME p # 0
        PROVE  /\ p \in 1 .. Len(w) /\ l \in 1 .. Len(w) /\ Len(w) \in 1 .. Len(w)
               /\ w[p] \in Int /\ w[l] \in Int /\ w[Len(w)] \in Int
    <3>1. p \in 1 .. Len(w) /\ l \in 1 .. Len(w) /\ Len(w) \in 1 .. Len(w)
      BY <2>2
    <3> QED
      BY <3>1
  <2>3. ASSUME p # 0, r <= p PROVE ~SameSide(w[p], w[Len(w)])
    <3>1. SUFFICES ASSUME SameSide(w[p], w[Len(w)]) PROVE FALSE
      OBVIOUS
    <3>2. CASE p = l
      BY <2>1, <2>2, <2>3, <3>1, <3>2, SidesMatch
    <3>3. CASE p < l
      <4>1. l \in (r + 1) .. Len(w)
        BY <2>3, <3>3
      <4>2. SameSide(w[l], w[Len(w)])
        BY <1>2, <4>1
      <4>3. SameSide(w[p], w[l])
        BY <2>2, <2>3, <3>1, <4>2 DEF SameSide
      <4> QED
        BY <2>1, <2>3, <4>3
    <3> QED
      BY <3>2, <3>3
  <2>4. p <= r
    <3>1. SUFFICES ASSUME r < p PROVE FALSE
      OBVIOUS
    <3>2. p \in (r + 1) .. Len(w) /\ p # 0 /\ r <= p
      BY <3>1
    <3> QED
      BY <1>2, <2>3, <3>2
  <2>5. Boundary(w, r, n)
    <3>1. CASE r = q /\ r # 0
      <4>1. r = p
        BY <2>4, <3>1
      <4> QED
        BY <1>2, <2>3, <3>1, <4>1 DEF Boundary
    <3>2. CASE r # q \/ r = 0
      BY <1>2, <3>2 DEF Boundary
    <3> QED
      BY <3>1, <3>2
  <2>6. ASSUME p # 0, p < r PROVE ~SameSide(w[p], w[p + 1])
    <3>1. p + 1 \in 1 .. Len(w)
      BY <2>6
    <3>2. w[p + 1] \in Int
      BY <3>1
    <3>3. CASE p = l
      <4>1. ~SameSide(w[p], w[p])
        BY <2>1, <2>6, <3>3
      <4> QED
        BY <2>2, <2>6, <3>2, <4>1, SidesMatch
    <3>4. CASE p < l
      <4>1. p + 1 \in (p + 1) .. l
        BY <3>4
      <4>2. SameSide(w[p + 1], w[l]) /\ ~SameSide(w[p], w[l])
        BY <2>1, <2>6, <4>1
      <4> QED
        BY <2>2, <2>6, <3>2, <4>2, SidesMatch
    <3> QED
      BY <3>3, <3>4
  <2> QED
    BY <2>4, <2>5, <2>6
<1> QED
  BY <1>1, <1>2

\* What a pass has done to the samples after p adds up with what was done to
\* those before.
LEMMA PassesAddUp ==
  ASSUME NEW w \in Seq(Int), NEW z \in Seq(Samples), NEW p \in Nat, NEW r \in Nat,
         p <= r, r <= Len(z),
         p # 0 /\ p < r => ~SameSide(w[p], w[p + 1]),
         \A i \in 1 .. p : ~Starts(w, i) => Bounded(z[i]),
         \A i \in 2 .. (p - 1) :
           ~Starts(w, i) /\ ~Starts(w, i + 1) => z[i].bent = z[i + 1].bent,
         \A i \in (p + 2) .. r : Bounded(z[i]),
         \A i \in (p + 2) .. (r - 1) :
           SameSide(w[i], w[i + 1]) => z[i].bent = z[i + 1].bent,
         \A k \in (r + 1) .. Len(z) : z[k].bent = 0
  PROVE  Curved(z, w, r)
<1>1. p < r => Starts(w, p + 1)
  <2>1. p + 1 - 1 = p
    OBVIOUS
  <2> QED
    BY <2>1 DEF Starts
<1>2. ASSUME NEW i \in 1 .. r, ~Starts(w, i) PROVE Bounded(z[i])
  <2>1. i \in 1 .. p \/ i = p + 1 \/ i \in (p + 2) .. r
    OBVIOUS
  <2> QED
    BY <1>1, <1>2, <2>1
<1>3. ASSUME NEW i \in 2 .. (r - 1), ~Starts(w, i), ~Starts(w, i + 1)
      PROVE  z[i].bent = z[i + 1].bent
  <2>1. i \in 2 .. (p - 1) \/ i = p \/ i = p + 1 \/ i \in (p + 2) .. (r - 1)
    OBVIOUS
  <2>2. i # p /\ i # p + 1
    BY <1>1, <1>3
  <2>3. SameSide(w[i], w[i + 1])
    <3>1. i + 1 - 1 = i /\ i + 1 # 1
      OBVIOUS
    <3> QED
      BY <1>3, <3>1 DEF Starts
  <2> QED
    BY <1>3, <2>1, <2>2, <2>3
<1> QED
  BY <1>2, <1>3 DEF Curved

\* a is made of s, which is q long, and of t, which is m long.
Joined(a, s, t, q, m) ==
  /\ Len(a) = q + m
  /\ \A k \in 1 .. q : a[k] = s[k]
  /\ \A k \in 1 .. m : a[q + k] = t[k]

\* Two sequences of samples set end to end.
LEMMA EndToEnd ==
  ASSUME NEW s \in Seq(Samples), NEW t \in Seq(Samples),
         NEW q \in Nat, NEW m \in Nat, Len(s) = q, Len(t) = m
  PROVE  s \o t \in Seq(Samples) /\ Joined(s \o t, s, t, q, m)
<1>1. /\ s \o t \in Seq(Samples)
      /\ Len(s \o t) = Len(s) + Len(t)
      /\ \A k \in 1 .. Len(s) : (s \o t)[k] = s[k]
      /\ \A k \in 1 .. Len(t) : (s \o t)[Len(s) + k] = t[k]
  OBVIOUS
<1> QED
  BY <1>1 DEF Joined

\* The same of values.
LEMMA EndToEndValues ==
  ASSUME NEW s \in Seq(Int), NEW t \in Seq(Int),
         NEW q \in Nat, NEW m \in Nat, Len(s) = q, Len(t) = m
  PROVE  s \o t \in Seq(Int) /\ Joined(s \o t, s, t, q, m)
<1>1. /\ s \o t \in Seq(Int)
      /\ Len(s \o t) = Len(s) + Len(t)
      /\ \A k \in 1 .. Len(s) : (s \o t)[k] = s[k]
      /\ \A k \in 1 .. Len(t) : (s \o t)[Len(s) + k] = t[k]
  OBVIOUS
<1> QED
  BY <1>1 DEF Joined

\* A round of a channel: of the samples a, with the values g, the first q were
\* handed out before; w are the values with the le read in the round, x what is
\* held with them, y the same after the pass, z all the samples after it.
RoundOf(a, g, w, x, y, z, q, lb, l, m, d) ==
  /\ \A k \in 1 .. l : w[k] = g[k]
  /\ \A k \in 1 .. m : Magnitude(w[k]) <= 3 * One
  /\ \A k \in 1 .. lb : x[k] = a[q + k]
  /\ \A k \in (lb + 1) .. d : x[k] = Sample(w[q + k])
  /\ \A k \in 1 .. q : z[k] = a[k]
  /\ \A k \in 1 .. d : z[q + k] = y[k]

\* The pass of that round: limit samples are passed after it.
PassOf(x, y, h, le, limit) ==
  /\ limit = HeldFrom(x, le)
  /\ y = Limited(x, h, limit)

\* Its numbers: n samples the source has, l given before and m after, d held
\* with those read, p passed before and r after.
Sizes(q, h, n, lb, le, limit, l, m, d, p, r) ==
  /\ l = q + lb /\ m = l + le /\ d = lb + le
  /\ p = q + h /\ r = q + limit
  /\ h <= lb /\ m <= n
  /\ le = 0 => l = n

\* The invariant of a channel is kept by a round.
LEMMA RoundKeepsWaves ==
  ASSUME NEW a \in Seq(Samples), NEW x \in Seq(Samples),
         NEW y \in Seq(Samples), NEW z \in Seq(Samples),
         NEW g \in Seq(Int), NEW w \in Seq(Int),
         NEW q \in Nat, NEW h \in Nat, NEW n \in Nat, NEW lb \in Nat,
         NEW le \in Nat, NEW limit \in Nat,
         NEW l \in Nat, NEW m \in Nat, NEW d \in Nat, NEW p \in Nat, NEW r \in Nat,
         Sizes(q, h, n, lb, le, limit, l, m, d, p, r),
         Len(g) = l, Len(w) = m, Len(x) = d,
         Tracks(a, g), Boundary(g, p, n), Curved(a, g, p),
         PassOf(x, y, h, le, limit), Len(z) = m,
         RoundOf(a, g, w, x, y, z, q, lb, l, m, d)
  PROVE  /\ h <= limit
         /\ Tracks(z, w)
         /\ Boundary(w, r, n)
         /\ Curved(z, w, r)
<1> USE DEF Sizes
<1>1. /\ \A k \in 1 .. l : w[k] = g[k]
      /\ \A k \in 1 .. m : Magnitude(w[k]) <= 3 * One
      /\ \A k \in 1 .. lb : x[k] = a[q + k]
      /\ \A k \in (lb + 1) .. d : x[k] = Sample(w[q + k])
      /\ \A k \in 1 .. q : z[k] = a[k]
      /\ \A k \in 1 .. d : z[q + k] = y[k]
  BY DEF RoundOf
<1>2. /\ Len(a) = l
      /\ \A k \in 1 .. l : a[k].v = g[k]
  BY DEF Tracks
<1>3. Len(a) = l
  BY <1>2
<1>4. /\ \A k \in (p + 1) .. Len(a) : a[k].bent = 0
      /\ \A k \in 1 .. p : ~Starts(g, k) => Bounded(a[k])
      /\ \A k \in 2 .. (p - 1) :
           ~Starts(g, k) /\ ~Starts(g, k + 1) => a[k].bent = a[k + 1].bent
  BY DEF Curved
<1>5. ASSUME NEW k \in 1 .. d
      PROVE  /\ x[k].v = w[q + k] /\ Magnitude(x[k].v) <= 3 * One
             /\ k > h => x[k].bent = 0
  <2>0. q + k \in 1 .. m
    OBVIOUS
  <2>1. CASE k \in 1 .. lb
    <3>1. q + k \in 1 .. l
      BY <2>1
    <3>2. x[k] = a[q + k] /\ w[q + k] = g[q + k] /\ a[q + k].v = g[q + k]
      BY <1>1, <1>2, <2>1, <3>1
    <3>3. k > h => q + k \in (p + 1) .. Len(a)
      BY <1>3, <2>1
    <3>4. k > h => a[q + k].bent = 0
      BY <1>4, <3>3
    <3> QED
      BY <1>1, <2>0, <3>2, <3>4
  <2>2. CASE k \in (lb + 1) .. d
    <3>1. x[k] = Sample(w[q + k]) /\ Magnitude(w[q + k]) <= 3 * One
      BY <1>1, <2>0, <2>2
    <3> QED
      BY <3>1 DEF Sample
  <2>3. k \in 1 .. lb \/ k \in (lb + 1) .. d
    OBVIOUS
  <2> QED
    BY <2>1, <2>2, <2>3
<1>6. limit <= d /\ (le = 0 => limit = lb)
  <2>1. HeldFrom(x, le) \in 0 .. Len(x) /\ (le = 0 => HeldFrom(x, le) = Len(x))
    BY ONLY HeldFromIsBoundary, x \in Seq(Samples), le \in Nat
  <2> QED
    BY <2>1 DEF PassOf
<1>7. le # 0 =>
        /\ limit = 0 \/ ~SameSide(x[limit].v, x[d].v)
        /\ \A k \in (limit + 1) .. d : SameSide(x[k].v, x[d].v)
  <2>1. x # <<>> /\ le # 0 =>
          /\ limit = 0 \/ ~SameSide(x[limit].v, x[Len(x)].v)
          /\ \A k \in (limit + 1) .. Len(x) : SameSide(x[k].v, x[Len(x)].v)
    BY HeldFromIsBoundary DEF PassOf
  <2>2. le # 0 => x # <<>>
    OBVIOUS
  <2> QED
    BY <2>1, <2>2
<1>8. \A k \in 1 .. d :
        /\ y[k].v = x[k].v
        /\ k <= h \/ k > limit => y[k] = x[k]
  <2>1. limit \in 0 .. Len(x)
    BY <1>6
  <2>2. \A k \in 1 .. Len(x) : Magnitude(x[k].v) <= 3 * One
    BY <1>5
  <2>3. \A k \in 1 .. Len(x) :
          /\ y[k].v = x[k].v
          /\ k \notin (h + 1) .. limit => y[k] = x[k]
    <3>1. y = Limited(x, h, limit)
      BY DEF PassOf
    <3> QED
      BY ONLY <2>1, <2>2, <3>1, LimitedKeeps, x \in Seq(Samples), h \in Nat
  <2>4. ASSUME NEW k \in 1 .. d, k <= h \/ k > limit
        PROVE  k \notin (h + 1) .. limit
    BY <2>4
  <2> QED
    BY <2>3, <2>4
<1>9. \A k \in (q + 1) .. m :
        \E j \in 1 .. d : k = q + j /\ z[k] = y[j]
  <2>1. ASSUME NEW k \in (q + 1) .. m
        PROVE  \E j \in 1 .. d : k = q + j /\ z[k] = y[j]
    <3>1. k - q \in 1 .. d /\ k = q + (k - q)
      OBVIOUS
    <3>2. z[q + (k - q)] = y[k - q]
      BY <1>1, <3>1
    <3> QED
      BY <3>1, <3>2
  <2> QED
    BY <2>1
<1>10. /\ p <= r
       /\ Boundary(w, r, n)
       /\ p # 0 /\ p < r => ~SameSide(w[p], w[p + 1])
  <2>1. /\ q <= p /\ p <= l /\ l <= Len(w) /\ Len(w) <= n /\ q <= r /\ r <= Len(w)
    BY <1>6
  <2>2. \/ l = n /\ p = n
        \/ /\ p = 0 \/ ~SameSide(w[p], w[l])
           /\ \A j \in (p + 1) .. l : SameSide(w[j], w[l])
    <3>1. CASE Len(g) = n /\ p = n
      BY <3>1
    <3>2. CASE /\ p = 0 \/ ~SameSide(g[p], g[Len(g)])
               /\ \A j \in (p + 1) .. Len(g) : SameSide(g[j], g[Len(g)])
      <4>1. p # 0 => w[p] = g[p] /\ w[l] = g[l]
        <5>1. p # 0 => p \in 1 .. l /\ l \in 1 .. l
          BY <2>1
        <5> QED
          BY <1>1, <5>1
      <4>2. ASSUME NEW j \in (p + 1) .. l PROVE SameSide(w[j], w[l])
        <5>1. j \in 1 .. l /\ l \in 1 .. l /\ j \in (p + 1) .. Len(g)
          BY <2>1
        <5>2. w[j] = g[j] /\ w[l] = g[l]
          BY <1>1, <5>1
        <5> QED
          BY <3>2, <5>1, <5>2
      <4> QED
        BY <3>2, <4>1, <4>2
    <3> QED
      BY <3>1, <3>2 DEF Boundary
  <2>3. l = Len(w) => l = n /\ r = Len(w)
    BY <1>6
  <2>4. l < Len(w) =>
           /\ r = q \/ ~SameSide(w[r], w[Len(w)])
           /\ \A k \in (r + 1) .. Len(w) : SameSide(w[k], w[Len(w)])
    <3> SUFFICES ASSUME l < Len(w)
                 PROVE  /\ r = q \/ ~SameSide(w[r], w[Len(w)])
                        /\ \A k \in (r + 1) .. Len(w) : SameSide(w[k], w[Len(w)])
      OBVIOUS
    <3>1. le # 0 /\ d \in 1 .. d /\ m = q + d
      BY <2>1
    <3>2. w[Len(w)] = x[d].v
      BY <1>5, <3>1
    <3>3. limit # 0 => limit \in 1 .. d
      BY <1>6
    <3>4. r = q \/ ~SameSide(w[r], w[Len(w)])
      <4>1. CASE limit = 0
        BY <4>1
      <4>2. CASE limit # 0
        <5>1. w[r] = x[limit].v
          BY <1>5, <3>3, <4>2
        <5>2. ~SameSide(x[limit].v, x[d].v)
          BY <1>7, <3>1, <4>2
        <5> QED
          BY <3>2, <5>1, <5>2
      <4> QED
        BY <4>1, <4>2
    <3>5. ASSUME NEW k \in (r + 1) .. Len(w) PROVE SameSide(w[k], w[Len(w)])
      <4>1. k - q \in 1 .. d /\ k = q + (k - q) /\ k - q \in (limit + 1) .. d
        BY <1>6, <3>1
      <4>2. w[q + (k - q)] = x[k - q].v
        BY <1>5, <4>1
      <4> QED
        BY <1>7, <3>1, <3>2, <4>1, <4>2
    <3> QED
      BY <3>4, <3>5
  <2> QED
    BY ONLY <2>1, <2>2, <2>3, <2>4, PassesMeetAtBoundary, w \in Seq(Int),
            n \in Nat, q \in Nat, l \in Nat, p \in Nat, r \in Nat
<1>11. p <= r
  BY ONLY <1>10
<1>12. h <= limit
  BY ONLY <1>11, h \in Nat, q \in Nat, limit \in Nat,
          Sizes(q, h, n, lb, le, limit, l, m, d, p, r)
<1>13. Tracks(z, w)
  <2>1. ASSUME NEW k \in 1 .. m PROVE z[k].v = w[k]
    <3>1. CASE k \in 1 .. q
      <4>1. k \in 1 .. l
        BY <3>1
      <4> QED
        BY <1>1, <1>2, <3>1, <4>1
    <3>2. CASE k \in (q + 1) .. m
      <4>1. PICK j \in 1 .. d : k = q + j /\ z[k] = y[j]
        BY <1>9, <3>2
      <4> QED
        BY <1>5, <1>8, <4>1
    <3>3. k \in 1 .. q \/ k \in (q + 1) .. m
      OBVIOUS
    <3> QED
      BY <3>1, <3>2, <3>3
  <2> QED
    BY <1>1, <2>1 DEF Tracks
<1>14. Curved(z, w, r)
  <2>0. p <= r /\ r <= Len(z)
    BY <1>6, <1>11
  <2>2. ASSUME NEW k \in 1 .. p PROVE z[k] = a[k] /\ w[k] = g[k]
    <3>1. k \in 1 .. l
      OBVIOUS
    <3>2. CASE k \in 1 .. q
      BY <1>1, <3>1, <3>2
    <3>3. CASE k \in (q + 1) .. p
      <4>1. k \in (q + 1) .. m
        BY <3>1, <3>3
      <4>2. PICK j \in 1 .. d : k = q + j /\ z[k] = y[j]
        BY <1>9, <4>1
      <4>3. j \in 1 .. lb /\ j <= h
        BY <3>3, <4>2
      <4>4. y[j] = x[j] /\ x[j] = a[q + j]
        BY <1>1, <1>8, <4>2, <4>3
      <4> QED
        BY <1>1, <3>1, <4>2, <4>4
    <3>4. k \in 1 .. q \/ k \in (q + 1) .. p
      OBVIOUS
    <3> QED
      BY <3>2, <3>3, <3>4
  <2>3. ASSUME NEW i \in 1 .. p, ~Starts(w, i) PROVE Bounded(z[i])
    <3>1. i # 1 /\ SameSide(w[i - 1], w[i])
      BY <2>3 DEF Starts
    <3>2. i - 1 \in 1 .. p
      BY <3>1
    <3>3. ~Starts(g, i)
      BY <2>2, <3>1, <3>2 DEF Starts
    <3> QED
      BY <1>4, <2>2, <3>3
  <2>4. ASSUME NEW i \in 2 .. (p - 1), ~Starts(w, i), ~Starts(w, i + 1)
        PROVE  z[i].bent = z[i + 1].bent
    <3>1. i \in 1 .. p /\ i + 1 \in 1 .. p /\ i - 1 \in 1 .. p /\ i + 1 - 1 = i
      OBVIOUS
    <3>2. i # 1 /\ i + 1 # 1 /\ SameSide(w[i - 1], w[i]) /\ SameSide(w[i], w[i + 1])
      BY <2>4, <3>1 DEF Starts
    <3>3. ~Starts(g, i) /\ ~Starts(g, i + 1)
      BY <2>2, <3>1, <3>2 DEF Starts
    <3> QED
      BY <1>4, <2>2, <3>1, <3>3
  <2>6. ASSUME NEW j \in (h + 2) .. limit
        PROVE  /\ j \in 1 .. Len(x) /\ j \in (h + 1) .. limit
               /\ limit \in 0 .. Len(x)
               /\ x[j].v = w[q + j] /\ z[q + j] = y[j]
               /\ Bounded(y[j])
               /\ x[j].v # 0 =>
                    y[j].bent = IF Peak(x, h, limit, j) > One
                                  THEN Peak(x, h, limit, j) ELSE 0
    <3>1. /\ j \in 1 .. Len(x) /\ limit \in 0 .. Len(x)
          /\ j \in 1 .. d /\ j > h /\ j \in (h + 1) .. limit
      BY <1>6
    <3>2. x[j].bent = 0
      BY <1>5, <3>1
    <3>3. \A k \in 1 .. Len(x) : Magnitude(x[k].v) <= 3 * One
      BY <1>5
    <3>4. /\ Bounded(Limited(x, h, limit)[j])
          /\ x[j].v # 0 =>
                    Limited(x, h, limit)[j].bent =
                      IF Peak(x, h, limit, j) > One
                        THEN Peak(x, h, limit, j) ELSE 0
      BY ONLY <3>1, <3>2, <3>3, LimitedBounds, x \in Seq(Samples), h \in Nat,
              j \in (h + 2) .. limit
    <3>5. y = Limited(x, h, limit)
      BY DEF PassOf
    <3> QED
      BY <1>1, <1>5, <3>1, <3>4, <3>5
  <2>7. ASSUME NEW i \in (p + 2) .. r PROVE Bounded(z[i])
    <3>1. i - q \in (h + 2) .. limit /\ i = q + (i - q)
      BY <2>0
    <3>2. z[q + (i - q)] = y[i - q] /\ Bounded(y[i - q])
      BY <2>6, <3>1
    <3> QED
      BY <3>1, <3>2
  <2>8. ASSUME NEW i \in (p + 2) .. (r - 1), SameSide(w[i], w[i + 1])
        PROVE  z[i].bent = z[i + 1].bent
    <3>1. PICK j \in (h + 2) .. limit :
            i = q + j /\ j + 1 \in (h + 2) .. limit /\ i + 1 = q + (j + 1)
      <4>1. /\ i - q \in (h + 2) .. limit /\ i = q + (i - q)
            /\ i - q + 1 \in (h + 2) .. limit /\ i + 1 = q + (i - q + 1)
        BY <2>0
      <4> QED
        BY <4>1
    <3>4. SameSide(x[j].v, x[j + 1].v)
      BY <2>6, <2>8, <3>1
    <3>5. x[j].v # 0 /\ x[j + 1].v # 0
      <4>1. x[j].v \in Int /\ x[j + 1].v \in Int
        BY <2>6, <3>1, ValueType
      <4> QED
        BY <3>4, <4>1, SidesNotZero
    <3>6. Peak(x, h, limit, j) = Peak(x, h, limit, j + 1)
      BY <2>6, <3>1, <3>4, OneWave
    <3>7. z[q + j] = y[j] /\ z[q + (j + 1)] = y[j + 1]
      BY <2>6, <3>1
    <3>8. y[j].bent = IF Peak(x, h, limit, j) > One
                        THEN Peak(x, h, limit, j) ELSE 0
      BY <2>6, <3>5
    <3>9. y[j + 1].bent = IF Peak(x, h, limit, j + 1) > One
                            THEN Peak(x, h, limit, j + 1) ELSE 0
      BY <2>6, <3>1, <3>5
    <3> QED
      BY <3>1, <3>6, <3>7, <3>8, <3>9
  <2>9. ASSUME NEW k \in (r + 1) .. Len(z) PROVE z[k].bent = 0
    <3>1. k \in (q + 1) .. m
      BY <2>0
    <3>2. PICK j \in 1 .. d : k = q + j /\ z[k] = y[j]
      BY <1>9, <3>1
    <3>3. j > limit /\ j > h
      BY <1>12, <2>0, <3>2
    <3> QED
      BY <1>5, <1>8, <3>2, <3>3
  <2> QED
    BY ONLY <1>10, <1>11, <2>0, <2>3, <2>4, <2>7, <2>8, <2>9, PassesAddUp,
            z \in Seq(Samples), w \in Seq(Int), p \in Nat, r \in Nat,
            Len(z) = m, Len(w) = m
<1>15. Boundary(w, r, n)
  BY ONLY <1>10
<1> QED
  BY ONLY <1>12, <1>13, <1>14, <1>15

\* The samples made of values.
AsSamples(e) == [k \in 1 .. Len(e) |-> Sample(e[k])]

\* What a round does to a channel: f was handed out before it, b held, g given;
\* e are the values it reads.
ChannelRound(b, h, e, x, y, limit) ==
  /\ x = b \o AsSamples(e)
  /\ PassOf(x, y, h, Len(e), limit)

\* There are as many samples as values, untouched.
LEMMA AsSamplesType ==
  ASSUME NEW e \in Seq(Int)
  PROVE  /\ AsSamples(e) \in Seq(Samples) /\ Len(AsSamples(e)) = Len(e)
         /\ \A k \in 1 .. Len(e) : AsSamples(e)[k] = Sample(e[k])
<1>1. ASSUME NEW k \in 1 .. Len(e) PROVE Sample(e[k]) \in Samples
  <2>1. e[k] \in Int
    OBVIOUS
  <2> QED
    BY <2>1 DEF Sample, Samples
<1>2. AsSamples(e) \in [1 .. Len(e) -> Samples]
  BY <1>1 DEF AsSamples
<1>3. Len(e) \in Nat
  OBVIOUS
<1>4. AsSamples(e) \in Seq(Samples) /\ Len(AsSamples(e)) = Len(e)
  BY <1>2, <1>3
<1> QED
  BY <1>4 DEF AsSamples

\* What a round makes of a channel, before anything is handed out.
LEMMA ChannelKept ==
  ASSUME NEW f \in Seq(Samples), NEW b \in Seq(Samples), NEW g \in Seq(Int),
         NEW e \in Seq(Int), NEW h \in Nat, NEW n \in Nat,
         NEW x, NEW y, NEW limit, ChannelRound(b, h, e, x, y, limit),
         h <= Len(b), Len(g) = Len(f) + Len(b),
         Tracks(f \o b, g), Boundary(g, Len(f) + h, n), Curved(f \o b, g, Len(f) + h),
         \A k \in 1 .. Len(e) : Magnitude(e[k]) <= 3 * One,
         Len(g) + Len(e) <= n, Len(e) = 0 => Len(g) = n
  PROVE  /\ x \in Seq(Samples) /\ y \in Seq(Samples)
         /\ Len(x) = Len(b) + Len(e) /\ Len(y) = Len(x)
         /\ limit \in 0 .. Len(x)
         /\ Tracks(f \o y, g \o e)
         /\ Boundary(g \o e, Len(f) + limit, n)
         /\ Curved(f \o y, g \o e, Len(f) + limit)
<1>1. PICK q \in Nat, lb \in Nat, le \in Nat : Len(f) = q /\ Len(b) = lb /\ Len(e) = le
  OBVIOUS
<1>2. PICK t \in Seq(Samples) :
        /\ t = AsSamples(e) /\ Len(t) = le
        /\ \A k \in 1 .. le : t[k] = Sample(e[k])
  BY <1>1, AsSamplesType
<1>3. x = b \o t /\ PassOf(x, y, h, le, limit)
  BY <1>1, <1>2 DEF ChannelRound
<1>4. x \in Seq(Samples) /\ Joined(x, b, t, lb, le)
  <2>1. b \o t \in Seq(Samples) /\ Joined(b \o t, b, t, lb, le)
    BY ONLY <1>1, <1>2, EndToEnd, b \in Seq(Samples), lb \in Nat, le \in Nat,
            t \in Seq(Samples)
  <2> QED
    BY <1>3, <2>1
<1>5. /\ x \in Seq(Samples) /\ Len(x) = lb + le
      /\ \A k \in 1 .. lb : x[k] = b[k]
      /\ \A k \in 1 .. le : x[lb + k] = t[k]
  BY <1>4 DEF Joined
<1>6. PICK a \in Seq(Samples) :
        /\ a = f \o b /\ Len(a) = q + lb
        /\ \A k \in 1 .. q : a[k] = f[k]
        /\ \A k \in 1 .. lb : a[q + k] = b[k]
  <2>1. f \o b \in Seq(Samples) /\ Joined(f \o b, f, b, q, lb)
    BY ONLY <1>1, EndToEnd, f \in Seq(Samples), b \in Seq(Samples),
            q \in Nat, lb \in Nat
  <2> QED
    BY <2>1 DEF Joined
<1>7. PICK w \in Seq(Int) :
        /\ w = g \o e /\ Len(w) = q + lb + le
        /\ \A k \in 1 .. (q + lb) : w[k] = g[k]
        /\ \A k \in 1 .. le : w[(q + lb) + k] = e[k]
  <2>1. Len(g) = q + lb /\ q + lb \in Nat /\ Len(e) = le
    BY <1>1
  <2> QED
    <3>1. g \o e \in Seq(Int) /\ Joined(g \o e, g, e, q + lb, le)
      BY ONLY <2>1, EndToEndValues, g \in Seq(Int), e \in Seq(Int), le \in Nat
    <3> QED
      BY <3>1 DEF Joined
<1>8. /\ \A k \in 1 .. (q + lb) : a[k].v = g[k] /\ Magnitude(g[k]) <= 3 * One
      /\ Tracks(a, g) /\ Len(g) = q + lb
  BY <1>1, <1>6 DEF Tracks
<1>9. ASSUME NEW k \in 1 .. (q + lb + le) PROVE Magnitude(w[k]) <= 3 * One
  <2>1. CASE k \in 1 .. (q + lb)
    BY <1>7, <1>8, <2>1
  <2>2. CASE k \in (q + lb + 1) .. (q + lb + le)
    <3>1. k - (q + lb) \in 1 .. le /\ (q + lb) + (k - (q + lb)) = k
      BY <2>2
    <3>2. w[(q + lb) + (k - (q + lb))] = e[k - (q + lb)]
      BY <1>7, <3>1
    <3> QED
      BY <1>1, <3>1, <3>2
  <2>3. k \in 1 .. (q + lb) \/ k \in (q + lb + 1) .. (q + lb + le)
    OBVIOUS
  <2> QED
    BY <2>1, <2>2, <2>3
<1>10. ASSUME NEW k \in (lb + 1) .. (lb + le) PROVE x[k] = Sample(w[q + k])
  <2>1. /\ k - lb \in 1 .. le /\ lb + (k - lb) = k
        /\ (q + lb) + (k - lb) = q + k
    OBVIOUS
  <2>2. x[lb + (k - lb)] = t[k - lb] /\ w[(q + lb) + (k - lb)] = e[k - lb]
    BY <1>5, <1>7, <2>1
  <2> QED
    BY <1>2, <2>1, <2>2
<1>11. ASSUME NEW k \in 1 .. (lb + le) PROVE Magnitude(x[k].v) <= 3 * One
  <2>1. CASE k \in 1 .. lb
    <3>1. q + k \in 1 .. (q + lb)
      BY <2>1
    <3>2. x[k] = a[q + k] /\ a[q + k].v = g[q + k] /\ Magnitude(g[q + k]) <= 3 * One
      BY <1>5, <1>6, <1>8, <2>1, <3>1
    <3> QED
      BY <3>2
  <2>2. CASE k \in (lb + 1) .. (lb + le)
    <3>1. q + k \in 1 .. (q + lb + le)
      BY <2>2
    <3>2. x[k] = Sample(w[q + k]) /\ Magnitude(w[q + k]) <= 3 * One
      BY <1>9, <1>10, <2>2, <3>1
    <3> QED
      BY <3>2 DEF Sample
  <2>3. k \in 1 .. lb \/ k \in (lb + 1) .. (lb + le)
    OBVIOUS
  <2> QED
    BY <2>1, <2>2, <2>3
<1>12. limit \in 0 .. Len(x)
  <2>1. HeldFrom(x, le) \in 0 .. Len(x)
    BY ONLY <1>5, HeldFromIsBoundary, le \in Nat
  <2> QED
    BY <1>3, <2>1 DEF PassOf
<1>13. y \in Seq(Samples) /\ Len(y) = lb + le
  <2>1. \A k \in 1 .. Len(x) : Magnitude(x[k].v) <= 3 * One
    BY <1>5, <1>11
  <2>2. /\ Limited(x, h, limit) \in Seq(Samples)
        /\ Len(Limited(x, h, limit)) = Len(x)
    BY ONLY <1>5, <1>12, <2>1, LimitedKeeps, h \in Nat
  <2> QED
    BY <1>3, <1>5, <2>2 DEF PassOf
<1>14. PICK z \in Seq(Samples) :
        /\ z = f \o y /\ Len(z) = q + lb + le
        /\ \A k \in 1 .. q : z[k] = f[k]
        /\ \A k \in 1 .. (lb + le) : z[q + k] = y[k]
  <2>1. q + (lb + le) = q + lb + le /\ lb + le \in Nat
    OBVIOUS
  <2>2. \E z \in Seq(Samples) :
          /\ z = f \o y /\ Len(z) = q + (lb + le)
          /\ \A k \in 1 .. q : z[k] = f[k]
          /\ \A k \in 1 .. (lb + le) : z[q + k] = y[k]
    <3>1. f \o y \in Seq(Samples) /\ Joined(f \o y, f, y, q, lb + le)
      BY ONLY <1>1, <1>13, <2>1, EndToEnd, f \in Seq(Samples), q \in Nat
    <3> QED
      BY <3>1 DEF Joined
  <2> QED
    BY <2>1, <2>2
<1>15. PICK l \in Nat, m \in Nat, d \in Nat, p \in Nat, r \in Nat :
         l = q + lb /\ m = l + le /\ d = lb + le /\ p = q + h /\ r = q + limit
  <2>1. limit \in Nat
    BY <1>5, <1>12
  <2> QED
    BY <2>1
<1>16. RoundOf(a, g, w, x, y, z, q, lb, l, m, d)
  <2>1. \A k \in 1 .. lb : x[k] = a[q + k]
    BY <1>5, <1>6
  <2>2. \A k \in 1 .. q : z[k] = a[k]
    BY <1>6, <1>14
  <2>3. /\ \A k \in 1 .. l : w[k] = g[k]
        /\ \A k \in 1 .. m : Magnitude(w[k]) <= 3 * One
        /\ \A k \in (lb + 1) .. d : x[k] = Sample(w[q + k])
        /\ \A k \in 1 .. d : z[q + k] = y[k]
    BY <1>7, <1>9, <1>10, <1>14, <1>15
  <2> QED
    BY <2>1, <2>2, <2>3 DEF RoundOf
<1>17. /\ Tracks(z, w)
       /\ Boundary(w, r, n)
       /\ Curved(z, w, r)
  <2>1. /\ Len(g) = l /\ Len(w) = m /\ Len(x) = d /\ Len(z) = m
        /\ limit \in Nat
    <3>1. Len(g) = q + lb
      BY <1>8
    <3>2. Len(w) = q + lb + le
      BY <1>7
    <3>3. Len(x) = lb + le
      BY <1>5
    <3>4. Len(z) = q + lb + le
      BY <1>14
    <3>5. limit \in Nat
      <4>1. limit \in 0 .. (lb + le)
        BY <1>12, <3>3
      <4> QED
        BY <4>1
    <3> QED
      BY <1>15, <3>1, <3>2, <3>3, <3>4, <3>5
  <2>4. x \in Seq(Samples) /\ y \in Seq(Samples) /\ Tracks(a, g)
        /\ PassOf(x, y, h, le, limit)
    BY <1>3, <1>5, <1>8, <1>13
  <2>3. Sizes(q, h, n, lb, le, limit, l, m, d, p, r)
    BY <1>1, <1>8, <1>15 DEF Sizes
  <2>2. Boundary(g, p, n) /\ Curved(a, g, p)
    BY <1>1, <1>6, <1>15
  <2> QED
    BY ONLY <1>16, <2>1, <2>2, <2>3, <2>4, RoundKeepsWaves, ZenonT(60),
            a \in Seq(Samples), z \in Seq(Samples), g \in Seq(Int), w \in Seq(Int),
            q \in Nat, h \in Nat, n \in Nat, lb \in Nat, le \in Nat,
            l \in Nat, m \in Nat, d \in Nat, p \in Nat, r \in Nat
<1>18. /\ Tracks(f \o y, g \o e)
       /\ Boundary(g \o e, Len(f) + limit, n)
       /\ Curved(f \o y, g \o e, Len(f) + limit)
  BY <1>1, <1>7, <1>14, <1>15, <1>17
<1> QED
  BY <1>1, <1>5, <1>12, <1>13, <1>18

\* What is handed out and what is kept of y, after f, is f and y again.
LEMMA HandingOut ==
  ASSUME NEW f \in Seq(Samples), NEW y \in Seq(Samples), NEW res \in 0 .. Len(y)
  PROVE  /\ Kept(y, res) \in Seq(Samples) /\ Len(Kept(y, res)) = Len(y) - res
         /\ f \o SubSeq(y, 1, res) \in Seq(Samples)
         /\ Len(f \o SubSeq(y, 1, res)) = Len(f) + res
         /\ (f \o SubSeq(y, 1, res)) \o Kept(y, res) = f \o y
<1> DEFINE s == SubSeq(y, 1, res)
           t == SubSeq(y, res + 1, Len(y))
<1>1. /\ s \in Seq(Samples) /\ Len(s) = res
      /\ \A k \in 1 .. res : s[k] = y[k]
  OBVIOUS
<1>2. /\ t \in Seq(Samples) /\ Len(t) = Len(y) - res
      /\ \A k \in 1 .. (Len(y) - res) : t[k] = y[res + k]
  OBVIOUS
<1>3. s \o t = y
  <2>1. PICK l \in Nat, m \in Nat : l = Len(y) /\ m = l - res /\ res \in 0 .. l
    OBVIOUS
  <2> HIDE DEF s, t
  <2>2. Len(s) = res /\ Len(t) = m /\ res \in Nat
    BY <1>1, <1>2, <2>1
  <2>3. s \o t \in Seq(Samples) /\ Joined(s \o t, s, t, res, m)
    BY ONLY <1>1, <1>2, <2>2, EndToEnd, m \in Nat
  <2>4. PICK w \in Seq(Samples) : w = s \o t /\ Joined(w, s, t, res, m)
    BY <2>3
  <2>5. Len(w) = l
    BY <2>1, <2>4 DEF Joined
  <2>6. ASSUME NEW k \in 1 .. l PROVE w[k] = y[k]
    <3>1. CASE k \in 1 .. res
      BY <1>1, <2>4, <3>1 DEF Joined
    <3>2. CASE k \in (res + 1) .. l
      <4>1. k - res \in 1 .. m /\ k - res \in 1 .. (l - res) /\ res + (k - res) = k
        BY <2>1, <3>2
      <4>2. w[res + (k - res)] = t[k - res]
        BY <2>4, <4>1 DEF Joined
      <4>3. t[k - res] = y[res + (k - res)]
        BY <1>2, <2>1, <4>1
      <4> QED
        BY <4>1, <4>2, <4>3
    <3>3. k \in 1 .. res \/ k \in (res + 1) .. l
      BY <2>1
    <3> QED
      BY <3>1, <3>2, <3>3
  <2>7. w = y
    BY <2>1, <2>5, <2>6
  <2> QED
    BY <2>4, <2>7
<1>4. (f \o s) \o t = f \o (s \o t)
  <2> HIDE DEF s, t
  <2> QED
    BY <1>1, <1>2
<1>5. f \o s \in Seq(Samples) /\ Len(f \o s) = Len(f) + res
  <2> HIDE DEF s
  <2>1. s \in Seq(Samples) /\ f \in Seq(Samples)
    BY <1>1
  <2>2. f \o s \in Seq(Samples) /\ Len(f \o s) = Len(f) + Len(s)
    BY ONLY <2>1
  <2> QED
    BY <1>1, <2>2
<1> QED
  BY <1>1, <1>2, <1>3, <1>4, <1>5 DEF Kept

-----------------------------------------------------------------------------
(***************************************************************************)
(* A round of all channels, its parts named: what is read of a channel,    *)
(* what is held with it, how far the pass of each channel goes, what it    *)
(* makes of the channel, and how many frames can be handed out.            *)
(***************************************************************************)
Values(frames, c) == [k \in 1 .. Len(frames) |-> Clip(frames[k][c])]

Before(frames) ==
  [c \in Channels |->
     buffer[c] \o [k \in 1 .. Len(frames) |-> Sample(Clip(frames[k][c]))]]

Limits(frames) == [c \in Channels |-> HeldFrom(Before(frames)[c], Len(frames))]

After(frames) ==
  [c \in Channels |-> Limited(Before(frames)[c], head[c], Limits(frames)[c])]

Out(frames) == Lesser(Room, LetGo(Limits(frames)))

Wanted == Lesser(Room, total - Len(given[First]))

\* A round reads frames.
RoundReads(frames) ==
  /\ given' = [c \in Channels |-> given[c] \o Values(frames, c)]
  /\ buffer' = [c \in Channels |-> Kept(After(frames)[c], Out(frames))]
  /\ head' = [c \in Channels |-> Limits(frames)[c] - Out(frames)]
  /\ position' = position + Out(frames)
  /\ released' = [c \in Channels |->
                    released[c] \o SubSeq(After(frames)[c], 1, Out(frames))]
  /\ IF RoundAgain(Out(frames), Before(frames)) THEN UNCHANGED <<count, nread>>
     ELSE IF Out(frames) = 0 \/ count + Out(frames) = Block
       THEN count' = 0 /\ nread' = count + Out(frames)
       ELSE count' = count + Out(frames) /\ UNCHANGED nread
  /\ UNCHANGED total

\* A round reads as many frames as are wanted.
LEMMA RoundParts ==
  ASSUME Round
  PROVE  nread > 0 /\ \E frames \in [1 .. Wanted -> Frames] : RoundReads(frames)
BY DEF Round, RoundReads, Values, Before, Limits, After, Out, Wanted

\* There are channels, one of which is the first.
LEMMA FirstIsChannel == First \in Channels
BY ChannelsAssumption DEF First

\* How many frames are wanted, and that they are a sequence.
LEMMA WantedType ==
  ASSUME TypeInv, StepInv, NEW frames \in [1 .. Wanted -> Frames]
  PROVE  /\ Room \in 1 .. Block /\ Wanted \in Nat
         /\ frames \in Seq(Frames) /\ Len(frames) = Wanted
         /\ Wanted <= Room /\ Wanted <= total - Len(given[First])
         /\ Wanted = 0 => Len(given[First]) = total
<1>1. given[First] \in Seq(Int) /\ Len(given[First]) <= total
  BY FirstIsChannel DEF TypeInv, StepInv
<1>2. PICK l \in Nat : l = Len(given[First]) /\ l <= total
  BY <1>1
<1>3. Room \in 1 .. Block /\ total \in Nat
  BY NumbersAssumption DEF TypeInv, Room
<1>4. /\ Wanted \in Nat /\ Wanted <= Room /\ Wanted <= total - l
      /\ Wanted = 0 => l = total
  <2>1. Wanted = Lesser(Room, total - l)
    BY <1>2 DEF Wanted
  <2>2. Room \in Nat /\ total - l \in Nat
    BY <1>2, <1>3, NumbersAssumption
  <2>3. CASE Room < total - l
    BY <1>3, <2>1, <2>2, <2>3 DEF Lesser
  <2>4. CASE ~ (Room < total - l)
    BY <1>2, <1>3, <2>1, <2>2, <2>4 DEF Lesser
  <2> QED
    BY <2>3, <2>4
<1>5. frames \in Seq(Frames) /\ Len(frames) = Wanted
  BY <1>4
<1> QED
  BY <1>2, <1>3, <1>4, <1>5

\* The values read of a channel: clipped integers, one of each frame.
LEMMA ValuesType ==
  ASSUME NEW frames \in Seq(Frames), NEW c \in Channels
  PROVE  /\ Values(frames, c) \in Seq(Int) /\ Len(Values(frames, c)) = Len(frames)
         /\ \A k \in 1 .. Len(frames) : Magnitude(Values(frames, c)[k]) <= 3 * One
         /\ AsSamples(Values(frames, c)) =
              [k \in 1 .. Len(frames) |-> Sample(Clip(frames[k][c]))]
<1> DEFINE e == Values(frames, c)
<1>1. ASSUME NEW k \in 1 .. Len(frames)
      PROVE  e[k] = Clip(frames[k][c]) /\ e[k] \in Int /\ Magnitude(e[k]) <= 3 * One
  <2>1. frames[k] \in [Channels -> Int]
    BY FramesAssumption
  <2>2. frames[k][c] \in Int
    BY <2>1
  <2>3. e[k] = Clip(frames[k][c])
    BY DEF Values
  <2> QED
    BY <2>2, <2>3, ClipType
<1>2. Len(frames) \in Nat
  OBVIOUS
<1>3. e = [k \in 1 .. Len(frames) |-> e[k]]
  BY DEF Values
<1>4. e \in Seq(Int) /\ Len(e) = Len(frames)
  <2> HIDE DEF e
  <2>1. e \in [1 .. Len(frames) -> Int]
    BY <1>1, <1>3
  <2> QED
    BY <1>2, <2>1
<1>5. AsSamples(e) = [k \in 1 .. Len(frames) |-> Sample(Clip(frames[k][c]))]
  <2> HIDE DEF e
  <2> QED
    BY <1>1, <1>4 DEF AsSamples
<1> QED
  BY <1>1, <1>4, <1>5

\* What a round does to each channel, and how it keeps the channel's invariant.
LEMMA ChannelsKept ==
  ASSUME IInv, NEW frames \in [1 .. Wanted -> Frames], NEW c \in Channels
  PROVE  LET e == Values(frames, c)
             x == Before(frames)[c]
             y == After(frames)[c]
             limit == Limits(frames)[c]
         IN  /\ e \in Seq(Int) /\ Len(e) = Len(frames)
             /\ x \in Seq(Samples) /\ y \in Seq(Samples)
             /\ Len(x) = Len(buffer[c]) + Len(e) /\ Len(y) = Len(x)
             /\ limit \in 0 .. Len(x)
             /\ Tracks(released[c] \o y, given[c] \o e)
             /\ Boundary(given[c] \o e, position + limit, total)
             /\ Curved(released[c] \o y, given[c] \o e, position + limit)
<1> DEFINE e == Values(frames, c)
           x == Before(frames)[c]
           y == After(frames)[c]
           limit == Limits(frames)[c]
<1>1. /\ frames \in Seq(Frames) /\ Len(frames) = Wanted
      /\ Wanted \in Nat /\ Wanted <= total - Len(given[First])
      /\ Wanted = 0 => Len(given[First]) = total
  BY WantedType DEF IInv
<1>2. /\ e \in Seq(Int) /\ Len(e) = Len(frames)
      /\ \A k \in 1 .. Len(e) : Magnitude(e[k]) <= 3 * One
      /\ AsSamples(e) = [k \in 1 .. Len(frames) |-> Sample(Clip(frames[k][c]))]
  <2> HIDE DEF e
  <2> QED
    BY <1>1, ValuesType DEF e
<1>3. ChannelRound(buffer[c], head[c], e, x, y, limit)
  <2>1. x = buffer[c] \o AsSamples(e)
    BY <1>2 DEF Before
  <2>2. limit = HeldFrom(x, Len(e)) /\ y = Limited(x, head[c], limit)
    BY <1>2 DEF Limits, After
  <2> HIDE DEF e, x, y, limit
  <2> QED
    BY <2>1, <2>2 DEF ChannelRound, PassOf
<1>4. /\ released[c] \in Seq(Samples) /\ buffer[c] \in Seq(Samples)
      /\ given[c] \in Seq(Int) /\ head[c] \in Nat /\ total \in Nat
  BY NumbersAssumption DEF IInv, TypeInv
<1>5. /\ head[c] <= Len(buffer[c]) /\ Len(released[c]) = position
      /\ Len(given[c]) = position + Len(buffer[c])
      /\ Len(given[c]) = Len(given[First])
  BY DEF IInv, StepInv
<1>6. /\ Tracks(released[c] \o buffer[c], given[c])
      /\ Boundary(given[c], position + head[c], total)
      /\ Curved(released[c] \o buffer[c], given[c], position + head[c])
  BY DEF IInv, WaveInv, All, Passed
<1>7. Len(given[c]) + Len(e) <= total /\ (Len(e) = 0 => Len(given[c]) = total)
  BY <1>1, <1>2, <1>4, <1>5
<1> HIDE DEF e, x, y, limit
<1>8. /\ x \in Seq(Samples) /\ y \in Seq(Samples)
      /\ Len(x) = Len(buffer[c]) + Len(e) /\ Len(y) = Len(x)
      /\ limit \in 0 .. Len(x)
      /\ Tracks(released[c] \o y, given[c] \o e)
      /\ Boundary(given[c] \o e, Len(released[c]) + limit, total)
      /\ Curved(released[c] \o y, given[c] \o e, Len(released[c]) + limit)
  <2>1. /\ Boundary(given[c], Len(released[c]) + head[c], total)
        /\ Curved(released[c] \o buffer[c], given[c], Len(released[c]) + head[c])
        /\ Len(given[c]) = Len(released[c]) + Len(buffer[c])
    BY <1>5, <1>6
  <2> QED
    BY ONLY <1>2, <1>3, <1>4, <1>5, <1>6, <1>7, <2>1, ChannelKept
<1> QED
  BY <1>2, <1>5, <1>8 DEF e, x, y, limit

\* No more frames are handed out than there is room for or any channel lets go,
\* and if fewer than there is room for then all that one channel lets go.
LEMMA OutBounds ==
  ASSUME IInv, NEW frames \in [1 .. Wanted -> Frames]
  PROVE  /\ Out(frames) \in Nat /\ Out(frames) <= Room
         /\ \A c \in Channels : Out(frames) <= Limits(frames)[c]
         /\ Out(frames) = Room \/ \E c \in Channels : Out(frames) = Limits(frames)[c]
<1>1. \A c \in Channels : Limits(frames)[c] \in Nat
  <2> SUFFICES ASSUME NEW c \in Channels PROVE Limits(frames)[c] \in Nat
    OBVIOUS
  <2>1. /\ Before(frames)[c] \in Seq(Samples)
        /\ Limits(frames)[c] \in 0 .. Len(Before(frames)[c])
    BY ChannelsKept
  <2>2. PICK l \in Nat : l = Len(Before(frames)[c])
    BY <2>1
  <2> QED
    BY <2>1, <2>2
<1>2. Limits(frames) \in [Channels -> Nat]
  BY <1>1 DEF Limits
<1>3. Room \in Nat
  BY WantedType, NumbersAssumption DEF IInv
<1> DEFINE g == LetGo(Limits(frames))
<1>4. /\ g \in Nat
      /\ \A c \in Channels : g <= Limits(frames)[c]
      /\ \E c \in Channels : g = Limits(frames)[c]
  BY <1>2, LetGoIsLeast
<1>5. Out(frames) = Lesser(Room, g)
  BY DEF Out
<1> HIDE DEF g
<1>6. CASE Room < g
  <2>1. Out(frames) = Room
    BY <1>5, <1>6 DEF Lesser
  <2>2. \A c \in Channels : Room <= Limits(frames)[c]
    BY <1>1, <1>3, <1>4, <1>6
  <2> QED
    BY <1>3, <2>1, <2>2
<1>7. CASE ~ (Room < g)
  <2>1. Out(frames) = g /\ g <= Room
    BY <1>3, <1>4, <1>5, <1>7 DEF Lesser
  <2> QED
    BY <1>4, <2>1
<1> QED
  BY <1>6, <1>7

\* The state of a channel after a round.
LEMMA ChannelAfter ==
  ASSUME IInv, NEW frames \in [1 .. Wanted -> Frames], RoundReads(frames),
         NEW c \in Channels
  PROVE  /\ given'[c] = given[c] \o Values(frames, c)
         /\ given'[c] \in Seq(Int) /\ Len(given'[c]) = Len(given[c]) + Len(frames)
         /\ buffer'[c] \in Seq(Samples)
         /\ head'[c] \in Nat /\ head'[c] <= Len(buffer'[c])
         /\ released'[c] \in Seq(Samples) /\ Len(released'[c]) = position'
         /\ Len(given'[c]) = position' + Len(buffer'[c])
         /\ position' + head'[c] = position + Limits(frames)[c]
         /\ released'[c] \o buffer'[c] = released[c] \o After(frames)[c]
<1> DEFINE e == Values(frames, c)
           x == Before(frames)[c]
           y == After(frames)[c]
           limit == Limits(frames)[c]
           res == Out(frames)
<1>1. /\ e \in Seq(Int) /\ Len(e) = Len(frames)
      /\ x \in Seq(Samples) /\ y \in Seq(Samples)
      /\ Len(x) = Len(buffer[c]) + Len(e) /\ Len(y) = Len(x)
      /\ limit \in 0 .. Len(x)
  BY ChannelsKept
<1>2. res \in Nat /\ res <= limit
  BY OutBounds
<1>3. /\ given'[c] = given[c] \o e /\ buffer'[c] = Kept(y, res)
      /\ head'[c] = limit - res /\ position' = position + res
      /\ released'[c] = released[c] \o SubSeq(y, 1, res)
  BY DEF RoundReads
<1>4. /\ released[c] \in Seq(Samples) /\ buffer[c] \in Seq(Samples)
      /\ given[c] \in Seq(Int) /\ head[c] \in Nat /\ position \in Nat
  BY DEF IInv, TypeInv
<1>5. /\ head[c] <= Len(buffer[c]) /\ Len(released[c]) = position
      /\ Len(given[c]) = position + Len(buffer[c])
  BY DEF IInv, StepInv
<1> HIDE DEF e, x, y, limit, res
<1>6. given[c] \o e \in Seq(Int) /\ Len(given[c] \o e) = Len(given[c]) + Len(e)
  <2>1. given[c] \in Seq(Int) /\ e \in Seq(Int)
    BY <1>1, <1>4
  <2> QED
    BY ONLY <2>1
<1>7. PICK d \in Nat, b \in Nat, n \in Nat :
        /\ d = Len(y) /\ d = Len(x) /\ b = Len(buffer[c]) /\ n = Len(e) /\ d = b + n
        /\ limit \in 0 .. d
  BY <1>1, <1>4
<1>8. res \in 0 .. Len(y)
  BY <1>2, <1>7
<1>9. /\ Kept(y, res) \in Seq(Samples) /\ Len(Kept(y, res)) = Len(y) - res
      /\ released[c] \o SubSeq(y, 1, res) \in Seq(Samples)
      /\ Len(released[c] \o SubSeq(y, 1, res)) = Len(released[c]) + res
      /\ (released[c] \o SubSeq(y, 1, res)) \o Kept(y, res) = released[c] \o y
  BY <1>1, <1>4, <1>8, HandingOut
<1>10. /\ given'[c] \in Seq(Int) /\ Len(given'[c]) = Len(given[c]) + Len(frames)
       /\ buffer'[c] \in Seq(Samples) /\ Len(buffer'[c]) = d - res
       /\ released'[c] \in Seq(Samples) /\ Len(released'[c]) = position + res
       /\ released'[c] \o buffer'[c] = released[c] \o y
       /\ Len(given'[c]) = position + b + n
  BY <1>1, <1>3, <1>5, <1>6, <1>7, <1>9
<1>11. head'[c] \in Nat /\ head'[c] <= d - res /\ position' + head'[c] = position + limit
  BY <1>2, <1>3, <1>4, <1>7
<1>12. position + b + n = position' + (d - res)
  <2>1. position' = position + res /\ position \in Nat /\ res \in Nat
    BY <1>2, <1>3, <1>4
  <2>2. d = b + n
    BY <1>7
  <2> QED
    BY <2>1, <2>2
<1> QED
  BY <1>3, <1>10, <1>11, <1>12 DEF e, y, limit

\* The invariant holds at first.
LEMMA InitInv ==
  ASSUME Init
  PROVE  IInv
<1>1. TypeInv
  BY NumbersAssumption DEF Init, TypeInv
<1>2. /\ First \in Channels /\ count = 0 /\ position = 0 /\ total \in Nat
      /\ \A c \in Channels :
           given[c] = <<>> /\ released[c] = <<>> /\ buffer[c] = <<>> /\ head[c] = 0
  BY FirstIsChannel, NumbersAssumption DEF Init
<1>3. StepInv
  BY <1>2 DEF StepInv
<1>4. ASSUME NEW c \in Channels
      PROVE  /\ Tracks(All(c), given[c])
             /\ Boundary(given[c], Passed(c), total)
             /\ Curved(All(c), given[c], Passed(c))
  <2>1. All(c) = <<>> /\ given[c] = <<>> /\ Passed(c) = 0
    BY <1>2 DEF All, Passed
  <2> QED
    BY <2>1 DEF Tracks, Boundary, Curved
<1> QED
  BY <1>1, <1>3, <1>4 DEF IInv, WaveInv

\* Every step keeps the invariant.
LEMMA StepKeepsInv ==
  ASSUME IInv, [Next]_vars
  PROVE  IInv'
<1>1. CASE Round
  <2>1. PICK frames \in [1 .. Wanted -> Frames] : RoundReads(frames)
    BY <1>1, RoundParts
  <2>2. /\ Room \in 1 .. Block /\ Len(frames) = Wanted /\ Wanted \in Nat
        /\ Wanted <= total - Len(given[First])
    BY WantedType DEF IInv
  <2>3. Out(frames) \in Nat /\ Out(frames) <= Room
    BY OutBounds
  <2>4. /\ count \in 0 .. (Block - 1) /\ position \in Nat /\ nread \in 0 .. Block
        /\ count <= position /\ Room = Block - count /\ total \in 0 .. MaxFrames
    BY DEF IInv, TypeInv, StepInv, Room
  <2>5. /\ position' = position + Out(frames) /\ total' = total
        /\ \/ count' = count /\ nread' = nread
           \/ count' = 0 /\ nread' = count + Out(frames)
           \/ count' = count + Out(frames) /\ nread' = nread /\ count' # Block
    BY <2>1 DEF RoundReads
  <2>6. TypeInv'
    <3>1. /\ position' \in Nat /\ total' \in 0 .. MaxFrames
          /\ count' \in 0 .. (Block - 1) /\ nread' \in 0 .. Block
      <4>1. position' \in Nat /\ total' \in 0 .. MaxFrames
        BY <2>3, <2>4, <2>5
      <4>2. count' \in 0 .. (Block - 1)
        BY <2>3, <2>4, <2>5, NumbersAssumption
      <4>3. nread' \in 0 .. Block
        BY <2>3, <2>4, <2>5, NumbersAssumption
      <4> QED
        BY <4>1, <4>2, <4>3
    <3>2. given' \in [Channels -> Seq(Int)]
      <4>1. given' = [c \in Channels |-> given'[c]]
        BY <2>1 DEF RoundReads
      <4>2. \A c \in Channels : given'[c] \in Seq(Int)
        BY <2>1, ChannelAfter
      <4> QED
        BY <4>1, <4>2
    <3>3. buffer' \in [Channels -> Seq(Samples)]
      <4>1. buffer' = [c \in Channels |-> buffer'[c]]
        BY <2>1 DEF RoundReads
      <4>2. \A c \in Channels : buffer'[c] \in Seq(Samples)
        BY <2>1, ChannelAfter
      <4> QED
        BY <4>1, <4>2
    <3>4. head' \in [Channels -> Nat]
      <4>1. head' = [c \in Channels |-> head'[c]]
        BY <2>1 DEF RoundReads
      <4>2. \A c \in Channels : head'[c] \in Nat
        BY <2>1, ChannelAfter
      <4> QED
        BY <4>1, <4>2
    <3>5. released' \in [Channels -> Seq(Samples)]
      <4>1. released' = [c \in Channels |-> released'[c]]
        BY <2>1 DEF RoundReads
      <4>2. \A c \in Channels : released'[c] \in Seq(Samples)
        BY <2>1, ChannelAfter
      <4> QED
        BY <4>1, <4>2
    <3> QED
      BY <3>1, <3>2, <3>3, <3>4, <3>5 DEF TypeInv
  <2>7. StepInv'
    <3>1. count' <= position'
      BY <2>3, <2>4, <2>5, NumbersAssumption
    <3>2. ASSUME NEW c \in Channels
          PROVE  /\ Len(given'[c]) = Len(given'[First])
                 /\ Len(given'[c]) <= total'
                 /\ Len(released'[c]) = position'
                 /\ head'[c] <= Len(buffer'[c])
                 /\ Len(given'[c]) = position' + Len(buffer'[c])
      <4>1. /\ Len(released'[c]) = position'
            /\ head'[c] <= Len(buffer'[c])
            /\ Len(given'[c]) = position' + Len(buffer'[c])
            /\ Len(given'[c]) = Len(given[c]) + Len(frames)
        BY <2>1, ChannelAfter
      <4>2. Len(given'[First]) = Len(given[First]) + Len(frames)
        BY <2>1, ChannelAfter, FirstIsChannel
      <4>3. PICK l \in Nat : l = Len(given[c]) /\ l = Len(given[First])
        <5>1. given[c] \in Seq(Int) /\ Len(given[c]) = Len(given[First])
          BY DEF IInv, TypeInv, StepInv
        <5> QED
          BY <5>1
      <4>4. l + Wanted <= total
        BY <2>2, <2>4, <4>3, NumbersAssumption
      <4> QED
        BY <2>2, <2>5, <4>1, <4>2, <4>3, <4>4
    <3> QED
      BY <3>1, <3>2 DEF StepInv, First
  <2>8. WaveInv'
    <3>1. ASSUME NEW c \in Channels
          PROVE  /\ Tracks(released'[c] \o buffer'[c], given'[c])
                 /\ Boundary(given'[c], position' + head'[c], total')
                 /\ Curved(released'[c] \o buffer'[c], given'[c], position' + head'[c])
      <4>1. /\ given'[c] = given[c] \o Values(frames, c)
            /\ position' + head'[c] = position + Limits(frames)[c]
            /\ released'[c] \o buffer'[c] = released[c] \o After(frames)[c]
        BY <2>1, ChannelAfter
      <4>2. LET e == Values(frames, c)
                y == After(frames)[c]
                limit == Limits(frames)[c]
            IN  /\ Tracks(released[c] \o y, given[c] \o e)
                /\ Boundary(given[c] \o e, position + limit, total)
                /\ Curved(released[c] \o y, given[c] \o e, position + limit)
        BY ChannelsKept
      <4> QED
        BY <2>5, <4>1, <4>2
    <3> QED
      BY <3>1 DEF WaveInv, All, Passed
  <2> QED
    BY <2>6, <2>7, <2>8 DEF IInv
<1>2. CASE UNCHANGED vars
  BY <1>2 DEF IInv, TypeInv, StepInv, WaveInv, All, Passed, vars
<1>3. CASE Finished
  BY <1>2, <1>3 DEF Finished
<1> QED
  BY <1>1, <1>2, <1>3 DEF Next

\* The types and the inductive invariant hold throughout.
LEMMA InvAlways == Spec => []IInv
BY InitInv, StepKeepsInv, PTL DEF Spec

\* The type invariant of the limiter, for any channels, source and block.
THEOREM TypeCorrect == Spec => []TypeInv
<1>1. IInv => TypeInv
  BY DEF IInv
<1> QED
  BY <1>1, InvAlways, PTL

-----------------------------------------------------------------------------
(***************************************************************************)
(* The properties.                                                         *)
(***************************************************************************)

\* The invariant in the words of the properties: the samples handed out are
\* those passed first.
LEMMA ReleasedIsPassed ==
  ASSUME IInv, NEW c \in Channels, NEW i \in 1 .. Len(released[c])
  PROVE  /\ i \in 1 .. Passed(c)
         /\ released[c][i] = All(c)[i]
         /\ BeginsWave(c, i) <=> Starts(given[c], i)
<1>1. /\ released[c] \in Seq(Samples) /\ buffer[c] \in Seq(Samples)
      /\ head[c] \in Nat /\ position \in Nat /\ Len(released[c]) = position
  BY DEF IInv, TypeInv, StepInv
<1>2. i \in 1 .. Passed(c)
  BY <1>1 DEF Passed
<1>3. released[c][i] = (released[c] \o buffer[c])[i]
  <2>1. PICK q \in Nat, m \in Nat : Len(released[c]) = q /\ Len(buffer[c]) = m
    BY <1>1
  <2>2. Joined(released[c] \o buffer[c], released[c], buffer[c], q, m)
    BY ONLY <1>1, <2>1, EndToEnd, q \in Nat, m \in Nat
  <2> QED
    BY <2>1, <2>2 DEF Joined
<1> QED
  BY <1>2, <1>3 DEF All, BeginsWave, Starts

\* No sample is lost, repeated or moved in any channel, and the channels stay
\* in step, although each lets go of a different number in each round.
THEOREM SamplesStayInOrder == Spec => []SamplesInOrder
<1>1. ASSUME IInv PROVE SamplesInOrder
  <2>1. ASSUME NEW c \in Channels
        PROVE  /\ [k \in 1 .. Len(released[c] \o buffer[c]) |->
                     (released[c] \o buffer[c])[k].v] = given[c]
               /\ Len(released[c]) = position
    <3>1. Tracks(released[c] \o buffer[c], given[c]) /\ Len(released[c]) = position
      BY <1>1 DEF IInv, WaveInv, StepInv, All
    <3>2. PICK a : a = released[c] \o buffer[c]
      OBVIOUS
    <3>3. PICK g \in Seq(Int), n \in Nat : g = given[c] /\ n = Len(g)
      BY <3>1 DEF Tracks
    <3>4. Len(a) = n /\ \A k \in 1 .. n : a[k].v = g[k]
      BY <3>1, <3>2, <3>3 DEF Tracks
    <3>5. [k \in 1 .. Len(a) |-> a[k].v] = [k \in 1 .. n |-> g[k]]
      BY <3>4
    <3>6. g = [k \in 1 .. n |-> g[k]]
      BY <3>3
    <3> QED
      BY <3>1, <3>2, <3>3, <3>5, <3>6
  <2> QED
    BY <2>1 DEF SamplesInOrder
<1> QED
  BY <1>1, InvAlways, PTL

\* What is handed out stays within [-1, 1], but for the first sample of a
\* half-wave: for both curves and whatever the peak.
THEOREM AlwaysBoundedWithinWaves == Spec => []BoundedWithinWaves
<1>1. ASSUME IInv PROVE BoundedWithinWaves
  <2>1. ASSUME NEW c \in Channels, NEW i \in 1 .. Len(released[c]), ~BeginsWave(c, i)
        PROVE  Bounded(released[c][i])
    <3>1. /\ i \in 1 .. Passed(c) /\ released[c][i] = All(c)[i]
          /\ ~Starts(given[c], i)
      BY <1>1, <2>1, ReleasedIsPassed
    <3>2. Curved(All(c), given[c], Passed(c))
      BY <1>1 DEF IInv, WaveInv
    <3> QED
      BY <3>1, <3>2 DEF Curved
  <2> QED
    BY <2>1 DEF BoundedWithinWaves
<1> QED
  BY <1>1, InvAlways, PTL

\* A half-wave is bent by one curve from its second sample on, in however many
\* rounds it comes in.
THEOREM AlwaysOneCurvePerWave == Spec => []OneCurvePerWave
<1>1. ASSUME IInv PROVE OneCurvePerWave
  <2>1. ASSUME NEW c \in Channels, NEW i \in 2 .. (Len(released[c]) - 1),
               ~BeginsWave(c, i), ~BeginsWave(c, i + 1)
        PROVE  released[c][i].bent = released[c][i + 1].bent
    <3>1. i \in 1 .. Len(released[c]) /\ i + 1 \in 1 .. Len(released[c])
      <4>1. Len(released[c]) \in Nat
        BY <1>1 DEF IInv, TypeInv, StepInv
      <4> QED
        BY <4>1
    <3>2. /\ released[c][i] = All(c)[i] /\ ~Starts(given[c], i)
          /\ i + 1 \in 1 .. Passed(c)
          /\ released[c][i + 1] = All(c)[i + 1] /\ ~Starts(given[c], i + 1)
      BY <1>1, <2>1, <3>1, ReleasedIsPassed
    <3>3. Curved(All(c), given[c], Passed(c))
      BY <1>1 DEF IInv, WaveInv
    <3>4. i \in 2 .. (Passed(c) - 1)
      <4>1. Passed(c) \in Nat
        BY <1>1 DEF IInv, TypeInv, Passed
      <4> QED
        BY <3>2, <4>1
    <3> QED
      BY <3>2, <3>3, <3>4 DEF Curved
  <2> QED
    BY <2>1 DEF OneCurvePerWave
<1> QED
  BY <1>1, InvAlways, PTL

\* When nothing can be handed out and the loop does not go round again, the
\* source is used up and everything has been handed out.
LEMMA NothingLeft ==
  ASSUME IInv, NEW frames \in [1 .. Wanted -> Frames],
         Out(frames) = 0, ~RoundAgain(Out(frames), Before(frames))
  PROVE  position = total
<1>1. Before(frames)[First] = <<>>
  BY DEF RoundAgain
<1>2. /\ Len(Before(frames)[First]) = Len(buffer[First]) + Len(Values(frames, First))
      /\ Len(Values(frames, First)) = Len(frames)
  BY ChannelsKept, FirstIsChannel
<1>3. /\ Len(frames) = Wanted /\ Wanted \in Nat
      /\ Wanted = 0 => Len(given[First]) = total
  BY WantedType DEF IInv
<1>4. buffer[First] \in Seq(Samples) /\ position \in Nat
      /\ Len(given[First]) = position + Len(buffer[First])
  BY FirstIsChannel DEF IInv, TypeInv, StepInv
<1>5. PICK b \in Nat : b = Len(buffer[First])
  BY <1>4
<1>6. 0 = b + Wanted
  BY <1>1, <1>2, <1>3, <1>5
<1>7. b = 0 /\ Wanted = 0
  BY <1>3, <1>6
<1> QED
  BY <1>3, <1>4, <1>5, <1>7

\* The limiter is a reader as the chain promises one: full blocks until the
\* source is used up, then what is left, then nothing.
THEOREM LimiterKeepsReaderContract == Spec => KeepsReaderContract
<1>1. ASSUME Init PROVE Contract!Init
  BY <1>1, NumbersAssumption DEF Init, Contract!Init, Contract!ChainLengths
<1>2. ASSUME IInv, [Next]_vars PROVE [Contract!Next]_(Contract!readerVars)
  <2>1. CASE Round
    <3>1. PICK frames \in [1 .. Wanted -> Frames] : RoundReads(frames)
      BY <2>1, RoundParts
    <3>2. /\ count \in 0 .. (Block - 1) /\ position \in Nat /\ nread > 0
          /\ count <= position /\ Room = Block - count /\ total \in Nat
          /\ Out(frames) \in Nat /\ Out(frames) <= Room
      BY <1>2, <2>1, <3>1, OutBounds, RoundParts, NumbersAssumption
         DEF IInv, TypeInv, StepInv, Room
    <3>3. /\ position' = position + Out(frames) /\ total' = total
          /\ IF RoundAgain(Out(frames), Before(frames)) THEN UNCHANGED <<count, nread>>
             ELSE IF Out(frames) = 0 \/ count + Out(frames) = Block
               THEN count' = 0 /\ nread' = count + Out(frames)
               ELSE count' = count + Out(frames) /\ UNCHANGED nread
      BY <3>1 DEF RoundReads
    <3>4. position' <= total
      <4>1. IInv'
        BY <1>2, StepKeepsInv
      <4>2. /\ buffer[First]' \in Seq(Samples) /\ given[First]' \in Seq(Int)
            /\ position' \in Nat /\ total' \in Nat
            /\ Len(given[First]') = position' + Len(buffer[First]')
            /\ Len(given[First]') <= total'
        BY <4>1, FirstIsChannel, NumbersAssumption
           DEF IInv, TypeInv, StepInv, First
      <4>3. PICK b \in Nat : b = Len(buffer[First]')
        <5>1. PICK s \in Seq(Samples) : s = buffer[First]'
          BY <4>2
        <5>2. Len(s) \in Nat
          OBVIOUS
        <5> QED
          BY <5>1, <5>2
      <4>4. position' + b <= total'
        BY <4>2, <4>3
      <4> QED
        BY <3>3, <4>2, <4>4
    <3>5. CASE RoundAgain(Out(frames), Before(frames))
      <4>1. Out(frames) = 0
        BY <3>5 DEF RoundAgain
      <4>2. position' = position /\ UNCHANGED <<count, nread, total>>
        BY <3>2, <3>3, <3>5, <4>1
      <4> QED
        BY <4>2 DEF Contract!readerVars
    <3>6. CASE /\ ~RoundAgain(Out(frames), Before(frames))
               /\ ~ (Out(frames) = 0 \/ count + Out(frames) = Block)
      <4>1. position' - count' = position - count /\ UNCHANGED <<nread, total>>
        BY <3>2, <3>3, <3>6, NumbersAssumption
      <4> QED
        BY <4>1 DEF Contract!readerVars
    <3>7. CASE /\ ~RoundAgain(Out(frames), Before(frames))
               /\ Out(frames) = 0 \/ count + Out(frames) = Block
      <4> DEFINE pulled == position - count
      <4>1. count' = 0 /\ nread' = count + Out(frames)
        BY <3>3, <3>7
      <4>2. pulled' = pulled + nread' /\ pulled \in Nat /\ pulled' = position'
        BY <3>2, <3>3, <4>1, NumbersAssumption
      <4>3. nread' = IF pulled < total THEN Lesser(Block, total - pulled) ELSE 0
        <5>1. CASE Out(frames) = 0
          <6>1. position = total
            BY <1>2, <3>7, <5>1, NothingLeft
          <6>2. nread' = count /\ total - pulled = count
            BY <3>2, <4>1, <5>1, <6>1
          <6> QED
            BY <3>2, <6>1, <6>2, NumbersAssumption DEF Lesser
        <5>2. CASE count + Out(frames) = Block
          <6>1. nread' = Block /\ pulled + Block <= total /\ Block \in Nat \ {0}
            BY <3>4, <4>1, <4>2, <5>2, NumbersAssumption
          <6> HIDE DEF pulled
          <6> QED
            BY <3>2, <4>2, <6>1 DEF Lesser
        <5> QED
          BY <3>7, <5>1, <5>2
      <4>4. Contract!Counted(Contract!Answer) = nread'
        <5>1. Contract!Answer = IF pulled < total THEN Lesser(Block, total - pulled) ELSE 0
          BY DEF Contract!Answer, Contract!Lesser, Lesser
        <5>2. nread' \in Nat
          BY <3>2, <4>1, NumbersAssumption
        <5> QED
          BY <4>3, <5>1, <5>2 DEF Contract!Counted
      <4>5. pulled' = Contract!Lesser(total, pulled')
        <5>1. PICK p \in Int : p = pulled'
          BY <4>2, <3>2, <3>3
        <5>2. p <= total /\ total \in Int
          BY <3>2, <3>4, <4>2, <5>1
        <5>3. p = IF total < p THEN total ELSE p
          BY <5>2
        <5> HIDE DEF pulled
        <5> QED
          BY <5>1, <5>3 DEF Contract!Lesser
      <4>6. total' = total
        BY <3>3
      <4>7. Contract!ReadFrames
        BY <3>2, <4>2, <4>4, <4>5, <4>6 DEF Contract!ReadFrames
      <4> QED
        BY <4>7 DEF Contract!Next
    <3> QED
      BY <3>5, <3>6, <3>7
  <2>2. CASE UNCHANGED vars
    BY <2>2 DEF vars, Contract!readerVars
  <2>3. CASE Finished
    BY <2>2, <2>3 DEF Finished
  <2> QED
    BY <1>2, <2>1, <2>2, <2>3 DEF Next
<1> QED
  BY <1>1, <1>2, InvAlways, PTL DEF Spec, KeepsReaderContract, Contract!Spec
=============================================================================
