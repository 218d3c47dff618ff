------------------------------- MODULE Limiter -------------------------------
(***************************************************************************)
(* The limiter (limiter.c), which stands between a source of floating      *)
(* point samples and the conversion to 16 bits.  It bends every half-wave  *)
(* that leaves [-1, 1] with one curve, so that its peak becomes 1; to know *)
(* the peak it holds back, channel by channel, the samples after the last  *)
(* change of sign, and hands out what all its channels have let go.        *)
(*                                                                         *)
(* A sample is an integer in units of 1 / One of full scale; what the      *)
(* limiter does to it is kept symbolically, as the peak of the curve.      *)
(***************************************************************************)
EXTENDS SequencesExt, FiniteSetsExt, Integers

CONSTANTS
  Channels,    \* channels_per_frame is their number
  Frames,      \* the frames a source is made of: per channel, a value
  One,         \* the value that stands for 1.0
  Block,       \* frames the caller asks for with each pcm_read_frames()
  MaxFrames    \* bound on the length of the source, for model checking

ASSUME ChannelsAssumption == Channels # {} /\ IsFiniteSet(Channels)
ASSUME FramesAssumption == Frames \subseteq [Channels -> Int]
ASSUME NumbersAssumption == One \in Nat \ {0} /\ Block \in Nat \ {0} /\ MaxFrames \in Nat

VARIABLES
  total,      \* frames the source yields
  given,      \* history: per channel, the samples read from the source
  buffer,     \* per channel, bp->data: its count is its length
  head,       \* per channel, bp->head: samples that may be handed out
  position,   \* self->position
  count,      \* frames the caller has of its current block
  released,   \* history: per channel, the samples handed out
  nread       \* result of the caller's latest finished pcm_read_frames()

vars == <<total, given, buffer, head, position, count, released, nread>>

-----------------------------------------------------------------------------
(***************************************************************************)
(* Samples.  bent is the peak of the curve that bent the sample, 0 for a   *)
(* sample that was left alone.                                             *)
(***************************************************************************)
Sample(v) == [v |-> v, bent |-> 0]

Magnitude(v) == IF v < 0 THEN -v ELSE v
Opposite(a, b) == (a < 0 /\ b > 0) \/ (a > 0 /\ b < 0)
SameSide(a, b) == (a < 0 /\ b < 0) \/ (a > 0 /\ b > 0)
Lesser(a, b) == IF a < b THEN a ELSE b

\* pcm_clip(x, -3.0, 3.0).
Clip(v) == IF v > 3 * One THEN 3 * One ELSE IF v < -3 * One THEN -3 * One ELSE v

Bounded_ByOneCurve(s) ==
  LET m == Magnitude(s.v)
      p == s.bent
  IN  IF p = 0 THEN m <= One ELSE m * p * p - (p - One) * m * m <= One * p * p

\* The sample that is handed out is at most 1: unbent, or on the quadratic
\* curve of a peak below 2, or on the cubic one of a higher peak, the fraction
\* of either multiplied out.
Bounded(s) ==
  LET m == Magnitude(s.v)
      p == s.bent
  IN  IF p = 0 THEN m <= One
      ELSE IF p < 2 * One
        THEN m * p * p - (p - One) * m * m <= One * p * p
        ELSE m * p * p * p + (3 * One - 2 * p) * m * m * p
               + (p - 2 * One) * m * m * m <= One * p * p * p

-----------------------------------------------------------------------------
(***************************************************************************)
(* One pass over a channel.  x is its buffer, numbered from 1; h samples   *)
(* of it have been passed before.                                          *)
(***************************************************************************)
HeldFrom_Nothing(x, res) == Len(x)

HeldFrom_EvenAtEnd(x, res) ==
  IF x = <<>> THEN Len(x)
  ELSE Max({k \in 0 .. Len(x) :
              IF k = 0 THEN TRUE ELSE ~SameSide(x[k].v, x[Len(x)].v)})

\* limit: the samples before the last run of one sign.  At the end of the
\* source, and when the last sample is 0, nothing is held back.
HeldFrom(x, res) ==
  IF x = <<>> \/ res = 0 THEN Len(x)
  ELSE Max({k \in 0 .. Len(x) :
              IF k = 0 THEN TRUE ELSE ~SameSide(x[k].v, x[Len(x)].v)})

\* The half-wave of the i-th sample within (h, limit]: no sample of the other
\* sign lies between.
Wave(x, h, limit, i) ==
  {j \in (h + 1) .. limit :
     \A k \in Lesser(i, j) .. (i + j - Lesser(i, j)) : ~Opposite(x[k].v, x[i].v)}

\* The search for the start of a half-wave steps back while it is after head
\* and then one forward again: the first sample of the pass is left out.
LeftOut(h, i) == i = h + 1

\* The pass: every half-wave that exceeds 1 is bent by its peak.
Limited(x, h, limit) ==
  [i \in 1 .. Len(x) |->
     IF i \in (h + 1) .. limit /\ x[i].v # 0 /\ ~LeftOut(h, i)
       THEN LET peak == Max({Magnitude(x[j].v) : j \in Wave(x, h, limit, i)})
            IN  IF peak > One THEN [x[i] EXCEPT !.bent = peak] ELSE x[i]
       ELSE x[i]]

-----------------------------------------------------------------------------
(***************************************************************************)
(* read_frames().  The caller, pcm_read_frames(), asks for what is left of *)
(* its block; the loop of read_frames() goes round while it has nothing to *)
(* hand out yet but holds something back.                                  *)
(***************************************************************************)
Room == Block - count

First == CHOOSE c \in Channels : TRUE

\* The frames that every channel lets go.
LetGo(h) == Min({h[c] : c \in Channels})

Kept_WithoutRoom(x, res) == SubSeq(x, Room + 1, Len(x))

\* The memmove() after res frames were handed out.
Kept(x, res) == SubSeq(x, res + 1, Len(x))

RoundAgain_Never(res, x) == FALSE

RoundAgain(res, x) == res = 0 /\ x[First] # <<>>

\* One round of the loop: n frames from the source, a pass over each channel,
\* and what can be handed out.
Round ==
  /\ nread > 0
  /\ \E frames \in [1 .. Lesser(Room, total - Len(given[First])) -> Frames] :
       LET n == Len(frames)
           x == [c \in Channels |->
                   buffer[c] \o [k \in 1 .. n |-> Sample(Clip(frames[k][c]))]]
           h == [c \in Channels |-> HeldFrom(x[c], n)]
           y == [c \in Channels |-> Limited(x[c], head[c], h[c])]
           res == Lesser(Room, LetGo(h))
       IN  /\ given' = [c \in Channels |->
                          given[c] \o [k \in 1 .. n |-> Clip(frames[k][c])]]
           /\ buffer' = [c \in Channels |-> Kept(y[c], res)]
           /\ head' = [c \in Channels |-> h[c] - res]
           /\ position' = position + res
           /\ released' = [c \in Channels |-> released[c] \o SubSeq(y[c], 1, res)]
           /\ IF RoundAgain(res, x) THEN UNCHANGED <<count, nread>>
              ELSE IF res = 0 \/ count + res = Block
                THEN count' = 0 /\ nread' = count + res
                ELSE count' = count + res /\ UNCHANGED nread
  /\ UNCHANGED total

Finished == nread = 0 /\ UNCHANGED vars

Init ==
  /\ total \in 0 .. MaxFrames
  /\ given = [c \in Channels |-> <<>>]
  /\ buffer = [c \in Channels |-> <<>>]
  /\ head = [c \in Channels |-> 0]
  /\ position = 0
  /\ count = 0
  /\ released = [c \in Channels |-> <<>>]
  /\ nread = 1

Next == Round \/ Finished

Spec == Init /\ [][Next]_vars /\ WF_vars(Round)

-----------------------------------------------------------------------------
(***************************************************************************)
(* Properties.                                                             *)
(***************************************************************************)

\* No sample is lost, repeated or moved in any channel, whatever each channel
\* holds back, and the channels stay in step: what was handed out, followed
\* by what is held, is what the source gave, and the position counts it.
SamplesInOrder ==
  \A c \in Channels :
    /\ [k \in 1 .. Len(released[c] \o buffer[c]) |-> (released[c] \o buffer[c])[k].v]
         = given[c]
    /\ Len(released[c]) = position

\* A sample begins a half-wave: it is the first, or the one before it is not
\* on the same side.
BeginsWave(c, i) == i = 1 \/ ~SameSide(given[c][i - 1], given[c][i])

\* What is handed out stays within [-1, 1], by either curve and for every
\* mix of peaks, but for the first sample of a half-wave (read_frames,
\* limiter.c:97-134).
BoundedWithinWaves ==
  \A c \in Channels : \A i \in 1 .. Len(released[c]) :
    ~BeginsWave(c, i) => Bounded(released[c][i])

\* A half-wave is bent by one curve from its second sample on, although it
\* may come in with many reads: the signal is not torn where two blocks meet.
OneCurvePerWave ==
  \A c \in Channels : \A i \in 2 .. (Len(released[c]) - 1) :
    ~BeginsWave(c, i) /\ ~BeginsWave(c, i + 1) =>
      released[c][i].bent = released[c][i + 1].bent

Contract ==
  INSTANCE PcmReader WITH FrameLength <- Block, smart <- FALSE, failed <- FALSE,
                          length <- total, pulled <- position - count,
                          pos <- position - count

\* However little a channel lets go, the caller gets full blocks until the
\* source is used up, and never less on the way (the contract of the chain).
KeepsReaderContract == Contract!Spec

\* Everything held back is let go in the end, and the caller is told.
EventuallyExhausted == <>(nread = 0 /\ \A c \in Channels : buffer[c] = <<>>)
=============================================================================
