----------------------------- MODULE BoxWriters -----------------------------
(***************************************************************************)
(* The moov box of m4af.c: what the track remembers of its samples, and    *)
(* the writers that put it into boxes.  Most boxes are written with a size *)
(* of zero that is filled in afterwards; others, and the descriptors of    *)
(* esds, are written with a size that somebody counted.  Durations appear  *)
(* in four places, in fields whose width follows from a version that is    *)
(* decided box by box, and with or without the encoder's delay, as the     *)
(* gapless mode has it.                                                    *)
(*                                                                         *)
(* A box is a sequence of fields; a field is its width in bytes and its    *)
(* value.  Literal bytes are one field of value 0.  UINT32_MAX is the      *)
(* constant Limit, so that durations of a few samples pass it.  Where the  *)
(* samples lie in the file is the business of M4afMux.                     *)
(***************************************************************************)
EXTENDS Track

CONSTANTS
  Primings,       \* delays and paddings, pairs in frames of the source
  Settings,       \* what main() sets, see setting below
  Tags,           \* items for ilst: sequences of [name, size], name 0 for a short tag
  RateLimit       \* 2^16: the sample rate of mp4a is a 16.16 number

ASSUME RateAssumption == RateLimit \in Nat \ {0}

VARIABLES
  stage,          \* the stage of the file: samples, tags, finished
  setting,        \* scale_shift, priming_mode (1..3), the timestamp, the size of
                  \* decSpecificInfo, is_vbr, and whether co64 is called for
  samples,        \* sample_table: the sizes, each of FrameDuration
  chunks,         \* chunk_table: samples_per_chunk and duration
  duration,       \* track->duration
  bufferSizeDB,   \* the largest sample
  maxBitrate,
  avgBitrate,
  source,         \* frames of the source in the file
  encoder_delay,
  padding,
  itmf            \* itmf_table

moovVars == <<stage, setting, samples, chunks, duration, bufferSizeDB, maxBitrate,
              avgBitrate, source, encoder_delay, padding, itmf>>

-----------------------------------------------------------------------------
(***************************************************************************)
(* Fields and boxes.                                                       *)
(***************************************************************************)
\* A run of fields, with the number of bytes that writing it moves the file
\* position by (m4af_tell).
F(w, v) == [bytes |-> w, fields |-> <<[w |-> w, v |-> v]>>]
Nothing == [bytes |-> 0, fields |-> <<>>]
a ++ b == [bytes |-> a.bytes + b.bytes, fields |-> a.fields \o b.fields]

\* The runs of fields item(1) .. item(n), one after the other.
Each(n, item(_)) ==
  LET upto[k \in 0 .. n] == IF k = 0 THEN Nothing ELSE upto[k - 1] ++ item(k)
  IN  upto[n]

\* m4af_write16/24/32() keep the lower bits of a value; the 16- and 24-bit
\* fields only hold numbers far below their limits.
F32(v) == F(4, v % (Limit + 1))
F64(v) == F(8, v)
Literal(n) == F(n, 0)

\* m4af_update_box_size() writes how far the position has moved.
Box(type, content) == F32(content.bytes + 8) ++ F(4, type) ++ content

\* A box that is written as literal bytes, size included.
SizedBox(size, type, content) == F32(size) ++ F(4, type) ++ content

Descriptor(tag, size) == F(1, tag) ++ F(4, size)

When(condition, content) == IF condition THEN content ELSE Nothing

\* The version byte, flags, and two time stamps in the width of the version.
Long(stamp, length) == stamp > Limit \/ length > Limit
FW(long, v) == IF long THEN F64(v) ELSE F32(v)
Versioned(long) == F(1, IF long THEN 1 ELSE 0) ++ Literal(3)
Stamps(long) == FW(long, setting.stamp) ++ FW(long, setting.stamp)

ITUNSMPB(mode) == mode % 2 = 1
EDTS(mode) == mode \div 2 = 1

Primed == encoder_delay # 0 \/ padding # 0
Trimmed == duration - encoder_delay - padding

\* m4af_movie_duration(), and what tkhd takes for the duration: without delay
\* and padding if an edit list cuts them off.
PlayedDuration == IF EDTS(setting.mode) THEN Trimmed ELSE duration

-----------------------------------------------------------------------------
(***************************************************************************)
(* The sample tables.                                                      *)
(***************************************************************************)
stco == LET w == IF setting.wide THEN 8 ELSE 4
        IN  Box(IF setting.wide THEN "co64" ELSE "stco",
                Literal(4) ++ F32(Len(chunks)) ++
                Each(Len(chunks), LAMBDA k : Literal(w)))

stsz == Box("stsz", Literal(8) ++ F32(Len(samples)) ++
                    Each(Len(samples), LAMBDA k : F32(samples[k])))

\* A chunk that has as many samples as the one before it has no entry.
stsc ==
  LET Begins(k) == k = 1 \/ chunks[k].samples # chunks[k - 1].samples
      Entry(k) == F32(k) ++ F32(chunks[k].samples) ++ F32(1)
      entries == SelectSeq([k \in 1 .. Len(chunks) |-> k], Begins)
  IN  Box("stsc", Literal(4) ++ F32(Len(entries)) ++
                  Each(Len(entries), LAMBDA k : Entry(entries[k])))

\* All samples last equally long: one entry, if there is a sample.
stts ==
  LET n == Len(samples)
  IN  Box("stts", Literal(4) ++ F32(IF n > 0 THEN 1 ELSE 0) ++
                  When(n > 0, F32(n) ++ F32(FrameDuration)))

-----------------------------------------------------------------------------
(***************************************************************************)
(* The other boxes of the track.                                           *)
(***************************************************************************)
esds_CountsNoHeaders ==
  Box("esds",
      Literal(4) ++
      Descriptor(3, 22 + setting.asc) ++ Literal(3) ++
      Descriptor(4, 13 + setting.asc) ++ Literal(2) ++ F(3, bufferSizeDB) ++
      F32(maxBitrate) ++ F32(IF setting.is_vbr THEN 0 ELSE avgBitrate) ++
      Descriptor(5, setting.asc) ++ Literal(setting.asc) ++
      Descriptor(6, 1) ++ Literal(1))

esds ==
  Box("esds",
      Literal(4) ++
      Descriptor(3, 32 + setting.asc) ++ Literal(3) ++
      Descriptor(4, 18 + setting.asc) ++ Literal(2) ++ F(3, bufferSizeDB) ++
      F32(maxBitrate) ++ F32(IF setting.is_vbr THEN 0 ELSE avgBitrate) ++
      Descriptor(5, setting.asc) ++ Literal(setting.asc) ++
      Descriptor(6, 1) ++ Literal(1))

\* The rate is shifted up by 16 bits, which cuts off what is over 65535.
mp4a == Box("mp4a", Literal(16) ++ F(2, 2) ++ Literal(6) ++
                    F(2, Timescale % RateLimit) ++ Literal(2) ++ esds)

stsd == Box("stsd", Literal(4) ++ F32(1) ++ mp4a)

sbgp == SizedBox(28, "sbgp", Literal(8) ++ F32(1) ++ F32(Len(samples)) ++ F32(1))
sgpd == SizedBox(22, "sgpd", Literal(8) ++ F32(1) ++ F(2, -1))

stbl == Box("stbl",
            stsd ++ When(EDTS(setting.mode) /\ Primed, sbgp ++ sgpd)
                 ++ stts ++ stsc ++ stsz ++ stco)

url == SizedBox(12, "url ", Literal(4))
dref == Box("dref", Literal(4) ++ F32(1) ++ url)
dinf == Box("dinf", dref)
smhd == SizedBox(16, "smhd", Literal(8))
minf == Box("minf", smhd ++ dinf ++ stbl)

mdhd == LET long == Long(setting.stamp, duration)
        IN  Box("mdhd", Versioned(long) ++ Stamps(long) ++ F32(Timescale)
                        ++ FW(long, duration) ++ Literal(4))

hdlr(type) == Box("hdlr", Literal(8) ++ F(4, type) ++ Literal(4) ++ Literal(9))

mdia == Box("mdia", mdhd ++ hdlr("soun") ++ minf)

elst == LET long == Trimmed > Limit
        IN  Box("elst", Versioned(long) ++ F32(1) ++ FW(long, Trimmed)
                        ++ FW(long, encoder_delay) ++ F(2, 1) ++ F(2, 0))

edts == Box("edts", elst)

tkhd_StampOnly ==
  LET long == setting.stamp > Limit
  IN  Box("tkhd", Versioned(long) ++ Stamps(long) ++ F32(1) ++ Literal(4)
                  ++ FW(long, PlayedDuration) ++ Literal(60))

tkhd == LET long == Long(setting.stamp, PlayedDuration)
        IN  Box("tkhd", Versioned(long) ++ Stamps(long) ++ F32(1) ++ Literal(4)
                        ++ FW(long, PlayedDuration) ++ Literal(60))

trak == Box("trak", tkhd ++ When(EDTS(setting.mode) /\ Primed, edts) ++ mdia)

mvhd == LET long == Long(setting.stamp, PlayedDuration)
        IN  Box("mvhd", Versioned(long) ++ Stamps(long) ++ F32(Timescale)
                        ++ FW(long, PlayedDuration) ++ Literal(76) ++ F32(2))

-----------------------------------------------------------------------------
(***************************************************************************)
(* The tags.                                                               *)
(***************************************************************************)
mean == SizedBox(28, "mean", Literal(4) ++ Literal(16))
name(n) == Box("name", Literal(4) ++ Literal(n))
data(entry) == Box("data", Literal(3) ++ F(1, 1) ++ Literal(4) ++ F(entry.size, entry.value))

IsNamed(entry) == entry.name > 0

metadata(entry) ==
  Box(IF IsNamed(entry) THEN "----" ELSE "item",
      When(IsNamed(entry), mean ++ name(entry.name)) ++ data(entry))

ilst == Box("ilst", Each(Len(itmf), LAMBDA k : metadata(itmf[k])))
meta == Box("meta", Literal(4) ++ hdlr("mdir") ++ ilst)
udta == Box("udta", meta)

\* iTunSMPB is the text of three numbers among zeros, 116 characters long.
iTunSMPB == [name |-> 8, size |-> 116,
             value |-> [delay |-> encoder_delay, padding |-> padding, length |-> Trimmed]]

moovBox == Box("moov", mvhd ++ trak ++ When(itmf # <<>>, udta))

-----------------------------------------------------------------------------
(***************************************************************************)
(* The steps.                                                              *)
(***************************************************************************)
Sum(s) == Sums(s)[Len(s)]

\* (uint32_t)(8.0 * size * timescale / duration + .5)
Rate(size, length) == (16 * size * Timescale + length) \div (2 * length)

\* m4af_update_max_bitrate(): the latest samples that last for a second, or
\* all of them if they do not.
LatestSecond(sizes) ==
  LET needed == (Timescale + FrameDuration - 1) \div FrameDuration
  IN  IF Len(sizes) <= needed THEN sizes
      ELSE SubSeq(sizes, Len(sizes) - needed + 1, Len(sizes))

LatestRate_PerSecond(sizes) == 8 * Sum(LatestSecond(sizes))

LatestRate(sizes) ==
  Rate(Sum(LatestSecond(sizes)), FrameDuration * Len(LatestSecond(sizes)))

\* m4af_update_chunk_table(): chunks of half a second.
ChunksWithSample ==
  LET last == chunks[Len(chunks)]
  IN  IF chunks = <<>> \/ last.duration + FrameDuration > Timescale \div 2
        THEN Append(chunks, [samples |-> 1, duration |-> FrameDuration])
        ELSE [chunks EXCEPT ![Len(chunks)] =
                [samples |-> last.samples + 1, duration |-> last.duration + FrameDuration]]

MoovInit ==
  /\ stage = "samples"
  /\ setting \in Settings
  /\ samples = <<>>
  /\ chunks = <<>>
  /\ duration = 0
  /\ bufferSizeDB = 0
  /\ maxBitrate = 0
  /\ avgBitrate = 0
  /\ source = 0
  /\ encoder_delay = 0
  /\ padding = 0
  /\ itmf = <<>>

\* m4af_write_sample().
NoteSample ==
  /\ stage = "samples"
  /\ Len(samples) < MaxSamples
  /\ \E size \in SampleSizes :
       /\ samples' = Append(samples, size)
       /\ bufferSizeDB' = IF size > bufferSizeDB THEN size ELSE bufferSizeDB
       /\ LET rate == LatestRate(samples')
          IN  maxBitrate' = IF rate > maxBitrate THEN rate ELSE maxBitrate
  /\ chunks' = ChunksWithSample
  /\ duration' = duration + FrameDuration
  /\ UNCHANGED <<stage, setting, avgBitrate, source, encoder_delay, padding, itmf>>

\* delay >> scale_shift, padding >> scale_shift
Scaled(n) == n \div 2 ^ setting.shift

\* main(): the frames in the file are delay, source and padding; dual-rate SBR
\* counts them at half the rate.
SetPriming ==
  /\ stage = "samples"
  /\ samples # <<>>
  /\ \E p \in Primings :
       /\ source' = duration * 2 ^ setting.shift - p[1] - p[2]
       /\ source' >= 0
       /\ encoder_delay' = Scaled(p[1])
       /\ padding' = Scaled(p[2])
  /\ stage' = "tags"
  /\ UNCHANGED <<setting, samples, chunks, duration, bufferSizeDB, maxBitrate,
                 avgBitrate, itmf>>

\* The tags finalize_m4a() writes, whichever they are (see TagStore).
AddTags ==
  /\ stage = "tags"
  /\ itmf' \in Tags
  /\ stage' = "finalize"
  /\ UNCHANGED <<setting, samples, chunks, duration, bufferSizeDB, maxBitrate,
                 avgBitrate, source, encoder_delay, padding>>

\* m4af_finalize(): the average rate, then the gapless tag, then the boxes.
\* The width of the chunk offsets depends on the file (see M4afMux).
Finalize ==
  /\ stage = "finalize"
  /\ avgBitrate' = Rate(Sum(samples), duration)
  /\ itmf' = IF ITUNSMPB(setting.mode) /\ Primed THEN Append(itmf, iTunSMPB) ELSE itmf
  /\ \E wide \in BOOLEAN : setting' = [setting EXCEPT !.wide = wide]
  /\ stage' = "finished"
  /\ UNCHANGED <<samples, chunks, duration, bufferSizeDB, maxBitrate, source,
                 encoder_delay, padding>>

Finished == stage = "finished" /\ UNCHANGED moovVars

MoovNext == NoteSample \/ SetPriming \/ AddTags \/ Finalize \/ Finished

MoovSpec == MoovInit /\ [][MoovNext]_moovVars

-----------------------------------------------------------------------------
(***************************************************************************)
(* A reader, which knows of boxes what ISO/IEC 14496-12 says of them: it   *)
(* finds its way by the sizes it reads, and each kind of box has the size  *)
(* that its version and its counts call for.                               *)
(***************************************************************************)
\* Bytes of a container before its first box.
BeforeBoxes ==
  [type \in {"moov", "trak", "mdia", "minf", "dinf", "stbl", "edts", "udta",
             "ilst", "item", "----"} |-> 8]
  @@ ("dref" :> 16) @@ ("stsd" :> 16) @@ ("mp4a" :> 36) @@ ("meta" :> 12)

\* The fields by the offset of their first byte, and the boxes.
Parsed(fields) ==
  LET bytes == FlattenSeq([k \in 1 .. Len(fields) |->
                 [j \in 1 .. fields[k].w |-> IF j = 1 THEN fields[k] ELSE [w |-> 0, v |-> 0]]])
      at == [o \in 0 .. (Len(bytes) - 1) |-> bytes[o + 1]]
      Broken(a, b) ==
        \/ a + 8 > b
        \/ at[a].w # 4
        \/ at[a].v < 8
        \/ a + at[a].v > b
      boxes[a \in Nat, b \in Nat] ==
        IF a = b THEN {}
        ELSE IF Broken(a, b) THEN {[type |-> "broken", from |-> a, size |-> 0]}
        ELSE LET type == at[a + 4].v
                 next == a + at[a].v
             IN  {[type |-> type, from |-> a, size |-> at[a].v]}
                 \cup (IF type \in DOMAIN BeforeBoxes
                         THEN boxes[a + BeforeBoxes[type], next] ELSE {})
                 \cup boxes[next, b]
  IN  [at |-> at, boxes |-> boxes[0, Len(bytes)]]

\* The size of a box b that holds no other, from its version and its counts;
\* value(o) is the field at offset o of the box.
LeafSize(b, value(_)) ==
  LET wide == value(8) = 1
  IN  CASE b.type = "mvhd" -> IF wide THEN 120 ELSE 108
        [] b.type = "tkhd" -> IF wide THEN 104 ELSE 92
        [] b.type = "mdhd" -> IF wide THEN 44 ELSE 32
        [] b.type = "elst" -> 16 + value(12) * (IF wide THEN 20 ELSE 12)
        [] b.type = "hdlr" -> 33
        [] b.type = "smhd" -> 16
        [] b.type = "url " -> 12
        [] b.type = "stts" -> 16 + 8 * value(12)
        [] b.type = "stsc" -> 16 + 12 * value(12)
        [] b.type = "stsz" -> 20 + 4 * value(16)
        [] b.type = "stco" -> 16 + 4 * value(12)
        [] b.type = "co64" -> 16 + 8 * value(12)
        [] b.type = "sbgp" -> 20 + 8 * value(16)
        [] b.type = "sgpd" -> 20 + 2 * value(16)
        [] b.type = "mean" -> 28
        [] b.type = "esds" -> 17 + value(13)
        [] OTHER -> b.size

\* Inside esds each descriptor fills the one around it: the decoder's
\* configuration and the SL descriptor that of the stream, its specific
\* information that of the decoder.
DescriptorsFit(value(_)) ==
  LET es == value(13)
      dec == value(21)
      spec == value(39)
  IN  /\ value(12) = 3 /\ value(20) = 4 /\ value(38) = 5
      /\ dec = 13 + 5 + spec
      /\ value(43 + spec) = 6
      /\ es = 3 + (5 + dec) + (5 + value(44 + spec))

-----------------------------------------------------------------------------
(***************************************************************************)
(* Properties.                                                             *)
(***************************************************************************)
\* A reader that goes from box to box by their sizes finds all of them: the
\* boxes in a box fill it to the last byte, none reaches out of the one it is
\* in, and the ones with a fixed or counted size, the versions, the entry
\* counts and the descriptor lengths agree with what was written.
WellNested ==
  stage = "finished" =>
    LET m == Parsed(moovBox.fields)
    IN  \A b \in m.boxes :
          LET Value(o) == m.at[b.from + o].v
          IN  /\ b.type # "broken"
              /\ b.type \notin DOMAIN BeforeBoxes => LeafSize(b, Value) = b.size
              /\ b.type = "esds" => DescriptorsFit(Value)

\* Every duration in the file, read back in the width its box declares, is
\* the one a player needs: the sample tables and mdhd say how long all of it
\* is, the edit list, iTunSMPB and, with an edit list, tkhd and mvhd how long
\* it is without delay and padding, and that is the source, but for the
\* frames that halving the delay and the padding rounds off.
DurationsAgree ==
  stage = "finished" =>
    LET m == Parsed(moovBox.fields)
        Of(type) == {b \in m.boxes : b.type = type}
        Read(b, o) == m.at[b.from + o].v
        Header(b) == IF Read(b, 8) = 1 THEN 32 ELSE 24   \* mvhd, mdhd
        whole == {Read(b, Header(b)) : b \in Of("mdhd")}
        played == {Read(b, Header(b)) : b \in Of("mvhd")}
                    \cup {Read(b, Header(b) + 4) : b \in Of("tkhd")}
        edits == {<<Read(b, 16), Read(b, IF Read(b, 8) = 1 THEN 24 ELSE 20)>> : b \in Of("elst")}
        texts == {Read(b, 16) : b \in {d \in Of("data") : d.size = 16 + iTunSMPB.size}}
        length == duration - encoder_delay - padding
    IN  /\ whole = {Len(samples) * FrameDuration}
        /\ \A b \in Of("stts") : Read(b, 16) * Read(b, 20) = Len(samples) * FrameDuration
        /\ played = {IF EDTS(setting.mode) THEN length ELSE duration}
        /\ edits = IF EDTS(setting.mode) /\ Primed THEN {<<length, encoder_delay>>} ELSE {}
        /\ texts = IF ITUNSMPB(setting.mode) /\ Primed
                     THEN {[delay |-> encoder_delay, padding |-> padding, length |-> length]}
                     ELSE {}
        /\ length * 2 ^ setting.shift - source \in 0 .. 2 * setting.shift

\* The average rate esds declares is no more than the maximum it declares,
\* although one is taken over the whole track and the other, sample by
\* sample, over what came in the second before it.
AverageBelowMax == avgBitrate <= maxBitrate
=============================================================================
