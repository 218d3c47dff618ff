---------------------------- MODULE ChannelLayout ----------------------------
(***************************************************************************)
(* The order of channels: from the chan chunk of a CAF file, through the   *)
(* order in which caf_read_frames() hands them on, to the channel mode of  *)
(* the encoder (pcm_readhelper.c 181-448, aacenc.c 137-168).  A channel    *)
(* mask is the set of the labels whose bits it has.                        *)
(***************************************************************************)
EXTENDS Integers, Sequences, FiniteSets, SequencesExt

\* Labels (catypes.h): left and right surround, their direct, rear and mono kin.
Center == 3
Surrounds == {5, 6}
Sides == {10, 11}
Rears == {33, 34}
Mono == 42
TopBackLeft == 16     \* the last label that has a bit in a mask

\* The tags for n channels, and the labels of their channels.
TagTable(n) ==
  CASE n = 1 ->
        [Mono |-> <<3>>]
    [] n = 2 ->
        [AC3_1_0_1 |-> <<3, 4>>, Stereo |-> <<1, 2>>, MatrixStereo |-> <<1, 2>>,
         Binaural |-> <<1, 2>>]
    [] n = 3 ->
        [DVD_4 |-> <<1, 2, 4>>, MPEG_3_0_A |-> <<1, 2, 3>>, AC3_3_0 |-> <<1, 3, 2>>,
         MPEG_3_0_B |-> <<3, 1, 2>>, ITU_2_1 |-> <<1, 2, 9>>]
    [] n = 4 ->
        [DVD_10 |-> <<1, 2, 3, 4>>, AC3_3_0_1 |-> <<1, 3, 2, 4>>, DVD_5 |-> <<1, 2, 4, 9>>,
         AC3_2_1_1 |-> <<1, 2, 9, 4>>, Quadraphonic |-> <<1, 2, 10, 11>>,
         ITU_2_2 |-> <<1, 2, 10, 11>>, MPEG_4_0_A |-> <<1, 2, 3, 9>>, MPEG_4_0_B |-> <<3, 1, 2, 9>>,
         AC3_3_1 |-> <<1, 3, 2, 9>>, WAVE_4_0_B |-> <<1, 2, 5, 6>>, Logic_4_0_C |-> <<1, 2, 9, 3>>]
    [] n = 5 ->
        [DVD_6 |-> <<1, 2, 4, 10, 11>>, DVD_18 |-> <<1, 2, 10, 11, 4>>, DVD_11 |-> <<1, 2, 3, 4, 9>>,
         AC3_3_1_1 |-> <<1, 3, 2, 9, 4>>, DTS_4_1 |-> <<3, 1, 2, 9, 4>>,
         MPEG_5_0_A |-> <<1, 2, 3, 10, 11>>, Pentagonal |-> <<1, 2, 10, 11, 3>>,
         MPEG_5_0_B |-> <<1, 2, 10, 11, 3>>, MPEG_5_0_C |-> <<1, 3, 2, 10, 11>>,
         MPEG_5_0_D |-> <<3, 1, 2, 10, 11>>, WAVE_5_0_B |-> <<1, 2, 3, 5, 6>>]
    [] n = 6 ->
        [MPEG_5_1_A |-> <<1, 2, 3, 4, 10, 11>>, MPEG_5_1_B |-> <<1, 2, 10, 11, 3, 4>>,
         MPEG_5_1_C |-> <<1, 3, 2, 10, 11, 4>>, MPEG_5_1_D |-> <<3, 1, 2, 10, 11, 4>>,
         WAVE_5_1_B |-> <<1, 2, 3, 4, 5, 6>>, Hexagonal |-> <<1, 2, 10, 11, 3, 9>>,
         AudioUnit_6_0 |-> <<1, 2, 10, 11, 3, 9>>, AAC_6_0 |-> <<3, 1, 2, 10, 11, 9>>,
         EAC_6_0_A |-> <<1, 3, 2, 10, 11, 9>>, DTS_6_0_A |-> <<7, 8, 1, 2, 10, 11>>,
         DTS_6_0_B |-> <<3, 1, 2, 5, 6, 12>>, DTS_6_0_C |-> <<3, 9, 1, 2, 5, 6>>,
         Logic_6_0_B |-> <<1, 2, 10, 11, 9, 3>>]
    [] n = 7 ->
        [MPEG_6_1_A |-> <<1, 2, 3, 4, 10, 11, 9>>, AAC_6_1 |-> <<3, 1, 2, 10, 11, 9, 4>>,
         EAC3_6_1_A |-> <<1, 3, 2, 10, 11, 4, 9>>, EAC3_6_1_B |-> <<1, 3, 2, 10, 11, 4, 12>>,
         EAC3_6_1_C |-> <<1, 3, 2, 10, 11, 4, 14>>, DTS_6_1_A |-> <<7, 8, 1, 2, 10, 11, 4>>,
         DTS_6_1_B |-> <<3, 1, 2, 5, 6, 12, 4>>, DTS_6_1_C |-> <<3, 9, 1, 2, 5, 6, 4>>,
         DTS_6_1_D |-> <<3, 1, 2, 10, 11, 4, 9>>, WAVE_6_1 |-> <<1, 2, 3, 4, 9, 10, 11>>,
         Logic_6_1_B |-> <<1, 2, 10, 11, 9, 3, 4>>, Logic_6_1_D |-> <<1, 3, 2, 10, 9, 11, 4>>,
         AudioUnit_7_0 |-> <<1, 2, 10, 11, 3, 5, 6>>,
         AudioUnit_7_0_Front |-> <<1, 2, 10, 11, 3, 7, 8>>, AAC_7_0 |-> <<3, 1, 2, 10, 11, 5, 6>>,
         EAC_7_0_A |-> <<1, 3, 2, 10, 11, 5, 6>>, DTS_7_0 |-> <<7, 3, 8, 1, 2, 10, 11>>]
    [] n = 8 ->
        [MPEG_7_1_A |-> <<1, 2, 3, 4, 10, 11, 7, 8>>, MPEG_7_1_B |-> <<3, 7, 8, 1, 2, 5, 6, 4>>,
         MPEG_7_1_C |-> <<1, 2, 3, 4, 10, 11, 5, 6>>,
         Emagic_Default_7_1 |-> <<1, 2, 10, 11, 3, 4, 7, 8>>,
         AAC_7_1_B |-> <<3, 1, 2, 10, 11, 5, 6, 4>>, AAC_7_1_C |-> <<3, 1, 2, 10, 11, 4, 13, 15>>,
         EAC3_7_1_A |-> <<1, 3, 2, 10, 11, 4, 5, 6>>, EAC3_7_1_B |-> <<1, 3, 2, 10, 11, 4, 7, 8>>,
         EAC3_7_1_E |-> <<1, 3, 2, 10, 11, 4, 13, 15>>, EAC3_7_1_F |-> <<1, 3, 2, 10, 11, 4, 9, 12>>,
         EAC3_7_1_G |-> <<1, 3, 2, 10, 11, 4, 9, 14>>, EAC3_7_1_H |-> <<1, 3, 2, 10, 11, 4, 12, 14>>,
         DTS_7_1 |-> <<7, 3, 8, 1, 2, 10, 11, 4>>, WAVE_7_1 |-> <<1, 2, 3, 4, 5, 6, 10, 11>>,
         Logic_7_1_B |-> <<1, 2, 10, 11, 5, 6, 3, 4>>, Octagonal |-> <<1, 2, 5, 6, 3, 9, 10, 11>>,
         AAC_Octagonal |-> <<3, 1, 2, 10, 11, 5, 6, 9>>, DTS_8_0_A |-> <<7, 8, 1, 2, 10, 11, 5, 6>>,
         DTS_8_0_B |-> <<7, 3, 8, 1, 2, 10, 9, 11>>]
    [] OTHER -> [none |-> <<>>]

-----------------------------------------------------------------------------
\* The elements of S in the order of their keys, no two of which are alike.
Sorted(S, key) ==
  [i \in 1 .. Cardinality(S) |-> CHOOSE x \in S : Cardinality({y \in S : key[y] < key[x]}) = i - 1]

\* apple_translate_channel_labels(): without side channels the surround ones
\* are those of the sides, and the rear ones those of the back.
Translated(labels) ==
  LET hasSide == \E i \in DOMAIN labels : labels[i] \in Sides
      Label(l) == CASE l \in Surrounds /\ ~hasSide -> l + 5
                    [] l \in Rears /\ ~hasSide -> l - 28
                    [] l = Mono -> Center
                    [] OTHER -> l
  IN  [i \in DOMAIN labels |-> Label(labels[i])]

\* What apple_chan_chunk() makes of the chunk: the labels of the channels in the
\* order of the file; <<>> if it refuses the chunk.  A bitmap is taken as it is.
Labels(chan, channels) ==
  CASE chan.kind = "bitmap" -> Sorted(chan.mask, [l \in chan.mask |-> l])
    [] chan.kind = "descriptions" ->
         LET labels == Translated(chan.labels)
         IN  IF \A i \in DOMAIN labels : chan.labels[i] \in 1 .. 255 /\ labels[i] <= TopBackLeft
               THEN labels ELSE <<>>
    [] chan.kind = "tag" ->
         IF chan.tag \in DOMAIN TagTable(channels) THEN TagTable(channels)[chan.tag] ELSE <<>>

\* The chunk is for as many channels as there are, and no two of them are alike.
AcceptsChan(chan, channels) ==
  LET labels == Labels(chan, channels)
  IN  Len(labels) = channels /\ Cardinality(ToSet(labels)) = channels

Mask(chan, channels) == ToSet(Labels(chan, channels))

Mapping_Ranks(labels) ==
  [i \in DOMAIN labels |-> Cardinality({j \in DOMAIN labels : labels[j] <= labels[i]})]

\* qsort() of pointers to the labels: the place in the file of each channel, in
\* the order of the labels.
Mapping(labels) == Sorted(DOMAIN labels, labels)

\* caf_read_frames(): a frame of the file, its channels put in order.
Reordered(frame, mapping) == [j \in DOMAIN mapping |-> frame[mapping[j]]]

-----------------------------------------------------------------------------
\* The mask a file without one is taken to have, by its number of channels.
DefaultMask(channels) ==
  CASE channels = 1 -> {3}
    [] channels = 2 -> {1, 2}
    [] channels = 3 -> {1, 2, 3}
    [] channels = 5 -> {1, 2, 3, 5, 6}
    [] channels = 6 -> 1 .. 6
    [] channels = 8 -> (1 .. 6) \cup {10, 11}
    [] OTHER -> {}

\* aacenc_channel_mode(): the modes of the encoder and the masks they are for,
\* by the version of the library (see Driver).
ModeTable(eight, seven) ==
  { <<"MODE_2", {1, 2}>>, <<"MODE_1", {3}>>, <<"MODE_1_2", {1, 2, 3}>>,
    <<"MODE_1_2_2", {1, 2, 3, 5, 6}>>, <<"MODE_1_2_2_1", 1 .. 6>>, <<"MODE_1_2_1", {1, 2, 3, 9}>>,
    <<"MODE_1_2_2", {1, 2, 3, 10, 11}>>, <<"MODE_1_2_2_1", {1, 2, 3, 4, 10, 11}>> }
  \cup (IF eight THEN { <<"MODE_1_2_2_2_1", 1 .. 8>>,
                        <<"MODE_7_1_REAR_SURROUND", (1 .. 6) \cup {10, 11}>> } ELSE {})
  \cup (IF seven THEN { <<"MODE_6_1", (1 .. 6) \cup {9}>>,
                        <<"MODE_7_1_TOP_FRONT", (1 .. 6) \cup {13, 15}>>,
                        <<"MODE_7_1_TOP_FRONT", {1, 2, 3, 4, 10, 11, 13, 15}>> } ELSE {})

ChannelModes(channels, mask, eight, seven) ==
  LET m == IF mask = {} THEN DefaultMask(channels) ELSE mask
  IN  IF channels > 8 THEN {}
      ELSE {row[1] : row \in {r \in ModeTable(eight, seven) : r[2] = m}}

\* Channels in each mode, as the library has them.
ModeChannels ==
  [MODE_1 |-> 1, MODE_2 |-> 2, MODE_1_2 |-> 3, MODE_1_2_1 |-> 4, MODE_1_2_2 |-> 5,
   MODE_1_2_2_1 |-> 6, MODE_6_1 |-> 7, MODE_1_2_2_2_1 |-> 8,
   MODE_7_1_REAR_SURROUND |-> 8, MODE_7_1_TOP_FRONT |-> 8]
=============================================================================
