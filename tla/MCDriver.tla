------------------------------ MODULE MCDriver ------------------------------
(***************************************************************************)
(* Cases for Driver, of three kinds, each the full product of what it is   *)
(* about: options and versions of the library, formats of samples, layouts *)
(* of channels.                                                            *)
(***************************************************************************)
EXTENDS Driver

NoChan == [kind |-> "none"]
Pcm16 == [tag |-> 1, guid |-> "none", bits |-> 16, valid |-> 16]
Lpcm(flags, bits, bytes) == [flags |-> flags, bits |-> bits, bytes |-> bytes]

Wav(name, header, channels, mask) ==
  [kind |-> "wav", name |-> name, header |-> header, rate |-> 44100,
   channels |-> channels, mask |-> mask, chan |-> NoChan]
Caf(header, channels, chan) ==
  [kind |-> "caf", name |-> <<"in", "caf">>, header |-> header, rate |-> 48000,
   channels |-> channels, mask |-> {}, chan |-> chan]

Cbr == <<"bitrate", 64>>
Vbr == <<"bitrate_mode", 3>>

-----------------------------------------------------------------------------
\* A stereo file that is or is not called like the output, an AIFF file, and the
\* options that decide on SBR, names and transport.
SbrOptions ==
  {Cbr, Vbr} \cup ({"profile"} \X {2, 5, 29, 39}) \cup ({"lowdelay_sbr"} \X {-1, 1, 2})
  \cup ({"sbr_ratio"} \X {-1, 1, 2, 3}) \cup ({"transport_format"} \X {2, 10})

OptionCases ==
  { [input |-> Wav(<<"in", "wav">>, Pcm16, 2, {}), options |-> SbrOptions, libs |-> 0 .. 3] }
  \cup [ input : { Wav(<<"in", e>>, Pcm16, 2, {}) : e \in {"wav", "m4a", "aac"} }
                 \cup { [Wav(<<"in", "aif">>, Pcm16, 2, {}) EXCEPT !.kind = "other"] },
         options : { {Cbr} \cup ({"output"} \X {"named", "stdout", "input"})
                     \cup ({"transport_format", "afterburner", "gapless_mode"} \X {2}) },
         libs : {{3}} ]

-----------------------------------------------------------------------------
\* All headers of WAV and CAF files and all raw formats, good and bad.
WavHeaders ==
  [tag : {1, 3}, guid : {"none"}, bits : {8, 12, 16, 24, 32, 64, 256}, valid : {0}]
  \cup [tag : {65534}, guid : {"pcm", "float", "other"}, bits : {8, 16, 24, 32},
        valid : {0, 8, 12, 20, 24, 32}]

CafHeaders == [flags : 0 .. 4, bits : {0, 8, 12, 16, 20, 24, 32, 64}, bytes : {1, 2, 3, 4, 8}]

RawFormats == [sign : {"S", "U", "F"}, big : BOOLEAN, bits : {4, 8, 12, 16, 24, 32, 40, 64}]

FormatCases ==
  [ input : { Wav(<<"in", "wav">>, h, 2, {}) : h \in WavHeaders }
            \cup { Caf(h, 2, NoChan) : h \in CafHeaders },
    options : {{Cbr}}, libs : {{3}} ]
  \cup [ input : { Wav(<<"in", "raw">>, Pcm16, 2, {}) },
         options : { {Cbr, <<"is_raw", 1>>, <<"raw_format", f>>, <<"raw_channels", n>>} :
                     f \in RawFormats, n \in {1, 9, 32, 256} },
         libs : {{3}} ]

-----------------------------------------------------------------------------
\* Every tag, for the number of channels it is for and for another; labels of one
\* to three channels in any order, and some of eight; bitmaps; masks of WAV files.
Tag(t) == [kind |-> "tag", tag |-> t]
Described(labels) == [kind |-> "descriptions", labels |-> labels]

TagChans == UNION { { <<n, Tag(t)>> : t \in DOMAIN TagTable(n) } : n \in 1 .. 8 }
            \cup { <<2, Tag("Mono")>>, <<6, Tag("MPEG_5_0_A")>> }

SomeLabels ==
  UNION { [1 .. n -> {0, 1, 2, 3, 5, 6, 10, 33, 42}] : n \in 1 .. 3 }
  \cup { <<1, 2, 3, 4, 5, 6, 33, 34>>, <<3, 34, 33, 1, 2, 6, 5, 4>>, <<1, 2, 3, 4, 5, 6, 10, 11>>,
         <<2, 1, 11, 10, 33, 34>>, <<6, 5, 2, 1, 3>>, <<34, 33, 2, 1, 3>> }

Masks == { {3}, {1, 2}, {1, 2, 3}, {1, 3}, {1, 2, 3, 9}, {1, 2, 10, 11, 3} }

LayoutCases ==
  [ input : { Caf(Lpcm(2, 16, 2), c[1], c[2]) : c \in TagChans },
    options : {{Vbr}}, libs : {0 .. 3} ]
  \cup [ input : { Caf(Lpcm(2, 16, 2), Len(l), Described(l)) : l \in SomeLabels }
                 \cup { Caf(Lpcm(2, 16, 2), n, [kind |-> "bitmap", mask |-> m]) :
                        n \in 1 .. 5, m \in Masks }
                 \cup { Wav(<<"in", "wav">>, Pcm16, n, m) : n \in 1 .. 9, m \in Masks \cup {{}} },
         options : {{Vbr}}, libs : {{3}} ]

AllCases == OptionCases \cup FormatCases \cup LayoutCases
=============================================================================
