------------------------------- MODULE Driver -------------------------------
(***************************************************************************)
(* The program around the encode loop (main.c 233-495, 646-896): the       *)
(* options, the chain of readers, the encoder (aacenc.c), the output file, *)
(* and what is released in the end.  Any call may fail.                    *)
(*                                                                         *)
(* The encode loop, the readers and the muxer have modules of their own;   *)
(* here they succeed or fail as a whole.                                   *)
(***************************************************************************)
EXTENDS ChannelLayout, SampleFormat

CONSTANT
  Cases     \* [input, options, libs]: an input, the options it may be given,
            \* and the versions of the library

ASSUME CasesAssumption ==
  \A c \in Cases :
    /\ c.libs \subseteq 0 .. 3
    /\ c.input.rate \in Nat /\ c.input.channels \in Nat
    /\ c.input.chan.kind \in {"none", "bitmap", "descriptions", "tag"}
    /\ c.input.chan.kind = "bitmap" =>
         IsFiniteSet(c.input.chan.mask) /\ c.input.chan.mask \subseteq Nat
    /\ c.input.kind = "wav" => c.input.header.bits \in Nat
    /\ c.input.chan.kind = "descriptions" => c.input.chan.labels \in Seq(Nat)
    /\ \A o \in c.options : o[1] = "sbr_ratio" => o[2] \in Int

VARIABLES
  input,    \* [kind, name, header, rate, channels, mask, chan]
  options,  \* the options that may come, <<name, value>>
  lib,      \* libfdk-aac: 0 before 3.4, 1 is 3.4.9, 2 is 3.4 after that, 3 is 4
  pc,
  params,   \* aacenc_param_ex_t
  layers,   \* the readers, the innermost first
  reader,   \* main()'s pointer to the outermost one is not null
  held,     \* what main() has a pointer or a stream to, but for the readers
  closed,   \* what has been released, in that order
  refused,  \* what was refused: "nothing", "arguments", "input", "encoder"
  output,   \* the file of that name: "old", "partial", "buffered" (the rest of it is
            \* with the stream), "complete"
  spoiled,  \* fopen() has emptied the input file
  declared, \* what the M4A file says of its rate and of SBR
  delivered, \* the channels of the file, in the order the encoder gets them in
  result    \* exit status

configVars == <<input, options, lib>>
vars == <<input, options, lib, pc, params, layers, reader, held, closed, refused, output,
          spoiled, declared, delivered, result>>

NoDeclaration == [scale |-> 0, core |-> 0, extensions |-> <<>>]

Defaults ==
  [profile |-> 0, bitrate |-> 0, bitrate_mode |-> 0, afterburner |-> 1, lowdelay_sbr |-> 0,
   sbr_ratio |-> 0, transport_format |-> 0, gapless_mode |-> 0, is_raw |-> 0,
   raw_channels |-> 0, raw_format |-> DefaultRaw, output |-> "none"]

Init ==
  /\ \E c \in Cases :
       input = c.input /\ options = c.options /\ lib \in c.libs
  /\ pc = "options" /\ params = Defaults
  /\ layers = <<>> /\ reader = FALSE /\ held = {} /\ closed = <<>>
  /\ refused = "nothing" /\ output = "old" /\ spoiled = FALSE
  /\ declared = NoDeclaration /\ delivered = <<>> /\ result = 2

-----------------------------------------------------------------------------
(***************************************************************************)
(* parse_options().                                                        *)
(***************************************************************************)

\* The ranges that are looked at; a value below 0 is not above any of them.
InRange(name, n) ==
  CASE name = "bitrate_mode" -> n <= 5
    [] name \in {"sbr_ratio", "gapless_mode"} -> n <= 2
    [] name = "afterburner" -> n <= 1
    [] name = "lowdelay_sbr" -> n \in -1 .. 1
    [] OTHER -> TRUE

\* main() returns 1 at once.
RefuseArguments ==
  /\ refused' = "arguments" /\ result' = 1 /\ pc' = "exit"
  /\ UNCHANGED <<configVars, params, layers, reader, held, closed, output, spoiled,
                 declared, delivered>>

ParseOption ==
  /\ pc = "options"
  /\ \E o \in options :
       IF InRange(o[1], o[2])
         THEN /\ params' = [params EXCEPT ![o[1]] = o[2]]
              /\ UNCHANGED <<configVars, pc, layers, reader, held, closed, refused, output,
                             spoiled, declared, delivered, result>>
         ELSE RefuseArguments /\ UNCHANGED params

\* A bitrate is mandatory, and an M4A file needs a name; small bitrates are in
\* thousands, and raw input has two channels unless told otherwise.
EndOfOptions ==
  /\ pc = "options"
  /\ IF \/ params.bitrate = 0 /\ params.bitrate_mode = 0
        \/ params.output = "stdout" /\ params.transport_format = 0
       THEN RefuseArguments
       ELSE /\ params' = [params EXCEPT
                 !.bitrate = IF @ < 10000 THEN @ * 1000 ELSE @,
                 !.raw_channels = IF params.is_raw = 1 /\ @ = 0 THEN 2 ELSE @]
            /\ pc' = "open"
            /\ UNCHANGED <<configVars, layers, reader, held, closed, refused, output,
                           spoiled, declared, delivered, result>>

-----------------------------------------------------------------------------
(***************************************************************************)
(* open_input().                                                           *)
(***************************************************************************)
Raw == params.is_raw = 1

Channels == IF Raw THEN params.raw_channels % 256 ELSE input.channels

HasChan == ~Raw /\ input.kind = "caf" /\ input.chan.kind # "none"

InputFormat ==
  CASE Raw -> RawFormat(params.raw_format)
    [] ~Raw /\ input.kind = "wav" -> WavFormat(input.header)
    [] ~Raw /\ input.kind = "caf" -> CafFormat(input.header)
    [] OTHER -> Refused

ChannelMask ==
  CASE HasChan -> Mask(input.chan, Channels)
    [] ~Raw /\ input.kind = "wav" -> input.mask
    [] OTHER -> {}

FormatAccepted ==
  /\ InputFormat # Refused
  /\ Raw \/ Channels \in 1 .. 8
  /\ HasChan => AcceptsChan(input.chan, Channels)

\* bytes_per_frame has eight bits; raw_open() divides by it.
FrameIsEmpty == Raw /\ (params.raw_channels * InputFormat.bytes) % 256 = 0

IsFloat == InputFormat.sign = "F"

\* do_smart_padding().
SmartPadding == params.profile \in {2, 5, 29}

\* fopen(), and wav_open(), caf_open() or raw_open(), which release what they have.
OpenInput ==
  /\ pc = "open"
  /\ \/ pc' = "end" /\ refused' = "input" /\ UNCHANGED <<held, layers, reader>>
     \/ /\ held' = held \cup {"input_fp"}
        /\ \/ /\ FormatAccepted /\ ~FrameIsEmpty
              /\ pc' = "stack" /\ layers' = <<"base">> /\ reader' = TRUE
              /\ UNCHANGED refused
           \/ /\ FormatAccepted /\ FrameIsEmpty
              /\ pc' = "crash" /\ UNCHANGED <<layers, reader, refused>>
           \/ pc' = "end" /\ refused' = "input" /\ UNCHANGED <<layers, reader>>
  /\ UNCHANGED <<configVars, params, closed, output, spoiled, declared, delivered, result>>

\* The readers that are put upon the innermost one.
Stack ==
  <<"native">> \o (IF IsFloat THEN <<"limiter">> ELSE <<>>) \o <<"sint16">>
  \o (IF SmartPadding THEN <<"extrapolater">> ELSE <<>>)

\* One of them is opened, or fails: then the null pointer takes the place of
\* those that were there.
OpenLayer ==
  /\ pc = "stack"
  /\ \/ /\ layers' = Append(layers, Stack[Len(layers)])
        /\ pc' = IF Len(layers) = Len(Stack) THEN "init" ELSE "stack"
        /\ UNCHANGED <<reader, refused>>
     \/ reader' = FALSE /\ refused' = "input" /\ pc' = "end" /\ UNCHANGED layers
  /\ UNCHANGED <<configVars, params, held, closed, output, spoiled, declared, delivered, result>>

-----------------------------------------------------------------------------
(***************************************************************************)
(* SBR, and aacenc_init().                                                 *)
(***************************************************************************)
RatioAvailable == lib >= 1
ExplicitSignaling == lib >= 2

LowDelaySbr == params.profile = 39 /\ params.lowdelay_sbr # 0
SbrActive == params.profile \in {5, 29} \/ LowDelaySbr

\* aacenc_is_dual_rate_sbr().
DualRate ==
  \/ params.profile = 29
  \/ params.profile = 5 /\ params.sbr_ratio \in {0, 2}
  \/ LowDelaySbr /\ params.sbr_ratio = 2

Halved(n) == IF DualRate THEN n \div 2 ELSE n

SbrSignaling_LoasOnly ==
  CASE SbrActive /\ params.transport_format = 0 /\ ExplicitSignaling -> 1
    [] SbrActive /\ params.transport_format = 10 -> 2
    [] OTHER -> 0

\* 0 implicit, 1 explicit and backward compatible, 2 explicit and hierarchical.
SbrSignaling ==
  CASE SbrActive /\ params.transport_format = 0 /\ ExplicitSignaling -> 1
    [] SbrActive /\ (params.transport_format = 10 \/ ~DualRate)
         /\ ~(params.transport_format = 0 /\ ExplicitSignaling) -> 2
    [] OTHER -> 0

Modes == ChannelModes(Channels, ChannelMask, lib >= 1, lib >= 3)

End(who) == pc' = "end" /\ refused' = who

\* What the encoder is asked for: AAC-LC without option -p.
ObjectType == IF params.profile = 0 THEN 2 ELSE params.profile

\* The ratio that this version of the library has, then the channel mode and
\* aacEncOpen().
InitEncoder ==
  /\ pc = "init"
  /\ params' = [params EXCEPT !.sbr_ratio = IF SbrActive /\ ~RatioAvailable THEN 2 ELSE @]
  /\ \/ Modes # {} /\ pc' = "configure" /\ held' = held \cup {"encoder"} /\ UNCHANGED refused
     \/ End("encoder") /\ UNCHANGED held
  /\ UNCHANGED <<configVars, layers, reader, closed, output, spoiled, declared, delivered, result>>

InitCleanup_KeepsHandle == held

\* aacEncClose() clears the handle it is given.
InitCleanup == held \ {"encoder"}

\* aacEncoder_SetParam() and the rest, each of which the library may refuse.
Configure ==
  /\ pc = "configure"
  /\ \/ pc' = "output" /\ UNCHANGED <<held, closed, refused>>
     \/ End("encoder") /\ held' = InitCleanup /\ closed' = Append(closed, "encoder")
  /\ UNCHANGED <<configVars, params, layers, reader, output, spoiled, declared, delivered, result>>

-----------------------------------------------------------------------------
(***************************************************************************)
(* The output file.                                                        *)
(***************************************************************************)
Extension == IF params.transport_format # 0 THEN "aac" ELSE "m4a"

Generated_KeepsExtension == input.name

\* generate_output_filename(): <<base, extension>>.
Generated == <<input.name[1], Extension>>

OutputName ==
  CASE params.output = "none" -> Generated
    [] params.output = "input" -> input.name
    [] OTHER -> <<params.output, "">>

\* fopen("wb+") empties the file.
OpenOutput ==
  /\ pc = "output"
  /\ LET name == IF params.output = "none" THEN {"output_filename"} ELSE {}
     IN  \/ held' = held \cup name /\ pc' = "end" /\ UNCHANGED <<output, spoiled>>
         \/ /\ held' = held \cup name \cup {"output_fp"}
            /\ output' = "partial" /\ spoiled' = (OutputName = input.name)
            /\ pc' = IF params.transport_format = 0 THEN "create" ELSE "encode"
  /\ UNCHANGED <<configVars, params, layers, reader, closed, refused, declared, delivered, result>>

\* AudioSpecificConfig of the library: the rate of its core, and those of the
\* SBR extensions it declares.
ConfBuf ==
  [scale |-> Halved(input.rate), core |-> Halved(input.rate),
   extensions |-> IF SbrSignaling = 0 THEN <<>> ELSE <<input.rate>>]

\* aacenc_mp4asc() appends the extension that an implicit configuration lacks.
Mp4asc(asc) ==
  IF params.profile \in {5, 29} /\ DualRate
    THEN [asc EXCEPT !.extensions = Append(@, asc.core * 2)] ELSE asc

\* m4af_create() and the setters.  A null pointer is not less than 0, and the
\* setters follow it.
CreateM4a ==
  /\ pc = "create"
  /\ \/ pc' = "crash" /\ UNCHANGED <<held, declared>>
     \/ /\ held' = held \cup {"m4af"}
        /\ declared' = IF ExplicitSignaling THEN ConfBuf ELSE Mp4asc(ConfBuf)
        /\ pc' = "encode"
  /\ UNCHANGED <<configVars, params, layers, reader, closed, refused, output, spoiled,
                 delivered, result>>

-----------------------------------------------------------------------------
(***************************************************************************)
(* encode(), finalize_m4a() and the end.                                   *)
(***************************************************************************)
FrameOfFile == [i \in 1 .. Channels |-> i]

\* What comes out of the chain of readers: nothing, if the native converter
\* does not know the format (pcm_read_frames() makes 0 of its -1), or if the
\* file has been emptied.
FrameRead ==
  IF ~Convertible(InputFormat) \/ spoiled THEN <<>>
  ELSE IF HasChan THEN Reordered(FrameOfFile, Mapping(Labels(input.chan, Channels)))
  ELSE FrameOfFile

Encode ==
  /\ pc = "encode"
  /\ \/ pc' = "end" /\ UNCHANGED delivered
     \/ delivered' = FrameRead /\ pc' = "finalize"
  /\ UNCHANGED <<configVars, params, layers, reader, held, closed, refused, output, spoiled,
                 declared, result>>

\* m4af_finalize() ends in a seek, which flushes the stream; of a raw stream what
\* fwrite() has last been given is still in the buffer.
Finalize ==
  /\ pc = "finalize"
  /\ \/ "m4af" \in held /\ output' = "complete" /\ result' = 0
     \/ "m4af" \in held /\ UNCHANGED <<output, result>>
     \/ "m4af" \notin held /\ output' = "buffered" /\ result' = 0
  /\ pc' = "end"
  /\ UNCHANGED <<configVars, params, layers, reader, held, closed, refused, spoiled,
                 declared, delivered>>

\* What there is a pointer or a stream to is released.
Released(h) == IF h \in held THEN <<h>> ELSE <<>>

\* The label END: all of it, the readers first.  fclose() writes what is in the
\* buffer, or fails to, and nobody looks.
TearDown ==
  /\ pc = "end"
  /\ closed' = closed \o (IF reader THEN layers ELSE <<>>)
                \o Released("input_fp") \o Released("m4af") \o Released("output_fp")
                \o Released("encoder") \o Released("output_filename")
  /\ held' = {} /\ reader' = FALSE /\ pc' = "exit"
  /\ output' \in IF output = "buffered" THEN {"complete", "partial"} ELSE {output}
  /\ UNCHANGED <<configVars, params, layers, refused, spoiled, declared, delivered, result>>

Over == pc \in {"exit", "crash"} /\ UNCHANGED vars

Next ==
  ParseOption \/ EndOfOptions \/ OpenInput \/ OpenLayer \/ InitEncoder \/ Configure
  \/ OpenOutput \/ CreateM4a \/ Encode \/ Finalize \/ TearDown \/ Over

Spec == Init /\ [][Next]_vars

-----------------------------------------------------------------------------
(***************************************************************************)
(* Properties.                                                             *)
(***************************************************************************)

\* However the run ends (END in main(), FAIL in aacenc_init()), every stream and
\* handle is released, once, the muxer before the file it writes to and the
\* readers before the file they read; readers are left only if one could not be
\* put upon them.
HandlesReleased ==
  /\ pc = "exit" => held = {}
  /\ IsInjective(closed)
  /\ \A i, j \in DOMAIN closed :
       <<closed[i], closed[j]>> \in {<<"m4af", "output_fp">>, <<"base", "input_fp">>} => i < j
  /\ pc = "exit" /\ refused \in {"encoder", "nothing"} =>
       ToSet(layers) \cup {"input_fp"} \subseteq ToSet(closed)
  /\ pc = "exit" /\ refused = "nothing" => "encoder" \in ToSet(closed)

\* A file is there for the output only if the arguments, the input and the
\* encoder have all been accepted: nothing that was refused costs an older file
\* of that name, and a name of the program's own making costs the input file only
\* if that was called .m4a or .aac (main(), generate_output_filename()).
FilesKept ==
  /\ refused # "nothing" => output = "old"
  /\ spoiled /\ params.output = "none" => input.name[2] = Extension

\* Whether the encoder runs its core at half the rate, by its documentation: SBR
\* does unless the ratio says otherwise, low delay SBR does not, and the oldest
\* versions know no other way.
CoreIsHalf ==
  \/ params.profile = 29
  \/ params.profile = 5 /\ (lib = 0 \/ params.sbr_ratio # 1)
  \/ LowDelaySbr /\ (lib = 0 \/ params.sbr_ratio = 2)

\* For every version of the library an M4A file counts time at the rate of the
\* core, and its configuration declares SBR once, at the rate of the input: by
\* the library's signaling or by aacenc_mp4asc(), never by both or neither.  (ELD
\* declares its SBR by itself.)  A ratio below 0, which is let through, is not
\* meant.
SbrDeclared ==
  "m4af" \in held /\ params.sbr_ratio >= 0 =>
    LET core == IF CoreIsHalf THEN input.rate \div 2 ELSE input.rate
    IN  /\ declared.scale = core
        /\ declared.core = core
        /\ params.profile \in {5, 29} => declared.extensions = <<input.rate>>

\* The encoder gets each channel of the file once, in the order of the bits of
\* the mask, and runs in a mode of as many channels (apple_chan_chunk(),
\* caf_read_frames(), aacenc_channel_mode()).  The mask of a WAV file is not
\* compared with its number of channels; one that does not fit is not meant.
ChannelsInPlace ==
  delivered # <<>> /\ (ChannelMask = {} \/ Cardinality(ChannelMask) = Channels) =>
    /\ IsInjective(delivered) /\ ToSet(delivered) = 1 .. Channels
    /\ HasChan => LET labels == Labels(input.chan, Channels)
                  IN  \A i, j \in DOMAIN delivered :
                        i < j => labels[delivered[i]] < labels[delivered[j]]
    /\ \A mode \in Modes : ModeChannels[mode] = Channels

\* The number a sample of the file stands for, of all the values of its bytes.
Number(f, bytes) ==
  LET n == Len(bytes)
      weight(i) == Power(IF f.big THEN n - i ELSE i - 1)
      sum[i \in 0 .. n] == IF i = 0 THEN 0 ELSE sum[i - 1] + bytes[i] * weight(i)
  IN  IF f.sign = "U" THEN sum[n] - Power(n) \div 2
      ELSE IF sum[n] >= Power(n) \div 2 THEN sum[n] - Power(n) ELSE sum[n]

\* Samples of a format: in bytes with as many low bits 0 as it does not use.
SamplesOf(f) ==
  LET unused == Values(ByteBits * f.bytes - (f.bits * ByteBits) \div 8)
  IN  {b \in [1 .. f.bytes -> 0 .. Power(1) - 1] : Number(f, b) % unused = 0}

FloatParts == 4       \* parts of a step of 16 bits that floats are tried in

\* Whatever the width, sign and byte order, the 16-bit sample is the one nearest
\* to that of the file, ties upwards, and the largest if there is none so large;
\* a float is off by less than a step (pcm_native_converter.c,
\* pcm_sint16_converter.c).
NearestSample ==
  LET f == InputFormat
      top == Power(2) \div 2 - 1
      Near(b) ==
        LET out == Sint16(f, Native(f, b))
            off == 2 * (Number(f, b) * Power(2) - out * Power(f.bytes))
        IN  /\ out \in -top - 1 .. top
            /\ off >= -Power(f.bytes)
            /\ off < Power(f.bytes) \/ out = top
      Close(steps) ==
        LET out == Sint16OfFloat(FloatParts, steps)
            off == steps - out * FloatParts
        IN  /\ out \in -top - 1 .. top
            /\ \/ off \in -FloatParts + 1 .. FloatParts - 1
               \/ out = top /\ off > 0
               \/ out = -top - 1 /\ off < 0
  IN  delivered # <<>> =>
        IF f.sign = "F" THEN \A s \in -2 * FloatParts * top .. 2 * FloatParts * top : Close(s)
        ELSE \A b \in SamplesOf(f) : Near(b)

-----------------------------------------------------------------------------
(***************************************************************************)
(* What the documentation says, and does not hold.                         *)
(***************************************************************************)

\* README:292, of the formats of input: "Upto 32bit integer or 64bit floating
\* point format is supported as input."
SupportedFormatsEncoded ==
  LET f == InputFormat
      supported == IF f.sign = "F" THEN f.bits \in {32, 64} /\ f.bits = 8 * f.bytes
                                   ELSE f.bytes <= 4
  IN  pc = "exit" /\ result = 0 /\ ~spoiled /\ supported => delivered # <<>>
=============================================================================
