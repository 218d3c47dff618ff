---------------------------- MODULE DriverProofs ----------------------------
(***************************************************************************)
(* What main() does to files, what it declares of SBR, what it releases,   *)
(* the order of the channels and the value of their samples, for every     *)
(* input, every set of options and every version of the library, any call  *)
(* failing.  Proofs about Driver.                                          *)
(***************************************************************************)
EXTENDS Driver, Induction, SequenceTheorems

-----------------------------------------------------------------------------
(***************************************************************************)
(* The files.                                                              *)
(***************************************************************************)
BeforeOutput == {"options", "open", "stack", "init", "configure", "output"}

\* Nothing has been touched before there is an output, and nothing is refused after
\* it.
FilesInv ==
  /\ pc \in BeforeOutput => output = "old" /\ ~spoiled /\ refused = "nothing"
  /\ refused # "nothing" => output = "old" /\ pc \in {"end", "exit"}
  /\ spoiled /\ params.output = "none" => input.name[2] = Extension

LEMMA FilesStep ==
  ASSUME FilesInv, [Next]_vars
  PROVE  FilesInv'
<1> USE DEF FilesInv, BeforeOutput, configVars
<1>1. CASE ParseOption
  BY <1>1 DEF ParseOption, RefuseArguments
<1>2. CASE EndOfOptions
  BY <1>2 DEF EndOfOptions, RefuseArguments
<1>3. CASE OpenInput
  BY <1>3 DEF OpenInput, Extension
<1>4. CASE OpenLayer
  BY <1>4 DEF OpenLayer, Extension
<1>5. CASE InitEncoder
  BY <1>5 DEF InitEncoder, End
<1>6. CASE Configure
  BY <1>6 DEF Configure, End, Extension
<1>7. CASE OpenOutput
  <2>1. OutputName = input.name /\ params.output = "none" => input.name[2] = Extension
    BY DEF OutputName, Generated
  <2>2. pc = "output" /\ output = "old" /\ ~spoiled /\ refused = "nothing"
    BY <1>7 DEF OpenOutput
  <2>3. /\ UNCHANGED <<input, params, refused>>
        /\ pc' \in {"end", "create", "encode"}
    BY <1>7 DEF OpenOutput
  <2>4. spoiled' => OutputName = input.name
    BY <1>7, <2>2 DEF OpenOutput
  <2>5. spoiled' /\ params'.output = "none" => input'.name[2] = Extension'
    BY <2>1, <2>3, <2>4 DEF Extension
  <2> QED
    BY <2>2, <2>3, <2>5
<1>8. CASE CreateM4a
  BY <1>8 DEF CreateM4a, Extension
<1>9. CASE Encode
  BY <1>9 DEF Encode, Extension
<1>10. CASE Finalize
  BY <1>10 DEF Finalize, Extension
<1>11. CASE TearDown
  BY <1>11 DEF TearDown, Extension
<1>12. CASE UNCHANGED vars
  BY <1>12 DEF vars, Extension
<1> QED
  BY <1>1, <1>2, <1>3, <1>4, <1>5, <1>6, <1>7, <1>8, <1>9, <1>10, <1>11, <1>12 DEF Next, Over

\* No refusal costs a file, and no name of the program's own making costs the input
\* but where it must (FilesKept), for all inputs, options and library versions and
\* whatever fails.
THEOREM FilesSafe == Spec => []FilesKept
<1>1. Init => FilesInv
  BY DEF Init, FilesInv, BeforeOutput
<1>2. FilesInv => FilesKept
  BY DEF FilesInv, FilesKept
<1> QED
  BY <1>1, <1>2, FilesStep, PTL DEF Spec

-----------------------------------------------------------------------------
(***************************************************************************)
(* SBR.                                                                    *)
(***************************************************************************)
\* Half a rate that is odd is not a whole number, and is rounded.
EvenRates == \A c \in Cases : c.input.rate % 2 = 0

\* What main() and aacenc_init() have settled on the way to m4af_create().
SbrInv ==
  /\ lib \in 0 .. 3
  /\ input.rate \in Nat /\ input.rate % 2 = 0
  /\ \A o \in options : o[1] = "sbr_ratio" => o[2] \in Int
  /\ DOMAIN params = DOMAIN Defaults
  /\ params.sbr_ratio \in Int /\ params.sbr_ratio <= 2
  /\ pc \in {"configure", "output", "create"} => (SbrActive /\ lib = 0 => params.sbr_ratio = 2)
  /\ pc = "create" => params.transport_format = 0
  /\ "m4af" \in held => pc \in {"encode", "finalize", "end"}
  /\ SbrDeclared

\* The declaration m4af_create() and the setters are given.
LEMMA DeclaredRight ==
  ASSUME SbrInv, pc = "create", params.sbr_ratio >= 0
  PROVE  LET core == IF CoreIsHalf THEN input.rate \div 2 ELSE input.rate
             d == IF ExplicitSignaling THEN ConfBuf ELSE Mp4asc(ConfBuf)
         IN  /\ d.scale = core /\ d.core = core
             /\ params.profile \in {5, 29} => d.extensions = <<input.rate>>
<1>1. CoreIsHalf <=> DualRate
  BY DEF SbrInv, CoreIsHalf, DualRate, SbrActive, LowDelaySbr
<1>2. (input.rate \div 2) * 2 = input.rate
  BY DEF SbrInv
<1>3. Halved(input.rate) = IF CoreIsHalf THEN input.rate \div 2 ELSE input.rate
  BY <1>1 DEF Halved
<1>4. params.transport_format = 0
  BY DEF SbrInv
<1>5. CASE ExplicitSignaling
  <2>1. params.profile \in {5, 29} => SbrSignaling = 1
    BY <1>4, <1>5 DEF SbrSignaling, SbrActive
  <2> QED
    BY <1>3, <1>5, <2>1 DEF ConfBuf
<1>6. CASE ~ExplicitSignaling
  <2>1. params.profile \in {5, 29} => SbrSignaling = IF DualRate THEN 0 ELSE 2
    BY <1>4, <1>6 DEF SbrSignaling, SbrActive
  <2>2. CASE params.profile \in {5, 29} /\ DualRate
    <3>1. ConfBuf.extensions = <<>> /\ ConfBuf.core = input.rate \div 2
          /\ ConfBuf.scale = input.rate \div 2
      BY <1>1, <1>3, <2>1, <2>2 DEF ConfBuf
    <3>2. Mp4asc(ConfBuf).extensions = <<(input.rate \div 2) * 2>>
          /\ Mp4asc(ConfBuf).core = ConfBuf.core /\ Mp4asc(ConfBuf).scale = ConfBuf.scale
      <4>1. ConfBuf = [scale |-> input.rate \div 2, core |-> input.rate \div 2,
                       extensions |-> <<>>]
        BY <1>3, <1>1, <2>1, <2>2 DEF ConfBuf
      <4>2. Mp4asc(ConfBuf)
              = [ConfBuf EXCEPT !.extensions = Append(ConfBuf.extensions, ConfBuf.core * 2)]
        BY <2>2 DEF Mp4asc
      <4>3. Mp4asc(ConfBuf) = [scale |-> input.rate \div 2, core |-> input.rate \div 2,
                               extensions |-> Append(<<>>, (input.rate \div 2) * 2)]
        BY <4>1, <4>2
      <4>4. Append(<<>>, (input.rate \div 2) * 2) = <<(input.rate \div 2) * 2>>
        OBVIOUS
      <4> QED
        BY <3>1, <4>3, <4>4
    <3> QED
      BY <1>1, <1>2, <1>6, <2>2, <3>1, <3>2
  <2>3. CASE ~(params.profile \in {5, 29} /\ DualRate)
    BY <1>3, <1>6, <2>1, <2>3 DEF Mp4asc, ConfBuf
  <2> QED
    BY <2>2, <2>3
<1> QED
  BY <1>5, <1>6

\* What is declared depends on nothing that later steps change.
LEMMA DeclaredStays ==
  ASSUME SbrDeclared, UNCHANGED <<lib, params, declared>>, input' = input,
         "m4af" \in held' => "m4af" \in held
  PROVE  SbrDeclared'
  BY DEF SbrDeclared, CoreIsHalf, LowDelaySbr

LEMMA SbrStep ==
  ASSUME SbrInv, [Next]_vars
  PROVE  SbrInv'
<1> USE DEF configVars
<1>1. CASE ParseOption
  <2>1. /\ pc = "options" /\ pc' \in {"options", "exit"} /\ "m4af" \notin held /\ held' = held
        /\ UNCHANGED configVars
    BY <1>1 DEF ParseOption, RefuseArguments, SbrInv
  <2>2. /\ DOMAIN params' = DOMAIN Defaults
        /\ params'.sbr_ratio \in Int /\ params'.sbr_ratio <= 2
    <3>1. CASE UNCHANGED params
      BY <3>1 DEF SbrInv
    <3>2. CASE \E o \in options : InRange(o[1], o[2]) /\ params' = [params EXCEPT ![o[1]] = o[2]]
      <4>1. PICK o \in options : InRange(o[1], o[2]) /\ params' = [params EXCEPT ![o[1]] = o[2]]
        BY <3>2
      <4>2. "sbr_ratio" \in DOMAIN params
        BY DEF SbrInv, Defaults
      <4>3. CASE o[1] = "sbr_ratio"
        <5>1. o[2] \in Int /\ o[2] <= 2
          BY <4>1, <4>3 DEF SbrInv, InRange
        <5> QED
          BY <4>1, <4>2, <4>3, <5>1 DEF SbrInv
      <4>4. CASE o[1] # "sbr_ratio"
        BY <4>1, <4>2, <4>4 DEF SbrInv
      <4> QED
        BY <4>3, <4>4
    <3> QED
      BY <1>1, <3>1, <3>2 DEF ParseOption
  <2>3. SbrDeclared'
    BY <2>1 DEF SbrDeclared
  <2> QED
    BY <2>1, <2>2, <2>3 DEF SbrInv
<1>2. CASE EndOfOptions
  <2>1. /\ pc' \in {"open", "exit"} /\ "m4af" \notin held /\ held' = held /\ UNCHANGED configVars
        /\ DOMAIN params' = DOMAIN params /\ params'.sbr_ratio = params.sbr_ratio
    <3>1. "sbr_ratio" \in DOMAIN params
      BY DEF SbrInv, Defaults
    <3>2. pc = "options"
      BY <1>2 DEF EndOfOptions
    <3>3. "m4af" \notin held
      BY <3>2 DEF SbrInv
    <3>4. CASE RefuseArguments
      BY <3>3, <3>4 DEF RefuseArguments
    <3>5. CASE ~RefuseArguments
      <4>1. pc' = "open" /\ held' = held /\ UNCHANGED configVars
        BY <1>2, <3>5 DEF EndOfOptions
      <4> DEFINE bitrate == IF params.bitrate < 10000 THEN params.bitrate * 1000
                                                        ELSE params.bitrate
                 channels == IF params.is_raw = 1 /\ params.raw_channels = 0
                               THEN 2 ELSE params.raw_channels
      <4>2. params' = [params EXCEPT !.bitrate = bitrate, !.raw_channels = channels]
        BY <1>2, <3>5 DEF EndOfOptions
      <4> HIDE DEF bitrate, channels
      <4>3. DOMAIN params' = DOMAIN params /\ params'.sbr_ratio = params.sbr_ratio
        BY <3>1, <4>2
      <4> QED
        BY <3>3, <4>1, <4>3
    <3> QED
      BY <3>4, <3>5
  <2>2. SbrDeclared'
    BY <2>1 DEF SbrDeclared
  <2> QED
    BY <2>1, <2>2 DEF SbrInv
<1>3. CASE OpenInput
  <2>1. SbrDeclared'
    BY <1>3, DeclaredStays DEF OpenInput, SbrInv
  <2> QED
    BY <1>3, <2>1 DEF OpenInput, SbrInv
<1>4. CASE OpenLayer
  <2>1. SbrDeclared'
    BY <1>4, DeclaredStays DEF OpenLayer, SbrInv
  <2> QED
    BY <1>4, <2>1 DEF OpenLayer, SbrInv
<1>5. CASE InitEncoder
  <2>1. /\ pc' \in {"configure", "end"} /\ "m4af" \notin held' /\ UNCHANGED configVars
        /\ DOMAIN params' = DOMAIN params /\ params'.profile = params.profile
        /\ params'.lowdelay_sbr = params.lowdelay_sbr
        /\ params'.sbr_ratio = IF SbrActive /\ ~RatioAvailable THEN 2 ELSE params.sbr_ratio
    BY <1>5 DEF InitEncoder, End, SbrInv, Defaults
  <2>2. SbrDeclared'
    BY <2>1 DEF SbrDeclared
  <2>3. SbrActive' /\ lib' = 0 => params'.sbr_ratio = 2
    BY <2>1 DEF SbrActive, LowDelaySbr, RatioAvailable
  <2> QED
    BY <2>1, <2>2, <2>3 DEF SbrInv
<1>6. CASE Configure
  <2>1. SbrDeclared'
    BY <1>6, DeclaredStays DEF Configure, End, InitCleanup, SbrInv
  <2> QED
    BY <1>6, <2>1 DEF Configure, End, InitCleanup, SbrInv, SbrActive, LowDelaySbr
<1>7. CASE OpenOutput
  <2>1. SbrDeclared'
    BY <1>7, DeclaredStays DEF OpenOutput, SbrInv
  <2> QED
    BY <1>7, <2>1 DEF OpenOutput, SbrInv, SbrActive, LowDelaySbr
<1>8. CASE CreateM4a
  <2>1. CASE UNCHANGED <<held, declared>>
    <3>1. SbrDeclared'
      BY <1>8, <2>1, DeclaredStays DEF CreateM4a, SbrInv
    <3> QED
      BY <1>8, <2>1, <3>1 DEF CreateM4a, SbrInv
  <2>2. CASE declared' = IF ExplicitSignaling THEN ConfBuf ELSE Mp4asc(ConfBuf)
    <3>1. SbrDeclared'
      BY <1>8, <2>2, DeclaredRight DEF CreateM4a, SbrDeclared, CoreIsHalf, LowDelaySbr
    <3> QED
      BY <1>8, <3>1 DEF CreateM4a, SbrInv
  <2> QED
    BY <1>8, <2>1, <2>2 DEF CreateM4a
<1>9. CASE Encode
  <2>1. SbrDeclared'
    BY <1>9, DeclaredStays DEF Encode, SbrInv
  <2> QED
    BY <1>9, <2>1 DEF Encode, SbrInv
<1>10. CASE Finalize
  <2>1. SbrDeclared'
    BY <1>10, DeclaredStays DEF Finalize, SbrInv
  <2> QED
    BY <1>10, <2>1 DEF Finalize, SbrInv
<1>11. CASE TearDown
  <2>1. SbrDeclared'
    BY <1>11, DeclaredStays DEF TearDown, SbrInv
  <2> QED
    BY <1>11, <2>1 DEF TearDown, SbrInv
<1>12. CASE UNCHANGED vars
  <2>1. SbrDeclared'
    BY <1>12, DeclaredStays DEF vars, SbrInv
  <2> QED
    BY <1>12, <2>1 DEF vars, SbrInv, SbrActive, LowDelaySbr
<1> QED
  BY <1>1, <1>2, <1>3, <1>4, <1>5, <1>6, <1>7, <1>8, <1>9, <1>10, <1>11, <1>12 DEF Next, Over

\* For every version of the library, every option and every even rate an M4A file
\* counts time at the rate of the core and declares SBR exactly once (SbrDeclared).
THEOREM SbrOnce == EvenRates => (Spec => []SbrDeclared)
<1> SUFFICES ASSUME EvenRates PROVE Spec => []SbrDeclared
  OBVIOUS
<1>1. Init => SbrInv
  <2> SUFFICES ASSUME Init PROVE SbrInv
    OBVIOUS
  <2>1. PICK c \in Cases : input = c.input /\ options = c.options /\ lib \in c.libs
    BY DEF Init
  <2>2. /\ lib \in 0 .. 3 /\ input.rate \in Nat /\ input.rate % 2 = 0
        /\ \A o \in options : o[1] = "sbr_ratio" => o[2] \in Int
    BY <2>1, CasesAssumption DEF EvenRates
  <2>3. params = Defaults /\ pc = "options" /\ "m4af" \notin held
    BY DEF Init
  <2>4. params.sbr_ratio = 0
    BY <2>3 DEF Defaults
  <2> QED
    BY <2>2, <2>3, <2>4 DEF SbrInv, SbrDeclared
<1>2. SbrInv => SbrDeclared
  BY DEF SbrInv
<1> QED
  BY <1>1, <1>2, SbrStep, PTL DEF Spec

-----------------------------------------------------------------------------
(***************************************************************************)
(* What is released.                                                       *)
(***************************************************************************)

Readers == {"base", "native", "limiter", "sint16", "extrapolater"}
Handles == Readers \cup {"input_fp", "m4af", "output_fp", "encoder", "output_filename"}

\* The order in which main() releases what it has; the encoder comes before all
\* of it if aacenc_init() has released it already.
Place(h, early) ==
  CASE h = "base" -> 1 [] h = "native" -> 2 [] h = "limiter" -> 3 [] h = "sint16" -> 4
    [] h = "extrapolater" -> 5 [] h = "input_fp" -> 6 [] h = "m4af" -> 7
    [] h = "output_fp" -> 8 [] h = "encoder" -> (IF early THEN 0 ELSE 9)
    [] h = "output_filename" -> 10

\* Handles in that order, none of them past a certain place.
InPlace(s, early, last) ==
  /\ s \in Seq(Handles)
  /\ \A i \in 1 .. Len(s) : Place(s[i], early) <= last
  /\ \A i, j \in 1 .. Len(s) : i < j => Place(s[i], early) < Place(s[j], early)

\* The readers are in that order too, each put upon the one before.
LayersInv ==
  /\ InPlace(layers, FALSE, 5)
  /\ pc = "stack" => /\ Len(layers) \in 1 .. Len(Stack)
                     /\ layers[1] = "base"
                     /\ \A i \in 2 .. Len(layers) : layers[i] = Stack[i - 1]

\* What has been opened by each step is held until the end, where only what was
\* refused is missing; nothing is released earlier, but the encoder where it is
\* refused.
HandlesInv ==
  /\ pc \in {"options", "open"} => held = {} /\ layers = <<>> /\ refused = "nothing"
  /\ pc \in {"stack", "init", "configure", "output", "create", "encode", "finalize"} =>
       refused = "nothing" /\ reader /\ "input_fp" \in held
  /\ pc \in {"configure", "output", "create", "encode", "finalize"} => "encoder" \in held
  /\ pc = "end" =>
       /\ refused \in {"nothing", "input", "encoder"}
       /\ refused # "input" => reader /\ "input_fp" \in held
       /\ refused = "nothing" => "encoder" \in held
  /\ refused = "arguments" => pc = "exit"
  /\ pc # "exit" =>
       \/ closed = <<>>
       \/ closed = <<"encoder">> /\ pc = "end" /\ refused = "encoder" /\ "encoder" \notin held
  /\ LayersInv
  /\ pc = "exit" => HandlesReleased

\* One more handle, further on than all of those.
LEMMA OneMore ==
  ASSUME NEW s, NEW early \in BOOLEAN, NEW last \in Int, NEW h \in Handles,
         InPlace(s, early, last), last < Place(h, early)
  PROVE  /\ InPlace(Append(s, h), early, Place(h, early))
         /\ ToSet(Append(s, h)) = ToSet(s) \cup {h}
<1>1. s \in Seq(Handles) /\ Len(s) \in Nat
  BY DEF InPlace
<1>2. /\ Append(s, h) \in Seq(Handles) /\ Len(Append(s, h)) = Len(s) + 1
      /\ Append(s, h)[Len(s) + 1] = h
      /\ \A i \in 1 .. Len(s) : Append(s, h)[i] = s[i]
  BY <1>1
<1>3. \A x \in Handles : Place(x, early) \in Int
  BY DEF Handles, Readers, Place
<1>4. \A i \in 1 .. Len(s) : s[i] \in Handles
  BY <1>1
<1> DEFINE t == Append(s, h)
           place(i) == Place(t[i], early)
<1>5. \A i \in 1 .. Len(s) : place(i) \in Int /\ place(i) <= last
  BY <1>2, <1>3, <1>4 DEF InPlace
<1>6. place(Len(s) + 1) = Place(h, early)
  BY <1>2
<1>7. \A i, j \in 1 .. Len(s) : i < j => place(i) < place(j)
  BY <1>2 DEF InPlace
<1>8. Place(h, early) \in Int
  BY <1>3
<1>9. \A i \in 1 .. Len(s) + 1 : place(i) <= Place(h, early)
  <2> HIDE DEF place
  <2> QED
    BY <1>1, <1>5, <1>6, <1>8
<1>10. ASSUME NEW i \in 1 .. Len(s) + 1, NEW j \in 1 .. Len(s) + 1, i < j
       PROVE  place(i) < place(j)
  <2> HIDE DEF place
  <2>1. i \in 1 .. Len(s)
    BY <1>1, <1>10
  <2>2. CASE j = Len(s) + 1
    <3>1. place(i) \in Int /\ place(i) <= last
      BY <1>5, <2>1
    <3> QED
      BY <1>6, <1>8, <2>2, <3>1
  <2>3. CASE j \in 1 .. Len(s)
    BY <1>7, <1>10, <2>1, <2>3
  <2> QED
    BY <1>1, <2>2, <2>3
<1>11. ToSet(t) = ToSet(s) \cup {h}
  <2>1. DOMAIN t = 1 .. Len(s) + 1 /\ DOMAIN s = 1 .. Len(s)
    BY <1>1, <1>2
  <2> QED
    BY <1>1, <1>2, <2>1 DEF ToSet
<1> QED
  BY <1>2, <1>9, <1>10, <1>11 DEF InPlace

\* What is released of one of them keeps the order, if the ones before come
\* earlier; nothing comes of what has been released already.
LEMMA ReleasedInPlace ==
  ASSUME NEW s, NEW early \in BOOLEAN, NEW last \in Int, NEW h \in Handles,
         InPlace(s, early, last), h \in held => last < Place(h, early)
  PROVE  /\ InPlace(s \o Released(h), early, IF h \in held THEN Place(h, early) ELSE last)
         /\ ToSet(s \o Released(h)) = ToSet(s) \cup (held \cap {h})
<1>1. s \in Seq(Handles)
  BY DEF InPlace
<1>2. CASE h \in held
  <2>1. s \o Released(h) = Append(s, h)
    BY <1>1, <1>2 DEF Released
  <2> QED
    BY <1>2, <2>1, OneMore
<1>3. CASE h \notin held
  <2>1. s \o Released(h) = s
    BY <1>1, <1>3 DEF Released
  <2>2. held \cap {h} = {}
    BY <1>3
  <2> QED
    BY <1>3, <2>1, <2>2
<1> QED
  BY <1>2, <1>3

\* A later bound is a bound.
LEMMA FurtherOn ==
  ASSUME NEW s, NEW early \in BOOLEAN, NEW last \in Int, NEW more \in Int,
         InPlace(s, early, last), last <= more
  PROVE  InPlace(s, early, more)
<1>1. \A x \in Handles : Place(x, early) \in Int
  BY DEF Handles, Readers, Place
<1>2. \A i \in 1 .. Len(s) : s[i] \in Handles
  BY DEF InPlace
<1>3. \A i \in 1 .. Len(s) : Place(s[i], early) <= last /\ Place(s[i], early) \in Int
  BY <1>1, <1>2 DEF InPlace
<1>4. \A i \in 1 .. Len(s) : Place(s[i], early) <= more
  BY <1>3
<1> QED
  BY <1>4 DEF InPlace

\* Handles in their places are each there once, the muxer before its file and the
\* readers before theirs.
LEMMA PlacesTellApart ==
  ASSUME NEW s, NEW early \in BOOLEAN, NEW last, InPlace(s, early, last)
  PROVE  /\ IsInjective(s)
         /\ \A i, j \in DOMAIN s :
              <<s[i], s[j]>> \in {<<"m4af", "output_fp">>, <<"base", "input_fp">>} => i < j
<1>1. s \in Seq(Handles) /\ DOMAIN s = 1 .. Len(s)
  BY DEF InPlace
<1>2. \A i \in DOMAIN s : Place(s[i], early) \in Int
  <2>1. \A x \in Handles : Place(x, early) \in Int
    BY DEF Handles, Readers, Place
  <2> QED
    BY <1>1, <2>1
<1>3. \A i, j \in DOMAIN s : Place(s[i], early) < Place(s[j], early) \/ i = j
                             \/ Place(s[j], early) < Place(s[i], early)
  BY <1>1 DEF InPlace
<1>4. \A i, j \in DOMAIN s : s[i] = s[j] => i = j
  BY <1>2, <1>3
<1>5. ASSUME NEW i \in DOMAIN s, NEW j \in DOMAIN s,
             <<s[i], s[j]>> \in {<<"m4af", "output_fp">>, <<"base", "input_fp">>}
      PROVE  i < j
  <2>1. Place(s[i], early) < Place(s[j], early)
    BY <1>5 DEF Place
  <2>2. i \in Int /\ j \in Int
    BY <1>1
  <2>3. ~(j < i) /\ i # j
    BY <1>1, <1>2, <2>1 DEF InPlace
  <2> QED
    BY <2>2, <2>3
<1> QED
  BY <1>4, <1>5 DEF IsInjective

\* END releases all there is, and in that order.
LEMMA TearDownReleases ==
  ASSUME HandlesInv, TearDown
  PROVE  HandlesReleased'
<1>1. /\ pc = "end" /\ pc' = "exit" /\ held' = {}
      /\ UNCHANGED <<layers, refused>>
      /\ refused \in {"nothing", "input", "encoder"}
      /\ refused # "input" => reader /\ "input_fp" \in held
      /\ refused = "nothing" => "encoder" \in held
  BY DEF TearDown, HandlesInv
<1> DEFINE readers == IF reader THEN layers ELSE <<>>
<1>2. PICK early \in BOOLEAN :
        /\ closed = IF early THEN <<"encoder">> ELSE <<>>
        /\ early => "encoder" \notin held
  BY <1>1 DEF HandlesInv
<1>3. InPlace(readers, FALSE, 5)
  <2>1. CASE reader
    BY <2>1 DEF HandlesInv, LayersInv
  <2>2. CASE ~reader
    <3>1. readers = <<>> /\ <<>> \in Seq(Handles) /\ 1 .. Len(<<>>) = {}
      BY <2>2
    <3> QED
      BY <3>1 DEF InPlace
  <2> QED
    BY <2>1, <2>2
<1> HIDE DEF readers
<1>4. PICK start :
        /\ start = closed \o readers
        /\ InPlace(start, early, 5)
        /\ ToSet(readers) \subseteq ToSet(start)
  <2>1. /\ readers \in Seq(Handles) /\ Len(readers) \in Nat
        /\ DOMAIN readers = 1 .. Len(readers)
    BY <1>3 DEF InPlace
  <2>2. ASSUME NEW i \in 1 .. Len(readers)
        PROVE  /\ readers[i] \in Readers
               /\ Place(readers[i], early) = Place(readers[i], FALSE)
               /\ Place(readers[i], FALSE) \in 1 .. 5
    <3>1. readers[i] \in Handles /\ Place(readers[i], FALSE) <= 5
      <4>1. readers[i] \in Handles
        BY <2>1
      <4> QED
        BY <1>3, <4>1 DEF InPlace
    <3> QED
      BY <3>1 DEF Handles, Readers, Place
  <2>3. CASE ~early
    <3>1. closed \o readers = readers
      BY <1>2, <2>1, <2>3
    <3> QED
      BY <1>3, <2>3, <3>1
  <2>4. CASE early
    <3> DEFINE both == <<"encoder">> \o readers
    <3>1. /\ both \in Seq(Handles) /\ Len(both) = Len(readers) + 1
          /\ both[1] = "encoder"
          /\ \A i \in 1 .. Len(readers) : both[i + 1] = readers[i]
      BY <2>1 DEF Handles
    <3> HIDE DEF both
    <3>2. DOMAIN both = 1 .. Len(readers) + 1
      BY <3>1
    <3>3. Place(both[1], early) = 0
      BY <2>4, <3>1 DEF Place
    <3>4. \A i \in 2 .. Len(readers) + 1 :
            Place(both[i], early) = Place(readers[i - 1], FALSE)
            /\ Place(both[i], early) \in 1 .. 5
      <4> TAKE i \in 2 .. Len(readers) + 1
      <4>1. i - 1 \in 1 .. Len(readers) /\ (i - 1) + 1 = i
        BY <2>1
      <4>2. both[i] = readers[i - 1]
        BY <3>1, <4>1
      <4> QED
        BY <2>2, <4>1, <4>2
    <3>5. ASSUME NEW i \in 1 .. Len(both)
          PROVE  Place(both[i], early) <= 5
      <4>1. CASE i = 1
        BY <3>3, <4>1
      <4>2. CASE i # 1
        <5>1. i \in 2 .. Len(readers) + 1
          BY <2>1, <3>1, <4>2
        <5>2. Place(both[i], early) \in 1 .. 5
          BY <3>4, <5>1
        <5> QED
          BY <5>2
      <4> QED
        BY <4>1, <4>2
    <3>6. ASSUME NEW i \in 1 .. Len(both), NEW j \in 1 .. Len(both), i < j
          PROVE  Place(both[i], early) < Place(both[j], early)
      <4>1. j \in 2 .. Len(readers) + 1 /\ j - 1 \in 1 .. Len(readers)
        BY <2>1, <3>1, <3>6
      <4>2. CASE i = 1
        <5>1. Place(both[j], early) \in 1 .. 5
          BY <3>4, <4>1
        <5> QED
          BY <3>3, <4>2, <5>1
      <4>3. CASE i # 1
        <5>1. i \in 2 .. Len(readers) + 1 /\ i - 1 \in 1 .. Len(readers) /\ i - 1 < j - 1
          BY <2>1, <3>1, <3>6, <4>1, <4>3
        <5>2. Place(readers[i - 1], FALSE) < Place(readers[j - 1], FALSE)
          BY <1>3, <4>1, <5>1 DEF InPlace
        <5> QED
          BY <3>4, <4>1, <5>1, <5>2
      <4> QED
        BY <4>2, <4>3
    <3>7. ToSet(readers) \subseteq ToSet(both)
      <4>1. \A i \in DOMAIN readers : i + 1 \in DOMAIN both /\ both[i + 1] = readers[i]
        BY <2>1, <3>1, <3>2
      <4> QED
        BY <4>1 DEF ToSet
    <3>8. closed \o readers = both
      BY <1>2, <2>4 DEF both
    <3> QED
      BY <3>1, <3>5, <3>6, <3>7, <3>8 DEF InPlace
  <2> QED
    BY <2>3, <2>4
<1> DEFINE s1 == start \o Released("input_fp")
           s2 == s1 \o Released("m4af")
           s3 == s2 \o Released("output_fp")
           s4 == s3 \o Released("encoder")
           s5 == s4 \o Released("output_filename")
<1>5. {"input_fp", "m4af", "output_fp", "encoder", "output_filename"} \subseteq Handles
  BY DEF Handles
<1>6. /\ Place("input_fp", early) = 6 /\ Place("m4af", early) = 7
      /\ Place("output_fp", early) = 8 /\ Place("output_filename", early) = 10
      /\ "encoder" \in held => Place("encoder", early) = 9
  BY <1>2 DEF Place
<1>7. InPlace(s1, early, 6) /\ ToSet(s1) = ToSet(start) \cup (held \cap {"input_fp"})
  BY <1>4, <1>5, <1>6, ReleasedInPlace, FurtherOn
<1> HIDE DEF s1
<1>8. InPlace(s2, early, 7) /\ ToSet(s2) = ToSet(s1) \cup (held \cap {"m4af"})
  BY <1>5, <1>6, <1>7, ReleasedInPlace, FurtherOn
<1> HIDE DEF s2
<1>9. InPlace(s3, early, 8) /\ ToSet(s3) = ToSet(s2) \cup (held \cap {"output_fp"})
  BY <1>5, <1>6, <1>8, ReleasedInPlace, FurtherOn
<1> HIDE DEF s3
<1>10. InPlace(s4, early, 9) /\ ToSet(s4) = ToSet(s3) \cup (held \cap {"encoder"})
  <2>1. "encoder" \in Handles /\ 8 \in Int /\ InPlace(s3, early, 8)
    BY <1>5, <1>9
  <2>2. CASE "encoder" \in held
    <3>1. 8 < Place("encoder", early) /\ Place("encoder", early) = 9
      BY <1>6, <2>2
    <3> QED
      BY <2>1, <2>2, <3>1, ReleasedInPlace
  <2>3. CASE "encoder" \notin held
    BY <2>1, <2>3, ReleasedInPlace, FurtherOn
  <2> QED
    BY <2>2, <2>3
<1> HIDE DEF s4
<1>11. InPlace(s5, early, 10) /\ ToSet(s5) = ToSet(s4) \cup (held \cap {"output_filename"})
  BY <1>5, <1>6, <1>10, ReleasedInPlace, FurtherOn
<1> HIDE DEF s5
<1>12. closed' = s5
  BY <1>4 DEF TearDown, readers, s1, s2, s3, s4, s5
<1>13. refused # "input" => ToSet(layers) \cup {"input_fp"} \subseteq ToSet(s5)
  <2>1. reader => readers = layers
    BY DEF readers
  <2> QED
    BY <1>1, <1>4, <1>7, <1>8, <1>9, <1>10, <1>11, <2>1
<1>14. refused = "nothing" => "encoder" \in ToSet(s5)
  BY <1>1, <1>10, <1>11
<1>15. /\ IsInjective(s5)
       /\ \A i, j \in DOMAIN s5 :
            <<s5[i], s5[j]>> \in {<<"m4af", "output_fp">>, <<"base", "input_fp">>} => i < j
  BY <1>11, PlacesTellApart
<1> QED
  BY <1>1, <1>12, <1>13, <1>14, <1>15 DEF HandlesReleased

\* The readers that are put upon the innermost one, in their order.
LEMMA StackInPlace ==
  /\ Stack \in Seq(Handles) /\ Len(Stack) \in Nat \ {0}
  /\ \A i \in 1 .. Len(Stack) : Stack[i] \in Handles /\ Place(Stack[i], FALSE) \in 2 .. 5
  /\ \A i, j \in 1 .. Len(Stack) : i < j => Place(Stack[i], FALSE) < Place(Stack[j], FALSE)
<1> DEFINE s1 == <<"native">>
           s2 == s1 \o (IF IsFloat THEN <<"limiter">> ELSE <<>>)
           s3 == s2 \o <<"sint16">>
           s4 == s3 \o (IF SmartPadding THEN <<"extrapolater">> ELSE <<>>)
           Readied(s, last) == InPlace(s, FALSE, last) /\ "base" \notin ToSet(s) /\ Len(s) # 0
<1>1. Readied(s1, 2)
  <2>1. s1 \in Seq(Handles) /\ Len(s1) = 1 /\ s1[1] = "native"
    BY DEF Handles, Readers
  <2> QED
    BY <2>1 DEF InPlace, Place, ToSet
<1> HIDE DEF s1
<1>2. ASSUME NEW s, NEW last \in Int, Readied(s, last), NEW h \in Handles \ {"base"},
             NEW next \in Int, next = Place(h, FALSE), last < next
      PROVE  Readied(s \o <<h>>, next)
  <2>1. s \in Seq(Handles)
    BY <1>2 DEF InPlace
  <2>2. s \o <<h>> = Append(s, h)
    <3>1. <<h>> \in Seq(Handles) /\ Len(<<h>>) = 1 /\ <<h>>[1] = h
      OBVIOUS
    <3> QED
      BY <2>1, <3>1
  <2>3. Len(Append(s, h)) # 0
    BY <2>1
  <2>4. InPlace(s, FALSE, last) /\ "base" \notin ToSet(s) /\ h # "base" /\ h \in Handles
    BY <1>2
  <2>5. /\ InPlace(Append(s, h), FALSE, Place(h, FALSE))
        /\ ToSet(Append(s, h)) = ToSet(s) \cup {h}
    BY <1>2, <2>4, OneMore
  <2>6. InPlace(Append(s, h), FALSE, next)
    BY <1>2, <2>5
  <2> QED
    BY ONLY <2>2, <2>3, <2>4, <2>5, <2>6
<1>3. ASSUME NEW s, NEW last \in Int, Readied(s, last)
      PROVE  Readied(s \o <<>>, last)
  <2>1. s \in Seq(Handles)
    BY <1>3 DEF InPlace
  <2>2. s \o <<>> = s
    BY <2>1
  <2> QED
    BY <1>3, <2>2
<1>4. ASSUME NEW s, NEW last \in Int, Readied(s, last), NEW more \in Int, last <= more
      PROVE  Readied(s, more)
  BY <1>4, FurtherOn
<1>5. {"limiter", "sint16", "extrapolater"} \subseteq Handles \ {"base"}
  BY DEF Handles, Readers
<1>6. /\ 3 = Place("limiter", FALSE) /\ 4 = Place("sint16", FALSE)
      /\ 5 = Place("extrapolater", FALSE)
      /\ 2 < 3 /\ 3 < 4 /\ 4 < 5 /\ {2, 3, 4, 5} \subseteq Int
  BY DEF Place
<1> HIDE DEF Readied
<1>7. Readied(s2, 3)
  <2>1. CASE IsFloat
    <3>1. Readied(s1 \o <<"limiter">>, 3)
      BY <1>1, <1>2, <1>5, <1>6, Zenon
    <3> QED
      BY <2>1, <3>1
  <2>2. CASE ~IsFloat
    <3>1. Readied(s1 \o <<>>, 2)
      BY <1>1, <1>3
    <3> QED
      BY <1>4, <2>2, <3>1
  <2> QED
    BY <2>1, <2>2
<1> HIDE DEF s2
<1>8. Readied(s3, 4)
  <2>1. Readied(s2 \o <<"sint16">>, 4)
    BY <1>2, <1>5, <1>6, <1>7, Zenon
  <2> QED
    BY <1>6, <2>1
<1> HIDE DEF s3
<1>9. Readied(s4, 5)
  <2>1. CASE SmartPadding
    <3>1. Readied(s3 \o <<"extrapolater">>, 5)
      BY <1>2, <1>5, <1>6, <1>8, Zenon
    <3> QED
      BY <1>6, <2>1, <3>1
  <2>2. CASE ~SmartPadding
    <3>1. Readied(s3 \o <<>>, 4)
      BY <1>3, <1>8
    <3> QED
      BY <1>4, <2>2, <3>1
  <2> QED
    BY <2>1, <2>2
<1>10. Stack = s4
  BY DEF Stack, s4, s3, s2, s1
<1>11. InPlace(Stack, FALSE, 5) /\ "base" \notin ToSet(Stack) /\ Len(Stack) # 0
  BY <1>9, <1>10 DEF Readied
<1>12. Stack \in Seq(Handles) /\ Len(Stack) \in Nat \ {0} /\ DOMAIN Stack = 1 .. Len(Stack)
  BY <1>11 DEF InPlace
<1>13. ASSUME NEW i \in 1 .. Len(Stack)
       PROVE  Stack[i] \in Handles /\ Place(Stack[i], FALSE) \in 2 .. 5
  <2>1. Stack[i] \in Handles
    BY <1>12
  <2>2. Stack[i] # "base" /\ Place(Stack[i], FALSE) <= 5
    BY <1>11, <1>12 DEF ToSet, InPlace
  <2> QED
    BY <2>1, <2>2 DEF Handles, Readers, Place
<1> QED
  BY <1>11, <1>12, <1>13 DEF InPlace

\* The next reader comes after those that are there.
LEMMA LayerStep ==
  ASSUME LayersInv, OpenLayer
  PROVE  LayersInv'
<1>1. pc = "stack" /\ UNCHANGED <<input, params>>
  BY DEF OpenLayer, configVars
<1>2. Stack' = Stack
  BY <1>1 DEF Stack, SmartPadding, IsFloat, InputFormat, Raw
<1>3. CASE UNCHANGED layers /\ pc' = "end"
  BY <1>3 DEF LayersInv, InPlace
<1>4. CASE /\ layers' = Append(layers, Stack[Len(layers)])
           /\ pc' = IF Len(layers) = Len(Stack) THEN "init" ELSE "stack"
  <2> DEFINE n == Len(layers)
             h == Stack[n]
  <2>1. /\ InPlace(layers, FALSE, 5) /\ n \in 1 .. Len(Stack)
        /\ layers[1] = "base"
        /\ \A i \in 2 .. n : layers[i] = Stack[i - 1]
    BY <1>1 DEF LayersInv
  <2>2. n \in Nat /\ layers \in Seq(Handles) /\ Len(Stack) \in Nat
    BY <2>1, StackInPlace DEF InPlace
  <2>3. h \in Handles /\ Place(h, FALSE) \in 2 .. 5
    BY <2>1, StackInPlace
  <2> HIDE DEF h
  <2>4. PICK place \in 2 .. 5 : place = Place(h, FALSE)
    BY <2>3
  <2>5. ASSUME NEW i \in 1 .. n
        PROVE  Place(layers[i], FALSE) <= place - 1
    <3>1. CASE i = 1
      <4>1. Place(layers[i], FALSE) = 1
        BY <2>1, <3>1 DEF Place
      <4>2. 1 <= place - 1
        OBVIOUS
      <4> QED
        BY <4>1, <4>2, Zenon
    <3>2. CASE i # 1
      <4>1. i - 1 \in 1 .. Len(Stack) /\ i - 1 < n /\ i \in 2 .. n
        BY <2>1, <2>2, <3>2
      <4>2. PICK before \in 2 .. 5 : before = Place(Stack[i - 1], FALSE)
        BY <4>1, StackInPlace
      <4>3. Place(Stack[i - 1], FALSE) < Place(h, FALSE)
        BY <2>1, <4>1, StackInPlace DEF h
      <4>4. layers[i] = Stack[i - 1]
        BY <2>1, <4>1
      <4>5. before < place
        BY <2>4, <4>2, <4>3
      <4>6. before <= place - 1
        BY <4>5
      <4>7. Place(layers[i], FALSE) = before
        BY <4>2, <4>4
      <4> QED
        BY <4>6, <4>7, Zenon
    <3> QED
      BY <3>1, <3>2
  <2>6. InPlace(layers', FALSE, 5)
    <3>1. place - 1 \in Int /\ place - 1 < place /\ place <= 5 /\ place \in Int
          /\ 5 \in Int
      OBVIOUS
    <3>2. InPlace(layers, FALSE, place - 1)
      BY <2>1, <2>2, <2>5 DEF InPlace
    <3>3. InPlace(Append(layers, h), FALSE, place)
      BY <2>3, <2>4, <3>1, <3>2, OneMore
    <3>4. InPlace(Append(layers, h), FALSE, 5)
      BY ONLY <3>1, <3>3, FurtherOn, Zenon
    <3> QED
      BY <1>4, <3>4 DEF h
  <2>7. /\ Len(layers') = n + 1 /\ layers'[n + 1] = h
        /\ \A i \in 1 .. n : layers'[i] = layers[i]
    BY <1>4, <2>2, <2>3 DEF h
  <2>8. ASSUME pc' = "stack"
        PROVE  /\ Len(layers') \in 1 .. Len(Stack)
               /\ layers'[1] = "base"
               /\ \A i \in 2 .. Len(layers') : layers'[i] = Stack[i - 1]
    <3>1. n # Len(Stack)
      BY <1>4, <2>8
    <3>2. Len(layers') \in 1 .. Len(Stack)
      BY <2>1, <2>2, <2>7, <3>1
    <3>3. layers'[1] = "base"
      BY <2>1, <2>2, <2>7
    <3>4. ASSUME NEW i \in 2 .. n + 1 PROVE layers'[i] = Stack[i - 1]
      <4>1. CASE i = n + 1
        <5>1. i - 1 = n
          BY <2>2, <4>1
        <5> QED
          BY <2>7, <4>1, <5>1 DEF h
      <4>2. CASE i # n + 1
        <5>1. i \in 2 .. n /\ i \in 1 .. n
          BY <2>2, <4>2
        <5> QED
          BY <2>1, <2>7, <5>1
      <4> QED
        BY <4>1, <4>2
    <3> QED
      BY <2>7, <3>2, <3>3, <3>4
  <2> QED
    BY <1>2, <2>6, <2>8 DEF LayersInv
<1> QED
  BY <1>3, <1>4 DEF OpenLayer

LEMMA LayersStay ==
  ASSUME LayersInv, UNCHANGED layers, pc' # "stack"
  PROVE  LayersInv'
  BY DEF LayersInv, InPlace

LEMMA HandlesStep ==
  ASSUME HandlesInv, [Next]_vars
  PROVE  HandlesInv'
<1> USE DEF configVars
<1>0. LayersInv
  BY DEF HandlesInv
<1>1. CASE ParseOption
  <2>1. pc = "options" /\ pc' \in {"options", "exit"} /\ UNCHANGED <<held, layers, closed>>
        /\ (pc' = "exit" => refused' = "arguments")
        /\ (pc' # "exit" => UNCHANGED refused)
    BY <1>1 DEF ParseOption, RefuseArguments
  <2>2. LayersInv'
    BY <1>0, <2>1, LayersStay
  <2>3. pc' = "exit" => HandlesReleased'
    <3>1. held' = {} /\ closed' = <<>>
      BY <2>1 DEF HandlesInv
    <3>2. DOMAIN closed' = {}
      BY <3>1
    <3> QED
      BY <2>1, <3>1, <3>2 DEF HandlesReleased, IsInjective
  <2> QED
    BY <2>1, <2>2, <2>3 DEF HandlesInv
<1>2. CASE EndOfOptions
  <2>1. pc = "options" /\ pc' \in {"open", "exit"} /\ UNCHANGED <<held, layers, closed>>
        /\ (pc' = "exit" => refused' = "arguments")
        /\ (pc' # "exit" => UNCHANGED refused)
    BY <1>2 DEF EndOfOptions, RefuseArguments
  <2>2. LayersInv'
    BY <1>0, <2>1, LayersStay
  <2>3. pc' = "exit" => HandlesReleased'
    <3>1. held' = {} /\ closed' = <<>>
      BY <2>1 DEF HandlesInv
    <3>2. DOMAIN closed' = {}
      BY <3>1
    <3> QED
      BY <2>1, <3>1, <3>2 DEF HandlesReleased, IsInjective
  <2> QED
    BY <2>1, <2>2, <2>3 DEF HandlesInv
<1>3. CASE OpenInput
  <2>1. CASE pc' # "stack"
    <3>1. LayersInv'
      BY <1>0, <1>3, <2>1, LayersStay DEF OpenInput
    <3> QED
      BY <1>3, <2>1, <3>1 DEF OpenInput, HandlesInv
  <2>2. CASE pc' = "stack"
    <3>1. /\ pc = "open" /\ held' = held \cup {"input_fp"} /\ layers' = <<"base">> /\ reader'
          /\ UNCHANGED <<refused, closed, input, params>>
      BY <1>3, <2>2 DEF OpenInput
    <3>2. refused = "nothing" /\ closed = <<>>
      BY <3>1 DEF HandlesInv
    <3>3. LayersInv'
      <4>1. layers' \in Seq(Handles) /\ Len(layers') = 1 /\ layers'[1] = "base"
        BY <3>1 DEF Handles, Readers
      <4>2. InPlace(layers', FALSE, 5)
        BY <4>1 DEF InPlace, Place
      <4>3. Stack' = Stack
        BY <3>1 DEF Stack, SmartPadding, IsFloat, InputFormat, Raw
      <4>4. Len(layers') \in 1 .. Len(Stack) /\ 2 .. Len(layers') = {}
        BY <4>1, StackInPlace
      <4> QED
        BY <4>1, <4>2, <4>3, <4>4 DEF LayersInv
    <3> QED
      BY <2>2, <3>1, <3>2, <3>3 DEF HandlesInv
  <2> QED
    BY <2>1, <2>2
<1>4. CASE OpenLayer
  <2>1. LayersInv'
    BY <1>0, <1>4, LayerStep
  <2> QED
    BY <1>4, <2>1 DEF OpenLayer, HandlesInv
<1>5. CASE InitEncoder
  <2>1. LayersInv'
    BY <1>0, <1>5, LayersStay DEF InitEncoder, End
  <2> QED
    BY <1>5, <2>1 DEF InitEncoder, End, HandlesInv
<1>6. CASE Configure
  <2>1. LayersInv'
    BY <1>0, <1>6, LayersStay DEF Configure, End
  <2>2. pc = "configure" /\ closed = <<>> /\ pc' \in {"output", "end"} /\ refused = "nothing"
        /\ reader /\ "input_fp" \in held /\ "encoder" \in held /\ UNCHANGED reader
    BY <1>6 DEF Configure, End, HandlesInv
  <2>3. CASE UNCHANGED <<held, closed, refused>> /\ pc' = "output"
    BY <2>1, <2>2, <2>3 DEF HandlesInv
  <2>4. CASE End("encoder") /\ held' = InitCleanup /\ closed' = Append(closed, "encoder")
    <3>1. closed' = <<"encoder">> /\ "encoder" \notin held' /\ "input_fp" \in held'
          /\ pc' = "end" /\ refused' = "encoder"
      BY <2>2, <2>4 DEF End, InitCleanup
    <3> QED
      BY <2>1, <2>2, <3>1 DEF HandlesInv
  <2> QED
    BY <1>6, <2>3, <2>4 DEF Configure
<1>7. CASE OpenOutput
  <2>1. LayersInv'
    BY <1>0, <1>7, LayersStay DEF OpenOutput
  <2> QED
    BY <1>7, <2>1 DEF OpenOutput, HandlesInv
<1>8. CASE CreateM4a
  <2>1. LayersInv'
    BY <1>0, <1>8, LayersStay DEF CreateM4a
  <2> QED
    BY <1>8, <2>1 DEF CreateM4a, HandlesInv
<1>9. CASE Encode
  <2>1. LayersInv'
    BY <1>0, <1>9, LayersStay DEF Encode
  <2> QED
    BY <1>9, <2>1 DEF Encode, HandlesInv
<1>10. CASE Finalize
  <2>1. LayersInv'
    BY <1>0, <1>10, LayersStay DEF Finalize
  <2> QED
    BY <1>10, <2>1 DEF Finalize, HandlesInv
<1>11. CASE TearDown
  <2>1. LayersInv'
    BY <1>0, <1>11, LayersStay DEF TearDown
  <2>2. HandlesReleased'
    BY <1>11, TearDownReleases
  <2>3. pc' = "exit" /\ refused' # "arguments"
    BY <1>11 DEF TearDown, HandlesInv
  <2> QED
    BY <2>1, <2>2, <2>3 DEF HandlesInv
<1>12. CASE UNCHANGED vars
  <2>1. UNCHANGED <<pc, held, layers, closed, refused, reader, input, params>>
    BY <1>12 DEF vars
  <2>2. LayersInv'
    BY <1>0, <2>1 DEF LayersInv, InPlace, Stack, SmartPadding, IsFloat, InputFormat, Raw
  <2>3. HandlesReleased' <=> HandlesReleased
    BY <2>1 DEF HandlesReleased
  <2> QED
    BY <2>1, <2>2, <2>3 DEF HandlesInv
<1> QED
  BY <1>1, <1>2, <1>3, <1>4, <1>5, <1>6, <1>7, <1>8, <1>9, <1>10, <1>11, <1>12 DEF Next, Over

\* However the run ends, every stream and handle is released exactly once, the
\* muxer before its file and the readers before theirs (HandlesReleased), for all
\* inputs, options and library versions and whatever fails.
THEOREM ReleasedOnce == Spec => []HandlesReleased
<1>1. Init => HandlesInv
  <2>1. ASSUME Init PROVE InPlace(<<>>, FALSE, 5)
    BY DEF InPlace
  <2> QED
    BY <2>1 DEF Init, HandlesInv, LayersInv
<1>2. HandlesInv => HandlesReleased
  <2> SUFFICES ASSUME HandlesInv, pc # "exit" PROVE HandlesReleased
    BY DEF HandlesInv
  <2>1. closed = <<>> \/ closed = <<"encoder">>
    BY DEF HandlesInv
  <2>2. \A i, j \in DOMAIN closed : i = j /\ closed[i] # "m4af" /\ closed[i] # "base"
    BY <2>1
  <2> QED
    BY <2>2 DEF HandlesReleased, IsInjective
<1> QED
  BY <1>1, <1>2, HandlesStep, PTL DEF Spec

-----------------------------------------------------------------------------
(***************************************************************************)
(* The channels.                                                           *)
(***************************************************************************)

\* Numbers that are told apart by their keys come out of a sort once each, in the
\* order of the keys.
LEMMA SortedInOrder ==
  ASSUME NEW S, IsFiniteSet(S), NEW key,
         \A x \in S : key[x] \in Int,
         \A x, y \in S : key[x] = key[y] => x = y
  PROVE  LET s == Sorted(S, key)
             n == Cardinality(S)
         IN  /\ n \in Nat /\ s \in Seq(S) /\ Len(s) = n /\ DOMAIN s = 1 .. n
             /\ \A i \in 1 .. n : s[i] \in S
             /\ \A i, j \in 1 .. n : i < j => key[s[i]] < key[s[j]]
             /\ \A x \in S : \E i \in 1 .. n : s[i] = x
<1> DEFINE n == Cardinality(S)
           Below(x) == {y \in S : key[y] < key[x]}
           rank == [x \in S |-> Cardinality(Below(x))]
<1>1. n \in Nat
  BY FS_CardinalityType
<1>2. ASSUME NEW x \in S
      PROVE  IsFiniteSet(Below(x)) /\ rank[x] = Cardinality(Below(x)) /\ rank[x] \in 0 .. n - 1
  <2>1. Below(x) \in SUBSET (S \ {x})
    OBVIOUS
  <2>2. IsFiniteSet(S \ {x}) /\ Cardinality(S \ {x}) = n - 1
    BY FS_RemoveElement
  <2>3. IsFiniteSet(Below(x)) /\ Cardinality(Below(x)) <= n - 1
    <3> HIDE DEF Below
    <3> QED
      BY <2>1, <2>2, FS_Subset
  <2>4. Cardinality(Below(x)) \in Nat
    <3> HIDE DEF Below
    <3> QED
      BY <2>3, FS_CardinalityType
  <2> HIDE DEF Below
  <2>5. rank[x] = Cardinality(Below(x))
    OBVIOUS
  <2> HIDE DEF n, rank
  <2> QED
    BY <1>1, <2>3, <2>4, <2>5
<1>3. ASSUME NEW x \in S, NEW y \in S, key[x] < key[y]
      PROVE  rank[x] < rank[y]
  <2>1. Below(x) \cup {x} \in SUBSET Below(y) /\ x \notin Below(x)
    BY <1>3
  <2> HIDE DEF Below
  <2>2. IsFiniteSet(Below(x)) /\ IsFiniteSet(Below(y))
    BY <1>2
  <2>3. Cardinality(Below(x) \cup {x}) = Cardinality(Below(x)) + 1
    BY <2>1, <2>2, FS_AddElement
  <2>4. Cardinality(Below(x) \cup {x}) <= Cardinality(Below(y))
    BY <2>1, <2>2, FS_Subset
  <2>5. /\ rank[x] = Cardinality(Below(x)) /\ rank[y] = Cardinality(Below(y))
        /\ rank[x] \in Int /\ rank[y] \in Int
    BY <1>1, <1>2
  <2> HIDE DEF rank
  <2> QED
    BY <2>3, <2>4, <2>5
<1> HIDE DEF Below
<1>4. \A x, y \in S : rank[x] = rank[y] => x = y
  <2> SUFFICES ASSUME NEW x \in S, NEW y \in S, x # y PROVE rank[x] # rank[y]
    OBVIOUS
  <2>1. key[x] < key[y] \/ key[y] < key[x]
    <3>1. key[x] \in Int /\ key[y] \in Int /\ key[x] # key[y]
      OBVIOUS
    <3> QED
      BY <3>1
  <2>2. rank[x] \in Int /\ rank[y] \in Int
    BY <1>1, <1>2
  <2> HIDE DEF rank
  <2> QED
    BY <1>3, <2>1, <2>2
<1>5. \A r \in 0 .. n - 1 : \E x \in S : rank[x] = r
  <2>1. rank \in Injection(S, 0 .. n - 1)
    <3>1. rank \in [S -> 0 .. n - 1] /\ DOMAIN rank = S
      BY <1>2
    <3> HIDE DEF rank
    <3> QED
      BY <1>4, <3>1 DEF Injection, IsInjective
  <2>2. IsFiniteSet(0 .. n - 1) /\ Cardinality(0 .. n - 1) = n
    BY <1>1, FS_Interval
  <2>3. rank \in Surjection(S, 0 .. n - 1)
    <3> HIDE DEF rank
    <3> QED
      BY <2>1, <2>2, FS_Injection
  <2> HIDE DEF rank
  <2> QED
    BY <2>3 DEF Surjection
<1> DEFINE s == Sorted(S, key)
<1>6. ASSUME NEW i \in 1 .. n
      PROVE  s[i] \in S /\ rank[s[i]] = i - 1
  <2>1. s[i] = CHOOSE x \in S : Cardinality(Below(x)) = i - 1
    BY DEF Sorted, Below
  <2>2. i - 1 \in 0 .. n - 1
    BY <1>1
  <2>3. \E x \in S : Cardinality(Below(x)) = i - 1
    BY <1>2, <1>5, <2>2
  <2>4. s[i] \in S /\ Cardinality(Below(s[i])) = i - 1
    <3> HIDE DEF s
    <3> QED
      BY <2>1, <2>3
  <2> QED
    BY <1>2, <2>4
<1>7. s \in Seq(S) /\ Len(s) = n /\ DOMAIN s = 1 .. n
  <2> DEFINE At(i) == CHOOSE x \in S : Cardinality({y \in S : key[y] < key[x]}) = i - 1
  <2>1. s = [i \in 1 .. n |-> At(i)]
    BY DEF Sorted
  <2> HIDE DEF At, s
  <2>2. DOMAIN s = 1 .. n /\ s = [i \in 1 .. n |-> s[i]]
    BY <2>1
  <2> HIDE DEF n
  <2>3. s \in [1 .. n -> S]
    BY <1>6, <2>2
  <2> QED
    BY <1>1, <2>2, <2>3
<1> HIDE DEF s, rank
<1>8. ASSUME NEW i \in 1 .. n, NEW j \in 1 .. n, i < j
      PROVE  key[s[i]] < key[s[j]]
  <2>1. /\ s[i] \in S /\ s[j] \in S /\ rank[s[i]] < rank[s[j]]
        /\ rank[s[i]] \in Int /\ rank[s[j]] \in Int
    BY <1>1, <1>6, <1>8
  <2>2. ~(key[s[j]] < key[s[i]])
    BY <1>3, <2>1
  <2>3. key[s[i]] # key[s[j]]
    BY <2>1
  <2>4. key[s[i]] \in Int /\ key[s[j]] \in Int
    BY <2>1
  <2> QED
    BY <2>2, <2>3, <2>4
<1>9. ASSUME NEW x \in S PROVE \E i \in 1 .. n : s[i] = x
  <2>1. PICK r \in 0 .. n - 1 : r = rank[x]
    BY <1>2
  <2>2. r + 1 \in 1 .. n /\ r = (r + 1) - 1
    BY <1>1
  <2>3. s[r + 1] \in S /\ rank[s[r + 1]] = rank[x]
    BY <1>6, <2>1, <2>2
  <2> QED
    BY <1>4, <2>2, <2>3
<1> QED
  BY <1>1, <1>6, <1>7, <1>8, <1>9 DEF s

\* As many values as places: no two are alike.
LEMMA AllDifferent ==
  ASSUME NEW n \in Nat, NEW f, DOMAIN f = 1 .. n, Cardinality(ToSet(f)) = n
  PROVE  \A i, j \in 1 .. n : f[i] = f[j] => i = j
<1> DEFINE g == [i \in 1 .. n |-> f[i]]
<1>1. g \in Surjection(1 .. n, ToSet(f))
  BY DEF Surjection, ToSet
<1>2. IsFiniteSet(1 .. n) /\ Cardinality(1 .. n) = n
  BY FS_Interval
<1>3. g \in Injection(1 .. n, ToSet(f))
  <2> HIDE DEF g
  <2> QED
    BY <1>1, <1>2, FS_Surjection
<1>4. \A i, j \in 1 .. n : g[i] = g[j] => i = j
  BY <1>3 DEF Injection, IsInjective
<1> QED
  BY <1>4

\* A set of distinct numbers has as many elements as are listed.
LEMMA Counted ==
  /\ Cardinality({1, 2}) = 2 /\ Cardinality({3}) = 1 /\ Cardinality({1, 2, 3}) = 3
  /\ Cardinality({1, 2, 3, 9}) = 4
  /\ Cardinality({1, 2, 3, 5, 6}) = 5 /\ Cardinality({1, 2, 3, 10, 11}) = 5
  /\ Cardinality(1 .. 6) = 6 /\ Cardinality({1, 2, 3, 4, 10, 11}) = 6
  /\ Cardinality((1 .. 6) \cup {9}) = 7
  /\ Cardinality(1 .. 8) = 8 /\ Cardinality((1 .. 6) \cup {10, 11}) = 8
  /\ Cardinality((1 .. 6) \cup {13, 15}) = 8
  /\ Cardinality({1, 2, 3, 4, 10, 11, 13, 15}) = 8
<1>1. ASSUME NEW n \in Nat, NEW S, IsFiniteSet(S), Cardinality(S) = n, NEW x, x \notin S
      PROVE  IsFiniteSet(S \cup {x}) /\ Cardinality(S \cup {x}) = n + 1
  BY <1>1, FS_AddElement
<1>2. ASSUME NEW n \in Nat, NEW S, IsFiniteSet(S), Cardinality(S) = n,
             NEW x, NEW y, x \notin S, y \notin S, x # y
      PROVE  Cardinality(S \cup {x, y}) = n + 2 /\ IsFiniteSet(S \cup {x, y})
  <2>1. IsFiniteSet(S \cup {x}) /\ Cardinality(S \cup {x}) = n + 1
    BY <1>1, <1>2
  <2>2. y \notin S \cup {x} /\ S \cup {x, y} = (S \cup {x}) \cup {y}
    BY <1>2
  <2>3. IsFiniteSet((S \cup {x}) \cup {y}) /\ Cardinality((S \cup {x}) \cup {y}) = (n + 1) + 1
    BY <1>1, <2>1, <2>2
  <2> QED
    BY <2>2, <2>3
<1>3. ASSUME NEW n \in Nat PROVE IsFiniteSet(1 .. n) /\ Cardinality(1 .. n) = n
  BY FS_Interval
<1>4. ASSUME NEW n \in Nat, NEW x \in Int, n < x
      PROVE  Cardinality((1 .. n) \cup {x}) = n + 1
  <2>1. x \notin 1 .. n
    BY <1>4
  <2> QED
    BY <1>1, <1>3, <2>1
<1>5. ASSUME NEW n \in Nat, NEW x \in Int, NEW y \in Int, n < x, x < y
      PROVE  IsFiniteSet((1 .. n) \cup {x, y}) /\ Cardinality((1 .. n) \cup {x, y}) = n + 2
  <2>1. x \notin 1 .. n /\ y \notin 1 .. n /\ x # y
    BY <1>5
  <2> DEFINE S == 1 .. n
  <2>2. IsFiniteSet(S) /\ Cardinality(S) = n /\ x \notin S /\ y \notin S
    BY <1>3, <2>1
  <2> HIDE DEF S
  <2>3. IsFiniteSet(S \cup {x, y}) /\ Cardinality(S \cup {x, y}) = n + 2
    BY <1>2, <2>1, <2>2
  <2> QED
    BY <2>3 DEF S
<1>6. {1, 2} = 1 .. 2 /\ {1, 2, 3} = 1 .. 3 /\ {1, 2, 3, 4} = 1 .. 4
  OBVIOUS
<1>7. Cardinality(1 .. 2) = 2 /\ Cardinality(1 .. 3) = 3 /\ Cardinality(1 .. 6) = 6
      /\ Cardinality(1 .. 8) = 8
  BY <1>3
<1>8. Cardinality((1 .. 3) \cup {9}) = 3 + 1 /\ Cardinality((1 .. 6) \cup {9}) = 6 + 1
  <2>1. {3, 6} \subseteq Nat /\ 9 \in Int /\ 3 < 9 /\ 6 < 9
    OBVIOUS
  <2> QED
    BY <1>4, <2>1, Zenon
<1>9. /\ Cardinality((1 .. 3) \cup {5, 6}) = 3 + 2 /\ Cardinality((1 .. 3) \cup {10, 11}) = 3 + 2
      /\ Cardinality((1 .. 6) \cup {10, 11}) = 6 + 2 /\ Cardinality((1 .. 6) \cup {13, 15}) = 6 + 2
  <2>1. {3, 6} \subseteq Nat /\ {5, 6, 10, 11, 13, 15} \subseteq Int
        /\ 3 < 5 /\ 5 < 6 /\ 3 < 10 /\ 10 < 11 /\ 6 < 10 /\ 6 < 13 /\ 13 < 15
    OBVIOUS
  <2> QED
    BY <1>5, <2>1, Zenon
<1>10. /\ Cardinality((1 .. 4) \cup {10, 11}) = 4 + 2 /\ IsFiniteSet((1 .. 4) \cup {10, 11})
  <2>1. 4 \in Nat /\ 10 \in Int /\ 11 \in Int /\ 4 < 10 /\ 10 < 11
    OBVIOUS
  <2> QED
    BY <1>5, <2>1, Zenon
<1>11. Cardinality(((1 .. 4) \cup {10, 11}) \cup {13, 15}) = 6 + 2
  <2> DEFINE S == (1 .. 4) \cup {10, 11}
  <2>1. 13 \notin S /\ 15 \notin S /\ 13 # 15 /\ IsFiniteSet(S) /\ Cardinality(S) = 6 /\ 6 \in Nat
    BY <1>10
  <2> HIDE DEF S
  <2>2. Cardinality(S \cup {13, 15}) = 6 + 2
    BY <1>2, <2>1
  <2> QED
    BY <2>2 DEF S
<1>12. /\ {1, 2, 3, 9} = {1, 2, 3} \cup {9} /\ {1, 2, 3, 5, 6} = {1, 2, 3} \cup {5, 6}
       /\ {1, 2, 3, 10, 11} = {1, 2, 3} \cup {10, 11}
       /\ {1, 2, 3, 4, 10, 11} = {1, 2, 3, 4} \cup {10, 11}
       /\ {1, 2, 3, 4, 10, 11, 13, 15} = ({1, 2, 3, 4} \cup {10, 11}) \cup {13, 15}
  OBVIOUS
<1>13. Cardinality({3}) = 1
  BY FS_Singleton
<1>14. 3 + 1 = 4 /\ 6 + 1 = 7 /\ 3 + 2 = 5 /\ 6 + 2 = 8 /\ 4 + 2 = 6
  OBVIOUS
<1>15. Cardinality({1, 2}) = 2 /\ Cardinality({1, 2, 3}) = 3
  BY <1>6, <1>7, Zenon
<1>16. /\ Cardinality({1, 2, 3, 9}) = 4 /\ Cardinality({1, 2, 3, 5, 6}) = 5
       /\ Cardinality({1, 2, 3, 10, 11}) = 5
  BY <1>6, <1>8, <1>9, <1>12, <1>14, Zenon
<1>17. /\ Cardinality({1, 2, 3, 4, 10, 11}) = 6
       /\ Cardinality({1, 2, 3, 4, 10, 11, 13, 15}) = 8
  BY <1>6, <1>10, <1>11, <1>12, <1>14, Zenon
<1>18. /\ Cardinality(1 .. 6 \cup {9}) = 7 /\ Cardinality(1 .. 6 \cup {10, 11}) = 8
       /\ Cardinality(1 .. 6 \cup {13, 15}) = 8
  BY <1>8, <1>9, <1>14, Zenon
<1> QED
  BY <1>7, <1>13, <1>15, <1>16, <1>17, <1>18, Zenon

\* The encoder runs in a mode of as many channels as there are.
LEMMA ModeFits ==
  ASSUME NEW channels, NEW mask, NEW eight, NEW seven,
         mask = {} \/ Cardinality(mask) = channels,
         NEW mode \in ChannelModes(channels, mask, eight, seven)
  PROVE  ModeChannels[mode] = channels
<1> DEFINE m == IF mask = {} THEN DefaultMask(channels) ELSE mask
<1>1. PICK r \in ModeTable(eight, seven) : r[2] = m /\ mode = r[1]
  BY DEF ChannelModes
<1>2. r[2] # {}
  BY DEF ModeTable
<1>3. ModeChannels[r[1]] = Cardinality(r[2])
  <2>1. r \in ModeTable(TRUE, TRUE)
    BY DEF ModeTable
  <2> QED
    BY <2>1, Counted, SMTT(60) DEF ModeTable, ModeChannels
<1>4. mask = {} /\ m # {} => Cardinality(m) = channels
  BY Counted DEF DefaultMask
<1> QED
  BY <1>1, <1>2, <1>3, <1>4

\* A chan chunk as it can be in a file.
ChanInput(chan) ==
  /\ chan.kind \in {"none", "bitmap", "descriptions", "tag"}
  /\ chan.kind = "bitmap" => IsFiniteSet(chan.mask) /\ chan.mask \subseteq Nat
  /\ chan.kind = "descriptions" => chan.labels \in Seq(Nat)

LEMMA TableHasLabels ==
  ASSUME NEW channels \in 1 .. 8, NEW tag \in DOMAIN TagTable(channels)
  PROVE  TagTable(channels)[tag] \in [1 .. channels -> Nat]
<1>1. CASE channels = 1
  BY <1>1, SMTT(60) DEF TagTable
<1>2. CASE channels = 2
  BY <1>2, SMTT(60) DEF TagTable
<1>3. CASE channels = 3
  BY <1>3, SMTT(60) DEF TagTable
<1>4. CASE channels = 4
  BY <1>4, SMTT(60) DEF TagTable
<1>5. CASE channels = 5
  BY <1>5, SMTT(60) DEF TagTable
<1>6. CASE channels = 6
  BY <1>6, SMTT(60) DEF TagTable
<1>7. CASE channels = 7
  BY <1>7, SMTT(60) DEF TagTable
<1>8. CASE channels = 8
  BY <1>8, SMTT(60) DEF TagTable
<1> QED
  BY <1>1, <1>2, <1>3, <1>4, <1>5, <1>6, <1>7, <1>8

\* A chunk that is accepted names each channel once.
LEMMA LabelsTellApart ==
  ASSUME NEW channels \in 1 .. 8, NEW chan, ChanInput(chan), chan.kind # "none",
         AcceptsChan(chan, channels)
  PROVE  LET labels == Labels(chan, channels)
         IN  /\ DOMAIN labels = 1 .. channels
             /\ \A i \in 1 .. channels : labels[i] \in Int
             /\ \A i, j \in 1 .. channels : labels[i] = labels[j] => i = j
<1> DEFINE labels == Labels(chan, channels)
<1>1. Len(labels) = channels /\ Cardinality(ToSet(labels)) = channels
  BY DEF AcceptsChan
<1>2. DOMAIN labels = 1 .. channels /\ \A i \in 1 .. channels : labels[i] \in Int
  <2>1. CASE labels \in Seq(Nat)
    <3> HIDE DEF labels
    <3> QED
      BY <1>1, <2>1
  <2>2. CASE chan.kind = "bitmap"
    <3> DEFINE key == [l \in chan.mask |-> l]
    <3>1. /\ IsFiniteSet(chan.mask) /\ chan.mask \subseteq Nat
          /\ \A x \in chan.mask : key[x] = x
      BY <2>2 DEF ChanInput
    <3>2. labels = Sorted(chan.mask, key)
      BY <2>2 DEF Labels
    <3> HIDE DEF key
    <3>3. \A x \in chan.mask : key[x] \in Int
      BY <3>1
    <3>4. PICK n \in Nat : /\ Len(Sorted(chan.mask, key)) = n
                           /\ DOMAIN Sorted(chan.mask, key) = 1 .. n
                           /\ \A i \in 1 .. n : Sorted(chan.mask, key)[i] \in chan.mask
      BY <3>1, <3>3, SortedInOrder
    <3> HIDE DEF labels
    <3> QED
      BY <1>1, <3>1, <3>2, <3>4
  <2>3. CASE chan.kind = "descriptions"
    <3>1. chan.labels \in Seq(Nat)
      BY <2>3 DEF ChanInput
    <3>2. labels = Translated(chan.labels) \/ labels = <<>>
      BY <2>3 DEF Labels
    <3>3. Translated(chan.labels) \in Seq(Nat)
      BY <3>1, SMTT(60) DEF Translated, Surrounds, Sides, Rears, Mono, Center
    <3>4. labels \in Seq(Nat)
      <4> HIDE DEF labels
      <4>1. <<>> \in Seq(Nat)
        OBVIOUS
      <4> QED
        BY ONLY <3>2, <3>3, <4>1, Zenon
    <3> QED
      BY <2>1, <3>4
  <2>4. CASE chan.kind = "tag"
    <3>1. CASE chan.tag \in DOMAIN TagTable(channels)
      <4>1. labels = TagTable(channels)[chan.tag]
        BY <2>4, <3>1 DEF Labels
      <4>2. labels \in [1 .. channels -> Nat]
        BY <3>1, <4>1, TableHasLabels
      <4> QED
        BY <4>2
    <3>2. CASE chan.tag \notin DOMAIN TagTable(channels)
      <4>1. labels = <<>>
        BY <2>4, <3>2 DEF Labels
      <4>2. labels \in Seq(Nat)
        BY <4>1
      <4> QED
        BY <2>1, <4>2
    <3> QED
      BY <3>1, <3>2
  <2> QED
    BY <2>2, <2>3, <2>4 DEF ChanInput
<1> HIDE DEF labels
<1>3. channels \in Nat
  OBVIOUS
<1>4. \A i, j \in 1 .. channels : labels[i] = labels[j] => i = j
  BY <1>1, <1>2, <1>3, AllDifferent
<1> QED
  BY <1>2, <1>4 DEF labels

\* What the encoder gets is the channels of the file, in the order of their labels.
LEMMA FrameInPlace ==
  ASSUME NEW channels \in 1 .. 8, NEW chan, ChanInput(chan), chan.kind # "none",
         AcceptsChan(chan, channels)
  PROVE  LET labels == Labels(chan, channels)
             frame == Reordered([i \in 1 .. channels |-> i], Mapping(labels))
         IN  /\ IsInjective(frame) /\ ToSet(frame) = 1 .. channels
             /\ \A i, j \in DOMAIN frame : i < j => labels[frame[i]] < labels[frame[j]]
<1> DEFINE labels == Labels(chan, channels)
           file == [i \in 1 .. channels |-> i]
           mapping == Mapping(labels)
           frame == Reordered(file, mapping)
<1>1. /\ DOMAIN labels = 1 .. channels
      /\ \A i \in 1 .. channels : labels[i] \in Int
      /\ \A i, j \in 1 .. channels : labels[i] = labels[j] => i = j
  BY LabelsTellApart
<1>2. IsFiniteSet(1 .. channels) /\ Cardinality(1 .. channels) = channels
  <2>1. 1 \in Int /\ channels \in Int /\ ~(1 > channels) /\ (channels - 1) + 1 = channels
    OBVIOUS
  <2> QED
    BY <2>1, FS_Interval
<1>3. mapping = Sorted(1 .. channels, labels)
  BY <1>1 DEF Mapping
<1> HIDE DEF labels
<1>4. /\ DOMAIN mapping = 1 .. channels
      /\ \A i \in 1 .. channels : mapping[i] \in 1 .. channels
      /\ \A i, j \in 1 .. channels : i < j => labels[mapping[i]] < labels[mapping[j]]
      /\ \A x \in 1 .. channels : \E i \in 1 .. channels : mapping[i] = x
  <2> DEFINE S == 1 .. channels
             s == Sorted(S, labels)
  <2>1. /\ IsFiniteSet(S) /\ Cardinality(S) = channels
        /\ \A x \in S : labels[x] \in Int
        /\ \A x, y \in S : labels[x] = labels[y] => x = y
    BY <1>1, <1>2
  <2> HIDE DEF S
  <2>2. /\ DOMAIN s = 1 .. channels
        /\ \A i \in 1 .. channels : s[i] \in S
        /\ \A i, j \in 1 .. channels : i < j => labels[s[i]] < labels[s[j]]
        /\ \A x \in S : \E i \in 1 .. channels : s[i] = x
    BY <2>1, SortedInOrder
  <2> QED
    BY <1>3, <2>2 DEF S
<1> HIDE DEF mapping
<1>5. DOMAIN frame = 1 .. channels /\ \A j \in 1 .. channels : frame[j] = mapping[j]
  BY <1>4 DEF Reordered
<1> HIDE DEF frame
<1>6. ASSUME NEW i \in 1 .. channels, NEW j \in 1 .. channels, frame[i] = frame[j]
      PROVE  i = j
  <2>1. ~(labels[mapping[i]] < labels[mapping[j]]) /\ ~(labels[mapping[j]] < labels[mapping[i]])
    <3>1. mapping[i] = mapping[j]
      BY <1>5, <1>6
    <3>2. labels[mapping[i]] \in Int
      BY <1>1, <1>4
    <3> QED
      BY <3>1, <3>2
  <2> QED
    BY <1>4, <2>1
<1>7. IsInjective(frame)
  BY <1>5, <1>6 DEF IsInjective
<1>8. ToSet(frame) = 1 .. channels
  BY <1>4, <1>5 DEF ToSet
<1>9. \A i, j \in DOMAIN frame : i < j => labels[frame[i]] < labels[frame[j]]
  BY <1>4, <1>5
<1> QED
  BY <1>7, <1>8, <1>9 DEF frame, mapping, labels

\* From open_input() on the format has been accepted, and nothing is delivered
\* before encode().
ChannelsInv ==
  /\ input.channels \in Nat /\ ChanInput(input.chan)
  /\ DOMAIN params = DOMAIN Defaults
  /\ pc \in {"stack", "init", "configure", "output", "create", "encode"} => FormatAccepted
  /\ delivered # <<>> => pc \in {"finalize", "end", "exit"}
  /\ ChannelsInPlace

LEMMA DeliveredInPlace ==
  ASSUME ChannelsInv, Encode
  PROVE  ChannelsInPlace'
<1>1. UNCHANGED <<input, params, lib>> /\ (delivered' = delivered \/ delivered' = FrameRead)
  BY DEF Encode, configVars
<1>2. FormatAccepted /\ delivered = <<>>
  BY DEF Encode, ChannelsInv
<1>3. /\ Channels' = Channels /\ ChannelMask' = ChannelMask /\ HasChan' = HasChan
      /\ Modes' = Modes /\ input' = input
  BY <1>1 DEF Channels, ChannelMask, HasChan, Modes, Raw
<1> SUFFICES ASSUME FrameRead # <<>>, ChannelMask = {} \/ Cardinality(ChannelMask) = Channels
             PROVE  /\ IsInjective(FrameRead) /\ ToSet(FrameRead) = 1 .. Channels
                    /\ HasChan => LET labels == Labels(input.chan, Channels)
                                  IN  \A i, j \in DOMAIN FrameRead :
                                        i < j => labels[FrameRead[i]] < labels[FrameRead[j]]
                    /\ \A mode \in Modes : ModeChannels[mode] = Channels
  BY <1>1, <1>2, <1>3 DEF ChannelsInPlace
<1>4. \A mode \in Modes : ModeChannels[mode] = Channels
  BY ModeFits DEF Modes
<1>5. CASE HasChan
  <2>1. Channels \in 1 .. 8 /\ AcceptsChan(input.chan, Channels)
        /\ ChanInput(input.chan) /\ input.chan.kind # "none"
    BY <1>2, <1>5 DEF FormatAccepted, HasChan, ChannelsInv
  <2>2. FrameRead = Reordered([i \in 1 .. Channels |-> i], Mapping(Labels(input.chan, Channels)))
    BY <1>5 DEF FrameRead, FrameOfFile
  <2> QED
    BY <1>4, <2>1, <2>2, FrameInPlace
<1>6. CASE ~HasChan
  <2>1. FrameRead = [i \in 1 .. Channels |-> i]
    BY <1>6 DEF FrameRead, FrameOfFile
  <2> QED
    BY <1>4, <1>6, <2>1 DEF IsInjective, ToSet
<1> QED
  BY <1>5, <1>6

LEMMA ChannelsStay ==
  ASSUME ChannelsInPlace, UNCHANGED <<input, params, lib, delivered>>
  PROVE  ChannelsInPlace'
  BY DEF ChannelsInPlace, Channels, ChannelMask, HasChan, Modes, Raw

LEMMA FormatStays ==
  ASSUME UNCHANGED input, params'.is_raw = params.is_raw,
         params'.raw_format = params.raw_format, params'.raw_channels = params.raw_channels
  PROVE  FormatAccepted' <=> FormatAccepted
  BY DEF FormatAccepted, InputFormat, Channels, HasChan, Raw

LEMMA ChannelsStep ==
  ASSUME ChannelsInv, [Next]_vars
  PROVE  ChannelsInv'
<1> USE DEF configVars
<1>0. ChannelsInPlace
  BY DEF ChannelsInv
<1>1. CASE ParseOption
  <2>1. pc = "options" /\ pc' \in {"options", "exit"} /\ delivered' = <<>> /\ input' = input
    BY <1>1 DEF ParseOption, RefuseArguments, ChannelsInv
  <2>2. DOMAIN params' = DOMAIN Defaults
    BY <1>1 DEF ParseOption, RefuseArguments, ChannelsInv
  <2>3. ChannelsInPlace'
    BY <2>1 DEF ChannelsInPlace
  <2> QED
    BY <2>1, <2>2, <2>3 DEF ChannelsInv
<1>2. CASE EndOfOptions
  <2>1. pc = "options" /\ pc' \in {"open", "exit"} /\ delivered' = <<>> /\ input' = input
    BY <1>2 DEF EndOfOptions, RefuseArguments, ChannelsInv
  <2>2. DOMAIN params' = DOMAIN Defaults
    <3>1. DOMAIN params = DOMAIN Defaults
      BY DEF ChannelsInv
    <3>2. CASE RefuseArguments
      BY <1>2, <3>1, <3>2 DEF EndOfOptions, RefuseArguments
    <3>3. CASE ~RefuseArguments
      <4> DEFINE bitrate == IF params.bitrate < 10000 THEN params.bitrate * 1000 ELSE params.bitrate
                 channels == IF params.is_raw = 1 /\ params.raw_channels = 0
                               THEN 2 ELSE params.raw_channels
      <4>1. \/ params' = params
            \/ params' = [params EXCEPT !.bitrate = bitrate, !.raw_channels = channels]
        BY <1>2, <3>3 DEF EndOfOptions
      <4> HIDE DEF bitrate, channels
      <4> QED
        BY <3>1, <4>1
    <3> QED
      BY <3>2, <3>3
  <2>3. ChannelsInPlace'
    BY <2>1 DEF ChannelsInPlace
  <2> QED
    BY <2>1, <2>2, <2>3 DEF ChannelsInv
<1>3. CASE OpenInput
  <2>1. /\ UNCHANGED <<input, params, lib, delivered>> /\ pc = "open"
        /\ \/ pc' = "stack" /\ FormatAccepted
           \/ pc' \in {"end", "crash"}
    BY <1>3 DEF OpenInput
  <2>2. ChannelsInPlace' /\ (FormatAccepted' <=> FormatAccepted)
    BY <1>0, <2>1, ChannelsStay, FormatStays
  <2> QED
    BY <2>1, <2>2 DEF ChannelsInv
<1>4. CASE OpenLayer
  <2>1. /\ UNCHANGED <<input, params, lib, delivered>> /\ pc = "stack"
        /\ pc' \in {"init", "stack", "end"}
    BY <1>4 DEF OpenLayer
  <2>2. ChannelsInPlace' /\ (FormatAccepted' <=> FormatAccepted)
    BY <1>0, <2>1, ChannelsStay, FormatStays
  <2> QED
    BY <2>1, <2>2 DEF ChannelsInv
<1>5. CASE InitEncoder
  <2>1. /\ UNCHANGED <<input, lib, delivered>> /\ pc = "init" /\ pc' \in {"configure", "end"}
        /\ delivered' = <<>>
    BY <1>5 DEF InitEncoder, End, ChannelsInv
  <2>2. /\ DOMAIN params' = DOMAIN Defaults /\ params'.is_raw = params.is_raw
        /\ params'.raw_format = params.raw_format /\ params'.raw_channels = params.raw_channels
    BY <1>5 DEF InitEncoder, ChannelsInv, Defaults
  <2>3. FormatAccepted' <=> FormatAccepted
    BY <2>1, <2>2, FormatStays
  <2>4. ChannelsInPlace'
    BY <2>1 DEF ChannelsInPlace
  <2> QED
    BY <2>1, <2>2, <2>3, <2>4 DEF ChannelsInv
<1>6. CASE Configure \/ OpenOutput \/ CreateM4a
  <2>1. /\ UNCHANGED <<input, params, lib, delivered>>
        /\ pc \in {"configure", "output", "create"}
        /\ pc' \in {"output", "create", "encode", "end", "crash"}
    BY <1>6 DEF Configure, End, OpenOutput, CreateM4a
  <2>2. ChannelsInPlace' /\ (FormatAccepted' <=> FormatAccepted)
    BY <1>0, <2>1, ChannelsStay, FormatStays
  <2> QED
    BY <2>1, <2>2 DEF ChannelsInv
<1>7. CASE Encode
  <2>1. UNCHANGED <<input, params>> /\ pc' \in {"finalize", "end"}
    BY <1>7 DEF Encode
  <2>2. ChannelsInPlace'
    BY <1>7, DeliveredInPlace
  <2> QED
    BY <2>1, <2>2 DEF ChannelsInv
<1>8. CASE Finalize \/ TearDown
  <2>1. UNCHANGED <<input, params, lib, delivered>> /\ pc' \in {"end", "exit"}
    BY <1>8 DEF Finalize, TearDown
  <2>2. ChannelsInPlace'
    BY <1>0, <2>1, ChannelsStay
  <2> QED
    BY <2>1, <2>2 DEF ChannelsInv
<1>9. CASE UNCHANGED vars
  <2>1. UNCHANGED <<input, params, lib, delivered, pc>>
    BY <1>9 DEF vars
  <2>2. ChannelsInPlace' /\ (FormatAccepted' <=> FormatAccepted)
    BY <1>0, <2>1, ChannelsStay, FormatStays
  <2> QED
    BY <2>1, <2>2 DEF ChannelsInv
<1> QED
  BY <1>1, <1>2, <1>3, <1>4, <1>5, <1>6, <1>7, <1>8, <1>9 DEF Next, Over

\* Whatever labels a CAF file gives its channels and in whatever order, the encoder
\* gets each of them once, in the order of the bits of the mask, and runs in a mode
\* of as many channels (ChannelsInPlace).
THEOREM ChannelsAlwaysInPlace == Spec => []ChannelsInPlace
<1>1. Init => ChannelsInv
  <2> SUFFICES ASSUME Init PROVE ChannelsInv
    OBVIOUS
  <2>1. PICK c \in Cases : input = c.input
    BY DEF Init
  <2>2. input.channels \in Nat /\ ChanInput(input.chan)
    BY <2>1, CasesAssumption DEF ChanInput
  <2>3. params = Defaults /\ pc = "options" /\ delivered = <<>>
    BY DEF Init
  <2> QED
    BY <2>2, <2>3 DEF ChannelsInv, ChannelsInPlace
<1>2. ChannelsInv => ChannelsInPlace
  BY DEF ChannelsInv
<1> QED
  BY <1>1, <1>2, ChannelsStep, PTL DEF Spec

-----------------------------------------------------------------------------
(***************************************************************************)
(* Powers of two.                                                          *)
(***************************************************************************)
Positive == Nat \ {0}
Doubling == [i \in Nat |-> [v \in Positive |-> 2 * v]]

\* Values(n) is the end of a chain of n doublings.
LEMMA ValuesChain ==
  ASSUME NEW n \in Nat
  PROVE  \E g : Unfolds(g, Positive, n, 1, Doubling) /\ Values(n) = g[n]
<1> DEFINE twice[i \in 0 .. n] == IF i = 0 THEN 1 ELSE 2 * twice[i - 1]
<1>1. 1 \in Positive /\ Doubling \in [Nat -> [Positive -> Positive]]
  BY DEF Positive, Doubling
<1>2. PICK g : Unfolds(g, Positive, n, 1, Doubling)
  <2> HIDE DEF Positive, Doubling
  <2> QED
    BY <1>1, Recursion
<1>3. g = [i \in 0 .. n |-> IF i = 0 THEN 1 ELSE 2 * g[i - 1]]
  <2>1. g \in [0 .. n -> Positive] /\ g[0] = 1
    BY <1>2 DEF Unfolds
  <2>2. ASSUME NEW i \in 1 .. n PROVE g[i] = 2 * g[i - 1]
    <3>1. g[i] = Doubling[i][g[i - 1]] /\ g[i - 1] \in Positive /\ i \in Nat
      BY <1>2, <2>1 DEF Unfolds
    <3> QED
      BY <3>1 DEF Doubling
  <2> QED
    BY <2>1, <2>2
<1>4. twice = [i \in 0 .. n |-> IF i = 0 THEN 1 ELSE 2 * twice[i - 1]]
  BY <1>3
<1>5. Values(n) = twice[n]
  BY DEF Values
<1> HIDE DEF twice
<1>6. twice \in [0 .. n -> Positive]
  <2> DEFINE T == {i \in Nat : twice[i] \in Positive}
  <2>1. 0 \in T
    BY <1>4 DEF Positive
  <2>2. ASSUME NEW i \in 0 .. (n - 1), i \in T PROVE i + 1 \in T
    <3>1. i + 1 \in 0 .. n /\ i + 1 # 0 /\ (i + 1) - 1 = i /\ i + 1 \in Nat
      OBVIOUS
    <3>2. twice[i + 1] = 2 * twice[i]
      BY <1>4, <3>1
    <3> QED
      BY <2>2, <3>1, <3>2 DEF Positive
  <2> HIDE DEF T
  <2>3. \A i \in 0 .. n : i \in T
    BY <2>1, <2>2, UpTo
  <2> QED
    BY <1>4, <2>3 DEF T
<1>7. Unfolds(twice, Positive, n, 1, Doubling)
  <2>1. twice[0] = 1
    BY <1>4
  <2>2. ASSUME NEW i \in 1 .. n PROVE twice[i] = Doubling[i][twice[i - 1]]
    <3>1. i \in Nat /\ i - 1 \in 0 .. n /\ i \in 0 .. n /\ i # 0
      OBVIOUS
    <3>2. twice[i] = 2 * twice[i - 1] /\ twice[i - 1] \in Positive
      BY <1>4, <1>6, <3>1
    <3> QED
      BY <3>1, <3>2 DEF Doubling
  <2> QED
    BY <1>6, <2>1, <2>2 DEF Unfolds
<1> QED
  BY <1>5, <1>7

\* One more bit doubles the values.
LEMMA ValuesDef ==
  ASSUME NEW n \in Nat
  PROVE  /\ Values(n) \in Nat \ {0} /\ Values(0) = 1
         /\ Values(n + 1) = 2 * Values(n)
<1>1. PICK g : Unfolds(g, Positive, n, 1, Doubling) /\ Values(n) = g[n]
  BY ValuesChain
<1>2. PICK h : Unfolds(h, Positive, n + 1, 1, Doubling) /\ Values(n + 1) = h[n + 1]
  BY ValuesChain
<1>3. PICK z : Unfolds(z, Positive, 0, 1, Doubling) /\ Values(0) = z[0]
  BY ValuesChain
<1> DEFINE T == {i \in Nat : g[i] = h[i]}
<1>4. 0 \in T
  BY <1>1, <1>2 DEF Unfolds
<1>5. ASSUME NEW i \in 0 .. (n - 1), i \in T PROVE i + 1 \in T
  <2>1. i + 1 \in 1 .. n /\ i + 1 \in 1 .. (n + 1) /\ (i + 1) - 1 = i /\ i + 1 \in Nat
    OBVIOUS
  <2>2. g[i + 1] = Doubling[i + 1][g[i]] /\ h[i + 1] = Doubling[i + 1][h[i]]
    BY <1>1, <1>2, <2>1 DEF Unfolds
  <2> QED
    BY <1>5, <2>1, <2>2
<1>6. n \in T
  <2> HIDE DEF T
  <2> QED
    BY <1>4, <1>5, UpTo
<1>7. g[n] \in Positive /\ h[n] \in Positive
  BY <1>1, <1>2 DEF Unfolds
<1>8. h[n + 1] = 2 * h[n]
  <2>1. n + 1 \in 1 .. (n + 1) /\ (n + 1) - 1 = n /\ n + 1 \in Nat
    OBVIOUS
  <2>2. h[n + 1] = Doubling[n + 1][h[n]]
    BY <1>2, <2>1 DEF Unfolds
  <2> QED
    BY <1>7, <2>1, <2>2 DEF Doubling
<1> QED
  BY <1>1, <1>2, <1>3, <1>6, <1>7, <1>8 DEF Unfolds, Positive

\* The values of m and k bits together.
LEMMA ValuesAdd ==
  ASSUME NEW m \in Nat, NEW k \in Nat
  PROVE  Values(m + k) = Values(m) * Values(k)
<1> DEFINE T == {i \in Nat : Values(m + i) = Values(m) * Values(i)}
<1>1. 0 \in T
  BY ValuesDef
<1>2. ASSUME NEW i \in 0 .. (k - 1), i \in T PROVE i + 1 \in T
  <2>1. i \in Nat /\ m + i \in Nat /\ m + (i + 1) = (m + i) + 1
    OBVIOUS
  <2>2. Values((m + i) + 1) = 2 * Values(m + i) /\ Values(i + 1) = 2 * Values(i)
    BY <2>1, ValuesDef
  <2>3. Values(m + i) = Values(m) * Values(i)
    BY <1>2
  <2>4. Values(m) \in Nat /\ Values(i) \in Nat
    BY <2>1, ValuesDef
  <2>5. 2 * (Values(m) * Values(i)) = Values(m) * (2 * Values(i))
    BY <2>4
  <2> QED
    BY <2>1, <2>2, <2>3, <2>5
<1> HIDE DEF T
<1>3. k \in T
  BY <1>1, <1>2, UpTo
<1> QED
  BY <1>3 DEF T

\* Powers of the values of a byte, which are an even number.
LEMMA PowerFacts ==
  /\ Power(0) = 1
  /\ \E h \in Nat \ {0} : Power(1) = 2 * h
  /\ \A n \in Nat : Power(n) \in Nat \ {0}
  /\ \A m, n \in Nat : Power(m + n) = Power(m) * Power(n)
<1> USE ByteBitsAssumption
<1>1. ByteBits * 0 = 0 /\ ByteBits * 1 = (ByteBits - 1) + 1 /\ ByteBits - 1 \in Nat
  OBVIOUS
<1>2. Power(1) = 2 * Values(ByteBits - 1) /\ Values(ByteBits - 1) \in Nat \ {0}
  BY <1>1, ValuesDef DEF Power
<1>3. ASSUME NEW n \in Nat PROVE Power(n) \in Nat \ {0}
  <2>1. ByteBits * n \in Nat
    OBVIOUS
  <2> QED
    BY <2>1, ValuesDef DEF Power
<1>4. ASSUME NEW m \in Nat, NEW n \in Nat PROVE Power(m + n) = Power(m) * Power(n)
  <2>1. /\ ByteBits * m \in Nat /\ ByteBits * n \in Nat
        /\ ByteBits * (m + n) = ByteBits * m + ByteBits * n
    OBVIOUS
  <2> QED
    BY <2>1, ValuesAdd DEF Power
<1>5. Power(0) = 1
  BY <1>1, ValuesDef DEF Power
<1> QED
  BY <1>2, <1>3, <1>4, <1>5

-----------------------------------------------------------------------------
(***************************************************************************)
(* What the bytes of a sample stand for.                                   *)
(***************************************************************************)
\* What both recursions below have in common: from 0, the last times a factor plus
\* the next term.
IsChain(g, n, factor, term) ==
  /\ g \in [0 .. n -> Nat]
  /\ g[0] = 0
  /\ \A i \in 1 .. n : g[i] = g[i - 1] * factor + term[i]

\* There is such a chain.
LEMMA ChainExists ==
  ASSUME NEW n \in Nat, NEW factor \in Nat, NEW term \in [1 .. n -> Nat]
  PROVE  \E g : IsChain(g, n, factor, term)
<1> DEFINE Onward ==
             [i \in Nat |-> [v \in Nat |-> v * factor + (IF i \in 1 .. n THEN term[i] ELSE 0)]]
<1>1. Onward \in [Nat -> [Nat -> Nat]]
  <2>1. ASSUME NEW i \in Nat, NEW v \in Nat
        PROVE v * factor + (IF i \in 1 .. n THEN term[i] ELSE 0) \in Nat
    <3>1. v * factor \in Nat /\ (IF i \in 1 .. n THEN term[i] ELSE 0) \in Nat
      OBVIOUS
    <3> QED
      BY <3>1
  <2> QED
    BY <2>1
<1>2. \A i \in 1 .. n : \A v \in Nat : Onward[i][v] = v * factor + term[i]
  OBVIOUS
<1> HIDE DEF Onward
<1>3. PICK g : Unfolds(g, Nat, n, 0, Onward)
  BY <1>1, Recursion
<1>4. g \in [0 .. n -> Nat] /\ g[0] = 0
  BY <1>3 DEF Unfolds
<1>5. ASSUME NEW i \in 1 .. n PROVE g[i] = g[i - 1] * factor + term[i]
  <2>1. g[i] = Onward[i][g[i - 1]] /\ g[i - 1] \in Nat
    BY <1>3, <1>4 DEF Unfolds
  <2> QED
    BY <2>1, <1>2
<1> QED
  BY <1>4, <1>5 DEF IsChain

\* The recursion of Unsigned(), unfolded.
LEMMA UnsignedDef ==
  ASSUME NEW bytes \in Seq(Nat)
  PROVE  \E u : /\ Unsigned(bytes) = u[Len(bytes)] /\ u[0] = 0
                /\ \A i \in 1 .. Len(bytes) : u[i] = u[i - 1] * Power(1) + bytes[i]
<1> DEFINE n == Len(bytes)
           upto[i \in 0 .. Len(bytes)] == IF i = 0 THEN 0 ELSE upto[i - 1] * Power(1) + bytes[i]
<1>1. n \in Nat /\ bytes \in [1 .. n -> Nat] /\ Power(1) \in Nat
  BY LenProperties, PowerFacts
<1>2. \E g : g = [i \in 0 .. n |-> IF i = 0 THEN 0 ELSE g[i - 1] * Power(1) + bytes[i]]
  <2> HIDE DEF n
  <2>1. PICK g : IsChain(g, n, Power(1), bytes)
    BY <1>1, ChainExists
  <2>2. g = [i \in 0 .. n |-> IF i = 0 THEN 0 ELSE g[i - 1] * Power(1) + bytes[i]]
    BY <1>1, <2>1 DEF IsChain
  <2> QED
    BY <2>2
<1>3. upto = [i \in 0 .. n |-> IF i = 0 THEN 0 ELSE upto[i - 1] * Power(1) + bytes[i]]
  BY <1>2
<1>4. Unsigned(bytes) = upto[n]
  BY DEF Unsigned
<1> HIDE DEF n, upto
<1>5. upto[0] = 0 /\ \A i \in 1 .. n : upto[i] = upto[i - 1] * Power(1) + bytes[i]
  BY <1>1, <1>3
<1> QED
  BY <1>4, <1>5 DEF n

\* The weight of a byte, and the number without a sign.
Weight(f, n, i) == Power(IF f.big THEN n - i ELSE i - 1)

\* The recursion in Number(), unfolded.
LEMMA NumberDef ==
  ASSUME NEW f, NEW bytes \in Seq(Nat)
  PROVE  \E s : /\ s[0] = 0
                /\ \A i \in 1 .. Len(bytes) :
                     s[i] = s[i - 1] + bytes[i] * Weight(f, Len(bytes), i)
                /\ Number(f, bytes)
                     = IF f.sign = "U" THEN s[Len(bytes)] - Power(Len(bytes)) \div 2
                       ELSE IF s[Len(bytes)] >= Power(Len(bytes)) \div 2
                              THEN s[Len(bytes)] - Power(Len(bytes)) ELSE s[Len(bytes)]
<1> DEFINE n == Len(bytes)
           weight(i) == Power(IF f.big THEN n - i ELSE i - 1)
           sum[i \in 0 .. n] == IF i = 0 THEN 0 ELSE sum[i - 1] + bytes[i] * weight(i)
           term == [i \in 1 .. n |-> bytes[i] * weight(i)]
<1>1. n \in Nat /\ bytes \in [1 .. n -> Nat]
  BY LenProperties
<1>2. term \in [1 .. n -> Nat]
  <2>1. ASSUME NEW i \in 1 .. n PROVE bytes[i] * weight(i) \in Nat
    <3>1. n - i \in Nat /\ i - 1 \in Nat /\ bytes[i] \in Nat
      BY <1>1
    <3>2. weight(i) \in Nat
      BY <3>1, PowerFacts
    <3> HIDE DEF weight
    <3> QED
      BY <3>1, <3>2
  <2> HIDE DEF weight, n
  <2> QED
    BY <2>1
<1>3. PICK g : IsChain(g, n, 1, term)
  <2> HIDE DEF term, n
  <2> QED
    BY <1>1, <1>2, ChainExists
<1>4. \E h : h = [i \in 0 .. n |-> IF i = 0 THEN 0 ELSE h[i - 1] + bytes[i] * weight(i)]
  <2>1. ASSUME NEW i \in 0 .. n
        PROVE  g[i] = IF i = 0 THEN 0 ELSE g[i - 1] + bytes[i] * weight(i)
    <3> HIDE DEF weight, n
    <3>1. CASE i = 0
      BY <1>3, <3>1 DEF IsChain
    <3>2. CASE i # 0
      <4>1. i \in 1 .. n /\ i - 1 \in 0 .. n
        BY <1>1, <3>2
      <4>2. g[i] = g[i - 1] * 1 + term[i] /\ g[i - 1] \in Nat
        <5> HIDE DEF term
        <5> QED
          BY <1>3, <3>2, <4>1 DEF IsChain
      <4>3. term[i] = bytes[i] * weight(i)
        BY <4>1
      <4> QED
        BY <3>2, <4>2, <4>3
    <3> QED
      BY <3>1, <3>2
  <2>2. g = [i \in 0 .. n |-> IF i = 0 THEN 0 ELSE g[i - 1] + bytes[i] * weight(i)]
    <3>1. g = [i \in 0 .. n |-> g[i]]
      BY <1>3 DEF IsChain
    <3> HIDE DEF weight, n
    <3> QED
      BY <2>1, <3>1
  <2> QED
    BY <2>2
<1>5. sum = [i \in 0 .. n |-> IF i = 0 THEN 0 ELSE sum[i - 1] + bytes[i] * weight(i)]
  BY <1>4
<1>6. Number(f, bytes)
        = IF f.sign = "U" THEN sum[n] - Power(n) \div 2
          ELSE IF sum[n] >= Power(n) \div 2 THEN sum[n] - Power(n) ELSE sum[n]
  BY DEF Number
<1> HIDE DEF sum
<1>7. sum[0] = 0
  BY <1>1, <1>5
<1>8. ASSUME NEW i \in 1 .. n PROVE sum[i] = sum[i - 1] + bytes[i] * Weight(f, n, i)
  <2>1. i \in 0 .. n /\ i # 0
    BY <1>1
  <2>2. weight(i) = Weight(f, n, i)
    BY DEF Weight
  <2> HIDE DEF weight, n
  <2> QED
    BY <1>5, <2>1, <2>2
<1> QED
  BY <1>6, <1>7, <1>8

\* x read with the highest first, and with weights from either end.
Horner(x, n, u) == u[0] = 0 /\ \A i \in 1 .. n : u[i] = u[i - 1] * Power(1) + x[i]
BigWeighted(x, n, s) == s[0] = 0 /\ \A i \in 1 .. n : s[i] = s[i - 1] + x[i] * Power(n - i)
LittleWeighted(x, n, s) ==
  s[0] = 0 /\ \A i \in 1 .. n : s[i] = s[i - 1] + x[n - i + 1] * Power(i - 1)

\* Each byte adds to the number: after i bytes it is less than Power(i).
LEMMA UnsignedBounded ==
  ASSUME NEW n \in Nat, NEW x \in [1 .. n -> 0 .. (Power(1) - 1)], NEW u,
         Horner(x, n, u)
  PROVE  \A i \in 0 .. n : u[i] \in 0 .. (Power(i) - 1)
<1> DEFINE T == {i \in Nat : u[i] \in 0 .. (Power(i) - 1)}
<1>1. 0 \in T
  <2>1. u[0] = 0 /\ Power(0) = 1
    BY PowerFacts DEF Horner
  <2> QED
    BY <2>1
<1>2. ASSUME NEW i \in 0 .. (n - 1), i \in T PROVE i + 1 \in T
  <2>1. i + 1 \in 1 .. n /\ (i + 1) - 1 = i /\ i + 1 \in Nat /\ i \in Nat
    OBVIOUS
  <2>2. u[i + 1] = u[i] * Power(1) + x[i + 1] /\ x[i + 1] \in 0 .. (Power(1) - 1)
    BY <2>1 DEF Horner
  <2>3. Power(i + 1) = Power(i) * Power(1) /\ Power(i) \in Nat \ {0} /\ Power(1) \in Nat \ {0}
    BY <2>1, PowerFacts
  <2>4. u[i] \in 0 .. (Power(i) - 1)
    BY <1>2
  <2>5. ASSUME NEW p \in Nat, NEW q \in Nat, NEW v \in 0 .. (p - 1), NEW y \in 0 .. (q - 1)
        PROVE  v * q + y \in 0 .. (p * q - 1)
    <3>1. v * q <= (p - 1) * q /\ v * q >= 0
      OBVIOUS
    <3>2. (p - 1) * q = p * q - q /\ p * q \in Nat /\ v * q \in Nat
      OBVIOUS
    <3> QED
      BY <3>1, <3>2
  <2>6. u[i] * Power(1) + x[i + 1] \in 0 .. (Power(i) * Power(1) - 1)
    BY <2>2, <2>3, <2>4, <2>5
  <2> QED
    BY <2>1, <2>2, <2>3, <2>6
<1> HIDE DEF T
<1>3. \A i \in 0 .. n : i \in T
  BY <1>1, <1>2, UpTo
<1> QED
  BY <1>3 DEF T

\* With the highest byte first, adding up weights comes to the same.
LEMMA BigIsSame ==
  ASSUME NEW n \in Nat, NEW x \in [1 .. n -> 0 .. (Power(1) - 1)],
         NEW u, Horner(x, n, u), NEW s, BigWeighted(x, n, s)
  PROVE  s[n] = u[n]
<1> DEFINE T == {i \in Nat : s[i] = u[i] * Power(n - i)}
<1>0. \A i \in 0 .. n : u[i] \in Nat
  <2>1. \A i \in 0 .. n : u[i] \in 0 .. (Power(i) - 1)
    BY UnsignedBounded
  <2> QED
    BY <2>1
<1>1. 0 \in T
  <2>1. n - 0 = n /\ Power(n) \in Nat /\ u[0] = 0 /\ s[0] = 0
    BY PowerFacts DEF Horner, BigWeighted
  <2> QED
    BY <2>1
<1>2. ASSUME NEW i \in 0 .. (n - 1), i \in T PROVE i + 1 \in T
  <2>1. /\ i + 1 \in 1 .. n /\ (i + 1) - 1 = i /\ i + 1 \in Nat /\ n - (i + 1) \in Nat
        /\ i \in 0 .. n /\ 1 + (n - (i + 1)) = n - i
    OBVIOUS
  <2>2. u[i + 1] = u[i] * Power(1) + x[i + 1] /\ s[i + 1] = s[i] + x[i + 1] * Power(n - (i + 1))
    BY <2>1 DEF Horner, BigWeighted
  <2>3. Power(n - i) = Power(1) * Power(n - (i + 1))
    BY <2>1, PowerFacts
  <2>4. /\ u[i] \in Nat /\ x[i + 1] \in Nat /\ Power(1) \in Nat /\ Power(n - (i + 1)) \in Nat
    <3>1. Power(1) \in Nat /\ Power(n - (i + 1)) \in Nat
      BY <2>1, PowerFacts
    <3>2. x[i + 1] \in Nat
      <4>1. x[i + 1] \in 0 .. (Power(1) - 1)
        BY <2>1
      <4> QED
        BY <4>1, <3>1
    <3> QED
      BY <1>0, <2>1, <3>1, <3>2
  <2>5. s[i] = u[i] * Power(n - i)
    BY <1>2
  <2>6. ASSUME NEW v \in Nat, NEW y \in Nat, NEW p \in Nat, NEW q \in Nat
        PROVE  v * (p * q) + y * q = (v * p + y) * q
    OBVIOUS
  <2>7. u[i] * (Power(1) * Power(n - (i + 1))) + x[i + 1] * Power(n - (i + 1))
          = (u[i] * Power(1) + x[i + 1]) * Power(n - (i + 1))
    BY <2>4, <2>6
  <2> QED
    BY <2>1, <2>2, <2>3, <2>5, <2>7
<1> HIDE DEF T
<1>3. \A i \in 0 .. n : i \in T
  BY <1>1, <1>2, UpTo
<1>4. n \in 0 .. n /\ n - n = 0 /\ Power(0) = 1
  BY PowerFacts
<1>5. s[n] = u[n] * Power(n - n) /\ u[n] \in Nat
  BY <1>0, <1>3, <1>4 DEF T
<1> QED
  BY <1>4, <1>5

\* With the lowest byte first as well, from the other end.
LEMMA LittleIsSame ==
  ASSUME NEW n \in Nat, NEW x \in [1 .. n -> 0 .. (Power(1) - 1)],
         NEW u, Horner(x, n, u), NEW s, LittleWeighted(x, n, s)
  PROVE  s[n] = u[n]
<1> DEFINE T == {i \in Nat : s[i] \in Nat /\ s[i] + u[n - i] * Power(i) = u[n]}
<1>0. \A i \in 0 .. n : u[i] \in Nat
  <2>1. \A i \in 0 .. n : u[i] \in 0 .. (Power(i) - 1)
    BY UnsignedBounded
  <2> QED
    BY <2>1
<1>1. 0 \in T
  <2>1. n - 0 = n /\ u[n] \in Nat /\ Power(0) = 1 /\ s[0] = 0
    BY <1>0, PowerFacts DEF LittleWeighted
  <2> QED
    BY <2>1
<1>2. ASSUME NEW i \in 0 .. (n - 1), i \in T PROVE i + 1 \in T
  <2>1. /\ i + 1 \in 1 .. n /\ (i + 1) - 1 = i /\ i + 1 \in Nat /\ i \in Nat
        /\ n - i \in 1 .. n /\ n - (i + 1) \in 0 .. n /\ (n - i) - 1 = n - (i + 1)
        /\ n - (i + 1) + 1 = n - i
    OBVIOUS
  <2>2. s[i + 1] = s[i] + x[n - i] * Power(i)
    BY <2>1 DEF LittleWeighted
  <2>3. u[n - i] = u[n - (i + 1)] * Power(1) + x[n - i]
    BY <2>1 DEF Horner
  <2>4. Power(i + 1) = Power(i) * Power(1) /\ Power(i) \in Nat /\ Power(1) \in Nat
    BY <2>1, PowerFacts
  <2>5. u[n - (i + 1)] \in Nat /\ x[n - i] \in Nat /\ s[i] \in Nat /\ u[n] \in Nat
    <3>1. x[n - i] \in 0 .. (Power(1) - 1)
      BY <2>1
    <3> QED
      BY <1>0, <1>2, <2>1, <2>4, <3>1
  <2>6. s[i] + u[n - i] * Power(i) = u[n]
    BY <1>2
  <2>7. ASSUME NEW a \in Nat, NEW v \in Nat, NEW y \in Nat, NEW p \in Nat, NEW q \in Nat
        PROVE  /\ (a + y * p) + v * (p * q) = a + (v * q + y) * p
               /\ a + y * p \in Nat
    <3>1. y * p \in Nat /\ v * q \in Nat
      OBVIOUS
    <3>2. v * (p * q) = (v * q) * p
      OBVIOUS
    <3>3. (v * q + y) * p = (v * q) * p + y * p
      BY <3>1
    <3>4. (v * q) * p \in Nat
      BY <3>1
    <3> HIDE DEF T
    <3> QED
      BY <3>1, <3>2, <3>3, <3>4
  <2>8. /\ (s[i] + x[n - i] * Power(i)) + u[n - (i + 1)] * (Power(i) * Power(1))
             = s[i] + (u[n - (i + 1)] * Power(1) + x[n - i]) * Power(i)
        /\ s[i] + x[n - i] * Power(i) \in Nat
    <3> DEFINE a == s[i]
               v == u[n - (i + 1)]
               y == x[n - i]
               p == Power(i)
               q == Power(1)
    <3>1. a \in Nat /\ v \in Nat /\ y \in Nat /\ p \in Nat /\ q \in Nat
      BY <2>4, <2>5
    <3> HIDE DEF a, v, y, p, q, T
    <3>2. (a + y * p) + v * (p * q) = a + (v * q + y) * p /\ a + y * p \in Nat
      BY <3>1, <2>7
    <3> QED
      BY <3>2 DEF a, v, y, p, q
  <2> QED
    BY <2>1, <2>2, <2>3, <2>4, <2>6, <2>8
<1> HIDE DEF T
<1>3. \A i \in 0 .. n : i \in T
  BY <1>1, <1>2, UpTo
<1>4. n \in 0 .. n /\ n - n = 0 /\ u[0] = 0 /\ Power(n) \in Nat
  BY PowerFacts DEF Horner
<1>5. s[n] \in Nat /\ s[n] + u[n - n] * Power(n) = u[n]
  BY <1>3, <1>4 DEF T
<1> QED
  BY <1>4, <1>5

\* What pcm_native_converter.c makes of the bytes is the number they stand for, at
\* the top of four bytes.
LEMMA UnsignedIsNumber ==
  ASSUME NEW f, NEW n \in Nat, NEW bytes \in [1 .. n -> 0 .. (Power(1) - 1)]
  PROVE  \E v \in 0 .. (Power(n) - 1) :
           /\ Unsigned(HighFirst(bytes, f.big)) = v
           /\ Number(f, bytes) = IF f.sign = "U" THEN v - Power(n) \div 2
                                 ELSE IF v >= Power(n) \div 2 THEN v - Power(n) ELSE v
<1>1. bytes \in Seq(Nat) /\ Len(bytes) = n
  OBVIOUS
<1> DEFINE x == HighFirst(bytes, f.big)
<1>2. /\ x \in Seq(Nat) /\ Len(x) = n /\ x \in [1 .. n -> 0 .. (Power(1) - 1)]
      /\ \A i \in 1 .. n : x[i] = IF f.big THEN bytes[i] ELSE bytes[n - i + 1]
  <2>1. CASE f.big
    BY <1>1, <2>1 DEF HighFirst
  <2>2. CASE ~f.big
    <3>1. x = [i \in 1 .. n |-> bytes[n - i + 1]]
      BY <1>1, <2>2 DEF HighFirst, Reverse
    <3>2. \A i \in 1 .. n : n - i + 1 \in 1 .. n
      OBVIOUS
    <3> HIDE DEF x
    <3>3. x \in [1 .. n -> 0 .. (Power(1) - 1)]
      BY <3>1, <3>2
    <3>4. x \in Seq(Nat) /\ Len(x) = n
      BY <3>3
    <3> QED
      BY <2>2, <3>1, <3>3, <3>4
  <2> QED
    BY <2>1, <2>2
<1> HIDE DEF x
<1>3. PICK u : /\ Unsigned(x) = u[n] /\ u[0] = 0
               /\ \A i \in 1 .. n : u[i] = u[i - 1] * Power(1) + x[i]
  BY <1>2, UnsignedDef
<1>4. PICK s : /\ s[0] = 0
               /\ \A i \in 1 .. n : s[i] = s[i - 1] + bytes[i] * Weight(f, n, i)
               /\ Number(f, bytes) = IF f.sign = "U" THEN s[n] - Power(n) \div 2
                                     ELSE IF s[n] >= Power(n) \div 2 THEN s[n] - Power(n) ELSE s[n]
  BY <1>1, NumberDef
<1>5. Horner(x, n, u)
  BY <1>3 DEF Horner
<1>6. s[n] = u[n]
  <2>1. CASE f.big
    <3>1. BigWeighted(x, n, s)
      BY <1>2, <1>4, <2>1 DEF Weight, BigWeighted
    <3> QED
      BY <1>2, <1>5, <3>1, BigIsSame
  <2>2. CASE ~f.big
    <3>1. LittleWeighted(x, n, s)
      <4>1. ASSUME NEW i \in 1 .. n PROVE x[n - i + 1] = bytes[i]
        <5>1. n - i + 1 \in 1 .. n /\ n - (n - i + 1) + 1 = i
          OBVIOUS
        <5> QED
          BY <5>1, <1>2, <2>2
      <4> QED
        BY <1>4, <2>2, <4>1 DEF Weight, LittleWeighted
    <3> QED
      BY <1>2, <1>5, <3>1, LittleIsSame
  <2> QED
    BY <2>1, <2>2
<1>7. u[n] \in 0 .. (Power(n) - 1)
  <2>1. \A i \in 0 .. n : u[i] \in 0 .. (Power(i) - 1)
    BY <1>2, <1>5, UnsignedBounded
  <2> QED
    BY <2>1
<1> QED
  BY <1>3, <1>4, <1>6, <1>7 DEF x

\* A whole turn changes nothing.
LEMMA OnceAround ==
  ASSUME NEW x \in Nat, NEW w \in Nat \ {0}, x < w
  PROVE  (x + w) % w = x
  OBVIOUS

\* At the top of four bytes: the highest bit is that of the number's sign, turned
\* over if it has none.
LEMMA NativeIsNumber ==
  ASSUME NEW f, f.bytes \in 1 .. 4, NEW b \in [1 .. f.bytes -> 0 .. (Power(1) - 1)]
  PROVE  /\ Number(f, b) \in Int
         /\ -Power(f.bytes) <= 2 * Number(f, b) /\ 2 * Number(f, b) < Power(f.bytes)
         /\ Native(f, b) = Number(f, b) * Power(4 - f.bytes)
<1> DEFINE n == f.bytes
           P == Power(n)
           K == Power(4 - n)
           W == Power(4)
<1>1. n \in Nat /\ 4 - n \in Nat /\ n + (4 - n) = 4 /\ n = 1 + (n - 1) /\ n - 1 \in Nat
  <2>1. n \in 1 .. 4
    OBVIOUS
  <2> HIDE DEF n
  <2> QED
    BY <2>1
<1>2. P \in Nat \ {0} /\ K \in Nat \ {0} /\ W = P * K
  BY <1>1, PowerFacts
<1>3. PICK h \in Nat \ {0} : P = 2 * h
  <2>1. PICK g \in Nat \ {0} : Power(1) = 2 * g
    BY PowerFacts
  <2>2. Power(n - 1) \in Nat \ {0} /\ P = Power(1) * Power(n - 1)
    BY <1>1, PowerFacts
  <2>3. P = 2 * (g * Power(n - 1)) /\ g * Power(n - 1) \in Nat \ {0}
    <3> HIDE DEF P
    <3>1. ASSUME NEW p \in Nat \ {0} PROVE (2 * g) * p = 2 * (g * p) /\ g * p \in Nat \ {0}
      OBVIOUS
    <3> QED
      BY <2>1, <2>2, <3>1
  <2> QED
    BY <2>3
<1>4. PICK v \in 0 .. (P - 1) :
        /\ Unsigned(HighFirst(b, f.big)) = v
        /\ Number(f, b) = IF f.sign = "U" THEN v - P \div 2 ELSE IF v >= P \div 2 THEN v - P ELSE v
  <2>1. b \in [1 .. n -> 0 .. (Power(1) - 1)]
    OBVIOUS
  <2> HIDE DEF n
  <2> QED
    BY <1>1, <2>1, UnsignedIsNumber
<1>5. Native(f, b) = Signed(IF f.sign = "U" THEN (v * K + W \div 2) % W ELSE v * K, W)
  BY <1>4 DEF Native
<1> DEFINE top == h * K
           m == v * K
<1>6. /\ top \in Nat \ {0} /\ m \in Nat /\ W = 2 * top /\ m < W
      /\ (v >= h <=> m >= top) /\ (v - h) * K = m - top /\ (v - P) * K = m - W
  <2> HIDE DEF P, K, W, n
  <2>1. top \in Nat \ {0} /\ m \in Nat
    BY <1>2, <1>3, <1>4
  <2>2. (2 * h) * K = 2 * (h * K)
    BY <1>2, <1>3
  <2>3. W = 2 * top
    BY <1>2, <1>3, <2>2
  <2>4. (v - h) * K = m - top /\ (v - P) * K = m - P * K
    BY <1>2, <1>3, <1>4
  <2>5. ASSUME NEW x \in Int PROVE x >= 0 <=> x * K >= 0
    BY <1>2
  <2>6. v - h \in Int /\ v - P \in Int /\ ~ (v - P >= 0)
    BY <1>2, <1>3, <1>4
  <2>7. v - h >= 0 <=> m - top >= 0
    BY <2>4, <2>5, <2>6
  <2>8. ~ (m - W >= 0)
    BY <1>2, <2>4, <2>5, <2>6
  <2> HIDE DEF top, m
  <2> QED
    BY <1>2, <1>3, <1>4, <2>1, <2>3, <2>4, <2>6, <2>7, <2>8
<1>7. P \div 2 = h /\ W \div 2 = top
  <2> HIDE DEF P, K, W, n, top
  <2> QED
    BY <1>2, <1>3, <1>6
<1>8. /\ Number(f, b) \in Int
      /\ -P <= 2 * Number(f, b) /\ 2 * Number(f, b) < P
  <2> HIDE DEF P, K, W, n, top, m
  <2> QED
    BY <1>3, <1>4, <1>7
<1>9. Native(f, b) = Number(f, b) * K
  <2>1. CASE f.sign = "U"
    <3>1. Native(f, b) = Signed((m + top) % W, W) /\ Number(f, b) * K = m - top
      <4> HIDE DEF P, K, W, n, top
      <4> QED
        BY <1>4, <1>5, <1>6, <1>7, <2>1
    <3>2. CASE m >= top
      <4>1. (m + top) % W = m - top
        <5> HIDE DEF W, top, m
        <5>1. m + top = (m - top) + W /\ m - top \in 0 .. (W - 1) /\ W \in Nat \ {0}
          BY <1>6, <3>2
        <5> DEFINE x == m - top
        <5>2. x \in Nat /\ x < W /\ m + top = x + W
          BY <5>1
        <5> HIDE DEF x
        <5>3. (x + W) % W = x
          BY <5>1, <5>2, OnceAround
        <5> QED
          BY <5>2, <5>3 DEF x
      <4> HIDE DEF W, top, m, K
      <4> QED
        BY <1>6, <1>7, <3>1, <3>2, <4>1 DEF Signed
    <3>3. CASE m < top
      <4>1. (m + top) % W = m + top
        <5> HIDE DEF W, top, m
        <5>1. m + top \in 0 .. (W - 1) /\ W \in Nat \ {0}
          BY <1>6, <3>3
        <5> QED
          BY <5>1
      <4> HIDE DEF W, top, m, K
      <4> QED
        BY <1>6, <1>7, <3>1, <3>3, <4>1 DEF Signed
    <3> HIDE DEF W, top, m, K
    <3> QED
      BY <1>6, <3>2, <3>3
  <2>2. CASE f.sign # "U"
    <3>1. Native(f, b) = IF m >= top THEN m - W ELSE m
      <4> HIDE DEF P, K, W, n, top
      <4> QED
        BY <1>5, <1>7, <2>2 DEF Signed
    <3>2. Number(f, b) = IF v >= h THEN v - P ELSE v
      <4> HIDE DEF P, K, W, n, top
      <4> QED
        BY <1>4, <1>7, <2>2
    <3>3. v >= h <=> m >= top
      BY <1>6
    <3>4. (v - P) * K = m - W /\ v * K = m
      BY <1>6
    <3> HIDE DEF P, K, W, n, top, m
    <3> QED
      BY <3>1, <3>2, <3>3, <3>4
  <2> QED
    BY <2>1, <2>2
<1> QED
  BY <1>8, <1>9

-----------------------------------------------------------------------------
(***************************************************************************)
(* Rounding to 16 bits.                                                    *)
(***************************************************************************)
\* A quotient and its remainder.
LEMMA Quotient ==
  ASSUME NEW a \in Int, NEW d \in Nat \ {0}
  PROVE  a \div d \in Int /\ (a \div d) * d <= a /\ a < (a \div d + 1) * d
<1>1. a \div d \in Int /\ a % d \in 0 .. (d - 1) /\ a = d * (a \div d) + (a % d)
  OBVIOUS
<1> QED
  BY <1>1

\* What has the sign of a multiple.
LEMMA SameSign ==
  ASSUME NEW x \in Int, NEW k \in Nat \ {0}
  PROVE  (x * k >= 0 => x >= 0) /\ (x * k > 0 => x > 0) /\ (x * k = 0 => x = 0)
  OBVIOUS

\* The value of a sample is N of P, native of W, which is (2 * M) * (2 * M), and out
\* of 2 * M.
Scales(P, K, M, N) ==
  /\ P \in Nat \ {0} /\ K \in Nat \ {0} /\ M \in Nat \ {0} /\ N \in Int
  /\ P * K = (2 * M) * (2 * M)
  /\ -P <= 2 * N /\ 2 * N < P

\* A sample at the top of four bytes stays within them.
LEMMA NativeRange ==
  ASSUME NEW P, NEW K, NEW M, NEW N, Scales(P, K, M, N)
  PROVE  N * K \in Int /\ -(2 * M) * M <= N * K /\ N * K < (2 * M) * M
<1> USE DEF Scales
<1>1. (2 * N + P) * K >= 0 /\ (P - 2 * N) * K > 0
  <2>1. ASSUME NEW x \in Nat PROVE x * K >= 0 /\ (x > 0 => x * K > 0)
    OBVIOUS
  <2>2. 2 * N + P \in Nat /\ P - 2 * N \in Nat /\ P - 2 * N > 0
    OBVIOUS
  <2> QED
    BY <2>1, <2>2
<1>2. (2 * N + P) * K = 2 * (N * K) + P * K /\ (P - 2 * N) * K = P * K - 2 * (N * K)
  OBVIOUS
<1>3. (2 * M) * (2 * M) = 2 * ((2 * M) * M) /\ (2 * M) * M \in Nat
      /\ -(2 * M) * M = -((2 * M) * M) /\ N * K \in Int
  OBVIOUS
<1> QED
  BY <1>1, <1>2, <1>3

\* How far out is from the sample, in parts of K.
LEMMA OffTimes ==
  ASSUME NEW P, NEW K, NEW M, NEW N, Scales(P, K, M, N), NEW out \in Int
  PROVE  LET off == 2 * (N * (2 * M) - out * P)
         IN  /\ off \in Int
             /\ (off + P) * K = (4 * M) * (N * K - (2 * out - 1) * M)
             /\ (P - off) * K = (4 * M) * ((2 * out + 1) * M - N * K)
             /\ off * K = (4 * M) * (N * K - out * (2 * M))
<1> USE DEF Scales
<1> DEFINE off == 2 * (N * (2 * M) - out * P)
<1>1. off \in Int
  OBVIOUS
<1>2. off * K = 2 * (N * (2 * M)) * K - (2 * out) * (P * K)
  OBVIOUS
<1>3. (2 * out) * ((2 * M) * (2 * M)) = (4 * M) * (out * (2 * M))
  OBVIOUS
<1>4. 2 * (N * (2 * M)) * K = (4 * M) * (N * K)
  OBVIOUS
<1>5. off * K = (4 * M) * (N * K) - (4 * M) * (out * (2 * M))
  BY <1>2, <1>3, <1>4
<1>6. P * K = (4 * M) * M
  OBVIOUS
<1>7. (off + P) * K = off * K + P * K /\ (P - off) * K = P * K - off * K
  OBVIOUS
<1> DEFINE a == 4 * M
           nk == N * K
           c == out * (2 * M)
<1>8. /\ (2 * out - 1) * M = c - M /\ (2 * out + 1) * M = c + M
      /\ a \in Int /\ nk \in Int /\ c \in Int /\ M \in Int
  OBVIOUS
<1>9. off * K = a * nk - a * c /\ P * K = a * M
  BY <1>5, <1>6
<1> HIDE DEF a, nk, c, off, Scales
<1>10. /\ a * (nk - (c - M)) = a * nk - a * c + a * M
       /\ a * ((c + M) - nk) = a * c + a * M - a * nk
       /\ a * (nk - c) = a * nk - a * c
  BY <1>8
<1>11. a * nk \in Int /\ a * c \in Int /\ a * M \in Int
  BY <1>8
<1>12. /\ (off + P) * K = a * (nk - (2 * out - 1) * M)
       /\ (P - off) * K = a * ((2 * out + 1) * M - nk)
       /\ off * K = a * (nk - c)
  BY <1>7, <1>8, <1>9, <1>10, <1>11
<1> QED
  BY <1>1, <1>12 DEF a, nk, c, off

\* Half the values of two bytes, which is more than 1.
LEMMA HalfOfTwoBytes ==
  /\ Power(2) \div 2 \in Nat \ {0} /\ Power(2) = 2 * (Power(2) \div 2)
  /\ Power(4) = Power(2) * Power(2)
<1>1. PICK g \in Nat \ {0} : Power(1) = 2 * g
  BY PowerFacts
<1>2. Power(1 + 1) = Power(1) * Power(1) /\ Power(2 + 2) = Power(2) * Power(2)
  BY PowerFacts
<1>3. Power(2) = 2 * (2 * (g * g)) /\ g * g \in Nat \ {0}
  BY <1>1, <1>2
<1>4. 1 + 1 = 2 /\ 2 + 2 = 4
  OBVIOUS
<1> QED
  BY <1>2, <1>3, <1>4

\* out is as near to N as it can be, or the highest there is.
IsNear(P, M, N, out) ==
  LET off == 2 * (N * (2 * M) - out * P)
  IN  /\ out \in -(M - 1) - 1 .. (M - 1)
      /\ off >= -P
      /\ off < P \/ out = M - 1

\* More than 16 bits: half a step is added, and the last bits are cut off.
LEMMA RoundedIsNear ==
  ASSUME NEW P, NEW K, NEW M, NEW N, Scales(P, K, M, N)
  PROVE  LET n == ((N * K) \div M + 1) \div 2
         IN  IsNear(P, M, N, IF n = M THEN n - 1 ELSE n)
<1> DEFINE nk == N * K
           q == nk \div M
           n == (q + 1) \div 2
           out == IF n = M THEN n - 1 ELSE n
           off == 2 * (N * (2 * M) - out * P)
<1>1. M \in Nat \ {0} /\ K \in Nat \ {0} /\ P \in Nat \ {0}
  BY DEF Scales
<1>2. nk \in Int /\ -(2 * M) * M <= nk /\ nk < (2 * M) * M
  BY NativeRange
<1>3. q \in Int /\ q * M <= nk /\ nk < (q + 1) * M
  <2> HIDE DEF nk
  <2> QED
    BY <1>1, <1>2, Quotient
<1>4. n \in Int /\ 2 * n <= q + 1 /\ q < 2 * n + 1
  <2> HIDE DEF q
  <2> QED
    BY <1>3
<1>5. q < 2 * M /\ -(2 * M) < q + 1
  <2> HIDE DEF q, nk
  <2>1. q * M < (2 * M) * M /\ (-(2 * M)) * M < (q + 1) * M
    <3>1. (-(2 * M)) * M = -(2 * M) * M
      BY <1>1
    <3>2. q * M \in Int /\ (q + 1) * M \in Int /\ (2 * M) * M \in Int
      BY <1>1, <1>3
    <3> QED
      BY <1>2, <1>3, <3>1, <3>2
  <2>2. ASSUME NEW a \in Int, NEW c \in Int, a * M < c * M PROVE a < c
    BY <1>1, <2>2
  <2>3. q \in Int /\ q + 1 \in Int /\ 2 * M \in Int /\ -(2 * M) \in Int
    BY <1>1, <1>3
  <2> QED
    BY <2>1, <2>2, <2>3
<1>6. out \in Int /\ -M <= out /\ out <= M - 1 /\ out <= n /\ (out = M - 1 \/ out = n)
  <2> HIDE DEF n, q
  <2> QED
    BY <1>1, <1>3, <1>4, <1>5
<1>7. /\ off \in Int
      /\ (off + P) * K = (4 * M) * (nk - (2 * out - 1) * M)
      /\ (P - off) * K = (4 * M) * ((2 * out + 1) * M - nk)
  <2> HIDE DEF out
  <2> QED
    BY <1>6, OffTimes
<1> HIDE DEF nk, q, n, out, off
<1>8. ASSUME NEW a \in Int, NEW c \in Int, a <= c PROVE a * M <= c * M
  BY <1>1, <1>8
<1>9. ASSUME NEW d \in Int
      PROVE  (d >= 0 => (4 * M) * d >= 0) /\ (d > 0 => (4 * M) * d > 0)
  BY <1>1
<1>10. off >= -P
  <2>1. (2 * out - 1) * M <= q * M
    <3>1. 2 * out - 1 <= q /\ 2 * out - 1 \in Int
      BY <1>3, <1>4, <1>6
    <3> QED
      BY <1>3, <1>8, <3>1
  <2>2. nk - (2 * out - 1) * M >= 0 /\ nk - (2 * out - 1) * M \in Int
    BY <1>1, <1>2, <1>3, <1>6, <2>1
  <2>3. (off + P) * K >= 0
    BY <1>7, <1>9, <2>2
  <2>4. off + P >= 0
    BY <1>1, <1>7, <2>3, SameSign
  <2> QED
    BY <1>1, <1>7, <2>4
<1>11. off < P \/ out = M - 1
  <2>1. SUFFICES ASSUME out = n PROVE off < P
    BY <1>6
  <2>2. (q + 1) * M <= (2 * out + 1) * M
    <3>1. q + 1 <= 2 * out + 1 /\ q + 1 \in Int /\ 2 * out + 1 \in Int
      BY <1>3, <1>4, <2>1
    <3> QED
      BY <1>8, <3>1
  <2>3. (2 * out + 1) * M - nk > 0 /\ (2 * out + 1) * M - nk \in Int
    BY <1>1, <1>2, <1>3, <1>6, <2>2
  <2>4. (P - off) * K > 0
    BY <1>7, <1>9, <2>3
  <2>5. P - off > 0
    BY <1>1, <1>7, <2>4, SameSign
  <2> QED
    BY <1>1, <1>7, <2>5
<1>12. out \in -(M - 1) - 1 .. (M - 1)
  BY <1>1, <1>6
<1> QED
  BY <1>10, <1>11, <1>12 DEF IsNear, nk, q, n, out, off

\* Sixteen bits or less: there is nothing to cut off.
LEMMA ExactIsNear ==
  ASSUME NEW P, NEW K, NEW M, NEW N, Scales(P, K, M, N), NEW c \in Int,
         N * K = c * (2 * M)
  PROVE  (N * K) \div (2 * M) = c /\ IsNear(P, M, N, c)
<1> DEFINE off == 2 * (N * (2 * M) - c * P)
<1>1. M \in Nat \ {0} /\ K \in Nat \ {0} /\ P \in Nat \ {0}
  BY DEF Scales
<1>2. N * K \in Int /\ -(2 * M) * M <= N * K /\ N * K < (2 * M) * M
  BY NativeRange
<1>3. off \in Int /\ off * K = (4 * M) * (N * K - c * (2 * M))
  BY OffTimes
<1>4. off = 0
  <2> HIDE DEF off
  <2>1. N * K - c * (2 * M) = 0
    BY <1>2
  <2>2. (4 * M) * 0 = 0
    BY <1>1
  <2> QED
    BY <1>1, <1>3, <2>1, <2>2, SameSign
<1>5. (c * (2 * M)) \div (2 * M) = c
  <2> DEFINE d == 2 * M
  <2>1. d \in Nat \ {0}
    BY <1>1
  <2> HIDE DEF d
  <2>2. (c * d) \div d = c
    <3>1. c * d \in Int
      BY <2>1
    <3>2. /\ ((c * d) \div d) * d <= c * d /\ c * d < ((c * d) \div d + 1) * d
          /\ (c * d) \div d \in Int
      BY <2>1, <3>1, Quotient
    <3>3. ASSUME NEW x \in Int, NEW y \in Int, x * d <= y * d PROVE x <= y
      BY <2>1, <3>3
    <3>4. ASSUME NEW x \in Int, NEW y \in Int, x * d < y * d PROVE x < y
      BY <2>1, <3>4
    <3> DEFINE z == (c * d) \div d
    <3>5. z * d <= c * d /\ c * d < (z + 1) * d /\ z \in Int /\ z + 1 \in Int
      BY <3>2
    <3> HIDE DEF z
    <3>6. z <= c /\ c < z + 1
      BY <3>3, <3>4, <3>5
    <3>7. z = c
      BY <3>5, <3>6
    <3> QED
      BY <3>7 DEF z
  <2> QED
    BY <2>2 DEF d
<1>6. c * (2 * M) < M * (2 * M) /\ (-M) * (2 * M) <= c * (2 * M)
  BY <1>1, <1>2
<1>7. c < M /\ -M <= c
  <2>1. ASSUME NEW x \in Int, NEW y \in Int, x * (2 * M) < y * (2 * M) PROVE x < y
    BY <1>1, <2>1
  <2>2. ASSUME NEW x \in Int, NEW y \in Int, x * (2 * M) <= y * (2 * M) PROVE x <= y
    BY <1>1, <2>2
  <2>3. -M \in Int /\ M \in Int
    BY <1>1
  <2> QED
    BY <1>6, <2>1, <2>2, <2>3
<1> HIDE DEF off
<1>8. c \in -(M - 1) - 1 .. (M - 1) /\ off >= -P /\ off < P
  BY <1>1, <1>4, <1>7
<1> QED
  BY <1>5, <1>8 DEF IsNear, off

\* A format of integers whose samples fit into their bytes.
IsIntegerFormat(f) == f.bytes \in 1 .. 4 /\ f.bits \in Int /\ f.bits <= 8 * f.bytes

\* The powers of a byte are in this proportion.
LEMMA ScalesHold ==
  ASSUME NEW f, IsIntegerFormat(f), NEW b \in [1 .. f.bytes -> 0 .. (Power(1) - 1)]
  PROVE  Scales(Power(f.bytes), Power(4 - f.bytes), Power(2) \div 2, Number(f, b))
<1>1. f.bytes \in Nat /\ 4 - f.bytes \in Nat /\ f.bytes + (4 - f.bytes) = 4
  <2> DEFINE n == f.bytes
  <2>1. n \in 1 .. 4
    BY DEF IsIntegerFormat
  <2> HIDE DEF n
  <2>2. n \in Nat /\ 4 - n \in Nat /\ n + (4 - n) = 4
    BY <2>1
  <2> QED
    BY <2>2 DEF n
<1>2. /\ Power(f.bytes) \in Nat \ {0} /\ Power(4 - f.bytes) \in Nat \ {0}
      /\ Power(f.bytes) * Power(4 - f.bytes) = Power(4)
  BY <1>1, PowerFacts
<1>3. /\ Number(f, b) \in Int
      /\ -Power(f.bytes) <= 2 * Number(f, b) /\ 2 * Number(f, b) < Power(f.bytes)
  BY NativeIsNumber DEF IsIntegerFormat
<1>4. Power(4) = (2 * (Power(2) \div 2)) * (2 * (Power(2) \div 2)) /\ Power(2) \div 2 \in Nat \ {0}
  BY HalfOfTwoBytes
<1> QED
  BY <1>2, <1>3, <1>4 DEF Scales

\* With 16 bits or less a sample is a multiple of what two bytes are too little.
LEMMA LowBitsAreZero ==
  ASSUME NEW f, IsIntegerFormat(f), f.bits <= 16, NEW b \in SamplesOf(f)
  PROVE  \E c \in Int : Number(f, b) * Power(4 - f.bytes) = c * Power(2)
<1> DEFINE n == f.bytes
           N == Number(f, b)
<1>0. b \in [1 .. n -> 0 .. (Power(1) - 1)]
  BY DEF SamplesOf
<1>1. n \in 1 .. 4 /\ N \in Int
  BY <1>0, NativeIsNumber DEF IsIntegerFormat
<1>2. CASE n <= 2
  <2>1. 2 - n \in Nat /\ (2 - n) + 2 = 4 - n
    <3> HIDE DEF n
    <3> QED
      BY <1>1, <1>2
  <2>2. Power(4 - n) = Power(2 - n) * Power(2) /\ Power(2 - n) \in Nat /\ Power(2) \in Nat
    BY <2>1, PowerFacts
  <2> HIDE DEF n, N
  <2>3. N * (Power(2 - n) * Power(2)) = (N * Power(2 - n)) * Power(2) /\ N * Power(2 - n) \in Int
    BY <1>1, <2>2
  <2> QED
    BY <2>2, <2>3 DEF N, n
<1>3. CASE n > 2
  <2> DEFINE used == (f.bits * ByteBits) \div 8
             k == ByteBits * 2 - used
             unused == Values(ByteBits * n - used)
             z == N \div unused
  <2>1. used \in Int /\ used <= ByteBits * 2
    <3> DEFINE bits == f.bits
    <3>1. bits \in Int /\ bits <= 16
      BY DEF IsIntegerFormat
    <3> HIDE DEF bits
    <3>2. bits * ByteBits <= 16 * ByteBits /\ bits * ByteBits \in Int
      BY <3>1, ByteBitsAssumption
    <3>3. (bits * ByteBits) \div 8 <= ByteBits * 2 /\ (bits * ByteBits) \div 8 \in Int
      BY <3>2, ByteBitsAssumption
    <3> QED
      BY <3>3 DEF bits
  <2>2. /\ k \in Nat /\ n - 2 \in Nat /\ 4 - n \in Nat /\ (n - 2) + (4 - n) = 2
        /\ ByteBits * (n - 2) \in Nat
        /\ ByteBits * n - used = ByteBits * (n - 2) + k
    <3> HIDE DEF used, n
    <3>1. ByteBits * (n - 2) = ByteBits * n - ByteBits * 2 /\ ByteBits * n \in Nat
      BY <1>1, <1>3, ByteBitsAssumption
    <3>2. n - 2 \in Nat /\ ByteBits * (n - 2) \in Nat
      BY <1>1, <1>3, ByteBitsAssumption
    <3> QED
      BY <1>1, <1>3, <2>1, <3>1, <3>2, ByteBitsAssumption
  <2>3. /\ unused = Power(n - 2) * Values(k) /\ Values(k) \in Nat \ {0}
        /\ Power(n - 2) \in Nat \ {0} /\ unused \in Nat \ {0}
    <3>1. Values(ByteBits * (n - 2) + k) = Values(ByteBits * (n - 2)) * Values(k)
          /\ Values(k) \in Nat \ {0} /\ Values(ByteBits * (n - 2)) \in Nat \ {0}
          /\ Values(ByteBits * (n - 2) + k) \in Nat \ {0}
      <4> HIDE DEF k, n
      <4>1. ByteBits * (n - 2) + k \in Nat
        BY <2>2
      <4> QED
        BY <2>2, <4>1, ValuesAdd, ValuesDef
    <3> QED
      BY <2>2, <3>1 DEF Power
  <2>4. N % unused = 0
    BY DEF SamplesOf
  <2>5. z \in Int /\ N = unused * z
    <3> HIDE DEF unused, N
    <3> QED
      BY <1>1, <2>3, <2>4
  <2>6. Power(2) = Power(n - 2) * Power(4 - n) /\ Power(4 - n) \in Nat
    BY <2>2, PowerFacts
  <2> DEFINE p == Power(n - 2)
             q == Power(4 - n)
             v == Values(k)
             c == v * z
  <2>7. p \in Nat /\ q \in Nat /\ v \in Nat /\ z \in Int
    BY <2>3, <2>5, <2>6
  <2>8. N = (p * v) * z
    BY <2>3, <2>5
  <2> HIDE DEF p, q, v, z, N
  <2>9. ((p * v) * z) * q = (v * z) * (p * q) /\ v * z \in Int
    BY <2>7
  <2>10. N * q = c * (p * q) /\ c \in Int
    BY <2>8, <2>9
  <2> HIDE DEF c
  <2> QED
    BY <2>6, <2>10 DEF N, p, q
<1> QED
  BY <1>1, <1>2, <1>3

\* What the converters make of a sample of integers.
LEMMA SampleIsNear ==
  ASSUME NEW f, IsIntegerFormat(f), NEW b \in SamplesOf(f)
  PROVE  IsNear(Power(f.bytes), Power(2) \div 2, Number(f, b), Sint16(f, Native(f, b)))
<1> DEFINE P == Power(f.bytes)
           K == Power(4 - f.bytes)
           M == Power(2) \div 2
           N == Number(f, b)
<1>1. b \in [1 .. f.bytes -> 0 .. (Power(1) - 1)]
  BY DEF SamplesOf
<1>2. Scales(P, K, M, N)
  BY <1>1, ScalesHold
<1>3. Native(f, b) = N * K
  BY <1>1, NativeIsNumber DEF IsIntegerFormat
<1>4. Power(2) = 2 * M /\ M \in Nat \ {0}
  BY HalfOfTwoBytes
<1>5. CASE f.bits <= 16
  <2>1. PICK c \in Int : N * K = c * Power(2)
    BY <1>5, LowBitsAreZero
  <2>2. Sint16(f, Native(f, b)) = (N * K) \div (2 * M)
    BY <1>3, <1>4, <1>5 DEF Sint16
  <2> HIDE DEF P, K, M, N
  <2>3. N * K = c * (2 * M)
    BY <1>4, <2>1
  <2>4. (N * K) \div (2 * M) = c /\ IsNear(P, M, N, c)
    BY <1>2, <2>3, ExactIsNear
  <2> QED
    BY <2>2, <2>4 DEF P, M, N
<1>6. CASE ~ (f.bits <= 16)
  <2> DEFINE n == ((N * K) \div M + 1) \div 2
  <2>1. Sint16(f, Native(f, b)) = IF n = M THEN n - 1 ELSE n
    BY <1>3, <1>6 DEF Sint16
  <2> HIDE DEF P, K, M, N
  <2>2. IsNear(P, M, N, IF n = M THEN n - 1 ELSE n)
    BY <1>2, RoundedIsNear
  <2> HIDE DEF n
  <2> QED
    BY <2>1, <2>2 DEF P, M, N
<1> QED
  BY <1>5, <1>6

\* A float is clipped and cut off towards 0, and is less than a step off.
LEMMA FloatIsClose ==
  ASSUME NEW steps \in Int
  PROVE  LET top == Power(2) \div 2 - 1
             out == Sint16OfFloat(FloatParts, steps)
             off == steps - out * FloatParts
         IN  /\ out \in -top - 1 .. top
             /\ \/ off \in -FloatParts + 1 .. FloatParts - 1
                \/ out = top /\ off > 0
                \/ out = -top - 1 /\ off < 0
<1> DEFINE M == Power(2) \div 2
<1>1. M \in Nat \ {0}
  BY HalfOfTwoBytes
<1> HIDE DEF M
<1> DEFINE low == -M * 4
           high == (M - 1) * 4
           n == IF steps < low THEN low ELSE IF steps > high THEN high ELSE steps
           out == IF n < 0 THEN -((-n) \div 4) ELSE n \div 4
<1>2. n \in Int /\ low <= n /\ n <= high
  BY <1>1
<1>3. /\ out \in Int /\ -M <= out /\ out <= M - 1
      /\ n - out * 4 \in -3 .. 3
      /\ (n = low => out = -M) /\ (n = high => out = M - 1)
  <2> HIDE DEF n
  <2> QED
    BY <1>1, <1>2
<1>4. Sint16OfFloat(FloatParts, steps) = out
  <2>1. -M * 4 = -(M * 4) /\ -(M) * 4 = -M * 4
    BY <1>1
  <2> QED
    BY <2>1 DEF Sint16OfFloat, FloatParts, M
<1>5. \/ steps - out * 4 \in -3 .. 3
      \/ out = M - 1 /\ steps - out * 4 > 0
      \/ out = -M /\ steps - out * 4 < 0
  <2>1. CASE steps < low
    <3>1. n = low
      BY <2>1
    <3> HIDE DEF n, out
    <3> QED
      BY <1>1, <1>3, <2>1, <3>1
  <2>2. CASE steps > high
    <3>1. n = high
      BY <1>1, <2>2
    <3> HIDE DEF n, out
    <3> QED
      BY <1>1, <1>3, <2>2, <3>1
  <2>3. CASE ~(steps < low) /\ ~(steps > high)
    <3>1. n = steps
      BY <2>3
    <3> HIDE DEF n, out
    <3> QED
      BY <1>3, <3>1
  <2> QED
    BY <2>1, <2>2, <2>3
<1> HIDE DEF out
<1>6. -(M - 1) - 1 = -M
  BY <1>1
<1> QED
  BY <1>1, <1>3, <1>4, <1>5, <1>6 DEF FloatParts, M

-----------------------------------------------------------------------------
(***************************************************************************)
(* Every sample that is delivered.                                         *)
(***************************************************************************)
\* The property, of whichever format it is.
LEMMA NearestInEveryFormat ==
  ASSUME InputFormat.sign # "F" => IsIntegerFormat(InputFormat)
  PROVE  NearestSample
<1> DEFINE f == InputFormat
           top == Power(2) \div 2 - 1
<1>1. ASSUME f.sign = "F", NEW s \in -2 * FloatParts * top .. 2 * FloatParts * top
      PROVE  LET out == Sint16OfFloat(FloatParts, s)
                 off == s - out * FloatParts
             IN  /\ out \in -top - 1 .. top
                 /\ \/ off \in -FloatParts + 1 .. FloatParts - 1
                    \/ out = top /\ off > 0
                    \/ out = -top - 1 /\ off < 0
  <2>1. s \in Int
    OBVIOUS
  <2> QED
    BY <2>1, FloatIsClose
<1>2. ASSUME f.sign # "F", NEW b \in SamplesOf(f)
      PROVE  LET out == Sint16(f, Native(f, b))
                 off == 2 * (Number(f, b) * Power(2) - out * Power(f.bytes))
             IN  /\ out \in -top - 1 .. top
                 /\ off >= -Power(f.bytes)
                 /\ off < Power(f.bytes) \/ out = top
  <2> DEFINE out == Sint16(f, Native(f, b))
             N == Number(f, b)
             P == Power(f.bytes)
             M == Power(2) \div 2
  <2>1. IsNear(P, M, N, out)
    BY <1>2, SampleIsNear
  <2>2. Power(2) = 2 * M
    BY HalfOfTwoBytes
  <2> HIDE DEF out, N, P
  <2>3. /\ out \in -(M - 1) - 1 .. (M - 1)
        /\ 2 * (N * Power(2) - out * P) >= -P
        /\ 2 * (N * Power(2) - out * P) < P \/ out = M - 1
    BY <2>1, <2>2 DEF IsNear
  <2> QED
    BY <2>3 DEF out, N, P
<1> HIDE DEF f
<1> QED
  BY <1>1, <1>2 DEF NearestSample, f

\* A header of a WAV file, as far as it must be a number.
WavInput == input.kind = "wav" => input.header.bits \in Nat

\* Every format that is accepted and converted is one of those.
LEMMA FormatFits ==
  ASSUME WavInput, InputFormat # Refused, Convertible(InputFormat), InputFormat.sign # "F"
  PROVE  IsIntegerFormat(InputFormat)
<1> DEFINE f == InputFormat
<1>1. f.bytes \in 1 .. 4
  BY DEF Convertible
<1>2. CASE Raw
  <2> DEFINE spec == params.raw_format
  <2>1. f = RawFormat(spec)
    BY <1>2 DEF InputFormat
  <2> HIDE DEF f, spec
  <2>2. f = Format(spec.sign, spec.big, spec.bits, BytesFor(spec.bits))
        /\ (spec.sign # "F" => spec.bits \in 8 .. 32)
    BY <2>1 DEF RawFormat, f
  <2>3. spec.bits \in 8 .. 32 /\ f.bits = spec.bits /\ f.bytes = BytesFor(spec.bits)
    BY <2>2 DEF Format, f
  <2> DEFINE bits == spec.bits
  <2>4. bits \in 8 .. 32
    BY <2>3
  <2> HIDE DEF bits
  <2>5. bits \in Int /\ bits <= 8 * ((bits + 7) \div 8)
    BY <2>4
  <2> QED
    BY <1>1, <2>3, <2>5 DEF IsIntegerFormat, BytesFor, bits, f
<1>3. CASE ~Raw /\ input.kind = "wav"
  <2> DEFINE h == input.header
             valid == IF h.tag = 65534 THEN h.valid ELSE h.bits
  <2>1. f = WavFormat(h)
    BY <1>3 DEF InputFormat
  <2>2. /\ f.bits = valid /\ f.bytes = h.bits \div 8 /\ h.bits % 8 = 0
        /\ h.tag = 65534 => valid \in 1 .. h.bits
    BY <2>1 DEF WavFormat, Format
  <2>3. h.bits \in Nat
    BY <1>3 DEF WavInput
  <2>4. valid \in Int /\ valid <= h.bits
    BY <2>2, <2>3
  <2>5. h.bits = 8 * (h.bits \div 8)
    <3> DEFINE bits == h.bits
    <3>1. bits \in Nat /\ bits % 8 = 0
      BY <2>2, <2>3
    <3> HIDE DEF bits
    <3>2. bits = 8 * (bits \div 8)
      BY <3>1
    <3> QED
      BY <3>2 DEF bits
  <2> HIDE DEF f, valid, h
  <2> QED
    BY <1>1, <2>2, <2>4, <2>5 DEF IsIntegerFormat, f
<1>4. CASE ~Raw /\ input.kind = "caf"
  <2> DEFINE h == input.header
  <2>1. f = CafFormat(h)
    BY <1>4 DEF InputFormat
  <2>2. /\ h.bits \in 1 .. 255 /\ h.bytes >= BytesFor(h.bits)
        /\ f.bits = h.bits /\ f.bytes = h.bytes
    BY <2>1 DEF CafFormat, Format
  <2> DEFINE bits == h.bits
             bytes == h.bytes
  <2>3. bits \in 1 .. 255 /\ bytes \in 1 .. 4 /\ bytes >= (bits + 7) \div 8
    BY <1>1, <2>2 DEF BytesFor
  <2> HIDE DEF bits, bytes
  <2>4. bits \in Int /\ bits <= 8 * bytes
    BY <2>3
  <2> QED
    BY <1>1, <2>2, <2>4 DEF IsIntegerFormat, bits, bytes
<1>5. CASE ~Raw /\ input.kind \notin {"wav", "caf"}
  BY <1>5 DEF InputFormat
<1> QED
  BY <1>2, <1>3, <1>4, <1>5

\* What has been delivered is of a format that was accepted and converted.
NearestInv ==
  /\ ChannelsInv
  /\ WavInput
  /\ delivered # <<>> => InputFormat # Refused /\ Convertible(InputFormat)

\* The format depends on three things only.
LEMMA InputFormatStays ==
  ASSUME UNCHANGED input, params'.is_raw = params.is_raw,
         params'.raw_format = params.raw_format
  PROVE  InputFormat' = InputFormat
  BY DEF InputFormat, Raw

\* Once there is a frame, its format stays.
LEMMA NearestStep ==
  ASSUME NearestInv, [Next]_vars
  PROVE  NearestInv'
<1> USE DEF configVars
<1>1. ChannelsInv' /\ ChannelsInv /\ WavInput
  BY ChannelsStep DEF NearestInv
<1>2. input' = input
  BY DEF Next, vars, ParseOption, EndOfOptions, RefuseArguments, OpenInput, OpenLayer, InitEncoder,
         Configure, OpenOutput, CreateM4a, Encode, Finalize, TearDown, Over
<1>3. WavInput'
  BY <1>1, <1>2 DEF WavInput
<1>4. ASSUME delivered' # <<>>
      PROVE  InputFormat' # Refused /\ Convertible(InputFormat')
  <2>1. CASE Encode
    <3>1. InputFormat' = InputFormat /\ (delivered' = delivered \/ delivered' = FrameRead)
      BY <2>1, InputFormatStays DEF Encode
    <3>2. delivered = <<>> /\ FormatAccepted
      BY <1>1, <2>1 DEF Encode, ChannelsInv
    <3>3. Convertible(InputFormat)
      BY <1>4, <3>1, <3>2 DEF FrameRead
    <3> QED
      BY <3>1, <3>2, <3>3 DEF FormatAccepted
  <2>2. CASE ~Encode
    <3>1. delivered' = delivered
      BY <2>2 DEF Next, vars, ParseOption, EndOfOptions, RefuseArguments, OpenInput, OpenLayer,
         InitEncoder, Configure, OpenOutput, CreateM4a, Finalize, TearDown, Over
    <3>2. pc \in {"finalize", "end", "exit"}
      BY <1>1, <1>4, <3>1 DEF ChannelsInv
    <3>3. params' = params
      BY <2>2, <3>2 DEF Next, vars, ParseOption, EndOfOptions, OpenInput, OpenLayer,
         InitEncoder, Configure, OpenOutput, CreateM4a, Finalize, TearDown, Over
    <3>4. InputFormat' = InputFormat
      BY <1>2, <3>3, InputFormatStays
    <3> QED
      BY <1>4, <3>1, <3>4 DEF NearestInv
  <2> QED
    BY <2>1, <2>2
<1> QED
  BY <1>1, <1>3, <1>4 DEF NearestInv

\* Whatever the width, sign and byte order, and however many bits a byte has, the
\* 16-bit sample is the one nearest to that of the file (NearestSample).
THEOREM NearestAlways == Spec => []NearestSample
<1>1. Init => NearestInv
  <2> SUFFICES ASSUME Init PROVE NearestInv
    OBVIOUS
  <2>1. PICK c \in Cases : input = c.input
    BY DEF Init
  <2>2. input.channels \in Nat /\ ChanInput(input.chan) /\ WavInput
    BY <2>1, CasesAssumption DEF ChanInput, WavInput
  <2>3. params = Defaults /\ pc = "options" /\ delivered = <<>>
    BY DEF Init
  <2> QED
    BY <2>2, <2>3 DEF NearestInv, ChannelsInv, ChannelsInPlace
<1>2. NearestInv => NearestSample
  <2> SUFFICES ASSUME NearestInv PROVE NearestSample
    OBVIOUS
  <2>1. CASE delivered = <<>>
    BY <2>1 DEF NearestSample
  <2>2. CASE delivered # <<>>
    BY <2>2, FormatFits, NearestInEveryFormat DEF NearestInv
  <2> QED
    BY <2>1, <2>2
<1> QED
  BY <1>1, <1>2, NearestStep, PTL DEF Spec
=============================================================================
