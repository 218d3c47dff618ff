---------------------------- MODULE MCOpenInput ----------------------------
(***************************************************************************)
(* Files for OpenInput, 16-bit mono, each cut off at every byte.           *)
(*                                                                         *)
(* WAV: with and without odd chunks before fmt, between fmt and data and   *)
(* after data; with data that is stated, not stated (0, and 4294967295 cut *)
(* down to 99), odd, and 64 bits long; a file without fmt; raw files.      *)
(* CAF: with info in front of the data, behind it and in both places,      *)
(* among other chunks; with data of a stated length, of an open one and of *)
(* an odd one, and none; with the format too late or not at all; with an   *)
(* info chunk that is too short in front of the data and behind it.        *)
(***************************************************************************)
EXTENDS OpenInput

Chunk(id, bytes, declared, value) ==
  [id |-> id, length |-> bytes, declared |-> declared, value |-> value]
Odd(id) == Chunk(id, 3, 3, 0)

Format(n) == Chunk("fmt", n, n, 2)
WavData(n, declared) == Chunk("data", n, declared, 0)
Ds(n, bytes) == Chunk("ds64", n, n, bytes)
Riff(chunks) == [kind |-> "RIFF", chunks |-> chunks]
Rf64(chunks) == [kind |-> "RF64", chunks |-> chunks]

\* A raw file is one chunk without a header (8) and a prologue (12).
Raw(n) == [kind |-> "raw", chunks |-> <<Chunk("raw", n - 20, n, 2)>>]

SomeWavFiles ==
  { Riff(<<Format(16), WavData(6, 6)>>),
    Riff(<<Odd("junk"), Format(18), Odd("junk"), WavData(10, 10), Odd("junk")>>),
    Riff(<<Format(17), WavData(6, 0)>>),
    Riff(<<Format(16), WavData(6, 99)>>),
    Riff(<<Format(16), WavData(5, 5), Odd("junk")>>),
    Riff(<<Format(16), WavData(0, 0)>>),
    Riff(<<Odd("junk"), WavData(6, 6), Format(16)>>),
    Rf64(<<Ds(28, 8), Odd("junk"), Format(16), WavData(8, 99), Odd("junk")>>),
    Rf64(<<Ds(31, 6), Format(18), WavData(6, 99)>>),
    Raw(20), Raw(25) }

Desc(n) == Chunk("desc", n, n, 2)
ChanOf(n) == Chunk("chan", n, n, 0)
InfoOf(n, keys) == Chunk("info", n, n, keys)
CafData(bytes) == Chunk("data", bytes + 4, bytes + 4, 0)
OpenData(bytes) == Chunk("data", bytes + 4, -1, 0)
CafFile(chunks) == [kind |-> "caff", chunks |-> chunks]

SomeCafFiles ==
  { CafFile(<<Desc(32), CafData(6)>>),
    CafFile(<<Desc(34), ChanOf(12), InfoOf(9, <<"title", "track">>), CafData(10),
              Odd("free"), InfoOf(5, <<"total">>)>>),
    CafFile(<<InfoOf(4, <<>>), Desc(32), Odd("free"), OpenData(6)>>),
    CafFile(<<Desc(32), CafData(5), InfoOf(6, <<"title">>)>>),
    CafFile(<<Desc(32), CafData(0), InfoOf(6, <<"title">>), InfoOf(6, <<"track">>)>>),
    CafFile(<<ChanOf(13), Desc(32), CafData(4)>>),
    CafFile(<<Odd("free"), CafData(4), Desc(32)>>),
    CafFile(<<Desc(32), InfoOf(3, <<>>), CafData(2)>>),
    CafFile(<<InfoOf(0, <<>>), Desc(32), CafData(2)>>),
    CafFile(<<Desc(32), CafData(6), InfoOf(6, <<"title">>), InfoOf(3, <<>>),
              InfoOf(6, <<"track">>)>>) }

\* A file with more data stated than it has would announce a wrong length.
ASSUME AllTruthful == \A f \in WavFiles : f.kind # "raw" => IsTruthful(f)

\* An AIFF file.
OtherFiles == { [kind |-> "FORM", chunks |-> <<Odd("COMM")>>] }
=============================================================================
