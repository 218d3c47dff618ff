------------------------------ MODULE OpenInput ------------------------------
(***************************************************************************)
(* The innermost reader of the chain, as open_input() (main.c 707-764)     *)
(* chooses it by the first byte of the file or by option -R, and the       *)
(* frames that come out of it.  Composes WavReader and CafReader.          *)
(***************************************************************************)
EXTENDS Integers, Sequences

CONSTANTS
  WavFiles,   \* WAV, RF64 and raw files
  CafFiles,   \* CAF files
  Others,     \* files of no kind that is supported
  Block       \* frames the caller asks for with each pcm_read_frames()

ASSUME BlockAssumption == Block \in Nat \ {0}

VARIABLES
  file, size, seekable, faulty, off,        \* the file (ChunkFile)
  position, count, delivered, nread,        \* the caller (ChunkFile)
  phase, bpf, data_offset, length,          \* of either reader
  ignore_length, fmt_seen, data_length,     \* of WavReader
  tags                                      \* of CafReader

Wav == INSTANCE WavReader WITH Files <- WavFiles \cup Others, PrologueSize <- 12,
                               HeaderSize <- 8, Alignment <- 2
Caf == INSTANCE CafReader WITH Files <- CafFiles, PrologueSize <- 8,
                               HeaderSize <- 12, Alignment <- 1

-----------------------------------------------------------------------------
(***************************************************************************)
(* The files are what writers make of them: one data chunk, the format at  *)
(* most once, chunks that are as long as they say, but for the data chunk  *)
(* of a WAV file, whose length may be missing or wrong.  What is in them   *)
(* otherwise, in which order, and where they are cut off, is open.         *)
(***************************************************************************)
AtMostOne(c, id) == \A i, j \in 1 .. Len(c) : c[i].id = id /\ c[j].id = id => i = j

One(c, id) == AtMostOne(c, id) /\ \E i \in 1 .. Len(c) : c[i].id = id

Number == 0 .. (Wav!Unlimited - 1)

IsWavChunk(c) ==
  /\ c.id # "none" /\ c.length \in Nat
  /\ IF c.id = "data" THEN c.declared \in Number ELSE c.declared = c.length
  /\ c.id = "fmt" => c.length >= 16 /\ c.value \in Nat \ {0}

IsWavFile(f) ==
  /\ f.kind \in {"RIFF", "RF64"}
  /\ Len(f.chunks) \in Nat /\ \A i \in 1 .. Len(f.chunks) : IsWavChunk(f.chunks[i])
  /\ One(f.chunks, "data") /\ AtMostOne(f.chunks, "fmt")
  /\ f.kind = "RF64" =>
       /\ AtMostOne(f.chunks, "ds64")
       /\ f.chunks[1].id = "ds64" /\ f.chunks[1].length >= 28 /\ f.chunks[1].value \in Number

\* No more data is stated than there is, but for what stands for no length.
IsTruthful(f) ==
  LET c == f.chunks
      stated(d) == IF f.kind = "RIFF" THEN c[d].declared ELSE c[1].value
  IN  \A d, e \in 1 .. Len(c) :
        c[d].id = "data" /\ c[e].id = "fmt" =>
          stated(d) <= c[d].length \/ stated(d) % c[e].value # 0

IsCafChunk(c) ==
  /\ c.id # "none" /\ c.length \in Number
  /\ IF c.id = "data" THEN c.length >= 4 /\ c.declared \in {-1, c.length}
                      ELSE c.declared = c.length
  /\ c.id = "desc" => c.length >= 32 /\ c.value \in Nat \ {0}
  /\ c.id = "chan" => c.length >= 12
  /\ c.id = "info" => c.value \in Seq(STRING)

\* Behind data whose length is not stated no chunk can be told; what is left of
\* a frame is too short to be taken for one.  An info chunk behind the data has
\* a byte at least: read_frames() gives up at one of up to three, but an empty
\* one is passed if read_frames() is called at the end once more.
IsCafFile(f) ==
  LET c == f.chunks
  IN  /\ f.kind = "caff"
      /\ Len(c) \in Nat /\ \A i \in 1 .. Len(c) : IsCafChunk(c[i])
      /\ One(c, "data") /\ AtMostOne(c, "desc")
      /\ \A d, e \in 1 .. Len(c) :
           c[d].id = "data" /\ c[e].id = "desc" /\ d < Len(c) =>
             /\ c[d].declared # -1
             /\ (c[d].declared - 4) % c[e].value = 0 \/ c[e].value <= 12
      /\ \A d, i \in 1 .. Len(c) :
           c[d].id = "data" /\ c[i].id = "info" /\ d < i => c[i].length > 0

ASSUME FilesAssumption ==
  /\ \A f \in WavFiles : IF f.kind = "raw" THEN f.chunks[1].value \in Nat \ {0} ELSE IsWavFile(f)
  /\ \A f \in CafFiles : IsCafFile(f)
  /\ \A f \in Others : f.kind \notin {"raw", "RIFF", "RF64", "caff"}

vars == <<file, size, seekable, faulty, off, position, count, delivered, nread,
          phase, bpf, data_offset, length, ignore_length, fmt_seen, data_length, tags>>

-----------------------------------------------------------------------------
\* What getc() tells open_input() about the file; a raw file is not looked at.
IsRaw == file.kind = "raw"
IsWav == file.kind \in {"RIFF", "RF64"} /\ size > 0
IsCaf == file.kind = "caff" /\ size > 0

Init ==
  \/ Wav!Init /\ tags = <<>>
  \/ Caf!Init /\ ignore_length \in BOOLEAN /\ fmt_seen = FALSE /\ data_length = 0

\* "ERROR: unsupported input file"
Unsupported ==
  /\ phase = "open"
  /\ ~IsRaw /\ ~IsWav /\ ~IsCaf
  /\ phase' = "failed"
  /\ UNCHANGED <<file, size, seekable, faulty, off, position, count, delivered, nread,
                 bpf, data_offset, length, ignore_length, fmt_seen, data_length, tags>>

ReadsWav == (IsRaw \/ IsWav) /\ Wav!Next /\ UNCHANGED tags

ReadsCaf == IsCaf /\ Caf!Next /\ UNCHANGED <<ignore_length, fmt_seen, data_length>>

\* One step of the program: opening the file or reading from it.
Step == Unsupported \/ ReadsWav \/ ReadsCaf

Finished == (phase = "failed" \/ nread = 0) /\ UNCHANGED vars

Next == Step \/ Finished

Spec == Init /\ [][Next]_vars /\ WF_vars(Step)

-----------------------------------------------------------------------------
(***************************************************************************)
(* Properties, against the file as it was written.                         *)
(***************************************************************************)
Known == file.kind \in {"raw", "RIFF", "RF64", "caff"}

FramesInAll ==
  IF ~Known THEN 0 ELSE IF file.kind = "caff" THEN Caf!FramesInAll ELSE Wav!FramesInAll

\* A file is refused exactly when it is of no known kind, lacks a format before
\* its data, is cut off before its data, or has an info chunk in front of its
\* data that is too short: from disk as through a pipe, with odd chunks in
\* between, with ds64 and without (wav_parse, caf_parse, caf_info).
OpensWellFormed ==
  LET wellFormed == Known /\ IF file.kind = "caff" THEN Caf!WellFormed ELSE Wav!WellFormed
  IN  /\ phase = "failed" => ~wellFormed
      /\ phase = "reading" => wellFormed

\* The caller gets the frames of the data chunk, from its first one on, each
\* once and in order, and no byte of another chunk unless the stated length is
\* none, or not that of whole frames, or to be ignored; when it is told of the
\* end it has had all of them, whether the file is cut off, fails, or cannot be
\* sought in (wav_read_frames, caf_read_frames).
DeliversTheData ==
  phase = "reading" =>
    /\ \A k \in 1 .. Len(delivered) :
         delivered[k] = IF file.kind = "caff"
                          THEN Caf!FirstByte + (k - 1) * Caf!TheFrame
                          ELSE Wav!FirstByte + (k - 1) * Wav!TheFrame
    /\ Len(delivered) <= FramesInAll
    /\ nread = 0 => Len(delivered) = FramesInAll

\* The length that is announced beforehand (wav_open, caf_open) is what is
\* read, in a file that is neither cut off nor fails; it is known unless the
\* file is a pipe whose length is not stated.
LengthIsKept ==
  LET stated == IF file.kind = "caff" THEN Caf!FramesStated ELSE Wav!FramesStated
      end == IF file.kind = "caff" THEN Caf!FileEnd ELSE Wav!FileEnd
      unlimited == Wav!Unlimited
  IN  phase = "reading" =>
        /\ length = unlimited <=> ~seekable /\ stated = unlimited
        /\ nread = 0 /\ size = end /\ ~faulty /\ length # unlimited => position = length

\* By the end of the data the tags hold the strings of every info chunk that is
\* wholly in a CAF file, in the order of the file and once, those behind the
\* data too if its length is stated, but for what comes behind an info chunk
\* that is too short to be one (caf_info, caf_read_frames).
TagsComplete == phase = "reading" /\ file.kind = "caff" => Caf!TagsRead

Contract ==
  INSTANCE PcmReader WITH FrameLength <- Block, MaxFrames <- Wav!Unlimited, smart <- FALSE,
                          total <- FramesInAll, length <- FramesInAll, failed <- FALSE,
                          pulled <- position - count, pos <- position - count

\* Whatever the file, the walk over its chunks ends, and the reader then keeps
\* the contract of the chain: full blocks until the end, which comes.
KeepsReaderContract == Contract!Spec /\ <>(phase = "failed" \/ nread = 0)
=============================================================================
