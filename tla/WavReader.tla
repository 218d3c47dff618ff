------------------------------ MODULE WavReader ------------------------------
(***************************************************************************)
(* The reader of WAV, RF64 and raw files (wav_reader.c): the walk over the *)
(* chunks before the data, the length it settles on, and read_frames().    *)
(***************************************************************************)
EXTENDS ChunkFile

VARIABLES
  ignore_length,   \* option -I; of no account for a raw file
  phase,           \* where wav_open() is; "reading" and "failed" are its ends
  fmt_seen,        \* a fmt chunk has been read
  bpf,             \* bytes_per_frame
  data_length,     \* bytes of data, by the data chunk or by ds64; 0 unknown
  data_offset,     \* offset of the first frame
  length           \* frames there are, or Unlimited

formatVars == <<ignore_length, fmt_seen, bpf, data_length, data_offset, length>>

Fixed == 16        \* bytes of a fmt chunk that are always there
FixedDs64 == 28    \* bytes of a ds64 chunk that are always there

-----------------------------------------------------------------------------
(***************************************************************************)
(* wav_open() and raw_open().                                              *)
(***************************************************************************)
Fail == phase' = "failed" /\ UNCHANGED <<off, formatVars>>

\* The file begins with RIFF or RF64 and with WAVE.
Prologue ==
  /\ phase = "open"
  /\ file.kind # "raw"
  /\ IF Read(PrologueSize) = PrologueSize
       THEN /\ off' = PrologueSize
            /\ phase' = IF file.kind = "RF64" THEN "ds64" ELSE "walk"
            /\ UNCHANGED formatVars
       ELSE Fail
  /\ UNCHANGED <<file, size, seekable, faulty, callerVars>>

\* riff_ds64(): the length of the data in 64 bits.  Its result, a failure
\* whatever it finds, is ignored.
Ds64 ==
  /\ phase = "ds64"
  /\ LET c == ChunkHere
         whole == off + HeaderSize + FixedDs64 <= size
     IN  IF c.id = "ds64" /\ c.declared >= FixedDs64 /\ whole
           THEN /\ data_length' = c.value
                /\ off' = off + HeaderSize + Padded(c.declared)
           ELSE /\ off' = Lesser(off + HeaderSize, size)
                /\ UNCHANGED data_length
  /\ phase' = "walk"
  /\ UNCHANGED <<file, size, seekable, faulty, callerVars, ignore_length,
                 fmt_seen, bpf, data_offset, length>>

\* wav_fmt(): a format it can use, and the rest of the chunk.
Fmt ==
  /\ phase = "walk"
  /\ ChunkHere.id = "fmt"
  /\ LET body == off + HeaderSize
         c == ChunkHere
     IN  IF /\ c.declared >= Fixed /\ body + Fixed <= size
            /\ CanSkip(body + Fixed, Padded(c.declared) - Fixed)
           THEN /\ off' = body + Padded(c.declared)
                /\ bpf' = c.value
                /\ fmt_seen' = TRUE
                /\ UNCHANGED <<phase, ignore_length, data_length, data_offset, length>>
           ELSE Fail
  /\ UNCHANGED <<file, size, seekable, faulty, callerVars>>

SkippedBytes_Unpadded(n) == n

\* (chunk_size + 1) & ~1.
SkippedBytes(n) == Padded(n)

\* Any chunk that is neither fmt nor data is skipped.
OtherChunk ==
  /\ phase = "walk"
  /\ ChunkHere.id \notin {"fmt", "data", "none"}
  /\ LET n == SkippedBytes(ChunkHere.declared)
     IN  IF CanSkip(off + HeaderSize, n)
           THEN off' = off + HeaderSize + n /\ UNCHANGED <<phase, formatVars>>
           ELSE Fail
  /\ UNCHANGED <<file, size, seekable, faulty, callerVars>>

NoFurtherChunk ==
  /\ phase = "walk"
  /\ ChunkHere = NoChunk
  /\ Fail
  /\ UNCHANGED <<file, size, seekable, faulty, callerVars>>

\* The frames that the data chunk declares; a length of 0, or one that is not
\* a number of frames, is taken for unknown.
DeclaredFrames(n) ==
  IF ignore_length \/ n = 0 \/ n % bpf # 0 THEN Unlimited ELSE n \div bpf

FramesFrom_Start(start, frame) == size \div frame

\* The frames from an offset to the end of the file, for a seekable one.
FramesFrom(start, frame) == (size - start) \div frame

\* 32 bits of the header count for RIFF only.
DataBytes(declared) == IF file.kind = "RIFF" THEN declared ELSE data_length

\* The data chunk ends the walk, and wav_open() settles on a length.
Data ==
  /\ phase = "walk"
  /\ ChunkHere.id = "data"
  /\ LET n == DataBytes(ChunkHere.declared)
     IN  IF fmt_seen
           THEN /\ data_length' = n
                /\ data_offset' = off + HeaderSize
                /\ off' = off + HeaderSize
                /\ length' = IF DeclaredFrames(n) = Unlimited /\ seekable
                               THEN FramesFrom(off + HeaderSize, bpf)
                               ELSE DeclaredFrames(n)
                /\ phase' = "reading"
                /\ UNCHANGED <<ignore_length, fmt_seen, bpf>>
           ELSE Fail
  /\ UNCHANGED <<file, size, seekable, faulty, callerVars>>

\* raw_open(): everything is data.
OpenRaw ==
  /\ phase = "open"
  /\ file.kind = "raw"
  /\ bpf' = file.chunks[1].value
  /\ length' = IF seekable THEN FramesFrom(0, bpf') ELSE Unlimited
  /\ phase' = "reading"
  /\ UNCHANGED <<fileVars, callerVars, ignore_length, fmt_seen, data_length, data_offset>>

-----------------------------------------------------------------------------
(***************************************************************************)
(* wav_read_frames().                                                      *)
(***************************************************************************)
\* What is asked for stays within the length, unless that is to be ignored.
Asked == IF ignore_length THEN Room ELSE Lesser(Room, length - position)

FramesRead_RoundedUp(bytes) == (bytes + bpf - 1) \div bpf

\* A frame that is cut off is not a frame.
FramesRead(bytes) == IF bytes < 0 THEN -1 ELSE bytes \div bpf

ReadFrames ==
  /\ phase = "reading"
  /\ nread > 0
  /\ LET rc == IF Asked = 0 THEN 0 ELSE Read(Asked * bpf)
     IN  /\ off' = off + (IF rc > 0 THEN rc ELSE 0)
         /\ Returned(off, bpf, FramesRead(rc))
  /\ UNCHANGED <<file, size, seekable, faulty, formatVars, phase>>

Init ==
  /\ FileInit
  /\ ignore_length \in (IF file.kind = "raw" THEN {FALSE} ELSE BOOLEAN)
  /\ phase = "open"
  /\ fmt_seen = FALSE
  /\ bpf = 0
  /\ data_length = 0
  /\ data_offset = 0
  /\ length = 0

Next ==
  \/ Prologue \/ Ds64 \/ Fmt \/ OtherChunk \/ NoFurtherChunk \/ Data \/ OpenRaw
  \/ ReadFrames

-----------------------------------------------------------------------------
(***************************************************************************)
(* The types, and what the file as it was written lets a caller expect.    *)
(***************************************************************************)

Positions(id) == {i \in 1 .. Len(file.chunks) : file.chunks[i].id = id}

\* The data chunk of a file and the frame size its fmt chunk gives it.
TheData == CHOOSE i \in Positions("data") : TRUE
TheFrame ==
  IF file.kind = "raw" THEN file.chunks[1].value
  ELSE file.chunks[CHOOSE i \in Positions("fmt") : TRUE].value
FirstByte == IF file.kind = "raw" THEN 0 ELSE Body(TheData)

\* The file has a fmt chunk before the header of its data, all of it there.
WellFormed ==
  \/ file.kind = "raw"
  \/ /\ \E i \in Positions("fmt") : i < TheData
     /\ Body(TheData) <= size

\* The length of the data that the file itself states, if it does.
StatedBytes ==
  IF file.kind = "raw" THEN 0
  ELSE IF file.kind = "RIFF" THEN file.chunks[TheData].declared
  ELSE file.chunks[CHOOSE i \in Positions("ds64") : TRUE].value

FramesThere == (size - FirstByte) \div TheFrame

FramesStated ==
  IF ignore_length \/ StatedBytes = 0 \/ StatedBytes % TheFrame # 0
    THEN Unlimited ELSE StatedBytes \div TheFrame

\* The frames a caller gets in all.  A read that fails loses the block it is
\* part of, and only a read that is asked to go beyond the end fails.
FramesInAll ==
  IF ~WellFormed THEN 0
  ELSE IF FramesStated <= FramesThere THEN FramesStated
  ELSE IF ~faulty THEN FramesThere
  ELSE IF seekable /\ ~ignore_length /\ FramesStated = Unlimited THEN FramesThere
  ELSE FramesThere - (FramesThere % Block)
=============================================================================
