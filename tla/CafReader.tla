------------------------------ MODULE CafReader ------------------------------
(***************************************************************************)
(* The reader of CAF files (caf_reader.c): the walk over the chunks, the   *)
(* strings of the info chunks in front of the data and behind it, and      *)
(* read_frames().                                                          *)
(***************************************************************************)
EXTENDS ChunkFile

VARIABLES
  phase,         \* where caf_open() is; "reading" and "failed" are its ends
  bpf,           \* bytes_per_frame; 0 until a desc chunk is read
  data_offset,   \* offset of the first frame
  length,        \* frames there are, or Unlimited
  tags           \* history: the calls of tag_callback, a flush after each chunk

Fixed == 32       \* bytes of a desc chunk that are always there
FixedChan == 12   \* bytes of a chan chunk that are always there
FixedInfo == 4    \* bytes of an info chunk that are always there
EditCount == 4    \* mEditCount, in front of the data

\* The null key that tells aacenc_translate_generic_text_tag() to submit its
\* pairs of numbers.
Flush == "flush"

-----------------------------------------------------------------------------
(***************************************************************************)
(* caf_open().                                                             *)
(***************************************************************************)
Fail == phase' = "failed" /\ UNCHANGED <<off, bpf, data_offset, length, tags>>

Steps(id) == phase = "walk" /\ ChunkHere.id = id

\* The bytes of the chunk here are there, or can at least be skipped.
Whole == off + HeaderSize + ChunkHere.declared <= size
Skippable(fixed) ==
  /\ off + HeaderSize + fixed <= size
  /\ CanSkip(off + HeaderSize + fixed, ChunkHere.declared - fixed)

PastChunk == off' = off + HeaderSize + ChunkHere.declared

Prologue ==
  /\ phase = "open"
  /\ IF Read(PrologueSize) = PrologueSize
       THEN /\ off' = PrologueSize
            /\ phase' = "walk"
            /\ UNCHANGED <<bpf, data_offset, length, tags>>
       ELSE Fail
  /\ UNCHANGED <<file, size, seekable, faulty, callerVars>>

\* caf_desc(): a format it can use, and the rest of the chunk.
Desc ==
  /\ Steps("desc")
  /\ IF ChunkHere.declared >= Fixed /\ Skippable(Fixed)
       THEN /\ PastChunk
            /\ bpf' = ChunkHere.value
            /\ UNCHANGED <<phase, data_offset, length, tags>>
       ELSE Fail
  /\ UNCHANGED <<file, size, seekable, faulty, callerVars>>

\* caf_info(): every key and value, and a flush.
Info ==
  /\ Steps("info")
  /\ IF ChunkHere.declared >= FixedInfo /\ Whole
       THEN /\ PastChunk
            /\ tags' = tags \o ChunkHere.value \o <<Flush>>
            /\ UNCHANGED <<phase, bpf, data_offset, length>>
       ELSE Fail
  /\ UNCHANGED <<file, size, seekable, faulty, callerVars>>

\* apple_chan_chunk(), which needs to know the number of channels.
Chan ==
  /\ Steps("chan")
  /\ IF bpf # 0 /\ ChunkHere.declared >= FixedChan /\ Skippable(FixedChan)
       THEN PastChunk /\ UNCHANGED <<phase, bpf, data_offset, length, tags>>
       ELSE Fail
  /\ UNCHANGED <<file, size, seekable, faulty, callerVars>>

OtherChunk ==
  /\ phase = "walk"
  /\ ChunkHere.id \notin {"desc", "info", "chan", "data", "none"}
  /\ IF Skippable(0)
       THEN PastChunk /\ UNCHANGED <<phase, bpf, data_offset, length, tags>>
       ELSE Fail
  /\ UNCHANGED <<file, size, seekable, faulty, callerVars>>

NoFurtherChunk ==
  /\ phase = "walk"
  /\ ChunkHere = NoChunk
  /\ Fail
  /\ UNCHANGED <<file, size, seekable, faulty, callerVars>>

DataLength_WithEditCount(declared) == declared

\* The bytes of data that a data chunk declares, -1 if it does not.
DataLength(declared) == IF declared = -1 THEN -1 ELSE declared - EditCount

FramesOf_ZeroUnknown(n) ==
  IF n <= 0 \/ n % bpf # 0 THEN Unlimited ELSE n \div bpf

\* The frames that are; a length that is not a number of frames is unknown.
FramesOf(n) == IF n < 0 \/ n % bpf # 0 THEN Unlimited ELSE n \div bpf

\* Division as in C, towards 0: the file may end within mEditCount.
Quotient(a, b) == IF a < 0 THEN -((-a) \div b) ELSE a \div b

\* The data chunk ends the walk, and caf_open() settles on a length.
Data ==
  /\ Steps("data")
  /\ LET start == off + HeaderSize + EditCount
         frames == FramesOf(DataLength(ChunkHere.declared))
     IN  IF CanSkip(off + HeaderSize, EditCount) /\ bpf # 0
           THEN /\ off' = start
                /\ data_offset' = start
                /\ length' = IF frames = Unlimited /\ seekable
                               THEN Quotient(size - start, bpf) ELSE frames
                /\ phase' = "reading"
                /\ UNCHANGED <<bpf, tags>>
           ELSE Fail
  /\ UNCHANGED <<file, size, seekable, faulty, callerVars>>

-----------------------------------------------------------------------------
(***************************************************************************)
(* caf_read_frames().                                                      *)
(***************************************************************************)

\* The strings of the info chunks from here to the end of the file, or to the
\* first chunk whose header is cut off, that is too short for its kind, or that
\* cannot be read or skipped.
TrailingTags ==
  LET chunks == file.chunks
      Passed(i) ==
        /\ Body(i) <= size
        /\ IF chunks[i].id = "info"
             THEN chunks[i].declared >= FixedInfo /\ Body(i) + chunks[i].declared <= size
             ELSE CanSkip(Body(i), chunks[i].declared)
      here == {i \in 1 .. Len(chunks) : Start(i) >= off}
      reached == {i \in here : \A k \in here : k <= i => Passed(k)}
      all[i \in 0 .. Len(chunks)] ==
        IF i = 0 THEN <<>>
        ELSE IF i \in reached /\ chunks[i].id = "info"
          THEN all[i - 1] \o chunks[i].value \o <<Flush>> ELSE all[i - 1]
  IN  all[Len(chunks)]

\* What is asked for stays within the length; a negative length makes a huge
\* unsigned number, at the end of the file.
Asked ==
  IF length < position THEN Unlimited ELSE Lesser(Room, length - position)

\* No frame came and no read failed: what is left of the file is walked.  After
\* that no header is found, at the end of the file as well as in the middle of
\* the chunk that ended the walk; off is then the end in either case.
AtTheEnd(n) == n = 0

ReadFrames ==
  /\ phase = "reading"
  /\ nread > 0
  /\ LET rc == IF Asked = 0 THEN 0 ELSE Read(Asked * bpf)
         n == IF rc < 0 THEN -1 ELSE rc \div bpf
     IN  /\ Returned(off, bpf, n)
         /\ IF AtTheEnd(n)
              THEN /\ tags' = tags \o (IF rc = 0 THEN TrailingTags ELSE <<>>)
                   /\ off' = IF off < size THEN size ELSE off
              ELSE /\ off' = off + (IF rc > 0 THEN rc ELSE 0)
                   /\ UNCHANGED tags
  /\ UNCHANGED <<file, size, seekable, faulty, phase, bpf, data_offset, length>>

Init ==
  /\ FileInit
  /\ phase = "open"
  /\ bpf = 0
  /\ data_offset = 0
  /\ length = 0
  /\ tags = <<>>

Next ==
  \/ Prologue \/ Desc \/ Info \/ Chan \/ OtherChunk \/ NoFurtherChunk \/ Data
  \/ ReadFrames

-----------------------------------------------------------------------------
(***************************************************************************)
(* The types, and what the file as it was written lets a caller expect.    *)
(***************************************************************************)
Positions(id) == {i \in 1 .. Len(file.chunks) : file.chunks[i].id = id}
TheData == CHOOSE i \in Positions("data") : TRUE
TheFrame == file.chunks[CHOOSE i \in Positions("desc") : TRUE].value
FirstByte == Body(TheData) + EditCount

\* An info chunk without room for the number of its entries.
TooShort(i) == file.chunks[i].id = "info" /\ file.chunks[i].declared < FixedInfo

\* The format comes before the channels and before the data, everything in
\* front of the data is there and as long as it has to be, and so is the header
\* of the data.
WellFormed ==
  /\ \E i \in Positions("desc") :
       i < TheData /\ \A j \in Positions("chan") : i < j \/ j > TheData
  /\ \A i \in 1 .. (TheData - 1) : ~TooShort(i)
  /\ Body(TheData) + (IF seekable THEN 0 ELSE EditCount) <= size

Stated == file.chunks[TheData].declared # -1
StatedBytes == file.chunks[TheData].declared - EditCount
FramesThere == IF size < FirstByte THEN 0 ELSE (size - FirstByte) \div TheFrame
FramesStated ==
  IF Stated /\ StatedBytes % TheFrame = 0 THEN StatedBytes \div TheFrame ELSE Unlimited

\* The frames a caller gets in all.  A read that fails loses the block it is
\* part of, and only a read that is asked to go beyond the end fails.
FramesInAll ==
  IF ~WellFormed THEN 0
  ELSE IF FramesStated <= FramesThere THEN FramesStated
  ELSE IF ~faulty \/ (seekable /\ FramesStated = Unlimited) THEN FramesThere
  ELSE FramesThere - (FramesThere % Block)

\* The strings of the chunks from one on, up to each, that are wholly there and
\* not behind one that is too short.
StringsFrom(first) ==
  LET all[i \in 0 .. Len(file.chunks)] ==
        IF i < first THEN <<>>
        ELSE IF /\ file.chunks[i].id = "info" /\ Start(i + 1) <= size
                /\ \A k \in first .. i : ~TooShort(k)
          THEN all[i - 1] \o file.chunks[i].value \o <<Flush>> ELSE all[i - 1]
  IN  all

StringsOf(first, last) == StringsFrom(first)[last]

\* Before the end of the data, tags are those in front of it; then those behind
\* it too, if its length is stated: what follows an open end is data.
TagsRead ==
  /\ nread > 0 /\ Len(delivered) < FramesInAll => tags = StringsOf(1, TheData - 1)
  /\ nread = 0 =>
       tags = StringsOf(1, TheData - 1) \o
                (IF FramesStated # Unlimited
                   THEN StringsOf(TheData + 1, Len(file.chunks)) ELSE <<>>)
=============================================================================
