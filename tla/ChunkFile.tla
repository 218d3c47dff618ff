------------------------------ MODULE ChunkFile ------------------------------
(***************************************************************************)
(* An input file of chunks and the helpers that read it                    *)
(* (pcm_readhelper.c 39-179, main.c 80-104), shared by the readers.        *)
(*                                                                         *)
(* A file is a prologue and a sequence of chunks.  A chunk has a name, a   *)
(* length, a declared length (what its header says, which streaming        *)
(* writers leave open) and a value (what its body means to the reader).    *)
(* Bytes are known by their offset.  The file may have been cut off        *)
(* anywhere, may be a pipe, and may fail instead of ending.                *)
(***************************************************************************)
EXTENDS Sequences, Integers

CONSTANTS
  Files,          \* the files a reader is tried on
  PrologueSize,   \* bytes before the first chunk
  HeaderSize,     \* bytes of a chunk header
  Alignment,      \* chunks are padded to a multiple of this
  Block           \* frames the caller asks for with each pcm_read_frames()

VARIABLES
  file,        \* the file: its kind and its chunks
  size,        \* bytes of it there are
  seekable,    \* aacenc_seekable(): otherwise there is no seek callback
  faulty,      \* the next read after the last byte fails instead of ending
  off,         \* the position in it
  position,    \* frames read (self->position)
  count,       \* frames the caller has of its current block
  delivered,   \* history: for each frame handed out, the offset of its data
  nread        \* result of the caller's latest finished pcm_read_frames()

fileVars == <<file, size, seekable, faulty, off>>
callerVars == <<position, count, delivered, nread>>

Lesser(a, b) == IF a < b THEN a ELSE b

\* INT64_MAX as a length: above the size of every file.
Unlimited == 1000000

-----------------------------------------------------------------------------
(***************************************************************************)
(* The file as it was written.                                             *)
(***************************************************************************)
Chunk(id, length, declared, value) ==
  [id |-> id, length |-> length, declared |-> declared, value |-> value]

NoChunk == Chunk("none", 0, 0, 0)

RoundUp(n) == n + (n % Alignment)

\* The offset of the first byte behind chunk k, or behind the prologue.
Ends ==
  LET end[k \in 0 .. Len(file.chunks)] ==
        IF k = 0 THEN PrologueSize
                 ELSE end[k - 1] + HeaderSize + RoundUp(file.chunks[k].length)
  IN  end

\* The offset of the header of chunk i; Start(Len(file.chunks) + 1) is the end.
Start(i) == Ends[i - 1]

Body(i) == Start(i) + HeaderSize
FileEnd == Start(Len(file.chunks) + 1)

-----------------------------------------------------------------------------
(***************************************************************************)
(* pcm_read(), pcm_skip() and pcm_scan*().                                 *)
(***************************************************************************)

\* What the readers take a chunk body of n bytes to occupy.
Padded(n) == RoundUp(n)

\* pcm_read(): all of n bytes, or as many as there are, or a failure that also
\* takes the bytes before it in the same fread() (read_callback).
Read(n) ==
  IF off + n <= size THEN n
  ELSE IF faulty THEN -1
  ELSE IF off < size THEN size - off ELSE 0

\* The chunk whose header pcm_scan*() finds here; none at the end, in a cut
\* header and, by the shape of the files, at any place that is not a header.
ChunkHere ==
  LET here == {i \in 1 .. Len(file.chunks) : Start(i) = off /\ Body(i) <= size}
  IN  IF here = {} THEN NoChunk ELSE file.chunks[CHOOSE i \in here : TRUE]

\* pcm_skip() from offset o: by seeking, beyond the end as well, or by reading.
CanSkip(o, n) == n = 0 \/ seekable \/ o + n <= size

-----------------------------------------------------------------------------
(***************************************************************************)
(* The caller: pcm_read_frames() asks for what is left of its block until  *)
(* it is full or read_frames() returns no frame.                           *)
(***************************************************************************)
Room == Block - count

\* read_frames() has read frames of bpf bytes from offset o and returned n, the
\* number of them or a negative value.
Returned(o, bpf, n) ==
  LET frames == IF n > 0 THEN n ELSE 0
  IN  /\ position' = position + frames
      /\ delivered' = delivered \o [k \in 1 .. frames |-> o + (k - 1) * bpf]
      /\ IF frames = 0 \/ count + frames = Block
           THEN count' = 0 /\ nread' = count + frames
           ELSE count' = count + frames /\ UNCHANGED nread

FileInit ==
  /\ file \in Files
  /\ size \in 0 .. FileEnd /\ size < Unlimited
  /\ seekable \in BOOLEAN
  /\ faulty \in BOOLEAN
  /\ off = 0
  /\ position = 0
  /\ count = 0
  /\ delivered = <<>>
  /\ nread = 1
=============================================================================
