------------------------------- MODULE M4afMux -------------------------------
(***************************************************************************)
(* The MP4 muxer (m4af.c) and the file it writes: samples are collected    *)
(* into chunks of half a second, a chunk is appended to the mdat box when  *)
(* the next one begins, and m4af_finalize() closes the mdat box and writes *)
(* the moov box with the tables that locate every sample.  With the option *)
(* --moov-before-mdat it then moves the whole of mdat backwards in place   *)
(* and writes the moov box again, in front of it.                          *)
(*                                                                         *)
(* A cell of the file is four bytes.  A sample is known by its number and  *)
(* its cells by their position in it; boxes inside moov are abstracted to  *)
(* the sample tables they carry (stsz, stsc, stco or co64) and their size. *)
(* UINT32_MAX is the constant Limit, so that the switches to 64-bit fields *)
(* happen in files of a few dozen cells.                                   *)
(***************************************************************************)
EXTENDS Track, FiniteSetsExt

CONSTANTS
  MoovBase,        \* cells of moov that do not depend on the tables
  Reserve,         \* cells left for the free box behind a moov in front
  BlockSize        \* cells moved at a time (2 MB)

ASSUME LayoutAssumption ==
  /\ MoovBase \in Nat /\ MoovBase >= 2
  /\ Reserve \in Nat /\ Reserve >= 2
  /\ BlockSize \in Nat \ {0}
  /\ MoovBase + Reserve + 6 * MaxSamples < Limit

VARIABLES
  pc,             \* the step of the muxer's life that comes next
  optimize,       \* params->moov_before_mdat
  last_error,     \* ctx->last_error is set
  mdat_pos,       \* ctx->mdat_pos: where the content of mdat begins
  mdat_size,      \* ctx->mdat_size
  sample_table,   \* sizes of the samples; their delta is FrameDuration
  chunk_table,    \* offset, size, samples_per_chunk and duration of a chunk
  chunk_buffer,   \* cells of the chunk that is not yet written
  file,           \* the cells of the output file, at positions from 0 on
  fpos,           \* its file position
  ferror,         \* its stdio error indicator, which nothing clears
  moovs,          \* tables of the moov boxes written to the file, in turn
  shift,          \* how far the content of mdat is moved
  end,            \* the content below end still has to be moved
  result          \* 0 or -1 once m4af_finalize() or a write has returned

ctxVars == <<optimize, last_error, mdat_pos, mdat_size, sample_table,
             chunk_table, chunk_buffer>>
ioVars == <<file, fpos, ferror, moovs>>
vars == <<pc, ctxVars, ioVars, shift, end, result>>

-----------------------------------------------------------------------------
(***************************************************************************)
(* Cells and the file.                                                     *)
(***************************************************************************)
Cell(kind, n, k) == [kind |-> kind, n |-> n, k |-> k]
Size(n) == Cell("size", n, 0)             \* 32-bit size of a box
LongSize(n) == Cell("longsize", n, 0)     \* first half of a 64-bit size
Type(name) == Cell(name, 0, 0)
Data(s, k) == Cell("data", s, k)          \* k-th cell of sample s
Body(v, k) == Cell("body", v, k)          \* k-th cell of the v-th moov
Hole == Cell("hole", 0, 0)                \* anything else

HeaderSize == 2
LongHeaderSize == 4
FtypSize == 8

SampleData(s, size) == [k \in 1 .. size |-> Data(s, k)]

\* A uint32_t field keeps the lower 32 bits.
Field32(n) == n % (Limit + 1)

FileEnd == Len(file)

\* The file with the given cells written at position pos.
Put(f, pos, cells) ==
  LET last == pos + Len(cells)
      size == IF last < Len(f) THEN Len(f) ELSE last
  IN  [k \in 1 .. size |->
         IF k - pos \in 1 .. Len(cells) THEN cells[k - pos]
         ELSE IF k <= Len(f) THEN f[k] ELSE Hole]

At(pos) == file[pos + 1]

\* The cells from position pos up to the one before position limit; behind
\* the end of the file nothing is read into the buffer.
Get(f, pos, limit) ==
  [k \in 1 .. (limit - pos) |-> IF pos + k <= Len(f) THEN f[pos + k] ELSE Hole]

(***************************************************************************)
(* A step that writes to or seeks in the file either succeeds altogether   *)
(* or leaves an error behind, in the stream and in the context.  What a    *)
(* failed write leaves in the file is of no interest, for the run will not *)
(* succeed.  write_callback() asks the stream, whose error indicator       *)
(* nothing clears, so that it also reports what went wrong before it       *)
(* (main.c:88-92).                                                         *)
(***************************************************************************)
Reported_OwnFault(before, fault) == fault

Reported(before, fault) == before \/ fault

\* Write cells at pos and go to position next; before is the indicator.
Output(before, cells, pos, next) ==
  \E fault \in BOOLEAN :
    /\ ferror' = (before \/ fault)
    /\ last_error' = (last_error \/ Reported(before, fault))
    /\ file' = IF Reported(before, fault) THEN file ELSE Put(file, pos, cells)
    /\ fpos' = next

-----------------------------------------------------------------------------
(***************************************************************************)
(* The tables.                                                             *)
(***************************************************************************)
EmptyChunk == [offset |-> 0, size |-> 0, samples_per_chunk |-> 0, duration |-> 0]

\* m4af_update_chunk_table(): a chunk lasts half a second.
NeedsChunk ==
  chunk_table # <<>> =>
    Last(chunk_table).duration + FrameDuration > Timescale \div 2

\* m4af_flush_chunk(): the offset of the chunk that is written now.
Flushed_BeforeHeader(chunks, pos) ==
  [chunks EXCEPT ![Len(chunks)].offset = pos - HeaderSize]

Flushed(chunks, pos) == [chunks EXCEPT ![Len(chunks)].offset = pos]

HasUnwritten == chunk_table # <<>> /\ chunk_buffer # <<>>

\* The chunk table with one more sample in its last chunk.
WithSample(chunks, size) ==
  [chunks EXCEPT ![Len(chunks)] =
     [offset |-> @.offset, size |-> @.size + size,
      samples_per_chunk |-> @.samples_per_chunk + 1,
      duration |-> @.duration + FrameDuration]]

\* m4af_write_stco_box(): the last chunk decides on the width of all offsets.
IsCo64(chunks) == chunks[Len(chunks)].offset > Limit

\* m4af_write_stsc_box(): an entry where the number of samples changes.
StscEntries(chunks) ==
  {c \in 1 .. Len(chunks) :
     c > 1 => chunks[c].samples_per_chunk # chunks[c - 1].samples_per_chunk}

\* The tables as they stand in a moov box.
Tables(chunks) ==
  [sizes |-> sample_table,
   stsc |-> [c \in StscEntries(chunks) |-> chunks[c].samples_per_chunk],
   offsets |-> [c \in 1 .. Len(chunks) |->
                  IF IsCo64(chunks) THEN chunks[c].offset
                                    ELSE Field32(chunks[c].offset)]]

MoovSize(chunks) ==
  MoovBase + Len(sample_table) + 3 * Cardinality(StscEntries(chunks))
    + Len(chunks) * (IF IsCo64(chunks) THEN 2 ELSE 1)

MoovBox(chunks, version) ==
  <<Size(MoovSize(chunks)), Type("moov")>>
    \o [k \in 1 .. (MoovSize(chunks) - HeaderSize) |-> Body(version, k)]

FreeBox(size) == <<Size(size), Type("free")>>

\* m4af_finalize_mdat(): a size that does not fit takes a 64-bit field, and
\* the header then covers the free box in front of it.
IsLong == mdat_size + HeaderSize > Limit

MdatHeader(pos) ==
  IF IsLong
    THEN [pos |-> pos - LongHeaderSize,
          cells |-> <<Size(1), Type("mdat"), LongSize(mdat_size + LongHeaderSize), Hole>>]
    ELSE [pos |-> pos - HeaderSize,
          cells |-> <<Size(Field32(mdat_size + HeaderSize))>>]

-----------------------------------------------------------------------------
(***************************************************************************)
(* Writing samples.                                                        *)
(***************************************************************************)
Init ==
  /\ pc = "create"
  /\ optimize \in BOOLEAN
  /\ last_error = FALSE
  /\ mdat_pos = 0
  /\ mdat_size = 0
  /\ sample_table = <<>>
  /\ chunk_table = <<>>
  /\ chunk_buffer = <<>>
  /\ file = <<>>
  /\ fpos = 0
  /\ ferror = FALSE
  /\ moovs = <<>>
  /\ shift = 0
  /\ end = 0
  /\ result = -1

\* m4af_begin_write(): ftyp, an empty free box and the header of mdat.
BeginWrite ==
  /\ pc = "create"
  /\ Output(ferror,
            <<Size(FtypSize), Type("ftyp")>>
              \o [k \in 1 .. (FtypSize - HeaderSize) |-> Body(0, k)]
              \o FreeBox(HeaderSize) \o <<Size(0), Type("mdat")>>,
            0, FtypSize + 2 * HeaderSize)
  /\ mdat_pos' = fpos'
  /\ pc' = "open"
  /\ UNCHANGED <<optimize, mdat_size, sample_table, chunk_table, chunk_buffer,
                 moovs, shift, end, result>>

\* Only the last sample may be empty: the one that encode() writes when it is
\* interrupted and holds no access unit back.
TakesSample ==
  /\ pc = "open"
  /\ ~last_error
  /\ Len(sample_table) < MaxSamples
  /\ sample_table # <<>> => Last(sample_table) # 0

\* m4af_write_sample(), when nothing fails and no chunk is complete.
WriteSample(size) ==
  /\ TakesSample
  /\ ~NeedsChunk
  /\ sample_table' = Append(sample_table, size)
  /\ chunk_table' = WithSample(chunk_table, size)
  /\ chunk_buffer' = chunk_buffer \o SampleData(Len(sample_table) + 1, size)
  /\ UNCHANGED <<pc, optimize, last_error, mdat_pos, mdat_size, ioVars, shift,
                 end, result>>

\* m4af_write_sample(), when the sample opens a chunk: the chunk before it is
\* written to the file first, unless it has no data.
WriteSampleInNewChunk(size) ==
  /\ TakesSample
  /\ NeedsChunk
  /\ sample_table' = Append(sample_table, size)
  /\ chunk_buffer' = SampleData(Len(sample_table) + 1, size)
  /\ IF HasUnwritten
       THEN /\ chunk_table' = WithSample(Append(Flushed(chunk_table, fpos), EmptyChunk), size)
            /\ mdat_size' = mdat_size + Len(chunk_buffer)
            /\ Output(ferror, chunk_buffer, fpos, fpos + Len(chunk_buffer))
            /\ ~last_error'
       ELSE /\ chunk_table' = WithSample(Append(chunk_table, EmptyChunk), size)
            /\ UNCHANGED <<mdat_size, last_error, file, fpos, ferror>>
  /\ UNCHANGED <<pc, optimize, mdat_pos, moovs, shift, end, result>>

\* m4af_write_sample() returns last_error: of begin_write, whose result main()
\* ignores, of the flush, or for want of memory.  encode() gives up, and the
\* tables are torn down unread.
WriteSampleFails ==
  /\ pc = "open"
  /\ Len(sample_table) < MaxSamples
  /\ last_error' = TRUE
  /\ ferror' \in {ferror, TRUE}
  /\ pc' = "end"
  /\ result' = -1
  /\ UNCHANGED <<optimize, mdat_pos, mdat_size, sample_table, chunk_table,
                 chunk_buffer, file, fpos, moovs, shift, end>>

-----------------------------------------------------------------------------
(***************************************************************************)
(* m4af_finalize().  No step looks at last_error before the end.           *)
(***************************************************************************)
\* Flush the last chunk.  main() never finalizes without a sample.
FlushLast ==
  /\ pc = "open"
  /\ ~last_error
  /\ chunk_table # <<>>
  /\ IF HasUnwritten
       THEN /\ chunk_table' = Flushed(chunk_table, fpos)
            /\ mdat_size' = mdat_size + Len(chunk_buffer)
            /\ Output(ferror, chunk_buffer, fpos, fpos + Len(chunk_buffer))
       ELSE UNCHANGED <<chunk_table, mdat_size, last_error, file, fpos, ferror>>
  /\ chunk_buffer' = <<>>
  /\ pc' = "mdat"
  /\ UNCHANGED <<optimize, mdat_pos, sample_table, moovs, shift, end, result>>

\* m4af_finalize_mdat(): fill in the size of mdat and go behind it.
FinalizeMdat ==
  /\ pc = "mdat"
  /\ Output(ferror, MdatHeader(mdat_pos).cells, MdatHeader(mdat_pos).pos,
            mdat_pos + mdat_size)
  /\ pc' = "moov"
  /\ UNCHANGED <<optimize, mdat_pos, mdat_size, sample_table, chunk_table,
                 chunk_buffer, moovs, shift, end, result>>

\* The moov box behind mdat.
WriteMoov ==
  /\ pc = "moov"
  /\ Output(ferror, MoovBox(chunk_table, Len(moovs) + 1), fpos,
            fpos + MoovSize(chunk_table))
  /\ moovs' = Append(moovs, Tables(chunk_table))
  /\ pc' = IF optimize THEN "patch" ELSE "return"
  /\ UNCHANGED <<optimize, mdat_pos, mdat_size, sample_table, chunk_table,
                 chunk_buffer, shift, end, result>>

Moved(chunks, offset) ==
  [c \in 1 .. Len(chunks) |-> [chunks[c] EXCEPT !.offset = @ + offset]]

Patched_IgnoresGrowth(chunks) == Moved(chunks, MoovSize(chunks) + Reserve)

\* m4af_patch_moov(): the offsets for a moov box in front.  They may switch
\* the box to co64, and it then grows by what the offsets grow once more.
Patched(chunks) ==
  LET once == Moved(chunks, MoovSize(chunks) + Reserve)
  IN  Moved(once, MoovSize(once) - MoovSize(chunks))

PatchMoov ==
  /\ pc = "patch"
  /\ chunk_table' = Patched(chunk_table)
  /\ shift' = MoovSize(Patched(chunk_table)) + Reserve
  /\ end' = mdat_pos + mdat_size
  /\ pc' = "shift"
  /\ UNCHANGED <<optimize, last_error, mdat_pos, mdat_size, sample_table,
                 chunk_buffer, ioVars, result>>

\* m4af_shift_mdat_pos(): where the block that is moved next begins.
BlockBegin == IF end - BlockSize > mdat_pos THEN end - BlockSize ELSE mdat_pos

Block_CopiedInPlace ==
  [k \in 1 .. (end - BlockBegin) |-> At(BlockBegin + ((k - 1) % shift))]

\* What is read into the buffer.  Its new place may overlap the old one.
Block == Get(file, BlockBegin, end)

\* Move one block, from the last one on: read it and write it further on.
\* The result of the read is ignored; after a failure the buffer holds what
\* it held before, and the stream remembers the error.
ShiftBlock ==
  /\ pc = "shift"
  /\ end > mdat_pos
  /\ \E readFault \in BOOLEAN :
       Output(ferror \/ readFault,
              IF readFault THEN [k \in 1 .. (end - BlockBegin) |-> Hole]
                           ELSE Block,
              BlockBegin + shift, end + shift)
  /\ end' = BlockBegin
  /\ UNCHANGED <<pc, optimize, mdat_pos, mdat_size, sample_table, chunk_table,
                 chunk_buffer, moovs, shift, result>>

\* When all is moved: a free box and the header of mdat in front of it, as
\* m4af_begin_write() left them, and m4af_finalize_mdat() again.
ShiftHeader ==
  LET to == mdat_pos + shift
  IN  /\ pc = "shift"
      /\ end = mdat_pos
      /\ mdat_pos' = to
      /\ Output(ferror,
                IF IsLong THEN MdatHeader(to).cells
                          ELSE FreeBox(HeaderSize) \o MdatHeader(to).cells \o <<Type("mdat")>>,
                to - LongHeaderSize, to + mdat_size)
      /\ pc' = "front"
      /\ UNCHANGED <<optimize, mdat_size, sample_table, chunk_table, chunk_buffer,
                     moovs, shift, end, result>>

FreeSize_OffByHeader(pos) == mdat_pos - pos - HeaderSize

\* The free box behind moov reaches up to the one in front of mdat.
FreeSize(pos) == mdat_pos - pos - LongHeaderSize

\* The moov box once more, behind ftyp, and a free box up to mdat.
WriteMoovInFront ==
  LET size == MoovSize(chunk_table)
      pos == FtypSize + size
  IN  /\ pc = "front"
      /\ Output(ferror,
                MoovBox(chunk_table, Len(moovs) + 1) \o FreeBox(FreeSize(pos)),
                FtypSize, mdat_pos - LongHeaderSize)
      /\ moovs' = Append(moovs, Tables(chunk_table))
      /\ pc' = "return"
      /\ UNCHANGED <<optimize, mdat_pos, mdat_size, sample_table, chunk_table,
                     chunk_buffer, shift, end, result>>

Return ==
  /\ pc = "return"
  /\ result' = IF last_error THEN -1 ELSE 0
  /\ pc' = "end"
  /\ UNCHANGED <<ctxVars, ioVars, shift, end>>

Ended == pc = "end" /\ UNCHANGED vars

Next ==
  \/ BeginWrite
  \/ \E size \in SampleSizes : WriteSample(size) \/ WriteSampleInNewChunk(size)
  \/ WriteSampleFails
  \/ FlushLast \/ FinalizeMdat \/ WriteMoov
  \/ PatchMoov \/ ShiftBlock \/ ShiftHeader \/ WriteMoovInFront
  \/ Return \/ Ended

Spec == Init /\ [][Next]_vars

-----------------------------------------------------------------------------
(***************************************************************************)
(* The file as a reader sees it.                                           *)
(***************************************************************************)
\* The size of the box that begins at pos, 0 if none does.
BoxSize(pos) ==
  IF pos + HeaderSize > FileEnd \/ At(pos).kind # "size" THEN 0
  ELSE IF At(pos).n # 1 THEN At(pos).n
  ELSE IF pos + LongHeaderSize > FileEnd \/ At(pos + 2).kind # "longsize" THEN 0
  ELSE At(pos + 2).n

\* The positions of the boxes from pos on, free ones left out, followed by the
\* end of the file if the boxes fill it exactly.
BoxesFrom ==
  LET boxes[pos \in 0 .. FileEnd] ==
        IF BoxSize(pos) < HeaderSize \/ pos + BoxSize(pos) > FileEnd
          THEN <<pos>>
          ELSE (IF At(pos + 1).kind = "free" THEN <<>> ELSE <<pos>>)
                 \o boxes[pos + BoxSize(pos)]
  IN  boxes

Boxes == BoxesFrom[0]
BoxTypes == [i \in 1 .. (Len(Boxes) - 1) |-> At(Boxes[i] + 1).kind]

\* The tables of the moov box at pos, if all of the box is there.
MoovIntact(pos, version) ==
  \A k \in 1 .. (BoxSize(pos) - HeaderSize) : At(pos + 1 + k) = Body(version, k)

\* An entry of stsc holds up to the next one.
SamplesIn(tables, c) ==
  tables.stsc[Max({first \in DOMAIN tables.stsc : first <= c})]

\* The cells where the tables locate sample s: in the chunk it falls into,
\* behind the samples before it in that chunk.
Located(tables, s) ==
  LET before == Sums([c \in 1 .. Len(tables.offsets) |-> SamplesIn(tables, c)])
      begin == Sums(tables.sizes)
      c == CHOOSE c \in 1 .. Len(tables.offsets) : before[c - 1] < s /\ s <= before[c]
      pos == tables.offsets[c] + begin[s - 1] - begin[before[c - 1]]
  IN  Get(file, pos, pos + tables.sizes[s])

\* The samples a reader gets from the file.
ReadSamples ==
  LET version == Len(moovs)
      tables == moovs[version]
      at == {i \in DOMAIN BoxTypes : BoxTypes[i] = "moov"}
  IN  IF at = {} \/ ~MoovIntact(Boxes[Min(at)], version) THEN {}
      ELSE {s \in 1 .. Len(tables.sizes) :
              Located(tables, s) = SampleData(s, sample_table[s])}

-----------------------------------------------------------------------------
(***************************************************************************)
(* Properties.                                                             *)
(***************************************************************************)
\* Chunk by chunk the table tiles the content of mdat: the first chunk begins
\* where mdat does, each begins where the one before it ends, and what is not
\* yet written belongs to the last chunk (m4af_flush_chunk, m4af_update_chunk_table).
ChunksTile ==
  LET n == Len(chunk_table)
      written == IF pc = "open" \/ chunk_table[n].size = 0 THEN n - 1 ELSE n
      begin == IF pc = "shift" THEN mdat_pos + shift ELSE mdat_pos
  IN  pc \notin {"create", "end"} /\ ~last_error /\ n > 0 =>
        /\ written > 0 => chunk_table[1].offset = begin
        /\ \A c \in 2 .. written :
             chunk_table[c].offset = chunk_table[c - 1].offset + chunk_table[c - 1].size
        /\ IF written > 0
             THEN begin + mdat_size = chunk_table[written].offset + chunk_table[written].size
             ELSE mdat_size = 0
        /\ pc = "open" => /\ fpos = mdat_pos + mdat_size
                          /\ chunk_table[n].size = Len(chunk_buffer)

\* From the closing of mdat on, its content is the samples, one after the
\* other.  While it is moved within the file, overlapping itself, every cell
\* is either still in its old place or already in its new one, and the moov
\* box that is then written in front of it leaves it alone.
RelocationLosesNothing ==
  pc \in {"moov", "patch", "shift", "front", "return"} /\ ~last_error =>
    \A s \in 1 .. Len(sample_table) : \A k \in 1 .. sample_table[s] :
      LET pos == mdat_pos + Sums(sample_table)[s - 1] + k - 1
      IN  At(IF pc = "shift" /\ pos >= end THEN pos + shift ELSE pos) = Data(s, k)

\* When m4af_finalize() succeeds the boxes fill the file without a gap, and
\* they come in the order the option asks for.
BoxesFillFile ==
  result = 0 =>
    /\ Boxes[Len(Boxes)] = FileEnd
    /\ BoxTypes = IF optimize THEN <<"ftyp", "moov", "mdat">> ELSE <<"ftyp", "mdat", "moov">>

\* An error of any read or write of the output makes main() fail: reads are
\* not checked, but they leave their mark in the stream for the next write.
FaultsReported == ferror => result # 0

\* The one case where the offsets in the file are not those of the chunks: a
\* last chunk that holds nothing but the empty sample of an interruption is never
\* given an offset, and still decides that 32 bits are enough for all others
\* (m4af_write_stco_box).
OffsetsCut ==
  /\ Last(chunk_table).size = 0
  /\ ~IsCo64(chunk_table)
  /\ \E c \in 1 .. Len(chunk_table) : chunk_table[c].offset > Limit

IsGood == result = 0 /\ ~OffsetsCut

Store ==
  INSTANCE SampleStore WITH
    appended <- sample_table,
    readable <- IF IsGood THEN ReadSamples ELSE {},
    status <- IF pc # "end" THEN "open" ELSE IF IsGood THEN "closed" ELSE "failed"

\* The muxer stores samples, an empty last one included: after a success a
\* reader of the file gets every sample written, byte for byte, through the
\* tables, wherever mdat was moved and however wide the offsets and sizes had
\* to become.  A file whose offsets are cut is one the promise is not kept for.
StoresSamples == Store!StoreSpec
=============================================================================
