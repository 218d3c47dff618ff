# Verification of fdkaac

fdkaac is a command line front end to the AAC encoder libfdk-aac. It reads a
WAV, raw or CAF file through a chain of readers, encodes it block by block, and
writes either a raw AAC stream or an M4A file whose tables, tags and gapless
information it makes itself. The program is one thread; what is asynchronous
is the signal that interrupts it and the failure of any call.

This directory holds TLA+ modules that model the program, TLC configurations
that check them on small instances, and proofs that TLAPS checks for every
value of the constants. Paths below are relative to the source tree
(`src/main.c`, `ChangeLog`, ...).

Run `tlc -config X.cfg M` for a run of PROJECT.json and `tlapm M.tla` for a
module of proofs.

## 1. Inventory

| Component | Source | State | Operations | What makes it correct |
|---|---|---|---|---|
| Encode loop | main.c 45-62, 497-597, 861-882 | g_interrupted, nread, remaining, obuf[2], flip, encoded, frames_written | read a block, offer it, take an access unit, flush, deal with an interruption, declare padding | every unit but the made-up ones is written, once and in order; the declared delay points at the first source frame; the frame account adds up; it ends |
| Reader contract | pcm_readhelper.c 22-37, pcm_reader.h | position, what is left | pcm_read_frames, pcm_get_position | full blocks until the end; the end is final |
| Extrapolater | extrapolater.c | two buffers, nbuffer, process | process0 .. process3, fetch | one predicted block on either side, source untouched between them |
| LPC predictor | lpc.c | none | vorbis_lpc_from_data, vorbis_lpc_predict | numerical |
| Limiter | limiter.c | look-ahead buffers per channel, position | read_frames | same number of frames out as in, same position, peaks within one |
| Sample format converters | pcm_native_converter.c, pcm_sint16_converter.c, lpcm.h | scratch buffer | read_frames | the nearest 16-bit sample, whatever the format; every format accepted is one that converts |
| WAV / raw reader | wav_reader.c | position, length, data_offset | chunk walk, ds64, read_frames | never reads past data; length and position consistent |
| CAF reader | caf_reader.c | same, channel layout | chunk walk, info strings, read_frames | same |
| PCM I/O helpers | pcm_readhelper.c 39-179 | file position | pcm_read, pcm_skip, pcm_scanl | exact counts on seekable and other inputs |
| Channel layouts | pcm_readhelper.c 181-448, catypes.h | none | layout to labels, mask and order; the encoder's mode | every channel arrives once, in the order of the mask, in a mode of as many |
| Encoder wrapper | aacenc.c | encoder handle, output buffer | aacenc_init, aac_encode_frame, aacenc_mp4asc | one access unit per full block; end of input signalled once there is none |
| libfdk-aac | external | block buffer, delay line | aacEncEncode | as used by aacenc.c |
| M4A muxer | m4af.c | samples, chunks, chunk buffer, mdat position and size, last_error | write_sample, finalize, relocation, the boxes of moov | every sample found through the tables; boxes fill each other and the file; durations agree; failures reported |
| Tags | metadata.c, m4af.c 490-645, main.c 599-644 | tag stores, itmf_table | add, translate, write from JSON, put tool tag | one slot per tag; later sources win |
| Command line and driver | main.c 233-495, 646-775, 777-896 | aacenc_param_ex_t, handles | parse, open, run, tear down | every handle released once, in order; no older file lost to a refusal; SBR declared once; exit status |
| Progress display | progress.c | last update | update, finish | display only |
| Platform layer | compat_*.c | none | fopen, seekable, ... | thin wrappers |
| parson, getopt | parson.c, missings/ | - | - | vendored |

Interaction: `main()` parses the options, builds the reader chain
(`open_input`: WAV/raw/CAF reader, native converter, limiter for float input,
16-bit converter, extrapolater for AAC-LC and HE-AAC), initialises the
encoder, opens the muxer, and calls `encode()`, which pulls from the outermost
reader, each reader pulling from the one it wraps. Access units go to
`m4af_write_sample()`. When `encode()` succeeds, `main()` derives the padding
from the reader's position and the number of units, and `finalize_m4a()` writes
the tags and closes the file.

Hard behaviours: a signal at any point of `encode()`; the double buffering of
access units, one late, with two of them dropped; the extrapolater's two
buffers shared by four states; the position of the reader, which is ahead of
what was handed out; reads and writes that fail anywhere; the in-place
relocation of mdat and the 32/64-bit switches that depend on it. PROJECT.json
lists every hazard at its line with the properties that cover it.

## 2. Plan

Order of the modules, the most important behaviour first; all are written.

1. `PcmReader` (contract), `EncodeLoop`, `EncodeLoopProofs`.
2. `Extrapolater`, and `Pipeline`, which puts the encode loop on top of it and
   is shown to implement `EncodeLoop`.
3. `Track`, `SampleStore` (abstract), `M4afMux`, refining it.
4. `Limiter`, refining `PcmReader`.
5. `ChunkFile`, `WavReader`, `CafReader`, composed by `OpenInput`, which
   refines `PcmReader`.
6. `TagStore`, `TagStoreProofs`.
7. `BoxWriters`: what M4afMux leaves out of the moov box.
8. `ChannelLayout` and `SampleFormat`, pure definitions, used by `Driver`:
   `main()` from its options to its exit status.

Theorems: `EncodeLoopProofs`, `TagStoreProofs`, `PipelineProofs`,
`M4afMuxProofs`, `LimiterProofs`, `DriverProofs` and `OpenInputProofs` are
written; `Induction` holds the lemmas that several of them need. What they leave to
TLC, and why, is at the end of section 5.

## 3. Modules and code

Every definition is a translation of the lines PROJECT.json `map` gives it. A
definition `X_Slip` in front of `X` is `X` with a plausible bug; it says which
property notices the bug and is used for nothing else.

**PcmReader** is the contract of `pcm_read_frames()` on the chain of readers, in
counts of frames: full blocks until the chain is used up, then 0. `length` is
what the chain delivers in all, `pos` what `pcm_get_position()` says, which
runs a block ahead when the extrapolater is in the chain. A read error becomes
0 (`Counted`), as it does in the code.

**EncodeLoop** extends it with `encode()` and the part of `main()` after it.
`pc` is the place in the loop: `top` (line 537), `read` (540), `offer` (549),
`encode` (552, the inner do), `done` (579), `finalize` (861). One action is one
stretch of code between two calls; `Signal` may come between any two. `obuf`,
`flip`, `encoded` are the variables of the same names, `out` is the sequence of
units written, and a unit is its number. The encoder (`fill`, `zeros`, `units`)
is external: it gathers one block, answers with one unit, and after the end of
input pushes zeros until its delay line holds no input. `write_sample()`,
`aac_encode_frame()` and `m4af_finalize()` may fail at every call.

**Extrapolater** is extrapolater.c, with frames as what they are: source frames
by their number, predicted ones as values that say from which run, and how far
from it, they were predicted. `buffer`, `nbuffer` and `process` are the
variables of the same names; the actions are `process0` to `process3`
(`process1` in two), and each `pcm_read_frames()` may need several. `LpcSpan`
is the shortest run the predictor works on.

**Pipeline** is the encode loop over the extrapolater. Its variables are those
of both; the loop's view of its reader (`pulled`, `pos`, `length`) is read off
the extrapolater's state. The loop's steps are those of EncodeLoop, instantiated,
but for the pull of a block, which here is made of the extrapolater's calls.
`Heard` says what a decoder of the file has at each place: it knows the blocks
that went into each unit and the delay between them. `ImplementsLoop` is the
refinement. A failure to read is the end of the source there, as it is for the
loop (`Counted`), so that the refinement says nothing about errors of reading.

**Track** has what both halves of m4af.c, M4afMux and BoxWriters, say of the audio
track: its samples' sizes, their duration, the time scale, the limit of 32 bits.

**M4afMux** is `m4af_create()` to `m4af_finalize()`. The file is a sequence of
cells of four bytes; a sample is known by its number, so that a reader
(`ReadSamples`, which follows stsc, stsz and stco like a player) can tell
whether it finds the right ones. `Limit` stands for UINT32_MAX and is so small
that both the 64-bit offsets and the 64-bit mdat size occur. A sample may be empty if it is the last: an interruption writes such a
one (`TakesSample`). Every write and
every read-back may fail, and nothing clears the stream's error indicator, so
that no write succeeds after it. **SampleStore** is what a muxer promises: what
was appended can be read after a success, and nothing is said after a failure.
What can be read is the set of the numbers of the samples that a reader finds. The
success of a run whose offsets were cut (`OffsetsCut`, section 6) counts as a
failure for the store (`IsGood`), and only that.

**Limiter** is limiter.c for any number of channels. A sample carries its value
and the peak of the curve that bent it, so that the arithmetic of the curves is
exact in integers (`Bounded` multiplies the fractions out). `Round` is one round
of the loop in `read_frames()`.

**ChunkFile** holds a file of chunks, cut off anywhere, and the helpers
`pcm_read`, `pcm_skip`, `pcm_scan*`, and `pcm_read_frames()` as the caller.
`Ends` gives the place of every chunk, and is a recursive function, so that it
can be reasoned about.
**WavReader** and **CafReader** are the two walks over the chunks and
`read_frames()`, one action for each kind of chunk. **OpenInput** composes them
the way `open_input()` does, by the first byte of the file or by `-R`. Its
`FilesAssumption` says what the files are: one data chunk, at most one format,
chunks as long as they say, in any order and of any number and length, with the
data's length of a WAV file as wrong as may be; and of CAF files that chunks
follow the data only if these are whole frames of a stated length, or frames of
no more than 12 bytes. Info chunks may be of any length, too short for the number
of their entries (`FixedInfo`) as well, and then refused; but behind the data none
is empty: `read_frames()` gives up at one of up to three bytes, and would pass an
empty one when called at the end once more. `IsTruthful` says that a WAV file does not state
more whole frames than it has; `LengthIsKept` needs it, nothing else does.

**TagStore** goes through the life of the tags: options (`AddOption`), info
strings of the source (`SourceCall`), then in `finalize_m4a()` the source's
tags, the JSON file's members (`JsonMember`), the options', the tool tag and
iTunSMPB, each through `WriteEntry`, in which one allocation may fail. `phase`
is the place in this order. Pictures share their tag and are told apart by what
they show: `Shown` lists what is in the slots, `Given` what was asked for.
`Promised` reads off the inputs what a tag should be, without stores, contexts or
slots; it speaks of `PlainLists`.

**BoxWriters** writes moov field by field, a field being a width and a value,
with sizes filled in where the code fills them in (`Box`) and counted by hand
where it counts them (`SizedBox`, `Descriptor`). It keeps the history that the
boxes are made from: samples, chunks, duration, bitrates, delay and padding,
gapless mode, tags. Its names begin with `Moov` where M4afMux has the same ones
(`MoovInit`, `MoovNext`), so that M4afMuxProofs can extend both. `Parsed` is a reader of its own, which knows what
ISO/IEC 14496-12 says and finds every box by the sizes it reads.

**ChannelLayout** has the layout tags, bitmaps and descriptions of a chan chunk,
what `apple_chan_chunk()` makes of them, the order in which `caf_read_frames()`
hands on the channels, and the table of channel modes of aacenc.c. **SampleFormat**
has the formats that each reader accepts and the conversions to 32 and to
16 bits, in bytes of `ByteBits` bits. Both have definitions only.

**Driver** is `main()`: `ParseOption`, `EndOfOptions`, `OpenInput`, `OpenLayer`
(one reader at a time), `InitEncoder`, `Configure`, `OpenOutput`, `CreateM4a`,
`Encode`, `Finalize`, `TearDown`. Any of them may fail. `held` and `layers` say
what there is a pointer to, `closed` in which order it was released; `params`
is `aacenc_param_ex_t`, of which every option that decides on something is
kept. The encode loop and the muxer succeed or fail there as a whole. `output`
says what is in the output file: an M4A file is complete once `m4af_finalize()`
has succeeded, whose last seek flushes the stream; of a raw stream the last bytes
are still in the stream's buffer when `result` becomes 0 (`buffered`), and
`TearDown`'s `fclose()` writes them or fails to.

Composition: Limiter and OpenInput implement PcmReader, the contract EncodeLoop
is built on, and Pipeline implements EncodeLoop over the extrapolater; M4afMux
implements SampleStore, which is what EncodeLoop takes `write_sample()` and
`finalize_m4a()` to be. Driver puts the readers on top of each other and
composes the definitions of ChannelLayout and SampleFormat: what comes out of
its chain is a frame of the file, its channels in order and its samples
converted.

## 4. Runs

| Run | Question | Bounds, and why they are enough |
|---|---|---|
| encode_loop | which units reach the file, where the source is in them, delay and padding, termination | sources of 0 to 10 frames in blocks of 3: from no block to four, every remainder; a delay of 5 against a declared one of 4: neither a multiple of a block, as with the real 1024/2048 and 1600..5k |
| final_outcome, interrupted_padding | two claims of section 6 about interruptions that do not hold | the same |
| pipeline | what a listener hears where, no overrun of the caller's block, and whether the loop over the real extrapolater is the loop over the contract | 0 to 18 frames in blocks of 5, predictor span 3: sources shorter than the span, of one block, with a last block shorter or longer than the span; delays of 8 and 7; a signal between any two calls |
| m4af_mux | tables locate every sample, with and without relocation, and failures are reported | five samples of 1 or 13 cells, the last possibly empty, two per chunk, Limit 38, blocks of 20: up to three chunks, the third of one sample, offsets on both sides of the limit, also only after relocation, and moves longer and shorter than a block |
| boxes | every box found by its size, durations that agree, bitrates in order | up to six samples of 0 or 20 bytes, each 250 ticks at 1100 a second, 32-bit fields that end at 1200: the fifth sample makes durations long, or the sixth if the delay is taken off; five samples make a second, so that the latest second is shorter, equal to and shorter than the track; all gapless modes, both scales, both widths of offsets, with and without tags |
| limiter | no sample lost, half-waves bent as a whole, bounded output | five stereo frames of five kinds in blocks of 2: the channels change sign in different places, peaks fall in all three ranges of the curves (up to 1, 2, 3 and clipped) |
| open_input | files open exactly when well formed and deliver their data and tags | 22 files of a few frames, info chunks of 0 and 3 bytes among them, each cut off at every byte, seekable or not, failing or ending, with -I or not; blocks of 2 frames |
| tag_store | the latest source wins, one slot per tag, pictures kept, failures noticed | 5060 inputs with the same tags coming from several sides, at most one failing allocation, which already sets last_error for good |
| driver | what is released, which files are touched, which SBR is declared, the order of channels, the sample nearest to the file's | three full products: the options that decide on SBR, names and transport with all four ranges of library versions; all headers and raw formats, good and bad; all layout tags, all orders of nine labels on up to three channels, some of eight, bitmaps and masks. Bytes of two bits, so that all samples of all formats are tried |
| missing_tag_file | the claim of section 6 about tag files that does not hold | two options |
| format_refused | the claim of section 6 about sample formats that does not hold | those of driver |

Deadlock is checked in every run; a finished program is a stuttering step.

Fairness is weak fairness of the one thread's step (`Step`, `Round`,
`PipelineStep`): the program runs until it ends. `Signal` has none: no signal
need come. There is no fairness about the outcome of a call; any call may
always fail. Liveness is checked of the loop (`Terminates`), of the loop over
the extrapolater, where a block takes several calls (`ImplementsLoop`), of the
limiter (`EventuallyExhausted`) and of the readers (`KeepsReaderContract`). The
encoder is taken to end once its delay line is drained.

## 5. Proofs

`EncodeLoopProofs` proves for every block length, every delay at least a block
long and every source (`FrameLength <= CoreDelay <= Delay`, and `Wrap`, 2^32,
large enough for the delay and three blocks) what encode_loop checks for one:
`LoopTypes`, `OutputPromised`, `LoopOrder`, `LoopPadding`, `LoopPlayback`,
`LoopFile`, `LoopInterrupt`. None of these is inductive. The invariant behind
them, `LoopInv`, says in addition

- what the two buffers hold: with smart padding the one not written to next
  holds the latest unit, and there have been as many units as `encoded` says
  (`BuffersInStep`);
- what has been written so far, `Promised(units)` (`OutputSoFar`);
- where every frame is: `units * FrameLength + fill = pulled - Unoffered + zeros`
  (`FramesAccounted`), and that zeros are only pushed after the end of input.

`PaddingAddsUp` and `SourceWherePlayed` then follow at the one step that sets
`result` to 0: the delay has been pushed out, so that the units reach beyond
the last frame of the source, and the delay being no shorter than a block the
last source frame is not in the unit that is dropped. That a block is covered
by a unit at all is a fact about integer division (`SomeBlockCovers`).

`TagStoreProofs` proves for all lists of options, source strings and JSON
members of the right types (`InputsAssumption`, `TextsAssumption`): `TagTypes`,
`TagSlots` (one slot per tag), `TagFilled` (no slot without data in a
finished file) and `PicturesKept` (the pictures of a finished file are those of
the options, in their order). The invariant `TagInv` adds to the types that a
table with an empty slot comes with `last_error`, and that nothing is left to
write in the first and last phases. That `m4af_find_itmf_slot()` finds the slot,
if there is one, and that there is no other, is `SlotMade` and `SlotFound`.
`PicturesInv` says that the pictures among the entries are those of the options
taken so far (`OptionsInv`), and that the slots show no picture until the
options are written and, without an error, those of the part of the list that
has been written from then on (`SlotsInv`).

`LatestSource` proves `LatestSourceWins`: in a finished file every tag has the
value of the latest source with a usable one. Its hypothesis is `PlainLists`, which
MCTagStore assumes too, so that TLC evaluates it: names are found (all but `tempo`,
section 6), the reader of the source ends by submitting its pairs, and no number of
a track or a disc is 0. A number of 0 stands for none in metadata.c:226, and one
that comes after another takes it back if the pair has not been submitted yet; what
would be promised then is no longer a matter of the latest source. The invariant,
`LatestInv`, follows one slot through all phases. Its `Outlook` is what the slot will
hold once the queue is written; writing an entry does not change it, whether the
entry is usable or not. `Collected` says what the stores have taken, and `InSlots`
that the outlook is what the sources written up to the phase promise. For the lists
of calls, whose pairs are put together in a context and submitted later, `Seen`
relates the context and the slot to the first k calls: the last number and the last
total among them are in the context, and the slot has them if the last of these
calls submitted them.

`PipelineProofs` proves for every block length, every span of the predictor up
to a block, every source and every delay at least a block long what pipeline
checks for one:

- `BlocksFit`: the assert of process1();
- `LeadAdjoins`: the first block is the mirror image of a prediction from the
  first source frames, and stays what it was when it was handed out;
- `PipelineRefinesLoop`: the loop over the extrapolater starts like EncodeLoop
  and takes its steps (`RefinesLoop`, the safety half of `ImplementsLoop`). The
  invariants of EncodeLoopProofs, whose proofs use the initial states and the
  steps and no fairness, are thereby those of the pipeline's image: `LoopHolds`
  cites them for it, through an instance of EncodeLoopProofs;
- `TailAdjoins`: the block behind the last source frame is predicted from it, in
  order;
- `SourceIsPlayed`: a player that skips the declared delay hears every source
  frame in its place. This is where both halves meet.

The invariant behind the first three, `ReaderInv`, places every frame between the
source and the caller. In process1 the caller is one block behind the source;
that block and the one before it are in the two buffers, and all before it were
full (`OneBlockBehind`); in process2 and process3 what was handed out, what the
caller has of an unfinished block and what is still ahead add up to
`ChainLength`. It is needed because a block takes several calls: only at the
last does the loop see anything, and only the sum tells how long the answer is.
`DataInv` says the same of contents instead of counts: every place handed out
(`HandedFits`), and every place in the buffers or in front of them
(`AheadFits`), holds what `Fits` there: a predicted frame of the lead, the
source frame of that number, or a predicted frame of the tail. With it, the
frame in the unit that `LoopInv` puts at a place is the source's, and that is
`SourceIsPlayed`.

`M4afMuxProofs` proves for all sample sizes, limits, numbers of samples in a
chunk, block lengths and faults what m4af_mux checks for a few:

- `FaultsAlwaysReported`: no write succeeds after one has failed (`ErrorInv`);
- `ChunksAlwaysTile`: the chunks share out the samples (`ChunkInv`), and each
  offset is the beginning of mdat plus all samples before it (`OffsetInv`),
  through the relocation and both changes of width;
- `NothingIsLost`: the copy from the end of mdat reads no cell it has written.
  In `ContentInv` the i-th cell of mdat is behind `end` at its new place, and in
  front of `end` at its old one;
- `BoxesAlwaysFillFile`: `LayoutInv` has the header of mdat before and after
  `m4af_finalize_mdat()`, moov in front of it or behind it, and the free box
  that makes room for the 64-bit size;
- `MuxerStoresSamples`: a reader that follows stsc, stsz and stco finds every
  sample where it is, so that M4afMux implements SampleStore;
- `AverageAlwaysBelowMax`, of BoxWriters: `AverageBelowMax`, for all sizes and
  numbers of samples, durations and time scales. The maximum is taken over the
  latest second only, and both rates are rounded. In the invariant, `BitrateInv`, the
  first k samples are at a rate of no more than the maximum, for every k so far: what
  came before the latest second is such a k, and its rate and that of the second,
  put together (`BelowJoined`), bound the rate of all (`WindowsJoin`). Rates are
  compared before they are rounded, without divisions (`Below`, `RateBelow`).

`MuxerStoresSamples` holds with empty samples too. A reader asks nothing of an empty
sample but that its tables have it; but a last chunk of nothing else has no offset and
decides that 32 bits are enough for those of the others (m4af.c:700). If they are
not, the offsets are cut, and that is the one exception the theorem makes, by
`IsGood`. It is an exception of the code's: m4af_mux reaches such files, with the
empty sample alone in the third chunk and the second beyond the limit.
That offsets are numbers at all, cut or not, is `OffsetsAreNumbers`.

`LimiterProofs` proves for any finite set of channels, any source, any length of
a block and any scale: `SamplesStayInOrder`, `AlwaysBoundedWithinWaves`,
`AlwaysOneCurvePerWave` and `LimiterKeepsReaderContract` (the limiter implements
PcmReader: the property has no liveness, so all of it is proved). The
invariant `IInv` puts what was let go and what is held back together, channel by
channel: they are the samples that came in, one for one, with their signs
(`Tracks`), bent up to where the channel's `head` is (`Curved`), and that place
is the end of a half-wave or of the source (`Boundary`). The last is needed
because the other channels decide how many are let go: without it a half-wave
that is cut by what they allow could be bent a second time by the next call.

`DriverProofs` proves for all inputs, options and versions of the library, any
call failing:

- `FilesSafe` (`FilesKept`). `FilesInv`: nothing is touched before there is an
  output, and nothing is refused after it.
- `SbrOnce` (`SbrDeclared`), for all inputs of an even rate. `SbrInv`: with the
  oldest library the ratio is 2 from `InitEncoder` on if SBR is active, no option
  makes a ratio above 2, and the muxer is only created for M4A. At an odd rate,
  which half of is not whole, the model's integer division would declare one less
  than the rate; the runs use the rates of the MPEG tables.
- `ReleasedOnce` (`HandlesReleased`). `HandlesInv` says for every place in
  `main()` what must be there, and `InPlace` that the list of what was released
  runs in one order, in which only an encoder that `aacenc_init()` has closed may
  come early.
- `ChannelsAlwaysInPlace` (`ChannelsInPlace`): whatever labels a chan chunk gives
  and in whatever order, the channels come in the order of the mask and none twice.
  The argument is one about permutations: the channels sorted by their labels are
  a bijection.
- `NearestAlways` (`NearestSample`): for every `ByteBits`, so that the run tries
  bytes of two bits and the theorem speaks of those of eight. `NearestInv`: a
  frame is only delivered in a format that was accepted and that a converter
  knows, and such a format of integers has one to four bytes and no more bits
  than they hold (`FormatFits`). The rest is arithmetic. Reading the bytes from
  the highest down gives the sum of their weights, in either order
  (`UnsignedIsNumber`), and turning over the highest bit what takes away half
  (`NativeIsNumber`); then half a step is added and cut off (`RoundedIsNear`), or
  the bits below the sixteenth are 0 and nothing is lost (`LowBitsAreZero`,
  `ExactIsNear`). `Values` is a recursive function because the provers know
  nothing of the power operator.

`CasesAssumption` says of the cases what types the rates, ratios, channels and
versions have, and the bits a WAV file declares.

`OpenInputProofs` proves for all files of `FilesAssumption`, cut off at any byte,
from disk or through a pipe, ending there or failing, and for every length of a
block:

- `OpensExactlyWellFormed`: a file is refused exactly when it is of no known kind,
  lacks a format before its data, is cut off before them or has an info chunk in
  front of them that is too short;
- `AlwaysDeliversTheData`: the caller gets the frames of the data chunk;
- `TagsAlwaysComplete`: by then the tags hold the strings of every info chunk, up
  to one behind the data that is too short;
- `OpenInputKeepsReaderContract`: `Spec => Contract!Spec`, the safety half of
  `KeepsReaderContract`;
- `LengthAlwaysKept`: the length announced is what is read. Its hypothesis is
  `IsTruthful` of every WAV file; MCOpenInput assumes the same of the files
  tried, so that TLC evaluates it.

The invariant, `ReaderInvAlways`, has a part for the walk and one for the reading.
On the walk (`WavWalk`, `CafWalk`) the file is at the header of a chunk not
behind the data, with what is in front of it taken in (`WavAt`, `CafAt`: format
seen, 64-bit length taken, strings collected, no chunk too short), or in an RF64 file beyond its cut
(`WavLost`); and a file refused was not well-formed. That the walk finds a
header only where a chunk begins needs the layout of the file, that chunks lie
one behind the other (`WavLayout`, `CafLayout`), for which `Ends` is unfolded. While
reading (`WavReading`, `CafReading`) the length is one of those the file can give
it (`Lengths`: stated, counted, to be ignored or none), and the caller has the
frames up to where the file is (`Caller`). A read error in the middle of a
block drops what was read of that block; the count is right because until then
nothing but whole blocks has been read (`WavRagged`, `InBlocks`). In a CAF file the
strings behind the data are taken at the first read that brings nothing, which
`CafTags` puts at the end of the data and not before it; when the file ends
within mEditCount the length is negative, and that is harmless because there is
no data (`length < 0 => size < Caf!FirstByte`).

`Induction` has what these proofs share: smallest and largest elements,
induction along an interval (`UpTo`), and the existence and the unfolding of a
function defined by recursion along an interval (`Recursion`). The library's
theorems for this take an operator as a parameter, which the provers at hand
cannot instantiate; these are about sets and functions instead, so that what the
recursive functions `Ends`, `Sums`, `Values` and the collected strings compute is
proved
for all their inputs.

Only model-checked are

- `WellNested` and `DurationsAgree` of BoxWriters: they speak of some thirty boxes
  field by field, after parsing them, which the provers would have to evaluate;
- all liveness (`Terminates`, `EventuallyExhausted` and that half of
  `ImplementsLoop` and `KeepsReaderContract`): fairness and ENABLED are out of the
  prover's reach.

## 6. Where the code and its documentation disagree

Each of these is a run that finds the stated claim violated.

- `final_outcome` (main.c:585): after an interruption `encode()` writes
  `obp[flip ^ 1]` with `obp = &obuf[flip]`. That is `obuf[1]` for either flip;
  when flip is 1 it is the buffer just emptied, so that an empty sample is
  written and the unit held back is lost.
- `interrupted_padding` (main.c:877): the position is a block ahead of what was
  encoded, and the unsigned padding wraps.
- `missing_tag_file` (metadata.c:186): a tag file that cannot be opened crashes
  the program after its warning.
- `format_refused` (pcm_native_converter.c:192): big endian samples of 8 bits
  are accepted when the input is opened, and no converter knows them; the file
  is written without any audio of the source, and the exit status is 0.

The models show more, each in the definition named, which no run is about.

- A read error looks like the end of the source (`Counted` in PcmReader,
  pcm_readhelper.c:36), so that "ERROR: read failed" (main.c:541) is never said.
- The empty sample of `final_outcome` may open a chunk of its own, which has no data
  and keeps the offset 0. It decides between stco and co64 for all chunks
  (m4af.c:700): stco is written, and offsets beyond 32 bits are cut (`OffsetsCut` in
  M4afMux), for all that ChangeLog:125 says of the switch.
- The end of a raw stream is written by `fclose()` (main.c:887), whose result is
  ignored, after `result` has become 0: with a full disk the file lacks its end and
  the exit status is 0 (`TearDown` in Driver). ChangeLog:483 says that errors of
  `fwrite()` are checked.
- A short last block is returned with the length of the run it was joined to
  (`Process1End`, extrapolater.c:162), and the caller takes the rest of its old
  block for audio. `ChainLengths` of PcmReader allows for it; the source is
  unharmed (`PlayedIsSource`).
- A WAV file made for a pipe may state 0xFFFFFFFF bytes for unknown. That is a
  multiple of frames of one, three or five bytes, and is then taken for a length
  (`DeclaredFrames`, wav_reader.c:214): such a file of 8-bit or 24-bit mono
  announces frames that it does not have. It is read to its end all the
  same (`AlwaysDeliversTheData`); `IsTruthful` excludes it from `LengthAlwaysKept`.
- The name `tempo` is never found: the table of keys is not sorted where it
  stands (`FoundRow` in TagStore, metadata.c:63, while README:25 and
  ChangeLog:287 speak of tag names in general).
- A track or disc number of 0 stands for none (`Submitted` in TagStore,
  metadata.c:226): it is not written, and if it comes after another number, before
  the pair is submitted, neither is that one.
- Usage says of profile 2 that it is the default (main.c:115). Without `-p` the
  profile is 0: the encoder makes AAC-LC of it (`ObjectType`), but the
  extrapolater is not put into the chain and nothing is dropped
  (`SmartPadding` in Driver).
- Usage gives `-h` for the header period; the program takes `-P` for that and
  `-h` for help.
- The first sample of a half-wave that begins where the last call stopped is
  not bent (limiter.c:108), and leaves the limiter above 1 if it is; that is
  why `BoundedWithinWaves` speaks of the samples after it.
- The rate in mp4a has 16 bits, and one of 65536 or more loses its upper ones
  (`mp4a`, m4af.c:868); players take the rate from esds.
- `m4af_create()` answers with a null pointer on failure, main() asks whether it
  is negative, and the setters follow it (`CreateM4a`, main.c:842).
- The bytes of a raw frame are kept in eight bits, and raw_open() divides by
  them when they are none: 256 channels, or 32 of eight bytes (`FrameIsEmpty`,
  main.c:734).
- Numbers are read with %u into an int and compared from above, so that one
  below 0 passes (`InRange`, main.c:344). The mask of a WAV file is not compared
  with its number of channels (wav_reader.c:129).
- Info chunks behind the data of a CAF file are read by the call that finds no
  more frames, and so not when the encoding is interrupted (`TagsComplete`). That
  call takes an info chunk it cannot read, or of less than four bytes, for the end of
  what follows (`TrailingTags`, caf_reader.c:110 and 166), and says nothing.

## 7. Not modelled

- The arithmetic of the LPC predictor, of floating-point conversion and of the
  limiter's curves beyond their bounds: no state, and out of reach of exhaustive
  checking.
- Chunks whose declared length is not theirs (other than the data chunk's): the
  files tried are those that writers make, cut off anywhere.
- libfdk-aac, beyond how it is used, and the bits of an AudioSpecificConfig,
  which is taken for what it says.
- The ALAC and TEXT codecs of m4af.c, which the program never asks for;
  pcm_float_converter.c, which it does not use.
- Options that only pass a value on (bandwidth, CRC, header period) or say how to
  print; genre codes and the conversion of strings to UTF-8; all but a few of the
  tag names.
- Allocation failures other than those of the tag slots, of the readers and of
  the muxer's context; the program mostly does not look at them.
- Progress display, platform layer, and the vendored parson and getopt.
