# TLA+ models of rawspeed

rawspeed decodes the raw files of digital cameras into images.  The modules here model it
from the first byte of the file to the levels of the image: how a file's directories are
walked and its decoder is found, in which order the decoders create, fill, map, crop and
level an image, where every decompressor reads and writes, how bits and prefix codes are
read, and how teams of threads decode and repair an image and report their errors.  They
are checked with TLC and proved about with TLAPS.

Paths below are relative to `src/src/librawspeed/` unless they say otherwise.

## 1. The system

A utility (`src/src/utilities`) reads a file (`FileReader`) and hands the buffer to
`RawParser`, which finds out its container (TIFF, CIFF, FIFF, a few magic numbers) and
makes one of some twenty `RawDecoder`s.  The utility then calls `checkSupport()`,
`decodeRaw()` and `decodeMetaData()` on it.  `decodeRaw()` allocates a `RawImage`, makes
a decompressor for it, lets it fill the image, and repairs the bad pixels that were
recorded on the way.  `decodeMetaData()` looks the camera up in `cameras.xml`, crops the
image and sets its levels.  Exceptions carry failures up; in the middle, wherever
OpenMP threads run, they are turned into strings in the image's `ErrorLog` and back
into an exception after the threads have joined.

| component | state it keeps | operations | interacts with | what makes it correct |
|---|---|---|---|---|
| Slice-parallel decompressors (`AbstractDngDecompressor`, `PhaseOne`, `Fuji`, `SonyArw2`, `PanasonicV8`, tile loop of `ArwDecoder`) | which slices are decoded; per thread its chunk | decompress, one slice at a time | ErrorLog, RawImage | returns only with the whole image, throws only for a real failure, ends |
| ErrorLog | vector of messages, mutex | setError, isTooManyErrors, getErrors | every team, the decoders, the utilities | no message lost or doubled |
| VC-5 parser | band objects and band mask per channel and wavelet; pending tags | one per tag, code block | task graph | satisfied only when the pyramid is complete, objects agree with the mask |
| VC-5 task graph | tasks, band data, exception flag | create, run, fail, skip, free, combine | ErrorLog, OpenMP runtime | inputs ready, no band used after it is freed (but by a clearing task, section 6), the team agrees |
| Bad pixels | position vector, bitmap, samples | record, transfer, interpolate | Panasonic V4, DNG opcodes, IIQ calibration | nothing lost; parallel = sequential |
| RawImage and its workers | dimensions, crop, levels, look-up table, samples | createData, setCpp, subFrame, scaleBlackWhite, sixteenBitLookup | decoders, utilities | crop inside the image; samples mapped and scaled once |
| Decoding pipeline (`RawDecoder`) | hints, the image, metadata | checkSupport, decodeRaw, decodeMetaData | CameraMetaData, decompressors | order of crop, colours and levels; every failure an exception |
| Camera decoders | mode, precision, shift | their three virtual functions | pipeline, decompressors | the same |
| DNG image (`handleMetadata`, `DngOpcodes`) | crop, colour pattern, opcode lists, black areas, levels | crop, parse and apply a list, set black, scale, reset levels | RawImage, bad pixels, ErrorLog | what is stated relative to the crop agrees with the crop |
| DNG tiles | tile grid | partition, decode | slice-parallel decompressors | tiles cover the image once |
| LJpeg | frame, tables, restart interval | marker handlers, scan | bit streams, prefix codes | a scan has its tables and its frame; MCUs cover the tile once |
| Canon CR2 slices, sRaw interpolation | slice widths | iterate slices, tiles, strips; interpolate | LJpeg | tiles cover the image once |
| Panasonic blocks, Fuji strips, row codecs | blocks, line buffers, predictors | partition, process | bad pixels | blocks cover the image once; predictions read what was written |
| Bit streams | cache, fill level, position | fill, peek, skip, get; put, drain, flush | prefix codes, decompressors | bits come back as they were written; reading ends near the end |
| Prefix codes | code table, look-up table | setup, decode, encode | LJpeg and most codecs | prefix codes; the decoders agree |
| TIFF and CIFF directories | tree of directories, set of ranges seen | parse, add, look up | RawParser, decoders | the walk ends; limits hold; no range read twice |
| RawParser, FIFF | parser at work | try the parsers, make the decoder | the parsers | every file gets a decoder or an exception |
| Metadata | cameras, aliases | add, get | pipeline | one camera per key; modes fall back |
| Buffers, containers, I/O, utilities | - | - | - | views stay in bounds; see section 7 |

What is hard here: nothing is persisted and nothing is sent, so there are no crashes to
recover from and no messages to lose.  The difficulties are threads that share an image
and a log without further coordination, failures in the middle of a parallel region,
task graphs whose data is freed by a task, loops that wait for a whole team, sequences of
tags, markers, directories and calls in unexpected order, exceptions between two steps of
the pipeline, and arithmetic at the borders of an image or of a buffer.  `PROJECT.json`
lists them line by line under "hazards".

## 2. The modules

| module | models | run, theorems |
|---|---|---|
| `DecodeContract` | what a decompressor promises its caller (abstract) | refined by the next and by `VC5Tasks` |
| `SliceDecode` | the slice-parallel decompressors and `common/ErrorLog.cpp` | `MCSliceDecode`, `SliceDecode_proofs` |
| `VC5Parse` | `parseVC5()`, `parseLargeCodeblock()` | `MCVC5Parse`, `VC5Parse_proofs` |
| `VC5Tasks` | `VC5Decompressor::decode()` and everything it starts | `MCVC5Tasks`, `VC5Tasks_proofs` |
| `BadPixels` | recording, transferring and interpolating bad pixels | `MCBadPixels`, `BadPixels_proofs` |
| `DngImage` | `DngDecoder::handleMetadata()`, `DngOpcodes`, cropping and scaling | `MCDngImage`, `DngImage_proofs` |
| `Raster` | how any decompressor fills an image, slice by slice and step by step | `MCRaster`, `Raster_proofs` |
| `RasterSteps` | what its steps are made of | |
| `PanasonicBlocks`, `Uncompressed`, `LJpegMarkers`, `LJpegScan`, `DngTiles`, `Cr2Slices`, `Cr2sRaw`, `RowCodecs`, `FujiLines` | the geometry of each decompressor | |
| `Decompressors` | which of them a job is for | |
| `PrefixCodes` | `HuffmanCode`, `PrefixCode`, the decoders, the encoder | `BitStreams_proofs` |
| `BitStreams` | `BitStreamer`, `BitVacuumer`, their caches | `MCBitStreams`, `BitStreams_proofs` |
| `IfdTree` | limits of the tree of directories, `NORangesSet` | `Pipeline_proofs` |
| `TiffParser`, `CiffParser` | `TiffParser::parse()`, `TiffIFD`, `CiffParser`, `CiffIFD` | |
| `RawParser` | `RawParser::getDecoder()`, FIFF, MRW, the map of decoders | `Pipeline_proofs` |
| `Cameras` | `Camera`, `CameraMetaData` | |
| `DecodedImage` | the steps of `RawDecoder`, `RawImageData`, `RawImageCurveGuard` | |
| `TiffDecoders`, `MakerDecoders` | the ways through each camera decoder | |
| `Pipeline` | from `RawParser` to the delivered image; composes the last seven | `MCDecode`, `Pipeline_proofs` |

The operators marked `(mutant)` are defective versions of the definition that follows
them.  No specification uses them; they are there to show that a property notices.

`DecodeContract` is refined twice, by `SliceDecode` (decoded = the slices that are done)
and by `VC5Tasks` (slices are the bands of the stream).  It says: `decompress()` returns
only when every slice is decoded and nothing was wrong, and throws only with the message
of something that really was.

### SliceDecode

One action per step of a thread: `Enter` (dispatch on the codec), `NextSlice`,
`LoopDone`, `DecodeSlice` or `SliceThrows` for the body of the try block, `Acquire`,
`PushRead`, `PushStore` for `setError()` (`push_back` reads the end of the vector and
then writes: without the mutex two of them can overwrite each other), `Handled` for what
follows the handler, and `Finish` for the rest of `decompress()` on the master thread.
The decompressors of this shape differ in three constants: whether the log is asked
(`ChecksLog`; PanasonicV8 does not), whether the handler has an `omp cancel for`
(`HasCancel`; SonyArw2), and whether an unknown codec is noticed inside the region
(`ChecksCodec`; DNG).  Cancelling works only when OMP_CANCELLATION is set, which `Init`
chooses (`cancelling`); a thread that cancels leaves the loop with the rest of its chunk
undone, and the others leave when they come to the construct themselves.  The schedule is
a constant function, as `schedule(static)` is.  Which slices cannot be decoded is chosen
in `Init`: it depends on the bytes, not on the threads.  In `image`, "partial" is a slice
whose decoder threw on the way.

### VC5Parse

One action per tag that changes the parser.  Tags that must repeat something already
known, optional chunks that are skipped, and PrescaleShift, which only matters to the
arithmetic of a wavelet, are `CheckedTag`, which changes nothing;
whatever can throw is `Throw`.  `LargeCodeblock` is the whole of `parseLargeCodeblock()`:
the band object, the mask bit, the next wavelet's low-pass band when this one is
complete, the Optionals it uses up, and the loop condition.  Subband tables are
written as arithmetic (`WaveletIndex`, `BandIndex`).  Whether the code blocks come in the
order in which an encoder writes them is chosen in `Init` (`inOrder`): it is a fact about
the input, and only `AllSentMeansDone` depends on it.

### VC5Tasks

A band is a triple channel, wavelet, band; wavelet 0 is the full-size one.  A band of the
stream has one task (`decode`), a band to be reconstructed four (`low`, `high`, `clear`,
`combine`).  `In` and `Out` are the depend clauses as they are written in the code;
`DependsOn` is what OpenMP makes of them, and the only thing that orders tasks.  One
thread creates the tasks (`CreateTasks`, `CheckCreator`) while others run them
(`StartTask` and the action that ends it).  A failing band is logged (`LogFailure`) and
then raises the flag (`RaiseFlag`): the two are separate steps, because every other task
and the creator may look in between.  `ClearBands` destroys the bands of a wavelet and
the data in them.  It finds the wavelet through the band its task belongs to, and nothing
orders it with the task that destroys that band: with the band gone, the memory may still hold
what was there, or the program is undefined from then on (`ClearAstray`).  After the barrier each thread reads the flag on its own
(`PassBarrier`) and joins the last work-sharing loop or does not; that loop has a barrier
of its own (`LeaveLoop`).  Pixels are abstracted to "the data is there".

The number of tasks running at a time is at most the number of threads.  The reconstructing
tasks share their rows in `taskloop`s (`VC5Decompressor.cpp:210`, `:269`), each of which waits
for its chunks before the task goes on.  The chunks only write what that task engages at its
end, so they are part of its step.  A thread that waits for them may run some of them, but no task
of another band: these are tied tasks, and such a task is no descendant of the one that
waits.  A task is thus never suspended in favour of another task of the graph.

### BadPixels

Recorders are whoever calls `mBadPixelPositions.insert()`: the threads of PanasonicV4,
then DNG opcodes or the calibration of an IIQ file.  `BeginInsert` and `EndInsert` are
the two halves of an insertion under `mBadPixelMutex`.  `Transfer` is
`transferBadPixelsToMap()` with what `startWorker()` computes before its loop.  A worker
takes the next marked pixel of its rows (`NextPixel`), looks in the four directions one
after the other (`FindNeighbour`, reading the samples as they are at that moment) and
writes (`WriteSample`).  Samples are numbers and the interpolation is the code's integer
arithmetic.

### DngImage

`stage` follows `decodeRaw()` from `decodeRawInternal()` to `fixBadPixels()`; each
statement of `handleMetadata()` that changes the image is an action that advances it, and
`Throw` may end it anywhere before the last.  `dim` and `mOffset` are the crop, `cfa` the
cell of the file's colour pattern that lies at its origin.  `SubFrame` is
`RawImageData::subFrame()` with its exception and its silent skip.  A list of opcodes is
parsed (`ParseOpcode`, one constructor after the other, with `integrated` for the crop
the list has announced so far; FixBadPixelsList makes further ones, `Dummies`, for its
rectangles, and sets them up at once) and then applied (`ApplyConstant`, `ApplyList`,
`ApplyTrim`, `ApplyPixel`, or `LogOpcodeError`, which drops the rest of the list and goes
on).  Maps of pixel values are one kind of opcode: their regions matter, their values do
not.  `SetBlack` turns a masked rectangle into a black area when it spans the crop;
`ScaleBlackWhite` records which samples were scaled, in the plain variant or the SSE2
one; `ResetLevels` says afterwards that they were.  Linearization, the pixel aspect ratio
and estimation of levels change only values and are left out.

### Raster and the decompressors

`Raster` is one state machine for all decompressors.  A *job* is an image with what its
input looks like.  `Construct` accepts it or throws (`Accepts`: the checks of the
constructor and its caller); `DoStep(s)` is one step of slice s, `Return` the end of
`decompress()`.  The slices of a work-sharing loop interleave freely; a sequential
decompressor has one slice.  A step says which samples it writes, which it predicts from,
which units of the input it takes; `by` remembers which slice wrote a sample.  What differs
from one decompressor to another is data, computed from the job by arithmetic that follows
the code's loops:

- `PanasonicBlocks`: the input in blocks of packets, V4 to V7 (a block's two sections are
  swapped, the last block may be short), and the strips of V8 with the checks of their grid.
- `Uncompressed`: `UncompressedDecompressor` with its ways to unpack.
- `LJpegMarkers`: `AbstractLJpegDecoder` from marker to marker; tables, frame and restart
  interval are kept until the scan.  `LJpegScan`: MCUs, stripes and restart intervals of a
  scan that covers a tile.  `DngTiles`: tiles and strips of a DNG, and the four codecs of a
  tile (uncompressed, lossless JPEG, deflate, lossy JPEG).
- `Cr2Slices`: the frame of a CR2 cut into slices, the tiles they make in the image, the
  strips the tiles are joined to, and the groups decoded into a strip.  `Cr2sRaw`: the
  chroma interpolation of an sRaw.
- `RowCodecs`: Nikon, Pentax, Samsung V0 to V2, Hasselblad, Kodak, Olympus, Sony ARW 1 and 2,
  PhaseOne, Canon CRW.  `FujiLines`: the strips of a Fuji image and the line buffers through
  which a thread decodes them; its cells live next to the image's samples, and a line is
  void when the buffers are rotated.

Predictors' values, differences and curves are left out: a sample is written or not, and
what it was predicted from was there or not.

Of the data in DNG tiles three things are taken for granted by the code and checked by
nobody.  A deflated tile may unpack to fewer bytes than it has samples (`unpacked`), a lossy
JPEG may be smaller or larger than its tile (`jpegs`; `Copied` is what the code copies of
it), and tiles whose samples come from a bit stream may lie beside each other.  Jobs of
all these kinds are run.  `Trusted(j)` is the condition under which `TargetsFresh`,
`InputsReady` and `Complete` speak of job j: for DNG `DngTrusted`, for all else TRUE.
`InBounds` in `TypeOK` speaks of every job.  `raster_tiles` drops the condition (`AnyData`).

### PrefixCodes and BitStreams

`PrefixCodes` makes codes of a JPEG's table as `HuffmanCode` does, with the checks of
`HuffmanCode` and `PrefixCode`, and has every decoder as an operator on a run of bits:
vector, lookup, tree, LUT, and PanasonicV8's table; and the encoder.  A code's differences
are sign-extended as `extend()` does, with the 16-bit bug of old DNGs.

In `BitStreams` a message is put into a `BitVacuumer` (`Put`, `Flush`), its bytes are cut
anywhere or followed by markers (`Deliver`), and a `BitStreamer` reads it back (`Read`),
skipping (`SkipMany`) or being made anew at its place (`Reload`) on the way.  A cache is the
queue of its bits; the six orders differ in `MaxProcessBytes`, in the order of bytes in a
chunk and of bits in a byte, and in what is stuffed; `LoadsInside` to `Filled` are the
replenisher with its reads past the end, zero padding and final exception, `JpegFilled` is
`BitStreamerJPEG::fillCache()` with its markers.

### IfdTree, TiffParser, CiffParser, RawParser

A tree of directories is the sequence of them in the order of construction; each knows the
directories above it and the two counters that `TiffIFD::recursivelyIncrementSubIFDCount()`
and its like keep.  `ranges` is the `NORangesSet`, with `Inserted` searching by partition
point and comparing with two neighbours.  In `TiffParser` one action is one constructor or
one entry: `Header`, `Construct`, `PlainEntry`, `SubIFDsEntry`, `BadEntry`, `BadOffset`,
`Finish`.  `stack` is the recursion, made explicit.  What a directory says is chosen when
it is read: no directory is read twice, because their ranges may not overlap.  `Thrown`
unwinds the recursion to the constructor that catches, with what of the tree and of the
counters it leaves.  `CiffParser` is the same for CIFF, whose values lie in nested areas
and in entries.  `RawParser` tries the parsers in the code's order, with the exceptions each
lets pass (`CaughtAt`), the three directories of FIFF, the blocks of MRW, and the map of
decoders with what each wants of the root directory.

### Cameras, DecodedImage, the decoders and Pipeline

`Cameras` makes the database of a `cameras.xml`: what `Camera`'s constructor makes of an
element or refuses, aliases, modes, and which entry a model and mode find.  `DecodedImage`
has the steps that decoders are made of as actions on one image, of which is kept whether
it is there, where its colours, table and levels come from (the common black level, those of the
colours and the white level each for itself), how often it was cropped, mapped and scaled,
and the parity of its crop.  `TiffDecoders` and `MakerDecoders` give, for
each decoder and each of its three calls, the set of ways through it, each the sequence of
steps it takes; `Pipeline` picks a way (`Call`), takes its steps, lets any step that can
throw throw instead (`Throw`, with the handlers that are open and the guard that unwinds),
and ends with an image or an exception.  A client is what the README and `rstest` do, or
`rawspeed-identify`, which asks for the metadata first.  DngDecoder is left to `DngImage`.

## 3. The runs

| run | question | result |
|---|---|---|
| `slice_decode_team` | is the log exact, is `DecodeContract` kept, does `decompress()` end, with and without cancelling? | holds |
| `slice_decode_v8` | does a failed strip reach the caller? | violated: the log is not asked |
| `vc5_parse_streams` | mask against objects, completeness, the wavelet a band is reconstructed from is there, for any order of tags; an encoder's stream, once complete, ends the loop | holds |
| `vc5_tasks` | inputs ready, no band used after it was freed but by clearing tasks of bands that are done with, the team agrees, the contract, the end, with none, one or two bands that fail | holds |
| `bad_pixels_team` | nothing lost, parallel equals sequential | holds |
| `bad_pixels_columns` | is every recorded pixel interpolated? | violated: last columns when width mod 32 is 1..16 |
| `dng_tags` | crop inside the image, pattern follows it, opcodes of a list meet the crop they were parsed for, positions and black areas fit, levels describe the samples | holds |
| `dng_lossy` | is all of a lossy DNG scaled before OpcodeList2? | violated: not the last columns, nor all components |
| `raster` | does every decompressor write each sample of an accepted image once, inside it, predict from what it wrote itself, and take each unit of the input once, if the data of DNG tiles is what it is trusted to be? | holds |
| `raster_tiles` | the same of uncompressed DNG tiles beside each other that come from a bit stream | violated: all are written over the first columns |
| `streams` | do the decoders agree on every run of bits, does what was written come back, is the place of a marker known, does a reader give up at the end? | holds |
| `decode` | limits and ranges of the directories, the end of the walk and of the decoding, colours, maps and levels of the delivered image | holds |

Bounds, and why they are enough:

- `slice_decode_team`: four slices over three threads give one thread two slices and the
  others one; three threads may be in `setError()` at once, every subset of slices may be
  bad.  All three of the constants are set at once, which no single decompressor has: it
  allows the behaviours of each.  A fourth thread or slice adds no new kind of
  interleaving, and the theorems of `SliceDecode_proofs` do not depend on the bound.
- `vc5_parse_streams`: two levels are the least with a cascade from wavelet to wavelet; two
  channels are the least for which `AllDone` is more than one bit.  The code has three
  levels and one or four channels; the theorems cover them.
- `vc5_tasks`: two levels have every kind of dependence: a reconstructed band as the input
  of another, and a clearing task next to both.  One channel is enough for the graph
  (channels share no data).  Either no band is bad, or one of the upper wavelet, or two of
  the lower; there is no symmetry because the run checks liveness.  The theorems allow any
  set of bad bands, any number of channels, levels and threads.
- `bad_pixels_team`: 20 columns are one block of the bitmap, five rows over three workers
  leave the last worker one row.  The candidates are neighbours at distance two in a row and
  in a column, in different workers' rows, and at the border.  The two recorders are
  interchangeable (SYMMETRY).  `MaxSample` is 65535, as in the code.
- `dng_tags`, `dng_lossy`: a 2x2 image has every kind of crop, and a crop of a crop; it
  tells the two phases of a Bayer pattern apart, and 3 x 3 is a pattern that no crop moves.
  Two opcodes in list 1 are the least for one to depend on another; list 2 has one, after
  whatever list 1 has done.  For SSE2 nine columns are the least with a tail.
- `raster`: the widths that the code fixes are constants and small here (packets in a
  block: 2 for 1024; a segment of Kodak's: 8 for 256; a Fuji strip: 12 for 768, in multiples
  of 6 for 24); each keeps the divisibility that the code relies on, which the modules
  assume by name.  `MCRaster` lists for every decompressor images of at least two slices
  where slices are shared, ends in the middle of a block, a packet, a tile or a unit
  wherever the checks allow it, and images, grids and inputs that the checks must refuse;
  and JPEGs whose items come in any order, twice, or not at all.  DNG tiles are also given data
  that is not what their size says.
- `raster_tiles`: 6x2 in two tiles, the least with a neighbour.
- `streams`: a byte has two bits and so a chunk eight and a cache sixteen: a field can be as
  long as a chunk, a value of three fields can begin and end anywhere in a load, and all
  inputs are cut at every byte.  Codes have up to four bits with a table three deep: longer
  codes, codes with their difference inside the table, and partly inside, all occur.  All
  tables of up to four codes are compared on all windows of eight bits; messages are encoded
  with four of them.
- `decode`: limits of depth 2, two sub directories per directory and four below it are the
  least for which the three differ.  62 bytes and five places let directories chain, nest,
  repeat, overlap by a byte, and hang over the end; a CIFF area may be empty or the
  whole of its parent.  About a hundred `cameras.xml` give every combination of status, mode,
  pattern, crop, sensor and alias that the pipeline tells apart.

No run constrains states or replaces definitions.  Deadlock is checked everywhere but in
`decode`, where the program ends; elsewhere a finished program is an explicit stutter
(`Finished`, `Done`).

## 4. Fairness

`SliceDecode` assumes weak fairness of each thread and of the master: they are OS
threads, each step is a bounded computation, and the mutex is held for two steps only, so
that one that waits for it gets it (with a finite number of slices there is only a finite
number of acquisitions ahead of it).  `VC5Tasks` needs less: weak fairness of `Next`, that
is, that the OpenMP runtime as a whole does not stop; no step can be repeated, so the
steps run out.  `Pipeline` has weak fairness of `Next`: it is a sequential program, whose
next step is taken if there is one; that the chain of directories ends is due to the ranges,
not to fairness.  The other modules make no liveness claim.

## 5. What is proved

For every value of the constants allowed by the named assumptions
(`SliceDecodeAssumption`, `VC5ParseAssumption`, `VC5TasksAssumption`,
`BadPixelsAssumption`, `DngImageAssumption`; `PrefixCodesAssumption`, `BitStreamsAssumption`,
`MessagesAssumption` and `TrailersAssumption` for the streams; `LimitsAssumption`, `FileAssumption`,
`SizesAssumption`, `BlocksAssumption`, `CamerasAssumption` and `ToolsAssumption` for the
pipeline; `PanasonicAssumption`, `RowCodecsAssumption` and `FujiAssumption` for the
decompressors).  `CamerasAssumption` says for which modes a camera can have an entry, and
that an entry's crop is none or a parity; that reading any cameras.xml gives such cameras is a
fold over its elements, which TLC evaluates for the documents of the run.  The results:

- `SliceDecode_proofs`: `TypeCorrect`; `LogIsExact`; `CompleteWhenChecked` and
  `Refinement`, which assume `ChecksLog`.  The invariant behind them relates each
  thread's place in `setError()` to the mutex and to the end of the vector it has read,
  says that a slice is in its owner's chunk, at hand, or finished, and that a thread that
  has joined with slices left (cancelled, or an unknown codec) has left an error behind.
- `VC5Parse_proofs`: `TypeCorrect`, `MaskIsFaithful`, `ReconstructionHasInputs`,
  `ParserIsComplete`, `EncodersStreamsEnd`.  The invariant: a mask
  bit is set exactly for a band object of the right kind, and a low-pass bit only above a
  complete wavelet.  `SubbandTables` (the
  arithmetic of the two tables) and `CodeblockEffect` (what a code block does to mask and
  objects) carry it.  For the last theorem the invariant also says what the
  encoder's order (`OrderInv`) brings: in it, what has been sent is an initial part of the
  subbands, a wavelet's low-pass band is there before any other of its bands, so that the
  last of these completes it and the next larger wavelet gets its low-pass band at once; and
  once everything was sent the loop has ended.
- `VC5Tasks_proofs`: `TypeCorrect`, `PrecursorsAreReady`, `FinalBandsAreReady`,
  `BandsAreAlive`, `FlagIsTheLog`, `TeamIsWhole` and `Refinement`.  The invariant says
  where the data of a finished task is (engaged, or its wavelet cleared), that a
  task has only started after its predecessors have completed, that as long as the flag is
  down every completed task has done its work, and that the team has passed the barrier
  only after the creator left.  The dependences are those of `In` and `Out`, not a list.
- `BadPixels_proofs`: `TypeCorrect`, `PositionsKept`, and `ParallelIsSequential`, which
  assumes one component per pixel.  The argument: rows of workers are disjoint and cover
  the image (`RowsCovered`, from the integer division `Division`); a worker reads only
  pixels that are not marked, and only marked pixels are written; so what it reads is what
  was decoded, whatever the others do.
- `DngImage_proofs`: `TypeCorrect`, `CropIsInside`, `ListsMeetTheirCrop`,
  `PositionsAreInside`, `BlackAreasAreInside`, `ColoursStay`, `LevelsAreTrue`.
  What has to be carried along is
  `OpcodesChain`: the first opcode of a list expects the crop the image has, each other
  one what its predecessor leaves, the parser knows what the last one leaves, and every
  region lies inside the crop its opcode expects.  Applying an opcode then keeps the
  chain for the rest of the list.  `ColoursStay` needs that shifting a pattern twice is
  shifting it once by the sum (`ShiftTwice`).  `LevelsAreTrue` needs that a crop
  after scaling brings back no sample (`CropShrinks`).
- `Pipeline_proofs`, the parsers: `LimitsHold` and `RangesHold`, for any limits, size of
  the file and number of entries, sub directories and blocks.  It first has the
  invariant (`PInv`) with one lemma per step of the parsers, then that no
  later step touches what they made.  Three things are carried along.  What a directory
  counts is no less than what the tree has of it, also when a part of the tree has been
  thrown away (`PrefixLimited`) or a constructor has counted and then thrown
  (`CountedLimited`, `AppendLimited`).  Directories under construction come in the order of
  their construction (`Builds`), so that an exception throws away the end of the tree and
  nothing that a caller holds.  And of each directory of a CIFF file under construction,
  all that was made below it lies in one of its values or among the entries it has read
  (`Chain`, `Located`): a value that is apart from the other values is then apart from all
  directories in them, which `NORangesSet` of that directory does not know of.
  `InsertApart` says that comparing a range with its two neighbours is enough as long as
  the set is ordered.
- `Pipeline_proofs`, the image: `PipelineTypes`, `MapsHold`, `ColoursHold` and `LevelsHold`, for
  any file, cameras and client.  `PlacesInv` adds to the invariant of the parsers what their
  types need: directories end inside the file, the chain continues inside it, a frame has no
  more entries left than there can be, and only the parsers' own exceptions leave them.  `DecodingInv`
  relates the image to the steps that are still in `todo`.  Each of its parts belongs to one
  of the conventions that the code relies on and does not check: the virtual functions come in
  their order and once (`CallsInv`); the table is set before and taken away after the
  decompressor that maps, on every way out, an exception's too (`MapsInv`); the
  colour pattern has been shifted by what was cropped as soon as no cropping step is left
  (`CropInv`); a mode of the camera's and a pattern are there where they are used (`CameraInv`);
  the samples of the Kodak formats are decoded after their curve has been read, and with it
  (`KodakInv`); the precision is known where the levels are scaled once there are samples
  (`PrecisionInv`, for both clients); the common and the separate black levels and the white
  level are scaled alike (`UnscaledInv`, and for the three decoders that scale them
  `ArwInv`, `OrfInv`, `Cr2Inv`; of an ARW file the separate ones are not scaled at all, see
  section 6).  None of the four properties is inductive without knowing which steps remain and
  which of them comes first.
- `BitStreams_proofs`: `StreamsTypeCorrect`, `AllDecodersAgree`, `ReadAsWritten`,
  `MarkerIsFound` and `ReaderGivesUp`: all five invariants of `streams`, for any number of bits
  in a byte, lengths of codes and differences, messages, trailers, cuts, skips and reloads.
  - What is assumed: a code and the difference behind it fit the width a reader can ask for
    (the code asserts it); fields are no longer than that; the code of a message is made as
    `HuffmanCode` makes it (tables that it rejects included, those messages stay
    rejected) and has the values that are encoded; what follows a JPEG scan is nothing or a
    marker.
  - Codes.  `HuffmanCode` numbers codes of one length from the double of the last number of the
    length before.  So the bits of every code not met yet are below the first number of the
    next length (`NotHitYet`, `BehindHit`), at most one length hits (`OneHit`), and what each
    decoder searches for, in its own way and with its own early exits, is that one
    (`VectorReads`, `LookupReads`, `TreeReads`, `LUTDecodes`, `V8Agrees`).  `Encode` then writes
    what `Decode` reads (`DecodeIs`, `CodeFor`).
  - The tape.  An input is the sequence of the bits of its data: the bytes that JPEG stuffs
    left out, the bytes and bits of a chunk in the order that the reader takes them, zeros behind
    the end.  `fillCache()` of each order puts the next bits of the tape into the cache
    (`FillIs`); the one of JPEG, which looks for 0xFF in four bytes at a time, by way of the
    places of its data bytes (`JpegLoadIs`, `JpegFilledOn`, `JpegFilledMarker`).
  - The invariant `IndInv`, by phase.  While writing: the bits put so far are those of the chunks
    that are out and then those in the cache, and what is still in `todo` completes the message.
    Once delivered: the tape begins with the message as far as it came; the reader's cache holds
    the bits of the tape behind those it has used, its position is the place of the next
    byte, a marker was seen when it is in what was loaded, and what it got is the
    beginning of the values.  A reader that threw had used all of its data, and loads behind the
    end are counted.  No conjunct of `RoundTrip` is inductive without the contents of both caches;
    `MarkerFound` needs the places of all data bytes before the marker.
  - Numbers.  `TwoTo`, `FromBits` and the numbers of codes are recursive functions; that they
    are what their recursion says (`NatRecursion`, `ValueSteps`, `TwoToIs`), and induction over the
    length of data, come from `LeastNatural`, as in `Raster_proofs`.
- `Raster_proofs`: `PlansSuffice` and, with it, `RasterTypes`, `TargetsAreFresh`,
  `InputsAreReady` and `ImagesAreComplete`: the four invariants of `raster`, for images and
  inputs of every size.
  - Interleaving.  What a slice owns after k of its steps is a function of its list of
    steps alone (`Owned`).  `RasterInv`: of the cells that slice s ever touches, exactly those
    that it owns after its `at[s]` steps are its own in `by`; this is inductive if different
    slices touch different cells.  So soundness of the lists (`Sound`) is all that is
    needed, whatever the order in which threads proceed.
  - Plans.  For a list of steps that drops and copies nothing, soundness is that writes are
    apart, that inputs are apart and inside the buffer, that reads have been written, and that
    the writes cover the image (`Plain`, `PlainIsSound`).
  - Loops.  One lemma per decompressor (`V4IsPlain`, ..., `SamsungV0IsPlain`, `DngIsPlain`) shows
    that its loops make a plain plan, from a few lemmas on shapes: one step per row
    (`RowsArePlain`), a grid of steps (`GridPlan`), rectangles side by side (`AreasPlan`), blocks of
    packets that end in the middle of a row (`BlocksArePlain`), and the tiling of an image of
    which the last column and row of tiles are cut (`TilesApart`, `TilesCover`, `TileInside`).
  - Data.  The plans are built by `FlattenSeq`, a recursive function.  What it is in general
    needs induction; here it comes from the least element of a set of natural numbers
    (`LeastNatural`, from the well-foundedness of `<` in the library), which gives
    `AllUpTo`, `Recursion` and at last `Flattened`: where each list begins in the whole.
  - What is assumed of a job (`IsJob`), beyond what the constructor checks, is what its
    callers guarantee: sizes are natural numbers; a row has whole pixels; the loops for
    one sample per pixel get such an image; a motion vector is one of eight and a table's entries
    are unsigned; the rectangles of Panasonic V8 and the offsets of Samsung's rows are natural
    numbers; an sRaw image has the size that its source gives.
  - `DngTrusted` is not among them: no caller and no check guarantees it, and section 6
    says what happens without it.  It is the premise of the three theorems,
    by way of `Trusted` in the properties; `RasterTypes`, with `InBounds`, does not need it.
  - `JobsAreProved` limits this to 22 of the 25 kinds of jobs.  Left to TLC are the lossless
    JPEGs (of DNG tiles, Canon CR2 and Hasselblad), whose plan depends on a parse that is a
    fold over markers, and Fuji, whose line buffers are copied and dropped: `PlansSuffice`
    holds for them too, `Sound` of their plans is what TLC computes.

Model-checked only: liveness (`Terminates` of three runs), because ENABLED and fairness are
beyond the prover; and the properties of `raster` for the jobs just named.  Every other
property of a passing run is stated by a theorem.

## 6. Where code and comments disagree

The first four are runs that end in a violation; `PROJECT.json` quotes the comments.

1. `PanasonicV8Decompressor.cpp:391`: errors are logged to be propagated, and are not.
2. `RawImage.cpp:299`: up to 16 columns at the right are in no block.
3. `RawImageDataU16.cpp:296`: SSE2 scaling counts pixels where it needs samples, eight at a
   time, and leaves the rest unscaled.
4. `UncompressedDecompressor.cpp:196`: a tile whose samples come from a bit stream is written
   to the first columns of the image.

Others came up while the code was modelled.  The models have them, and a property says where
it stops because of them.

- `DngOpcodes.cpp:302`: FixBadPixelsList sets an opcode up that expects the whole image, whatever
  the image has been cropped to; `setup()` asserts (`:132`) that it is what was expected.
  `OpcodesMeetTheirCrop` speaks of such an opcode (`Dummies`) only in an image that has not been
  cropped; without that premise TLC finds a rectangle in a cropped image.
- `JpegDecompressor.cpp:162`: a lossy JPEG larger than its tile is written over the
  neighbours of the tile, which other threads write.  `:163`: of a smaller one the rest of the tile is
  never written, and nothing is thrown.  `DeflateDecompressor.cpp:140`: how much zlib has unpacked
  is not looked at; rows are made of uninitialized memory or of the thread's tile before.
  `DngTrusted` is what the properties of `raster` assume instead.  With `AnyData` TLC finds
  `TargetsFresh` violated by `LargerJpegs`, `Complete` by `SmallerJpegs` and `InputsReady` by
  `ShortDeflates`, the jobs of `MCRaster` that are of these kinds.
- `Cr2Decoder.cpp:421`: the precision that the assertion is about is a member without an
  initializer which only `decodeRaw()` sets; `rawspeed-identify` asks for the metadata first, and
  the levels it is told go by whatever the member holds.  The second `decodeMetaData()` sets them
  anew.  Both clients are in `decode`; `LevelsScaledOnce` claims that the precision is set once there are
  samples, and without `img.allocated` TLC finds `rawspeed-identify`.
- `ArwDecoder.cpp:512`: white level and common black level are shifted with the samples of 12
  bits ("Shift scales, since black and white are the same as compressed precision", `:433`); the
  separate black levels of cameras.xml, which scaling prefers, are not.
  `LevelsScaledOnce` says so as it is.
  The cameras.xml of the repository has none (no `black_colors`), so it takes another one to see it.

And these came up while the code was read:

- `VC5Decompressor.cpp:804`: a wavelet completed by reconstruction is not noticed by the loop
  that a comment says ends then; `vc5_parse_streams` therefore claims completeness of a
  stream in the encoder's order only (`AllSentMeansDone`): it says nothing of code blocks that
  come in another order, for which the other properties hold.
- `VC5Decompressor.cpp:348`: the clearing task of a band reads `wavelet` through that band, which
  the clearing task of the next larger level may have destroyed by then.  `LiveBands` says what
  is certain all the same: no other task meets this, the bands that are to be cleared are not
  needed any more, and the clearing task of the full-size band is never in danger.
- `RawImageDataU16.cpp:479` addresses `x + component`; with several components that is
  another pixel.  `ParallelIsSequential` assumes one component.
- `PanasonicV8Decompressor.cpp:72`: bits are said to be flipped as bytes get loaded; those of
  the last, short load are not.  `RoundTrip` holds for whole loads in that order.
- `RawDecoder.h:54` and the README promise a RawDecoderException; `getDecoder()` can let an
  IOException or a TiffParserException through, and a CRW file's CiffParserException leaves
  `decodeRaw()`.
- `RafDecoder.cpp:287`: an image that is rotated loses the white point that was set before.
  `NefDecoder.cpp:717`: the samples of an sNEF are mapped although the client wants them
  uncorrected.  `MappedOnce` says what does hold.
- `AbstractLJpegDecoder.cpp:84` speaks of tables that are parsed again; `parseDHT()` refuses
  them.
- `RafDecoder.cpp:205`: the rotated image is a new one and is filled from the crop's offset on,
  but its own offset is zero and the pattern is not shifted.  `CfaIsRight` takes the offset that
  the image has (`mOffset`), as the code that reads the pattern does.
- `Cr2sRawInterpolator`'s `invariant(numMCUs > 1)` does not hold for an image of one MCU's
  width, nor is version 0 reached with 2 x 2 subsampling.
- `IiqDecoder.cpp:466` asks for a colour by (row, column), `:534` by (column, row).

## 7. What is not modelled

On purpose: the sample values a codec produces (except in `BadPixels`), log wording, file
I/O, the XML itself, third-party libraries, build output, tests and fuzzers.  Of a freed
object's memory only that it may still hold what was there, or not (`ClearAstray`).  The C++ memory
model is not: accesses under a mutex, atomics and OpenMP barriers are sequentially consistent steps.  Of `ByteStream` and the views only that a read that
does not fit is an exception, in the modules where it can happen.

Of the black levels of a RAF file, `FUJI_BLACKLEVEL` with a count other than 4 or 36 is left out.

Hazards that no property covers (`PROJECT.json` says why for each): the weights at `RawImageDataU16.cpp:461` and the addressing at
`:479`, the workers' errors at `RawImage.cpp:363`, and the hint at `RawDecoder.cpp:308`.

What would come next, most important first: the typed getters of `TiffEntry` and the decryption
and tables of the maker notes, as the source of the values that `Pipeline` leaves open; the
arithmetic of predictors over bounded samples; the estimation of black and white levels;
soundness of the plans that depend on a JPEG's markers, and of Fuji's line buffers, for any
size.
