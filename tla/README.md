# Verification of czi-pyramidizer

czi-pyramidizer reads a microscopy image (a CZI document), copies it to a new
document and adds a multi-resolution pyramid to every region that needs one.
This directory holds TLA+ models of the program, TLC configurations that check
them on small instances, and proofs of the properties that matter most for every
instance.

## The system

One process, one thread. It has no locks and no messages; what makes it hard is
integer geometry with negative coordinates, three nested loops whose exits have
to agree, two components that have to judge the same document alike, exceptions
from any call, and a destination file that is not a document until it is closed.

| Component (under `libpyramidizer/`) | State | Operations | Correct if |
|---|---|---|---|
| `PlaneEnumerator` (`inc/plane_enumerator.h`) | `current_state_` of the iterator | constructor check, `++`, `*`, `!=` | each reachable plane once, then the end; the scene look-up never fails |
| `DoPyramidize` (`src/do_pyramidize.cpp`) | position in the planes, layers and tiles; `next_layer_tiles`; the result | `Execute`, `DoPlane`, `DoLayer0`, copy, write | layer 0 copied exactly once; each layer covers the data with disjoint, aligned, faithful tiles; the result says how many layers there are |
| `UpperPyramidLayersPyramidizer` | tiles of the layer below | `Execute`, `CreatePyramidTile` | as above |
| `TilingEnumerator`, `TileHelper`, `PyramidUtilities` | none | `GetRoi`, `GetMinimalRectForRoi`, `EnlargeAndLatch` | cells partition the region; latching keeps a tile in its cell |
| `ComposeBitmaps`, `DecimateOpenCV` | none | `Compose`, `CopyAt`, `Decimate` | a pixel stays where it belongs |
| `CheckForPyramid` | none | `NeedsPyramid` | agrees with what `DoPyramidize` writes |
| `PyramidizerOperation`, `libmain` | the open reader and writer, the files, the exit code | `Execute`, `WriteMetadata`, `CopyAttachments` | the exit code tells the truth about the files, whatever earlier runs left |
| `CommandLineOptions` | the options | `Parse` and its validators, `TryParse...` | no value gets past a validator and fails later; a property bag is used whole or not at all |
| `Context` | compression and background, chosen once | `CreateSp` | the tiles get what was asked for, printed, or found in the source |
| `ProgressReport` (`libpyramidizer.cpp`) | `last_time_line_length_` | three `ReportProgress...` | a line leaves nothing of an older one |
| `ConsoleIo` (`czi-pyramidizer/`) | the attribute at the start | `SetColor`, `MoveUp`, `WriteStdOut` | both platforms show the same colors |
| `Utilities`, `CommandlineArgsWindowsHelper` | none | string conversion | (not modelled) |

`libmain` parses the command line and calls `CheckForPyramid` or
`PyramidizerOperation::Execute`. The latter asks `CheckForPyramid` whether there
is anything to do, creates the destination, and calls `DoPyramidize::Execute`,
which walks over the `PlaneEnumerator` and tiles each layer with
`TilingEnumerator` and `TileHelper`; layers above the first are made by
`UpperPyramidLayersPyramidizer` from the tiles of the layer below, which a
callback collects while they are written. libCZI (documents) and OpenCV (the
filter) are external, and modelled from the calls the code makes.

The hard places are listed in `PROJECT.json` under `hazards`, each at its line.

## The modules

| Module | Models | Notes |
|---|---|---|
| `PlaneCoordinates` | coordinates, bounds, the odometer `Increment` | operators only |
| `PlaneEnumerator` | the enumerator in a loop whose body may throw | the abstract specification of the loop in `DoPyramidize` |
| `Geometry` | rectangles, latching, tiling, minimal rectangles | unsigned arithmetic modulo `UintModulus` |
| `Bitmaps` | composing and halving bitmaps | a pixel's value is the sub-block it came from |
| `CziDocument` | documents as libCZI shows them | external |
| `UpperPyramidLayers` | a tile from the tiles below | operators only |
| `DoPyramidize` | `DoPyramidize::Execute` with all it calls | one action per write to the destination or decision between loops |
| `CheckForPyramid`, `PyramidizeThenCheck` | `NeedsPyramid` and when it throws, and its use on the destination of `DoPyramidize` | |
| `LibMain` | runs of the program over a directory | the pyramid abstracted to the layers of each region |
| `CommandLine` | a command line from `Parse` to the compression and background of the tiles | files left out |
| `ProgressReport`, `ProgressCalls` | the line of the terminal, and the reports an operation makes | of a text only the length matters |
| `Console` | the colors of both platforms | operators only; a table of its own for each platform, foreground and background |
| `MC...` | small documents, bounds, directories, command lines, sequences of reports | |
| `..._proof` | theorems about `PlaneEnumerator`, `PlaneCoordinates`, `Geometry`, `DoPyramidize`, `LibMain`, `CommandLine`, `ProgressReport` | `DoPyramidize_proof`: copies, and where the tiles are; `DoPyramidizeLayers_proof`: what is on them, and that the layers are complete |

Some definitions are preceded by one with a comment "Mutant": the same operation
with a plausible error in it. No specification uses them; replacing the original
by the mutant makes the property that `PROJECT.json` pairs it with fail.

### DoPyramidize

`phase` says where `Execute` is. `Construct` is the constructor of the plane
enumerator. `EnterPlane` is the head of `DoPlane`; it selects the sub-blocks with
`EnumSubset`. `CopySubBlock` is one pass of `CopySubBlocksToDestination`, in any
order because libCZI chooses it. `CopyDone` either leaves the plane (not above
the threshold) or goes to the cells of the first layer. `Layer0Cell` and
`UpperCell` are one pass of the two loops over cells; each writes one tile or
none, and keeps it for the next layer. `LayerDone` is the control at the end of a
layer: number of layers, is another needed, were there tiles. The special case of
a single layer in `DoPlane` has the same effect as the general loop left after
its first layer, so the model has only the loop. `LeavePlane` consolidates the
result and advances the iterator. `Throw` is an exception from any call into
libCZI or OpenCV. The layer is represented by its `minification_factor`, which
the code computes as `1 << pyramid_layer`.

Pixels are provenance: a bitmap maps each pixel to the sub-block it was taken
from, or the background. `Decimate` keeps the even pixel of each 2x2 group, which
is the centre of the filter kernel of `cv::pyrDown`. `PixelsFaithful` therefore
says that no tile is shifted, clipped, or drawn from another plane or scene; it
says nothing about colors.

### LibMain

One action per step of `libmain` and `PyramidizerOperation::Execute` that the
file system can tell apart. A name in the directory has no file, an incomplete
file (created and not closed), or a document. `DoPyramidize::Execute` is here one
step per layer of a region (`PyramidizeLayer`) and one when the region is
complete (`RegionDone`), so that a run can end with any part of a pyramid
written. A region without sub-blocks in layer 0 has libCZI's rectangle
(-1, -1): `NeedsPyramid` throws for it (`NeedsPyramidThrows`), `DoPyramidize`
copies nothing, and the region is gone from the destination.

`Fail` is an exception that a step must raise, `Throw` one that any step may
raise, and `Kill` ends the process; then `Start` begins another run on what is
left. `DivideByZero` is the outcome on x86 of `--tile_size 0`; on machines where
the quotient is 0, there are no tiles and the run goes on. Exit codes 134, 136
and 137 stand for processes that `std::terminate` or a signal ended.

The properties describe a document without the operators of the code:
`LacksPyramid` instead of `NeedsPyramid`, and in `HasWholePyramids` a size halved so
many times (`ExceedsTile`) instead of the loop's condition. What a failed run leaves
behind is `FailureLeavesOneTrace`: nothing, or its destination incomplete. The
latter also happens when `DoPyramidize` rejects the source, because the destination
has been created by then.

### CommandLine

`AppParse`, `SetSource`, `ParseMember` and `SetOptions` are `Parse` in the order of
its early returns and exceptions: what CLI11 refuses, `--version`, the source,
the property bag member by member, then the other options and the command.
`CreateSourceStream` is in `libmain`; `CreateContext`, `PrintOperationalParameters` and
`WritePyramidOutputTile` are the three places that each decide on a compression.
`TryParseBackgroundColorOption` leaves `white_or_black` uninitialized for `auto`, so
`ParseBackground` gives both values there.

Without `--compressionopts` the compression of the first sub-block of layer 0 decides.
`TilesLikeSource` says what follows for every source: a tile has a compression that
layer 0 has, or it is uncompressed, because layer 0 is empty or partly in Jpg or in
an unknown compression, for which `TryToDetermineCompressionMode` has no answer.
`WhiteIfCalledFor` says of both lists of channels separately when they make the
background white. A list of dimensions without a channel does: the code compares
two counts, which are both 0 there.

### ProgressReport

Each cell of the terminal's line remembers the line that wrote it. A line has the
number of characters written and the number the code counts; they differ for
the pyramid line. `ProgressCalls` lists the reports of an operation in the order in
which `DoPyramidize` and `CopyAttachments` make them.

## Runs

| Run | Shows | Bounds |
|---|---|---|
| `plane_enumerator` | walk over planes complete, without repetition, terminating | all intervals of length 1 to 3 over eight sets of dimensions, with B and with missing scene boxes: every carry of up to three dimensions |
| `plane_enumerator_blocks` | violated: not *all* planes, if B is used | as above |
| `one_plane` | tiles disjoint, scaled, faithful, complete | two sub-blocks at 3456 combinations of place and size, tile size 2, up to 3 layers: negative and odd coordinates, overlaps, gaps, parts of one pixel |
| `planes` | no sub-block lost or doubled, scenes separate, metadata right, destination needs no second run, refinement of `PlaneEnumerator` | six documents with overlapping scenes, missing planes, an old pyramid, sparse planes, a scene gap, dimension B |
| `top_level` | violated: `--max_top_level_pyramid_size` has an effect | the six documents of `planes`, tile size 4, maximum 3 |
| `libmain` | exit codes, files and layers; only whole pyramids appear; what a failed or killed run leaves; every run ends | two names, nine sources (with a gap in the scenes, half a pyramid, scenes without layer 0), 54 command lines, two runs, failures between any two steps |
| `libmain_tile_size` | violated: the list of exit codes, for a tile size of 0 | as above |
| `libmain_exit_code` | violated: every parse error has exit code 99 | as above |
| `libmain_if_needed` | violated: the help text of IfNeeded | as above |
| `command_line` | no tile refused, print-out, compression and background as asked for or as in the source (in Jpg, too), whole property bags with their values, which errors throw | each option's values in the combinations that meet in one decision; bags of up to three members, with duplicates, wrong types and unknown names; sources of up to two sub-blocks in every compression, and every list of up to two channels |
| `progress` | at most one character of an older line stays, and only pyramid lines leave it; same colors on both platforms | four documents whose counts have one, two and three digits in either order, 0 and 11 attachments; three attributes of the console |
| `progress_residue` | violated: nothing stays | as above |

`UintModulus` is 256 in the runs: coordinates stay within a byte, and the factors
are powers of two that divide it, as they divide 2^32. The theorems leave it open:
any power of two up to 2^32 (`UintWidthAssumption`). Latching to a multiple of a factor
needs the factor to divide the modulus, and the shift that makes the factors and the
30 layers that a region may need come from an `unsigned` of at most 32 bits; nothing
else in the code depends on the modulus. `Width` is longer
than every line of the run. Two runs of the
program are enough for one to find what another has left, and `MaxRuns` bounds
`Start` only. The tile size 2 gives several cells and layers with small pictures.

`CHECK_DEADLOCK FALSE` is set in every run because the program ends: after
`done`, `failed`, `ended`, or the last run or report there is no step.

Fairness is `WF_vars(Progress)` in `PlaneEnumerator` and `DoPyramidize`, and
`WF_vars(Run)` in `LibMain`: a single thread that is not stopped takes its next
step. Nothing is assumed about exceptions or kills, which are outside of
`Progress` and `Run`, so `Termination` and `RunEnds` do not rest on them; nor does
any progress depend on a user starting a run.

### Disagreements with the documentation

Five runs show that the code does not do what a text in the repository says:
dimension B is not enumerated; `--max_top_level_pyramid_size` is ignored; a
property bag that is not JSON aborts the process instead of exit code 99; a tile
size of 0 is accepted and ends the process without one of the documented exit
codes; the help text describes `IfNeeded` the wrong way round. A sixth shows an
error: the text " of " of a pyramid line is counted as five characters, so that the last
character of a copy line can stay behind it. `PROJECT.json` quotes the lines.

One more has no run of its own: `docs/usage/cli.md:152` says that without
`--compressionopts` the compression is derived from the source document. For a source in
Jpg it is not; its pyramid is uncompressed, without a message
(`pyramidizer_operation.cpp:430`). `TilesLikeSource` describes that case as it is.

## Proofs

| Theorem | For every value of the constants |
|---|---|
| `PlaneEnumerator_proof!TypeCorrect` | the iterator is within the bounds or at its end |
| `PlaneEnumerator_proof!PlanesOnce` | no plane twice |
| `PlaneEnumerator_proof!PlanesAll` | at the end, all reachable planes |
| `PlaneEnumerator_proof!SceneBoxes` | `sceneBoundingBoxes.at` does not throw |
| `DoPyramidize_proof!TypeCorrect` | types, including each tile's rectangle |
| `DoPyramidize_proof!CopiedAtMostOnce` | no sub-block copied twice, no old pyramid copied |
| `DoPyramidize_proof!AllBlocksCopied` | every layer-0 sub-block copied on success |
| `DoPyramidize_proof!ImplementsEnumeration` | `DoPyramidize` implements `PlaneEnumerator` |
| `DoPyramidize_proof!TilesNeverOverlap` | the tiles of a layer are disjoint, each in its own plane |
| `DoPyramidize_proof!TilesHaveScale` | a tile has a power of two as its scale, in both directions, and is no larger than the tile size |
| `DoPyramidizeLayers_proof!LayersCoverPlanes` | with room: a plane gets exactly the layers it needs, and each covers it |
| `DoPyramidizeLayers_proof!ResultReportsLayers` | with room: the result names every scene, with the most layers of its planes |
| `DoPyramidizeLayers_proof!TilesShowMosaic` | with room: every pixel of every tile is that of its own plane at its place |
| `DoPyramidizeLayers_proof!SecondRunFindsPyramid` | with room: `CheckForPyramid` asks for no pyramid of the destination |
| `LibMain_proof!TypeCorrect` | types, for any number of runs over any directory |
| `LibMain_proof!RetriesNeedOverwrite` | no success over what an earlier run left, unless told to overwrite |
| `LibMain_proof!PyramidsAreWhole` | every document that appears has all its layers |
| `LibMain_proof!ReportsTrue` | exit codes 10 and 11 are true of the source, and 10, 11, 99 and an abort go with untouched files |
| `LibMain_proof!NoDocumentLost` | a document is replaced only where allowed, and for a reason |
| `LibMain_proof!FailuresLeaveOneTrace` | a run that fails, is killed or divides by zero leaves at most its destination incomplete, where that is allowed and the source called for it |
| `LibMain_proof!SuccessComplete` | after exit code 0 the destination is complete and needs no second run |
| `CommandLine_proof!TilesAreWritten` | the writer supports the compression chosen |
| `CommandLine_proof!PrintoutIsTrue` | the compression printed is that of the tiles |
| `CommandLine_proof!TilesTakeSourceCompression` | without `--compressionopts`, a tile has a compression of layer 0, or none, and then only if layer 0 is empty or has Jpg or an unknown compression |
| `CommandLine_proof!WhiteIsJustified` | the background is white exactly where it was asked for, or no color was and one of the lists of channels says so |
| `CommandLine_proof!StreamGetsWholeBag` | a stream gets every member of the property bag, with the value first given |
| `CommandLine_proof!ValidatorsPrecedeConversions` | no conversion throws that a validator stands before |
| `ProgressReport_proof!Erased` | at most one character of an older line stays |
| `ProgressReport_proof!ResidueOfPyramidLines` | only a pyramid line leaves one |
| `ProgressReport_proof!SameColorsShown` | Windows and Linux show the same colors, whatever the console had |

"With room" is the hypothesis `DocsHaveRoom`, see below.

`PlaneCoordinates_proof` orders planes as an odometer does: `p` is below `q` if
they differ first, seen from the slowest dimension, where `p` is smaller. The
walk invariant says that the planes visited are exactly the reachable ones below
the current one. It is preserved because nothing lies between a plane and its
`Increment` (`WalkContinues`), it makes the current plane new (`WalkIsFresh`), and
at the end it is completeness. `NoPlaneTwice` alone is not inductive: it does not
say which planes are already behind.

`DoPyramidize_proof` takes that invariant over for the loop (`LoopInv`). For the
copies (`CopyInv`) it adds how often each sub-block has been copied: once if its
plane is visited, or is the current one and the sub-block is no longer waiting;
otherwise never. That a sub-block belongs to exactly one plane, and that the box
of its region contains it, makes `EnumSubset` select it there and only there.
`LayerInv` carries the types of the tile lists, and rests on `Geometry_proof`:
latching, tiling and minimal rectangles yield integer rectangles.

Where the tiles are (`TilesInv`) holds for every document, however large its regions. A
tile is within a cell of its layer that is behind the iterator, and no two cells meet, so
a new tile meets no other of its layer. The difficulty is the arithmetic: the offset of
a cell is the product of two unsigned numbers, converted to a signed one. `CellBox` is
where the cell would be with unlimited numbers. `SideOfCell` shows that where the offset
overflows nothing of the cell lies behind the start of the tiling; all sub-blocks and all
tiles do (`AreBehind`), so a cell that has wrapped around yields no tile. Latching a
part of a cell does not leave the cell, because the factor divides the modulus. That
factors are powers of two is `PowerOfTwo`, a recursive function; what is needed of it is
proved by `SetInduction`, induction over a set of naturals instead of a predicate.

That the layers are complete (`CoverInv`) needs room. While a plane is in work
(`LayersInv`), every layer below the one in work is needed and complete, and the one in
work is complete as far as its cells are done. The cells cover the tiling and the tiling
the region (`CellIsCovered`, `CellsPerSide`); the tile of a cell covers everything that
the sub-blocks or tiles below have in the cell; and no tile is discarded as too small,
because a latched rectangle on the grid of a factor is at least one factor wide
(`Layer0Covered`, `UpperCovered`). At the end of a layer `DoPlane` goes on exactly if the
region is still too large, so the number of layers is the least that is enough
(`DoneWithLayers`), which `LayersReported` compares with the result. Pixels are faithful by
induction over the layers: a tile of the first layer is drawn from exactly the plane's own
sub-blocks that meet it, and in a tile made of tiles the pixel comes from a tile that has
it or, where none does, from nowhere, because the layer below covers all the data
(`Layer0Pixels`, `ItemCovers`, `UpperPixels`).

`SecondRunFindsPyramid` puts these together with `CopyInv`. The statistics of the
destination are taken from the sub-blocks copied, so a scene above the threshold in the
destination is above it in the source; the plane of one of its sub-blocks needs at least one
layer (`LayersNeededIsLeast`, for which halving an `int` thirty times leaves at most 1),
that layer covers the sub-block, so a tile of the scene is there
(`RegionAboveHasTile`) and is counted by the pyramid statistics (`TileIsInStatistics`).

`DocsHaveRoom` says that around each region there is room in the range of an `int` for
its latched tilings, and that the number of its cells is an unsigned number. The code does
not check it, and without it coverage is false: with `UintModulus` 256 and tile size 2, TLC
finds that a document whose one sub-block is 9 wide and ends at the greatest integer
gets an empty tiling, since rounding its right side up wraps around, and
therefore no layer at all (the hazard at `pyramid_utilities.cpp:16`). Real
images are far from that edge. `MCDoPyramidize` has the hypothesis as an assumption
(`DocumentsHaveRoom`), so each of its runs checks that the documents satisfy it.

`LibMain_proof` has one invariant, `Inv`, of named parts. `DirectoryInv`: the directory
is as at the start of the run until the destination is created, and from then on
the destination is incomplete, and was free or may be overwritten; the exit codes
alone say nothing about the steps between. `LayersInv`: a region has the layers
0 to some n, the last one because the layer below did not fit into a tile.
`ResultInv`: what is reported of a region is that n, and it fits. `MetadataInv`: the
metadata has what was reported, under an index that no other region shares.
`FilesInv`: whatever is a document can be a source, which is what makes the
argument hold for any number of runs. `OutputIsWhole` draws the conclusion for the
moment of `Close`; `NeedsIsLacks` proves that `NeedsPyramid` and `LacksPyramid` agree
on documents libCZI can open, and with it `ReportInv` carries the result of the check to
the exit code and to the creation of the destination. `TraceInv` adds that from
then until `Close` the directory differs from its start in the destination only, so
that a failure at any step in between has nothing else to leave. `NeededIfExceeding`
proves that the loop's condition is that of `ExceedsTile`.

`CommandLine_proof` shows that the choice of the compression (`Chosen`) is settled
once there is a `Context`, so that print-out and tile agree, and that it stays
within the cases of the writer. `ParseInv` says what has been parsed at each step: the
members read and those to be read are together the members of the bag, the options
are those the command line asks for, no validated option has another value than its
validators let through, and the `Context` is what the source makes of the options. The
compression of layer 0 is that of its first sub-block, if it has one
(`FirstBlockDecides`), and the writer's list is what the detection can return. A bag that is
not read to its end ends `Parse`; the members read so far are those of the bag, with the
value of the first of each name (`HasRead`). `ProgressReport_proof` shows that lines are counted
exactly except for pyramid lines, which are counted one too long (`LinesAreExact`);
what a line leaves of the one before it is therefore at most its last character
(`Remainder`), and what older lines left is not extended.

Assumptions: `IsBounds` and `IsDocument` on documents (sub-blocks are within the
bounds, not empty, inside the box of their region: what libCZI's statistics
guarantee), a positive tile size, and a power of two up to 2^32 as the modulus
(`UintAssumption`, `UintWidthAssumption`); the four theorems with room also assume
`DocsHaveRoom`. `LibMainAssumption`: the
documents in the directory are well formed (`IsWellFormed`: sizes or the unknown
rectangle, scenes no larger than the whole, at least one region with data, a
pyramid statistics entry for each region) and the command lines have natural
numbers for sizes; `SuccessComplete` also assumes that `NoFile` and `Incomplete` are no
documents. `CommandLineAssumption` and `ProgressReportAssumption` give the types of
command lines, sources, reports and console attributes.

Model-checked only: termination (`Termination` of `PlaneEnumerator` and
`DoPyramidize`, `RunEnds` of `LibMain`), because liveness is outside of the provers'
scope. The properties of the runs that expect a violation are statements of the
documentation, and false. Every other property of the runs is a theorem.

## Not modelled

- Texts and their layout: help, version, the print-out of statistics. Only the compression
  in "Operational Parameters" and the length of the progress lines are.
- `ConsoleIo` apart from its colors: whether the output is a terminal, `MoveUp`, wide and
  narrow streams are calls into the platform; a progress line that is longer than
  the terminal is wide wraps, which `Width` excludes.
- `Utilities` and `CommandlineArgsWindowsHelper`: string conversions without state. That a
  conversion may throw is in `CommandLine`.
- Colors of pixels, pixel types, the weights of the filter. The compression itself
  is part of a tile's write.
- In `DoPyramidize`: documents with a scene that has no layer-0 sub-block (`LibMain` has
  them), documents whose sub-blocks do not all use the same dimensions, tile size 0
  (`LibMain` has it), and regions so large that their corners do not fit into an `int`.
- Build files, tests.

## Plan

1. Done: plane enumeration, the pyramid of a document, the check, the program
   around them, the command line, the progress line.
2. Done: the theorems above, that is all properties of the passing runs but liveness.
3. Next: an abstract specification of `DoPyramidize` that has only the number of
   complete layers of each plane, which `DoPyramidize` implements where there is room; it is
   what `LibMain` assumes of `DoPyramidize` with its `PyramidizeLayer` and `RegionDone`.
