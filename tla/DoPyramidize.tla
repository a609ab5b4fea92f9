---------------------------- MODULE DoPyramidize ----------------------------
(***************************************************************************)
(* DoPyramidize::Execute: for each plane of the source document, copy its  *)
(* layer-0 sub-blocks to the destination and add the tiles of its pyramid  *)
(* layers, each layer made from the one below.  One action is one write to *)
(* the destination, or a decision between two loops.                       *)
(***************************************************************************)
EXTENDS CziDocument, UpperPyramidLayers, Sequences

CONSTANTS Docs,                        \* source documents
          PyramidTileSize              \* command line option --tile_size

ASSUME DoPyramidizeAssumption ==
  /\ PyramidTileSize \in Nat \ {0}
  /\ \A d \in Docs : IsDocument(d)

VARIABLES
  doc,                    \* the source document
  phase,                  \* where Execute is; see Phases
  plane_coordinate,       \* the plane enumerator's iterator
  visited,                \* history: the planes done
  sub_blocks_of_plane,    \* CopySubBlocksToDestination: those left to copy
  tile_no,                \* the tiling enumerator's iterator
  minification_factor,    \* of the layer in work: 2 for the first, then doubled
  tiles,                  \* UpperPyramidLayersPyramidizer: tiles of the layer below
  next_layer_tiles,       \* tiles of the layer in work, kept for the next one
  number_of_pyramid_layers,
  pyramid_region_info,    \* the result: layers by scene index
  copied,                 \* destination: how often each sub-block was added
  written                 \* destination: the pyramid tiles added, in order

loop   == <<plane_coordinate, visited>>
region == <<tile_no, minification_factor, tiles, next_layer_tiles, number_of_pyramid_layers>>
vars   == <<doc, phase, loop, sub_blocks_of_plane, region, pyramid_region_info, copied, written>>

Phases == {"construct", "plane", "copy", "layer0", "upper", "done", "failed"}

bounds == doc.statistics.dimBounds
AtEnd  == plane_coordinate = GetCoordinateOneAfterEnd(bounds)
rect   == RegionRect(doc.statistics, plane_coordinate)

\* Mutant: both sides must be above the threshold.
AreBothAboveThreshold(width, height) ==
  width > PyramidTileSize /\ height > PyramidTileSize

IsAbovePyramidThreshold(width, height) ==
  width > PyramidTileSize \/ height > PyramidTileSize

\* Mutant: the layer after next decides.
IsSecondLayerNeeded(factor) ==
  IsAbovePyramidThreshold(rect.w \div (2 * factor), rect.h \div (2 * factor))

\* DoPlane: is another layer needed on top of the one with this factor?
IsAdditionalLayerNeeded(factor) ==
  IsAbovePyramidThreshold(rect.w \div factor, rect.h \div factor)

-----------------------------------------------------------------------------
(* The cells a layer is tiled into, and the tile of a cell.                *)

\* Mutant: the region is tiled as it is.
TilingOfRegion(factor) == rect

Tiling(factor)   == EnlargeAndLatch(rect, factor)
CellSize(factor) == ToUint(factor * PyramidTileSize)

NumberOfCells(factor) ==
  GetNumberOfTiles(Tiling(factor), CellSize(factor), CellSize(factor))

Cell(factor, no) == GetRoi(Tiling(factor), CellSize(factor), CellSize(factor), no)

\* The sub-blocks EnumSubset finds for the plane.
GetSubBlockIndicesForPlane == EnumSubset(doc, plane_coordinate, rect)

\* Mutant: the neighbouring scenes are read as well.
GenerateTileOfAllScenes(roi) ==
  Decimate(GetTile(doc, roi, [d \in DOMAIN plane_coordinate \ {"S"} |-> plane_coordinate[d]]))

\* GeneratePyramidTile: a scene is read without the scenes around it.
GeneratePyramidTile(roi) ==
  LET FilterOutSceneIndex == [d \in DOMAIN plane_coordinate \ {"S"} |-> plane_coordinate[d]]
  IN  Decimate(IF ContainsSceneIndex(plane_coordinate)
               THEN GetTileOfScene(doc, roi, FilterOutSceneIndex, plane_coordinate["S"])
               ELSE GetTile(doc, roi, plane_coordinate))

\* Mutant: the part is not latched.
MinimalTile(below, factor) ==
  {m \in {GetMinimalRectForRoi(below, Cell(factor, tile_no))} : IsNonEmpty(m)}

\* The part of the current cell that the rectangles below occupy, latched: a
\* set of one rectangle, or of none if the cell is empty.
MinimalTileLatched(below, factor) ==
  {EnlargeAndLatch(minimal, factor) :
     minimal \in {m \in {GetMinimalRectForRoi(below, Cell(factor, tile_no))} : IsNonEmpty(m)}}

\* The tile the current cell gives in the first pyramid layer, and in a layer
\* above it: none if it would be too small.
Layer0Tile ==
  LET below == {doc.subBlocks[b].rect : b \in GetSubBlockIndicesForPlane}
  IN  {[rect |-> roi, bitmap |-> GeneratePyramidTile(roi)] :
         roi \in {r \in MinimalTileLatched(below, 2) : r.w >= 2 /\ r.h >= 2}}

UpperTile ==
  LET below == {tiles[k].rect : k \in DOMAIN tiles}
  IN  {[rect |-> roi, bitmap |-> CreatePyramidTile(tiles, roi, minification_factor)] :
         roi \in {r \in MinimalTileLatched(below, minification_factor) :
                    ~TooSmallForTile(r, minification_factor)}}

\* WritePyramidOutputTile, and the functor that keeps the tile.
OutputTile(tile) ==
  /\ written' = Append(written, [coordinate |-> plane_coordinate,
                                 rect |-> tile.rect, bitmap |-> tile.bitmap])
  /\ next_layer_tiles' = Append(next_layer_tiles, tile)

-----------------------------------------------------------------------------
Init ==
  /\ doc \in Docs
  /\ phase = "construct"
  /\ plane_coordinate = Begin(doc.statistics.dimBounds)
  /\ visited = {}
  /\ sub_blocks_of_plane = {}
  /\ tile_no = 0
  /\ minification_factor = 2
  /\ tiles = <<>>
  /\ next_layer_tiles = <<>>
  /\ number_of_pyramid_layers = 0
  /\ pyramid_region_info = [s \in {} |-> 0]
  /\ copied = [b \in DOMAIN doc.subBlocks |-> 0]
  /\ written = <<>>

\* The plane enumerator is constructed; it may reject the document.
Construct ==
  /\ phase = "construct"
  /\ phase' = IF Enumerable(doc.statistics) THEN "plane" ELSE "failed"
  /\ UNCHANGED <<doc, loop, sub_blocks_of_plane, region, pyramid_region_info, copied, written>>

\* Mutant: the sub-blocks are copied only where tiles are made from them.
EnterPlaneAboveThreshold ==
  /\ phase = "plane"
  /\ ~AtEnd
  /\ phase' = "copy"
  /\ sub_blocks_of_plane' =
        IF IsAdditionalLayerNeeded(1) THEN GetSubBlockIndicesForPlane ELSE {}
  /\ number_of_pyramid_layers' = 0
  /\ UNCHANGED <<doc, loop, tile_no, minification_factor, tiles, next_layer_tiles,
                 pyramid_region_info, copied, written>>

\* DoPlane is entered: its sub-blocks are copied first, whatever its size.
EnterPlane ==
  /\ phase = "plane"
  /\ ~AtEnd
  /\ phase' = "copy"
  /\ sub_blocks_of_plane' = GetSubBlockIndicesForPlane
  /\ number_of_pyramid_layers' = 0
  /\ UNCHANGED <<doc, loop, tile_no, minification_factor, tiles, next_layer_tiles,
                 pyramid_region_info, copied, written>>

\* CopySubBlocksToDestination: libCZI decides in which order they come.
CopySubBlock(b) ==
  /\ phase = "copy"
  /\ b \in sub_blocks_of_plane
  /\ sub_blocks_of_plane' = sub_blocks_of_plane \ {b}
  /\ copied' = [copied EXCEPT ![b] = @ + 1]
  /\ UNCHANGED <<doc, phase, loop, region, pyramid_region_info, written>>

\* Mutants: the iterator moves on before the plane is done; it moves on twice;
\* the last plane of a scene decides about its layers.
LeaveNextPlane(layers) ==
  /\ pyramid_region_info' = pyramid_region_info
  /\ visited' = visited \cup {Increment(bounds, plane_coordinate)}
  /\ plane_coordinate' = Increment(bounds, plane_coordinate)
  /\ phase' = "plane"

SkipPlane(layers) ==
  /\ pyramid_region_info' = pyramid_region_info
  /\ visited' = visited \cup {plane_coordinate}
  /\ plane_coordinate' = Increment(bounds, Increment(bounds, plane_coordinate))
  /\ phase' = "plane"

LeavePlaneWithLatestLayers(layers) ==
  LET s_index == IF ContainsSceneIndex(plane_coordinate) THEN plane_coordinate["S"] ELSE IntMin
  IN  /\ pyramid_region_info' =
           [s \in DOMAIN pyramid_region_info \cup {s_index} |->
              IF s # s_index THEN pyramid_region_info[s] ELSE layers]
      /\ visited' = visited \cup {plane_coordinate}
      /\ plane_coordinate' = Increment(bounds, plane_coordinate)
      /\ phase' = "plane"

\* DoPlane returns and Execute consolidates its result: the greatest number of
\* layers of any plane of the scene.  Then the plane enumerator moves on.
LeavePlane(layers) ==
  LET s_index == IF ContainsSceneIndex(plane_coordinate) THEN plane_coordinate["S"] ELSE IntMin
      known   == s_index \in DOMAIN pyramid_region_info
  IN  /\ pyramid_region_info' =
           [s \in DOMAIN pyramid_region_info \cup {s_index} |->
              IF s # s_index THEN pyramid_region_info[s]
              ELSE IF known THEN Greater(pyramid_region_info[s], layers)
              ELSE layers]
      /\ visited' = visited \cup {plane_coordinate}
      /\ plane_coordinate' = Increment(bounds, plane_coordinate)
      /\ phase' = "plane"

\* All sub-blocks of the plane are copied: DoLayer0 goes on to the tiles,
\* unless the region is not above the threshold.
CopyDone ==
  /\ phase = "copy"
  /\ sub_blocks_of_plane = {}
  /\ IF IsAdditionalLayerNeeded(1)
     THEN /\ phase' = "layer0"
          /\ tile_no' = 0
          /\ minification_factor' = 2
          /\ next_layer_tiles' = <<>>
          /\ UNCHANGED <<loop, pyramid_region_info>>
     ELSE /\ LeavePlane(0)
          /\ UNCHANGED <<tile_no, minification_factor, next_layer_tiles>>
  /\ UNCHANGED <<doc, sub_blocks_of_plane, tiles, number_of_pyramid_layers, copied, written>>

\* DoLayer0, one cell.
Layer0Cell ==
  /\ phase = "layer0"
  /\ tile_no < NumberOfCells(2)
  /\ IF Layer0Tile = {} THEN UNCHANGED <<written, next_layer_tiles>>
     ELSE \E tile \in Layer0Tile : OutputTile(tile)
  /\ tile_no' = tile_no + 1
  /\ UNCHANGED <<doc, phase, loop, sub_blocks_of_plane, minification_factor, tiles,
                 number_of_pyramid_layers, pyramid_region_info, copied>>

\* Mutant: a cell without a tile is tried again.
UpperCellRetried ==
  /\ phase = "upper"
  /\ tile_no < NumberOfCells(minification_factor)
  /\ IF UpperTile = {} THEN UNCHANGED <<written, next_layer_tiles, tile_no>>
     ELSE /\ \E tile \in UpperTile : OutputTile(tile)
          /\ tile_no' = tile_no + 1
  /\ UNCHANGED <<doc, phase, loop, sub_blocks_of_plane, minification_factor, tiles,
                 number_of_pyramid_layers, pyramid_region_info, copied>>

\* UpperPyramidLayersPyramidizer::Execute, one cell.
UpperCell ==
  /\ phase = "upper"
  /\ tile_no < NumberOfCells(minification_factor)
  /\ IF UpperTile = {} THEN UNCHANGED <<written, next_layer_tiles>>
     ELSE \E tile \in UpperTile : OutputTile(tile)
  /\ tile_no' = tile_no + 1
  /\ UNCHANGED <<doc, phase, loop, sub_blocks_of_plane, minification_factor, tiles,
                 number_of_pyramid_layers, pyramid_region_info, copied>>

\* A layer is complete.  If it has no tiles, or no further layer is needed,
\* DoPlane returns; otherwise the tiles move on to the next layer.
LayerDone ==
  /\ phase \in {"layer0", "upper"}
  /\ tile_no = NumberOfCells(minification_factor)
  /\ LET layers == number_of_pyramid_layers + (IF next_layer_tiles = <<>> THEN 0 ELSE 1)
     IN  IF next_layer_tiles # <<>> /\ IsAdditionalLayerNeeded(minification_factor)
         THEN /\ phase' = "upper"
              /\ number_of_pyramid_layers' = layers
              /\ minification_factor' = ToUint(2 * minification_factor)
              /\ tiles' = next_layer_tiles
              /\ next_layer_tiles' = <<>>
              /\ tile_no' = 0
              /\ UNCHANGED <<loop, pyramid_region_info>>
         ELSE /\ LeavePlane(layers)
              /\ UNCHANGED region
  /\ UNCHANGED <<doc, sub_blocks_of_plane, copied, written>>

\* A call into libCZI or OpenCV throws: the exception leaves Execute.
Throw ==
  /\ phase \in {"copy", "layer0", "upper"}
  /\ phase' = "failed"
  /\ UNCHANGED <<doc, loop, sub_blocks_of_plane, region, pyramid_region_info, copied, written>>

Return ==
  /\ phase = "plane"
  /\ AtEnd
  /\ phase' = "done"
  /\ UNCHANGED <<doc, loop, sub_blocks_of_plane, region, pyramid_region_info, copied, written>>

\* What the one thread does next, unless an exception stops it.
Progress ==
  \/ Construct
  \/ EnterPlane
  \/ \E b \in sub_blocks_of_plane : CopySubBlock(b)
  \/ CopyDone
  \/ Layer0Cell
  \/ UpperCell
  \/ LayerDone
  \/ Return

Next == Progress \/ Throw

Safety == Init /\ [][Next]_vars

\* One thread runs Execute to its end; nothing has to throw.
Spec == Safety /\ WF_vars(Progress)

-----------------------------------------------------------------------------
(* Properties.                                                             *)

\* A tile's own scale, from its logical and its physical size.
Scale(t) == t.rect.w \div t.bitmap.w

WrittenTiles == {written[k] : k \in DOMAIN written}

Layer0Blocks(plane) ==
  {b \in DOMAIN doc.subBlocks :
     doc.subBlocks[b].layer0 /\ doc.subBlocks[b].coordinate = plane}

\* The number of layers a plane should get: halve until no longer above.
LayersNeeded(plane) ==
  LET box == RegionRect(doc.statistics, plane)
      Enough(n) == /\ box.w \div PowerOfTwo[n] <= PyramidTileSize
                   /\ box.h \div PowerOfTwo[n] <= PyramidTileSize
  IN  IF Layer0Blocks(plane) = {} THEN 0
      ELSE CHOOSE n \in 0 .. 30 : Enough(n) /\ \A m \in 0 .. n - 1 : ~Enough(m)

\* Around a region there is room for the bounds of its tilings within a signed
\* integer, and for the number of their cells within an unsigned one.  The code
\* does not check it: a property that needs it says so, and the documents of the
\* runs have it.
HasRoom(r) ==
  LET size == Greater(r.w, r.h)
  IN  /\ 5 * size <= IntMax /\ r.x + 2 * size <= IntMax /\ r.y + 2 * size <= IntMax
      /\ (r.w \div PyramidTileSize + 4) * (r.h \div PyramidTileSize + 4) < UintModulus

DocsHaveRoom ==
  \A d \in Docs : Enumerable(d.statistics) =>
    \A p \in Planes(d.statistics.dimBounds) : HasRoom(RegionRect(d.statistics, p))

TypeOK ==
  /\ phase \in Phases
  /\ AtEnd \/ plane_coordinate \in Planes(bounds)
  /\ visited \subseteq Planes(bounds)
  /\ sub_blocks_of_plane \subseteq DOMAIN doc.subBlocks
  /\ tile_no \in Nat
  /\ minification_factor \in Nat \ {0}
  /\ \A k \in DOMAIN tiles : tiles[k].rect \in IntRect
  /\ \A k \in DOMAIN next_layer_tiles : next_layer_tiles[k].rect \in IntRect
  /\ number_of_pyramid_layers \in Nat
  /\ \A s \in DOMAIN pyramid_region_info : pyramid_region_info[s] \in Nat
  /\ copied \in [DOMAIN doc.subBlocks -> Nat]
  /\ \A k \in DOMAIN written : written[k].rect \in IntRect

\* No sub-block is ever added twice, and no pyramid sub-block of the source is
\* added at all, whether the operation succeeds or not.
NothingCopiedTwice ==
  \A b \in DOMAIN doc.subBlocks : copied[b] <= IF doc.subBlocks[b].layer0 THEN 1 ELSE 0

\* When Execute returns, every layer-0 sub-block (of a plane the enumeration
\* reaches) is in the destination: scene boxes, plane filters and the walk over
\* the planes select each of them.
EveryBlockCopied ==
  phase = "done" =>
    \A b \in DOMAIN doc.subBlocks :
       doc.subBlocks[b].layer0 /\ doc.subBlocks[b].coordinate \in ReachablePlanes(bounds)
         => copied[b] = 1

\* Tiles of one plane and one layer never overlap, though each is enlarged to
\* whole multiples of the minification factor after it was cut to its cell.
TilesDisjoint ==
  \A k, l \in DOMAIN written :
     LET s == written[k]
         t == written[l]
     IN  k # l /\ s.coordinate = t.coordinate /\ Scale(s) = Scale(t)
           => ~IsNonEmpty(Intersect(s.rect, t.rect))

\* The logical size of a tile is exactly its physical size times a power of
\* two, and a tile is no larger than the tile size asked for.
TilesScaled ==
  \A t \in WrittenTiles :
     /\ t.bitmap.w \in 1 .. PyramidTileSize /\ t.bitmap.h \in 1 .. PyramidTileSize
     /\ t.rect.w = Scale(t) * t.bitmap.w /\ t.rect.h = Scale(t) * t.bitmap.h
     /\ \E n \in 1 .. 30 : Scale(t) = PowerOfTwo[n]

\* Pixel (i, j) of a tile comes from where its coordinates say: the topmost
\* sub-block of the tile's own plane and scene at that place, however many
\* layers of compositions and decimations lie between.
PixelsFaithful ==
  \A t \in WrittenTiles :
     \A i \in 0 .. t.bitmap.w - 1, j \in 0 .. t.bitmap.h - 1 :
        t.bitmap.pixel[i][j] =
          MosaicPixel(doc, Layer0Blocks(t.coordinate),
                      t.rect.x + i * Scale(t), t.rect.y + j * Scale(t))

\* A plane that is done has exactly the layers its size calls for, and each of
\* them covers every pixel of the plane's sub-blocks: no tile is discarded as
\* too small or missed between two cells.
PlanesCovered ==
  \A plane \in visited :
     LET ofPlane == {t \in WrittenTiles : t.coordinate = plane}
     IN  /\ {Scale(t) : t \in ofPlane} = {PowerOfTwo[n] : n \in 1 .. LayersNeeded(plane)}
         /\ \A b \in Layer0Blocks(plane), n \in 1 .. LayersNeeded(plane) :
              LET r == doc.subBlocks[b].rect
              IN  \A x \in r.x .. r.x + r.w - 1, y \in r.y .. r.y + r.h - 1 :
                    \E t \in ofPlane : Scale(t) = PowerOfTwo[n] /\ InRect(t.rect, x, y)

\* The result names each scene, with the layers of its planes at their most.
LayersReported ==
  phase = "done" =>
    LET SceneOf(p) == IF ContainsSceneIndex(p) THEN p["S"] ELSE IntMin
    IN  /\ DOMAIN pyramid_region_info = {SceneOf(p) : p \in visited}
        /\ \A p \in visited : LayersNeeded(p) <= pyramid_region_info[SceneOf(p)]
        /\ \A s \in DOMAIN pyramid_region_info :
             \E p \in visited : SceneOf(p) = s /\ pyramid_region_info[s] = LayersNeeded(p)

\* Execute walks the planes the way PlaneEnumerator promises.
Enumeration == INSTANCE PlaneEnumerator WITH
  AllStatistics <- {d.statistics : d \in Docs},
  statistics    <- doc.statistics,
  phase         <- IF phase \in {"plane", "copy", "layer0", "upper"} THEN "loop" ELSE phase,
  current_state <- plane_coordinate

WalksThePlanes == Enumeration!Safety

\* Execute comes to an end: it returns, or an exception leaves it.
Termination == <>(phase \in {"done", "failed"})
=============================================================================
