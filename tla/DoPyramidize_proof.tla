-------------------------- MODULE DoPyramidize_proof --------------------------
(***************************************************************************)
(* DoPyramidize walks the planes as PlaneEnumerator promises, copies every *)
(* layer-0 sub-block exactly once, and writes tiles that are disjoint and  *)
(* scaled by powers of two, for all documents, tile sizes and integer      *)
(* widths.                                                                 *)
(***************************************************************************)
EXTENDS DoPyramidize, PlaneCoordinates_proof, Geometry_proof

InPlane == phase \in {"copy", "layer0", "upper"}

\* The walk over the planes, and where in it DoPlane runs.
LoopInv ==
  /\ doc \in Docs
  /\ phase \in Phases
  /\ AtEnd \/ plane_coordinate \in Planes(bounds)
  /\ visited \subseteq Planes(bounds)
  /\ phase = "construct" =>
       visited = {} /\ plane_coordinate = Begin(bounds)
  /\ phase \notin {"construct", "failed"} =>
       Enumerable(doc.statistics) /\ WalkInvariant(bounds, visited, plane_coordinate)
  /\ InPlane => ~AtEnd
  /\ phase = "done" => AtEnd

\* What is in the destination: the layer-0 sub-blocks of the planes done, and
\* those already copied of the plane in work.
InDestination(b) ==
  /\ doc.subBlocks[b].layer0
  /\ \/ doc.subBlocks[b].coordinate \in visited
     \/ /\ InPlane
        /\ doc.subBlocks[b].coordinate = plane_coordinate
        /\ b \notin sub_blocks_of_plane

CopyInv ==
  /\ copied \in [DOMAIN doc.subBlocks -> Nat]
  /\ NothingCopiedTwice
  /\ phase # "failed" =>
       \A b \in DOMAIN doc.subBlocks : copied[b] = IF InDestination(b) THEN 1 ELSE 0
  /\ sub_blocks_of_plane \subseteq DOMAIN doc.subBlocks
  /\ phase = "copy" => sub_blocks_of_plane \subseteq Layer0Blocks(plane_coordinate)
  /\ phase \in {"layer0", "upper"} => sub_blocks_of_plane = {}

-----------------------------------------------------------------------------
\* The bounds of the document are intervals, and the constructor leaves only
\* documents that have a dimension to walk.
LEMMA DocBounds ==
  ASSUME doc \in Docs
  PROVE  /\ IsBounds(bounds)
         /\ Enumerable(doc.statistics) => Walked(bounds) # {}
BY DoPyramidizeAssumption DEF IsDocument, bounds, Enumerable, Walked

\* A sub-block that lies in a region and is not empty meets the region.
LEMMA ContainedMeets ==
  ASSUME NEW a, NEW r, IsStoredRect(a), IsStoredRect(r), IsNonEmpty(r), Contains(a, r)
  PROVE  IsNonEmpty(Intersect(r, a))
BY DEF IsStoredRect, IntRect, IsNonEmpty, Contains, Intersect, Greater, Lesser, EmptyRect

\* Two planes of the same document select each other only if they are equal.
LEMMA SelectsIsEquality ==
  ASSUME NEW b, IsBounds(b), NEW p \in Planes(b), NEW q \in Planes(b)
  PROVE  Selects(p, q) <=> p = q
<1>1. p \in [DOMAIN b -> Int] /\ q \in [DOMAIN b -> Int]
  BY PlaneType
<1> QED BY <1>1 DEF Selects

\* The region of every plane of an accepted document is a rectangle of ints.
LEMMA RegionIsStored ==
  ASSUME doc \in Docs, Enumerable(doc.statistics), plane_coordinate \in Planes(bounds)
  PROVE  IsStoredRect(rect)
<1>1. IsDocument(doc)
  BY DoPyramidizeAssumption
<1>2. CASE ContainsSceneIndex(plane_coordinate)
  <2>1. "S" \in DOMAIN bounds
    BY <1>1, <1>2, PlaneType DEF IsDocument, ContainsSceneIndex, bounds
  <2>2. plane_coordinate["S"] \in bounds["S"].start .. Last(bounds, "S")
    BY <2>1 DEF Planes
  <2>3. plane_coordinate["S"] \in DOMAIN doc.statistics.sceneBoundingBoxes
    BY <2>1, <2>2 DEF Enumerable, bounds
  <2> QED BY <1>1, <1>2, <2>3 DEF IsDocument, rect, RegionRect
<1>3. CASE ~ContainsSceneIndex(plane_coordinate)
  BY <1>1, <1>3 DEF IsDocument, rect, RegionRect
<1> QED BY <1>2, <1>3

\* GetSubBlockIndicesForPlane returns exactly the plane's layer-0 sub-blocks:
\* the region of the plane cuts none of them off.
LEMMA SubBlocksOfPlane ==
  ASSUME doc \in Docs, Enumerable(doc.statistics), plane_coordinate \in Planes(bounds)
  PROVE  GetSubBlockIndicesForPlane = Layer0Blocks(plane_coordinate)
<1>1. IsDocument(doc)
  BY DoPyramidizeAssumption
<1>2. IsBounds(bounds)
  BY <1>1 DEF IsDocument, bounds
<1>3. ASSUME NEW b \in DOMAIN doc.subBlocks
      PROVE  Selects(plane_coordinate, doc.subBlocks[b].coordinate)
               <=> doc.subBlocks[b].coordinate = plane_coordinate
  <2>1. doc.subBlocks[b].coordinate \in Planes(bounds)
    BY <1>1 DEF IsDocument, bounds
  <2> QED BY <1>2, <2>1, SelectsIsEquality
<1>4. ASSUME NEW b \in Layer0Blocks(plane_coordinate)
      PROVE  IsNonEmpty(Intersect(doc.subBlocks[b].rect, rect))
  <2>1. /\ IsStoredRect(doc.subBlocks[b].rect) /\ IsNonEmpty(doc.subBlocks[b].rect)
        /\ Contains(rect, doc.subBlocks[b].rect)
    BY <1>1 DEF IsDocument, Layer0Blocks, rect
  <2>2. IsStoredRect(rect)
    BY RegionIsStored
  <2> QED BY <2>1, <2>2, ContainedMeets
<1> QED BY <1>3, <1>4 DEF GetSubBlockIndicesForPlane, EnumSubset, Layer0Blocks

-----------------------------------------------------------------------------
\* The walk's invariant holds initially.
LEMMA InitLoop == Init => LoopInv
<1> SUFFICES ASSUME Init PROVE LoopInv
  OBVIOUS
<1>1. plane_coordinate \in Planes(bounds)
  BY DocBounds, BeginIsFirst DEF Init, ReachablePlanes, bounds
<1> QED BY <1>1 DEF Init, LoopInv, InPlane, Phases, bounds

\* DoPlane returning is one step of the walk.
LEMMA LeavePlaneWalks ==
  ASSUME LoopInv, InPlane, NEW layers, LeavePlane(layers), UNCHANGED doc
  PROVE  LoopInv'
<1>1. /\ doc \in Docs /\ Enumerable(doc.statistics)
      /\ WalkInvariant(bounds, visited, plane_coordinate) /\ ~AtEnd
  BY DEF LoopInv, InPlane
<1>2. WalkInvariant(bounds, visited \cup {plane_coordinate}, Increment(bounds, plane_coordinate))
  BY <1>1, DocBounds, WalkContinues DEF AtEnd
<1>3. WalkInvariant(bounds, visited, plane_coordinate)'
  BY <1>2 DEF LeavePlane, bounds
<1>4. AtEnd' \/ plane_coordinate' \in Planes(bounds')
  BY <1>3 DEF WalkInvariant, AtEnd, ReachablePlanes
<1>5. visited' \subseteq Planes(bounds')
  BY <1>3, SeenIsReachable DEF ReachablePlanes
<1> QED BY <1>1, <1>3, <1>4, <1>5 DEF LoopInv, LeavePlane, InPlane, Phases

\* Every step keeps the walk's invariant.
LEMMA NextLoop == LoopInv /\ [Next]_vars => LoopInv'
<1> SUFFICES ASSUME LoopInv, [Next]_vars PROVE LoopInv'
  OBVIOUS
<1> USE DEF loop, region
<1>1. CASE Construct
  <2>1. CASE Enumerable(doc.statistics)
    <3>1. WalkInvariant(bounds, visited, plane_coordinate)
      BY <1>1, <2>1, DocBounds, WalkBegins DEF LoopInv, Construct
    <3> QED BY <1>1, <2>1, <3>1 DEF LoopInv, Construct, InPlane, Phases, AtEnd, bounds
  <2>2. CASE ~Enumerable(doc.statistics)
    BY <1>1, <2>2 DEF LoopInv, Construct, InPlane, Phases, AtEnd, bounds
  <2> QED BY <2>1, <2>2
<1>2. CASE EnterPlane
  BY <1>2 DEF LoopInv, EnterPlane, InPlane, Phases, AtEnd, bounds
<1>3. ASSUME NEW b \in sub_blocks_of_plane, CopySubBlock(b) PROVE LoopInv'
  BY <1>3 DEF LoopInv, CopySubBlock, InPlane, Phases, AtEnd, bounds
<1>4. CASE CopyDone
  <2>1. CASE IsAdditionalLayerNeeded(1)
    BY <1>4, <2>1 DEF LoopInv, CopyDone, InPlane, Phases, AtEnd, bounds
  <2>2. CASE ~IsAdditionalLayerNeeded(1)
    BY <1>4, <2>2, LeavePlaneWalks DEF CopyDone, InPlane
  <2> QED BY <2>1, <2>2
<1>5. CASE Layer0Cell
  BY <1>5 DEF LoopInv, Layer0Cell, InPlane, Phases, AtEnd, bounds
<1>6. CASE UpperCell
  BY <1>6 DEF LoopInv, UpperCell, InPlane, Phases, AtEnd, bounds
<1>7. CASE LayerDone
  <2>1. InPlane /\ UNCHANGED doc
    BY <1>7 DEF LayerDone, InPlane
  <2>2. CASE next_layer_tiles # <<>> /\ IsAdditionalLayerNeeded(minification_factor)
    BY <1>7, <2>2 DEF LoopInv, LayerDone, InPlane, Phases, AtEnd, bounds
  <2>3. CASE ~(next_layer_tiles # <<>> /\ IsAdditionalLayerNeeded(minification_factor))
    BY <1>7, <2>1, <2>3, LeavePlaneWalks DEF LayerDone
  <2> QED BY <2>2, <2>3
<1>8. CASE Throw
  BY <1>8 DEF LoopInv, Throw, InPlane, Phases, AtEnd, bounds
<1>9. CASE Return
  BY <1>9 DEF LoopInv, Return, InPlane, Phases, AtEnd, bounds
<1>10. CASE UNCHANGED vars
  BY <1>10 DEF LoopInv, vars, InPlane, Phases, AtEnd, bounds
<1> QED BY <1>1, <1>2, <1>3, <1>4, <1>5, <1>6, <1>7, <1>8, <1>9, <1>10 DEF Next, Progress

-----------------------------------------------------------------------------
\* Nothing is in the destination at first.
LEMMA InitCopy == Init => CopyInv
BY DEF Init, CopyInv, NothingCopiedTwice, InDestination, InPlane

\* When DoPlane returns, what was copied for the plane in work is accounted for
\* by the planes done.
LEMMA LeavePlaneCopies ==
  ASSUME LoopInv, CopyInv, InPlane, sub_blocks_of_plane = {},
         NEW layers, LeavePlane(layers), UNCHANGED <<doc, sub_blocks_of_plane, copied>>
  PROVE  CopyInv'
<1>1. ASSUME NEW b \in DOMAIN doc.subBlocks PROVE InDestination(b)' <=> InDestination(b)
  BY DEF InDestination, InPlane, LeavePlane
<1> QED BY <1>1 DEF LoopInv, CopyInv, NothingCopiedTwice, InPlane, LeavePlane

\* Every step keeps the account of what is copied.
LEMMA NextCopy == LoopInv /\ CopyInv /\ [Next]_vars => CopyInv'
<1> SUFFICES ASSUME LoopInv, CopyInv, [Next]_vars PROVE CopyInv'
  OBVIOUS
<1> USE DEF loop, region
<1>1. CASE Construct
  BY <1>1 DEF LoopInv, CopyInv, Construct, NothingCopiedTwice, InDestination, InPlane
<1>2. CASE EnterPlane
  <2>1. plane_coordinate \in Planes(bounds) /\ plane_coordinate \notin visited
    BY <1>2, DocBounds, WalkIsFresh DEF LoopInv, EnterPlane, AtEnd, ReachablePlanes
  <2>2. sub_blocks_of_plane' = Layer0Blocks(plane_coordinate)
    BY <1>2, <2>1, SubBlocksOfPlane DEF LoopInv, EnterPlane
  <2>3. ASSUME NEW b \in DOMAIN doc.subBlocks PROVE InDestination(b)' <=> InDestination(b)
    BY <1>2, <2>1, <2>2 DEF EnterPlane, InDestination, InPlane, Layer0Blocks
  <2> QED BY <1>2, <2>2, <2>3 DEF CopyInv, EnterPlane, NothingCopiedTwice, Layer0Blocks
<1>3. ASSUME NEW b \in sub_blocks_of_plane, CopySubBlock(b) PROVE CopyInv'
  <2>1. plane_coordinate \notin visited
    BY <1>3, DocBounds, WalkIsFresh DEF LoopInv, CopySubBlock, AtEnd, InPlane
  <2>2. /\ b \in DOMAIN doc.subBlocks
        /\ doc.subBlocks[b].layer0 /\ doc.subBlocks[b].coordinate = plane_coordinate
    BY <1>3 DEF CopyInv, CopySubBlock, Layer0Blocks
  <2>3. copied[b] = 0
    BY <1>3, <2>1, <2>2 DEF CopyInv, CopySubBlock, InDestination
  <2>4. copied' = [copied EXCEPT ![b] = 1]
    BY <1>3, <2>3 DEF CopySubBlock
  <2>5. InDestination(b)'
    BY <1>3, <2>2 DEF CopySubBlock, InDestination, InPlane
  <2>6. ASSUME NEW c \in DOMAIN doc.subBlocks, c # b PROVE InDestination(c)' <=> InDestination(c)
    BY <1>3, <2>6 DEF CopySubBlock, InDestination, InPlane
  <2>7. copied' \in [DOMAIN doc.subBlocks -> Nat] /\ NothingCopiedTwice'
    BY <1>3, <2>2, <2>4 DEF CopyInv, CopySubBlock, NothingCopiedTwice
  <2>8. \A c \in DOMAIN doc.subBlocks : copied'[c] = IF InDestination(c)' THEN 1 ELSE 0
    BY <1>3, <2>2, <2>4, <2>5, <2>6 DEF CopyInv, CopySubBlock
  <2> QED BY <1>3, <2>7, <2>8 DEF CopyInv, CopySubBlock, Layer0Blocks
<1>4. CASE CopyDone
  <2>1. CASE IsAdditionalLayerNeeded(1)
    <3>1. ASSUME NEW b \in DOMAIN doc.subBlocks PROVE InDestination(b)' <=> InDestination(b)
      BY <1>4, <2>1 DEF CopyDone, InDestination, InPlane
    <3> QED BY <1>4, <2>1, <3>1 DEF CopyInv, CopyDone, NothingCopiedTwice
  <2>2. CASE ~IsAdditionalLayerNeeded(1)
    BY <1>4, <2>2, LeavePlaneCopies DEF CopyDone, InPlane
  <2> QED BY <2>1, <2>2
<1>5. CASE Layer0Cell
  BY <1>5 DEF CopyInv, Layer0Cell, NothingCopiedTwice, InDestination, InPlane, Layer0Blocks
<1>6. CASE UpperCell
  BY <1>6 DEF CopyInv, UpperCell, NothingCopiedTwice, InDestination, InPlane, Layer0Blocks
<1>7. CASE LayerDone
  <2>1. InPlane /\ sub_blocks_of_plane = {} /\ UNCHANGED <<doc, sub_blocks_of_plane, copied>>
    BY <1>7 DEF CopyInv, LayerDone, InPlane
  <2>2. CASE next_layer_tiles # <<>> /\ IsAdditionalLayerNeeded(minification_factor)
    <3>1. ASSUME NEW b \in DOMAIN doc.subBlocks PROVE InDestination(b)' <=> InDestination(b)
      BY <1>7, <2>2 DEF LayerDone, InDestination, InPlane
    <3> QED BY <1>7, <2>1, <2>2, <3>1 DEF CopyInv, LayerDone, NothingCopiedTwice
  <2>3. CASE ~(next_layer_tiles # <<>> /\ IsAdditionalLayerNeeded(minification_factor))
    BY <1>7, <2>1, <2>3, LeavePlaneCopies DEF LayerDone
  <2> QED BY <2>2, <2>3
<1>8. CASE Throw
  BY <1>8 DEF CopyInv, Throw, NothingCopiedTwice
<1>9. CASE Return
  BY <1>9 DEF CopyInv, Return, NothingCopiedTwice, InDestination, InPlane
<1>10. CASE UNCHANGED vars
  BY <1>10 DEF CopyInv, vars, NothingCopiedTwice, InDestination, InPlane, Layer0Blocks
<1> QED BY <1>1, <1>2, <1>3, <1>4, <1>5, <1>6, <1>7, <1>8, <1>9, <1>10 DEF Next, Progress

\* At the end, the account says that every sub-block has been copied.
LEMMA CopyInvImplies == LoopInv /\ CopyInv => EveryBlockCopied
<1> SUFFICES ASSUME LoopInv, CopyInv, phase = "done",
                    NEW b \in DOMAIN doc.subBlocks, doc.subBlocks[b].layer0,
                    doc.subBlocks[b].coordinate \in ReachablePlanes(bounds)
             PROVE  copied[b] = 1
  BY DEF EveryBlockCopied
<1>1. visited = ReachablePlanes(bounds)
  BY DEF LoopInv, WalkInvariant, AtEnd
<1> QED BY <1>1 DEF CopyInv, InDestination

\* Both invariants hold in every reachable state.
LEMMA LoopAndCopies == Spec => [](LoopInv /\ CopyInv)
BY InitLoop, InitCopy, NextLoop, NextCopy, PTL DEF Spec, Safety

\* No sub-block is added to the destination twice, for all documents.
THEOREM CopiedAtMostOnce == Spec => []NothingCopiedTwice
<1>1. CopyInv => NothingCopiedTwice
  BY DEF CopyInv
<1> QED BY <1>1, LoopAndCopies, PTL

\* When Execute returns, every layer-0 sub-block of the planes the enumeration
\* reaches is in the destination, for all documents.
THEOREM AllBlocksCopied == Spec => []EveryBlockCopied
BY CopyInvImplies, LoopAndCopies, PTL

-----------------------------------------------------------------------------
\* A sequence of records whose rectangles are rectangles.
HasRects(seq) == \E S : seq \in Seq(S) /\ \A e \in S : e.rect \in IntRect

\* The state of the layer in work: the cells of a layer have a size that an
\* unsigned integer holds, so the tiling never divides by zero.
LayerInv ==
  /\ tile_no \in Nat
  /\ minification_factor \in Nat \ {0}
  /\ phase \in {"layer0", "upper"} => minification_factor * PyramidTileSize < UintModulus
  /\ phase = "layer0" => minification_factor = 2
  /\ HasRects(tiles) /\ HasRects(next_layer_tiles) /\ HasRects(written)
  /\ number_of_pyramid_layers \in Nat
  /\ \A s \in DOMAIN pyramid_region_info : pyramid_region_info[s] \in Nat

\* One more record with a rectangle keeps a sequence of such records.
LEMMA AppendHasRects ==
  ASSUME NEW seq, HasRects(seq), NEW e, e.rect \in IntRect
  PROVE  HasRects(Append(seq, e))
<1>1. PICK S : seq \in Seq(S) /\ \A f \in S : f.rect \in IntRect
  BY DEF HasRects
<1>2. Append(seq, e) \in Seq(S \cup {e})
  BY <1>1
<1> QED BY <1>1, <1>2 DEF HasRects

\* The empty sequence is one of them.
LEMMA EmptyHasRects == HasRects(<<>>)
<1>1. PICK S : S = {}
  OBVIOUS
<1>2. <<>> \in Seq(S) /\ \A e \in S : e.rect \in IntRect
  BY <1>1
<1> QED BY <1>2 DEF HasRects

\* A layer is needed on top of another only while its cells are smaller than
\* the region, so twice their size is still an unsigned integer.
LEMMA NeededLayerFits ==
  ASSUME NEW factor \in Nat \ {0}, IsStoredRect(rect), IsAdditionalLayerNeeded(factor)
  PROVE  /\ 2 * factor * PyramidTileSize < UintModulus
         /\ ToUint(2 * factor) = 2 * factor
<1>1. PICK size \in {rect.w, rect.h} : size \div factor > PyramidTileSize
  BY DEF IsAdditionalLayerNeeded, IsAbovePyramidThreshold
<1>2. size \in Int /\ 2 * size < UintModulus
  BY UintAssumption DEF IsStoredRect, IntRect, IntMax
<1>3. PICK q \in Int : q = size \div factor
  BY <1>2
<1>4. factor * q <= size
  BY <1>2, <1>3, DivMod
<1>5. factor * PyramidTileSize <= factor * q
  BY <1>1, <1>3, DoPyramidizeAssumption
<1>6. factor <= factor * PyramidTileSize
  BY DoPyramidizeAssumption
<1>7. factor * PyramidTileSize \in Nat
  BY DoPyramidizeAssumption
<1>8. factor * q \in Int
  OBVIOUS
<1>9. 2 * factor * PyramidTileSize = 2 * (factor * PyramidTileSize)
  BY DoPyramidizeAssumption
<1>10. factor <= size /\ factor * PyramidTileSize <= size
  BY <1>2, <1>4, <1>5, <1>6, <1>7, <1>8
<1> QED BY <1>2, <1>7, <1>9, <1>10, UintAssumption DEF ToUint

\* The rectangle of the tile a cell gives is a rectangle.
LEMMA TileHasRect ==
  ASSUME LayerInv, phase \in {"layer0", "upper"}, IsStoredRect(rect),
         tile_no < NumberOfCells(minification_factor),
         NEW below \in SUBSET IntRect,
         NEW roi \in MinimalTileLatched(below, minification_factor)
  PROVE  roi \in IntRect
<1> DEFINE factor == minification_factor
<1>1. CellSize(factor) \in Nat \ {0}
  <2>1. factor * PyramidTileSize \in Nat \ {0} /\ factor * PyramidTileSize < UintModulus
    BY DoPyramidizeAssumption DEF LayerInv
  <2> QED BY <2>1, UintAssumption DEF CellSize, ToUint
<1>2. Tiling(factor) \in IntRect
  BY EnlargeAndLatchType DEF Tiling, IsStoredRect, LayerInv
<1>3. Cell(factor, tile_no) \in IntRect
  BY <1>1, <1>2, GetRoiType DEF Cell, NumberOfCells, LayerInv
<1>4. GetMinimalRectForRoi(below, Cell(factor, tile_no)) \in IntRect
  BY <1>3, MinimalRectIsLeast
<1> QED BY <1>4, EnlargeAndLatchType DEF MinimalTileLatched, LayerInv

\* The layer's invariant holds initially.
LEMMA InitLayer == Init => LayerInv
BY EmptyHasRects DEF Init, LayerInv

\* The result keeps natural numbers when DoPlane returns.
LEMMA LeavePlaneCounts ==
  ASSUME LayerInv, NEW layers \in Nat, LeavePlane(layers)
  PROVE  \A s \in DOMAIN pyramid_region_info' : pyramid_region_info'[s] \in Nat
BY DEF LayerInv, LeavePlane, Greater

\* Every step keeps the layer's invariant.
LEMMA NextLayer == LoopInv /\ CopyInv /\ LayerInv /\ [Next]_vars => LayerInv'
<1> SUFFICES ASSUME LoopInv, CopyInv, LayerInv, [Next]_vars PROVE LayerInv'
  OBVIOUS
<1> USE DEF loop, region
<1>1. InPlane => IsStoredRect(rect)
  <2> SUFFICES ASSUME InPlane PROVE IsStoredRect(rect)
    OBVIOUS
  <2>1. plane_coordinate \in Planes(bounds)
    BY DocBounds, WalkIsFresh DEF LoopInv, InPlane, AtEnd, ReachablePlanes
  <2> QED BY <2>1, RegionIsStored DEF LoopInv, InPlane
<1>2. CASE Construct
  BY <1>2 DEF LayerInv, Construct
<1>3. CASE EnterPlane
  BY <1>3 DEF LayerInv, EnterPlane
<1>4. ASSUME NEW b \in sub_blocks_of_plane, CopySubBlock(b) PROVE LayerInv'
  BY <1>4 DEF LayerInv, CopySubBlock
<1>5. CASE CopyDone
  <2>1. CASE IsAdditionalLayerNeeded(1)
    <3>1. 2 * PyramidTileSize < UintModulus
      <4>1. 2 * 1 * PyramidTileSize < UintModulus
        BY <1>1, <1>5, <2>1, NeededLayerFits DEF CopyDone, InPlane
      <4> QED BY <4>1, DoPyramidizeAssumption
    <3> QED BY <1>5, <2>1, <3>1, EmptyHasRects DEF LayerInv, CopyDone
  <2>2. CASE ~IsAdditionalLayerNeeded(1)
    <3>1. LeavePlane(0) /\ phase' = "plane"
      BY <1>5, <2>2 DEF CopyDone, LeavePlane
    <3>2. \A s \in DOMAIN pyramid_region_info' : pyramid_region_info'[s] \in Nat
      BY <3>1, LeavePlaneCounts
    <3> QED BY <1>5, <2>2, <3>1, <3>2 DEF LayerInv, CopyDone
  <2> QED BY <2>1, <2>2
<1>6. CASE Layer0Cell
  <2>1. /\ phase = "layer0" /\ minification_factor = 2
        /\ tile_no < NumberOfCells(minification_factor) /\ IsStoredRect(rect)
    BY <1>1, <1>6 DEF LayerInv, Layer0Cell, InPlane
  <2>2. ASSUME NEW tile \in Layer0Tile PROVE tile.rect \in IntRect
    <3> DEFINE below == {doc.subBlocks[b].rect : b \in GetSubBlockIndicesForPlane}
    <3>1. below \in SUBSET IntRect
      BY DoPyramidizeAssumption DEF LoopInv, IsDocument, IsStoredRect, GetSubBlockIndicesForPlane,
                                    EnumSubset
    <3>2. tile.rect \in MinimalTileLatched(below, minification_factor)
      BY <2>1, <2>2 DEF Layer0Tile
    <3> HIDE DEF below
    <3> QED BY <2>1, <3>1, <3>2, TileHasRect
  <2>3. HasRects(written') /\ HasRects(next_layer_tiles')
    <3>1. CASE Layer0Tile = {}
      BY <1>6, <3>1 DEF LayerInv, Layer0Cell
    <3>2. CASE Layer0Tile # {}
      BY <1>6, <2>2, <3>2, AppendHasRects DEF LayerInv, Layer0Cell, OutputTile
    <3> QED BY <3>1, <3>2
  <2> QED BY <1>6, <2>3 DEF LayerInv, Layer0Cell
<1>7. CASE UpperCell
  <2>1. /\ phase = "upper"
        /\ tile_no < NumberOfCells(minification_factor) /\ IsStoredRect(rect)
    BY <1>1, <1>7 DEF LayerInv, UpperCell, InPlane
  <2>2. ASSUME NEW tile \in UpperTile PROVE tile.rect \in IntRect
    <3> DEFINE below == {tiles[k].rect : k \in DOMAIN tiles}
    <3>1. below \in SUBSET IntRect
      BY DEF LayerInv, HasRects
    <3>2. tile.rect \in MinimalTileLatched(below, minification_factor)
      BY <2>1, <2>2 DEF UpperTile
    <3> HIDE DEF below
    <3> QED BY <2>1, <3>1, <3>2, TileHasRect
  <2>3. HasRects(written') /\ HasRects(next_layer_tiles')
    <3>1. CASE UpperTile = {}
      BY <1>7, <3>1 DEF LayerInv, UpperCell
    <3>2. CASE UpperTile # {}
      BY <1>7, <2>2, <3>2, AppendHasRects DEF LayerInv, UpperCell, OutputTile
    <3> QED BY <3>1, <3>2
  <2> QED BY <1>7, <2>3 DEF LayerInv, UpperCell
<1>8. CASE LayerDone
  <2> DEFINE layers == number_of_pyramid_layers + (IF next_layer_tiles = <<>> THEN 0 ELSE 1)
  <2>1. layers \in Nat
    BY DEF LayerInv
  <2>2. CASE next_layer_tiles # <<>> /\ IsAdditionalLayerNeeded(minification_factor)
    <3>1. /\ 2 * minification_factor * PyramidTileSize < UintModulus
          /\ ToUint(2 * minification_factor) = 2 * minification_factor
      BY <1>1, <1>8, <2>2, NeededLayerFits DEF LayerInv, LayerDone, InPlane
    <3>2. /\ minification_factor' = 2 * minification_factor
          /\ phase' = "upper" /\ tile_no' = 0 /\ number_of_pyramid_layers' = layers
          /\ tiles' = next_layer_tiles /\ next_layer_tiles' = <<>>
          /\ UNCHANGED <<written, pyramid_region_info>>
      BY <1>8, <2>2, <3>1 DEF LayerDone
    <3>3. minification_factor' \in Nat \ {0}
      BY <3>2 DEF LayerInv
    <3> QED BY <2>1, <3>1, <3>2, <3>3, EmptyHasRects DEF LayerInv
  <2>3. CASE ~(next_layer_tiles # <<>> /\ IsAdditionalLayerNeeded(minification_factor))
    <3>1. LeavePlane(layers) /\ phase' = "plane" /\ UNCHANGED <<region, written>>
      BY <1>8, <2>3 DEF LayerDone, LeavePlane
    <3>2. \A s \in DOMAIN pyramid_region_info' : pyramid_region_info'[s] \in Nat
      BY <2>1, <3>1, LeavePlaneCounts
    <3> QED BY <3>1, <3>2 DEF LayerInv
  <2> QED BY <2>2, <2>3
<1>9. CASE Throw
  BY <1>9 DEF LayerInv, Throw
<1>10. CASE Return
  BY <1>10 DEF LayerInv, Return
<1>11. CASE UNCHANGED vars
  BY <1>11 DEF LayerInv, vars
<1> QED BY <1>2, <1>3, <1>4, <1>5, <1>6, <1>7, <1>8, <1>9, <1>10, <1>11 DEF Next, Progress

\* The three invariants imply the types.
LEMMA InvariantsImplyTypes == LoopInv /\ CopyInv /\ LayerInv => TypeOK
<1> SUFFICES ASSUME LoopInv, CopyInv, LayerInv PROVE TypeOK
  OBVIOUS
<1>1. ASSUME NEW seq, HasRects(seq) PROVE \A k \in DOMAIN seq : seq[k].rect \in IntRect
  BY <1>1 DEF HasRects
<1> QED BY <1>1 DEF LoopInv, CopyInv, LayerInv, TypeOK

\* The type invariant, for all documents, tile sizes and integer widths: no
\* overflow, and no division by zero in the tiling, takes a rectangle out of
\* the integers.
THEOREM TypeCorrect == Spec => []TypeOK
<1>1. Init => LoopInv /\ CopyInv /\ LayerInv
  BY InitLoop, InitCopy, InitLayer
<1>2. LoopInv /\ CopyInv /\ LayerInv /\ [Next]_vars => (LoopInv /\ CopyInv /\ LayerInv)'
  BY NextLoop, NextCopy, NextLayer
<1> QED BY <1>1, <1>2, InvariantsImplyTypes, PTL DEF Spec, Safety

-----------------------------------------------------------------------------
\* The instance's operators on planes are those of PlaneCoordinates.
LEMMA SameCoordinates ==
  ASSUME NEW b, NEW c, NEW s
  PROVE  /\ Enumeration!Begin(b) = Begin(b)
         /\ Enumeration!GetCoordinateOneAfterEnd(b) = GetCoordinateOneAfterEnd(b)
         /\ Enumeration!Increment(b, c) = Increment(b, c)
         /\ Enumeration!Enumerable(s) = Enumerable(s)
<1> USE DEF Enumeration!kOrderOfDimensionsToIterate, kOrderOfDimensionsToIterate,
           Enumeration!Iterated, Iterated, Enumeration!Last, Last, Enumeration!FirstOf, FirstOf
<1>1. Enumeration!Begin(b) = Begin(b)
  BY DEF Enumeration!Begin, Begin
<1>2. Enumeration!GetCoordinateOneAfterEnd(b) = GetCoordinateOneAfterEnd(b)
  BY DEF Enumeration!GetCoordinateOneAfterEnd, GetCoordinateOneAfterEnd
<1>3. Enumeration!Advancing(b, c) = Advancing(b, c)
  BY DEF Enumeration!Advancing, Advancing
<1>4. Enumeration!Increment(b, c) = Increment(b, c)
  BY <1>2, <1>3 DEF Enumeration!Increment, Increment
<1>5. Enumeration!Enumerable(s) = Enumerable(s)
  BY DEF Enumeration!Enumerable, Enumerable
<1> QED BY <1>1, <1>2, <1>4, <1>5

\* The initial states are initial states of the enumeration.
LEMMA InitWalks == Init => Enumeration!Init
BY SameCoordinates DEF Init, Enumeration!Init

\* Every step is a step of the enumeration, or leaves it where it is.
LEMMA NextWalks == LoopInv /\ [Next]_vars => [Enumeration!Next]_(Enumeration!vars)
<1> SUFFICES ASSUME LoopInv, [Next]_vars PROVE [Enumeration!Next]_(Enumeration!vars)
  OBVIOUS
<1> USE DEF loop, region, Enumeration!vars, Enumeration!Next, Enumeration!Progress
<1>1. CASE Construct
  BY <1>1, SameCoordinates DEF Construct, Enumeration!Construct
<1>2. CASE EnterPlane
  BY <1>2 DEF EnterPlane
<1>3. ASSUME NEW b \in sub_blocks_of_plane, CopySubBlock(b)
      PROVE  UNCHANGED Enumeration!vars
  BY <1>3 DEF CopySubBlock
<1>4. ASSUME NEW layers, InPlane, LeavePlane(layers), UNCHANGED doc
      PROVE  Enumeration!VisitPlane
  BY <1>4, SameCoordinates DEF LoopInv, InPlane, LeavePlane, Enumeration!VisitPlane, AtEnd, bounds,
             Enumeration!AtEnd, Enumeration!bounds
<1>5. CASE CopyDone
  BY <1>4, <1>5 DEF CopyDone, InPlane
<1>6. CASE Layer0Cell
  BY <1>6 DEF Layer0Cell
<1>7. CASE UpperCell
  BY <1>7 DEF UpperCell
<1>8. CASE LayerDone
  BY <1>4, <1>8 DEF LayerDone, InPlane
<1>9. CASE Throw
  BY <1>9, SameCoordinates DEF LoopInv, Throw, InPlane, AtEnd, bounds,
             Enumeration!BodyThrows, Enumeration!AtEnd, Enumeration!bounds
<1>10. CASE Return
  BY <1>10, SameCoordinates DEF Return, AtEnd, bounds,
             Enumeration!LeaveLoop, Enumeration!AtEnd, Enumeration!bounds
<1>11. CASE UNCHANGED vars
  BY <1>11 DEF vars
<1> QED BY <1>1, <1>2, <1>3, <1>5, <1>6, <1>7, <1>8, <1>9, <1>10, <1>11 DEF Next, Progress

\* DoPyramidize implements the plane enumeration: each return of DoPlane is one
\* step of it, and everything else stutters.
THEOREM ImplementsEnumeration == Spec => WalksThePlanes
<1>1. Spec => []LoopInv
  BY LoopAndCopies, PTL
<1> QED BY <1>1, InitWalks, NextWalks, PTL DEF Spec, Safety, WalksThePlanes, Enumeration!Safety

-----------------------------------------------------------------------------
(* The tiles are disjoint and scaled by powers of two: whatever wraps      *)
(* around in the unsigned arithmetic of the tiling leaves no tile behind.  *)

InLayer == phase \in {"layer0", "upper"}

\* The layer in work is 1 << pyramid_layer, which a signed integer holds.
IsLayerFactor(factor) ==
  factor <= IntMax /\ \E n \in 1 .. 30 : factor = PowerOfTwo[n]

CellBoxOfLayer(factor, no) == CellBox(Tiling(factor), CellSize(factor), CellSize(factor), no)

\* The tile's bitmap has at most the tile size, its rectangle the factor times
\* the size of its bitmap.
IsTile(t, factor) ==
  /\ t.rect \in IntRect
  /\ \E i, j \in 1 .. PyramidTileSize :
       /\ t.bitmap.w = i /\ t.bitmap.h = j
       /\ t.rect.w = i * factor /\ t.rect.h = j * factor

\* The tiles of the plane in work are of this layer or one below it, and those
\* of this layer are each in a cell of its own that is already done.
TilesOfPlaneInCells ==
  \A k \in DOMAIN written :
    written[k].coordinate = plane_coordinate =>
      /\ Scale(written[k]) <= minification_factor
      /\ Scale(written[k]) = minification_factor =>
           \E no \in 0 .. tile_no - 1 :
             Contains(CellBoxOfLayer(minification_factor, no), written[k].rect)

\* What the tiles are made from lies behind the start of the layer's tiling.
AreBehind(seq, factor) ==
  \A k \in DOMAIN seq : IsBehind(seq[k].rect, Tiling(factor))

TilesInv ==
  /\ \A k \in DOMAIN written :
       \E factor \in Nat \ {0} : IsLayerFactor(factor) /\ IsTile(written[k], factor)
  /\ TilesDisjoint
  /\ phase # "failed" =>
       \A k \in DOMAIN written :
         written[k].coordinate \in visited
         \/ (InLayer /\ written[k].coordinate = plane_coordinate)
  /\ InLayer =>
       /\ IsLayerFactor(minification_factor)
       /\ TilesOfPlaneInCells
       /\ AreBehind(next_layer_tiles, minification_factor)
       /\ phase = "upper" => AreBehind(tiles, minification_factor)

-----------------------------------------------------------------------------
\* A tile has the scale of its layer, and is no larger than the tile size.
LEMMA TileScale ==
  ASSUME NEW t, NEW factor \in Nat \ {0}, IsTile(t, factor)
  PROVE  /\ Scale(t) = factor
         /\ t.bitmap.w \in 1 .. PyramidTileSize /\ t.bitmap.h \in 1 .. PyramidTileSize
         /\ t.rect.w = factor * t.bitmap.w /\ t.rect.h = factor * t.bitmap.h
<1>1. PICK i \in 1 .. PyramidTileSize, j \in 1 .. PyramidTileSize :
         t.bitmap.w = i /\ t.bitmap.h = j /\ t.rect.w = i * factor /\ t.rect.h = j * factor
  BY DEF IsTile
<1>2. i \in Nat \ {0} /\ j \in Nat \ {0}
  BY DoPyramidizeAssumption
<1>3. i * factor = factor * i /\ j * factor = factor * j
  BY <1>2
<1>4. (factor * i) \div i = factor
  BY <1>2, QuotientOfMultiple
<1> QED BY <1>1, <1>3, <1>4 DEF Scale

\* The factor of a layer is positive and divides the range of the integers.
LEMMA LayerFactors ==
  ASSUME NEW factor, IsLayerFactor(factor)
  PROVE  factor \in Nat \ {0} /\ IsFactor(factor)
<1>1. PICK n \in 1 .. 30 : factor = PowerOfTwo[n]
  BY DEF IsLayerFactor
<1>2. n \in Nat /\ PowerOfTwo[n] \in Nat \ {0}
  BY PowerPositive
<1>3. IsFactor(PowerOfTwo[n])
  BY <1>1, <1>2, PowersAreFactors DEF IsLayerFactor
<1> QED BY <1>1, <1>2, <1>3

\* The tiling of a layer starts on the grid of the layer, and its cells have the
\* tile size times the factor.
LEMMA TilingOfLayer ==
  ASSUME NEW factor, IsLayerFactor(factor), factor * PyramidTileSize < UintModulus,
         IsStoredRect(rect)
  PROVE  /\ Tiling(factor) \in IntRect
         /\ IsMultiple(Tiling(factor).x, factor) /\ IsMultiple(Tiling(factor).y, factor)
         /\ IntMin <= Tiling(factor).x /\ Tiling(factor).x <= rect.x
         /\ IntMin <= Tiling(factor).y /\ Tiling(factor).y <= rect.y
         /\ CellSize(factor) = PyramidTileSize * factor
         /\ PyramidTileSize * factor < UintModulus
<1>1. factor \in Nat \ {0} /\ IsFactor(factor)
  BY LayerFactors
<1>2. rect \in IntRect
  BY DEF IsStoredRect
<1>3. Tiling(factor) \in IntRect
  BY <1>1, <1>2, EnlargeAndLatchType DEF Tiling
<1>4. Tiling(factor).x = Latch(rect.x, factor) /\ Tiling(factor).y = Latch(rect.y, factor)
  BY DEF Tiling, EnlargeAndLatch
<1>5. /\ rect.x \in Int /\ IntMin <= rect.x /\ rect.x <= IntMax
      /\ rect.y \in Int /\ IntMin <= rect.y /\ rect.y <= IntMax
  BY DEF IsStoredRect, IntRect
<1>6. /\ IsMultiple(Tiling(factor).x, factor) /\ IsMultiple(Tiling(factor).y, factor)
      /\ IntMin <= Tiling(factor).x /\ Tiling(factor).x <= rect.x
      /\ IntMin <= Tiling(factor).y /\ Tiling(factor).y <= rect.y
  BY <1>1, <1>4, <1>5, LatchInRange, LatchIsFloor
<1>7. factor * PyramidTileSize \in Nat /\ factor * PyramidTileSize = PyramidTileSize * factor
  BY <1>1, DoPyramidizeAssumption
<1>8. CellSize(factor) = PyramidTileSize * factor
  <2>1. PICK size \in Nat : size = factor * PyramidTileSize
    BY <1>7
  <2> QED BY <1>7, <2>1, UintAssumption DEF CellSize, ToUint
<1> QED BY <1>3, <1>6, <1>7, <1>8

\* What the layer above is made from lies behind the start of its tiling as well.
LEMMA TilingOfNextLayer ==
  ASSUME NEW factor, IsLayerFactor(factor), IsLayerFactor(2 * factor), IsStoredRect(rect),
         NEW t, IsBehind(t, Tiling(factor)), t.x \in Int, t.y \in Int
  PROVE  IsBehind(t, Tiling(2 * factor))
<1>1. /\ factor \in Nat \ {0} /\ IsFactor(factor)
      /\ 2 * factor \in Nat \ {0} /\ IsFactor(2 * factor)
  BY LayerFactors
<1>2. /\ rect.x \in Int /\ IntMin <= rect.x /\ rect.x <= IntMax
      /\ rect.y \in Int /\ IntMin <= rect.y /\ rect.y <= IntMax
  BY DEF IsStoredRect, IntRect
<1>3. ASSUME NEW v \in Int, IntMin <= v, v <= IntMax
      PROVE  /\ Latch(v, 2 * factor) <= Latch(v, factor)
             /\ Latch(v, 2 * factor) \in Int /\ Latch(v, factor) \in Int
  <2>1. /\ IsMultiple(Latch(v, 2 * factor), 2 * factor) /\ Latch(v, 2 * factor) \in Int
        /\ Latch(v, 2 * factor) <= v /\ Latch(v, factor) \in Int
    BY <1>1, <1>3, LatchInRange, LatchIsFloor
  <2>2. IsMultiple(Latch(v, 2 * factor), factor)
    <3>1. PICK k \in Int : Latch(v, 2 * factor) = k * (2 * factor)
      BY <2>1 DEF IsMultiple
    <3>2. k * (2 * factor) = (2 * k) * factor /\ 2 * k \in Int
      BY <1>1
    <3> QED BY <3>1, <3>2 DEF IsMultiple
  <2> QED BY <1>1, <1>3, <2>1, <2>2, LatchIsFloor
<1>4. /\ Tiling(factor).x = Latch(rect.x, factor) /\ Tiling(factor).y = Latch(rect.y, factor)
      /\ Tiling(2 * factor).x = Latch(rect.x, 2 * factor)
      /\ Tiling(2 * factor).y = Latch(rect.y, 2 * factor)
  BY DEF Tiling, EnlargeAndLatch
<1>5. /\ Tiling(2 * factor).x <= Tiling(factor).x /\ Tiling(2 * factor).x \in Int
      /\ Tiling(2 * factor).y <= Tiling(factor).y /\ Tiling(2 * factor).y \in Int
      /\ Tiling(factor).x \in Int /\ Tiling(factor).y \in Int
  BY <1>2, <1>3, <1>4
<1> QED BY <1>5 DEF IsBehind

-----------------------------------------------------------------------------
(* The tile of a cell.                                                     *)

\* What is known of a new tile, before it is written.
IsTileOfCell(tile) ==
  /\ IsTile(tile, minification_factor)
  /\ IsBehind(tile.rect, Tiling(minification_factor))
  /\ Contains(CellBoxOfLayer(minification_factor, tile_no), tile.rect)

\* While a plane is in work, its region is a stored rectangle, and the plane is
\* not among those done.
LEMMA PlaneInWork ==
  ASSUME LoopInv, InPlane
  PROVE  IsStoredRect(rect) /\ plane_coordinate \notin visited
<1>1. plane_coordinate \in Planes(bounds) /\ plane_coordinate \notin visited
  BY DocBounds, WalkIsFresh DEF LoopInv, InPlane, AtEnd, ReachablePlanes
<1> QED BY <1>1, RegionIsStored DEF LoopInv, InPlane

\* The tile's rectangle: within its cell, behind the start of the tiling, and
\* with sides that are multiples of the layer's factor.
LEMMA TileInCell ==
  ASSUME LoopInv, LayerInv, TilesInv, InLayer,
         tile_no < NumberOfCells(minification_factor),
         NEW below \in SUBSET IntRect,
         \A t \in below : IsBehind(t, Tiling(minification_factor)),
         NEW r \in MinimalTileLatched(below, minification_factor), IsNonEmpty(r)
  PROVE  /\ r \in IntRect /\ IsBehind(r, Tiling(minification_factor))
         /\ Contains(CellBoxOfLayer(minification_factor, tile_no), r)
         /\ \E i, j \in 1 .. PyramidTileSize :
              r.w = i * minification_factor /\ r.h = j * minification_factor
<1>1. PICK f : f = minification_factor
  OBVIOUS
<1>2. IsLayerFactor(f) /\ f * PyramidTileSize < UintModulus /\ IsStoredRect(rect)
  BY <1>1, PlaneInWork DEF TilesInv, LayerInv, InLayer, InPlane
<1>3. f \in Nat \ {0} /\ IsFactor(f)
  BY <1>2, LayerFactors
<1>4. PICK tiling \in IntRect : /\ tiling = Tiling(f)
                                /\ IsMultiple(tiling.x, f) /\ IsMultiple(tiling.y, f)
                                /\ IntMin <= tiling.x /\ IntMin <= tiling.y
  BY <1>2, TilingOfLayer
<1>5. PICK q \in Nat \ {0} : q = PyramidTileSize
  BY DoPyramidizeAssumption
<1>6. CellSize(f) = q * f /\ q * f < UintModulus
  BY <1>2, <1>5, TilingOfLayer
<1>7. tile_no \in Nat /\ tile_no < GetNumberOfTiles(tiling, q * f, q * f)
  BY <1>1, <1>4, <1>6 DEF LayerInv, NumberOfCells
<1>8. PICK minimal : /\ minimal = GetMinimalRectForRoi(below, Cell(f, tile_no))
                     /\ IsNonEmpty(minimal) /\ r = EnlargeAndLatch(minimal, f)
  BY <1>1 DEF MinimalTileLatched
<1>9. minimal = GetMinimalRectForRoi(below, GetRoi(tiling, q * f, q * f, tile_no))
  BY <1>4, <1>6, <1>8 DEF Cell
<1>10. \A t \in below : IsBehind(t, tiling)
  BY <1>1, <1>4
<1>11. /\ r \in IntRect /\ IsOnGrid(r, f) /\ IsBehind(r, tiling)
       /\ Contains(CellBox(tiling, q * f, q * f, tile_no), r)
  BY <1>3, <1>4, <1>6, <1>7, <1>8, <1>9, <1>10, TileOfCell
<1>12. PICK box \in IntRect : box = CellBox(tiling, q * f, q * f, tile_no)
  BY <1>3, <1>4, <1>7, CellBoxOnGrid
<1>13. box.w = q * f /\ box.h = q * f
  BY <1>12 DEF CellBox
<1>14. \E i, j \in 1 .. q : r.w = i * f /\ r.h = j * f
  BY <1>3, <1>11, <1>12, <1>13, SizeOnGrid
<1>15. CellBoxOfLayer(f, tile_no) = box
  BY <1>4, <1>6, <1>12 DEF CellBoxOfLayer
<1> QED BY <1>1, <1>4, <1>5, <1>11, <1>12, <1>14, <1>15

\* Halving a multiple of two gives the number of factors.
LEMMA HalfOfDouble ==
  ASSUME NEW i \in Nat
  PROVE  (i * 2) \div 2 = i
BY QuotientOfMultiple

\* A tile of the first layer has the size of the decimated region.
LEMMA Layer0TileOfCell ==
  ASSUME LoopInv, LayerInv, TilesInv, phase = "layer0",
         tile_no < NumberOfCells(2), NEW tile \in Layer0Tile
  PROVE  IsTileOfCell(tile)
<1> DEFINE below == {doc.subBlocks[b].rect : b \in GetSubBlockIndicesForPlane}
<1>1. minification_factor = 2 /\ InLayer /\ InPlane /\ IsLayerFactor(2)
  BY DEF LayerInv, InLayer, InPlane, TilesInv
<1>2. IsStoredRect(rect)
  BY <1>1, PlaneInWork
<1>3. 2 * PyramidTileSize < UintModulus
  BY <1>1 DEF LayerInv
<1>4. /\ Tiling(2).x <= rect.x /\ Tiling(2).y <= rect.y
      /\ Tiling(2).x \in Int /\ Tiling(2).y \in Int
  BY <1>1, <1>2, <1>3, TilingOfLayer DEF IntRect
<1>5. below \in SUBSET IntRect
  BY DoPyramidizeAssumption DEF LoopInv, IsDocument, IsStoredRect, GetSubBlockIndicesForPlane,
                                EnumSubset
<1>6. ASSUME NEW t \in below PROVE IsBehind(t, Tiling(2))
  <2>1. plane_coordinate \in Planes(bounds)
    BY <1>1, DocBounds, WalkIsFresh DEF LoopInv, InPlane, AtEnd, ReachablePlanes
  <2>2. GetSubBlockIndicesForPlane = Layer0Blocks(plane_coordinate)
    BY <1>1, <2>1, SubBlocksOfPlane DEF LoopInv, InPlane
  <2>3. PICK b \in Layer0Blocks(plane_coordinate) : t = doc.subBlocks[b].rect
    BY <2>2
  <2>4. IsStoredRect(t) /\ Contains(rect, t)
    BY <2>3, DoPyramidizeAssumption DEF LoopInv, IsDocument, Layer0Blocks, rect
  <2>5. t.x \in Int /\ t.y \in Int /\ rect.x \in Int /\ rect.y \in Int
    BY <1>2, <2>4 DEF IsStoredRect, IntRect
  <2> QED BY <1>4, <2>4, <2>5 DEF IsBehind, Contains, IsStoredRect
<1>7. PICK r \in MinimalTileLatched(below, 2) :
         r.w >= 2 /\ r.h >= 2 /\ tile = [rect |-> r, bitmap |-> GeneratePyramidTile(r)]
  BY DEF Layer0Tile
<1> HIDE DEF below
<1>8. r \in IntRect
  BY <1>1, <1>2, <1>5, TileHasRect
<1>9. IsNonEmpty(r)
  BY <1>7, <1>8 DEF IsNonEmpty, IntRect
<1>10. /\ r \in IntRect /\ IsBehind(r, Tiling(2)) /\ Contains(CellBoxOfLayer(2, tile_no), r)
       /\ \E i, j \in 1 .. PyramidTileSize : r.w = i * 2 /\ r.h = j * 2
  BY <1>1, <1>5, <1>6, <1>7, <1>9, TileInCell
<1>11. PICK i \in 1 .. PyramidTileSize, j \in 1 .. PyramidTileSize : r.w = i * 2 /\ r.h = j * 2
  BY <1>10
<1>12. i \in Nat /\ j \in Nat
  BY DoPyramidizeAssumption
<1>13. tile.bitmap.w = r.w \div 2 /\ tile.bitmap.h = r.h \div 2
  BY <1>7 DEF GeneratePyramidTile, Decimate, GetTile, GetTileOfScene, Draw
<1>14. tile.bitmap.w = i /\ tile.bitmap.h = j
  BY <1>11, <1>12, <1>13, HalfOfDouble
<1>15. tile.rect = r
  BY <1>7
<1>16. IsTile(tile, 2)
  BY <1>10, <1>11, <1>14, <1>15 DEF IsTile
<1> QED BY <1>1, <1>10, <1>15, <1>16 DEF IsTileOfCell

\* A tile of a layer above has the size of the decimated composition.
LEMMA UpperTileOfCell ==
  ASSUME LoopInv, LayerInv, TilesInv, phase = "upper",
         tile_no < NumberOfCells(minification_factor), NEW tile \in UpperTile
  PROVE  IsTileOfCell(tile)
<1> DEFINE below == {tiles[k].rect : k \in DOMAIN tiles}
<1>1. InLayer /\ InPlane /\ IsLayerFactor(minification_factor)
  BY DEF InLayer, InPlane, TilesInv
<1>2. IsStoredRect(rect)
  BY <1>1, PlaneInWork
<1>3. below \in SUBSET IntRect
  BY DEF LayerInv, HasRects
<1>4. \A t \in below : IsBehind(t, Tiling(minification_factor))
  BY <1>1 DEF TilesInv, AreBehind
<1>5. PICK r \in MinimalTileLatched(below, minification_factor) :
         /\ ~TooSmallForTile(r, minification_factor)
         /\ tile = [rect |-> r, bitmap |-> CreatePyramidTile(tiles, r, minification_factor)]
  BY DEF UpperTile
<1> HIDE DEF below
<1>6. r \in IntRect
  BY <1>2, <1>3, TileHasRect
<1>7. PICK n \in 1 .. 30 : minification_factor = PowerOfTwo[n]
  BY <1>1 DEF IsLayerFactor
<1>8. n - 1 \in Nat /\ (n - 1) + 1 = n
  OBVIOUS
<1>9. PICK g \in Nat \ {0} : minification_factor = g * 2
  <2>1. PowerOfTwo[n - 1] \in Nat \ {0} /\ PowerOfTwo[n] = 2 * PowerOfTwo[n - 1]
    BY <1>8, PowerPositive, PowerRecursion
  <2> QED BY <1>7, <2>1
<1>10. minification_factor \div 2 = g
  BY <1>9, HalfOfDouble
<1>11. ~(r.w \div g < 2) /\ ~(r.h \div g < 2)
  BY <1>5, <1>10 DEF TooSmallForTile, ScaleByPyramidLayerMinusOne
<1>12. IsNonEmpty(r)
  <2>1. ASSUME NEW v \in Int, v <= 0 PROVE v \div g < 2
    <3>1. PICK u \in Int : u = v \div g
      BY <1>9, DivMod
    <3>2. g * u <= v
      BY <1>9, <3>1, DivMod
    <3> SUFFICES ASSUME 1 <= u PROVE FALSE
      BY <3>1
    <3>3. g * 1 <= g * u
      BY <1>9
    <3>4. g * u \in Int
      BY <1>9
    <3> QED BY <1>9, <2>1, <3>2, <3>3, <3>4
  <2>2. r.w \in Int /\ r.h \in Int
    BY <1>6 DEF IntRect
  <2>3. ~(r.w <= 0) /\ ~(r.h <= 0)
    BY <1>11, <2>1, <2>2
  <2> QED BY <2>2, <2>3 DEF IsNonEmpty
<1>13. /\ IsBehind(r, Tiling(minification_factor))
       /\ Contains(CellBoxOfLayer(minification_factor, tile_no), r)
       /\ \E i, j \in 1 .. PyramidTileSize :
            r.w = i * minification_factor /\ r.h = j * minification_factor
  BY <1>1, <1>3, <1>4, <1>5, <1>12, TileInCell
<1>14. PICK i \in 1 .. PyramidTileSize, j \in 1 .. PyramidTileSize :
         r.w = i * minification_factor /\ r.h = j * minification_factor
  BY <1>13
<1>15. i \in Nat /\ j \in Nat
  BY DoPyramidizeAssumption
<1>16. /\ tile.bitmap.w = (r.w \div g) \div 2
       /\ tile.bitmap.h = (r.h \div g) \div 2
  BY <1>5, <1>10 DEF CreatePyramidTile, Decimate, Compose, ScaleByPyramidLayerMinusOne
<1>17. r.w \div g = i * 2 /\ r.h \div g = j * 2
  <2>1. r.w = (i * 2) * g /\ r.h = (j * 2) * g
    BY <1>9, <1>14, <1>15
  <2>2. i * 2 \in Int /\ j * 2 \in Int
    BY <1>15
  <2> QED BY <1>9, <2>1, <2>2, QuotientOfMultiple
<1>18. tile.bitmap.w = i /\ tile.bitmap.h = j
  BY <1>15, <1>16, <1>17, HalfOfDouble
<1>19. tile.rect = r
  BY <1>5
<1>20. IsTile(tile, minification_factor)
  BY <1>6, <1>14, <1>18, <1>19 DEF IsTile
<1> QED BY <1>13, <1>19, <1>20 DEF IsTileOfCell

-----------------------------------------------------------------------------
(* The steps.                                                              *)

\* The elements of a sequence with one more.
LEMMA AppendElements ==
  ASSUME NEW seq, HasRects(seq), NEW e
  PROVE  LET last == Len(seq) + 1
         IN  /\ DOMAIN Append(seq, e) = DOMAIN seq \cup {last}
             /\ last \notin DOMAIN seq
             /\ Append(seq, e)[last] = e
             /\ \A k \in DOMAIN seq : Append(seq, e)[k] = seq[k]
<1>1. PICK S : seq \in Seq(S)
  BY DEF HasRects
<1>2. e \in S \cup {e} /\ seq \in Seq(S \cup {e})
  BY <1>1
<1> QED BY <1>2

\* The tiling is the same as long as the plane is.
LEMMA SameTiling ==
  ASSUME UNCHANGED <<doc, plane_coordinate>>, NEW factor, NEW no
  PROVE  /\ Tiling(factor)' = Tiling(factor)
         /\ CellBoxOfLayer(factor, no)' = CellBoxOfLayer(factor, no)
<1>1. Tiling(factor)' = Tiling(factor)
  BY DEF Tiling, rect
<1> QED BY <1>1 DEF CellBoxOfLayer, CellSize

\* A layer on top of a needed one has a factor that a signed integer holds.
LEMMA NeededFactor ==
  ASSUME NEW n \in Nat, NEW factor, factor = PowerOfTwo[n],
         IsStoredRect(rect), IsAdditionalLayerNeeded(factor)
  PROVE  IsLayerFactor(2 * factor)
<1>1. factor \in Nat \ {0} /\ PowerOfTwo[n + 1] = 2 * factor
  BY PowerPositive, PowerRecursion
<1>2. PICK size \in {rect.w, rect.h} : size \div factor > PyramidTileSize
  BY DEF IsAdditionalLayerNeeded, IsAbovePyramidThreshold
<1>3. size \in Int /\ size <= IntMax /\ IntMax \in Int
  BY UintAssumption DEF IsStoredRect, IntRect, IntMax
<1>4. PICK q \in Int : q = size \div factor
  BY <1>1, <1>3, DivMod
<1>5. factor * q <= size
  BY <1>1, <1>3, <1>4, DivMod
<1>6. factor * 2 <= factor * q
  <2>1. 2 <= q
    BY <1>2, <1>4, DoPyramidizeAssumption
  <2> QED BY <1>1, <2>1
<1>7. factor * q \in Int
  BY <1>1
<1>8. 2 * factor <= IntMax
  BY <1>1, <1>3, <1>5, <1>6, <1>7
<1>9. n + 1 \in 1 .. 30
  <2>1. n + 1 \in Nat
    OBVIOUS
  <2>2. n + 1 <= 30
    BY <1>1, <1>8, <2>1, PowersAreFactors
  <2> QED BY <2>1, <2>2
<1> QED BY <1>1, <1>8, <1>9 DEF IsLayerFactor

\* A step that leaves or is outside of the layers, and writes nothing.
LEMMA OutsideLayers ==
  ASSUME TilesInv, UNCHANGED written, ~InLayer',
         phase' # "failed" =>
           /\ phase # "failed" /\ visited \subseteq visited'
           /\ InLayer => plane_coordinate \in visited'
  PROVE  TilesInv'
<1>1. TilesDisjoint'
  BY DEF TilesInv, TilesDisjoint
<1>2. phase' # "failed" => \A k \in DOMAIN written' : written'[k].coordinate \in visited'
  BY DEF TilesInv
<1> QED BY <1>1, <1>2 DEF TilesInv

\* A plane gets its first layer: none of its tiles has been written.
LEMMA FirstLayer ==
  ASSUME LoopInv, TilesInv, phase = "copy", IsAdditionalLayerNeeded(1),
         UNCHANGED <<doc, plane_coordinate, visited, written>>,
         phase' = "layer0", minification_factor' = 2, tile_no' = 0, next_layer_tiles' = <<>>
  PROVE  TilesInv'
<1>1. IsStoredRect(rect) /\ plane_coordinate \notin visited
  BY PlaneInWork DEF InPlane
<1>2. IsLayerFactor(2)
  <2>1. IsLayerFactor(2 * 1)
    BY <1>1, PowerRecursion, NeededFactor
  <2> QED BY <2>1
<1>3. \A k \in DOMAIN written : written[k].coordinate \in visited
  BY DEF TilesInv, InLayer
<1>4. TilesOfPlaneInCells'
  BY <1>1, <1>3 DEF TilesOfPlaneInCells
<1>5. AreBehind(next_layer_tiles, minification_factor)'
  BY DEF AreBehind
<1>6. TilesDisjoint'
  BY DEF TilesInv, TilesDisjoint
<1> QED BY <1>2, <1>3, <1>4, <1>5, <1>6 DEF TilesInv

\* The tiles move on to the next layer: none of it has been written.
LEMMA UpperLayer ==
  ASSUME LoopInv, LayerInv, TilesInv, InLayer, IsAdditionalLayerNeeded(minification_factor),
         UNCHANGED <<doc, plane_coordinate, visited, written>>,
         phase' = "upper", minification_factor' = 2 * minification_factor,
         tile_no' = 0, tiles' = next_layer_tiles, next_layer_tiles' = <<>>
  PROVE  TilesInv'
<1>1. IsStoredRect(rect) /\ IsLayerFactor(minification_factor)
  BY PlaneInWork DEF InPlane, InLayer, TilesInv
<1>2. PICK f \in Nat \ {0} : f = minification_factor
  BY <1>1, LayerFactors
<1>3. IsLayerFactor(2 * f) /\ IsLayerFactor(f)
  <2>1. PICK n \in 1 .. 30 : minification_factor = PowerOfTwo[n]
    BY <1>1 DEF IsLayerFactor
  <2>2. n \in Nat
    OBVIOUS
  <2> QED BY <1>1, <1>2, <2>1, <2>2, NeededFactor
<1>4. TilesOfPlaneInCells'
  <2> SUFFICES ASSUME NEW k \in DOMAIN written, written[k].coordinate = plane_coordinate
               PROVE  Scale(written[k]) <= 2 * f /\ Scale(written[k]) # 2 * f
    BY <1>2 DEF TilesOfPlaneInCells
  <2>1. Scale(written[k]) <= f
    BY <1>2 DEF TilesInv, TilesOfPlaneInCells
  <2>2. Scale(written[k]) \in Nat
    <3>1. PICK factor \in Nat \ {0} : IsTile(written[k], factor)
      BY DEF TilesInv
    <3> QED BY <3>1, TileScale
  <2> QED BY <2>1, <2>2
<1>5. ASSUME NEW k \in DOMAIN next_layer_tiles
      PROVE  IsBehind(next_layer_tiles[k].rect, Tiling(2 * f))
  <2>1. next_layer_tiles[k].rect \in IntRect
    BY DEF LayerInv, HasRects
  <2>2. IsBehind(next_layer_tiles[k].rect, Tiling(f))
    BY <1>2 DEF TilesInv, AreBehind
  <2>3. next_layer_tiles[k].rect.x \in Int /\ next_layer_tiles[k].rect.y \in Int
    BY <2>1 DEF IntRect
  <2> QED BY <1>1, <1>2, <1>3, <2>2, <2>3, TilingOfNextLayer
<1>6. Tiling(2 * f)' = Tiling(2 * f)
  BY SameTiling
<1>7. AreBehind(tiles, minification_factor)'
  BY <1>2, <1>5, <1>6 DEF AreBehind
<1>8. AreBehind(next_layer_tiles, minification_factor)'
  BY DEF AreBehind
<1>9. TilesDisjoint'
  BY DEF TilesInv, TilesDisjoint
<1> QED BY <1>2, <1>3, <1>4, <1>7, <1>8, <1>9 DEF TilesInv, InLayer

\* A cell is done without a tile, or nothing happens at all.
LEMMA CellWithoutTile ==
  ASSUME LayerInv, TilesInv, tile_no' \in {tile_no, tile_no + 1},
         UNCHANGED <<doc, phase, loop, minification_factor, tiles, next_layer_tiles, written>>
  PROVE  TilesInv'
<1> USE DEF loop
<1>1. PICK f : f = minification_factor
  OBVIOUS
<1>2. InLayer => TilesOfPlaneInCells'
  <2> SUFFICES ASSUME InLayer, NEW k \in DOMAIN written,
                      written[k].coordinate = plane_coordinate
               PROVE  /\ Scale(written[k]) <= f
                      /\ Scale(written[k]) = f =>
                           \E no \in 0 .. tile_no' - 1 :
                             Contains(CellBoxOfLayer(f, no)', written[k].rect)
    BY <1>1 DEF TilesOfPlaneInCells
  <2>1. Scale(written[k]) <= f
    BY <1>1 DEF TilesInv, TilesOfPlaneInCells
  <2>2. ASSUME Scale(written[k]) = f
        PROVE  \E no \in 0 .. tile_no' - 1 : Contains(CellBoxOfLayer(f, no)', written[k].rect)
    <3>1. PICK no \in 0 .. tile_no - 1 : Contains(CellBoxOfLayer(f, no), written[k].rect)
      BY <1>1, <2>2 DEF TilesInv, TilesOfPlaneInCells
    <3>2. no \in 0 .. tile_no' - 1
      <4>1. tile_no \in Nat /\ (tile_no' = tile_no \/ tile_no' = tile_no + 1)
        BY DEF LayerInv
      <4>2. CASE tile_no' = tile_no
        BY <3>1, <4>2
      <4>3. CASE tile_no' = tile_no + 1
        BY <4>1, <4>3
      <4> QED BY <4>1, <4>2, <4>3
    <3>3. CellBoxOfLayer(f, no)' = CellBoxOfLayer(f, no)
      BY SameTiling
    <3> QED BY <3>1, <3>2, <3>3
  <2> QED BY <2>1, <2>2
<1>3. Tiling(f)' = Tiling(f)
  BY SameTiling
<1>4. InLayer => /\ AreBehind(next_layer_tiles, minification_factor)'
                 /\ phase = "upper" => AreBehind(tiles, minification_factor)'
  BY <1>1, <1>3 DEF TilesInv, AreBehind
<1>5. TilesDisjoint'
  BY DEF TilesInv, TilesDisjoint
<1> QED BY <1>2, <1>4, <1>5 DEF TilesInv, InLayer

\* A cell is done with a tile: the tile is in a cell of its own, and no tile of
\* another layer has its scale.
LEMMA CellWithTile ==
  ASSUME LoopInv, LayerInv, TilesInv, InLayer, tile_no < NumberOfCells(minification_factor),
         NEW tile, IsTileOfCell(tile), OutputTile(tile), tile_no' = tile_no + 1,
         UNCHANGED <<doc, phase, loop, minification_factor, tiles>>
  PROVE  TilesInv'
<1> USE DEF loop
<1> DEFINE new == [coordinate |-> plane_coordinate, rect |-> tile.rect, bitmap |-> tile.bitmap]
<1>1. PICK f \in Nat \ {0} : f = minification_factor /\ IsLayerFactor(f)
  BY LayerFactors DEF TilesInv
<1>2. PICK last : /\ DOMAIN written' = DOMAIN written \cup {last}
                  /\ last \notin DOMAIN written /\ written'[last] = new
                  /\ \A k \in DOMAIN written : written'[k] = written[k]
  BY AppendElements DEF LayerInv, OutputTile
<1>3. /\ new.coordinate = plane_coordinate /\ new.rect = tile.rect
      /\ IsTile(new, f) /\ Scale(new) = f /\ new.rect \in IntRect
  <2>1. IsTile(new, f)
    BY <1>1 DEF IsTileOfCell, IsTile
  <2> QED BY <2>1, TileScale DEF IsTile
<1> HIDE DEF new
<1>4. Contains(CellBoxOfLayer(f, tile_no), new.rect)
  BY <1>1, <1>3 DEF IsTileOfCell
<1>5. ASSUME NEW k \in DOMAIN written,
             written[k].coordinate = plane_coordinate, Scale(written[k]) = f
      PROVE  /\ ~IsNonEmpty(Intersect(written[k].rect, new.rect))
             /\ ~IsNonEmpty(Intersect(new.rect, written[k].rect))
  <2>1. PICK no \in 0 .. tile_no - 1 : Contains(CellBoxOfLayer(f, no), written[k].rect)
    BY <1>1, <1>5 DEF TilesInv, TilesOfPlaneInCells
  <2>2. tile_no \in Nat /\ no \in Nat /\ no # tile_no
    BY DEF LayerInv
  <2>3. IsStoredRect(rect) /\ f * PyramidTileSize < UintModulus
    BY <1>1, PlaneInWork DEF LayerInv, InLayer, InPlane
  <2>4. PICK size : size = CellSize(f)
    OBVIOUS
  <2>5. Tiling(f) \in IntRect /\ size \in Nat \ {0}
    <3>1. Tiling(f) \in IntRect /\ size = PyramidTileSize * f
      BY <1>1, <2>3, <2>4, TilingOfLayer
    <3> QED BY <3>1, DoPyramidizeAssumption
  <2>6. TilesPerRow(Tiling(f), size) \in Nat \ {0}
    <3>1. tile_no < GetNumberOfTiles(Tiling(f), size, size)
      BY <1>1, <2>4 DEF NumberOfCells
    <3> QED BY <2>2, <2>5, <3>1, CellRowAndColumn
  <2>7. written[k].rect \in IntRect
    BY DEF TilesInv, IsTile
  <2>8. /\ Contains(CellBox(Tiling(f), size, size, no), written[k].rect)
        /\ Contains(CellBox(Tiling(f), size, size, tile_no), new.rect)
    BY <1>4, <2>1, <2>4 DEF CellBoxOfLayer
  <2> QED BY <1>3, <2>2, <2>5, <2>6, <2>7, <2>8, CellsAreDisjoint
<1>6. TilesDisjoint'
  <2> SUFFICES ASSUME NEW k \in DOMAIN written', NEW l \in DOMAIN written', k # l,
                      written'[k].coordinate = written'[l].coordinate,
                      Scale(written'[k]) = Scale(written'[l])
               PROVE  ~IsNonEmpty(Intersect(written'[k].rect, written'[l].rect))
    BY DEF TilesDisjoint
  <2>1. CASE k \in DOMAIN written /\ l \in DOMAIN written
    BY <1>2, <2>1 DEF TilesInv, TilesDisjoint
  <2>2. CASE k \in DOMAIN written /\ l = last
    BY <1>2, <1>3, <1>5, <2>2
  <2>3. CASE k = last /\ l \in DOMAIN written
    BY <1>2, <1>3, <1>5, <2>3
  <2> QED BY <1>2, <2>1, <2>2, <2>3
<1>7. TilesOfPlaneInCells'
  <2> SUFFICES ASSUME NEW k \in DOMAIN written', written'[k].coordinate = plane_coordinate
               PROVE  /\ Scale(written'[k]) <= f
                      /\ Scale(written'[k]) = f =>
                           \E no \in 0 .. tile_no' - 1 :
                             Contains(CellBoxOfLayer(f, no)', written'[k].rect)
    BY <1>1 DEF TilesOfPlaneInCells
  <2>1. CASE k \in DOMAIN written
    <3>1. written'[k] = written[k] /\ Scale(written[k]) <= f
      BY <1>1, <1>2, <2>1 DEF TilesInv, TilesOfPlaneInCells
    <3>2. ASSUME Scale(written[k]) = f
          PROVE  \E no \in 0 .. tile_no' - 1 :
                   Contains(CellBoxOfLayer(f, no)', written[k].rect)
      <4>1. PICK no \in 0 .. tile_no - 1 : Contains(CellBoxOfLayer(f, no), written[k].rect)
        BY <1>1, <2>1, <3>1, <3>2 DEF TilesInv, TilesOfPlaneInCells
      <4>2. no \in 0 .. tile_no' - 1
        BY DEF LayerInv
      <4>3. CellBoxOfLayer(f, no)' = CellBoxOfLayer(f, no)
        BY SameTiling
      <4> QED BY <4>1, <4>2, <4>3
    <3> QED BY <3>1, <3>2
  <2>2. CASE k = last
    <3>1. PICK no : no = tile_no
      OBVIOUS
    <3>2. no \in 0 .. tile_no' - 1
      BY <3>1 DEF LayerInv
    <3>3. CellBoxOfLayer(f, no)' = CellBoxOfLayer(f, no)
      BY SameTiling
    <3> QED BY <1>2, <1>3, <1>4, <2>2, <3>1, <3>2, <3>3
  <2> QED BY <1>2, <2>1, <2>2
<1>8. Tiling(f)' = Tiling(f)
  BY SameTiling
<1>9. AreBehind(next_layer_tiles, minification_factor)'
  <2>1. PICK next : /\ DOMAIN next_layer_tiles' = DOMAIN next_layer_tiles \cup {next}
                    /\ next_layer_tiles'[next] = tile
                    /\ \A k \in DOMAIN next_layer_tiles :
                         next_layer_tiles'[k] = next_layer_tiles[k]
    BY AppendElements DEF LayerInv, OutputTile
  <2>2. ASSUME NEW k \in DOMAIN next_layer_tiles
        PROVE  IsBehind(next_layer_tiles[k].rect, Tiling(f))
    BY <1>1 DEF TilesInv, AreBehind
  <2>3. IsBehind(tile.rect, Tiling(f))
    BY <1>1 DEF IsTileOfCell
  <2> QED BY <1>1, <1>8, <2>1, <2>2, <2>3 DEF AreBehind
<1>10. phase = "upper" => AreBehind(tiles, minification_factor)'
  BY <1>1, <1>8 DEF TilesInv, AreBehind
<1>11. \A k \in DOMAIN written' :
         \E factor \in Nat \ {0} : IsLayerFactor(factor) /\ IsTile(written'[k], factor)
  BY <1>1, <1>2, <1>3 DEF TilesInv
<1>12. phase' # "failed" =>
         \A k \in DOMAIN written' :
           \/ written'[k].coordinate \in visited'
           \/ InLayer' /\ written'[k].coordinate = plane_coordinate'
  BY <1>2, <1>3 DEF TilesInv, InLayer
<1>13. IsLayerFactor(minification_factor)'
  BY <1>1
<1> QED BY <1>6, <1>7, <1>9, <1>10, <1>11, <1>12, <1>13 DEF TilesInv

\* Nothing is written at first.
LEMMA InitTiles == Init => TilesInv
BY DEF Init, TilesInv, TilesDisjoint, InLayer

\* Every step keeps the invariant of the tiles.
LEMMA NextTiles == LoopInv /\ CopyInv /\ LayerInv /\ TilesInv /\ [Next]_vars => TilesInv'
<1> SUFFICES ASSUME LoopInv, CopyInv, LayerInv, TilesInv, [Next]_vars PROVE TilesInv'
  OBVIOUS
<1> USE DEF loop, region
<1>1. CASE Construct
  <2>1. UNCHANGED <<written, visited>> /\ phase = "construct" /\ phase' \in {"plane", "failed"}
    BY <1>1 DEF Construct
  <2> QED BY <2>1, OutsideLayers DEF InLayer
<1>2. CASE EnterPlane
  <2>1. UNCHANGED <<written, visited>> /\ phase = "plane" /\ phase' = "copy"
    BY <1>2 DEF EnterPlane
  <2> QED BY <2>1, OutsideLayers DEF InLayer
<1>3. ASSUME NEW b \in sub_blocks_of_plane, CopySubBlock(b) PROVE TilesInv'
  <2>1. UNCHANGED <<written, visited, phase>> /\ phase = "copy"
    BY <1>3 DEF CopySubBlock
  <2> QED BY <2>1, OutsideLayers DEF InLayer
<1>4. CASE CopyDone
  <2>1. CASE IsAdditionalLayerNeeded(1)
    BY <1>4, <2>1, FirstLayer DEF CopyDone
  <2>2. CASE ~IsAdditionalLayerNeeded(1)
    <3>1. /\ UNCHANGED written /\ phase = "copy" /\ phase' = "plane"
          /\ visited' = visited \cup {plane_coordinate}
      BY <1>4, <2>2 DEF CopyDone, LeavePlane
    <3> QED BY <3>1, OutsideLayers DEF InLayer
  <2> QED BY <2>1, <2>2
<1>5. CASE Layer0Cell
  <2>1. /\ phase = "layer0" /\ InLayer /\ minification_factor = 2
        /\ tile_no < NumberOfCells(2)
        /\ tile_no' = tile_no + 1
        /\ UNCHANGED <<doc, phase, loop, minification_factor, tiles>>
    BY <1>5 DEF LayerInv, Layer0Cell, InLayer
  <2>2. CASE Layer0Tile = {}
    BY <1>5, <2>1, <2>2, CellWithoutTile DEF Layer0Cell
  <2>3. CASE Layer0Tile # {}
    <3>1. PICK tile \in Layer0Tile : OutputTile(tile)
      BY <1>5, <2>3 DEF Layer0Cell
    <3>2. IsTileOfCell(tile)
      BY <2>1, Layer0TileOfCell
    <3> QED BY <2>1, <3>1, <3>2, CellWithTile
  <2> QED BY <2>2, <2>3
<1>6. CASE UpperCell
  <2>1. /\ phase = "upper" /\ InLayer
        /\ tile_no < NumberOfCells(minification_factor)
        /\ tile_no' = tile_no + 1
        /\ UNCHANGED <<doc, phase, loop, minification_factor, tiles>>
    BY <1>6 DEF UpperCell, InLayer
  <2>2. CASE UpperTile = {}
    BY <1>6, <2>1, <2>2, CellWithoutTile DEF UpperCell
  <2>3. CASE UpperTile # {}
    <3>1. PICK tile \in UpperTile : OutputTile(tile)
      BY <1>6, <2>3 DEF UpperCell
    <3>2. IsTileOfCell(tile)
      BY <2>1, UpperTileOfCell
    <3> QED BY <2>1, <3>1, <3>2, CellWithTile
  <2> QED BY <2>2, <2>3
<1>7. CASE LayerDone
  <2>1. InLayer /\ UNCHANGED <<doc, written>>
    BY <1>7 DEF LayerDone, InLayer
  <2>2. CASE next_layer_tiles # <<>> /\ IsAdditionalLayerNeeded(minification_factor)
    <3>1. IsStoredRect(rect) /\ minification_factor \in Nat \ {0}
      BY <2>1, PlaneInWork DEF LayerInv, InLayer, InPlane
    <3>2. ToUint(2 * minification_factor) = 2 * minification_factor
      BY <2>2, <3>1, NeededLayerFits
    <3>3. /\ phase' = "upper" /\ minification_factor' = 2 * minification_factor
          /\ tile_no' = 0 /\ tiles' = next_layer_tiles /\ next_layer_tiles' = <<>>
          /\ UNCHANGED <<plane_coordinate, visited>>
      BY <1>7, <2>2, <3>2 DEF LayerDone
    <3> QED BY <2>1, <2>2, <3>3, UpperLayer
  <2>3. CASE ~(next_layer_tiles # <<>> /\ IsAdditionalLayerNeeded(minification_factor))
    <3>1. phase' = "plane" /\ visited' = visited \cup {plane_coordinate}
      BY <1>7, <2>3 DEF LayerDone, LeavePlane
    <3> QED BY <2>1, <3>1, OutsideLayers DEF InLayer
  <2> QED BY <2>2, <2>3
<1>8. CASE Throw
  <2>1. UNCHANGED written /\ phase' = "failed"
    BY <1>8 DEF Throw
  <2> QED BY <2>1, OutsideLayers DEF InLayer
<1>9. CASE Return
  <2>1. UNCHANGED <<written, visited>> /\ phase = "plane" /\ phase' = "done"
    BY <1>9 DEF Return
  <2> QED BY <2>1, OutsideLayers DEF InLayer
<1>10. CASE UNCHANGED vars
  BY <1>10, CellWithoutTile DEF vars
<1> QED BY <1>1, <1>2, <1>3, <1>4, <1>5, <1>6, <1>7, <1>8, <1>9, <1>10 DEF Next, Progress

\* The invariant of the tiles holds in every reachable state.
LEMMA TilesInvariant == Spec => []TilesInv
<1>1. Init => LoopInv /\ CopyInv /\ LayerInv /\ TilesInv
  BY InitLoop, InitCopy, InitLayer, InitTiles
<1>2. LoopInv /\ CopyInv /\ LayerInv /\ TilesInv /\ [Next]_vars
        => (LoopInv /\ CopyInv /\ LayerInv /\ TilesInv)'
  BY NextLoop, NextCopy, NextLayer, NextTiles
<1> QED BY <1>1, <1>2, PTL DEF Spec, Safety

\* Tiles of one plane and one layer never overlap, for all documents, tile sizes
\* and integer widths.
THEOREM TilesNeverOverlap == Spec => []TilesDisjoint
<1>1. TilesInv => TilesDisjoint
  BY DEF TilesInv
<1> QED BY <1>1, TilesInvariant, PTL

\* Every tile has at most the tile size, and its rectangle is its bitmap's size
\* times a power of two, for all documents, tile sizes and integer widths.
THEOREM TilesHaveScale == Spec => []TilesScaled
<1>1. TilesInv => TilesScaled
  <2> SUFFICES ASSUME TilesInv, NEW k \in DOMAIN written
               PROVE  LET t == written[k]
                      IN  /\ t.bitmap.w \in 1 .. PyramidTileSize
                          /\ t.bitmap.h \in 1 .. PyramidTileSize
                          /\ t.rect.w = Scale(t) * t.bitmap.w
                          /\ t.rect.h = Scale(t) * t.bitmap.h
                          /\ \E n \in 1 .. 30 : Scale(t) = PowerOfTwo[n]
    BY DEF TilesScaled, WrittenTiles
  <2>1. PICK factor \in Nat \ {0} : IsLayerFactor(factor) /\ IsTile(written[k], factor)
    BY DEF TilesInv
  <2> QED BY <2>1, TileScale DEF IsLayerFactor
<1> QED BY <1>1, TilesInvariant, PTL
=============================================================================
