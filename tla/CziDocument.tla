----------------------------- MODULE CziDocument -----------------------------
(***************************************************************************)
(* The source document as the pyramidizer sees it through libCZI           *)
(* (ISubBlockRepository and ISingleChannelTileAccessor): external code,    *)
(* modelled from how do_pyramidize.cpp calls it.                           *)
(*                                                                         *)
(* A document is a record [subBlocks, statistics]; subBlocks is a function *)
(* from sub-block indices to records [coordinate, rect, mIndex, layer0].   *)
(***************************************************************************)
EXTENDS Bitmaps, PlaneCoordinates

IsDocument(doc) ==
  /\ IsBounds(doc.statistics.dimBounds)
  /\ IsStoredRect(doc.statistics.boundingBoxLayer0Only)
  /\ \A s \in DOMAIN doc.statistics.sceneBoundingBoxes :
       IsStoredRect(doc.statistics.sceneBoundingBoxes[s])
  /\ \A b \in DOMAIN doc.subBlocks :
       LET subBlock == doc.subBlocks[b]
       IN  /\ subBlock.coordinate \in Planes(doc.statistics.dimBounds)
           /\ IsStoredRect(subBlock.rect) /\ IsNonEmpty(subBlock.rect)
           /\ subBlock.layer0 \in BOOLEAN
           /\ subBlock.layer0 =>
                Contains(RegionRect(doc.statistics, subBlock.coordinate), subBlock.rect)

\* A plane coordinate selects the sub-blocks that agree with it on the
\* dimensions both have.
Selects(plane_coordinate, coordinate) ==
  \A d \in DOMAIN plane_coordinate \cap DOMAIN coordinate :
     plane_coordinate[d] = coordinate[d]

\* Mutant: EnumSubset with onlyLayer0 = false.
EnumSubsetOfAllLayers(doc, plane_coordinate, roi) ==
  {b \in DOMAIN doc.subBlocks :
     /\ Selects(plane_coordinate, doc.subBlocks[b].coordinate)
     /\ IsNonEmpty(Intersect(doc.subBlocks[b].rect, roi))}

\* ISubBlockRepository::EnumSubset with onlyLayer0 = true.
EnumSubset(doc, plane_coordinate, roi) ==
  {b \in DOMAIN doc.subBlocks :
     /\ doc.subBlocks[b].layer0
     /\ Selects(plane_coordinate, doc.subBlocks[b].coordinate)
     /\ IsNonEmpty(Intersect(doc.subBlocks[b].rect, roi))}

\* The value of pixel (x, y) where the given sub-blocks are drawn over the
\* background in the order of their M-index.
MosaicPixel(doc, blocks, x, y) ==
  LET covering == {b \in blocks : InRect(doc.subBlocks[b].rect, x, y)}
  IN  IF covering = {} THEN Background
      ELSE CHOOSE b \in covering :
             \A c \in covering : doc.subBlocks[c].mIndex <= doc.subBlocks[b].mIndex

\* ISingleChannelTileAccessor::Get on the sub-blocks that may be drawn.
Draw(doc, roi, blocks) ==
  [w |-> roi.w, h |-> roi.h,
   pixel |-> [i \in 0 .. roi.w - 1 |-> [j \in 0 .. roi.h - 1 |->
     MosaicPixel(doc, blocks, roi.x + i, roi.y + j)]]]

GetTile(doc, roi, plane_coordinate) ==
  Draw(doc, roi, EnumSubset(doc, plane_coordinate, roi))

\* The same with a scene filter that contains the one index s_index.
GetTileOfScene(doc, roi, plane_coordinate, s_index) ==
  Draw(doc, roi, {b \in EnumSubset(doc, plane_coordinate, roi) :
                    /\ ContainsSceneIndex(doc.subBlocks[b].coordinate)
                    /\ doc.subBlocks[b].coordinate["S"] = s_index})

-----------------------------------------------------------------------------
\* ISubBlockRepository::GetStatistics, the fields the pyramidizer reads.
StatisticsOf(subBlocks) ==
  LET Positions(d) == {subBlocks[b].coordinate[d] :
                         b \in {c \in DOMAIN subBlocks : d \in DOMAIN subBlocks[c].coordinate}}
      Low(S)  == CHOOSE v \in S : \A u \in S : v <= u
      High(S) == CHOOSE v \in S : \A u \in S : v >= u
      Box(blocks) == BoundingBox({subBlocks[b].rect : b \in {c \in blocks : subBlocks[c].layer0}})
      OfScene(s) == {b \in DOMAIN subBlocks :
                       "S" \in DOMAIN subBlocks[b].coordinate /\ subBlocks[b].coordinate["S"] = s}
  IN  [dimBounds |->
         [d \in UNION {DOMAIN subBlocks[b].coordinate : b \in DOMAIN subBlocks} |->
            [start |-> Low(Positions(d)), size |-> 1 + High(Positions(d)) - Low(Positions(d))]],
       sceneBoundingBoxes |-> [s \in Positions("S") |-> Box(OfScene(s))],
       boundingBoxLayer0Only |-> Box(DOMAIN subBlocks)]
=============================================================================
