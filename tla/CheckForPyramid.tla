---------------------------- MODULE CheckForPyramid ----------------------------
(***************************************************************************)
(* CheckForPyramid: does a document need a pyramid it does not have?       *)
(*                                                                         *)
(* The statistics are those of CziDocument.  The pyramid statistics are a  *)
(* function from scene indices (IntMax in a document without scenes) to    *)
(* sets of layers [layer, count]; layer 0 is the document itself.          *)
(***************************************************************************)
EXTENDS CziDocument, FiniteSets

IsRectangleAboveThreshold(rectangle, threshold) ==
  rectangle.w > threshold \/ rectangle.h > threshold

\* libCZI's rectangle of a scene that has no sub-block in layer 0 is (-1, -1);
\* gsl::narrow<uint32_t> throws for it.
IsUnknown(rectangle) == rectangle.w < 0 \/ rectangle.h < 0

CheckOverallBoundingBoxForNecessityOfPyramid(statistics, threshold) ==
  IsRectangleAboveThreshold(statistics.boundingBoxLayer0Only, threshold)

ScenesAboveThreshold(statistics, threshold) ==
  {s \in DOMAIN statistics.sceneBoundingBoxes :
     IsRectangleAboveThreshold(statistics.sceneBoundingBoxes[s], threshold)}

HasScenes(statistics) == DOMAIN statistics.sceneBoundingBoxes # {}

DoesContainPyramidLayer(layers) == \E l \in layers : l.layer # 0 /\ l.count > 0

\* Mutant: one region with a pyramid is enough.
IsPyramidPresentSomewhere(statistics, pyramidStatistics, threshold) ==
  \E s \in DOMAIN pyramidStatistics : DoesContainPyramidLayer(pyramidStatistics[s])

\* Every region above the threshold has some pyramid layer.
CheckIfPyramidIsPresent(statistics, pyramidStatistics, threshold) ==
  LET Regions ==
        IF HasScenes(statistics) THEN ScenesAboveThreshold(statistics, threshold)
        ELSE {s \in {IntMax} : CheckOverallBoundingBoxForNecessityOfPyramid(statistics, threshold)}
  IN  \A s \in Regions :
        s \in DOMAIN pyramidStatistics /\ DoesContainPyramidLayer(pyramidStatistics[s])

NeedsPyramid(statistics, pyramidStatistics, threshold) ==
  /\ CheckOverallBoundingBoxForNecessityOfPyramid(statistics, threshold)
  /\ HasScenes(statistics) => ScenesAboveThreshold(statistics, threshold) # {}
  /\ ~CheckIfPyramidIsPresent(statistics, pyramidStatistics, threshold)

\* NeedsPyramid throws at the first scene without a layer 0, unless a scene before
\* it, in the order of the map, has ended the loops with "a pyramid is missing".
\* (That a scene above the threshold ends the first loop is no way out: the
\* second one goes on.)
NeedsPyramidThrows(statistics, pyramidStatistics, threshold) ==
  \/ IsUnknown(statistics.boundingBoxLayer0Only)
  \/ /\ CheckOverallBoundingBoxForNecessityOfPyramid(statistics, threshold)
     /\ \E s \in DOMAIN statistics.sceneBoundingBoxes :
          /\ IsUnknown(statistics.sceneBoundingBoxes[s])
          /\ \A t \in ScenesAboveThreshold(statistics, threshold) :
               t < s => /\ t \in DOMAIN pyramidStatistics
                        /\ DoesContainPyramidLayer(pyramidStatistics[t])

-----------------------------------------------------------------------------
\* ISubBlockRepository::GetPyramidStatistics, from the document's sub-blocks
\* and the layer each belongs to.
PyramidStatisticsOf(subBlocks, layerOf) ==
  LET SceneOf(b) == IF ContainsSceneIndex(subBlocks[b].coordinate)
                    THEN subBlocks[b].coordinate["S"] ELSE IntMax
      InLayer(s, l) == {b \in DOMAIN subBlocks : SceneOf(b) = s /\ layerOf[b] = l}
      Layers(s) == {layerOf[b] : b \in {c \in DOMAIN subBlocks : SceneOf(c) = s}}
  IN  [s \in {SceneOf(b) : b \in DOMAIN subBlocks} |->
         {[layer |-> l, count |-> Cardinality(InLayer(s, l))] : l \in Layers(s)}]
=============================================================================
