----------------------------- MODULE MCDoPyramidize -----------------------------
(***************************************************************************)
(* Small source documents for DoPyramidize.                                *)
(***************************************************************************)
EXTENDS PyramidizeThenCheck

Rect(x, y, w, h) == [x |-> x, y |-> y, w |-> w, h |-> h]

Block(c, r, m) == [coordinate |-> c, rect |-> r, mIndex |-> m, layer0 |-> TRUE]

\* A sub-block of a pyramid the source already has.
PyramidBlock(c, r) == [coordinate |-> c, rect |-> r, mIndex |-> 0, layer0 |-> FALSE]

Document(subBlocks) == [subBlocks |-> subBlocks, statistics |-> StatisticsOf(subBlocks)]

-----------------------------------------------------------------------------
(* One plane, two sub-blocks of many sizes at many places: around the      *)
(* origin, overlapping, adjacent, with a gap between them.                 *)

Plane0 == [C |-> 0]

OnePlaneDocs ==
  {Document(<<Block(Plane0, r, 0), Block(Plane0, s, 1)>>) :
     r \in [x : {-5, -4, -1, 0}, y : {-1, 0}, w : 1 .. 4, h : {1, 3, 4}],
     s \in [x : {-2, 1, 5}, y : {-3, 0, 1}, w : {1, 6}, h : {2, 5}]}

-----------------------------------------------------------------------------
(* Several planes.                                                         *)

\* Two scenes with overlapping boxes in two channels; scene 1 is absent from
\* channel 1, and has a pyramid sub-block in channel 0.
TwoScenes ==
  Document(<<Block([S |-> 0, C |-> 0], Rect(-4, 0, 5, 2), 0),
             Block([S |-> 0, C |-> 1], Rect(-4, 0, 3, 3), 0),
             Block([S |-> 1, C |-> 0], Rect(-1, 1, 3, 2), 1),
             PyramidBlock([S |-> 1, C |-> 0], Rect(-2, 0, 4, 4))>>)

\* Overlapping sub-blocks on two planes, far apart on one of them.
Sparse ==
  Document(<<Block([C |-> 0, T |-> 1], Rect(-7, -1, 2, 1), 0),
             Block([C |-> 0, T |-> 1], Rect(9, 0, 3, 1), 1),
             Block([C |-> 0, T |-> 2], Rect(0, 0, 3, 3), 7),
             Block([C |-> 0, T |-> 2], Rect(1, 1, 3, 3), 3)>>)

\* A scene that needs a pyramid and one that does not.
LargeAndSmall ==
  Document(<<Block([S |-> 3, C |-> 0], Rect(0, 0, 2, 2), 0),
             Block([S |-> 4, C |-> 0], Rect(3, -3, 9, 2), 0)>>)

\* No scenes, nothing above the threshold.
Small == Document(<<Block([Z |-> 0], Rect(5, 5, 2, 2), 0), Block([Z |-> 1], Rect(6, 5, 1, 2), 0)>>)

\* There is no scene 1: the plane enumerator rejects the document.
SceneGap ==
  Document(<<Block([S |-> 0, C |-> 0], Rect(0, 0, 3, 1), 0),
             Block([S |-> 2, C |-> 0], Rect(4, 0, 3, 1), 0)>>)

\* A sub-block with B = 1, which the plane enumerator never reaches.
TwoBlocks ==
  Document(<<Block([C |-> 0, B |-> 0], Rect(0, 0, 3, 1), 0),
             Block([C |-> 0, B |-> 1], Rect(0, 0, 3, 1), 0)>>)

PlanesDocs == {TwoScenes, Sparse, LargeAndSmall, Small, SceneGap, TwoBlocks}

-----------------------------------------------------------------------------
\* The documents of every run have the room that the theorems about the layers
\* ask for.
ASSUME DocumentsHaveRoom == DocsHaveRoom
=============================================================================
