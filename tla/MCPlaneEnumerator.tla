--------------------------- MODULE MCPlaneEnumerator ---------------------------
(***************************************************************************)
(* Model values for PlaneEnumerator: every combination of intervals over   *)
(* several sets of dimensions, with complete and with incomplete tables of *)
(* scene bounding boxes, with and without dimension B.                     *)
(***************************************************************************)
EXTENDS PlaneEnumerator, FiniteSets

CONSTANT MaxSize    \* the longest interval

\* The first indices of the dimensions: where an interval starts matters to
\* one dimension at a time.
Starts(ds) == IF Cardinality(ds) > 2 THEN {0} ELSE {-1, 0}

DimensionSets ==
  {{"C"}, {"S"}, {"S", "C"}, {"S", "C", "T"}, {"Z", "H", "V"}, {"R", "I"}, {"C", "B"}, {"B"}}

Box == [x |-> 0, y |-> 0, w |-> 1, h |-> 1]

Bounds ==
  UNION {[ds -> [start : Starts(ds), size : 1 .. MaxSize]] : ds \in DimensionSets}

\* Tables of scene boxes: all scenes, and all but the last one.
SceneTables(b) ==
  IF "S" \in DOMAIN b
  THEN LET complete == b["S"].start .. Last(b, "S")
       IN  {[s \in complete |-> Box], [s \in complete \ {Last(b, "S")} |-> Box]}
  ELSE {[s \in {} |-> Box]}

MCStatistics ==
  UNION {{[dimBounds |-> b, sceneBoundingBoxes |-> t, boundingBoxLayer0Only |-> Box] :
            t \in SceneTables(b)} : b \in Bounds}
=============================================================================
