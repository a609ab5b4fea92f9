--------------------------- MODULE PlaneCoordinates ---------------------------
(***************************************************************************)
(* Plane coordinates, and the arithmetic of PlaneEnumerator::Iterator on   *)
(* them (libpyramidizer/inc/plane_enumerator.h).                           *)
(*                                                                         *)
(* A CDimBounds is a function from the valid dimensions to intervals       *)
(* [start, size]; a CDimCoordinate is a function from the valid dimensions *)
(* to integers.  The statistics of a document is a record                  *)
(*   [dimBounds, sceneBoundingBoxes, boundingBoxLayer0Only]                *)
(* whose sceneBoundingBoxes is a function from scene indices to rectangles.*)
(***************************************************************************)
EXTENDS Integers

\* The position of each dimension in the order of iteration; the one that
\* varies fastest comes first.  Dimension B of libCZI is not in the list.
kOrderOfDimensionsToIterate ==
  [S |-> 1, C |-> 2, Z |-> 3, T |-> 4, R |-> 5, I |-> 6, H |-> 7, V |-> 8]

Iterated   == DOMAIN kOrderOfDimensionsToIterate
Dimensions == Iterated \cup {"B"}

IsBounds(bounds) ==
  /\ DOMAIN bounds \subseteq Dimensions
  /\ \A d \in DOMAIN bounds : bounds[d].start \in Int /\ bounds[d].size \in Nat \ {0}

Last(bounds, d) == bounds[d].start + bounds[d].size - 1

FirstOf(ds) ==
  CHOOSE d \in ds : \A e \in ds :
     kOrderOfDimensionsToIterate[d] <= kOrderOfDimensionsToIterate[e]

-----------------------------------------------------------------------------
(* The iterator.                                                           *)

\* begin(): every valid dimension, B included, at its start.
Begin(bounds) == [d \in DOMAIN bounds |-> bounds[d].start]

\* GetCoordinateOneAfterEnd(): only the iterated dimensions are set.
GetCoordinateOneAfterEnd(bounds) ==
  LET dims == DOMAIN bounds \cap Iterated
  IN  [d \in dims |-> IF d = FirstOf(dims) THEN bounds[d].start + bounds[d].size
                                           ELSE Last(bounds, d)]

\* Mutant: one position too far.
AdvancingTooFar(bounds, c) == {d \in DOMAIN c \cap Iterated : c[d] <= Last(bounds, d)}

\* The dimensions operator++ could still advance.
Advancing(bounds, c) == {d \in DOMAIN c \cap Iterated : c[d] < Last(bounds, d)}

\* Mutants of operator++: without the reset of the dimensions before the one
\* advanced, and with a reset of all others.
IncrementWithoutReset(bounds, c) ==
  IF Advancing(bounds, c) = {} THEN GetCoordinateOneAfterEnd(bounds)
  ELSE [c EXCEPT ![FirstOf(Advancing(bounds, c))] = @ + 1]

IncrementWithFullReset(bounds, c) ==
  LET d == FirstOf(Advancing(bounds, c))
  IN  IF Advancing(bounds, c) = {} THEN GetCoordinateOneAfterEnd(bounds)
      ELSE [e \in DOMAIN c |-> IF e = d THEN c[e] + 1 ELSE bounds[e].start]

\* operator++: advance the first such dimension and set those before it back.
Increment(bounds, c) ==
  LET d == FirstOf(Advancing(bounds, c))
  IN  IF Advancing(bounds, c) = {}
      THEN GetCoordinateOneAfterEnd(bounds)
      ELSE [e \in DOMAIN c |->
              IF e = d THEN c[e] + 1
              ELSE IF /\ e \in Iterated
                      /\ kOrderOfDimensionsToIterate[e] < kOrderOfDimensionsToIterate[d]
                   THEN bounds[e].start
                   ELSE c[e]]

-----------------------------------------------------------------------------
(* The regions.                                                            *)

ContainsSceneIndex(c) == "S" \in DOMAIN c

\* operator*: the rectangle that goes with a plane coordinate.
RegionRect(statistics, c) ==
  IF ContainsSceneIndex(c)
  THEN statistics.sceneBoundingBoxes[c["S"]]
  ELSE statistics.boundingBoxLayer0Only

\* Mutant: the scene boxes are not looked at.
EnumerableUnchecked(statistics) ==
  DOMAIN statistics.dimBounds \cap (Iterated \ {"S"}) # {}

\* What the constructor requires of the statistics (it throws otherwise).
Enumerable(statistics) ==
  LET bounds == statistics.dimBounds
  IN  /\ DOMAIN bounds \cap (Iterated \ {"S"}) # {}
      /\ "S" \in DOMAIN bounds =>
            bounds["S"].start .. Last(bounds, "S")
               \subseteq DOMAIN statistics.sceneBoundingBoxes

\* All the planes within the bounds.
Planes(bounds) ==
  {p \in [DOMAIN bounds ->
            UNION {bounds[d].start .. Last(bounds, d) : d \in DOMAIN bounds}] :
     \A d \in DOMAIN bounds : p[d] \in bounds[d].start .. Last(bounds, d)}

\* The planes the iterator is able to reach: dimension B is never advanced.
ReachablePlanes(bounds) ==
  {p \in Planes(bounds) : "B" \in DOMAIN p => p["B"] = bounds["B"].start}
=============================================================================
