---------------------------- MODULE PlaneEnumerator ----------------------------
(***************************************************************************)
(* PlaneEnumerator (libpyramidizer/inc/plane_enumerator.h) as it is used:  *)
(* constructed from the statistics of the source document, then walked by  *)
(* a range-based for loop whose body may throw (DoPyramidize::Execute).    *)
(***************************************************************************)
EXTENDS PlaneCoordinates

CONSTANT AllStatistics   \* the document statistics the enumerator may be given

ASSUME StatisticsAssumption == \A s \in AllStatistics : IsBounds(s.dimBounds)

VARIABLES
  statistics,      \* sub_block_statistics_
  phase,           \* "construct", "loop", "done", "failed"
  current_state,   \* Iterator::current_state_
  visited          \* history: the planes whose loop body has been completed

vars == <<statistics, phase, current_state, visited>>

bounds == statistics.dimBounds
AtEnd  == current_state = GetCoordinateOneAfterEnd(bounds)   \* ~(it != end())

Init ==
  /\ statistics \in AllStatistics
  /\ phase = "construct"
  /\ current_state = Begin(statistics.dimBounds)
  /\ visited = {}

\* The constructor, and begin() of the loop.
Construct ==
  /\ phase = "construct"
  /\ phase' = IF Enumerable(statistics) THEN "loop" ELSE "failed"
  /\ UNCHANGED <<statistics, current_state, visited>>

\* One pass of the loop: the body for *it, then ++it.
VisitPlane ==
  /\ phase = "loop"
  /\ ~AtEnd
  /\ visited' = visited \cup {current_state}
  /\ current_state' = Increment(bounds, current_state)
  /\ UNCHANGED <<statistics, phase>>

\* The loop body throws: the loop is abandoned.
BodyThrows ==
  /\ phase = "loop"
  /\ ~AtEnd
  /\ phase' = "failed"
  /\ UNCHANGED <<statistics, current_state, visited>>

LeaveLoop ==
  /\ phase = "loop"
  /\ AtEnd
  /\ phase' = "done"
  /\ UNCHANGED <<statistics, current_state, visited>>

Progress == Construct \/ VisitPlane \/ LeaveLoop

Next == Progress \/ BodyThrows

Safety == Init /\ [][Next]_vars

\* A single thread runs the loop to its end; its body does not have to throw.
Spec == Safety /\ WF_vars(Progress)

-----------------------------------------------------------------------------
(* Properties.                                                             *)

\* Types, and: the iterator is either within the bounds or at its end.
TypeOK ==
  /\ statistics \in AllStatistics
  /\ phase \in {"construct", "loop", "done", "failed"}
  /\ AtEnd \/ current_state \in Planes(bounds)
  /\ visited \subseteq Planes(bounds)

\* The odometer never comes back to a plane (the sub-blocks of a plane seen
\* twice would be written twice).
NoPlaneTwice ==
  phase = "loop" /\ ~AtEnd => current_state \notin visited

\* When the loop ends, it has seen every plane that has B at its start, and
\* no other: carries and resets of operator++ skip nothing.
EveryReachablePlaneVisited ==
  phase = "done" => visited = ReachablePlanes(bounds)

\* sceneBoundingBoxes.at(s_index) in operator* never throws: the constructor's
\* check covers every scene index the iterator will reach.
SceneBoxKnown ==
  phase = "loop" /\ ~AtEnd /\ ContainsSceneIndex(current_state)
    => current_state["S"] \in DOMAIN statistics.sceneBoundingBoxes

\* "This will enumerate all the planes in a source-document"
\* (plane_enumerator.h:12), which is not so for a document that uses B.
EveryPlaneVisited ==
  phase = "done" => visited = Planes(bounds)

\* The enumeration comes to an end.
Termination == <>(phase \in {"done", "failed"})
=============================================================================
