------------------------- MODULE PlaneEnumerator_proof -------------------------
(***************************************************************************)
(* The walk over the planes of a document sees every reachable plane       *)
(* exactly once, for all document statistics.                              *)
(***************************************************************************)
EXTENDS PlaneEnumerator, PlaneCoordinates_proof

\* The inductive invariant: once the constructor has accepted the statistics,
\* the planes seen are those that precede the current one, or all of them.
IInv ==
  /\ TypeOK
  /\ phase = "construct" => visited = {} /\ current_state = Begin(bounds)
  /\ phase \in {"loop", "done"} =>
        Enumerable(statistics) /\ WalkInvariant(bounds, visited, current_state)
  /\ phase = "done" => AtEnd

\* The assumption on the constants, in the form the lemmas use.
LEMMA BoundsAreIntervals == statistics \in AllStatistics => IsBounds(bounds)
BY StatisticsAssumption DEF bounds

\* Statistics the constructor accepts have a dimension to walk.
LEMMA EnumerableWalks ==
  ASSUME Enumerable(statistics)
  PROVE  Walked(bounds) # {}
BY DEF Enumerable, Walked, bounds

\* The invariant holds initially.
LEMMA InitIInv == Init => IInv
<1> SUFFICES ASSUME Init PROVE IInv
  OBVIOUS
<1>1. Begin(bounds) \in Planes(bounds)
  BY BoundsAreIntervals, BeginIsFirst DEF Init, ReachablePlanes
<1> QED BY <1>1 DEF Init, IInv, TypeOK, bounds

\* Every step keeps the invariant.
LEMMA NextIInv == IInv /\ [Next]_vars => IInv'
<1> SUFFICES ASSUME IInv, [Next]_vars PROVE IInv'
  OBVIOUS
<1>1. IsBounds(bounds)
  BY BoundsAreIntervals DEF IInv, TypeOK
<1>2. CASE Construct
  <2>1. CASE Enumerable(statistics)
    <3>1. WalkInvariant(bounds, {}, current_state)
      BY <1>1, <1>2, <2>1, EnumerableWalks, WalkBegins DEF IInv, Construct
    <3> QED BY <1>2, <2>1, <3>1 DEF IInv, TypeOK, Construct, AtEnd, bounds
  <2>2. CASE ~Enumerable(statistics)
    BY <1>2, <2>2 DEF IInv, TypeOK, Construct, AtEnd, bounds
  <2> QED BY <2>1, <2>2
<1>3. CASE VisitPlane
  <2>1. /\ Enumerable(statistics)
        /\ WalkInvariant(bounds, visited, current_state)
        /\ ~AtEnd
        /\ visited' = visited \cup {current_state}
        /\ current_state' = Increment(bounds, current_state)
        /\ statistics' = statistics /\ phase' = phase /\ phase = "loop"
        /\ bounds' = bounds
    BY <1>3 DEF IInv, VisitPlane, bounds
  <2>2. WalkInvariant(bounds, visited', current_state')
    BY <1>1, <2>1, EnumerableWalks, WalkContinues DEF AtEnd
  <2>3. TypeOK'
    <3>1. AtEnd' \/ current_state' \in ReachablePlanes(bounds)
      BY <2>1, <2>2 DEF WalkInvariant, AtEnd
    <3> QED BY <2>1, <2>2, <3>1, SeenIsReachable DEF IInv, TypeOK, ReachablePlanes
  <2> QED BY <2>1, <2>2, <2>3 DEF IInv
<1>4. CASE BodyThrows
  BY <1>4 DEF IInv, TypeOK, BodyThrows, AtEnd, bounds
<1>5. CASE LeaveLoop
  BY <1>5 DEF IInv, TypeOK, LeaveLoop, AtEnd, bounds
<1>6. CASE UNCHANGED vars
  BY <1>6 DEF IInv, TypeOK, vars, AtEnd, bounds
<1> QED BY <1>2, <1>3, <1>4, <1>5, <1>6 DEF Next, Progress

\* The invariant implies the properties.
LEMMA IInvImplies ==
  IInv => NoPlaneTwice /\ EveryReachablePlaneVisited /\ SceneBoxKnown
<1> SUFFICES ASSUME IInv
             PROVE  NoPlaneTwice /\ EveryReachablePlaneVisited /\ SceneBoxKnown
  OBVIOUS
<1>1. IsBounds(bounds)
  BY BoundsAreIntervals DEF IInv, TypeOK
<1>2. NoPlaneTwice
  BY <1>1, WalkIsFresh DEF IInv, NoPlaneTwice, AtEnd
<1>3. EveryReachablePlaneVisited
  BY DEF IInv, EveryReachablePlaneVisited, WalkInvariant, AtEnd
<1>4. SceneBoxKnown
  <2> SUFFICES ASSUME phase = "loop", ~AtEnd, ContainsSceneIndex(current_state)
               PROVE  current_state["S"] \in DOMAIN statistics.sceneBoundingBoxes
    BY DEF SceneBoxKnown
  <2>1. current_state \in Planes(bounds) /\ "S" \in DOMAIN bounds
    BY <1>1, PlaneType DEF IInv, TypeOK, ContainsSceneIndex
  <2>2. current_state["S"] \in bounds["S"].start .. Last(bounds, "S")
    BY <2>1 DEF Planes
  <2> QED BY <2>1, <2>2 DEF IInv, Enumerable, bounds
<1> QED BY <1>2, <1>3, <1>4

\* The invariant holds in every reachable state.
LEMMA Inductive == Spec => []IInv
BY InitIInv, NextIInv, PTL DEF Spec, Safety

\* The type invariant, for all document statistics.
THEOREM TypeCorrect == Spec => []TypeOK
<1>1. IInv => TypeOK
  BY DEF IInv
<1> QED BY <1>1, Inductive, PTL

\* No plane is processed twice: operator++ never returns to a plane.
THEOREM PlanesOnce == Spec => []NoPlaneTwice
BY IInvImplies, Inductive, PTL

\* A finished walk has seen every plane with B at its start, and nothing else.
THEOREM PlanesAll == Spec => []EveryReachablePlaneVisited
BY IInvImplies, Inductive, PTL

\* The scene box of every region exists: operator* never throws.
THEOREM SceneBoxes == Spec => []SceneBoxKnown
BY IInvImplies, Inductive, PTL
=============================================================================
