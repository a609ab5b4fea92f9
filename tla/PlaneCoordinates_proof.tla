------------------------ MODULE PlaneCoordinates_proof ------------------------
(***************************************************************************)
(* Facts about PlaneCoordinates for all bounds: operator++ of the plane    *)
(* iterator moves to the next plane of a total order.                      *)
(***************************************************************************)
EXTENDS PlaneCoordinates, TLAPS

Position(d) == kOrderOfDimensionsToIterate[d]

\* The positions of the dimensions are distinct.
LEMMA Order ==
  /\ Iterated = {"S", "C", "Z", "T", "R", "I", "H", "V"}
  /\ \A d \in Iterated : Position(d) \in 1 .. 8
  /\ \A d, e \in Iterated : Position(d) = Position(e) => d = e
BY DEF Iterated, Position, kOrderOfDimensionsToIterate

\* A non-empty set of numbers from 1 to 8 has a least and a greatest element.
LEMMA Extremes ==
  ASSUME NEW N \in SUBSET (1 .. 8), N # {}
  PROVE  /\ \E k \in N : \A j \in N : k <= j
         /\ \E k \in N : \A j \in N : j <= k
<1>1. 1 .. 8 = {1, 2, 3, 4, 5, 6, 7, 8}
  OBVIOUS
<1>2. \/ 1 \in N \/ 2 \in N \/ 3 \in N \/ 4 \in N
      \/ 5 \in N \/ 6 \in N \/ 7 \in N \/ 8 \in N
  BY <1>1
<1>3. \A j \in N : j \in {1, 2, 3, 4, 5, 6, 7, 8}
  BY <1>1
<1>4. \E k \in N : \A j \in N : k <= j
  BY <1>2, <1>3
<1>5. \E k \in N : \A j \in N : j <= k
  BY <1>2, <1>3
<1> QED BY <1>4, <1>5

\* FirstOf chooses: some dimension comes first in the order of iteration.
LEMMA FirstExists ==
  ASSUME NEW ds \in SUBSET Iterated, ds # {}
  PROVE  \E d \in ds : \A e \in ds : Position(d) <= Position(e)
<1> DEFINE N == {Position(d) : d \in ds}
<1>1. N \in SUBSET (1 .. 8) /\ N # {}
  <2>1. \A d \in ds : Position(d) \in 1 .. 8
    BY Order
  <2>2. PICK d \in ds : TRUE
    OBVIOUS
  <2>3. Position(d) \in N
    OBVIOUS
  <2> QED BY <2>1, <2>3
<1>2. PICK k \in N : \A j \in N : k <= j
  <2> HIDE DEF N
  <2> QED BY <1>1, Extremes
<1> QED BY <1>2

\* Some dimension comes last in the order of iteration.
LEMMA LastExists ==
  ASSUME NEW ds \in SUBSET Iterated, ds # {}
  PROVE  \E d \in ds : \A e \in ds : Position(e) <= Position(d)
<1> DEFINE N == {Position(d) : d \in ds}
<1>1. N \in SUBSET (1 .. 8) /\ N # {}
  <2>1. \A d \in ds : Position(d) \in 1 .. 8
    BY Order
  <2>2. PICK d \in ds : TRUE
    OBVIOUS
  <2>3. Position(d) \in N
    OBVIOUS
  <2> QED BY <2>1, <2>3
<1>2. PICK k \in N : \A j \in N : j <= k
  <2> HIDE DEF N
  <2> QED BY <1>1, Extremes
<1> QED BY <1>2

-----------------------------------------------------------------------------
(* The order in which the planes are enumerated: the later a dimension      *)
(* stands in kOrderOfDimensionsToIterate, the more it weighs.               *)

Walked(b) == DOMAIN b \cap Iterated

Agree(b, p, q, d) ==
  \A e \in Walked(b) : Position(d) < Position(e) => p[e] = q[e]

Precedes(b, p, q) ==
  \E d \in Walked(b) : p[d] < q[d] /\ Agree(b, p, q, d)

\* The planes within the bounds, as a pointwise condition.
LEMMA PlaneType ==
  ASSUME NEW b, IsBounds(b), NEW p
  PROVE  p \in Planes(b) <=>
           /\ p \in [DOMAIN b -> Int]
           /\ \A d \in DOMAIN b : b[d].start <= p[d] /\ p[d] <= Last(b, d)
<1> DEFINE U == UNION {b[d].start .. Last(b, d) : d \in DOMAIN b}
<1>1. U \subseteq Int
  BY DEF IsBounds, Last
<1>2. ASSUME p \in [DOMAIN b -> U]
      PROVE  p \in [DOMAIN b -> Int]
  BY <1>1, <1>2
<1>3. ASSUME p \in [DOMAIN b -> Int],
             \A d \in DOMAIN b : b[d].start <= p[d] /\ p[d] <= Last(b, d)
      PROVE  p \in [DOMAIN b -> U]
  <2>1. \A d \in DOMAIN b : p[d] \in b[d].start .. Last(b, d)
    BY <1>3 DEF IsBounds, Last
  <2>2. \A d \in DOMAIN b : p[d] \in U
    BY <2>1
  <2> HIDE DEF U
  <2> QED BY <1>3, <2>2
<1>4. p \in [DOMAIN b -> Int] =>
        \A d \in DOMAIN b :
           p[d] \in b[d].start .. Last(b, d) <=> b[d].start <= p[d] /\ p[d] <= Last(b, d)
  BY DEF IsBounds, Last
<1>5. p \in Planes(b) <=> /\ p \in [DOMAIN b -> U]
                          /\ \A d \in DOMAIN b : p[d] \in b[d].start .. Last(b, d)
  BY DEF Planes
<1> HIDE DEF U
<1> QED BY <1>2, <1>3, <1>4, <1>5

\* FirstOf is the fastest dimension of a set.
LEMMA FirstOfIsFirst ==
  ASSUME NEW ds \in SUBSET Iterated, ds # {}
  PROVE  FirstOf(ds) \in ds /\ \A e \in ds : Position(FirstOf(ds)) <= Position(e)
BY FirstExists DEF FirstOf, Position

\* begin() is a plane, and no reachable plane precedes it.
LEMMA BeginIsFirst ==
  ASSUME NEW b, IsBounds(b)
  PROVE  /\ Begin(b) \in ReachablePlanes(b)
         /\ \A p \in ReachablePlanes(b) : ~Precedes(b, p, Begin(b))
<1>1. Begin(b) \in Planes(b)
  BY PlaneType DEF Begin, IsBounds, Last
<1>2. "B" \in DOMAIN b => Begin(b)["B"] = b["B"].start
  BY DEF Begin
<1>3. ASSUME NEW p \in Planes(b), NEW d \in Walked(b)
      PROVE  ~(p[d] < Begin(b)[d])
  BY PlaneType DEF Begin, IsBounds, Walked
<1> QED BY <1>1, <1>2, <1>3 DEF ReachablePlanes, Precedes, Begin

\* The coordinate "one after the end" is no plane.
LEMMA EndIsNoPlane ==
  ASSUME NEW b, IsBounds(b), Walked(b) # {}
  PROVE  GetCoordinateOneAfterEnd(b) \notin Planes(b)
<1> DEFINE f == FirstOf(Walked(b))
<1>1. f \in Walked(b)
  BY FirstOfIsFirst DEF Walked
<1>2. GetCoordinateOneAfterEnd(b)[f] = b[f].start + b[f].size
  BY <1>1 DEF GetCoordinateOneAfterEnd, Walked
<1>3. ~(GetCoordinateOneAfterEnd(b)[f] <= Last(b, f))
  BY <1>1, <1>2 DEF Last, IsBounds, Walked
<1> QED BY <1>1, <1>3, PlaneType DEF Walked

\* Two reachable planes are equal or differ in a walked dimension; the last
\* dimension in which they differ decides the order.
LEMMA PrecedesIsTotal ==
  ASSUME NEW b, IsBounds(b), NEW p \in ReachablePlanes(b), NEW q \in ReachablePlanes(b),
         p # q
  PROVE  \E d \in Walked(b) : p[d] # q[d] /\ Agree(b, p, q, d)
<1> DEFINE differ == {d \in Walked(b) : p[d] # q[d]}
<1>1. p \in [DOMAIN b -> Int] /\ q \in [DOMAIN b -> Int]
  BY PlaneType DEF ReachablePlanes
<1>2. PICK d \in DOMAIN b : p[d] # q[d]
  BY <1>1
<1>3. d # "B"
  BY <1>1, <1>2 DEF ReachablePlanes
<1>4. d \in Walked(b)
  BY <1>2, <1>3 DEF Walked, IsBounds, Dimensions
<1>5. differ # {} /\ differ \in SUBSET Iterated
  BY <1>2, <1>4 DEF Walked
<1>6. PICK l \in differ : \A e \in differ : Position(e) <= Position(l)
  <2> HIDE DEF differ
  <2> QED BY <1>5, LastExists
<1>7. \A e \in Walked(b) : Position(e) \in Int
  BY Order DEF Walked
<1>8. Agree(b, p, q, l)
  BY <1>6, <1>7 DEF Agree
<1> QED BY <1>6, <1>8

\* operator++ with a dimension left to advance: the next plane of the order.
LEMMA IncrementIsNext ==
  ASSUME NEW b, IsBounds(b), NEW c \in ReachablePlanes(b), Advancing(b, c) # {}
  PROVE  /\ Increment(b, c) \in ReachablePlanes(b)
         /\ \A p \in ReachablePlanes(b) :
              Precedes(b, p, Increment(b, c)) <=> Precedes(b, p, c) \/ p = c
<1> DEFINE d == FirstOf(Advancing(b, c))
           n == Increment(b, c)
<1>1. c \in [DOMAIN b -> Int] /\ \A e \in DOMAIN b : b[e].start <= c[e] /\ c[e] <= Last(b, e)
  BY PlaneType DEF ReachablePlanes
<1>2. Advancing(b, c) \in SUBSET Iterated /\ Advancing(b, c) \subseteq Walked(b)
  BY <1>1 DEF Advancing, Walked
<1>3. d \in Advancing(b, c) /\ \A e \in Advancing(b, c) : Position(d) <= Position(e)
  BY <1>2, FirstOfIsFirst
<1>4. d \in Walked(b) /\ c[d] < Last(b, d)
  BY <1>2, <1>3 DEF Advancing
<1>5. /\ n \in [DOMAIN b -> Int]
      /\ n[d] = c[d] + 1
      /\ \A e \in Walked(b) : Position(e) < Position(d) => n[e] = b[e].start
      /\ \A e \in DOMAIN b : e # d /\ ~(e \in Iterated /\ Position(e) < Position(d)) => n[e] = c[e]
  <2> HIDE DEF d
  <2>1. n = [e \in DOMAIN b |->
              IF e = d THEN c[e] + 1
              ELSE IF e \in Iterated /\ Position(e) < Position(d) THEN b[e].start
                   ELSE c[e]]
    BY <1>1 DEF Increment, d, Position
  <2> HIDE DEF n
  <2>2. \A e \in DOMAIN b : b[e].start \in Int /\ c[e] \in Int
    BY <1>1 DEF IsBounds
  <2>3. d \in DOMAIN b /\ \A e \in Walked(b) : e \in DOMAIN b /\ e \in Iterated
    BY <1>4 DEF Walked
  <2>4. n \in [DOMAIN b -> Int]
    BY <2>1, <2>2
  <2>5. n[d] = c[d] + 1
    BY <2>1, <2>3
  <2>6. \A e \in Walked(b) : Position(e) < Position(d) => n[e] = b[e].start
    <3> TAKE e \in Walked(b)
    <3> HAVE Position(e) < Position(d)
    <3>1. e # d
      BY <2>3, <1>4, Order
    <3> QED BY <2>1, <2>3, <3>1
  <2> QED BY <2>1, <2>4, <2>5, <2>6
<1> HIDE DEF d, n
<1>6. \A e \in Walked(b) : Position(e) < Position(d) => c[e] = Last(b, e)
  <2> TAKE e \in Walked(b)
  <2> HAVE Position(e) < Position(d)
  <2>1. e \notin Advancing(b, c)
    BY <1>3, <1>4, Order DEF Walked
  <2> QED BY <1>1, <2>1 DEF Advancing, Walked, IsBounds, Last
<1>7. n \in ReachablePlanes(b)
  <2>1. \A e \in DOMAIN b : b[e].start <= n[e] /\ n[e] <= Last(b, e)
    <3> TAKE e \in DOMAIN b
    <3>1. CASE e = d
      BY <1>1, <1>4, <1>5, <3>1 DEF IsBounds, Last
    <3>2. CASE e \in Walked(b) /\ Position(e) < Position(d)
      BY <1>5, <3>2 DEF IsBounds, Last
    <3>3. CASE e # d /\ ~(e \in Iterated /\ Position(e) < Position(d))
      BY <1>1, <1>5, <3>3
    <3> QED BY <3>1, <3>2, <3>3 DEF Walked
  <2>2. n \in Planes(b)
    BY <1>5, <2>1, PlaneType
  <2>3. "B" \in DOMAIN b => "B" # d /\ "B" \notin Iterated
    BY <1>4, Order DEF Walked
  <2> QED BY <1>1, <1>5, <2>2, <2>3 DEF ReachablePlanes
<1>8. ASSUME NEW p \in ReachablePlanes(b), Precedes(b, p, c) \/ p = c
      PROVE  Precedes(b, p, n)
  <2>1. CASE p = c
    <3>1. c[d] < n[d] /\ Agree(b, c, n, d)
      BY <1>1, <1>4, <1>5, Order DEF Agree, Walked
    <3> QED BY <2>1, <3>1, <1>4 DEF Precedes
  <2>2. CASE Precedes(b, p, c)
    <3>1. PICK e \in Walked(b) : p[e] < c[e] /\ Agree(b, p, c, e)
      BY <2>2 DEF Precedes
    <3>2. Position(e) \in Int /\ Position(d) \in Int
      BY <1>4, Order DEF Walked
    <3>3. p \in [DOMAIN b -> Int]
      BY PlaneType DEF ReachablePlanes
    <3>4. CASE Position(d) < Position(e)
      <4>1. n[e] = c[e] /\ Agree(b, p, n, e)
        BY <1>4, <1>5, <3>1, <3>2, <3>4, Order DEF Agree, Walked
      <4> QED BY <3>1, <4>1 DEF Precedes
    <3>5. CASE Position(e) = Position(d)
      <4>1. e = d
        BY <1>4, <3>5, Order DEF Walked
      <4>2. p[d] < n[d]
        BY <1>1, <1>4, <1>5, <3>1, <3>3, <4>1 DEF Walked
      <4>3. Agree(b, p, n, d)
        BY <1>4, <1>5, <3>1, <4>1, Order DEF Agree, Walked
      <4> QED BY <1>4, <4>2, <4>3 DEF Precedes
    <3>6. CASE Position(e) < Position(d)
      <4>1. p[d] = c[d]
        BY <1>4, <3>1, <3>6 DEF Agree
      <4>2. p[d] < n[d]
        BY <1>1, <1>4, <1>5, <4>1 DEF Walked
      <4>3. Agree(b, p, n, d)
        BY <1>4, <1>5, <3>1, <3>6, Order DEF Agree, Walked
      <4> QED BY <1>4, <4>2, <4>3 DEF Precedes
    <3> QED BY <3>2, <3>4, <3>5, <3>6
  <2> QED BY <1>8, <2>1, <2>2
<1>9. ASSUME NEW p \in ReachablePlanes(b), Precedes(b, p, n)
      PROVE  Precedes(b, p, c) \/ p = c
  <2>1. p \in [DOMAIN b -> Int] /\ \A e \in DOMAIN b : b[e].start <= p[e] /\ p[e] <= Last(b, e)
    BY PlaneType DEF ReachablePlanes
  <2>2. PICK e \in Walked(b) : p[e] < n[e] /\ Agree(b, p, n, e)
    BY <1>9 DEF Precedes
  <2>3. ~(Position(e) < Position(d))
    BY <1>5, <2>1, <2>2 DEF Walked, IsBounds
  <2>4. CASE Position(d) < Position(e)
    <3>1. n[e] = c[e] /\ Agree(b, p, c, e)
      BY <1>4, <1>5, <2>2, <2>4, Order DEF Agree, Walked
    <3> QED BY <2>2, <3>1 DEF Precedes
  <2>5. CASE e = d
    <3>1. Agree(b, p, c, d)
      BY <1>4, <1>5, <2>2, <2>5, Order DEF Agree, Walked
    <3>2. p[d] <= c[d]
      BY <1>1, <1>4, <1>5, <2>1, <2>2, <2>5 DEF Walked
    <3>3. SUFFICES ASSUME p # c PROVE Precedes(b, p, c)
      OBVIOUS
    <3>4. PICK g \in Walked(b) : p[g] # c[g] /\ Agree(b, p, c, g)
      BY <3>3, PrecedesIsTotal
    <3>5. CASE g = d
      BY <1>1, <1>4, <2>1, <3>2, <3>4, <3>5 DEF Precedes, Walked
    <3>6. CASE g # d
      <4>1. Position(g) < Position(d)
        BY <1>4, <3>1, <3>4, <3>6, Order DEF Agree, Walked
      <4>2. p[g] < c[g]
        BY <1>1, <1>6, <2>1, <3>4, <4>1 DEF Walked, IsBounds, Last
      <4> QED BY <3>4, <4>2 DEF Precedes
    <3> QED BY <3>5, <3>6
  <2>6. Position(e) \in Int /\ Position(d) \in Int
    BY <1>4, Order DEF Walked
  <2> QED BY <1>4, <2>3, <2>4, <2>5, <2>6, Order DEF Walked
<1> QED BY <1>7, <1>8, <1>9 DEF n

\* operator++ with no dimension left: the end, and every other plane precedes.
LEMMA IncrementAtLast ==
  ASSUME NEW b, IsBounds(b), NEW c \in ReachablePlanes(b), Advancing(b, c) = {}
  PROVE  /\ Increment(b, c) = GetCoordinateOneAfterEnd(b)
         /\ \A p \in ReachablePlanes(b) : Precedes(b, p, c) \/ p = c
<1>1. Increment(b, c) = GetCoordinateOneAfterEnd(b)
  BY DEF Increment
<1>2. ASSUME NEW p \in ReachablePlanes(b), p # c
      PROVE  Precedes(b, p, c)
  <2>1. PICK d \in Walked(b) : p[d] # c[d] /\ Agree(b, p, c, d)
    BY <1>2, PrecedesIsTotal
  <2>2. /\ c \in [DOMAIN b -> Int] /\ \A e \in DOMAIN b : c[e] <= Last(b, e)
        /\ p \in [DOMAIN b -> Int] /\ \A e \in DOMAIN b : p[e] <= Last(b, e)
    BY PlaneType DEF ReachablePlanes
  <2>3. c[d] = Last(b, d)
    BY <2>2 DEF Advancing, Walked, IsBounds, Last
  <2>4. p[d] < c[d]
    BY <2>1, <2>2, <2>3 DEF Walked
  <2> QED BY <2>1, <2>4 DEF Precedes
<1> QED BY <1>1, <1>2

\* No plane precedes itself.
LEMMA PrecedesIsIrreflexive ==
  ASSUME NEW b, IsBounds(b), NEW p \in ReachablePlanes(b)
  PROVE  ~Precedes(b, p, p)
BY PlaneType DEF Precedes, ReachablePlanes, Walked

-----------------------------------------------------------------------------
\* The state of a walk over the planes: those seen are the ones that precede
\* the current one, or all of them at the end.
WalkInvariant(b, seen, c) ==
  IF c = GetCoordinateOneAfterEnd(b)
  THEN seen = ReachablePlanes(b)
  ELSE /\ c \in ReachablePlanes(b)
       /\ seen = {p \in ReachablePlanes(b) : Precedes(b, p, c)}

\* begin() starts a walk.
LEMMA WalkBegins ==
  ASSUME NEW b, IsBounds(b), Walked(b) # {}
  PROVE  WalkInvariant(b, {}, Begin(b))
<1>1. Begin(b) \in ReachablePlanes(b) /\ \A p \in ReachablePlanes(b) : ~Precedes(b, p, Begin(b))
  BY BeginIsFirst
<1>2. Begin(b) # GetCoordinateOneAfterEnd(b)
  BY <1>1, EndIsNoPlane DEF ReachablePlanes
<1> QED BY <1>1, <1>2 DEF WalkInvariant

\* operator++ continues it, with the plane it leaves now among those seen.
LEMMA WalkContinues ==
  ASSUME NEW b, IsBounds(b), Walked(b) # {}, NEW seen, NEW c,
         c # GetCoordinateOneAfterEnd(b), WalkInvariant(b, seen, c)
  PROVE  WalkInvariant(b, seen \cup {c}, Increment(b, c))
<1>1. c \in ReachablePlanes(b) /\ seen = {p \in ReachablePlanes(b) : Precedes(b, p, c)}
  BY DEF WalkInvariant
<1>2. CASE Advancing(b, c) # {}
  <2>1. /\ Increment(b, c) \in ReachablePlanes(b)
        /\ \A p \in ReachablePlanes(b) :
             Precedes(b, p, Increment(b, c)) <=> Precedes(b, p, c) \/ p = c
    BY <1>1, <1>2, IncrementIsNext
  <2>2. Increment(b, c) # GetCoordinateOneAfterEnd(b)
    BY <2>1, EndIsNoPlane DEF ReachablePlanes
  <2>3. seen \cup {c} = {p \in ReachablePlanes(b) : Precedes(b, p, Increment(b, c))}
    BY <1>1, <2>1
  <2> QED BY <2>1, <2>2, <2>3 DEF WalkInvariant
<1>3. CASE Advancing(b, c) = {}
  BY <1>1, <1>3, IncrementAtLast DEF WalkInvariant
<1> QED BY <1>2, <1>3

\* The plane a walk is at is within the bounds, and has not been seen.
LEMMA WalkIsFresh ==
  ASSUME NEW b, IsBounds(b), NEW seen, NEW c,
         c # GetCoordinateOneAfterEnd(b), WalkInvariant(b, seen, c)
  PROVE  c \in ReachablePlanes(b) /\ c \notin seen
BY PrecedesIsIrreflexive DEF WalkInvariant

\* Every plane a walk has seen is reachable.
LEMMA SeenIsReachable ==
  ASSUME NEW b, NEW seen, NEW c, WalkInvariant(b, seen, c)
  PROVE  seen \subseteq ReachablePlanes(b)
BY DEF WalkInvariant
=============================================================================
