---------------------------- MODULE Geometry_proof ----------------------------
(***************************************************************************)
(* Facts about the rectangle arithmetic, for all sizes of integers.        *)
(***************************************************************************)
EXTENDS Geometry, TLAPS, WellFoundedInduction

\* A set of integers that is bounded below has a least one.
LEMMA LeastExists ==
  ASSUME NEW S \in SUBSET Int, S # {}, NEW lo \in Int, \A v \in S : lo <= v
  PROVE  \E v \in S : \A u \in S : v <= u
<1> DEFINE N == {v - lo : v \in S}
<1>1. N \in SUBSET Nat /\ N # {}
  <2>1. ASSUME NEW v \in S PROVE v - lo \in Nat
    OBVIOUS
  <2>2. PICK v \in S : TRUE
    OBVIOUS
  <2>3. v - lo \in N
    OBVIOUS
  <2> QED BY <2>1, <2>3
<1>2. IsWellFoundedOn(OpToRel(<, Nat), Nat)
  BY NatLessThanWellFounded
<1>3. PICK n \in N : \A m \in N : ~(<<m, n>> \in OpToRel(<, Nat))
  <2> HIDE DEF N
  <2> QED BY <1>1, <1>2, WFMin
<1>4. \A m \in N : ~(m < n)
  BY <1>1, <1>3 DEF OpToRel
<1>5. PICK v \in S : n = v - lo
  OBVIOUS
<1>6. ASSUME NEW u \in S PROVE v <= u
  <2>1. u - lo \in N
    OBVIOUS
  <2>2. ~(u - lo < v - lo)
    BY <1>4, <1>5, <2>1
  <2>3. u \in Int /\ v \in Int
    OBVIOUS
  <2> HIDE DEF N
  <2> QED BY <2>2, <2>3
<1> QED BY <1>6

\* A set of integers that is bounded above has a greatest one.
LEMMA GreatestExists ==
  ASSUME NEW S \in SUBSET Int, S # {}, NEW hi \in Int, \A v \in S : v <= hi
  PROVE  \E v \in S : \A u \in S : v >= u
<1> DEFINE N == {-v : v \in S}
<1>1. N \in SUBSET Int /\ N # {} /\ \A n \in N : -hi <= n
  <2>1. PICK v \in S : TRUE
    OBVIOUS
  <2>2. -v \in N
    OBVIOUS
  <2> QED BY <2>2
<1>2. PICK n \in N : \A m \in N : n <= m
  <2>1. -hi \in Int
    OBVIOUS
  <2> HIDE DEF N
  <2> QED BY <1>1, <2>1, LeastExists
<1>3. PICK v \in S : n = -v
  OBVIOUS
<1>4. ASSUME NEW u \in S PROVE v >= u
  <2>1. -u \in N
    OBVIOUS
  <2>2. -v <= -u /\ u \in Int /\ v \in Int
    BY <1>2, <1>3, <2>1
  <2> HIDE DEF N
  <2> QED BY <2>2
<1> QED BY <1>4

\* Induction over the natural numbers, for the set of those a fact holds for.
LEMMA SetInduction ==
  ASSUME NEW S \in SUBSET Nat, 0 \in S, \A n \in S : n + 1 \in S
  PROVE  S = Nat
<1> SUFFICES ASSUME Nat \ S # {} PROVE FALSE
  OBVIOUS
<1>1. PICK n \in Nat \ S : \A m \in Nat \ S : n <= m
  <2>1. Nat \ S \in SUBSET Int /\ 0 \in Int /\ \A v \in Nat \ S : 0 <= v
    OBVIOUS
  <2> QED BY <2>1, LeastExists
<1>2. n \in Nat /\ n # 0 /\ n - 1 \in Nat
  OBVIOUS
<1>3. n - 1 \in S
  BY <1>1, <1>2
<1>4. (n - 1) + 1 \in S /\ (n - 1) + 1 = n
  BY <1>2, <1>3
<1> QED BY <1>4

-----------------------------------------------------------------------------
(* Powers of two.                                                          *)

\* The first powers, as a function of their own.
AreFirstPowers(g, n) ==
  /\ g \in [0 .. n -> Nat]
  /\ g[0] = 1
  /\ \A k \in 1 .. n : g[k] = 2 * g[k - 1]

\* There are as many first powers as one likes.
LEMMA FirstPowersExist == \A n \in Nat : \E g : AreFirstPowers(g, n)
<1> DEFINE S == {n \in Nat : \E g : AreFirstPowers(g, n)}
<1>1. 0 \in S
  <2>1. AreFirstPowers([k \in 0 .. 0 |-> 1], 0)
    BY DEF AreFirstPowers
  <2> QED BY <2>1
<1>2. ASSUME NEW n \in S PROVE n + 1 \in S
  <2>1. PICK g : AreFirstPowers(g, n)
    OBVIOUS
  <2> DEFINE h == [k \in 0 .. n + 1 |-> IF k <= n THEN g[k] ELSE 2 * g[n]]
  <2>2. h \in [0 .. n + 1 -> Nat]
    BY <2>1 DEF AreFirstPowers
  <2>3. h[0] = 1
    BY <2>1 DEF AreFirstPowers
  <2>4. ASSUME NEW k \in 1 .. n + 1 PROVE h[k] = 2 * h[k - 1]
    <3>1. CASE k <= n
      BY <2>1, <3>1 DEF AreFirstPowers
    <3>2. CASE k = n + 1
      BY <2>1, <3>2 DEF AreFirstPowers
    <3> QED BY <3>1, <3>2
  <2>5. AreFirstPowers(h, n + 1)
    <3> HIDE DEF h
    <3> QED BY <2>2, <2>3, <2>4 DEF AreFirstPowers
  <2> QED BY <2>5
<1>3. S = Nat
  <2> HIDE DEF S
  <2>1. S \in SUBSET Nat
    BY DEF S
  <2> QED BY <1>1, <1>2, <2>1, SetInduction
<1> QED BY <1>3

\* Any two functions of first powers agree.
LEMMA FirstPowersAgree ==
  ASSUME NEW n \in Nat, NEW m \in Nat, NEW g, NEW h,
         AreFirstPowers(g, n), AreFirstPowers(h, m), n <= m
  PROVE  \A k \in 0 .. n : g[k] = h[k]
<1> DEFINE S == {k \in Nat : k <= n => g[k] = h[k]}
<1>1. 0 \in S
  BY DEF AreFirstPowers
<1>2. ASSUME NEW k \in S PROVE k + 1 \in S
  <2> SUFFICES ASSUME k + 1 <= n PROVE g[k + 1] = h[k + 1]
    OBVIOUS
  <2>1. k + 1 \in 1 .. n /\ k + 1 \in 1 .. m /\ (k + 1) - 1 = k
    OBVIOUS
  <2>2. g[k + 1] = 2 * g[k] /\ h[k + 1] = 2 * h[k]
    BY <2>1 DEF AreFirstPowers
  <2>3. g[k] = h[k]
    OBVIOUS
  <2> QED BY <2>2, <2>3
<1>3. S = Nat
  <2> HIDE DEF S
  <2>1. S \in SUBSET Nat
    BY DEF S
  <2> QED BY <1>1, <1>2, <2>1, SetInduction
<1> QED BY <1>3

\* The recursive definition of PowerOfTwo has a function that satisfies it.
LEMMA PowerRecursion ==
  /\ PowerOfTwo[0] = 1
  /\ \A n \in Nat : PowerOfTwo[n] \in Nat /\ PowerOfTwo[n + 1] = 2 * PowerOfTwo[n]
<1> DEFINE G(n) == CHOOSE g : AreFirstPowers(g, n)
           F == [n \in Nat |-> G(n)[n]]
           Solves(f) == f = [n \in Nat |-> IF n = 0 THEN 1 ELSE 2 * f[n - 1]]
<1>1. \A n \in Nat : AreFirstPowers(G(n), n)
  BY FirstPowersExist
<1>2. \A n \in Nat : F[n] = G(n)[n] /\ F[n] \in Nat
  BY <1>1 DEF AreFirstPowers
<1>3. F[0] = 1
  BY <1>1, <1>2 DEF AreFirstPowers
<1>4. ASSUME NEW n \in Nat, n # 0 PROVE F[n] = 2 * F[n - 1]
  <2>1. n - 1 \in Nat /\ n \in 1 .. n /\ n - 1 \in 0 .. n - 1
    BY <1>4
  <2>2. G(n)[n] = 2 * G(n)[n - 1]
    BY <1>1, <2>1 DEF AreFirstPowers
  <2>3. G(n - 1)[n - 1] = G(n)[n - 1]
    <3> HIDE DEF G
    <3>1. n - 1 <= n /\ AreFirstPowers(G(n - 1), n - 1) /\ AreFirstPowers(G(n), n)
      BY <1>1, <2>1
    <3> QED BY <2>1, <3>1, FirstPowersAgree
  <2> HIDE DEF G, F
  <2> QED BY <1>2, <2>1, <2>2, <2>3
<1>5. Solves(F)
  <2>1. DOMAIN F = Nat
    OBVIOUS
  <2>2. F = [n \in Nat |-> F[n]]
    OBVIOUS
  <2> HIDE DEF F
  <2>3. \A n \in Nat : F[n] = IF n = 0 THEN 1 ELSE 2 * F[n - 1]
    BY <1>3, <1>4
  <2> QED BY <2>2, <2>3
<1>6. Solves(PowerOfTwo)
  <2>1. PowerOfTwo = CHOOSE f : Solves(f)
    BY DEF PowerOfTwo
  <2> HIDE DEF F, Solves
  <2> QED BY <1>5, <2>1
<1>7. ASSUME NEW n \in Nat
      PROVE  PowerOfTwo[n] = IF n = 0 THEN 1 ELSE 2 * PowerOfTwo[n - 1]
  <2> HIDE DEF F, G
  <2> DEFINE Power == PowerOfTwo
  <2>1. Power = [k \in Nat |-> IF k = 0 THEN 1 ELSE 2 * Power[k - 1]]
    BY <1>6
  <2> HIDE DEF Power
  <2>2. Power[n] = IF n = 0 THEN 1 ELSE 2 * Power[n - 1]
    BY <2>1
  <2> QED BY <2>2 DEF Power
<1> HIDE DEF F, G, Solves
<1>8. PowerOfTwo[0] = 1
  BY <1>7
<1>9. ASSUME NEW n \in Nat PROVE PowerOfTwo[n + 1] = 2 * PowerOfTwo[n]
  <2>1. n + 1 \in Nat /\ n + 1 # 0 /\ (n + 1) - 1 = n
    OBVIOUS
  <2> QED BY <1>7, <2>1
<1> DEFINE S == {n \in Nat : PowerOfTwo[n] \in Nat}
<1>10. 0 \in S
  BY <1>8
<1>11. ASSUME NEW n \in S PROVE n + 1 \in S
  BY <1>9
<1>12. S = Nat
  <2> HIDE DEF S
  <2>1. S \in SUBSET Nat
    BY DEF S
  <2> QED BY <1>10, <1>11, <2>1, SetInduction
<1> QED BY <1>8, <1>9, <1>12

\* A power of two divides every greater one.
LEMMA PowerDivides ==
  ASSUME NEW n \in Nat, NEW m \in Nat
  PROVE  \E k \in Nat \ {0} : PowerOfTwo[n + m] = k * PowerOfTwo[n]
<1> DEFINE S == {l \in Nat : \E k \in Nat \ {0} : PowerOfTwo[n + l] = k * PowerOfTwo[n]}
<1>1. 0 \in S
  <2>1. n + 0 = n /\ PowerOfTwo[n] \in Nat
    BY PowerRecursion
  <2>2. PowerOfTwo[n + 0] = 1 * PowerOfTwo[n]
    BY <2>1
  <2> QED BY <2>2
<1>2. ASSUME NEW l \in S PROVE l + 1 \in S
  <2>1. PICK k \in Nat \ {0} : PowerOfTwo[n + l] = k * PowerOfTwo[n]
    OBVIOUS
  <2>2. /\ n + l \in Nat /\ (n + l) + 1 = n + (l + 1) /\ l + 1 \in Nat
        /\ PowerOfTwo[n] \in Nat /\ PowerOfTwo[(n + l) + 1] = 2 * PowerOfTwo[n + l]
    BY PowerRecursion
  <2>3. PowerOfTwo[n + (l + 1)] = (2 * k) * PowerOfTwo[n] /\ 2 * k \in Nat \ {0}
    BY <2>1, <2>2
  <2> QED BY <2>2, <2>3
<1>3. S = Nat
  <2> HIDE DEF S
  <2>1. S \in SUBSET Nat
    BY DEF S
  <2> QED BY <1>1, <1>2, <2>1, SetInduction
<1>4. m \in S
  <2> HIDE DEF S
  <2> QED BY <1>3
<1> QED BY <1>4

\* Powers of two are positive.
LEMMA PowerPositive ==
  ASSUME NEW n \in Nat
  PROVE  PowerOfTwo[n] \in Nat \ {0}
<1> DEFINE S == {l \in Nat : PowerOfTwo[l] \in Nat \ {0}}
<1>1. 0 \in S
  BY PowerRecursion
<1>2. ASSUME NEW l \in S PROVE l + 1 \in S
  BY PowerRecursion
<1>3. S = Nat
  <2> HIDE DEF S
  <2>1. S \in SUBSET Nat
    BY DEF S
  <2> QED BY <1>1, <1>2, <2>1, SetInduction
<1> QED BY <1>3

-----------------------------------------------------------------------------
\* Division with remainder.
LEMMA DivMod ==
  ASSUME NEW a \in Int, NEW m \in Nat \ {0}
  PROVE  /\ a \div m \in Int /\ a % m \in Nat /\ a % m < m
         /\ a = m * (a \div m) + (a % m)
OBVIOUS

\* The conversions between int and unsigned stay within the integers.
LEMMA ConversionsAreInts ==
  ASSUME NEW n \in Int
  PROVE  ToUint(n) \in 0 .. UintModulus - 1 /\ ToInt(n) \in Int /\ IntMin \in Int /\ IntMax \in Int
BY UintAssumption DEF ToUint, ToInt, IntMin, IntMax

\* Latching, and enlarging by it, stay within the integers.
LEMMA LatchIsInt ==
  ASSUME NEW v \in Int, NEW m \in Nat \ {0}
  PROVE  Latch(v, m) \in Int
<1>1. ToUint(v) \div m \in Int
  BY ConversionsAreInts, DivMod
<1>2. (ToUint(v) \div m) * m \in Int
  BY <1>1
<1> QED BY <1>2, ConversionsAreInts DEF Latch

-----------------------------------------------------------------------------
(* Multiples of a factor.                                                  *)

IsMultiple(v, f) == \E k \in Int : v = k * f

\* A factor that divides the range of the signed integers on either side of 0.
IsFactor(f) == f \in Nat \ {0} /\ IsMultiple(UintModulus \div 2, f)

\* Two different multiples are at least one factor apart.
LEMMA MultiplesApart ==
  ASSUME NEW f \in Nat \ {0}, NEW a, NEW b, IsMultiple(a, f), IsMultiple(b, f), a < b
  PROVE  a + f <= b
<1>1. PICK k \in Int : a = k * f
  BY DEF IsMultiple
<1>2. PICK l \in Int : b = l * f
  BY DEF IsMultiple
<1>3. k < l
  <2> SUFFICES ASSUME l <= k PROVE FALSE
    OBVIOUS
  <2>1. l * f <= k * f
    OBVIOUS
  <2> QED BY <1>1, <1>2, <2>1
<1>4. (k + 1) * f <= l * f
  BY <1>3
<1> QED BY <1>1, <1>2, <1>4

\* Sums and differences of multiples, and multiples of multiples.
LEMMA MultipleArithmetic ==
  ASSUME NEW f \in Nat \ {0}, NEW a, NEW b, IsMultiple(a, f), IsMultiple(b, f), NEW n \in Int
  PROVE  /\ a \in Int /\ b \in Int
         /\ IsMultiple(a + b, f) /\ IsMultiple(a - b, f)
         /\ IsMultiple(n * f, f) /\ IsMultiple(-a, f)
<1>1. PICK k \in Int : a = k * f
  BY DEF IsMultiple
<1>2. PICK l \in Int : b = l * f
  BY DEF IsMultiple
<1>3. a + b = (k + l) * f /\ a - b = (k - l) * f /\ -a = (-k) * f
  BY <1>1, <1>2
<1>4. k + l \in Int /\ k - l \in Int /\ -k \in Int
  OBVIOUS
<1>5. a \in Int /\ b \in Int
  BY <1>1, <1>2
<1>6. IsMultiple(a + b, f)
  BY <1>3, <1>4 DEF IsMultiple
<1>7. IsMultiple(a - b, f)
  BY <1>3, <1>4 DEF IsMultiple
<1>8. IsMultiple(n * f, f)
  BY DEF IsMultiple
<1>9. IsMultiple(-a, f)
  BY <1>3, <1>4 DEF IsMultiple
<1> QED BY <1>5, <1>6, <1>7, <1>8, <1>9

\* The greatest multiple that is not above v.
LEMMA FloorIsGreatest ==
  ASSUME NEW f \in Nat \ {0}, NEW v \in Int
  PROVE  LET u == (v \div f) * f
         IN  /\ u \in Int /\ IsMultiple(u, f) /\ u <= v /\ v < u + f
             /\ \A w : IsMultiple(w, f) /\ w <= v => w <= u
<1> DEFINE u == (v \div f) * f
<1>1. v \div f \in Int /\ v % f \in Nat /\ v % f < f /\ v = f * (v \div f) + (v % f)
  BY DivMod
<1>2. u \in Int /\ IsMultiple(u, f)
  <2>1. PICK q \in Int : q = v \div f
    BY <1>1
  <2>2. q * f \in Int /\ IsMultiple(q * f, f)
    BY DEF IsMultiple
  <2> QED BY <2>1, <2>2
<1>3. u <= v /\ v < u + f
  BY <1>1
<1>4. ASSUME NEW w, IsMultiple(w, f), w <= v PROVE w <= u
  <2>1. w \in Int
    BY <1>4 DEF IsMultiple
  <2> SUFFICES ASSUME u < w PROVE FALSE
    BY <1>2, <2>1
  <2>2. u + f <= w
    BY <1>2, <1>4, MultiplesApart
  <2> HIDE DEF u
  <2> QED BY <1>2, <1>3, <1>4, <2>1, <2>2
<1> QED BY <1>2, <1>3, <1>4

\* There is one multiple between v - f and v.
LEMMA FloorIsUnique ==
  ASSUME NEW f \in Nat \ {0}, NEW v \in Int, NEW u, IsMultiple(u, f), u <= v, v < u + f
  PROVE  (v \div f) * f = u
<1> DEFINE w == (v \div f) * f
<1>1. w \in Int /\ IsMultiple(w, f) /\ w <= v /\ v < w + f /\ u <= w /\ u \in Int
  <2>1. u \in Int
    BY DEF IsMultiple
  <2>2. w \in Int /\ IsMultiple(w, f) /\ w <= v /\ v < w + f /\ u <= w
    BY FloorIsGreatest
  <2> QED BY <2>1, <2>2
<1>2. ~(u < w)
  <2> SUFFICES ASSUME u < w PROVE FALSE
    OBVIOUS
  <2>1. u + f <= w
    BY <1>1, MultiplesApart
  <2> HIDE DEF w
  <2> QED BY <1>1, <2>1
<1> HIDE DEF w
<1>3. w = u
  BY <1>1, <1>2
<1> QED BY <1>3 DEF w

\* The range of the signed integers.
LEMMA SignedRange ==
  LET half == UintModulus \div 2
  IN  half \in Nat \ {0} /\ UintModulus = 2 * half /\ IntMin = -half /\ IntMax = half - 1
BY UintAssumption DEF IntMin, IntMax

\* The powers of two that a signed integer holds are factors.
LEMMA PowersAreFactors ==
  ASSUME NEW n \in Nat, PowerOfTwo[n] <= IntMax
  PROVE  n <= 30 /\ IsFactor(PowerOfTwo[n])
<1>1. PICK width \in 1 .. 32 : UintModulus = PowerOfTwo[width]
  BY UintWidthAssumption
<1> DEFINE half == PowerOfTwo[width - 1]
<1>2. width - 1 \in Nat /\ (width - 1) + 1 = width
  OBVIOUS
<1>3. half \in Nat \ {0} /\ UintModulus = 2 * half
  BY <1>1, <1>2, PowerPositive, PowerRecursion
<1>4. UintModulus \div 2 = half /\ IntMax = half - 1
  <2> HIDE DEF half
  <2> QED BY <1>3, SignedRange
<1>5. PowerOfTwo[n] \in Nat \ {0}
  BY PowerPositive
<1>6. n < width - 1
  <2> SUFFICES ASSUME width - 1 <= n PROVE FALSE
    BY <1>2
  <2>1. PICK m \in Nat : (width - 1) + m = n
    <3>1. n - (width - 1) \in Nat /\ (width - 1) + (n - (width - 1)) = n
      BY <1>2
    <3> QED BY <3>1
  <2>2. PICK k \in Nat \ {0} : PowerOfTwo[n] = k * half
    <3>1. \E k \in Nat \ {0} : PowerOfTwo[(width - 1) + m] = k * half
      BY <1>2, PowerDivides
    <3> QED BY <2>1, <3>1
  <2> HIDE DEF half
  <2>3. half <= k * half
    BY <1>3
  <2> QED BY <1>3, <1>4, <1>5, <2>2, <2>3
<1>7. IsMultiple(half, PowerOfTwo[n])
  <2>1. PICK m \in Nat : n + m = width - 1
    <3>1. (width - 1) - n \in Nat /\ n + ((width - 1) - n) = width - 1
      BY <1>2, <1>6
    <3> QED BY <3>1
  <2>2. PICK k \in Nat \ {0} : half = k * PowerOfTwo[n]
    <3>1. \E k \in Nat \ {0} : PowerOfTwo[n + m] = k * PowerOfTwo[n]
      BY PowerDivides
    <3> QED BY <2>1, <3>1
  <2> QED BY <2>2 DEF IsMultiple
<1> HIDE DEF half
<1> QED BY <1>2, <1>4, <1>5, <1>6, <1>7 DEF IsFactor

\* Latching is taking the multiple below, of the unsigned integer, as signed.
LEMMA LatchOfUint ==
  ASSUME NEW f, IsFactor(f), NEW v \in Int
  PROVE  LET u == (ToUint(v) \div f) * f
         IN  /\ u \in Nat /\ u < UintModulus /\ IsMultiple(u, f)
             /\ u <= ToUint(v) /\ ToUint(v) < u + f
             /\ Latch(v, f) = IF u <= IntMax THEN u ELSE u - UintModulus
<1> DEFINE u == (ToUint(v) \div f) * f
<1>1. f \in Nat \ {0}
  BY DEF IsFactor
<1>2. ToUint(v) \in Int /\ ToUint(v) \in 0 .. UintModulus - 1 /\ UintModulus \in Nat
  BY ConversionsAreInts, UintAssumption
<1>3. /\ u \in Int /\ IsMultiple(u, f) /\ u <= ToUint(v) /\ ToUint(v) < u + f
      /\ \A w : IsMultiple(w, f) /\ w <= ToUint(v) => w <= u
  BY <1>1, <1>2, FloorIsGreatest
<1>4. IsMultiple(0, f)
  <2>1. 0 = 0 * f
    BY <1>1
  <2> QED BY <2>1 DEF IsMultiple
<1>5. Latch(v, f) = IF u <= IntMax THEN u ELSE u - UintModulus
  BY DEF Latch, ToInt
<1> HIDE DEF u
<1>6. 0 <= u
  BY <1>2, <1>3, <1>4
<1>7. u \in Nat /\ u < UintModulus
  BY <1>2, <1>3, <1>6
<1> QED BY <1>3, <1>5, <1>7 DEF u

\* The range itself is a multiple, and so is its lower end.
LEMMA RangeIsMultiple ==
  ASSUME NEW f, IsFactor(f)
  PROVE  /\ f \in Nat \ {0}
         /\ IsMultiple(UintModulus, f) /\ IsMultiple(UintModulus \div 2, f) /\ IsMultiple(IntMin, f)
<1>1. f \in Nat \ {0} /\ IsMultiple(UintModulus \div 2, f)
  BY DEF IsFactor
<1>2. IsMultiple((UintModulus \div 2) + (UintModulus \div 2), f) /\ IsMultiple(-(UintModulus \div 2), f)
  BY <1>1, MultipleArithmetic
<1>3. UintModulus = (UintModulus \div 2) + (UintModulus \div 2)
  BY SignedRange
<1> QED BY <1>1, <1>2, <1>3 DEF IntMin

\* Whatever is latched, the result is a multiple that a signed integer holds.
LEMMA LatchInRange ==
  ASSUME NEW f, IsFactor(f), NEW v \in Int
  PROVE  /\ Latch(v, f) \in Int /\ IsMultiple(Latch(v, f), f)
         /\ IntMin <= Latch(v, f) /\ Latch(v, f) <= IntMax
<1>1. PICK u : /\ u \in Nat /\ u < UintModulus /\ IsMultiple(u, f)
               /\ Latch(v, f) = IF u <= IntMax THEN u ELSE u - UintModulus
  BY LatchOfUint
<1>2. IsMultiple(u - UintModulus, f)
  BY <1>1, RangeIsMultiple, MultipleArithmetic
<1>3. PICK half \in Nat \ {0} : UintModulus = 2 * half /\ IntMin = -half /\ IntMax = half - 1
  BY SignedRange
<1> QED BY <1>1, <1>2, <1>3

\* A signed integer is latched to the greatest multiple that is not above it,
\* negative or not.
LEMMA LatchIsFloor ==
  ASSUME NEW f, IsFactor(f), NEW v \in Int, IntMin <= v, v <= IntMax
  PROVE  /\ Latch(v, f) <= v /\ v < Latch(v, f) + f
         /\ \A w : IsMultiple(w, f) /\ w <= v => w <= Latch(v, f)
<1>1. PICK u : /\ u \in Nat /\ u < UintModulus /\ IsMultiple(u, f)
               /\ u <= ToUint(v) /\ ToUint(v) < u + f
               /\ Latch(v, f) = IF u <= IntMax THEN u ELSE u - UintModulus
  BY LatchOfUint
<1>2. PICK half \in Nat \ {0} : /\ UintModulus = 2 * half /\ IntMin = -half /\ IntMax = half - 1
                               /\ half = UintModulus \div 2
  BY SignedRange
<1>3. f \in Nat \ {0} /\ IsMultiple(half, f)
  BY <1>2 DEF IsFactor
<1>4. ToUint(v) = IF v < 0 THEN v + UintModulus ELSE v
  BY <1>2 DEF ToUint
<1>5. Latch(v, f) <= v /\ v < Latch(v, f) + f
  <2>1. CASE v < 0
    <3>1. half <= ToUint(v) /\ ToUint(v) \in Int
      BY <1>2, <1>4, <2>1
    <3>2. half <= u
      <4> SUFFICES ASSUME u < half PROVE FALSE
        BY <1>1, <1>2
      <4>1. u + f <= half
        BY <1>1, <1>3, MultiplesApart
      <4> QED BY <1>1, <1>2, <1>3, <3>1, <4>1
    <3> QED BY <1>1, <1>2, <1>3, <1>4, <2>1, <3>2
  <2>2. CASE v >= 0
    BY <1>1, <1>2, <1>3, <1>4, <2>2
  <2> QED BY <2>1, <2>2
<1>6. Latch(v, f) \in Int /\ IsMultiple(Latch(v, f), f)
  BY LatchInRange
<1>7. ASSUME NEW w, IsMultiple(w, f), w <= v PROVE w <= Latch(v, f)
  <2>1. w \in Int
    BY <1>3, <1>7 DEF IsMultiple
  <2> SUFFICES ASSUME Latch(v, f) < w PROVE FALSE
    BY <1>6, <2>1
  <2>2. Latch(v, f) + f <= w
    BY <1>3, <1>6, <1>7, MultiplesApart
  <2> QED BY <1>3, <1>5, <1>6, <1>7, <2>1, <2>2
<1> QED BY <1>5, <1>7

\* The upper bound of a rectangle is latched to the least multiple that is not
\* below it; if no signed integer holds that one, to the least of all.
LEMMA LatchIsCeiling ==
  ASSUME NEW f, IsFactor(f), NEW v \in Int, IntMin <= v, v <= IntMax
  PROVE  LET u == Latch(v + f - 1, f)
         IN  /\ v + f - 1 <= IntMax => v <= u /\ u < v + f
             /\ v + f - 1 > IntMax => u = IntMin
             /\ IntMin < u => \A w : IsMultiple(w, f) /\ v <= w => u <= w
<1> DEFINE u == Latch(v + f - 1, f)
<1>1. PICK half \in Nat \ {0} : /\ UintModulus = 2 * half /\ IntMin = -half /\ IntMax = half - 1
                               /\ half = UintModulus \div 2
  BY SignedRange
<1>2. f \in Nat \ {0} /\ IsMultiple(half, f) /\ v + f - 1 \in Int
  BY <1>1 DEF IsFactor
<1>3. u \in Int /\ IsMultiple(u, f)
  BY <1>2, LatchInRange
<1>4. CASE v + f - 1 <= IntMax
  <2>1. IntMin <= v + f - 1
    BY <1>1, <1>2
  <2>2. u <= v + f - 1 /\ v + f - 1 < u + f
    BY <1>2, <1>4, <2>1, LatchIsFloor
  <2> HIDE DEF u
  <2>3. v <= u /\ u < v + f
    BY <1>2, <1>3, <2>2
  <2>4. ASSUME NEW w, IsMultiple(w, f), v <= w PROVE u <= w
    <3>1. w \in Int
      BY <1>2, <2>4 DEF IsMultiple
    <3> SUFFICES ASSUME w < u PROVE FALSE
      BY <1>3, <3>1
    <3>2. w + f <= u
      BY <1>2, <1>3, <2>4, MultiplesApart
    <3> QED BY <1>2, <1>3, <2>3, <2>4, <3>1, <3>2
  <2>5. ~(v + f - 1 > IntMax)
    BY <1>1, <1>2, <1>4
  <2> QED BY <2>3, <2>4, <2>5 DEF u
<1>5. CASE v + f - 1 > IntMax
  <2>1. PICK n : /\ n \in Nat /\ n < UintModulus /\ IsMultiple(n, f)
                 /\ n <= ToUint(v + f - 1) /\ ToUint(v + f - 1) < n + f
                 /\ u = IF n <= IntMax THEN n ELSE n - UintModulus
    BY <1>2, LatchOfUint
  <2>2. f <= half
    <3>1. IsMultiple(0, f)
      <4>1. 0 = 0 * f
        BY <1>2
      <4> QED BY <4>1 DEF IsMultiple
    <3>2. 0 + f <= half
      <4>1. half \in Int /\ 0 < half
        BY <1>1
      <4> QED BY <1>2, <3>1, <4>1, MultiplesApart
    <3> QED BY <1>2, <3>2
  <2>3. ToUint(v + f - 1) = v + f - 1
    BY <1>1, <1>2, <1>5, <2>2 DEF ToUint
  <2>4. n = half
    <3>1. ~(n < half)
      <4> SUFFICES ASSUME n < half PROVE FALSE
        OBVIOUS
      <4>1. n + f <= half
        BY <1>2, <2>1, MultiplesApart
      <4> QED BY <1>1, <1>2, <1>5, <2>1, <2>3, <4>1
    <3>2. ~(half < n)
      <4> SUFFICES ASSUME half < n PROVE FALSE
        OBVIOUS
      <4>1. half + f <= n
        BY <1>2, <2>1, MultiplesApart
      <4> QED BY <1>1, <1>2, <1>5, <2>1, <2>3, <4>1
    <3> QED BY <1>1, <2>1, <3>1, <3>2
  <2>5. u = IntMin
    <3> HIDE DEF u
    <3> QED BY <1>1, <2>1, <2>4
  <2>6. ~(v + f - 1 <= IntMax) /\ ~(IntMin < u)
    <3> HIDE DEF u
    <3> QED BY <1>1, <1>2, <1>5, <2>5
  <2> QED BY <2>5, <2>6
<1>6. v + f - 1 <= IntMax \/ v + f - 1 > IntMax
  BY <1>1, <1>2
<1> QED BY <1>4, <1>5, <1>6

\* A latched rectangle is a rectangle.
LEMMA EnlargeAndLatchType ==
  ASSUME NEW r \in IntRect, NEW m \in Nat \ {0}
  PROVE  EnlargeAndLatch(r, m) \in IntRect
<1>1. /\ r.x \in Int /\ r.y \in Int
      /\ r.x + r.w + m - 1 \in Int /\ r.y + r.h + m - 1 \in Int
  BY DEF IntRect
<1>2. /\ Latch(r.x, m) \in Int /\ Latch(r.y, m) \in Int
      /\ Latch(r.x + r.w + m - 1, m) \in Int /\ Latch(r.y + r.h + m - 1, m) \in Int
  BY <1>1, LatchIsInt
<1> QED BY <1>2 DEF EnlargeAndLatch, IntRect

\* A non-empty intersection is a rectangle that both contain.
LEMMA IntersectIsContained ==
  ASSUME NEW a \in IntRect, NEW b \in IntRect
  PROVE  /\ Intersect(a, b) \in IntRect
         /\ IsNonEmpty(Intersect(a, b)) =>
              Contains(a, Intersect(a, b)) /\ Contains(b, Intersect(a, b))
BY DEF IntRect, Intersect, IsNonEmpty, Contains, Greater, Lesser, EmptyRect

\* The bounding box of rectangles within a region is the least rectangle that
\* contains them.
LEMMA BoundingBoxIsLeast ==
  ASSUME NEW rects \in SUBSET IntRect, rects # {}, NEW region \in IntRect,
         \A r \in rects : IsNonEmpty(r) /\ Contains(region, r)
  PROVE  /\ BoundingBox(rects) \in IntRect
         /\ IsNonEmpty(BoundingBox(rects))
         /\ Contains(region, BoundingBox(rects))
         /\ \A r \in rects : Contains(BoundingBox(rects), r)
<1> DEFINE X1 == {r.x : r \in rects}
           Y1 == {r.y : r \in rects}
           X2 == {r.x + r.w : r \in rects}
           Y2 == {r.y + r.h : r \in rects}
           Low(S) == CHOOSE v \in S : \A u \in S : v <= u
           High(S) == CHOOSE v \in S : \A u \in S : v >= u
<1>1. PICK q \in rects : TRUE
  OBVIOUS
<1>2. \A r \in rects : /\ r \in IntRect /\ r.x \in Int /\ r.y \in Int /\ r.w \in Int /\ r.h \in Int
                       /\ r.w > 0 /\ r.h > 0
                       /\ region.x <= r.x /\ r.x + r.w <= region.x + region.w
                       /\ region.y <= r.y /\ r.y + r.h <= region.y + region.h
  BY DEF IntRect, IsNonEmpty, Contains
<1>3. region.x \in Int /\ region.y \in Int /\ region.w \in Int /\ region.h \in Int
  BY DEF IntRect
<1>4. Low(X1) \in X1 /\ \A u \in X1 : Low(X1) <= u
  <2>1. X1 \in SUBSET Int /\ (\A v \in X1 : region.x <= v) /\ q.x \in X1
    BY <1>1, <1>2
  <2> HIDE DEF X1
  <2> QED BY <1>3, <2>1, LeastExists
<1>5. Low(Y1) \in Y1 /\ \A u \in Y1 : Low(Y1) <= u
  <2>1. Y1 \in SUBSET Int /\ (\A v \in Y1 : region.y <= v) /\ q.y \in Y1
    BY <1>1, <1>2
  <2> HIDE DEF Y1
  <2> QED BY <1>3, <2>1, LeastExists
<1>6. High(X2) \in X2 /\ \A u \in X2 : High(X2) >= u
  <2>1. X2 \in SUBSET Int /\ (\A v \in X2 : v <= region.x + region.w) /\ q.x + q.w \in X2
    BY <1>1, <1>2
  <2>2. region.x + region.w \in Int
    BY <1>3
  <2> HIDE DEF X2
  <2> QED BY <2>1, <2>2, GreatestExists
<1>7. High(Y2) \in Y2 /\ \A u \in Y2 : High(Y2) >= u
  <2>1. Y2 \in SUBSET Int /\ (\A v \in Y2 : v <= region.y + region.h) /\ q.y + q.h \in Y2
    BY <1>1, <1>2
  <2>2. region.y + region.h \in Int
    BY <1>3
  <2> HIDE DEF Y2
  <2> QED BY <2>1, <2>2, GreatestExists
<1>8. BoundingBox(rects) = [x |-> Low(X1), y |-> Low(Y1),
                            w |-> High(X2) - Low(X1), h |-> High(Y2) - Low(Y1)]
  BY DEF BoundingBox
<1>9. \A r \in rects : /\ Low(X1) <= r.x /\ r.x + r.w <= High(X2)
                       /\ Low(Y1) <= r.y /\ r.y + r.h <= High(Y2)
  BY <1>4, <1>5, <1>6, <1>7
<1>10. /\ Low(X1) \in Int /\ region.x <= Low(X1)
       /\ Low(Y1) \in Int /\ region.y <= Low(Y1)
       /\ High(X2) \in Int /\ High(X2) <= region.x + region.w
       /\ High(Y2) \in Int /\ High(Y2) <= region.y + region.h
  <2>1. /\ \A v \in X1 : v \in Int /\ region.x <= v
        /\ \A v \in Y1 : v \in Int /\ region.y <= v
    BY <1>2
  <2>2. \A v \in X2 : v \in Int /\ v <= region.x + region.w
    BY <1>2
  <2>3. \A v \in Y2 : v \in Int /\ v <= region.y + region.h
    BY <1>2
  <2> HIDE DEF X1, Y1, X2, Y2, Low, High
  <2> QED BY <1>4, <1>5, <1>6, <1>7, <2>1, <2>2, <2>3
<1> HIDE DEF X1, Y1, X2, Y2, Low, High
<1>11. BoundingBox(rects) \in IntRect
  BY <1>8, <1>10 DEF IntRect
<1>12. IsNonEmpty(BoundingBox(rects))
  BY <1>1, <1>2, <1>8, <1>9, <1>10 DEF IsNonEmpty
<1>13. Contains(region, BoundingBox(rects))
  BY <1>3, <1>8, <1>10 DEF Contains
<1>14. \A r \in rects : Contains(BoundingBox(rects), r)
  BY <1>2, <1>8, <1>9, <1>10 DEF Contains
<1> QED BY <1>11, <1>12, <1>13, <1>14

\* GetMinimalRectForRoi stays within the roi and contains every part of a tile
\* that lies in it; it is empty only if no tile meets the roi.
LEMMA MinimalRectIsLeast ==
  ASSUME NEW tiles \in SUBSET IntRect, NEW roi \in IntRect
  PROVE  LET minimal == GetMinimalRectForRoi(tiles, roi)
         IN  /\ minimal \in IntRect
             /\ IsNonEmpty(minimal) <=> \E t \in tiles : IsNonEmpty(Intersect(t, roi))
             /\ IsNonEmpty(minimal) => Contains(roi, minimal)
             /\ \A t \in tiles : IsNonEmpty(Intersect(t, roi))
                                   => Contains(minimal, Intersect(t, roi))
<1> DEFINE parts == {p \in {Intersect(t, roi) : t \in tiles} : IsNonEmpty(p)}
<1>1. parts \in SUBSET IntRect /\ \A p \in parts : IsNonEmpty(p) /\ Contains(roi, p)
  BY IntersectIsContained
<1>2. GetMinimalRectForRoi(tiles, roi) = BoundingBox(parts)
  BY DEF GetMinimalRectForRoi
<1>3. \A t \in tiles : IsNonEmpty(Intersect(t, roi)) => Intersect(t, roi) \in parts
  OBVIOUS
<1>4. \A p \in parts : \E t \in tiles : p = Intersect(t, roi)
  OBVIOUS
<1>5. CASE parts = {}
  <2>1. BoundingBox(parts) = EmptyRect
    BY <1>5 DEF BoundingBox
  <2>2. EmptyRect \in IntRect /\ ~IsNonEmpty(EmptyRect)
    BY DEF EmptyRect, IntRect, IsNonEmpty
  <2> QED BY <1>2, <1>3, <1>5, <2>1, <2>2
<1>6. CASE parts # {}
  <2>1. \E t \in tiles : IsNonEmpty(Intersect(t, roi))
    BY <1>1, <1>4, <1>6
  <2> HIDE DEF parts
  <2>2. /\ BoundingBox(parts) \in IntRect /\ IsNonEmpty(BoundingBox(parts))
        /\ Contains(roi, BoundingBox(parts))
        /\ \A p \in parts : Contains(BoundingBox(parts), p)
    BY <1>1, <1>6, BoundingBoxIsLeast
  <2> QED BY <1>2, <1>3, <2>1, <2>2
<1> QED BY <1>5, <1>6

\* Every cell of a tiling is a rectangle.
LEMMA GetRoiType ==
  ASSUME NEW roi \in IntRect, NEW tw \in Nat \ {0}, NEW th \in Nat \ {0},
         NEW no \in Nat, no < GetNumberOfTiles(roi, tw, th)
  PROVE  GetRoi(roi, tw, th, no) \in IntRect
<1> DEFINE perRow == TilesPerRow(roi, tw)
           rows == ToUint(roi.h + th - 1) \div th
<1>1. roi.x \in Int /\ roi.y \in Int /\ roi.w \in Int /\ roi.h \in Int
  BY DEF IntRect
<1>2. perRow \in Nat /\ rows \in Nat
  <2>1. roi.w + tw - 1 \in Int /\ roi.h + th - 1 \in Int
    BY <1>1
  <2>2. ToUint(roi.w + tw - 1) \in Nat /\ ToUint(roi.h + th - 1) \in Nat
    BY <2>1, ConversionsAreInts, UintAssumption
  <2> QED BY <2>2 DEF TilesPerRow
<1>3. perRow # 0
  <2> SUFFICES ASSUME perRow = 0 PROVE FALSE
    OBVIOUS
  <2>1. GetNumberOfTiles(roi, tw, th) = ToUint(0)
    BY <1>2 DEF GetNumberOfTiles
  <2>2. ToUint(0) = 0
    BY UintAssumption DEF ToUint
  <2> QED BY <2>1, <2>2
<1> DEFINE row == no \div perRow
           col == no % perRow
<1>4. row \in Int /\ col \in Int
  <2> HIDE DEF perRow
  <2> QED BY <1>2, <1>3, DivMod
<1>5. col * tw \in Int /\ row * th \in Int
  <2> HIDE DEF row, col
  <2> QED BY <1>4
<1> DEFINE dx == ToInt(ToUint(col * tw))
           dy == ToInt(ToUint(row * th))
<1>6. dx \in Int /\ dy \in Int /\ ToInt(tw) \in Int /\ ToInt(th) \in Int
  <2> HIDE DEF row, col
  <2>1. ToUint(col * tw) \in Int /\ ToUint(row * th) \in Int
    BY <1>5, ConversionsAreInts
  <2> QED BY <2>1, ConversionsAreInts
<1>7. GetRoi(roi, tw, th, no) =
        [x |-> roi.x + dx, y |-> roi.y + dy,
         w |-> Lesser(ToInt(tw), roi.w - dx), h |-> Lesser(ToInt(th), roi.h - dy)]
  BY DEF GetRoi
<1> HIDE DEF dx, dy
<1> QED BY <1>1, <1>6, <1>7 DEF IntRect, Lesser

-----------------------------------------------------------------------------
(* Cells, and the tiles cut to them.                                       *)

\* What the tiling means by a cell, apart from overflows and the region's end.
CellBox(roi, tw, th, no) ==
  [x |-> roi.x + (no % TilesPerRow(roi, tw)) * tw,
   y |-> roi.y + (no \div TilesPerRow(roi, tw)) * th,
   w |-> tw, h |-> th]

\* A cell has a row and a column.
LEMMA CellRowAndColumn ==
  ASSUME NEW roi \in IntRect, NEW tw \in Nat \ {0}, NEW th \in Nat \ {0},
         NEW no \in Nat, no < GetNumberOfTiles(roi, tw, th)
  PROVE  /\ TilesPerRow(roi, tw) \in Nat \ {0}
         /\ no % TilesPerRow(roi, tw) \in Nat
         /\ no % TilesPerRow(roi, tw) < TilesPerRow(roi, tw)
         /\ no \div TilesPerRow(roi, tw) \in Nat
         /\ no \div TilesPerRow(roi, tw) < ToUint(roi.h + th - 1) \div th
<1> DEFINE perRow == TilesPerRow(roi, tw)
           rows == ToUint(roi.h + th - 1) \div th
<1>1. perRow \in Nat /\ rows \in Nat
  <2>1. roi.w + tw - 1 \in Int /\ roi.h + th - 1 \in Int
    BY DEF IntRect
  <2>2. ToUint(roi.w + tw - 1) \in Nat /\ ToUint(roi.h + th - 1) \in Nat
    BY <2>1, ConversionsAreInts, UintAssumption
  <2> QED BY <2>2 DEF TilesPerRow
<1>2. no < perRow * rows
  <2>1. GetNumberOfTiles(roi, tw, th) = ToUint(perRow * rows)
    BY DEF GetNumberOfTiles
  <2> HIDE DEF perRow, rows
  <2>2. perRow * rows \in Nat
    BY <1>1
  <2>3. ToUint(perRow * rows) <= perRow * rows
    BY <2>2, UintAssumption DEF ToUint
  <2>4. ToUint(perRow * rows) \in Int
    BY <2>2, ConversionsAreInts
  <2> QED BY <2>1, <2>2, <2>3, <2>4
<1> HIDE DEF perRow, rows
<1>3. perRow # 0
  BY <1>1, <1>2
<1>4. /\ no \div perRow \in Int /\ no % perRow \in Nat /\ no % perRow < perRow
      /\ no = perRow * (no \div perRow) + (no % perRow)
  BY <1>1, <1>3, DivMod
<1> DEFINE row == no \div perRow
           col == no % perRow
<1>5. row >= 0
  <2> HIDE DEF row, col
  <2> SUFFICES ASSUME row < 0 PROVE FALSE
    BY <1>4 DEF row
  <2>1. row \in Int /\ col < perRow /\ col \in Nat /\ no = perRow * row + col
    BY <1>4 DEF row, col
  <2>2. perRow * row <= perRow * (-1)
    BY <1>1, <1>3, <2>1
  <2> QED BY <1>1, <2>1, <2>2
<1>6. row < rows
  <2> HIDE DEF row, col
  <2> SUFFICES ASSUME rows <= row PROVE FALSE
    BY <1>1, <1>4 DEF row
  <2>1. row \in Int /\ col < perRow /\ col \in Nat /\ no = perRow * row + col
    BY <1>4 DEF row, col
  <2>2. perRow * rows <= perRow * row
    BY <1>1, <1>3, <2>1
  <2>3. perRow * rows \in Int /\ perRow * row \in Int
    BY <1>1, <2>1
  <2> QED BY <1>2, <2>1, <2>2, <2>3
<1> QED BY <1>1, <1>3, <1>4, <1>5, <1>6 DEF perRow, rows

\* One side of a cell.  The part of it that lies behind the region's start is
\* within the cell's regular place, although the offset is converted to a signed
\* integer: where that overflows, nothing of the cell lies behind the start.
LEMMA SideOfCell ==
  ASSUME NEW start \in Int, NEW size \in Int, NEW tw \in Nat \ {0}, tw < UintModulus,
         NEW n \in Nat, n < ToUint(size + tw - 1) \div tw,
         NEW a \in Int, NEW b \in Int, start <= a
  PROVE  LET d  == ToInt(ToUint(n * tw))
             lo == Greater(a, start + d)
             hi == Lesser(b, start + d + Lesser(ToInt(tw), size - d))
         IN  lo < hi => start + n * tw <= lo /\ hi <= start + n * tw + tw
<1> DEFINE sum == ToUint(size + tw - 1)
           count == sum \div tw
<1>1. sum \in Nat /\ sum < UintModulus /\ UintModulus \in Nat \ {0}
  <2>1. PICK s \in Int : s = size + tw - 1
    <3>1. size + tw \in Int
      OBVIOUS
    <3> QED BY <3>1
  <2>2. UintModulus \in Nat \ {0}
    BY UintAssumption
  <2>3. s % UintModulus \in Nat /\ s % UintModulus < UintModulus
    BY <2>1, <2>2
  <2> QED BY <2>1, <2>2, <2>3 DEF ToUint
<1>2. count \in Int /\ tw * count <= sum
  <2> HIDE DEF sum
  <2> QED BY <1>1, DivMod
<1> HIDE DEF sum
<1>3. n * tw \in Nat /\ n * tw + tw < UintModulus
  <2>1. n + 1 <= count
    BY <1>2 DEF sum
  <2> HIDE DEF count
  <2>2. tw * (n + 1) <= tw * count
    BY <1>2, <2>1
  <2>3. tw * (n + 1) = n * tw + tw /\ n * tw \in Nat /\ tw * count \in Int
    BY <1>2
  <2> QED BY <1>1, <1>2, <2>2, <2>3
<1>4. PICK off \in Nat : off = n * tw
  BY <1>3
<1>5. ToUint(n * tw) = off
  <2>1. off < UintModulus
    BY <1>1, <1>3, <1>4
  <2> QED BY <1>1, <1>4, <2>1 DEF ToUint
<1>6. PICK half \in Nat \ {0} : UintModulus = 2 * half /\ IntMax = half - 1
  BY SignedRange
<1>7. off + tw < UintModulus
  BY <1>3, <1>4
<1> DEFINE d  == ToInt(off)
           w  == Lesser(ToInt(tw), size - d)
           lo == Greater(a, start + d)
           hi == Lesser(b, start + d + w)
<1>8. lo < hi => start + off <= lo /\ hi <= start + off + tw
  <2>1. CASE tw > IntMax
    <3>1. w < 0 /\ w \in Int /\ d \in Int
      BY <1>6, <2>1 DEF ToInt, Lesser
    <3> HIDE DEF w, d
    <3>2. ~(lo < hi)
      BY <3>1 DEF Greater, Lesser
    <3> QED BY <3>2
  <2>2. CASE tw <= IntMax /\ off <= IntMax
    <3>1. d = off /\ w <= tw /\ w \in Int
      BY <1>6, <2>2 DEF ToInt, Lesser
    <3> HIDE DEF w, d
    <3> QED BY <3>1 DEF Greater, Lesser
  <2>3. CASE tw <= IntMax /\ off > IntMax
    <3>1. d = off - UintModulus /\ w <= tw /\ w \in Int
      BY <1>6, <2>3 DEF ToInt, Lesser
    <3> HIDE DEF w, d
    <3>2. ~(lo < hi)
      BY <1>6, <1>7, <3>1 DEF Greater, Lesser
    <3> QED BY <3>2
  <2> QED BY <1>6, <2>1, <2>2, <2>3
<1> HIDE DEF d, w, lo, hi
<1> QED BY <1>4, <1>5, <1>8 DEF d, w, lo, hi

\* What lies in a cell, of a rectangle behind the region's start, is within the
\* cell's regular place.
LEMMA PartsOfCell ==
  ASSUME NEW roi \in IntRect, NEW tw \in Nat \ {0}, tw < UintModulus,
         NEW th \in Nat \ {0}, th < UintModulus,
         NEW no \in Nat, no < GetNumberOfTiles(roi, tw, th),
         NEW t \in IntRect, roi.x <= t.x, roi.y <= t.y,
         IsNonEmpty(Intersect(t, GetRoi(roi, tw, th, no)))
  PROVE  Contains(CellBox(roi, tw, th, no), Intersect(t, GetRoi(roi, tw, th, no)))
<1> DEFINE perRow == TilesPerRow(roi, tw)
           col == no % perRow
           row == no \div perRow
           cell == GetRoi(roi, tw, th, no)
           p == Intersect(t, cell)
<1>1. /\ col \in Nat /\ col < perRow
      /\ row \in Nat /\ row < ToUint(roi.h + th - 1) \div th
  BY CellRowAndColumn
<1>2. /\ roi.x \in Int /\ roi.y \in Int /\ roi.w \in Int /\ roi.h \in Int
      /\ t.x \in Int /\ t.y \in Int /\ t.x + t.w \in Int /\ t.y + t.h \in Int
  BY DEF IntRect
<1> DEFINE dx == ToInt(ToUint(col * tw))
           dy == ToInt(ToUint(row * th))
<1>3. cell = [x |-> roi.x + dx, y |-> roi.y + dy,
              w |-> Lesser(ToInt(tw), roi.w - dx), h |-> Lesser(ToInt(th), roi.h - dy)]
  BY DEF GetRoi
<1> DEFINE x1 == Greater(t.x, roi.x + dx)
           y1 == Greater(t.y, roi.y + dy)
           x2 == Lesser(t.x + t.w, roi.x + dx + Lesser(ToInt(tw), roi.w - dx))
           y2 == Lesser(t.y + t.h, roi.y + dy + Lesser(ToInt(th), roi.h - dy))
<1>4. x1 < x2 => roi.x + col * tw <= x1 /\ x2 <= roi.x + col * tw + tw
  <2> HIDE DEF col, row
  <2>1. col < ToUint(roi.w + tw - 1) \div tw
    BY <1>1 DEF TilesPerRow
  <2> QED BY <1>1, <1>2, <2>1, SideOfCell
<1>5. y1 < y2 => roi.y + row * th <= y1 /\ y2 <= roi.y + row * th + th
  <2> HIDE DEF col, row
  <2> QED BY <1>1, <1>2, SideOfCell
<1>6. x1 < x2 /\ y1 < y2 /\ p = [x |-> x1, y |-> y1, w |-> x2 - x1, h |-> y2 - y1]
  <2> HIDE DEF dx, dy
  <2> QED BY <1>3 DEF Intersect, IsNonEmpty, EmptyRect
<1>7. x1 \in Int /\ x2 \in Int /\ y1 \in Int /\ y2 \in Int
  <2>1. col * tw \in Int /\ row * th \in Int
    <3> HIDE DEF col, row
    <3> QED BY <1>1
  <2>2. ToUint(col * tw) \in Int /\ ToUint(row * th) \in Int
    BY <2>1, ConversionsAreInts
  <2>3. dx \in Int /\ dy \in Int /\ ToInt(tw) \in Int /\ ToInt(th) \in Int
    BY <2>2, ConversionsAreInts
  <2> HIDE DEF dx, dy
  <2> QED BY <1>2, <2>3 DEF Greater, Lesser
<1>8. CellBox(roi, tw, th, no) = [x |-> roi.x + col * tw, y |-> roi.y + row * th, w |-> tw, h |-> th]
  BY DEF CellBox
<1>9. col * tw \in Int /\ row * th \in Int
  <2> HIDE DEF col, row
  <2> QED BY <1>1
<1> HIDE DEF x1, x2, y1, y2, col, row, p, cell
<1> QED BY <1>2, <1>4, <1>5, <1>6, <1>7, <1>8, <1>9 DEF Contains, p, cell

\* GetMinimalRectForRoi stays within whatever contains the parts it unites.
LEMMA MinimalRectWithin ==
  ASSUME NEW tiles \in SUBSET IntRect, NEW roi \in IntRect, NEW region \in IntRect,
         \A t \in tiles : IsNonEmpty(Intersect(t, roi)) => Contains(region, Intersect(t, roi)),
         IsNonEmpty(GetMinimalRectForRoi(tiles, roi))
  PROVE  Contains(region, GetMinimalRectForRoi(tiles, roi))
<1> DEFINE parts == {p \in {Intersect(t, roi) : t \in tiles} : IsNonEmpty(p)}
<1>1. parts \in SUBSET IntRect /\ \A p \in parts : IsNonEmpty(p) /\ Contains(region, p)
  BY IntersectIsContained
<1>2. GetMinimalRectForRoi(tiles, roi) = BoundingBox(parts)
  BY DEF GetMinimalRectForRoi
<1> HIDE DEF parts
<1>3. parts # {}
  <2>1. parts = {} => ~IsNonEmpty(BoundingBox(parts))
    BY DEF BoundingBox, EmptyRect, IsNonEmpty
  <2> QED BY <1>2, <2>1
<1> QED BY <1>1, <1>2, <1>3, BoundingBoxIsLeast

\* Rectangles in different cells are disjoint.
LEMMA CellsAreDisjoint ==
  ASSUME NEW roi \in IntRect, NEW tw \in Nat \ {0}, NEW th \in Nat \ {0},
         TilesPerRow(roi, tw) \in Nat \ {0},
         NEW m \in Nat, NEW n \in Nat, m # n,
         NEW a \in IntRect, NEW b \in IntRect,
         Contains(CellBox(roi, tw, th, m), a), Contains(CellBox(roi, tw, th, n), b)
  PROVE  ~IsNonEmpty(Intersect(a, b))
<1> DEFINE perRow == TilesPerRow(roi, tw)
<1>0. perRow \in Nat \ {0}
  OBVIOUS
<1>1. PICK c1, r1 : /\ c1 = m % perRow /\ r1 = m \div perRow
                    /\ c1 \in Int /\ r1 \in Int /\ m = perRow * r1 + c1
  <2> HIDE DEF perRow
  <2>1. m % perRow \in Int /\ m \div perRow \in Int /\ m = perRow * (m \div perRow) + (m % perRow)
    BY <1>0, DivMod
  <2> QED BY <2>1
<1>2. PICK c2, r2 : /\ c2 = n % perRow /\ r2 = n \div perRow
                    /\ c2 \in Int /\ r2 \in Int /\ n = perRow * r2 + c2
  <2> HIDE DEF perRow
  <2>1. n % perRow \in Int /\ n \div perRow \in Int /\ n = perRow * (n \div perRow) + (n % perRow)
    BY <1>0, DivMod
  <2> QED BY <2>1
<1>3. c1 # c2 \/ r1 # r2
  <2> HIDE DEF perRow
  <2> QED BY <1>1, <1>2
<1>4. /\ roi.x \in Int /\ roi.y \in Int
      /\ a.x \in Int /\ a.y \in Int /\ a.w \in Int /\ a.h \in Int
      /\ b.x \in Int /\ b.y \in Int /\ b.w \in Int /\ b.h \in Int
  BY DEF IntRect
<1>5. /\ roi.x + c1 * tw <= a.x /\ a.x + a.w <= roi.x + c1 * tw + tw
      /\ roi.y + r1 * th <= a.y /\ a.y + a.h <= roi.y + r1 * th + th
  BY <1>1 DEF CellBox, Contains
<1>6. /\ roi.x + c2 * tw <= b.x /\ b.x + b.w <= roi.x + c2 * tw + tw
      /\ roi.y + r2 * th <= b.y /\ b.y + b.h <= roi.y + r2 * th + th
  BY <1>2 DEF CellBox, Contains
<1>7. ASSUME NEW k \in Int, NEW l \in Int, NEW s \in Nat \ {0}, k < l
      PROVE  k * s \in Int /\ l * s \in Int /\ k * s + s <= l * s
  <2>1. k + 1 <= l
    BY <1>7
  <2>2. (k + 1) * s <= l * s
    BY <2>1
  <2>3. (k + 1) * s = k * s + s
    OBVIOUS
  <2> QED BY <2>2, <2>3
<1>8. c1 * tw \in Int /\ c2 * tw \in Int /\ r1 * th \in Int /\ r2 * th \in Int
  BY <1>1, <1>2
<1>9. a.x + a.w <= b.x \/ b.x + b.w <= a.x \/ a.y + a.h <= b.y \/ b.y + b.h <= a.y
  <2>1. CASE c1 < c2
    <3>1. c1 * tw + tw <= c2 * tw
      BY <1>1, <1>2, <1>7, <2>1
    <3> QED BY <1>4, <1>5, <1>6, <1>8, <3>1
  <2>2. CASE c2 < c1
    <3>1. c2 * tw + tw <= c1 * tw
      BY <1>1, <1>2, <1>7, <2>2
    <3> QED BY <1>4, <1>5, <1>6, <1>8, <3>1
  <2>3. CASE r1 < r2
    <3>1. r1 * th + th <= r2 * th
      BY <1>1, <1>2, <1>7, <2>3
    <3> QED BY <1>4, <1>5, <1>6, <1>8, <3>1
  <2>4. CASE r2 < r1
    <3>1. r2 * th + th <= r1 * th
      BY <1>1, <1>2, <1>7, <2>4
    <3> QED BY <1>4, <1>5, <1>6, <1>8, <3>1
  <2>5. c1 < c2 \/ c2 < c1 \/ r1 < r2 \/ r2 < r1
    BY <1>1, <1>2, <1>3
  <2> QED BY <2>1, <2>2, <2>3, <2>4, <2>5
<1> QED BY <1>4, <1>9 DEF Intersect, IsNonEmpty, Greater, Lesser, EmptyRect

\* All coordinates of a rectangle are ones a signed integer holds.
InRange(r) ==
  IntMin <= r.x /\ r.x + r.w <= IntMax /\ IntMin <= r.y /\ r.y + r.h <= IntMax

\* The sides of a rectangle lie at multiples of a factor.
IsOnGrid(r, f) ==
  IsMultiple(r.x, f) /\ IsMultiple(r.y, f) /\ IsMultiple(r.x + r.w, f) /\ IsMultiple(r.y + r.h, f)

\* Enlarging keeps a rectangle within any box on the grid that it was in, unless
\* the upper bound wraps around, which leaves a rectangle of negative size.
LEMMA EnlargedWithin ==
  ASSUME NEW f, IsFactor(f), NEW m \in IntRect, IsNonEmpty(m), InRange(m),
         NEW box \in IntRect, IsOnGrid(box, f), Contains(box, m),
         IsNonEmpty(EnlargeAndLatch(m, f))
  PROVE  LET t == EnlargeAndLatch(m, f)
         IN  /\ t \in IntRect /\ IsOnGrid(t, f) /\ InRange(t)
             /\ Contains(box, t) /\ Contains(t, m)
<1> DEFINE t == EnlargeAndLatch(m, f)
           x1 == Latch(m.x, f)
           y1 == Latch(m.y, f)
           x2 == Latch(m.x + m.w + f - 1, f)
           y2 == Latch(m.y + m.h + f - 1, f)
<1>1. f \in Nat \ {0} /\ IntMin \in Int /\ IntMax \in Int
  BY ConversionsAreInts DEF IsFactor
<1>2. /\ m.x \in Int /\ m.y \in Int /\ m.w \in Int /\ m.h \in Int /\ m.w > 0 /\ m.h > 0
      /\ box.x \in Int /\ box.y \in Int /\ box.x + box.w \in Int /\ box.y + box.h \in Int
  BY DEF IntRect, IsNonEmpty
<1>3. /\ IntMin <= m.x /\ m.x <= IntMax /\ IntMin <= m.x + m.w /\ m.x + m.w <= IntMax
      /\ IntMin <= m.y /\ m.y <= IntMax /\ IntMin <= m.y + m.h /\ m.y + m.h <= IntMax
  BY <1>1, <1>2 DEF InRange
<1>4. t = [x |-> x1, y |-> y1, w |-> x2 - x1, h |-> y2 - y1]
  BY DEF EnlargeAndLatch
<1>5. /\ x1 \in Int /\ y1 \in Int /\ x2 \in Int /\ y2 \in Int
      /\ IsMultiple(x1, f) /\ IsMultiple(y1, f) /\ IsMultiple(x2, f) /\ IsMultiple(y2, f)
      /\ IntMin <= x1 /\ IntMin <= y1 /\ x2 <= IntMax /\ y2 <= IntMax
  <2>1. m.x + m.w + f - 1 \in Int /\ m.y + m.h + f - 1 \in Int
    BY <1>1, <1>2
  <2> QED BY <1>2, <2>1, LatchInRange
<1>6. /\ x1 <= m.x /\ \A w : IsMultiple(w, f) /\ w <= m.x => w <= x1
      /\ y1 <= m.y /\ \A w : IsMultiple(w, f) /\ w <= m.y => w <= y1
  BY <1>2, <1>3, LatchIsFloor
<1>7. IntMin < x2 /\ IntMin < y2
  <2> HIDE DEF t, x1, x2, y1, y2
  <2>1. x2 - x1 > 0 /\ y2 - y1 > 0
    BY <1>4 DEF IsNonEmpty, t
  <2> QED BY <1>1, <1>5, <2>1
<1>8. m.x + m.w <= x2 /\ \A w : IsMultiple(w, f) /\ m.x + m.w <= w => x2 <= w
  <2> DEFINE v == m.x + m.w
  <2>1. v \in Int /\ IntMin <= v /\ v <= IntMax
    BY <1>2, <1>3
  <2> HIDE DEF v
  <2>2. LET u == Latch(v + f - 1, f)
        IN  /\ v + f - 1 <= IntMax => v <= u
            /\ v + f - 1 > IntMax => u = IntMin
            /\ IntMin < u => \A w : IsMultiple(w, f) /\ v <= w => u <= w
    BY <2>1, LatchIsCeiling
  <2>3. x2 = Latch(v + f - 1, f)
    BY DEF v
  <2> HIDE DEF x2
  <2>4. v + f - 1 <= IntMax \/ v + f - 1 > IntMax
    BY <1>1, <2>1
  <2>5. ~(x2 = IntMin)
    BY <1>1, <1>5, <1>7
  <2>6. v <= x2 /\ \A w : IsMultiple(w, f) /\ v <= w => x2 <= w
    BY <1>7, <2>2, <2>3, <2>4, <2>5
  <2> QED BY <2>6 DEF v
<1>9. m.y + m.h <= y2 /\ \A w : IsMultiple(w, f) /\ m.y + m.h <= w => y2 <= w
  <2> DEFINE v == m.y + m.h
  <2>1. v \in Int /\ IntMin <= v /\ v <= IntMax
    BY <1>2, <1>3
  <2> HIDE DEF v
  <2>2. LET u == Latch(v + f - 1, f)
        IN  /\ v + f - 1 <= IntMax => v <= u
            /\ v + f - 1 > IntMax => u = IntMin
            /\ IntMin < u => \A w : IsMultiple(w, f) /\ v <= w => u <= w
    BY <2>1, LatchIsCeiling
  <2>3. y2 = Latch(v + f - 1, f)
    BY DEF v
  <2> HIDE DEF y2
  <2>4. v + f - 1 <= IntMax \/ v + f - 1 > IntMax
    BY <1>1, <2>1
  <2>5. ~(y2 = IntMin)
    BY <1>1, <1>5, <1>7
  <2>6. v <= y2 /\ \A w : IsMultiple(w, f) /\ v <= w => y2 <= w
    BY <1>7, <2>2, <2>3, <2>4, <2>5
  <2> QED BY <2>6 DEF v
<1> HIDE DEF t, x1, x2, y1, y2
<1>10. t.x = x1 /\ t.y = y1 /\ t.x + t.w = x2 /\ t.y + t.h = y2 /\ t \in IntRect
  BY <1>4, <1>5 DEF IntRect
<1>11. IsOnGrid(t, f) /\ InRange(t)
  BY <1>5, <1>10 DEF IsOnGrid, InRange
<1>12. Contains(box, t)
  BY <1>2, <1>6, <1>8, <1>9, <1>10 DEF Contains, IsOnGrid
<1>13. Contains(t, m)
  BY <1>6, <1>8, <1>9, <1>10 DEF Contains
<1> QED BY <1>10, <1>11, <1>12, <1>13 DEF t

\* A tile below lies behind the start of the region's tiling, and within range.
IsBehind(t, tiling) ==
  tiling.x <= t.x /\ tiling.y <= t.y /\ t.x + t.w <= IntMax /\ t.y + t.h <= IntMax

\* The regular place of a cell is on the grid.
LEMMA CellBoxOnGrid ==
  ASSUME NEW f, IsFactor(f), NEW q \in Nat \ {0}, NEW tiling \in IntRect,
         IsMultiple(tiling.x, f), IsMultiple(tiling.y, f),
         NEW no \in Nat, no < GetNumberOfTiles(tiling, q * f, q * f)
  PROVE  /\ CellBox(tiling, q * f, q * f, no) \in IntRect
         /\ IsOnGrid(CellBox(tiling, q * f, q * f, no), f)
<1> DEFINE size == q * f
           col == no % TilesPerRow(tiling, size)
           row == no \div TilesPerRow(tiling, size)
<1>1. f \in Nat \ {0} /\ size \in Nat \ {0} /\ IsMultiple(size, f)
  BY DEF IsFactor, IsMultiple
<1>2. col \in Nat /\ row \in Nat
  <2> HIDE DEF size
  <2>1. no < GetNumberOfTiles(tiling, size, size)
    BY DEF size
  <2> QED BY <1>1, <2>1, CellRowAndColumn
<1>3. CellBox(tiling, size, size, no)
        = [x |-> tiling.x + col * size, y |-> tiling.y + row * size, w |-> size, h |-> size]
  BY DEF CellBox
<1>4. IsMultiple(col * size, f) /\ IsMultiple(row * size, f)
      /\ col * size \in Int /\ row * size \in Int
  <2> HIDE DEF col, row
  <2>1. ASSUME NEW k \in Nat PROVE k * size \in Int /\ IsMultiple(k * size, f)
    <3>1. k * q \in Int /\ (k * q) * f = k * size
      BY <1>1
    <3>2. IsMultiple((k * q) * f, f)
      BY <3>1 DEF IsMultiple
    <3>3. k * size \in Int
      BY <1>1
    <3> HIDE DEF size
    <3> QED BY <3>1, <3>2, <3>3
  <2> QED BY <1>2, <2>1
<1> HIDE DEF size, col, row
<1>5. tiling.x \in Int /\ tiling.y \in Int
  BY DEF IntRect
<1>6. /\ IsMultiple(tiling.x + col * size, f) /\ IsMultiple(tiling.y + row * size, f)
      /\ IsMultiple((tiling.x + col * size) + size, f)
      /\ IsMultiple((tiling.y + row * size) + size, f)
  <2>1. IsMultiple(tiling.x + col * size, f) /\ IsMultiple(tiling.y + row * size, f)
    BY <1>1, <1>4, MultipleArithmetic
  <2> QED BY <1>1, <2>1, MultipleArithmetic
<1>7. CellBox(tiling, size, size, no) \in IntRect
  BY <1>1, <1>3, <1>4, <1>5 DEF IntRect
<1>8. IsOnGrid(CellBox(tiling, size, size, no), f)
  BY <1>3, <1>6 DEF IsOnGrid
<1> QED BY <1>7, <1>8 DEF size

\* The tile that the code cuts to a cell and then enlarges lies in the regular
\* place of that cell, whatever overflows on the way.
LEMMA TileOfCell ==
  ASSUME NEW f, IsFactor(f), NEW q \in Nat \ {0}, q * f < UintModulus,
         NEW tiling \in IntRect, IsMultiple(tiling.x, f), IsMultiple(tiling.y, f),
         IntMin <= tiling.x, IntMin <= tiling.y,
         NEW no \in Nat, no < GetNumberOfTiles(tiling, q * f, q * f),
         NEW below \in SUBSET IntRect, \A t \in below : IsBehind(t, tiling),
         NEW minimal, minimal = GetMinimalRectForRoi(below, GetRoi(tiling, q * f, q * f, no)),
         IsNonEmpty(minimal), IsNonEmpty(EnlargeAndLatch(minimal, f))
  PROVE  LET tile == EnlargeAndLatch(minimal, f)
         IN  /\ tile \in IntRect /\ IsOnGrid(tile, f) /\ IsBehind(tile, tiling)
             /\ Contains(CellBox(tiling, q * f, q * f, no), tile)
<1> DEFINE size == q * f
           cell == GetRoi(tiling, size, size, no)
           box == CellBox(tiling, size, size, no)
           tile == EnlargeAndLatch(minimal, f)
<1>1. f \in Nat \ {0} /\ size \in Nat \ {0} /\ IntMin \in Int /\ IntMax \in Int
  BY ConversionsAreInts DEF IsFactor
<1>2. box \in IntRect /\ IsOnGrid(box, f)
  BY CellBoxOnGrid
<1> DEFINE range == [x |-> tiling.x, y |-> tiling.y,
                     w |-> IntMax - tiling.x, h |-> IntMax - tiling.y]
<1>3. range \in IntRect
  BY <1>1 DEF IntRect
<1> HIDE DEF size
<1>4. no < GetNumberOfTiles(tiling, size, size) /\ size < UintModulus
  BY DEF size
<1>5. cell \in IntRect
  BY <1>1, <1>4, GetRoiType
<1>6. minimal = GetMinimalRectForRoi(below, cell)
  BY DEF size
<1>7. ASSUME NEW t \in below, IsNonEmpty(Intersect(t, cell))
      PROVE  Contains(box, Intersect(t, cell))
  <2>1. t \in IntRect /\ tiling.x <= t.x /\ tiling.y <= t.y
    BY DEF IsBehind
  <2> QED BY <1>1, <1>4, <1>7, <2>1, PartsOfCell
<1>8. ASSUME NEW t \in below, IsNonEmpty(Intersect(t, cell))
      PROVE  Contains(range, Intersect(t, cell))
  <2>1. /\ t \in IntRect /\ tiling.x <= t.x /\ tiling.y <= t.y
        /\ t.x + t.w <= IntMax /\ t.y + t.h <= IntMax
    BY DEF IsBehind
  <2>2. Contains(t, Intersect(t, cell)) /\ Intersect(t, cell) \in IntRect
    BY <1>5, <1>8, <2>1, IntersectIsContained
  <2> HIDE DEF cell
  <2>3. /\ tiling.x \in Int /\ tiling.y \in Int /\ t.x \in Int /\ t.y \in Int
        /\ t.w \in Int /\ t.h \in Int
    BY <2>1 DEF IntRect
  <2>4. PICK p \in IntRect : p = Intersect(t, cell)
    BY <2>2
  <2>5. p.x \in Int /\ p.y \in Int /\ p.w \in Int /\ p.h \in Int
    BY DEF IntRect
  <2> QED BY <1>1, <2>1, <2>2, <2>3, <2>4, <2>5 DEF Contains
<1> HIDE DEF cell, box, range, tile
<1>9. minimal \in IntRect
  BY <1>5, <1>6, MinimalRectIsLeast
<1>10. Contains(box, minimal) /\ Contains(range, minimal)
  BY <1>2, <1>3, <1>5, <1>6, <1>7, <1>8, MinimalRectWithin
<1>11. tiling.x \in Int /\ tiling.y \in Int
  BY DEF IntRect
<1>12. InRange(minimal) /\ tiling.x <= minimal.x /\ tiling.y <= minimal.y
  <2>1. /\ minimal.x \in Int /\ minimal.y \in Int /\ minimal.w \in Int /\ minimal.h \in Int
    BY <1>9 DEF IntRect
  <2> QED BY <1>1, <1>10, <1>11, <2>1 DEF InRange, Contains, range
<1>13. /\ tile \in IntRect /\ IsOnGrid(tile, f) /\ InRange(tile)
       /\ Contains(box, tile) /\ Contains(tile, minimal)
  BY <1>2, <1>9, <1>10, <1>12, EnlargedWithin DEF tile
<1>14. tiling.x <= tile.x /\ tiling.y <= tile.y
  <2>1. /\ minimal.x \in Int /\ IntMin <= minimal.x /\ minimal.x <= IntMax
        /\ minimal.y \in Int /\ IntMin <= minimal.y /\ minimal.y <= IntMax
    <3>1. minimal.x \in Int /\ minimal.y \in Int /\ minimal.w \in Int /\ minimal.h \in Int
      BY <1>9 DEF IntRect
    <3> QED BY <1>1, <1>12, <3>1 DEF InRange, IsNonEmpty
  <2>2. tiling.x <= Latch(minimal.x, f) /\ tiling.y <= Latch(minimal.y, f)
    BY <1>12, <2>1, LatchIsFloor
  <2>3. tile.x = Latch(minimal.x, f) /\ tile.y = Latch(minimal.y, f)
    BY DEF tile, EnlargeAndLatch
  <2> QED BY <2>2, <2>3
<1>15. IsBehind(tile, tiling)
  BY <1>13, <1>14 DEF IsBehind, InRange
<1> QED BY <1>13, <1>15 DEF tile, box, size

\* A multiple divided by its factor.
LEMMA QuotientOfMultiple ==
  ASSUME NEW f \in Nat \ {0}, NEW k \in Int
  PROVE  (k * f) \div f = k
<1>1. k * f \in Int /\ IsMultiple(k * f, f) /\ k * f <= k * f /\ k * f < k * f + f
  BY DEF IsMultiple
<1>2. ((k * f) \div f) * f = k * f /\ (k * f) \div f \in Int
  BY <1>1, FloorIsUnique, DivMod
<1>3. PICK q \in Int : q = (k * f) \div f
  BY <1>2
<1>4. q * f = k * f
  BY <1>2, <1>3
<1>5. ~(q < k)
  <2> SUFFICES ASSUME q < k PROVE FALSE
    OBVIOUS
  <2>1. (q + 1) * f <= k * f
    OBVIOUS
  <2> QED BY <1>4, <2>1
<1>6. ~(k < q)
  <2> SUFFICES ASSUME k < q PROVE FALSE
    OBVIOUS
  <2>1. (k + 1) * f <= q * f
    OBVIOUS
  <2> QED BY <1>4, <2>1
<1> QED BY <1>3, <1>5, <1>6

\* The size of a rectangle on the grid within a box of q factors.
LEMMA SizeOnGrid ==
  ASSUME NEW f \in Nat \ {0}, NEW q \in Nat, NEW r \in IntRect, IsOnGrid(r, f), IsNonEmpty(r),
         NEW box \in IntRect, box.w = q * f, box.h = q * f, Contains(box, r)
  PROVE  \E i, j \in 1 .. q : r.w = i * f /\ r.h = j * f
<1>1. /\ r.x \in Int /\ r.y \in Int /\ r.w \in Int /\ r.h \in Int
      /\ box.x \in Int /\ box.y \in Int /\ q * f \in Int
  BY DEF IntRect
<1>2. r.w > 0 /\ r.h > 0 /\ r.w <= q * f /\ r.h <= q * f
  BY <1>1 DEF Contains, IsNonEmpty
<1>3. IsMultiple((r.x + r.w) - r.x, f) /\ IsMultiple((r.y + r.h) - r.y, f)
  BY MultipleArithmetic DEF IsOnGrid
<1>4. IsMultiple(r.w, f) /\ IsMultiple(r.h, f)
  <2>1. (r.x + r.w) - r.x = r.w /\ (r.y + r.h) - r.y = r.h
    BY <1>1
  <2> QED BY <1>3, <2>1
<1>5. ASSUME NEW w \in Int, IsMultiple(w, f), w > 0, w <= q * f
      PROVE  \E i \in 1 .. q : w = i * f
  <2>1. PICK i \in Int : w = i * f
    BY <1>5 DEF IsMultiple
  <2>2. i >= 1
    <3> SUFFICES ASSUME i <= 0 PROVE FALSE
      OBVIOUS
    <3>1. i * f <= 0 * f
      OBVIOUS
    <3> QED BY <1>5, <2>1, <3>1
  <2>3. i <= q
    <3> SUFFICES ASSUME q + 1 <= i PROVE FALSE
      OBVIOUS
    <3>1. (q + 1) * f <= i * f
      OBVIOUS
    <3>2. (q + 1) * f = q * f + f
      OBVIOUS
    <3> QED BY <1>1, <1>5, <2>1, <3>1, <3>2
  <2> QED BY <2>1, <2>2, <2>3
<1> QED BY <1>1, <1>2, <1>4, <1>5

-----------------------------------------------------------------------------
(* Regions with room around them, where nothing overflows.                 *)

\* Within a box on the grid, enlarging leaves a rectangle: the upper bound of the
\* box is a signed integer, so that of the enlarged rectangle is one as well.
LEMMA EnlargedInBox ==
  ASSUME NEW f, IsFactor(f), NEW m \in IntRect, IsNonEmpty(m),
         NEW box \in IntRect, IsOnGrid(box, f), InRange(box), Contains(box, m)
  PROVE  LET t == EnlargeAndLatch(m, f)
         IN  /\ t \in IntRect /\ IsOnGrid(t, f) /\ InRange(t) /\ IsNonEmpty(t)
             /\ Contains(box, t) /\ Contains(t, m)
<1> DEFINE t == EnlargeAndLatch(m, f)
<1>1. PICK half \in Nat \ {0} : /\ UintModulus = 2 * half /\ IntMin = -half /\ IntMax = half - 1
                               /\ half = UintModulus \div 2
  BY SignedRange
<1>2. f \in Nat \ {0} /\ IsMultiple(half, f)
  BY <1>1 DEF IsFactor
<1>3. /\ m.x \in Int /\ m.y \in Int /\ m.w \in Int /\ m.h \in Int /\ m.w > 0 /\ m.h > 0
      /\ box.x \in Int /\ box.y \in Int /\ box.w \in Int /\ box.h \in Int
  BY DEF IntRect, IsNonEmpty
<1>4. /\ IntMin <= box.x /\ box.x <= m.x /\ m.x + m.w <= box.x + box.w /\ box.x + box.w <= IntMax
      /\ IntMin <= box.y /\ box.y <= m.y /\ m.y + m.h <= box.y + box.h /\ box.y + box.h <= IntMax
  BY DEF InRange, Contains
<1>5. InRange(m)
  BY <1>1, <1>3, <1>4 DEF InRange
<1>6. ASSUME NEW a \in Int, NEW b \in Int, NEW u \in Int, IntMin <= a, a < b, b <= u, u <= IntMax,
             IsMultiple(u, f)
      PROVE  Latch(a, f) < Latch(b + f - 1, f)
  <2>1. u + f <= half
    <3>1. u < half /\ half \in Int
      BY <1>1, <1>6
    <3> QED BY <1>2, <1>6, <3>1, MultiplesApart
  <2>2. b + f - 1 <= IntMax /\ IntMin <= b /\ b <= IntMax
    BY <1>1, <1>2, <1>6, <2>1
  <2>3. b <= Latch(b + f - 1, f)
    BY <1>6, <2>2, LatchIsCeiling
  <2>4. Latch(a, f) <= a /\ Latch(a, f) \in Int
    BY <1>1, <1>6, LatchIsFloor, LatchInRange
  <2>5. Latch(b + f - 1, f) \in Int
    BY <1>2, <1>6, LatchInRange
  <2> QED BY <1>6, <2>3, <2>4, <2>5
<1>7. Latch(m.x, f) < Latch(m.x + m.w + f - 1, f) /\ Latch(m.y, f) < Latch(m.y + m.h + f - 1, f)
  <2> DEFINE b == m.x + m.w
             d == m.y + m.h
  <2>1. /\ b \in Int /\ m.x < b /\ b <= box.x + box.w
        /\ d \in Int /\ m.y < d /\ d <= box.y + box.h
        /\ IntMin <= m.x /\ IntMin <= m.y /\ box.x + box.w \in Int /\ box.y + box.h \in Int
    BY <1>1, <1>3, <1>4
  <2>2. IsMultiple(box.x + box.w, f) /\ IsMultiple(box.y + box.h, f)
    BY DEF IsOnGrid
  <2> HIDE DEF b, d
  <2>3. Latch(m.x, f) < Latch(b + f - 1, f) /\ Latch(m.y, f) < Latch(d + f - 1, f)
    BY <1>3, <1>4, <1>6, <2>1, <2>2
  <2> QED BY <2>3 DEF b, d
<1>8. /\ Latch(m.x, f) \in Int /\ Latch(m.x + m.w + f - 1, f) \in Int
      /\ Latch(m.y, f) \in Int /\ Latch(m.y + m.h + f - 1, f) \in Int
  <2>1. m.x + m.w + f - 1 \in Int /\ m.y + m.h + f - 1 \in Int
    BY <1>2, <1>3
  <2>2. Latch(m.x, f) \in Int /\ Latch(m.y, f) \in Int
    BY <1>2, <1>3, LatchIsInt
  <2>3. Latch(m.x + m.w + f - 1, f) \in Int
    BY <1>2, <2>1, LatchIsInt
  <2>4. Latch(m.y + m.h + f - 1, f) \in Int
    BY <1>2, <2>1, LatchIsInt
  <2> QED BY <2>2, <2>3, <2>4
<1>9. IsNonEmpty(t)
  BY <1>7, <1>8 DEF IsNonEmpty, EnlargeAndLatch
<1> QED BY <1>5, <1>9, EnlargedWithin

\* The tiling of a region with room contains it, and is less than two factors
\* larger.
LEMMA TilingWithRoom ==
  ASSUME NEW f, IsFactor(f), NEW r \in IntRect, IsNonEmpty(r), IntMin <= r.x, IntMin <= r.y,
         r.x + r.w + f - 1 <= IntMax, r.y + r.h + f - 1 <= IntMax
  PROVE  LET t == EnlargeAndLatch(r, f)
         IN  /\ t \in IntRect /\ IsOnGrid(t, f) /\ InRange(t) /\ IsNonEmpty(t)
             /\ Contains(t, r) /\ t.w < r.w + 2 * f /\ t.h < r.h + 2 * f
<1> DEFINE t == EnlargeAndLatch(r, f)
<1>1. f \in Nat \ {0} /\ IntMin \in Int /\ IntMax \in Int
  BY ConversionsAreInts DEF IsFactor
<1>2. /\ r.x \in Int /\ r.y \in Int /\ r.w \in Int /\ r.h \in Int /\ r.w > 0 /\ r.h > 0
  BY DEF IntRect, IsNonEmpty
<1>3. ASSUME NEW a \in Int, NEW b \in Int, IntMin <= a, a < b, b + f - 1 <= IntMax
      PROVE  LET lo == Latch(a, f)
                 hi == Latch(b + f - 1, f)
             IN  /\ lo \in Int /\ hi \in Int /\ IsMultiple(lo, f) /\ IsMultiple(hi, f)
                 /\ IntMin <= lo /\ hi <= IntMax /\ lo <= a /\ b <= hi
                 /\ a < lo + f /\ hi < b + f
  <2>1. a <= IntMax /\ IntMin <= b /\ b <= IntMax
    BY <1>1, <1>3
  <2>2. Latch(a, f) <= a /\ a < Latch(a, f) + f
    BY <1>3, <2>1, LatchIsFloor
  <2>3. b <= Latch(b + f - 1, f) /\ Latch(b + f - 1, f) < b + f
    BY <1>3, <2>1, LatchIsCeiling
  <2>4. b + f - 1 \in Int
    BY <1>1
  <2>5. /\ Latch(a, f) \in Int /\ IsMultiple(Latch(a, f), f) /\ IntMin <= Latch(a, f)
        /\ Latch(b + f - 1, f) \in Int /\ IsMultiple(Latch(b + f - 1, f), f)
        /\ Latch(b + f - 1, f) <= IntMax
    BY <2>4, LatchInRange
  <2> QED BY <2>2, <2>3, <2>5
<1>4. PICK b \in Int, d \in Int : b = r.x + r.w /\ d = r.y + r.h
  BY <1>2
<1>5. PICK x1, y1, x2, y2 : /\ x1 = Latch(r.x, f) /\ x2 = Latch(b + f - 1, f)
                            /\ y1 = Latch(r.y, f) /\ y2 = Latch(d + f - 1, f)
  OBVIOUS
<1>6. /\ x1 \in Int /\ x2 \in Int /\ IsMultiple(x1, f) /\ IsMultiple(x2, f)
      /\ IntMin <= x1 /\ x2 <= IntMax /\ x1 <= r.x /\ b <= x2 /\ r.x < x1 + f /\ x2 < b + f
  BY <1>2, <1>3, <1>4, <1>5
<1>7. /\ y1 \in Int /\ y2 \in Int /\ IsMultiple(y1, f) /\ IsMultiple(y2, f)
      /\ IntMin <= y1 /\ y2 <= IntMax /\ y1 <= r.y /\ d <= y2 /\ r.y < y1 + f /\ y2 < d + f
  BY <1>2, <1>3, <1>4, <1>5
<1>8. t = [x |-> x1, y |-> y1, w |-> x2 - x1, h |-> y2 - y1]
  BY <1>4, <1>5 DEF EnlargeAndLatch
<1> HIDE DEF t
<1>9. /\ t \in IntRect /\ t.x = x1 /\ t.y = y1 /\ t.x + t.w = x2 /\ t.y + t.h = y2
      /\ t.w = x2 - x1 /\ t.h = y2 - y1
  BY <1>6, <1>7, <1>8 DEF IntRect
<1>10. IsOnGrid(t, f) /\ InRange(t)
  BY <1>6, <1>7, <1>9 DEF IsOnGrid, InRange
<1>11. IsNonEmpty(t) /\ Contains(t, r) /\ t.w < r.w + 2 * f /\ t.h < r.h + 2 * f
  BY <1>1, <1>2, <1>4, <1>6, <1>7, <1>9 DEF IsNonEmpty, Contains
<1> QED BY <1>9, <1>10, <1>11 DEF t

\* Quotient and remainder are unique.
LEMMA DivModUnique ==
  ASSUME NEW b \in Nat \ {0}, NEW q \in Int, NEW r \in Nat, r < b
  PROVE  (q * b + r) \div b = q /\ (q * b + r) % b = r
<1>1. q * b + r \in Int /\ IsMultiple(q * b, b) /\ q * b <= q * b + r /\ q * b + r < q * b + b
  BY DEF IsMultiple
<1>2. ((q * b + r) \div b) * b = q * b
  BY <1>1, FloorIsUnique
<1>3. PICK p \in Int : p = (q * b + r) \div b
  BY <1>1, DivMod
<1>4. p = q
  <2>1. (p * b) \div b = p /\ (q * b) \div b = q
    BY QuotientOfMultiple
  <2> QED BY <1>2, <1>3, <2>1
<1>5. q * b + r = b * p + ((q * b + r) % b) /\ (q * b + r) % b \in Int
  BY <1>1, <1>3, DivMod
<1>6. b * p = q * b /\ q * b \in Int
  BY <1>4
<1> QED BY <1>3, <1>4, <1>5, <1>6

\* One side of a tiling: the cell that a coordinate lies in.
LEMMA CellOfCoordinate ==
  ASSUME NEW size \in Nat \ {0}, NEW tw \in Nat \ {0}, size + tw - 1 <= IntMax,
         NEW v \in Nat, v < size
  PROVE  /\ v \div tw \in Nat /\ v \div tw < ToUint(size + tw - 1) \div tw
         /\ LET d == ToInt(ToUint((v \div tw) * tw))
            IN  d \in Int /\ d <= v /\ v < d + Lesser(ToInt(tw), size - d)
<1>1. PICK half \in Nat \ {0} : UintModulus = 2 * half /\ IntMax = half - 1
  BY SignedRange
<1>2. PICK n \in Int : n = v \div tw
  BY DivMod
<1>3. PICK off \in Int : off = n * tw
  OBVIOUS
<1>4. off <= v /\ v < off + tw /\ IsMultiple(off, tw)
  <2>1. v \in Int
    OBVIOUS
  <2>2. (v \div tw) * tw <= v /\ v < (v \div tw) * tw + tw
    BY <2>1, FloorIsGreatest
  <2> QED BY <1>2, <1>3, <2>2 DEF IsMultiple
<1>5. n \in Nat
  <2> SUFFICES ASSUME n <= -1 PROVE FALSE
    OBVIOUS
  <2>1. n * tw <= (-1) * tw
    OBVIOUS
  <2> QED BY <1>3, <1>4, <2>1
<1>6. off \in Nat
  BY <1>3, <1>5
<1>7. ToUint(off) = off /\ ToInt(off) = off /\ ToInt(tw) = tw /\ ToUint(size + tw - 1) = size + tw - 1
  BY <1>1, <1>4, <1>6 DEF ToUint, ToInt
<1>8. n < (size + tw - 1) \div tw
  <2>1. PICK p \in Int : p = (size + tw - 1) \div tw
    BY DivMod
  <2>2. size + tw - 1 < p * tw + tw
    <3>1. size + tw - 1 \in Int
      OBVIOUS
    <3>2. size + tw - 1 < ((size + tw - 1) \div tw) * tw + tw
      BY <3>1, FloorIsGreatest
    <3> QED BY <2>1, <3>2
  <2>3. off < p * tw
    BY <1>4, <2>2
  <2> SUFFICES ASSUME p <= n PROVE FALSE
    BY <2>1
  <2>4. p * tw <= n * tw
    OBVIOUS
  <2>5. p * tw \in Int
    OBVIOUS
  <2> QED BY <1>3, <2>3, <2>4, <2>5
<1>9. v < off + Lesser(tw, size - off)
  BY <1>4 DEF Lesser
<1> QED BY <1>2, <1>3, <1>4, <1>5, <1>7, <1>8, <1>9

\* Every point of a region lies in one of its cells.
LEMMA CellOfPoint ==
  ASSUME NEW roi \in IntRect, NEW tw \in Nat \ {0},
         roi.w + tw - 1 <= IntMax, roi.h + tw - 1 <= IntMax,
         TilesPerRow(roi, tw) * (ToUint(roi.h + tw - 1) \div tw) < UintModulus,
         NEW x \in Int, NEW y \in Int, InRect(roi, x, y)
  PROVE  \E no \in 0 .. GetNumberOfTiles(roi, tw, tw) - 1 : InRect(GetRoi(roi, tw, tw, no), x, y)
<1>1. PICK u \in Nat, v \in Nat : u = x - roi.x /\ v = y - roi.y
  BY DEF InRect, IntRect
<1>2. /\ roi.x \in Int /\ roi.y \in Int /\ roi.w \in Nat \ {0} /\ roi.h \in Nat \ {0}
      /\ u < roi.w /\ v < roi.h
  BY <1>1 DEF InRect, IntRect
<1>3. PICK perRow, rows : /\ perRow = TilesPerRow(roi, tw)
                          /\ rows = ToUint(roi.h + tw - 1) \div tw
  OBVIOUS
<1>4. PICK col, row : col = u \div tw /\ row = v \div tw
  OBVIOUS
<1>5. PICK dx, dy : dx = ToInt(ToUint(col * tw)) /\ dy = ToInt(ToUint(row * tw))
  OBVIOUS
<1>6. /\ col \in Nat /\ col < perRow /\ dx \in Int /\ dx <= u
      /\ u < dx + Lesser(ToInt(tw), roi.w - dx)
  BY <1>1, <1>2, <1>3, <1>4, <1>5, CellOfCoordinate DEF TilesPerRow
<1>7. /\ row \in Nat /\ row < rows /\ dy \in Int /\ dy <= v
      /\ v < dy + Lesser(ToInt(tw), roi.h - dy)
  BY <1>1, <1>2, <1>3, <1>4, <1>5, CellOfCoordinate
<1>8. perRow \in Nat \ {0} /\ rows \in Nat \ {0}
  <2>1. perRow \in Int /\ rows \in Int
    <3>1. roi.w + tw - 1 \in Int /\ roi.h + tw - 1 \in Int
      BY <1>2
    <3>2. ToUint(roi.w + tw - 1) \in Int /\ ToUint(roi.h + tw - 1) \in Int
      BY <3>1, ConversionsAreInts
    <3> QED BY <1>3, <3>2, DivMod DEF TilesPerRow
  <2> QED BY <1>6, <1>7, <2>1
<1> DEFINE no == row * perRow + col
<1>9. no \div perRow = row /\ no % perRow = col
  <2>1. row \in Int /\ col \in Nat /\ col < perRow /\ perRow \in Nat \ {0}
    BY <1>6, <1>7, <1>8
  <2> QED BY <2>1, DivModUnique
<1>10. no \in 0 .. perRow * rows - 1
  <2>1. (row + 1) * perRow <= rows * perRow
    BY <1>7, <1>8
  <2>2. (row + 1) * perRow = row * perRow + perRow /\ row * perRow \in Nat
    BY <1>7, <1>8
  <2>3. rows * perRow = perRow * rows /\ rows * perRow \in Int
    BY <1>8
  <2> QED BY <1>6, <1>8, <2>1, <2>2, <2>3
<1>11. GetNumberOfTiles(roi, tw, tw) = perRow * rows
  <2>1. perRow * rows \in Nat /\ perRow * rows < UintModulus
    BY <1>3, <1>8
  <2>2. ToUint(perRow * rows) = perRow * rows
    <3>1. PICK n \in Nat : n = perRow * rows /\ n < UintModulus
      BY <2>1
    <3> QED BY <3>1, UintAssumption DEF ToUint
  <2> QED BY <1>3, <2>2 DEF GetNumberOfTiles
<1>12. GetRoi(roi, tw, tw, no)
         = [x |-> roi.x + dx, y |-> roi.y + dy,
            w |-> Lesser(ToInt(tw), roi.w - dx), h |-> Lesser(ToInt(tw), roi.h - dy)]
  <2> HIDE DEF no
  <2> QED BY <1>3, <1>5, <1>9 DEF GetRoi
<1> HIDE DEF no
<1>13. PICK w \in Int, h \in Int : /\ w = Lesser(ToInt(tw), roi.w - dx)
                                  /\ h = Lesser(ToInt(tw), roi.h - dy)
  <2>1. ToInt(tw) \in Int
    BY <1>2, ConversionsAreInts
  <2>2. roi.w - dx \in Int /\ roi.h - dy \in Int
    BY <1>2, <1>6, <1>7
  <2>3. Lesser(ToInt(tw), roi.w - dx) \in Int /\ Lesser(ToInt(tw), roi.h - dy) \in Int
    BY <2>1, <2>2 DEF Lesser
  <2> QED BY <2>3
<1>14. InRect(GetRoi(roi, tw, tw, no), x, y)
  BY <1>1, <1>2, <1>6, <1>7, <1>12, <1>13 DEF InRect
<1> QED BY <1>10, <1>11, <1>14

\* What a cell's tile is made of: the tile contains every point of the cell that
\* a rectangle below covers, as long as those lie within the tiling.
LEMMA TileCoversCell ==
  ASSUME NEW f, IsFactor(f), NEW tiling \in IntRect, IsOnGrid(tiling, f), InRange(tiling),
         NEW cell \in IntRect, NEW below \in SUBSET IntRect, \A t \in below : Contains(tiling, t),
         NEW x \in Int, NEW y \in Int, InRect(cell, x, y), \E t \in below : InRect(t, x, y)
  PROVE  LET minimal == GetMinimalRectForRoi(below, cell)
         IN  IsNonEmpty(minimal) /\ InRect(EnlargeAndLatch(minimal, f), x, y)
<1>1. PICK t \in below : InRect(t, x, y)
  OBVIOUS
<1>2. t \in IntRect
  OBVIOUS
<1>3. PICK part \in IntRect : part = Intersect(t, cell)
  BY <1>2, IntersectIsContained
<1>4. IsNonEmpty(part) /\ InRect(part, x, y)
  BY <1>1, <1>2, <1>3 DEF IsNonEmpty, InRect, Intersect, IntRect, Greater, Lesser
<1>5. PICK minimal : minimal = GetMinimalRectForRoi(below, cell)
  OBVIOUS
<1>6. minimal \in IntRect /\ IsNonEmpty(minimal) /\ Contains(minimal, part)
  BY <1>3, <1>4, <1>5, MinimalRectIsLeast
<1>7. Contains(tiling, minimal)
  <2>1. ASSUME NEW s \in below, IsNonEmpty(Intersect(s, cell))
        PROVE  Contains(tiling, Intersect(s, cell))
    <3>1. PICK p \in IntRect : p = Intersect(s, cell)
      BY IntersectIsContained
    <3>2. Contains(s, p) /\ Contains(tiling, s) /\ s \in IntRect
      BY <2>1, <3>1, IntersectIsContained
    <3>3. Contains(tiling, p)
      BY <3>2 DEF Contains, IntRect
    <3> QED BY <3>1, <3>3
  <2> QED BY <1>5, <1>6, <2>1, MinimalRectWithin
<1>8. PICK tile \in IntRect : tile = EnlargeAndLatch(minimal, f) /\ Contains(tile, minimal)
  BY <1>6, <1>7, EnlargedInBox
<1>9. InRect(tile, x, y)
  BY <1>4, <1>6, <1>8 DEF InRect, Contains, IntRect
<1> QED BY <1>5, <1>6, <1>8, <1>9

\* The tile stays within the tiling, and on the grid.
LEMMA TileWithinTiling ==
  ASSUME NEW f, IsFactor(f), NEW tiling \in IntRect, IsOnGrid(tiling, f), InRange(tiling),
         NEW cell \in IntRect, NEW below \in SUBSET IntRect, \A t \in below : Contains(tiling, t),
         NEW minimal, minimal = GetMinimalRectForRoi(below, cell), IsNonEmpty(minimal)
  PROVE  LET tile == EnlargeAndLatch(minimal, f)
         IN  /\ tile \in IntRect /\ IsOnGrid(tile, f) /\ IsNonEmpty(tile)
             /\ Contains(tiling, tile)
<1>1. minimal \in IntRect
  BY MinimalRectIsLeast
<1>2. Contains(tiling, minimal)
  <2>1. ASSUME NEW s \in below, IsNonEmpty(Intersect(s, cell))
        PROVE  Contains(tiling, Intersect(s, cell))
    <3>1. PICK p \in IntRect : p = Intersect(s, cell)
      BY IntersectIsContained
    <3>2. Contains(s, p) /\ Contains(tiling, s) /\ s \in IntRect
      BY <2>1, <3>1, IntersectIsContained
    <3>3. Contains(tiling, p)
      BY <3>2 DEF Contains, IntRect
    <3> QED BY <3>1, <3>3
  <2> QED BY <2>1, MinimalRectWithin
<1> QED BY <1>1, <1>2, EnlargedInBox
=============================================================================
