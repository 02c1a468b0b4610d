----------------------------- MODULE SumTheorems -----------------------------
(***************************************************************************)
(* Lemmas about numbers, finite sets and the sums over them that           *)
(* MapThenSumSet takes, for the proofs of the other modules.               *)
(***************************************************************************)
EXTENDS FiniteSetsExt, Integers, FiniteSetTheorems, WellFoundedInduction, TLAPS

-----------------------------------------------------------------------------
(* Numbers.                                                                *)

\* The least-number principle, for a set of numbers.
LEMMA LeastNumber ==
  ASSUME NEW N, N \subseteq Nat, N # {}
  PROVE  \E m \in N : \A n \in N : m <= n
<1> DEFINE R == {ss \in Nat \X Nat : ss[1] < ss[2]}
<1>1. IsWellFoundedOn(R, Nat)  BY NatLessThanWellFounded DEF OpToRel
<1>2. PICK m \in N : \A n \in N : ~(<<n, m>> \in R)  BY <1>1, WFMin
<1>3. \A n \in N : ~(n < m)  BY <1>2
<1>4. QED  BY <1>3

LEMMA MaxIs ==
  ASSUME NEW S \in SUBSET Int, NEW m \in S, \A x \in S : x <= m
  PROVE  Max(S) = m
<1>1. \A x \in S : m >= x  OBVIOUS
<1>2. ASSUME NEW x \in S, \A y \in S : x >= y PROVE x = m  BY <1>2
<1>3. QED  BY <1>1, <1>2 DEF Max

LEMMA MinIs ==
  ASSUME NEW S \in SUBSET Int, NEW m \in S, \A x \in S : m <= x
  PROVE  Min(S) = m
<1>1. ASSUME NEW x \in S, \A y \in S : x =< y PROVE x = m  BY <1>1
<1>2. QED  BY <1>1 DEF Min

LEMMA MaxFound ==
  ASSUME NEW n \in Nat, NEW S \in SUBSET (1..n), S # {}
  PROVE  Max(S) \in S /\ \A x \in S : x <= Max(S)
<1> DEFINE T == {n - x : x \in S}
<1>1. T \subseteq Nat /\ T # {}
  <2>1. T # {}  BY Zenon
  <2>2. \A x \in S : n - x \in Nat  OBVIOUS
  <2>3. QED  BY <2>1, <2>2, Zenon
<1>2. PICK t \in T : \A u \in T : t <= u  BY <1>1, LeastNumber
<1>3. PICK m \in S : t = n - m  BY Zenon
<1>4. \A x \in S : x <= m
  <2>1. \A x \in S : n - x \in T  BY Zenon
  <2>2. \A x \in S : n - m <= n - x  BY <1>2, <1>3, <2>1, Zenon
  <2>3. QED  BY <2>2
<1>5. Max(S) = m
  <2>1. S \in SUBSET Int  OBVIOUS
  <2>2. QED  BY <1>4, <2>1, MaxIs
<1>6. QED  BY <1>4, <1>5

LEMMA FiniteMax ==
  ASSUME NEW S, S \subseteq Int, IsFiniteSet(S), S # {}
  PROVE  Max(S) \in S /\ \A x \in S : x <= Max(S)
<1> DEFINE Has(U) == \E m \in U : \A x \in U : x <= m
           bad == {n \in Nat : \E U \in SUBSET S : U # {} /\ Cardinality(U) = n /\ ~Has(U)}
<1>1. ASSUME NEW U \in SUBSET S PROVE IsFiniteSet(U) /\ Cardinality(U) \in Nat
  BY FS_Subset, FS_CardinalityType
<1>2. bad = {}
  <2>1. SUFFICES ASSUME bad # {} PROVE FALSE  OBVIOUS
  <2>2. PICK m \in bad : \A n \in bad : m <= n  BY <2>1, LeastNumber
  <2>3. PICK U \in SUBSET S : U # {} /\ Cardinality(U) = m /\ ~Has(U)  BY <2>2
  <2>4. PICK y \in U : TRUE  BY <2>3
  <2> DEFINE V == U \ {y}
  <2>5. V \in SUBSET S /\ Cardinality(V) = m - 1 /\ Cardinality(V) \in Nat
    BY <1>1, <2>3, <2>4, FS_RemoveElement
  <2>6. m - 1 \notin bad  BY <2>2, <2>5
  <2>7. V # {} => Has(V)  BY <2>5, <2>6
  <2>8. CASE V = {}
    <3>1. \A x \in U : x = y /\ x \in Int  BY <2>8
    <3>2. QED  BY <2>3, <2>4, <3>1
  <2>9. CASE V # {}
    <3>1. PICK v \in V : \A x \in V : x <= v  BY <2>7, <2>9
    <3>2. v \in U /\ v \in Int /\ y \in Int /\ \A x \in U : x = y \/ x \in V  BY <2>4
    <3>3. CASE y <= v
      <4>1. \A x \in U : x <= v  BY <3>1, <3>2, <3>3
      <4>2. QED  BY <2>3, <3>2, <4>1
    <3>4. CASE v <= y
      <4>1. \A x \in U : x <= y
        <5>1. \A x \in V : x \in Int /\ x <= v  BY <3>1
        <5>2. QED  BY <3>2, <3>4, <5>1
      <4>2. QED  BY <2>3, <2>4, <4>1
    <3>5. QED  BY <3>2, <3>3, <3>4
  <2>10. QED  BY <2>8, <2>9
<1>3. Has(S)
  <2>1. S \in SUBSET S /\ Cardinality(S) \in Nat  BY <1>1
  <2>2. QED  BY <1>2, <2>1
<1>4. PICK m \in S : \A x \in S : x <= m  BY <1>3
<1>5. Max(S) = m  BY <1>4, MaxIs
<1>6. QED  BY <1>4, <1>5

-----------------------------------------------------------------------------
(* Sums.  There is one sum of a function over a finite set, whatever the   *)
(* order in which CHOOSE takes the elements.                               *)

Pick(T) == CHOOSE x \in T : TRUE

\* g is the sum of f over the sets of family C, taken as MapThenSumSet takes it.
Sums(g, f, C) ==
  g = [T \in C |-> IF T = {} THEN 0 ELSE f[Pick(T)] + g[T \ {Pick(T)}]]

Total(f, D) == (CHOOSE g : Sums(g, f, SUBSET D))[D]

Summands(f, D) == IsFiniteSet(D) /\ \A x \in D : f[x] \in Int

UpTo(D, n) == {T \in SUBSET D : Cardinality(T) <= n}
Summable(f, D, n) == \E g \in [UpTo(D, n) -> Int] : Sums(g, f, UpTo(D, n))

LEMMA PartsOf ==
  ASSUME NEW D, IsFiniteSet(D)
  PROVE  \A T \in SUBSET D :
           /\ IsFiniteSet(T) /\ Cardinality(T) \in Nat /\ Cardinality(T) <= Cardinality(D)
           /\ Cardinality(T) = 0 <=> T = {}
<1>1. ASSUME NEW T \in SUBSET D
      PROVE  IsFiniteSet(T) /\ Cardinality(T) <= Cardinality(D) /\ Cardinality(T) \in Nat
  BY FS_Subset, FS_CardinalityType
<1>2. ASSUME NEW T \in SUBSET D PROVE Cardinality(T) = 0 <=> T = {}
  BY <1>1, FS_EmptySet
<1>3. QED  BY <1>1, <1>2

LEMMA PickOne ==
  ASSUME NEW D, IsFiniteSet(D), NEW T \in SUBSET D, T # {}
  PROVE  /\ Pick(T) \in T /\ T \ {Pick(T)} \in SUBSET D
         /\ Cardinality(T \ {Pick(T)}) = Cardinality(T) - 1
<1>1. Pick(T) \in T  BY DEF Pick
<1>2. IsFiniteSet(T)  BY PartsOf
<1>3. Cardinality(T \ {Pick(T)}) = Cardinality(T) - 1  BY <1>1, <1>2, FS_RemoveElement
<1>4. QED  BY <1>1, <1>3

LEMMA SummableMore ==
  ASSUME NEW f, NEW D, Summands(f, D), NEW n \in Nat, n = 0 \/ Summable(f, D, n - 1)
  PROVE  Summable(f, D, n)
<1>1. CASE n = 0
  <2> DEFINE g == [T \in UpTo(D, 0) |-> 0]
  <2>1. \A T \in SUBSET D : Cardinality(T) <= 0 => T = {}
    BY PartsOf DEF Summands
  <2>2. g \in [UpTo(D, 0) -> Int] /\ Sums(g, f, UpTo(D, 0))  BY <2>1 DEF Sums, UpTo
  <2>3. QED  BY <1>1, <2>2 DEF Summable
<1>2. CASE n # 0
  <2>1. PICK g \in [UpTo(D, n - 1) -> Int] : Sums(g, f, UpTo(D, n - 1))
    BY <1>2 DEF Summable
  <2> DEFINE Less(T) == T \ {Pick(T)}
             h == [T \in UpTo(D, n) |-> IF T = {} THEN 0 ELSE f[Pick(T)] + g[Less(T)]]
  <2>2. ASSUME NEW T \in UpTo(D, n), T # {}
        PROVE  Less(T) \in UpTo(D, n - 1) /\ f[Pick(T)] \in Int /\ g[Less(T)] \in Int
    <3>1. T \in SUBSET D /\ Cardinality(T) <= n  BY DEF UpTo
    <3>2. /\ Pick(T) \in D /\ Less(T) \in SUBSET D
          /\ Cardinality(Less(T)) = Cardinality(T) - 1 /\ Cardinality(T) \in Nat
      BY <2>2, <3>1, PartsOf, PickOne DEF Summands
    <3>3. Less(T) \in UpTo(D, n - 1)  BY <3>1, <3>2 DEF UpTo
    <3>4. QED  BY <3>2, <3>3 DEF Summands
  <2>3. UpTo(D, n - 1) \subseteq UpTo(D, n)
    <3>1. \A T \in SUBSET D : Cardinality(T) \in Nat  BY PartsOf DEF Summands
    <3>2. QED  BY <3>1 DEF UpTo
  <2>4. ASSUME NEW T \in UpTo(D, n - 1) PROVE h[T] = g[T]
    <3>1. g[T] = IF T = {} THEN 0 ELSE f[Pick(T)] + g[Less(T)]  BY <2>1 DEF Sums
    <3>2. QED  BY <2>3, <3>1
  <2>5. h \in [UpTo(D, n) -> Int]  BY <2>2
  <2>6. \A T \in UpTo(D, n) : h[T] = IF T = {} THEN 0 ELSE f[Pick(T)] + h[Less(T)]
    BY <2>2, <2>4
  <2>7. Sums(h, f, UpTo(D, n))
    <3> HIDE DEF h
    <3>1. h = [T \in UpTo(D, n) |-> h[T]]  BY <2>5
    <3>2. QED  BY <2>6, <3>1 DEF Sums
  <2>8. QED  BY <2>5, <2>7 DEF Summable
<1>3. QED  BY <1>1, <1>2

LEMMA SumsExist ==
  ASSUME NEW f, NEW D, Summands(f, D)
  PROVE  \E g \in [SUBSET D -> Int] : Sums(g, f, SUBSET D)
<1> DEFINE bad == {n \in Nat : ~Summable(f, D, n)}
<1>1. bad = {}
  <2>1. SUFFICES ASSUME bad # {} PROVE FALSE  OBVIOUS
  <2>2. PICK m \in bad : \A n \in bad : m <= n  BY <2>1, LeastNumber
  <2>3. m = 0 \/ (m - 1 \in Nat /\ Summable(f, D, m - 1))  BY <2>2
  <2>4. QED  BY <2>2, <2>3, SummableMore
<1>2. Cardinality(D) \in Nat  BY FS_CardinalityType DEF Summands
<1>3. Summable(f, D, Cardinality(D))  BY <1>1, <1>2
<1>4. UpTo(D, Cardinality(D)) = SUBSET D  BY PartsOf DEF UpTo, Summands
<1>5. QED  BY <1>3, <1>4 DEF Summable

SumsFor(g, f, D) == Summands(f, D) /\ Sums(g, f, SUBSET D)

LEMMA OneSum ==
  ASSUME NEW f, NEW D, NEW E, NEW g, NEW h,
         E \subseteq D, SumsFor(g, f, D), SumsFor(h, f, E)
  PROVE  \A T \in SUBSET E : g[T] = h[T]
<1> DEFINE bad == {n \in Nat : \E U \in SUBSET E : Cardinality(U) = n /\ g[U] # h[U]}
<1>1. bad = {}
  <2>1. SUFFICES ASSUME bad # {} PROVE FALSE  OBVIOUS
  <2>2. PICK m \in bad : \A n \in bad : m <= n  BY <2>1, LeastNumber
  <2>3. PICK U \in SUBSET E : Cardinality(U) = m /\ g[U] # h[U]  BY <2>2
  <2> DEFINE V == U \ {Pick(U)}
  <2>4. /\ g[U] = IF U = {} THEN 0 ELSE f[Pick(U)] + g[V]
        /\ h[U] = IF U = {} THEN 0 ELSE f[Pick(U)] + h[V]
    BY DEF SumsFor, Sums
  <2>5. U # {}  BY <2>3, <2>4
  <2>6. V \in SUBSET E /\ Cardinality(V) = m - 1 /\ m \in Nat
    BY <2>3, <2>5, PickOne, PartsOf DEF SumsFor, Summands
  <2>7. Cardinality(V) \in Nat
    <3>1. V \in SUBSET D  BY <2>6
    <3>2. QED  BY <3>1, PartsOf DEF SumsFor, Summands
  <2>8. m - 1 \notin bad  BY <2>2, <2>6, <2>7
  <2>9. g[V] = h[V]  BY <2>6, <2>7, <2>8
  <2>10. QED  BY <2>3, <2>4, <2>9
<1>2. \A T \in SUBSET E : Cardinality(T) \in Nat  BY PartsOf DEF SumsFor, Summands
<1>3. QED  BY <1>1, <1>2

\* There is one sum, whichever set it has been computed for.
LEMMA TotalIs ==
  ASSUME NEW f, NEW D, NEW g, NEW T,
         Summands(f, D), Sums(g, f, SUBSET D), T \subseteq D
  PROVE  g[T] = Total(f, T)
<1>1. Summands(f, T)  BY PartsOf DEF Summands
<1> DEFINE h == CHOOSE k : Sums(k, f, SUBSET T)
<1>2. \E k : Sums(k, f, SUBSET T)  BY <1>1, SumsExist
<1>3. Sums(h, f, SUBSET T)  BY <1>2
<1>4. Total(f, T) = h[T]  BY DEF Total
<1> HIDE DEF h
<1>5. T \subseteq D /\ SumsFor(g, f, D) /\ SumsFor(h, f, T)  BY <1>1, <1>3 DEF SumsFor
<1>6. \A U \in SUBSET T : g[U] = h[U]  BY <1>5, OneSum
<1>7. QED  BY <1>4, <1>6

LEMMA TotalStep ==
  ASSUME NEW f, NEW D, Summands(f, D)
  PROVE  /\ Total(f, D) \in Int
         /\ D = {} => Total(f, D) = 0
         /\ D # {} => Total(f, D) = f[Pick(D)] + Total(f, D \ {Pick(D)})
<1>1. PICK g \in [SUBSET D -> Int] : Sums(g, f, SUBSET D)  BY SumsExist
<1>2. \A T \in SUBSET D : g[T] = Total(f, T)  BY <1>1, TotalIs
<1>3. g[D] = IF D = {} THEN 0 ELSE f[Pick(D)] + g[D \ {Pick(D)}]  BY <1>1 DEF Sums
<1>4. D \in SUBSET D /\ D \ {Pick(D)} \in SUBSET D  OBVIOUS
<1>5. QED  BY <1>1, <1>2, <1>3, <1>4

\* A sum may be taken in any order.
LEMMA TotalWithout ==
  ASSUME NEW f, NEW D, Summands(f, D), NEW x \in D
  PROVE  Total(f, D) = f[x] + Total(f, D \ {x})
<1> DEFINE Fails(U, y) == Total(f, U) # f[y] + Total(f, U \ {y})
           bad == {n \in Nat : \E U \in SUBSET D : Cardinality(U) = n
                                                   /\ \E y \in U : Fails(U, y)}
<1>1. \A U \in SUBSET D : Summands(f, U)  BY PartsOf DEF Summands
<1>2. bad = {}
  <2>1. SUFFICES ASSUME bad # {} PROVE FALSE  OBVIOUS
  <2>2. PICK m \in bad : \A n \in bad : m <= n  BY <2>1, LeastNumber
  <2>3. PICK U \in SUBSET D : Cardinality(U) = m /\ \E y \in U : Fails(U, y)  BY <2>2
  <2>4. PICK y \in U : Fails(U, y)  BY <2>3
  <2> DEFINE p == Pick(U)
             V == U \ {p}
             W == U \ {y}
             R == (U \ {p}) \ {y}
  <2>5. /\ p \in U /\ V \in SUBSET D /\ W \in SUBSET D /\ R \in SUBSET D
        /\ Cardinality(V) = m - 1 /\ Cardinality(W) = m - 1 /\ m - 1 \in Nat
    <3>1. IsFiniteSet(U) /\ p \in U /\ Cardinality(V) = m - 1
      BY <2>3, <2>4, PartsOf, PickOne DEF Summands
    <3>2. Cardinality(W) = m - 1  BY <2>3, <3>1, FS_RemoveElement
    <3>3. V \in SUBSET D /\ W \in SUBSET D /\ R \in SUBSET D  OBVIOUS
    <3>4. Cardinality(W) \in Nat  BY <3>3, PartsOf DEF Summands
    <3>5. QED  BY <3>1, <3>2, <3>3, <3>4
  <2>6. m - 1 \notin bad  BY <2>2, <2>5
  <2>7. \A z \in V : ~Fails(V, z)  BY <2>5, <2>6
  <2>8. \A z \in W : ~Fails(W, z)  BY <2>5, <2>6
  <2>9. Total(f, U) = f[p] + Total(f, V)  BY <1>1, <2>4, TotalStep
  <2>10. p # y  BY <2>4, <2>9
  <2>11. Total(f, V) = f[y] + Total(f, R)  BY <2>4, <2>7, <2>10
  <2>12. W \ {p} = R  OBVIOUS
  <2>13. Total(f, W) = f[p] + Total(f, R)  BY <2>5, <2>8, <2>10, <2>12
  <2>14. Total(f, R) \in Int /\ f[p] \in Int /\ f[y] \in Int
    BY <1>1, <2>4, <2>5, TotalStep DEF Summands
  <2> HIDE DEF p, V, W, R
  <2>15. Total(f, U) = f[y] + Total(f, W)  BY <2>9, <2>11, <2>13, <2>14
  <2>16. QED  BY <2>4, <2>15 DEF W
<1>3. Cardinality(D) \in Nat /\ D \in SUBSET D  BY FS_CardinalityType DEF Summands
<1>4. QED  BY <1>2, <1>3

Without(D, x) == D \ {x}

LEMMA TotalWithoutOrNot ==
  ASSUME NEW f, NEW D, NEW x, Summands(f, D)
  PROVE  /\ Summands(f, Without(D, x))
         /\ x \in D => Total(f, D) = f[x] + Total(f, Without(D, x))
         /\ x \notin D => Total(f, D) = 0 + Total(f, Without(D, x))
<1>1. Summands(f, Without(D, x))  BY FS_Subset DEF Summands, Without
<1>2. x \in D => Total(f, D) = f[x] + Total(f, D \ {x})  BY TotalWithout
<1>3. x \notin D => Without(D, x) = D  BY DEF Without
<1>4. Total(f, D) \in Int  BY TotalStep
<1>5. x \notin D => Total(f, D) = 0 + Total(f, Without(D, x))  BY <1>3, <1>4
<1>6. QED  BY <1>1, <1>2, <1>5 DEF Without

LEMMA SumIsTotal ==
  ASSUME NEW f, NEW D
  PROVE  MapThenSumSet(LAMBDA x : f[x], D) = Total(f, D)
  BY DEF MapThenSumSet, MapThenFoldSet, Total, Sums, Pick

\* A sum looks at nothing but the values on its set.
LEMMA SameTotal ==
  ASSUME NEW f, NEW g, NEW D, Summands(f, D), \A x \in D : f[x] = g[x]
  PROVE  Total(f, D) = Total(g, D)
<1>1. Summands(g, D)  BY DEF Summands
<1>2. PICK h \in [SUBSET D -> Int] : Sums(h, f, SUBSET D)  BY SumsExist
<1>3. \A T \in SUBSET D : T # {} => f[Pick(T)] = g[Pick(T)]  BY DEF Pick
<1>4. Sums(h, g, SUBSET D)  BY <1>2, <1>3 DEF Sums
<1>5. h[D] = Total(f, D) /\ h[D] = Total(g, D)  BY <1>1, <1>2, <1>4, TotalIs
<1>6. QED  BY <1>5

\* Where no summand is negative, none is more than the sum.
LEMMA TotalSign ==
  ASSUME NEW f, NEW D, IsFiniteSet(D), \A x \in D : f[x] \in Nat
  PROVE  /\ Total(f, D) \in Nat
         /\ \A x \in D : f[x] <= Total(f, D)
<1> DEFINE bad == {n \in Nat : \E U \in SUBSET D : Cardinality(U) = n
                                                 /\ Total(f, U) \notin Nat}
<1>1. \A U \in SUBSET D : Summands(f, U)  BY PartsOf DEF Summands
<1>2. bad = {}
  <2>1. SUFFICES ASSUME bad # {} PROVE FALSE  OBVIOUS
  <2>2. PICK m \in bad : \A n \in bad : m <= n  BY <2>1, LeastNumber
  <2>3. PICK U \in SUBSET D : Cardinality(U) = m /\ Total(f, U) \notin Nat  BY <2>2
  <2> DEFINE V == U \ {Pick(U)}
  <2>4. /\ U = {} => Total(f, U) = 0
        /\ U # {} => Total(f, U) = f[Pick(U)] + Total(f, V)
    BY <1>1, TotalStep
  <2>5. U # {}  BY <2>3, <2>4
  <2>6. Pick(U) \in U /\ V \in SUBSET D /\ Cardinality(V) = m - 1
    BY <2>3, <2>5, PickOne
  <2>7. Cardinality(V) \in Nat  BY <2>6, PartsOf
  <2>8. m - 1 \in Nat /\ m - 1 \notin bad  BY <2>2, <2>6, <2>7
  <2>9. Total(f, V) \in Nat  BY <2>6, <2>8
  <2>10. f[Pick(U)] \in Nat  BY <2>6
  <2>11. QED  BY <2>3, <2>4, <2>5, <2>9, <2>10
<1>3. \A U \in SUBSET D : Total(f, U) \in Nat
  <2>1. \A U \in SUBSET D : Cardinality(U) \in Nat  BY PartsOf
  <2>2. QED  BY <1>2, <2>1
<1>4. ASSUME NEW x \in D PROVE f[x] <= Total(f, D)
  <2>1. Total(f, D) = f[x] + Total(f, D \ {x})  BY <1>1, TotalWithout
  <2>2. Total(f, D \ {x}) \in Nat  BY <1>3
  <2>3. QED  BY <2>1, <2>2
<1>5. QED  BY <1>3, <1>4

\* What is zero does not count.
LEMMA TotalOfPart ==
  ASSUME NEW f, NEW D, Summands(f, D), NEW E, E \subseteq D, \A x \in D \ E : f[x] = 0
  PROVE  Total(f, D) = Total(f, E)
<1> DEFINE bad == {n \in Nat : \E U \in SUBSET D : /\ E \subseteq U /\ Cardinality(U) = n
                                                 /\ Total(f, U) # Total(f, E)}
<1>1. \A U \in SUBSET D : Summands(f, U)  BY PartsOf DEF Summands
<1>2. bad = {}
  <2>1. SUFFICES ASSUME bad # {} PROVE FALSE  OBVIOUS
  <2>2. PICK m \in bad : \A n \in bad : m <= n  BY <2>1, LeastNumber
  <2>3. PICK U \in SUBSET D : /\ E \subseteq U /\ Cardinality(U) = m
                             /\ Total(f, U) # Total(f, E)
    BY <2>2
  <2>4. PICK x \in U : x \notin E  BY <2>3
  <2> DEFINE V == U \ {x}
  <2>5. V \in SUBSET D /\ E \subseteq V  BY <2>3, <2>4
  <2>6. Cardinality(V) = m - 1 /\ Cardinality(V) \in Nat
    <3>1. IsFiniteSet(U) /\ Cardinality(V) \in Nat  BY <2>5, PartsOf DEF Summands
    <3>2. Cardinality(V) = m - 1  BY <2>3, <2>4, <3>1, FS_RemoveElement
    <3>3. QED  BY <3>1, <3>2
  <2>7. m - 1 \notin bad  BY <2>2, <2>6
  <2>8. Total(f, V) = Total(f, E)  BY <2>5, <2>6, <2>7
  <2>9. Total(f, U) = f[x] + Total(f, V) /\ f[x] = 0  BY <1>1, <2>4, TotalWithout
  <2>10. Total(f, V) \in Int  BY <1>1, <2>5, TotalStep
  <2>11. QED  BY <2>3, <2>8, <2>9, <2>10
<1>3. Cardinality(D) \in Nat /\ D \in SUBSET D  BY FS_CardinalityType DEF Summands
<1>4. QED  BY <1>2, <1>3

-----------------------------------------------------------------------------
(* Counting a set by its parts.                                            *)

Apart(A, D) == \A x, y \in D : x # y => A[x] \cap A[y] = {}
All(A, D) == UNION {A[x] : x \in D}
Sizes(A, D) == [x \in D |-> Cardinality(A[x])]

LEMMA SizesAddUp ==
  ASSUME NEW A, NEW D, IsFiniteSet(D), \A x \in D : IsFiniteSet(A[x]), Apart(A, D)
  PROVE  /\ IsFiniteSet(All(A, D))
         /\ Cardinality(All(A, D)) = Total(Sizes(A, D), D)
<1> DEFINE f == Sizes(A, D)
           Right(U) == IsFiniteSet(All(A, U)) /\ Cardinality(All(A, U)) = Total(f, U)
           bad == {n \in Nat : \E U \in SUBSET D : Cardinality(U) = n /\ ~Right(U)}
<1>1. \A x \in D : f[x] = Cardinality(A[x]) /\ f[x] \in Nat
  BY FS_CardinalityType DEF Sizes
<1> HIDE DEF f
<1>2. \A U \in SUBSET D : Summands(f, U)  BY <1>1, PartsOf DEF Summands
<1>3. bad = {}
  <2>1. SUFFICES ASSUME bad # {} PROVE FALSE  OBVIOUS
  <2>2. PICK m \in bad : \A n \in bad : m <= n  BY <2>1, LeastNumber
  <2>3. PICK U \in SUBSET D : Cardinality(U) = m /\ ~Right(U)  BY <2>2
  <2> DEFINE p == Pick(U)
             V == U \ {p}
  <2>4. /\ U = {} => Total(f, U) = 0
        /\ U # {} => Total(f, U) = f[p] + Total(f, V)
    BY <1>2, TotalStep
  <2>5. U # {}
    <3>1. All(A, {}) = {}  BY DEF All
    <3>2. QED  BY <2>3, <2>4, <3>1, FS_EmptySet
  <2>6. p \in U /\ V \in SUBSET D /\ Cardinality(V) = m - 1  BY <2>3, <2>5, PickOne
  <2>7. Cardinality(V) \in Nat  BY <2>6, PartsOf
  <2>8. m - 1 \in Nat /\ m - 1 \notin bad  BY <2>2, <2>6, <2>7
  <2>9. Right(V)  BY <2>6, <2>8
  <2>10. All(A, U) = A[p] \cup All(A, V) /\ A[p] \cap All(A, V) = {}
    <3> HIDE DEF p
    <3>1. All(A, U) = A[p] \cup All(A, V)  BY <2>6 DEF All
    <3>2. \A x \in V : x \in D /\ x # p  BY <2>6
    <3>3. \A x \in V : A[p] \cap A[x] = {}  BY <2>6, <3>2 DEF Apart
    <3>4. QED  BY <3>1, <3>3 DEF All
  <2>11. IsFiniteSet(A[p]) /\ f[p] = Cardinality(A[p]) /\ f[p] \in Nat  BY <1>1, <2>6
  <2> HIDE DEF p, V
  <2>12. /\ IsFiniteSet(All(A, U))
         /\ Cardinality(All(A, U)) = Cardinality(A[p]) + Cardinality(All(A, V)) - Cardinality({})
    BY <2>9, <2>10, <2>11, FS_Union
  <2>13. Cardinality({}) = 0 /\ Cardinality(All(A, V)) \in Nat
    BY <2>9, FS_EmptySet, FS_CardinalityType
  <2>14. QED  BY <2>3, <2>4, <2>5, <2>9, <2>11, <2>12, <2>13
<1>4. Cardinality(D) \in Nat /\ D \in SUBSET D  BY FS_CardinalityType
<1>5. Right(D)  BY <1>3, <1>4
<1>6. QED  BY <1>5 DEF f

\* A sum is that of a part and that of the rest.
LEMMA TotalSplit ==
  ASSUME NEW f, NEW D, Summands(f, D), NEW E, E \subseteq D
  PROVE  /\ Summands(f, E) /\ Summands(f, D \ E)
         /\ Total(f, D) = Total(f, E) + Total(f, D \ E)
<1> DEFINE Rest(U) == D \ U
           bad == {n \in Nat : \E U \in SUBSET D : /\ Cardinality(U) = n
                                                 /\ Total(f, D) # Total(f, U) + Total(f, Rest(U))}
<1>1. \A U \in SUBSET D : Summands(f, U)  BY PartsOf DEF Summands
<1>2. bad = {}
  <2>1. SUFFICES ASSUME bad # {} PROVE FALSE  OBVIOUS
  <2>2. PICK m \in bad : \A n \in bad : m <= n  BY <2>1, LeastNumber
  <2>3. PICK U \in SUBSET D : /\ Cardinality(U) = m
                             /\ Total(f, D) # Total(f, U) + Total(f, Rest(U))
    BY <2>2
  <2> DEFINE p == Pick(U)
             V == U \ {p}
  <2>4. U # {}
    <3>1. Total(f, {}) = 0 /\ Total(f, D) \in Int  BY <1>1, TotalStep
    <3>2. Rest({}) = D  OBVIOUS
    <3>3. QED  BY <2>3, <3>1, <3>2
  <2>5. p \in U /\ V \in SUBSET D /\ Cardinality(V) = m - 1
    BY <2>3, <2>4, PickOne DEF Summands
  <2>6. Cardinality(V) \in Nat  BY <2>5, PartsOf DEF Summands
  <2>7. m - 1 \notin bad  BY <2>2, <2>5, <2>6
  <2>8. Total(f, D) = Total(f, V) + Total(f, Rest(V))  BY <2>5, <2>6, <2>7
  <2>9. Total(f, U) = f[p] + Total(f, V)  BY <1>1, <2>5, TotalWithout
  <2>10. p \in Rest(V) /\ Rest(V) \ {p} = Rest(U)
    <3> HIDE DEF p
    <3>1. QED  BY <2>5
  <2>11. Total(f, Rest(V)) = f[p] + Total(f, Rest(U))
    <3> HIDE DEF p, V
    <3>1. Summands(f, Rest(V))  BY <1>1
    <3>2. QED  BY <2>10, <3>1, TotalWithout
  <2>12. /\ Total(f, V) \in Int /\ f[p] \in Int /\ Total(f, Rest(U)) \in Int
    <3> HIDE DEF p, V
    <3>1. Rest(U) \in SUBSET D  OBVIOUS
    <3>2. QED  BY <1>1, <2>5, <3>1, TotalStep DEF Summands
  <2> HIDE DEF p, V, Rest
  <2>13. QED  BY <2>3, <2>8, <2>9, <2>11, <2>12
<1>3. \A U \in SUBSET D : Cardinality(U) \in Nat  BY PartsOf DEF Summands
<1>4. E \in SUBSET D /\ D \ E \in SUBSET D  OBVIOUS
<1>5. QED  BY <1>1, <1>2, <1>3, <1>4

LEMMA TotalPlus ==
  ASSUME NEW f, NEW g, NEW h, NEW D, Summands(f, D), Summands(g, D),
         \A x \in D : h[x] = f[x] + g[x]
  PROVE  Summands(h, D) /\ Total(h, D) = Total(f, D) + Total(g, D)
<1> DEFINE Fails(U) == Total(h, U) # Total(f, U) + Total(g, U)
           bad == {n \in Nat : \E U \in SUBSET D : Cardinality(U) = n /\ Fails(U)}
<1>1. \A U \in SUBSET D : Summands(f, U) /\ Summands(g, U) /\ Summands(h, U)
  BY PartsOf DEF Summands
<1>2. bad = {}
  <2>1. SUFFICES ASSUME bad # {} PROVE FALSE  OBVIOUS
  <2>2. PICK m \in bad : \A n \in bad : m <= n  BY <2>1, LeastNumber
  <2>3. PICK U \in SUBSET D : Cardinality(U) = m /\ Fails(U)  BY <2>2
  <2> DEFINE p == Pick(U)
             V == U \ {p}
  <2>4. /\ U = {} => Total(f, U) = 0 /\ Total(g, U) = 0 /\ Total(h, U) = 0
        /\ U # {} => /\ Total(f, U) = f[p] + Total(f, V)
                     /\ Total(g, U) = g[p] + Total(g, V)
                     /\ Total(h, U) = h[p] + Total(h, V)
    BY <1>1, TotalStep
  <2>5. U # {}  BY <2>3, <2>4
  <2>6. p \in U /\ V \in SUBSET D /\ Cardinality(V) = m - 1
    BY <2>3, <2>5, PickOne DEF Summands
  <2>7. Cardinality(V) \in Nat  BY <2>6, PartsOf DEF Summands
  <2>8. ~Fails(V)  BY <2>2, <2>6, <2>7
  <2>9. Total(f, V) \in Int /\ Total(g, V) \in Int  BY <1>1, <2>6, TotalStep
  <2>10. f[p] \in Int /\ g[p] \in Int /\ h[p] = f[p] + g[p]  BY <2>6 DEF Summands
  <2> HIDE DEF p, V
  <2>11. QED  BY <2>3, <2>4, <2>5, <2>8, <2>9, <2>10
<1>3. Cardinality(D) \in Nat /\ D \in SUBSET D  BY FS_CardinalityType DEF Summands
<1>4. QED  BY <1>1, <1>2, <1>3

LEMMA TotalOfOnes ==
  ASSUME NEW f, NEW D, IsFiniteSet(D), \A x \in D : f[x] = 1
  PROVE  Total(f, D) = Cardinality(D)
<1> DEFINE bad == {n \in Nat : \E U \in SUBSET D : Cardinality(U) = n
                                                 /\ Total(f, U) # Cardinality(U)}
<1>1. \A U \in SUBSET D : Summands(f, U)  BY PartsOf DEF Summands
<1>2. bad = {}
  <2>1. SUFFICES ASSUME bad # {} PROVE FALSE  OBVIOUS
  <2>2. PICK m \in bad : \A n \in bad : m <= n  BY <2>1, LeastNumber
  <2>3. PICK U \in SUBSET D : Cardinality(U) = m /\ Total(f, U) # Cardinality(U)  BY <2>2
  <2> DEFINE p == Pick(U)
             V == U \ {p}
  <2>4. /\ U = {} => Total(f, U) = 0
        /\ U # {} => Total(f, U) = f[p] + Total(f, V)
    BY <1>1, TotalStep
  <2>5. U # {}  BY <2>3, <2>4, FS_EmptySet
  <2>6. p \in U /\ V \in SUBSET D /\ Cardinality(V) = m - 1  BY <2>3, <2>5, PickOne
  <2>7. Cardinality(V) \in Nat  BY <2>6, PartsOf
  <2>8. m - 1 \notin bad  BY <2>2, <2>6, <2>7
  <2>9. Total(f, V) = m - 1  BY <2>6, <2>7, <2>8
  <2>10. f[p] = 1 /\ m \in Nat  BY <2>2, <2>6
  <2> HIDE DEF p, V
  <2>11. QED  BY <2>3, <2>4, <2>5, <2>9, <2>10
<1>3. Cardinality(D) \in Nat /\ D \in SUBSET D  BY FS_CardinalityType
<1>4. QED  BY <1>2, <1>3

LEMMA TotalOfOne ==
  ASSUME NEW f, NEW x, f[x] \in Int
  PROVE  Summands(f, {x}) /\ Total(f, {x}) = f[x]
<1>1. Summands(f, {x}) /\ Summands(f, {})  BY FS_Singleton, FS_EmptySet DEF Summands
<1>2. PICK D : D = {x}  OBVIOUS
<1>3. x \in D /\ D \ {x} = {} /\ Summands(f, D)  BY <1>1, <1>2
<1>4. Total(f, D) = f[x] + Total(f, D \ {x})  BY <1>3, TotalWithout
<1>5. Total(f, {}) = 0  BY <1>1, TotalStep
<1>6. QED  BY <1>1, <1>2, <1>3, <1>4, <1>5

\* One summand more, and another summand in the place of one.
LEMMA TotalWithOneMore ==
  ASSUME NEW f, NEW g, NEW E, NEW x \in E, Summands(f, Without(E, x)), g[x] \in Int,
         \A y \in Without(E, x) : g[y] = f[y]
  PROVE  Summands(g, E) /\ Total(g, E) = Total(f, Without(E, x)) + g[x]
<1>1. PICK D : D = E \ {x}  OBVIOUS
<1>2. E = D \cup {x} /\ D = Without(E, x)  BY <1>1 DEF Without
<1>3. Summands(f, D) /\ \A y \in D : f[y] = g[y]  BY <1>2
<1>4. Summands(g, E)  BY <1>2, <1>3, FS_AddElement DEF Summands
<1>5. Total(g, E) = g[x] + Total(g, D)  BY <1>1, <1>4, TotalWithout
<1>6. Total(f, D) = Total(g, D)  BY <1>3, SameTotal
<1>7. Total(f, D) \in Int  BY <1>3, TotalStep
<1>8. Total(f, D) = Total(f, Without(E, x))  BY <1>2
<1>9. QED  BY <1>4, <1>5, <1>6, <1>7, <1>8

LEMMA TotalWithOther ==
  ASSUME NEW f, NEW g, NEW D, NEW x \in D, Summands(f, D), g[x] \in Int,
         \A y \in D : y # x => g[y] = f[y]
  PROVE  Summands(g, D) /\ Total(g, D) = Total(f, D) + g[x] - f[x]
<1>1. PICK R : R = D \ {x}  OBVIOUS
<1>2. Summands(g, D) /\ Summands(f, R)  BY <1>1, FS_RemoveElement DEF Summands
<1>3. Total(g, D) = g[x] + Total(g, D \ {x}) /\ Total(f, D) = f[x] + Total(f, D \ {x})
  BY <1>2, TotalWithout
<1>4. \A y \in R : f[y] = g[y]  BY <1>1
<1>5. Total(f, R) = Total(g, R)  BY <1>2, <1>4, SameTotal
<1>6. Total(f, R) \in Int  BY <1>2, TotalStep
<1>7. f[x] \in Int  BY DEF Summands
<1>8. QED  BY <1>1, <1>2, <1>3, <1>5, <1>6, <1>7

\* A sum is that of the sums of its parts.
LEMMA TotalByParts ==
  ASSUME NEW f, NEW D, Summands(f, D), NEW A, IsFiniteSet(A), NEW part,
         \A x \in D : \E a \in A : \A b \in A : x \in part[b] <=> b = a,
         \A a \in A : part[a] \subseteq D,
         NEW g, \A a \in A : g[a] = Total(f, part[a])
  PROVE  Summands(g, A) /\ Total(g, A) = Total(f, D)
<1> DEFINE Of(B) == UNION {part[a] : a \in B}
           bad == {n \in Nat : \E B \in SUBSET A : Cardinality(B) = n
                                                 /\ Total(g, B) # Total(f, Of(B))}
<1>1. \A U \in SUBSET D : Summands(f, U)  BY PartsOf DEF Summands
<1>2. \A a \in A : g[a] \in Int
  <2>1. \A a \in A : Summands(f, part[a])  BY <1>1
  <2>2. QED  BY <2>1, TotalStep
<1>3. \A B \in SUBSET A : Summands(g, B)  BY <1>2, PartsOf DEF Summands
<1>4. \A B \in SUBSET A : Of(B) \subseteq D  OBVIOUS
<1>5. \A a, b \in A : a # b => part[a] \cap part[b] = {}  OBVIOUS
<1>6. bad = {}
  <2>1. SUFFICES ASSUME bad # {} PROVE FALSE  OBVIOUS
  <2>2. PICK m \in bad : \A n \in bad : m <= n  BY <2>1, LeastNumber
  <2>3. PICK B \in SUBSET A : Cardinality(B) = m /\ Total(g, B) # Total(f, Of(B))  BY <2>2
  <2> DEFINE p == Pick(B)
             C == B \ {p}
  <2>4. /\ B = {} => Total(g, B) = 0
        /\ B # {} => Total(g, B) = g[p] + Total(g, C)
    BY <1>3, TotalStep
  <2>5. B # {}
    <3>1. Of({}) = {}  OBVIOUS
    <3>2. Total(f, {}) = 0
      <4>1. Summands(f, {})  BY FS_EmptySet DEF Summands
      <4>2. QED  BY <4>1, TotalStep
    <3>3. QED  BY <2>3, <2>4, <3>1, <3>2
  <2>6. p \in B /\ C \in SUBSET A /\ Cardinality(C) = m - 1  BY <2>3, <2>5, PickOne
  <2>7. Cardinality(C) \in Nat  BY <2>6, PartsOf
  <2>8. m - 1 \notin bad
    <3>1. m - 1 \in Nat  BY <2>6, <2>7
    <3>2. m \in Nat  BY <2>2
    <3> HIDE DEF bad
    <3>3. QED  BY <2>2, <3>1, <3>2
  <2>9. Total(g, C) = Total(f, Of(C))  BY <2>6, <2>7, <2>8
  <2>10. part[p] \subseteq Of(B) /\ Of(B) \ part[p] = Of(C)
    <3>1. \A a \in C : a # p /\ a \in A /\ p \in A  BY <2>6
    <3> HIDE DEF p
    <3>2. \A a \in C : part[a] \cap part[p] = {}  BY <1>5, <3>1
    <3>3. Of(B) = part[p] \cup Of(C)  BY <2>6
    <3>4. part[p] \cap Of(C) = {}  BY <3>2
    <3> HIDE DEF Of, C
    <3>5. QED  BY <3>3, <3>4
  <2> HIDE DEF p, C, Of
  <2>11. Total(f, Of(B)) = Total(f, part[p]) + Total(f, Of(B) \ part[p])
    <3>1. Summands(f, Of(B))  BY <1>1, <1>4
    <3>2. QED  BY <2>10, <3>1, TotalSplit
  <2>12. g[p] = Total(f, part[p])  BY <2>6
  <2>13. QED  BY <2>3, <2>4, <2>5, <2>9, <2>10, <2>11, <2>12
<1>7. Cardinality(A) \in Nat /\ A \in SUBSET A  BY FS_CardinalityType
<1>8. Of(A) = D
  <2>1. D \subseteq Of(A)
    <3>1. SUFFICES ASSUME NEW x \in D PROVE \E a \in A : x \in part[a]  OBVIOUS
    <3>2. PICK a \in A : \A b \in A : x \in part[b] <=> b = a  OBVIOUS
    <3>3. QED  BY <3>2
  <2>2. QED  BY <1>4, <2>1
<1>9. QED  BY <1>3, <1>6, <1>7, <1>8
=============================================================================
