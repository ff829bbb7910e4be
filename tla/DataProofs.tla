----------------------------- MODULE DataProofs -----------------------------
(***************************************************************************)
(* Facts about the data operators that the models are built from.          *)
(*                                                                         *)
(* Orders: what Ordering's lists are, for every finite set and every       *)
(* strict total order: a permutation of the set, sorted, and the only one. *)
(* The proofs count: an element's place is the number of elements before   *)
(* it.                                                                     *)
(*                                                                         *)
(* Sums: what the folds of the community modules compute.  Their recursive *)
(* function is over the subsets of a finite set, and a smallest subset on  *)
(* which a claim about it fails stands in for the induction.               *)
(***************************************************************************)
EXTENDS Ordering, FiniteSetsExt, FiniteSetTheorems, FunctionTheorems, TLAPS

(* l is the n elements of S in the order R. *)
Listing(l, n, S, R) ==
  /\ l \in [1..n -> S]
  /\ \A e \in S : \E i \in 1..n : l[i] = e
  /\ \A i, k \in 1..n : i < k => <<l[i], l[k]>> \in R

(* An element that comes later has more elements before it. *)
LEMMA PlacesGrow ==
  ASSUME NEW S, IsFiniteSet(S), NEW R, Orders(R, S), NEW d \in S, NEW e \in S,
         <<d, e>> \in R
  PROVE  Cardinality(Earlier(S, R, d)) < Cardinality(Earlier(S, R, e))
<1>1. IsFiniteSet(Earlier(S, R, e)) /\ IsFiniteSet(Earlier(S, R, d))
  BY FS_Subset DEF Earlier
<1>2. Earlier(S, R, d) \subseteq Earlier(S, R, e)
  BY DEF Earlier, Orders
<1>3. d \in Earlier(S, R, e) /\ d \notin Earlier(S, R, d)
  BY DEF Earlier, Orders
<1>4. /\ Cardinality(Earlier(S, R, d)) <= Cardinality(Earlier(S, R, e))
      /\ Cardinality(Earlier(S, R, d)) # Cardinality(Earlier(S, R, e))
  BY <1>1, <1>2, <1>3, FS_Subset
<1>5. Cardinality(Earlier(S, R, d)) \in Nat /\ Cardinality(Earlier(S, R, e)) \in Nat
  BY <1>1, FS_CardinalityType
<1> QED BY <1>4, <1>5

(* The places of the elements are the numbers below that of the elements.  *)
LEMMA PlacesAreAll ==
  ASSUME NEW S, IsFiniteSet(S), NEW R, Orders(R, S)
  PROVE  /\ Cardinality(S) \in Nat
         /\ \A e \in S : Cardinality(Earlier(S, R, e)) \in 0..(Cardinality(S) - 1)
         /\ \A d, e \in S : Cardinality(Earlier(S, R, d)) = Cardinality(Earlier(S, R, e)) => d = e
         /\ \A i \in 1..Cardinality(S) : \E e \in S : Cardinality(Earlier(S, R, e)) = i - 1
<1> DEFINE n == Cardinality(S)
           place == [e \in S |-> Cardinality(Earlier(S, R, e)) + 1]
<1>1. n \in Nat
  BY FS_CardinalityType
<1>2. ASSUME NEW e \in S
      PROVE  Cardinality(Earlier(S, R, e)) \in 0..(n - 1)
  <2>1. Earlier(S, R, e) \in SUBSET (S \ {e})
    BY DEF Earlier, Orders
  <2>2. IsFiniteSet(S \ {e}) /\ Cardinality(S \ {e}) = n - 1
    BY FS_RemoveElement
  <2>3. IsFiniteSet(Earlier(S, R, e)) /\ Cardinality(Earlier(S, R, e)) <= n - 1
    BY <2>1, <2>2, FS_Subset
  <2>4. Cardinality(Earlier(S, R, e)) \in Nat
    BY <2>3, FS_CardinalityType
  <2> QED BY <1>1, <2>3, <2>4
<1>3. ASSUME NEW d \in S, NEW e \in S,
             Cardinality(Earlier(S, R, d)) = Cardinality(Earlier(S, R, e))
      PROVE  d = e
  <2>1. <<d, e>> \notin R /\ <<e, d>> \notin R
    BY <1>2, <1>3, PlacesGrow
  <2> QED BY <2>1 DEF Orders
<1>4. place \in [S -> 1..n]
  BY <1>1, <1>2
<1>5. \A d, e \in S : place[d] = place[e] => d = e
  BY <1>1, <1>2, <1>3
<1>6. place \in Injection(S, 1..n)
  BY <1>4, <1>5, Fun_IsInj
<1>7. IsFiniteSet(1..n) /\ Cardinality(1..n) = n
  BY <1>1, FS_Interval
<1>8. place \in Surjection(S, 1..n)
  BY <1>6, <1>7, FS_Injection
<1>9. \A i \in 1..n : \E e \in S : place[e] = i
  <2> HIDE DEF place
  <2> QED BY <1>8, Fun_SurjectionProperties
<1>10. ASSUME NEW i \in 1..n
       PROVE  \E e \in S : Cardinality(Earlier(S, R, e)) = i - 1
  <2>1. PICK e \in S : place[e] = i
    BY <1>9
  <2>2. Cardinality(Earlier(S, R, e)) + 1 = i
    BY <2>1
  <2> QED BY <1>1, <1>2, <2>2
<1> QED BY <1>1, <1>2, <1>3, <1>10

(* A set put in order is a sorted permutation of the set. *)
LEMMA InOrderSorts ==
  ASSUME NEW S, IsFiniteSet(S), NEW R, Orders(R, S)
  PROVE  /\ Cardinality(S) \in Nat
         /\ Listing(InOrder(S, R), Cardinality(S), S, R)
<1> DEFINE n == Cardinality(S)
           l == InOrder(S, R)
<1>1. n \in Nat
  BY FS_CardinalityType
<1>2. ASSUME NEW i \in 1..n
      PROVE  l[i] \in S /\ Cardinality(Earlier(S, R, l[i])) = i - 1
  <2>1. l[i] = CHOOSE e \in S : Cardinality(Earlier(S, R, e)) = i - 1
    BY DEF InOrder
  <2>2. \E e \in S : Cardinality(Earlier(S, R, e)) = i - 1
    BY PlacesAreAll
  <2> QED BY <2>1, <2>2
<1>3. l \in [1..n -> S]
  BY <1>2 DEF InOrder
<1>4. ASSUME NEW e \in S
      PROVE  \E i \in 1..n : l[i] = e
  <2> DEFINE i == Cardinality(Earlier(S, R, e)) + 1
  <2>1. i \in 1..n /\ i - 1 = Cardinality(Earlier(S, R, e))
    BY <1>1, PlacesAreAll
  <2>2. l[i] \in S /\ Cardinality(Earlier(S, R, l[i])) = i - 1
    BY <1>2, <2>1
  <2>3. l[i] = e
    BY <2>1, <2>2, PlacesAreAll
  <2> QED BY <2>1, <2>3
<1>5. ASSUME NEW i \in 1..n, NEW k \in 1..n
      PROVE  i < k => <<l[i], l[k]>> \in R
  <2>1. <<l[k], l[i]>> \in R => k - 1 < i - 1
    BY <1>2, PlacesGrow
  <2>2. i < k => l[i] # l[k]
    BY <1>1, <1>2
  <2>3. l[i] # l[k] => <<l[i], l[k]>> \in R \/ <<l[k], l[i]>> \in R
    BY <1>2 DEF Orders
  <2> QED BY <1>1, <2>1, <2>2, <2>3
<1> QED BY <1>1, <1>3, <1>4, <1>5 DEF Listing

(* The order of the places is that of the elements. *)
LEMMA ListedBefore ==
  ASSUME NEW S, NEW n \in Nat, NEW R, Orders(R, S), NEW l, Listing(l, n, S, R)
  PROVE  /\ \A i, k \in 1..n : i < k <=> <<l[i], l[k]>> \in R
         /\ \A i, k \in 1..n : l[i] = l[k] => i = k
<1> SUFFICES ASSUME NEW i \in 1..n, NEW k \in 1..n
             PROVE  /\ i < k <=> <<l[i], l[k]>> \in R
                    /\ l[i] = l[k] => i = k
  OBVIOUS
<1>1. l[i] \in S /\ l[k] \in S
  BY DEF Listing
<1>2. (i < k => <<l[i], l[k]>> \in R) /\ (k < i => <<l[k], l[i]>> \in R)
  BY DEF Listing
<1>3. ~(<<l[i], l[k]>> \in R /\ <<l[k], l[i]>> \in R) /\ <<l[i], l[i]>> \notin R
  BY <1>1 DEF Orders
<1>4. i < k \/ k < i \/ i = k
  OBVIOUS
<1> QED BY <1>2, <1>3, <1>4

(* An element of place i has i - 1 before it. *)
LEMMA SortedPlaces ==
  ASSUME NEW S, NEW n \in Nat, NEW R, Orders(R, S), NEW l, Listing(l, n, S, R),
         NEW i \in 1..n
  PROVE  Cardinality(Earlier(S, R, l[i])) = i - 1
<1> DEFINE F == [k \in 1..(i - 1) |-> l[k]]
           B == Earlier(S, R, l[i])
<1>0. /\ \A a, b \in 1..n : a < b <=> <<l[a], l[b]>> \in R
      /\ \A a, b \in 1..n : l[a] = l[b] => a = b
  BY ListedBefore
<1>1. F \in [1..(i - 1) -> B]
  BY DEF Earlier, Listing
<1>2. \A k, m \in 1..(i - 1) : F[k] = F[m] => k = m
  <2> TAKE k, m \in 1..(i - 1)
  <2>1. k \in 1..n /\ m \in 1..n
    OBVIOUS
  <2>2. F[k] = l[k] /\ F[m] = l[m]
    OBVIOUS
  <2>3. l[k] = l[m] => k = m
    BY <1>0, <2>1
  <2> QED BY <2>2, <2>3
<1>3. \A e \in B : \E k \in 1..(i - 1) : F[k] = e
  <2> TAKE e \in B
  <2>1. PICK k \in 1..n : l[k] = e
    BY DEF Earlier, Listing
  <2>2. k < i
    BY <1>0, <2>1 DEF Earlier
  <2>3. k \in 1..(i - 1) /\ F[k] = e
    BY <2>1, <2>2
  <2> QED BY <2>3
<1>4. F \in Bijection(1..(i - 1), B)
  BY <1>1, <1>2, <1>3, Fun_IsBij
<1>5. IsFiniteSet(1..(i - 1)) /\ Cardinality(1..(i - 1)) = i - 1
  BY FS_Interval
<1> QED BY <1>4, <1>5, FS_Bijection, Fun_ExistsBij

(* The first k of a set in an order are k elements, or all.                *)
LEMMA FirstPlaces ==
  ASSUME NEW S, IsFiniteSet(S), NEW R, Orders(R, S), NEW k \in Nat
  PROVE  LET first == {e \in S : Cardinality(Earlier(S, R, e)) < k}
         IN  /\ IsFiniteSet(first)
             /\ Cardinality(first) \in Nat /\ Cardinality(first) <= k
             /\ first # S => Cardinality(first) = k
<1> DEFINE n == Cardinality(S)
           l == InOrder(S, R)
           first == {e \in S : Cardinality(Earlier(S, R, e)) < k}
           m == IF k < n THEN k ELSE n
           F == [i \in 1..m |-> l[i]]
<1>1. n \in Nat /\ Listing(l, n, S, R)
  BY InOrderSorts
<1>2. m \in Nat /\ m <= k /\ m <= n
  BY <1>1
<1> HIDE DEF l, n
<1>3. \A i \in 1..n : l[i] \in S /\ Cardinality(Earlier(S, R, l[i])) = i - 1
  <2>1. \A i \in 1..n : l[i] \in S
    BY <1>1 DEF Listing
  <2>2. \A i \in 1..n : Cardinality(Earlier(S, R, l[i])) = i - 1
    BY <1>1, SortedPlaces
  <2> QED BY <2>1, <2>2
<1>4. \A i, j \in 1..n : l[i] = l[j] => i = j
  BY <1>1, ListedBefore
<1>5. \A e \in S : \E i \in 1..n : l[i] = e
  BY <1>1 DEF Listing
<1>6. F \in [1..m -> first]
  <2> SUFFICES ASSUME NEW i \in 1..m PROVE l[i] \in first
    OBVIOUS
  <2>1. i \in 1..n /\ i - 1 < k
    BY <1>1, <1>2
  <2> QED BY <1>3, <2>1
<1>7. \A i, j \in 1..m : F[i] = F[j] => i = j
  <2> TAKE i, j \in 1..m
  <2>1. i \in 1..n /\ j \in 1..n
    BY <1>1, <1>2
  <2> QED BY <1>4, <2>1
<1>8. \A e \in first : \E i \in 1..m : F[i] = e
  <2> TAKE e \in first
  <2>1. PICK i \in 1..n : l[i] = e
    BY <1>5
  <2>2. i - 1 < k
    BY <1>3, <2>1
  <2>3. i \in 1..m
    BY <1>1, <2>2
  <2> QED BY <2>1, <2>3
<1>9. F \in Bijection(1..m, first)
  BY <1>6, <1>7, <1>8, Fun_IsBij
<1>10. IsFiniteSet(1..m) /\ Cardinality(1..m) = m
  <2> HIDE DEF m
  <2> QED BY <1>2, FS_Interval
<1>11. IsFiniteSet(first) /\ Cardinality(first) = m
  BY <1>9, <1>10, FS_Bijection, Fun_ExistsBij, FS_Subset
<1>12. first # S => k < n
  <2> SUFFICES ASSUME NEW e \in S, e \notin first PROVE k < n
    OBVIOUS
  <2>1. PICK i \in 1..n : l[i] = e
    BY <1>5
  <2>2. ~(i - 1 < k)
    BY <1>3, <2>1
  <2> QED BY <1>1, <2>2
<1> QED BY <1>2, <1>11, <1>12

(* There is only one way to list a set in order. *)
LEMMA ListedOneWay ==
  ASSUME NEW S, NEW n \in Nat, NEW R, Orders(R, S),
         NEW l, Listing(l, n, S, R), NEW m, Listing(m, n, S, R)
  PROVE  l = m
<1>1. ASSUME NEW i \in 1..n
      PROVE  l[i] = m[i]
  <2>1. PICK k \in 1..n : m[k] = l[i]
    BY DEF Listing
  <2>2. Cardinality(Earlier(S, R, l[i])) = i - 1 /\ Cardinality(Earlier(S, R, m[k])) = k - 1
    BY SortedPlaces
  <2> QED BY <2>1, <2>2
<1> QED BY <1>1 DEF Listing

-----------------------------------------------------------------------------
(* The element that the folds of the library take next. *)
Pick(s) == CHOOSE x \in s : TRUE

(* g folds the subsets of S by the step function st. *)
Fold(g, base, st, S) ==
  g = [s \in SUBSET S |-> IF s = {} THEN base ELSE st[<<Pick(s), g[s \ {Pick(s)}]>>]]

(* g sums the weights w of the subsets of S. *)
Sums(g, w, S) ==
  g = [s \in SUBSET S |-> IF s = {} THEN 0 ELSE w[Pick(s)] + g[s \ {Pick(s)}]]

(* w gives every element of the finite set S a weight, g sums them. *)
SumOf(g, w, S) == IsFiniteSet(S) /\ w \in [S -> Int] /\ Sums(g, w, S)

(* The sum of a set is that of one of its elements, whichever, and of the  *)
(* rest.                                                                   *)
Additive(g, w, S) ==
  /\ g[{}] = 0
  /\ g \in [SUBSET S -> Int]
  /\ \A s \in SUBSET S : \A x \in s : g[s] = w[x] + g[s \ {x}]

(* Induction over finite sets: a set of subsets that has an element has a  *)
(* smallest one, so a claim about sums has a smallest counterexample, or   *)
(* none.                                                                   *)
LEMMA SubsetMin ==
  ASSUME NEW S, IsFiniteSet(S), NEW F \in SUBSET SUBSET S, F # {}
  PROVE  \E T \in F : \A U \in F : U \subseteq T => U = T
<1>1. IsWellFoundedOn(StrictSubsetOrdering(S), SUBSET S)
  BY FS_StrictSubsetOrderingWellFounded, FS_FiniteSubsetsOfFinite
<1>2. PICK T \in F : \A U \in F : <<U, T>> \notin StrictSubsetOrdering(S)
  BY <1>1, WFMin
<1> QED BY <1>2 DEF StrictSubsetOrdering

(* A set that is not empty has an element to take. *)
LEMMA Picked == ASSUME NEW s, s # {} PROVE Pick(s) \in s
  BY DEF Pick

(* A fold over a set and one over a subset agree on the subset. *)
LEMMA FoldsAgree ==
  ASSUME NEW S, IsFiniteSet(S), NEW U \in SUBSET S, NEW base, NEW st,
         NEW g, Fold(g, base, st, S), NEW h, Fold(h, base, st, U)
  PROVE  \A s \in SUBSET U : g[s] = h[s]
<1> DEFINE Bad == {s \in SUBSET U : g[s] # h[s]}
<1> SUFFICES ASSUME Bad # {} PROVE FALSE
  OBVIOUS
<1>1. IsFiniteSet(U)
  BY FS_Subset
<1>2. PICK T \in Bad : \A V \in Bad : V \subseteq T => V = T
  <2>1. Bad \in SUBSET SUBSET U
    OBVIOUS
  <2> HIDE DEF Bad
  <2> QED BY <1>1, <2>1, SubsetMin
<1>3. \A s \in SUBSET S : g[s] = IF s = {} THEN base ELSE st[<<Pick(s), g[s \ {Pick(s)}]>>]
  BY DEF Fold
<1>4. \A s \in SUBSET U : h[s] = IF s = {} THEN base ELSE st[<<Pick(s), h[s \ {Pick(s)}]>>]
  BY DEF Fold
<1>5. T # {}
  BY <1>2, <1>3, <1>4
<1>6. Pick(T) \in T
  BY <1>5, Picked
<1>7. g[T \ {Pick(T)}] = h[T \ {Pick(T)}]
  BY <1>2, <1>6
<1> QED BY <1>2, <1>3, <1>4, <1>5, <1>7

(* The recursive function that MapThenFoldSet chooses exists. *)
LEMMA FoldExists ==
  ASSUME NEW S, IsFiniteSet(S), NEW V, NEW base \in V, NEW st \in [S \X V -> V]
  PROVE  \E g \in [SUBSET S -> V] : Fold(g, base, st, S)
<1> DEFINE Has(T) == \E g \in [SUBSET T -> V] : Fold(g, base, st, T)
           Bad == {T \in SUBSET S : ~Has(T)}
<1> SUFFICES ASSUME Bad # {} PROVE FALSE
  OBVIOUS
<1>1. PICK T \in Bad : \A U \in Bad : U \subseteq T => U = T
  <2>1. Bad \in SUBSET SUBSET S
    OBVIOUS
  <2> HIDE DEF Bad
  <2> QED BY <2>1, SubsetMin
<1> DEFINE At(s) == CHOOSE g \in [SUBSET s -> V] : Fold(g, base, st, s)
<1>2. ASSUME NEW s \in SUBSET T, s # T
      PROVE  At(s) \in [SUBSET s -> V] /\ Fold(At(s), base, st, s)
  <2>1. Has(s)
    BY <1>1, <1>2
  <2> QED BY <2>1
<1> DEFINE G == [s \in SUBSET T |-> IF s = {} THEN base
                                    ELSE st[<<Pick(s), At(s \ {Pick(s)})[s \ {Pick(s)}]>>]]
<1> HIDE DEF At
<1>3. ASSUME NEW s \in SUBSET T, s # {}
      PROVE  /\ Pick(s) \in s /\ Pick(s) \in S
             /\ s \ {Pick(s)} \in SUBSET T /\ s \ {Pick(s)} # T
             /\ At(s \ {Pick(s)})[s \ {Pick(s)}] \in V
  <2>1. Pick(s) \in s
    BY <1>3, Picked
  <2>2. s \ {Pick(s)} \in SUBSET T /\ s \ {Pick(s)} # T /\ Pick(s) \in S
    BY <2>1
  <2> QED BY <1>2, <2>1, <2>2
<1>4. G \in [SUBSET T -> V]
  BY <1>3
<1>5. ASSUME NEW u \in SUBSET T, u # T
      PROVE  G[u] = At(u)[u]
  <2>1. CASE u = {}
    <3>1. At(u)[u] = base
      BY <1>2, <1>5, <2>1 DEF Fold
    <3> QED BY <2>1, <3>1
  <2>2. CASE u # {}
    <3> DEFINE r == u \ {Pick(u)}
    <3>1. Pick(u) \in u /\ r \in SUBSET T /\ r # T /\ r \in SUBSET u
      BY <1>3, <2>2
    <3>2. At(u)[u] = st[<<Pick(u), At(u)[r]>>]
      BY <1>2, <1>5, <2>2 DEF Fold
    <3>3. IsFiniteSet(u)
      BY FS_Subset
    <3>4. Fold(At(u), base, st, u) /\ Fold(At(r), base, st, r)
      BY <1>2, <1>5, <3>1
    <3>5. At(u)[r] = At(r)[r]
      <4> DEFINE gu == At(u)
                 gr == At(r)
      <4>1. Fold(gu, base, st, u) /\ Fold(gr, base, st, r) /\ r \in SUBSET u
        BY <3>1, <3>4
      <4> HIDE DEF r, gu, gr
      <4>2. \A s \in SUBSET r : gu[s] = gr[s]
        BY <4>1, <3>3, FoldsAgree
      <4>3. gu[r] = gr[r]
        BY <4>2
      <4> QED BY <4>3 DEF gu, gr
    <3> QED BY <2>2, <3>2, <3>5
  <2> QED BY <2>1, <2>2
<1>6. Fold(G, base, st, T)
  <2>1. ASSUME NEW s \in SUBSET T, s # {}
        PROVE  G[s] = st[<<Pick(s), G[s \ {Pick(s)}]>>]
    <3>1. G[s \ {Pick(s)}] = At(s \ {Pick(s)})[s \ {Pick(s)}]
      BY <1>3, <1>5, <2>1
    <3> QED BY <2>1, <3>1
  <2>2. \A s \in SUBSET T : s = {} => G[s] = base
    OBVIOUS
  <2>3. G = [s \in SUBSET T |-> G[s]]
    OBVIOUS
  <2> HIDE DEF G
  <2> QED BY <2>1, <2>2, <2>3 DEF Fold
<1> QED BY <1>1, <1>4, <1>6

(* So does that of a sum, and its values are integers. *)
LEMMA SumsExist ==
  ASSUME NEW S, IsFiniteSet(S), NEW w \in [S -> Int]
  PROVE  /\ \E g : Sums(g, w, S)
         /\ \A g : Sums(g, w, S) => g \in [SUBSET S -> Int]
<1> DEFINE st == [p \in S \X Int |-> w[p[1]] + p[2]]
<1>1. st \in [S \X Int -> Int]
  OBVIOUS
<1>2. PICK f \in [SUBSET S -> Int] : Fold(f, 0, st, S)
  <2>1. 0 \in Int
    OBVIOUS
  <2> HIDE DEF st
  <2> QED BY <1>1, <2>1, FoldExists
<1>3. \A s \in SUBSET S : s # {} => Pick(s) \in S /\ s \ {Pick(s)} \in SUBSET S
  BY Picked
<1>4. \A s \in SUBSET S : f[s] = IF s = {} THEN 0 ELSE w[Pick(s)] + f[s \ {Pick(s)}]
  <2> TAKE s \in SUBSET S
  <2>1. f[s] = IF s = {} THEN 0 ELSE st[<<Pick(s), f[s \ {Pick(s)}]>>]
    BY <1>2 DEF Fold
  <2>2. s # {} => st[<<Pick(s), f[s \ {Pick(s)}]>>] = w[Pick(s)] + f[s \ {Pick(s)}]
    BY <1>3
  <2> QED BY <2>1, <2>2
<1>5. Sums(f, w, S)
  BY <1>4 DEF Sums
<1>6. ASSUME NEW g, Sums(g, w, S)
      PROVE  g \in [SUBSET S -> Int]
  <2> DEFINE Bad == {s \in SUBSET S : g[s] # f[s]}
  <2>1. CASE Bad = {}
    <3>1. \A s \in SUBSET S : g[s] \in Int
      BY <2>1
    <3> QED BY <3>1, <1>6 DEF Sums
  <2>2. CASE Bad # {}
    <3>1. PICK T \in Bad : \A V \in Bad : V \subseteq T => V = T
      <4>1. Bad \in SUBSET SUBSET S
        OBVIOUS
      <4> HIDE DEF Bad
      <4> QED BY <2>2, <4>1, SubsetMin
    <3>2. g[T] = IF T = {} THEN 0 ELSE w[Pick(T)] + g[T \ {Pick(T)}]
      BY <1>6 DEF Sums
    <3>3. f[T] = IF T = {} THEN 0 ELSE w[Pick(T)] + f[T \ {Pick(T)}]
      BY <1>4
    <3>4. T # {}
      BY <3>1, <3>2, <3>3
    <3>5. Pick(T) \in T
      BY <3>4, Picked
    <3>6. g[T \ {Pick(T)}] = f[T \ {Pick(T)}]
      BY <3>1, <3>5
    <3> QED BY <3>1, <3>2, <3>3, <3>4, <3>6
  <2> QED BY <2>1, <2>2
<1> QED BY <1>5, <1>6

(* Any element may be taken first. *)
LEMMA SumRemove ==
  ASSUME NEW S, NEW w, NEW g, SumOf(g, w, S)
  PROVE  Additive(g, w, S)
<1> USE DEF SumOf
<1>1. \A s \in SUBSET S : g[s] = IF s = {} THEN 0 ELSE w[Pick(s)] + g[s \ {Pick(s)}]
  BY DEF Sums
<1>2. g \in [SUBSET S -> Int]
  BY SumsExist
<1> DEFINE Bad == {s \in SUBSET S : \E x \in s : g[s] # w[x] + g[s \ {x}]}
<1>3. ASSUME Bad # {} PROVE FALSE
  <2>1. PICK T \in Bad : \A V \in Bad : V \subseteq T => V = T
    <3>1. Bad \in SUBSET SUBSET S
      OBVIOUS
    <3> HIDE DEF Bad
    <3> QED BY <1>3, <3>1, SubsetMin
  <2>2. PICK x \in T : g[T] # w[x] + g[T \ {x}]
    BY <2>1
  <2> DEFINE p == Pick(T)
  <2>3. p \in T /\ g[T] = w[p] + g[T \ {p}]
    BY <1>1, <2>2, Picked
  <2>4. p # x
    BY <2>2, <2>3
  <2> HIDE DEF p
  <2>5. T \ {p} \notin Bad /\ T \ {x} \notin Bad
    BY <2>1, <2>2, <2>3
  <2>6. g[T \ {p}] = w[x] + g[(T \ {p}) \ {x}]
    BY <2>1, <2>2, <2>4, <2>5
  <2>7. g[T \ {x}] = w[p] + g[(T \ {x}) \ {p}]
    BY <2>1, <2>3, <2>4, <2>5
  <2>8. (T \ {p}) \ {x} = (T \ {x}) \ {p}
    OBVIOUS
  <2>9. /\ w[x] \in Int /\ w[p] \in Int /\ g[(T \ {p}) \ {x}] \in Int
    BY <1>2, <2>1, <2>2, <2>3
  <2>10. w[p] + (w[x] + g[(T \ {p}) \ {x}]) = w[x] + (w[p] + g[(T \ {p}) \ {x}])
    BY <2>9
  <2>11. g[T] = w[x] + g[T \ {x}]
    BY <2>3, <2>6, <2>7, <2>8, <2>10
  <2> QED BY <2>2, <2>11
<1> QED BY <1>1, <1>2, <1>3 DEF Additive

(* Greater weights, a greater sum: and an equal one only if all are equal. *)
LEMMA SumMonotone ==
  ASSUME NEW S, NEW w, NEW v, NEW g, SumOf(g, w, S), NEW h, SumOf(h, v, S),
         \A x \in S : w[x] <= v[x]
  PROVE  /\ g[S] \in Int /\ h[S] \in Int
         /\ g[S] <= h[S]
         /\ g[S] = h[S] <=> \A x \in S : w[x] = v[x]
<1> DEFINE Good(s) == /\ g[s] <= h[s]
                      /\ g[s] = h[s] <=> \A x \in s : w[x] = v[x]
           Bad == {s \in SUBSET S : ~Good(s)}
<1>0. /\ g \in [SUBSET S -> Int] /\ h \in [SUBSET S -> Int]
      /\ \A s \in SUBSET S : \A x \in s : g[s] = w[x] + g[s \ {x}]
      /\ \A s \in SUBSET S : \A x \in s : h[s] = v[x] + h[s \ {x}]
  <2>1. Additive(g, w, S) /\ Additive(h, v, S)
    BY SumRemove
  <2> QED BY <2>1 DEF Additive
<1> SUFFICES ASSUME Bad # {} PROVE FALSE
  <2>1. Bad = {} => Good(S)
    OBVIOUS
  <2> QED BY <1>0, <2>1
<1>1. PICK T \in Bad : \A V \in Bad : V \subseteq T => V = T
  <2>1. Bad \in SUBSET SUBSET S
    OBVIOUS
  <2> HIDE DEF Bad
  <2> QED BY <2>1, SubsetMin DEF SumOf
<1>2. T # {}
  <2>1. g[{}] = 0 /\ h[{}] = 0
    BY SumRemove DEF Additive
  <2>2. Good({})
    BY <2>1
  <2>3. ~Good(T)
    BY <1>1
  <2> HIDE DEF Good
  <2> QED BY <2>2, <2>3
<1>3. PICK x \in T : TRUE
  BY <1>2
<1>4. g[T] = w[x] + g[T \ {x}] /\ h[T] = v[x] + h[T \ {x}]
  BY <1>0
<1>5. Good(T \ {x})
  BY <1>1, <1>3
<1>6. /\ w[x] \in Int /\ v[x] \in Int /\ w[x] <= v[x]
      /\ g[T \ {x}] \in Int /\ h[T \ {x}] \in Int
  <2>1. x \in S /\ T \ {x} \in SUBSET S
    OBVIOUS
  <2> QED BY <1>0, <2>1 DEF SumOf
<1>7. (\A y \in T : w[y] = v[y]) <=> w[x] = v[x] /\ \A y \in T \ {x} : w[y] = v[y]
  OBVIOUS
<1>8. Good(T)
  BY <1>4, <1>5, <1>6, <1>7
<1> QED BY <1>1, <1>8

(* The sum does not depend on what the elements are called. *)
LEMMA SumRenamed ==
  ASSUME NEW S, NEW w, NEW g, SumOf(g, w, S), NEW R, NEW v, NEW h, SumOf(h, v, R),
         NEW f, \A x \in S : f[x] \in R /\ v[f[x]] = w[x],
         \A x, y \in S : f[x] = f[y] => x = y,
         \A y \in R : \E x \in S : f[x] = y
  PROVE  g[S] = h[R]
<1> DEFINE Image(s) == {f[x] : x \in s}
           Bad == {s \in SUBSET S : g[s] # h[Image(s)]}
<1>0. /\ g[{}] = 0 /\ h[{}] = 0
      /\ \A s \in SUBSET S : \A x \in s : g[s] = w[x] + g[s \ {x}]
      /\ \A s \in SUBSET R : \A y \in s : h[s] = v[y] + h[s \ {y}]
  <2>1. Additive(g, w, S) /\ Additive(h, v, R)
    BY SumRemove
  <2> QED BY <2>1 DEF Additive
<1> SUFFICES ASSUME Bad # {} PROVE FALSE
  <2>1. Image(S) = R
    OBVIOUS
  <2>2. Bad = {} => g[S] = h[Image(S)]
    OBVIOUS
  <2> HIDE DEF Image
  <2> QED BY <2>1, <2>2
<1>1. PICK T \in Bad : \A V \in Bad : V \subseteq T => V = T
  <2>1. Bad \in SUBSET SUBSET S
    OBVIOUS
  <2> HIDE DEF Bad
  <2> QED BY <2>1, SubsetMin DEF SumOf
<1>2. T # {}
  <2>1. Image({}) = {}
    OBVIOUS
  <2>2. g[{}] = 0 /\ h[{}] = 0
    BY <1>0
  <2> QED BY <1>1, <2>1, <2>2
<1>3. PICK x \in T : TRUE
  BY <1>2
<1>4. g[T] = w[x] + g[T \ {x}]
  BY <1>0
<1>5. Image(T) \in SUBSET R /\ f[x] \in Image(T)
  OBVIOUS
<1>6. h[Image(T)] = v[f[x]] + h[Image(T) \ {f[x]}]
  <2> HIDE DEF Image
  <2> QED BY <1>0, <1>5
<1>7. Image(T \ {x}) = Image(T) \ {f[x]}
  OBVIOUS
<1>8. g[T \ {x}] = h[Image(T \ {x})]
  <2>1. T \ {x} \in SUBSET S /\ T \ {x} \subseteq T /\ T \ {x} # T
    BY <1>3
  <2> HIDE DEF Image
  <2> QED BY <1>1, <2>1
<1> QED BY <1>1, <1>4, <1>6, <1>7, <1>8

(* A positive factor can be cancelled. *)
LEMMA Cancel ==
  ASSUME NEW m \in Nat \ {0}, NEW a \in Int, NEW b \in Int
  PROVE  /\ m * a = m * b => a = b
         /\ m * a < m * b <=> a < b
<1>1. a <= b => m * a <= m * b
  OBVIOUS
<1>2. b <= a => m * b <= m * a
  OBVIOUS
<1>3. a < b => m * a < m * b
  OBVIOUS
<1>4. b < a => m * b < m * a
  OBVIOUS
<1>5. a < b \/ b < a \/ a = b
  OBVIOUS
<1>6. m * a \in Int /\ m * b \in Int
  OBVIOUS
<1> QED BY <1>1, <1>2, <1>3, <1>4, <1>5, <1>6

(* Division undoes multiplication. *)
LEMMA Quotient ==
  ASSUME NEW m \in Nat \ {0}, NEW k \in Nat
  PROVE  (m * k) \div m = k
  OBVIOUS

(* The product of 1..n is a multiple of each of them. *)
LEMMA ProductIsMultiple ==
  ASSUME NEW n \in Nat
  PROVE  /\ ProductSet(1..n) \in Nat \ {0}
         /\ \A m \in 1..n : \E k \in Nat \ {0} : ProductSet(1..n) = m * k
<1> DEFINE S == 1..n
           V == Nat \ {0}
           st == [p \in S \X V |-> p[1] * p[2]]
           G == CHOOSE iter : iter = [s \in SUBSET S |->
                  IF s = {} THEN 1
                  ELSE (CHOOSE x \in s : TRUE) * iter[s \ {CHOOSE x \in s : TRUE}]]
<1>1. ProductSet(S) = G[S]
  BY DEF ProductSet, FoldSet, MapThenFoldSet
<1>2. st \in [S \X V -> V]
  <2>1. \A p \in S \X V : p[1] * p[2] \in V
    OBVIOUS
  <2> QED BY <2>1
<1>3. IsFiniteSet(S) /\ 1 \in V
  BY FS_Interval
<1>4. PICK f \in [SUBSET S -> V] : Fold(f, 1, st, S)
  <2> HIDE DEF st, S, V
  <2> QED BY <1>2, <1>3, FoldExists
<1>5. \A s \in SUBSET S : s # {} => Pick(s) \in S /\ s \ {Pick(s)} \in SUBSET S
  BY Picked
<1>6. \A s \in SUBSET S : f[s] = IF s = {} THEN 1 ELSE Pick(s) * f[s \ {Pick(s)}]
  <2> TAKE s \in SUBSET S
  <2>1. f[s] = IF s = {} THEN 1 ELSE st[<<Pick(s), f[s \ {Pick(s)}]>>]
    BY <1>4 DEF Fold
  <2>2. s # {} => st[<<Pick(s), f[s \ {Pick(s)}]>>] = Pick(s) * f[s \ {Pick(s)}]
    <3> HIDE DEF S, V
    <3> QED BY <1>5
  <2> QED BY <2>1, <2>2
<1>7. f = [s \in SUBSET S |-> IF s = {} THEN 1
           ELSE (CHOOSE x \in s : TRUE) * f[s \ {CHOOSE x \in s : TRUE}]]
  BY <1>6 DEF Pick
<1>8. G = [s \in SUBSET S |-> IF s = {} THEN 1
           ELSE (CHOOSE x \in s : TRUE) * G[s \ {CHOOSE x \in s : TRUE}]]
  BY <1>7
<1>9. \A s \in SUBSET S : G[s] = IF s = {} THEN 1 ELSE Pick(s) * G[s \ {Pick(s)}]
  <2> HIDE DEF G
  <2> QED BY <1>8 DEF Pick
<1> HIDE DEF G, st
<1>10. \A s \in SUBSET S : G[s] \in V /\ \A m \in s : \E k \in V : G[s] = m * k
  <2> DEFINE Good(s) == G[s] \in V /\ \A m \in s : \E k \in V : G[s] = m * k
             Bad == {s \in SUBSET S : ~Good(s)}
  <2> SUFFICES ASSUME Bad # {} PROVE FALSE
    OBVIOUS
  <2>1. PICK T \in Bad : \A U \in Bad : U \subseteq T => U = T
    <3>1. Bad \in SUBSET SUBSET S
      OBVIOUS
    <3> HIDE DEF Bad, S
    <3> QED BY <1>3, <3>1, SubsetMin
  <2>2. Good({})
    <3>1. G[{}] = 1
      BY <1>9
    <3> QED BY <3>1
  <2>3. T # {}
    <3>1. ~Good(T)
      BY <2>1
    <3> HIDE DEF Good
    <3> QED BY <2>2, <3>1
  <2> DEFINE p == Pick(T)
             r == T \ {p}
  <2>4. p \in T /\ p \in V /\ r \in SUBSET S /\ G[T] = p * G[r]
    <3>1. p \in T
      BY <2>3, Picked
    <3>2. T \in SUBSET S /\ r \in SUBSET S
      OBVIOUS
    <3>3. p \in V
      <4>1. S \subseteq V
        OBVIOUS
      <4> HIDE DEF S, V, p
      <4> QED BY <3>1, <3>2, <4>1
    <3>4. G[T] = p * G[r]
      <4> HIDE DEF S
      <4> QED BY <1>9, <2>3, <3>2
    <3> QED BY <3>1, <3>2, <3>3, <3>4
  <2>5. Good(r)
    <3>1. r \subseteq T /\ r # T
      BY <2>4
    <3> HIDE DEF r, Good
    <3> QED BY <2>1, <2>4, <3>1
  <2>6. G[T] \in V
    BY <2>4, <2>5
  <2>7. ASSUME NEW m \in T PROVE \E k \in V : G[T] = m * k
    <3>1. CASE m = p
      BY <2>4, <2>5, <3>1
    <3>2. CASE m # p
      <4>1. PICK j \in V : G[r] = m * j
        BY <2>5, <3>2
      <4>2. p * j \in V /\ p * (m * j) = m * (p * j)
        BY <2>4
      <4> QED BY <2>4, <4>1, <4>2
    <3> QED BY <3>1, <3>2
  <2> QED BY <2>1, <2>6, <2>7
<1> QED BY <1>1, <1>10
=============================================================================
