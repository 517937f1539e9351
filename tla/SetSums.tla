------------------------------- MODULE SetSums -------------------------------
(***************************************************************************)
(* Facts about sums over finite sets, in which DeliveryReports counts rows *)
(* of the log and AttendanceFigures adds up what members did.  Each is     *)
(* about the sum of a function v of the elements.  MapThenSumSet takes     *)
(* them in the order in which CHOOSE picks them; what it returns does not  *)
(* depend on it.  The proofs go by the least subset that would contradict  *)
(* the fact: there is one because the strict subsets of a finite set are   *)
(* well founded.                                                           *)
(***************************************************************************)
EXTENDS FiniteSetsExt, FiniteSetTheorems, TLAPS

\* The element of s that MapThenSumSet takes first.
Picked(s) == CHOOSE x \in s : TRUE

\* f maps the subsets of U to the sums of v over them.
IsSum(f, v, U) ==
  f = [s \in SUBSET U |-> IF s = {} THEN 0 ELSE v[Picked(s)] + f[s \ {Picked(s)}]]

LEMMA PickedIsIn == ASSUME NEW s, s # {} PROVE Picked(s) \in s
BY DEF Picked

\* Of the subsets of a finite set that are bad, one has no bad part.
LEMMA LeastSubset ==
  ASSUME NEW U, IsFiniteSet(U), NEW Bad \in SUBSET SUBSET U, Bad # {}
  PROVE  \E s \in Bad : \A t \in SUBSET s : t # s => t \notin Bad
<1>1. IsWellFoundedOn(StrictSubsetOrdering(U), SUBSET U)
  BY FS_StrictSubsetOrderingWellFounded, FS_FiniteSubsetsOfFinite
<1>2. PICK s \in Bad : \A t \in Bad : <<t, s>> \notin StrictSubsetOrdering(U)
  BY <1>1, WFMin
<1>3. ASSUME NEW t \in SUBSET s, t # s PROVE t \notin Bad
  BY <1>2, <1>3 DEF StrictSubsetOrdering
<1> QED BY <1>3

\* Sums of what agrees on a set agree on its subsets.
LEMMA SumUnique ==
  ASSUME NEW U, IsFiniteSet(U), NEW S \in SUBSET U, NEW f, NEW g, NEW v, NEW w,
         IsSum(f, v, S), IsSum(g, w, U), \A x \in S : v[x] = w[x]
  PROVE  \A s \in SUBSET S : f[s] = g[s]
<1> DEFINE Bad == {s \in SUBSET S : f[s] # g[s]}
<1> SUFFICES Bad = {}
  OBVIOUS
<1>1. SUFFICES ASSUME Bad # {} PROVE FALSE
  OBVIOUS
<1>2. IsFiniteSet(S)
  BY FS_Subset
<1>3. PICK s \in Bad : \A t \in SUBSET s : t # s => t \notin Bad
  <2>1. Bad \in SUBSET SUBSET S
    OBVIOUS
  <2> HIDE DEF Bad
  <2> QED BY <1>1, <1>2, <2>1, LeastSubset
<1> DEFINE x == Picked(s)
           t == s \ {x}
<1>4. s # {} => x \in s /\ t \in SUBSET S /\ t # s /\ t \in SUBSET s
  BY PickedIsIn
<1>5. s # {} => f[t] = g[t]
  BY <1>3, <1>4
<1>6. f[s] = IF s = {} THEN 0 ELSE v[x] + f[t]
  BY DEF IsSum
<1>7. g[s] = IF s = {} THEN 0 ELSE w[x] + g[t]
  BY DEF IsSum
<1>8. s # {} => v[x] = w[x]
  BY <1>4
<1> HIDE DEF x, t
<1> QED BY <1>5, <1>6, <1>7, <1>8

\* There are sums.
LEMMA SumExists ==
  ASSUME NEW U, IsFiniteSet(U), NEW v
  PROVE  \E f : IsSum(f, v, U)
<1> DEFINE Bad == {s \in SUBSET U : ~ \E f : IsSum(f, v, s)}
<1> SUFFICES ASSUME Bad # {} PROVE FALSE
  OBVIOUS
<1>1. PICK s \in Bad : \A t \in SUBSET s : t # s => t \notin Bad
  <2>1. Bad \in SUBSET SUBSET U
    OBVIOUS
  <2> HIDE DEF Bad
  <2> QED BY <2>1, LeastSubset
<1> DEFINE G(t) == CHOOSE f : IsSum(f, v, t)
<1>2. \A t \in SUBSET s : t # s => IsSum(G(t), v, t)
  BY <1>1
<1>3. \A t \in SUBSET s : IsFiniteSet(t)
  BY FS_Subset
<1> HIDE DEF G
<1> DEFINE Rest(t) == t \ {Picked(t)}
           F == [t \in SUBSET s |-> IF t = {} THEN 0 ELSE v[Picked(t)] + G(Rest(t))[Rest(t)]]
<1>4. ASSUME NEW t \in SUBSET s, t # {} PROVE F[Rest(t)] = G(Rest(t))[Rest(t)]
  <2> DEFINE u == Rest(t)
  <2>1. u \in SUBSET s /\ u # s
    BY <1>4, PickedIsIn
  <2>2. IsSum(G(u), v, u) /\ IsFiniteSet(u)
    BY <1>2, <1>3, <2>1
  <2> HIDE DEF u
  <2>3. CASE u = {}
    <3>1. G(u)[u] = 0
      BY <2>2, <2>3 DEF IsSum
    <3>2. F[u] = 0
      BY <2>1, <2>3
    <3> QED BY <3>1, <3>2 DEF u
  <2>4. CASE u # {}
    <3> DEFINE r == Rest(u)
    <3>1. r \in SUBSET u /\ r \in SUBSET s /\ r # s
      BY <2>1, <2>4, PickedIsIn
    <3>2. IsSum(G(r), v, r)
      BY <1>2, <3>1
    <3> HIDE DEF r
    <3>3. G(r)[r] = G(u)[r]
      BY <2>2, <3>1, <3>2, SumUnique
    <3>4. G(u)[u] = v[Picked(u)] + G(u)[r]
      BY <2>2, <2>4 DEF IsSum, r
    <3>5. F[u] = v[Picked(u)] + G(r)[r]
      BY <2>1, <2>4 DEF r
    <3> QED BY <3>3, <3>4, <3>5 DEF u
  <2> QED BY <2>3, <2>4 DEF u
<1>5. IsSum(F, v, s)
  <2>1. \A t \in SUBSET s :
          F[t] = IF t = {} THEN 0 ELSE v[Picked(t)] + F[Rest(t)]
    BY <1>4
  <2>2. F = [t \in SUBSET s |-> F[t]]
    OBVIOUS
  <2> HIDE DEF F
  <2> QED BY <2>1, <2>2 DEF IsSum
<1> QED BY <1>1, <1>5

\* The sum that MapThenSumSet computes.
SumOver(v, S) == MapThenSumSet(LAMBDA x : v[x], S)

LEMMA SumIsSum ==
  ASSUME NEW S, IsFiniteSet(S), NEW v
  PROVE  \E f : IsSum(f, v, S) /\ SumOver(v, S) = f[S]
<1> DEFINE f == CHOOSE g : IsSum(g, v, S)
<1>1. IsSum(f, v, S)
  BY SumExists
<1>2. SumOver(v, S) = f[S]
  BY DEF SumOver, MapThenSumSet, MapThenFoldSet, IsSum, Picked
<1> QED BY <1>1, <1>2

\* One element after the other.
LEMMA SumStep ==
  ASSUME NEW S, IsFiniteSet(S), NEW v
  PROVE  SumOver(v, S) = IF S = {} THEN 0 ELSE v[Picked(S)] + SumOver(v, S \ {Picked(S)})
<1>1. PICK f : IsSum(f, v, S) /\ SumOver(v, S) = f[S]
  BY SumIsSum
<1> DEFINE t == S \ {Picked(S)}
<1>2. t \in SUBSET S /\ IsFiniteSet(t)
  BY FS_Subset
<1>3. f[S] = IF S = {} THEN 0 ELSE v[Picked(S)] + f[t]
  BY <1>1 DEF IsSum
<1> HIDE DEF t
<1>4. PICK g : IsSum(g, v, t) /\ SumOver(v, t) = g[t]
  BY <1>2, SumIsSum
<1>5. g[t] = f[t]
  BY <1>1, <1>2, <1>4, SumUnique
<1> QED BY <1>1, <1>3, <1>4, <1>5 DEF t

\* What sums up the subsets of a set ends with its sum.
LEMMA SumIs ==
  ASSUME NEW S, IsFiniteSet(S), NEW v, NEW f, IsSum(f, v, S)
  PROVE  f[S] = SumOver(v, S)
<1>1. PICK g : IsSum(g, v, S) /\ SumOver(v, S) = g[S]
  BY SumIsSum
<1>2. \A s \in SUBSET S : f[s] = g[s]
  BY <1>1, SumUnique
<1> QED BY <1>1, <1>2

\* What is left of a set after the first element.
LEMMA RestIsLess ==
  ASSUME NEW S, S # {}
  PROVE  /\ Picked(S) \in S
         /\ S \ {Picked(S)} \in SUBSET S /\ S \ {Picked(S)} # S
BY PickedIsIn

\* Sums of numbers are numbers.
LEMMA SumInNat ==
  ASSUME NEW S, IsFiniteSet(S), NEW v, \A x \in S : v[x] \in Nat
  PROVE  SumOver(v, S) \in Nat
<1> DEFINE Bad == {s \in SUBSET S : SumOver(v, s) \notin Nat}
<1> SUFFICES ASSUME Bad # {} PROVE FALSE
  OBVIOUS
<1>1. PICK s \in Bad : \A t \in SUBSET s : t # s => t \notin Bad
  <2>1. Bad \in SUBSET SUBSET S
    OBVIOUS
  <2> HIDE DEF Bad
  <2> QED BY <2>1, LeastSubset
<1> DEFINE x == Picked(s)
           t == s \ {x}
<1>2. IsFiniteSet(s)
  BY FS_Subset
<1>3. SumOver(v, s) = IF s = {} THEN 0 ELSE v[x] + SumOver(v, t)
  BY <1>2, SumStep
<1>4. s # {} => x \in S /\ SumOver(v, t) \in Nat
  BY <1>1, RestIsLess
<1> HIDE DEF x, t
<1> QED BY <1>3, <1>4

\* More of each is more in all.
LEMMA SumMonotone ==
  ASSUME NEW S, IsFiniteSet(S), NEW v, NEW w,
         \A x \in S : v[x] \in Nat /\ w[x] \in Nat /\ v[x] <= w[x]
  PROVE  SumOver(v, S) <= SumOver(w, S)
<1> DEFINE Bad == {s \in SUBSET S : ~(SumOver(v, s) <= SumOver(w, s))}
<1> SUFFICES ASSUME Bad # {} PROVE FALSE
  OBVIOUS
<1>1. PICK s \in Bad : \A t \in SUBSET s : t # s => t \notin Bad
  <2>1. Bad \in SUBSET SUBSET S
    OBVIOUS
  <2> HIDE DEF Bad
  <2> QED BY <2>1, LeastSubset
<1> DEFINE x == Picked(s)
           t == s \ {x}
<1>2. IsFiniteSet(s) /\ IsFiniteSet(t)
  BY FS_Subset
<1>3. /\ SumOver(v, s) = IF s = {} THEN 0 ELSE v[x] + SumOver(v, t)
      /\ SumOver(w, s) = IF s = {} THEN 0 ELSE w[x] + SumOver(w, t)
  BY <1>2, SumStep
<1>4. s # {} => x \in S /\ SumOver(v, t) <= SumOver(w, t)
  BY <1>1, RestIsLess
<1>5. SumOver(v, t) \in Nat /\ SumOver(w, t) \in Nat
  BY <1>2, SumInNat
<1> HIDE DEF x, t
<1> QED BY <1>3, <1>4, <1>5

\* Two sums at once.
LEMMA SumOfSums ==
  ASSUME NEW S, IsFiniteSet(S), NEW u, NEW v, NEW w,
         \A x \in S : v[x] \in Nat /\ w[x] \in Nat /\ u[x] = v[x] + w[x]
  PROVE  SumOver(u, S) = SumOver(v, S) + SumOver(w, S)
<1> DEFINE Bad == {s \in SUBSET S : SumOver(u, s) # SumOver(v, s) + SumOver(w, s)}
<1> SUFFICES ASSUME Bad # {} PROVE FALSE
  OBVIOUS
<1>1. PICK s \in Bad : \A t \in SUBSET s : t # s => t \notin Bad
  <2>1. Bad \in SUBSET SUBSET S
    OBVIOUS
  <2> HIDE DEF Bad
  <2> QED BY <2>1, LeastSubset
<1> DEFINE x == Picked(s)
           t == s \ {x}
<1>2. IsFiniteSet(s) /\ IsFiniteSet(t)
  BY FS_Subset
<1>3. /\ SumOver(u, s) = IF s = {} THEN 0 ELSE u[x] + SumOver(u, t)
      /\ SumOver(v, s) = IF s = {} THEN 0 ELSE v[x] + SumOver(v, t)
      /\ SumOver(w, s) = IF s = {} THEN 0 ELSE w[x] + SumOver(w, t)
  BY <1>2, SumStep
<1>4. s # {} => x \in S /\ SumOver(u, t) = SumOver(v, t) + SumOver(w, t)
  BY <1>1, RestIsLess
<1>5. SumOver(v, t) \in Nat /\ SumOver(w, t) \in Nat
  BY <1>2, SumInNat
<1>6. s # {} => v[x] \in Nat /\ w[x] \in Nat /\ u[x] = v[x] + w[x]
  BY <1>4
<1>7. SumOver(u, s) # SumOver(v, s) + SumOver(w, s)
  OBVIOUS
<1> HIDE DEF x, t, Bad
<1> QED BY <1>3, <1>4, <1>5, <1>6, <1>7

\* Ones and zeroes count.
LEMMA SumCounts ==
  ASSUME NEW S, IsFiniteSet(S), NEW R, NEW v,
         \A x \in S : v[x] = IF x \in R THEN 1 ELSE 0
  PROVE  SumOver(v, S) = Cardinality(S \cap R)
<1> DEFINE Bad == {s \in SUBSET S : SumOver(v, s) # Cardinality(s \cap R)}
<1> SUFFICES ASSUME Bad # {} PROVE FALSE
  OBVIOUS
<1>1. PICK s \in Bad : \A t \in SUBSET s : t # s => t \notin Bad
  <2>1. Bad \in SUBSET SUBSET S
    OBVIOUS
  <2> HIDE DEF Bad
  <2> QED BY <2>1, LeastSubset
<1> DEFINE x == Picked(s)
           t == s \ {x}
<1>2. IsFiniteSet(s) /\ IsFiniteSet(s \cap R)
  BY FS_Subset
<1>3. SumOver(v, s) = IF s = {} THEN 0 ELSE v[x] + SumOver(v, t)
  BY <1>2, SumStep
<1>4. s # {} => x \in s /\ x \in S /\ SumOver(v, t) = Cardinality(t \cap R)
  BY <1>1, RestIsLess
<1>5. CASE s = {}
  <2>1. s \cap R = {}
    BY <1>5
  <2> QED BY <1>3, <1>5, <2>1, FS_EmptySet
<1>6. CASE s # {} /\ x \in R
  <2>1. x \in s \cap R /\ t \cap R = (s \cap R) \ {x}
    BY <1>4, <1>6
  <2>2. Cardinality(t \cap R) = Cardinality(s \cap R) - 1 /\ Cardinality(s \cap R) \in Nat
    <3> DEFINE A == s \cap R
               B == t \cap R
    <3>1. IsFiniteSet(A) /\ x \in A /\ B = A \ {x}
      BY <1>2, <2>1
    <3> HIDE DEF A, B, x
    <3>2. Cardinality(B) = Cardinality(A) - 1 /\ Cardinality(A) \in Nat
      BY <3>1, FS_RemoveElement, FS_CardinalityType
    <3> QED BY <3>2 DEF A, B
  <2> HIDE DEF x, t
  <2> QED BY <1>3, <1>4, <1>6, <2>2
<1>7. CASE s # {} /\ x \notin R
  <2>1. t \cap R = s \cap R
    BY <1>4, <1>7
  <2>2. Cardinality(s \cap R) \in Nat
    BY <1>2, FS_CardinalityType
  <2> HIDE DEF x, t
  <2> QED BY <1>3, <1>4, <1>7, <2>1, <2>2
<1> QED BY <1>5, <1>6, <1>7

\* Only what is added up matters.
LEMMA SumSame ==
  ASSUME NEW S, IsFiniteSet(S), NEW v, NEW w, \A x \in S : v[x] = w[x]
  PROVE  SumOver(v, S) = SumOver(w, S)
<1>1. PICK f : IsSum(f, v, S) /\ SumOver(v, S) = f[S]
  BY SumIsSum
<1>2. PICK g : IsSum(g, w, S) /\ SumOver(w, S) = g[S]
  BY SumIsSum
<1> QED BY <1>1, <1>2, SumUnique

\* The pairs of a relation, counted by either side.
LEMMA CountedTwice ==
  ASSUME NEW E, IsFiniteSet(E), NEW M, IsFiniteSet(M), NEW Of, NEW Has, NEW v, NEW w,
         \A m \in M : Of[m] \subseteq E /\ v[m] = Cardinality(Of[m]),
         \A e \in E : Has[e] \subseteq M /\ w[e] = Cardinality(Has[e]),
         \A e \in E, m \in M : e \in Of[m] <=> m \in Has[e]
  PROVE  SumOver(v, M) = SumOver(w, E)
<1> DEFINE By(s) == [m \in M |-> Cardinality(s \cap Of[m])]
           Bad == {s \in SUBSET E : SumOver(By(s), M) # SumOver(w, s)}
<1>0. SumOver(v, M) = SumOver(By(E), M)
  <2>1. \A m \in M : E \cap Of[m] = Of[m]
    OBVIOUS
  <2>2. \A m \in M : v[m] = By(E)[m]
    BY <2>1
  <2> HIDE DEF By
  <2> QED BY <2>2, SumSame
<1> SUFFICES ASSUME Bad # {} PROVE FALSE
  BY <1>0
<1>1. PICK s \in Bad : \A t \in SUBSET s : t # s => t \notin Bad
  <2>1. Bad \in SUBSET SUBSET E
    OBVIOUS
  <2> HIDE DEF Bad
  <2> QED BY <2>1, LeastSubset
<1>2. IsFiniteSet(s) /\ \A t \in SUBSET s, m \in M : IsFiniteSet(t \cap Of[m])
  BY FS_Subset
<1>3. CASE s = {}
  <2>1. \A m \in M : By(s)[m] = IF m \in {} THEN 1 ELSE 0
    <3>1. ASSUME NEW m \in M PROVE s \cap Of[m] = {}
      BY <1>3
    <3> QED BY <3>1, FS_EmptySet
  <2>2. SumOver(By(s), M) = Cardinality(M \cap {})
    <3> HIDE DEF By
    <3> QED BY <2>1, SumCounts
  <2>3. SumOver(By(s), M) = 0
    BY <2>2, FS_EmptySet
  <2>4. SumOver(w, s) = 0
    BY <1>2, <1>3, SumStep
  <2> QED BY <2>3, <2>4
<1>4. CASE s # {}
  <2> DEFINE p == Picked(s)
             t == s \ {p}
             One == [m \in M |-> IF p \in Of[m] THEN 1 ELSE 0]
  <2>1. p \in s /\ p \in E /\ t \in SUBSET s /\ t # s
    BY <1>4, RestIsLess
  <2>2. SumOver(By(t), M) = SumOver(w, t)
    BY <1>1, <2>1
  <2>3. SumOver(w, s) = w[p] + SumOver(w, t)
    BY <1>2, <1>4, SumStep
  <2>4. SumOver(One, M) = w[p]
    <3> DEFINE K == Has[p]
    <3>1. M \cap K = K /\ \A m \in M : One[m] = IF m \in K THEN 1 ELSE 0
      BY <2>1
    <3>2. w[p] = Cardinality(K)
      BY <2>1
    <3> HIDE DEF One, K, p
    <3>3. SumOver(One, M) = Cardinality(M \cap K)
      BY <3>1, SumCounts
    <3> QED BY <3>1, <3>2, <3>3
  <2>5. ASSUME NEW m \in M
        PROVE  /\ By(t)[m] \in Nat /\ One[m] \in Nat
               /\ By(s)[m] = By(t)[m] + One[m]
    <3> DEFINE S1 == s \cap Of[m]
               T1 == t \cap Of[m]
    <3>1. IsFiniteSet(S1) /\ IsFiniteSet(T1)
      BY <1>2, <2>1
    <3>2. Cardinality(S1) \in Nat /\ Cardinality(T1) \in Nat
      BY <3>1, FS_CardinalityType
    <3>5. By(s)[m] = Cardinality(S1) /\ By(t)[m] = Cardinality(T1)
      OBVIOUS
    <3>3. CASE p \in Of[m]
      <4>3. One[m] = 1
        BY <3>3
      <4>1. p \in S1 /\ T1 = S1 \ {p}
        BY <2>1, <3>3
      <4>2. Cardinality(T1) = Cardinality(S1) - 1
        <5> HIDE DEF S1, T1, p
        <5> QED BY <3>1, <4>1, FS_RemoveElement
      <4> HIDE DEF S1, T1, One, By
      <4> QED BY <3>2, <3>5, <4>2, <4>3
    <3>4. CASE p \notin Of[m]
      <4>1. T1 = S1
        BY <3>4
      <4>2. One[m] = 0
        BY <3>4
      <4> HIDE DEF S1, T1, One, By
      <4> QED BY <3>2, <3>5, <4>1, <4>2
    <3> QED BY <3>3, <3>4
  <2>6. SumOver(By(s), M) = SumOver(By(t), M) + SumOver(One, M)
    <3> HIDE DEF By, One, t
    <3> QED BY <2>5, SumOfSums
  <2>7. SumOver(By(t), M) \in Nat /\ SumOver(One, M) \in Nat
    <3> HIDE DEF By, One, t
    <3> QED BY <2>5, SumInNat
  <2>8. SumOver(By(s), M) = SumOver(w, s)
    <3> HIDE DEF By, One, t, p
    <3> QED BY <2>2, <2>3, <2>4, <2>6, <2>7
  <2> QED BY <2>8
<1> QED BY <1>3, <1>4
=============================================================================
