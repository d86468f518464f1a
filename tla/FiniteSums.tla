----------------------------- MODULE FiniteSums -----------------------------
(***************************************************************************)
(* Induction over natural numbers and over finite sets, stated with sets   *)
(* instead of predicates so that it can be applied, and what follows from  *)
(* it for sums over finite sets (MapThenSumSet).                           *)
(***************************************************************************)
EXTENDS Integers, FiniteSetsExt, FiniteSetTheorems, WellFoundedInduction, TLAPS

(* A set of numbers that has 0 and every successor has every number. *)
LEMMA NatSetInduction ==
    ASSUME NEW A, 0 \in A, \A n \in Nat : n \in A => n + 1 \in A
    PROVE  \A n \in Nat : n \in A
<1> DEFINE B == {n \in Nat : n \notin A}
           R == OpToRel(<, Nat)
<1>1. SUFFICES ASSUME B # {} PROVE FALSE
    OBVIOUS
<1>2. IsWellFoundedOn(R, Nat)
    BY NatLessThanWellFounded
<1>3. PICK m \in B : \A y \in B : ~(<<y, m>> \in R)
  <2> HIDE DEF R
  <2> QED
      BY <1>1, <1>2, WFMin
<1>4. m # 0 /\ m - 1 \in Nat /\ m - 1 \notin B
  <2>1. m # 0 /\ m - 1 \in Nat /\ m \in Nat
    <3> HIDE DEF R
    <3>1. m \in Nat /\ m \notin A
        BY <1>3
    <3> QED
        BY <3>1
  <2>2. <<m - 1, m>> \in R
      BY <2>1 DEF OpToRel
  <2> QED
      BY <1>3, <2>1, <2>2
<1>5. m - 1 \in A /\ m \notin A /\ m \in Nat
  <2> HIDE DEF R
  <2> QED
      BY <1>3, <1>4
<1>6. (m - 1) + 1 = m
    BY <1>5
<1> QED
    BY <1>4, <1>5, <1>6

(* A set of subsets of S that has {} and grows element by element has S.   *)
LEMMA FiniteSetInduction ==
    ASSUME NEW S, IsFiniteSet(S), NEW A, {} \in A,
           \A T \in SUBSET S, x \in S : T \in A /\ x \notin T => T \cup {x} \in A
    PROVE  S \in A
<1> DEFINE N == {n \in Nat : \A T \in SUBSET S : Cardinality(T) = n => T \in A}
<1>1. \A T \in SUBSET S : IsFiniteSet(T) /\ Cardinality(T) \in Nat
    BY FS_Subset, FS_CardinalityType
<1>2. 0 \in N
    BY <1>1, FS_EmptySet
<1>3. ASSUME NEW n \in Nat, n \in N
      PROVE  n + 1 \in N
  <2> SUFFICES ASSUME NEW T \in SUBSET S, Cardinality(T) = n + 1
               PROVE  T \in A
      OBVIOUS
  <2>1. T # {}
      BY <1>1, FS_EmptySet
  <2>2. PICK x \in T : TRUE
      BY <2>1
  <2>3. Cardinality(T \ {x}) = n
    <3>1. Cardinality(T \ {x}) = Cardinality(T) - 1
        BY <1>1, <2>2, FS_RemoveElement
    <3> QED
        BY <3>1
  <2>4. T \ {x} \in A
      BY <1>3, <2>3
  <2>5. T = (T \ {x}) \cup {x}
      BY <2>2
  <2> QED
      BY <2>2, <2>4, <2>5
<1>4. \A n \in Nat : n \in N
  <2> HIDE DEF N
  <2> QED
      BY <1>2, <1>3, NatSetInduction
<1> QED
    BY <1>1, <1>4

(* The same, taking the element that CHOOSE picks away.                    *)
Pick(s) == CHOOSE x \in s : TRUE

LEMMA PickInduction ==
    ASSUME NEW S, IsFiniteSet(S), NEW A, {} \in A,
           \A T \in SUBSET S : T # {} /\ T \ {Pick(T)} \in A => T \in A
    PROVE  S \in A
<1> DEFINE N == {n \in Nat : \A T \in SUBSET S : Cardinality(T) = n => T \in A}
<1>1. \A T \in SUBSET S : IsFiniteSet(T) /\ Cardinality(T) \in Nat
    BY FS_Subset, FS_CardinalityType
<1>2. 0 \in N
    BY <1>1, FS_EmptySet
<1>3. ASSUME NEW n \in Nat, n \in N
      PROVE  n + 1 \in N
  <2> SUFFICES ASSUME NEW T \in SUBSET S, Cardinality(T) = n + 1
               PROVE  T \in A
      OBVIOUS
  <2>1. T # {} /\ Pick(T) \in T
      BY <1>1, FS_EmptySet DEF Pick
  <2>2. Cardinality(T \ {Pick(T)}) = Cardinality(T) - 1
      BY <1>1, <2>1, FS_RemoveElement
  <2>3. Cardinality(T \ {Pick(T)}) = n
      BY <2>2
  <2> QED
      BY <1>3, <2>1, <2>3
<1>4. \A n \in Nat : n \in N
  <2> HIDE DEF N
  <2> QED
      BY <1>2, <1>3, NatSetInduction
<1> QED
    BY <1>1, <1>4

-----------------------------------------------------------------------------
(* Sums. *)

SumOver(f, S) == MapThenSumSet(LAMBDA x : f[x], S)

(* The function that MapThenFoldSet defines, on the sets in D. *)
IsSum(g, f, D) == g = [s \in D |-> IF s = {} THEN 0 ELSE f[Pick(s)] + g[s \ {Pick(s)}]]

LEMMA SumIsIter ==
    ASSUME NEW f, NEW S
    PROVE  SumOver(f, S) = (CHOOSE g : IsSum(g, f, SUBSET S))[S]
    BY DEF SumOver, MapThenSumSet, MapThenFoldSet, IsSum, Pick

LEMMA SumExists ==
    ASSUME NEW S, IsFiniteSet(S), NEW f
    PROVE  \E g : IsSum(g, f, SUBSET S)
<1> DEFINE D(n) == {s \in SUBSET S : Cardinality(s) <= n}
           N == {n \in Nat : \E g : IsSum(g, f, D(n))}
<1>1. \A T \in SUBSET S : /\ IsFiniteSet(T) /\ Cardinality(T) \in Nat
                          /\ Cardinality(T) <= Cardinality(S)
                          /\ Cardinality(T) = 0 => T = {}
    BY FS_Subset, FS_CardinalityType, FS_EmptySet
<1>2. \A s \in SUBSET S : s # {} => /\ Pick(s) \in s /\ s \ {Pick(s)} \in SUBSET S
                                    /\ Cardinality(s \ {Pick(s)}) = Cardinality(s) - 1
    BY <1>1, FS_RemoveElement DEF Pick
<1>3. 0 \in N
  <2> DEFINE g == [s \in D(0) |-> 0]
  <2>1. \A s \in D(0) : s = {}
      BY <1>1
  <2>2. IsSum(g, f, D(0))
      BY <2>1 DEF IsSum
  <2> QED
      BY <2>2
<1>4. ASSUME NEW n \in Nat, n \in N
      PROVE  n + 1 \in N
  <2>1. PICK g : IsSum(g, f, D(n))
      BY <1>4
  <2> DEFINE h == [s \in D(n + 1) |-> IF s = {} THEN 0 ELSE f[Pick(s)] + g[s \ {Pick(s)}]]
  <2>2. \A s \in D(n) : s \in D(n + 1) /\ h[s] = g[s]
    <3>1. \A s \in D(n) : s \in D(n + 1)
        BY <1>1
    <3>2. \A s \in D(n) : g[s] = IF s = {} THEN 0 ELSE f[Pick(s)] + g[s \ {Pick(s)}]
        BY <2>1 DEF IsSum
    <3> QED
        BY <3>1, <3>2
  <2>3. \A s \in D(n + 1) : s # {} => s \ {Pick(s)} \in D(n)
      BY <1>1, <1>2
  <2>4. \A s \in D(n + 1) : s # {} => h[s \ {Pick(s)}] = g[s \ {Pick(s)}]
      BY <2>2, <2>3
  <2>5. h = [s \in D(n + 1) |-> IF s = {} THEN 0 ELSE f[Pick(s)] + h[s \ {Pick(s)}]]
      BY <2>4
  <2>6. IsSum(h, f, D(n + 1))
    <3> HIDE DEF h, D
    <3> QED
        BY <2>5 DEF IsSum
  <2>7. \E k : IsSum(k, f, D(n + 1))
    <3> HIDE DEF h, D
    <3> QED
        BY <2>6
  <2>8. n + 1 \in Nat
      OBVIOUS
  <2> QED
    <3> HIDE DEF D
    <3> QED
        BY <2>7, <2>8
<1>5. Cardinality(S) \in N
  <2>1. \A n \in Nat : n \in N
    <3> HIDE DEF N
    <3> QED
        BY <1>3, <1>4, NatSetInduction
  <2> QED
      BY <1>1, <2>1
<1>6. D(Cardinality(S)) = SUBSET S
    BY <1>1
<1> QED
    BY <1>5, <1>6

(* A sum is nothing over the empty set; over another one it is the picked  *)
(* element's term and the sum over the rest.                               *)
Unfolds(g, f, S) ==
    /\ SumOver(f, S) = g[S]
    /\ g[{}] = 0
    /\ \A s \in SUBSET S : s # {} => g[s] = f[Pick(s)] + g[s \ {Pick(s)}]

LEMMA SumUnfolds ==
    ASSUME NEW S, IsFiniteSet(S), NEW f
    PROVE  \E g : Unfolds(g, f, S)
<1> DEFINE g == CHOOSE g : IsSum(g, f, SUBSET S)
<1>1. IsSum(g, f, SUBSET S)
    BY SumExists
<1>2. SumOver(f, S) = g[S]
    BY SumIsIter
<1> HIDE DEF g
<1>3. \A s \in SUBSET S : g[s] = IF s = {} THEN 0 ELSE f[Pick(s)] + g[s \ {Pick(s)}]
    BY <1>1 DEF IsSum
<1>4. {} \in SUBSET S
    OBVIOUS
<1>5. Unfolds(g, f, S)
    BY <1>2, <1>3, <1>4 DEF Unfolds
<1> QED
    BY <1>5

LEMMA SumType ==
    ASSUME NEW S, IsFiniteSet(S), NEW f, \A x \in S : f[x] \in Nat
    PROVE  SumOver(f, S) \in Nat
<1>1. PICK g : Unfolds(g, f, S)
    BY SumUnfolds
<1> DEFINE A == {T \in SUBSET S : g[T] \in Nat}
<1>2. {} \in A
    BY <1>1 DEF Unfolds
<1>3. ASSUME NEW T \in SUBSET S, T # {}, T \ {Pick(T)} \in A
      PROVE  T \in A
  <2>1. Pick(T) \in T
      BY <1>3 DEF Pick
  <2>2. g[T] = f[Pick(T)] + g[T \ {Pick(T)}]
      BY <1>1, <1>3 DEF Unfolds
  <2>3. f[Pick(T)] \in Nat /\ g[T \ {Pick(T)}] \in Nat
      BY <1>3, <2>1
  <2> QED
      BY <2>2, <2>3
<1>4. S \in A
  <2> HIDE DEF A
  <2> QED
      BY <1>2, <1>3, PickInduction
<1> QED
    BY <1>1, <1>4 DEF Unfolds

(* A sum depends on the terms it adds and on no other. *)
LEMMA SumOfSame ==
    ASSUME NEW S, IsFiniteSet(S), NEW f, NEW h, \A x \in S : f[x] = h[x]
    PROVE  SumOver(f, S) = SumOver(h, S)
<1>1. PICK g : Unfolds(g, f, S)
    BY SumUnfolds
<1>2. PICK k : Unfolds(k, h, S)
    BY SumUnfolds
<1> DEFINE A == {T \in SUBSET S : g[T] = k[T]}
<1>3. {} \in A
    BY <1>1, <1>2 DEF Unfolds
<1>4. ASSUME NEW T \in SUBSET S, T # {}, T \ {Pick(T)} \in A
      PROVE  T \in A
  <2>1. Pick(T) \in T
      BY <1>4 DEF Pick
  <2> QED
      BY <1>1, <1>2, <1>4, <2>1 DEF Unfolds
<1>5. S \in A
  <2> HIDE DEF A
  <2> QED
      BY <1>3, <1>4, PickInduction
<1> QED
    BY <1>1, <1>2, <1>5 DEF Unfolds

(* One term more by one is a sum more by one. *)
LEMMA SumOfOneMore ==
    ASSUME NEW S, IsFiniteSet(S), NEW f, NEW h, NEW x \in S,
           \A y \in S : f[y] \in Nat,
           \A y \in S : h[y] = IF y = x THEN f[y] + 1 ELSE f[y]
    PROVE  SumOver(h, S) = SumOver(f, S) + 1
<1>1. PICK g : Unfolds(g, f, S)
    BY SumUnfolds
<1>2. PICK k : Unfolds(k, h, S)
    BY SumUnfolds
<1> DEFINE A == {T \in SUBSET S : g[T] \in Nat /\ k[T] = g[T] + (IF x \in T THEN 1 ELSE 0)}
<1>3. {} \in A
    BY <1>1, <1>2 DEF Unfolds
<1>4. ASSUME NEW T \in SUBSET S, T # {}, T \ {Pick(T)} \in A
      PROVE  T \in A
  <2>1. Pick(T) \in T /\ Pick(T) \in S
      BY <1>4 DEF Pick
  <2>2. /\ g[T] = f[Pick(T)] + g[T \ {Pick(T)}]
        /\ k[T] = h[Pick(T)] + k[T \ {Pick(T)}]
        /\ h[Pick(T)] = IF Pick(T) = x THEN f[Pick(T)] + 1 ELSE f[Pick(T)]
        /\ f[Pick(T)] \in Nat
      BY <1>1, <1>2, <1>4, <2>1 DEF Unfolds
  <2>3. /\ g[T \ {Pick(T)}] \in Nat
        /\ k[T \ {Pick(T)}] = g[T \ {Pick(T)}] + (IF x \in T /\ x # Pick(T) THEN 1 ELSE 0)
      BY <1>4
  <2> QED
      BY <2>1, <2>2, <2>3
<1>5. S \in A
  <2> HIDE DEF A
  <2> QED
      BY <1>3, <1>4, PickInduction
<1> QED
    BY <1>1, <1>2, <1>5 DEF Unfolds

(* A sum of zeros. *)
LEMMA SumOfNothing ==
    ASSUME NEW S, IsFiniteSet(S), NEW f, \A x \in S : f[x] = 0
    PROVE  SumOver(f, S) = 0
<1>1. PICK g : Unfolds(g, f, S)
    BY SumUnfolds
<1> DEFINE A == {T \in SUBSET S : g[T] = 0}
<1>2. {} \in A
    BY <1>1 DEF Unfolds
<1>3. ASSUME NEW T \in SUBSET S, T # {}, T \ {Pick(T)} \in A
      PROVE  T \in A
  <2>1. Pick(T) \in T
      BY <1>3 DEF Pick
  <2> QED
      BY <1>1, <1>3, <2>1 DEF Unfolds
<1>4. S \in A
  <2> HIDE DEF A
  <2> QED
      BY <1>2, <1>3, PickInduction
<1> QED
    BY <1>1, <1>4 DEF Unfolds

(* Two sets that have nothing in common are counted one after the other. *)
LEMMA DisjointCount ==
    ASSUME NEW S, IsFiniteSet(S), NEW T, IsFiniteSet(T), S \cap T = {}
    PROVE  Cardinality(S \cup T) = Cardinality(S) + Cardinality(T)
<1>1. Cardinality(S \cup T) = Cardinality(S) + Cardinality(T) - Cardinality(S \cap T)
    BY FS_Union
<1>2. Cardinality(S \cap T) = 0
    BY FS_EmptySet
<1>3. Cardinality(S) \in Nat /\ Cardinality(T) \in Nat
    BY FS_CardinalityType
<1> QED
    BY <1>1, <1>2, <1>3

(* Counting a set by the value that each element has. *)
LEMMA CardinalityByValue ==
    ASSUME NEW H, IsFiniteSet(H), NEW V, IsFiniteSet(V), NEW of, \A i \in H : of[i] \in V
    PROVE  Cardinality(H) = SumOver([v \in V |-> Cardinality({i \in H : of[i] = v})], V)
<1> DEFINE f == [v \in V |-> Cardinality({i \in H : of[i] = v})]
           In(T) == {i \in H : of[i] \in T}
<1>1. PICK g : Unfolds(g, f, V)
  <2> HIDE DEF f
  <2> QED
      BY SumUnfolds
<1>2. \A U \in SUBSET H : IsFiniteSet(U) /\ Cardinality(U) \in Nat
    BY FS_Subset, FS_CardinalityType
<1> DEFINE A == {T \in SUBSET V : g[T] = Cardinality(In(T))}
<1>3. {} \in A
  <2>1. In({}) = {}
      OBVIOUS
  <2> QED
      BY <1>1, <2>1, FS_EmptySet DEF Unfolds
<1>4. ASSUME NEW T \in SUBSET V, T # {}, T \ {Pick(T)} \in A
      PROVE  T \in A
  <2> DEFINE rest == In(T \ {Pick(T)})
             one == {i \in H : of[i] = Pick(T)}
  <2>1. Pick(T) \in T /\ Pick(T) \in V
      BY <1>4 DEF Pick
  <2>2. In(T) = rest \cup one /\ rest \cap one = {}
      BY <2>1
  <2>3. IsFiniteSet(rest) /\ IsFiniteSet(one) /\ Cardinality(rest) \in Nat /\ Cardinality(one) \in Nat
      BY <1>2
  <2>4. Cardinality(In(T)) = Cardinality(rest) + Cardinality(one)
    <3> HIDE DEF rest, one, In
    <3>1. Cardinality(rest \cup one) = Cardinality(rest) + Cardinality(one) - Cardinality(rest \cap one)
        BY <2>3, FS_Union
    <3>2. Cardinality(rest \cap one) = 0
        BY <2>2, FS_EmptySet
    <3> QED
        BY <2>2, <2>3, <3>1, <3>2
  <2>5. f[Pick(T)] = Cardinality(one)
      BY <2>1
  <2>6. g[T] = f[Pick(T)] + g[T \ {Pick(T)}]
      BY <1>1, <1>4 DEF Unfolds
  <2>7. g[T \ {Pick(T)}] = Cardinality(rest)
      BY <1>4
  <2>8. g[T] = Cardinality(In(T))
    <3> HIDE DEF rest, one, In, f
    <3> QED
        BY <2>3, <2>4, <2>5, <2>6, <2>7
  <2> QED
      BY <2>8
<1>5. V \in A
  <2> HIDE DEF A
  <2> QED
      BY <1>3, <1>4, PickInduction
<1>6. In(V) = H
    OBVIOUS
<1> QED
    BY <1>1, <1>5, <1>6 DEF Unfolds
=============================================================================
