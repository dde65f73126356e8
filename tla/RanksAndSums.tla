---------------------------- MODULE RanksAndSums ----------------------------
(***************************************************************************)
(* Facts about finite sets that the proofs share.                          *)
(*                                                                         *)
(* Ranks, for the proofs about rankings: in a linear order of a finite set *)
(* a member's rank is the number of members before it, ranks tell members  *)
(* apart, and each rank from 0 up is taken.                                *)
(*                                                                         *)
(* Sums, for the proofs about costs: SumFunction and FoldFunction of the   *)
(* community modules are folds, folds that agree on every step agree, and  *)
(* a sum of one number more is the sum and that number, whichever it is.   *)
(* The induction is in each case on the least size of a counterexample.    *)
(***************************************************************************)
EXTENDS Integers, FiniteSets, FiniteSetsExt, FiniteSetTheorems, TLAPS

Linear(R, S) ==
  /\ \A x \in S : <<x, x>> \notin R
  /\ \A x, y \in S : x # y => <<x, y>> \in R \/ <<y, x>> \in R
  /\ \A x, y, z \in S : <<x, y>> \in R /\ <<y, z>> \in R => <<x, z>> \in R

Before(R, S, x) == {y \in S : <<y, x>> \in R}

LEMMA RankIsBounded ==
  ASSUME NEW S, IsFiniteSet(S), NEW R, Linear(R, S), NEW x \in S
  PROVE  /\ IsFiniteSet(Before(R, S, x))
         /\ Cardinality(Before(R, S, x)) + 1 \in 1..Cardinality(S)
<1> PICK T \in SUBSET S : T = Before(R, S, x)
  BY DEF Before
<1>1. IsFiniteSet(T) /\ Cardinality(T) <= Cardinality(S)
      /\ (Cardinality(S) = Cardinality(T) => S = T)
  BY FS_Subset
<1>2. Cardinality(T) \in Nat /\ Cardinality(S) \in Nat
  BY <1>1, FS_CardinalityType
<1>3. x \notin T
  BY DEF Before, Linear
<1> QED
  BY <1>1, <1>2, <1>3

LEMMA RanksFollowTheOrder ==
  ASSUME NEW S, IsFiniteSet(S), NEW R, Linear(R, S), NEW x \in S, NEW y \in S, <<x, y>> \in R
  PROVE  Cardinality(Before(R, S, x)) < Cardinality(Before(R, S, y))
<1> PICK T : T = Before(R, S, y)
  OBVIOUS
<1> PICK U \in SUBSET T : U = Before(R, S, x)
  BY DEF Before, Linear
<1>1. IsFiniteSet(T) /\ IsFiniteSet(U)
  BY RankIsBounded
<1>2. Cardinality(U) <= Cardinality(T) /\ (Cardinality(T) = Cardinality(U) => T = U)
  BY <1>1, FS_Subset
<1>3. x \in T /\ x \notin U
  BY DEF Before, Linear
<1>4. Cardinality(U) \in Nat /\ Cardinality(T) \in Nat
  BY <1>1, FS_CardinalityType
<1> QED
  BY <1>2, <1>3, <1>4

LEMMA EqualRanks ==
  ASSUME NEW S, IsFiniteSet(S), NEW R, Linear(R, S), NEW x \in S, NEW y \in S,
         Cardinality(Before(R, S, x)) = Cardinality(Before(R, S, y))
  PROVE  x = y
<1> PICK j \in Int : j = Cardinality(Before(R, S, x))
  <2>1. IsFiniteSet(Before(R, S, x))
    BY RankIsBounded
  <2> QED
    BY <2>1, FS_CardinalityType
<1>1. ~(<<x, y>> \in R) /\ ~(<<y, x>> \in R)
  BY RanksFollowTheOrder
<1> QED
  BY <1>1 DEF Linear

LEMMA EachRankIsTaken ==
  ASSUME NEW S, IsFiniteSet(S), NEW R, Linear(R, S), NEW i \in 1..Cardinality(S)
  PROVE  \E x \in S : Cardinality(Before(R, S, x)) = i - 1
<1> PICK n \in Nat : n = Cardinality(S)
  BY FS_CardinalityType
<1> DEFINE f == [x \in S |-> Cardinality(Before(R, S, x)) + 1]
<1>1. f \in [S -> 1..n]
  BY RankIsBounded
<1>2. ASSUME NEW x \in S, NEW y \in S, f[x] = f[y]
      PROVE  x = y
  <2>1. IsFiniteSet(Before(R, S, x)) /\ IsFiniteSet(Before(R, S, y))
    BY RankIsBounded
  <2>2. Cardinality(Before(R, S, x)) \in Nat /\ Cardinality(Before(R, S, y)) \in Nat
    BY <2>1, FS_CardinalityType
  <2>3. Cardinality(Before(R, S, x)) = Cardinality(Before(R, S, y))
    BY <1>2, <2>2
  <2> QED
    BY <2>3, EqualRanks
<1>3. IsFiniteSet(1..n) /\ Cardinality(1..n) = n
  BY FS_Interval
<1> PICK g : g = f
  OBVIOUS
<1>4. g \in Injection(S, 1..n)
  BY <1>1, <1>2 DEF Injection, IsInjective
<1>5. g \in Surjection(S, 1..n)
  BY <1>3, <1>4, FS_Injection
<1>6. PICK x \in S : g[x] = i
  BY <1>5 DEF Surjection
<1>7. Cardinality(Before(R, S, x)) \in Nat
  <2>1. IsFiniteSet(Before(R, S, x))
    BY RankIsBounded
  <2> QED
    BY <2>1, FS_CardinalityType
<1> QED
  BY <1>6, <1>7

LEMMA SomeIsFirst ==
  ASSUME NEW S, IsFiniteSet(S), NEW R, Linear(R, S), S # {}
  PROVE  \E x \in S : \A y \in S \ {x} : <<x, y>> \in R
<1>1. Cardinality(S) \in Nat \ {0}
  BY FS_CardinalityType, FS_EmptySet
<1>2. PICK x \in S : Cardinality(Before(R, S, x)) = 0
  BY <1>1, EachRankIsTaken
<1>3. IsFiniteSet(Before(R, S, x))
  BY RankIsBounded
<1>4. Before(R, S, x) = {}
  BY <1>2, <1>3, FS_EmptySet
<1>5. \A y \in S : <<y, x>> \notin R
  BY <1>4 DEF Before
<1> QED
  BY <1>5 DEF Linear

(* Numbers first, equal ones in the order of the members. *)
LEMMA LexIsLinear ==
  ASSUME NEW D \in SUBSET Int, NEW R, NEW p \in [D -> Int],
         \A m, n \in D : <<m, n>> \in R <=> p[m] < p[n] \/ (p[m] = p[n] /\ m < n)
  PROVE  Linear(R, D)
<1>1. \A x \in D : x \in Int /\ p[x] \in Int
  OBVIOUS
<1> QED
  BY <1>1 DEF Linear

-----------------------------------------------------------------------------
Pick(s) == CHOOSE x \in s : TRUE

(* g is the fold of F over the subsets of S, one element at a time. *)
IsFold(g, S, V, F, base) ==
  /\ g \in [SUBSET S -> V]
  /\ g[{}] = base
  /\ \A s \in SUBSET S : s # {} => g[s] = F[<<Pick(s), g[s \ {Pick(s)}]>>]

(* Every set of numbers has a least one, for want of induction. *)
LEMMA LeastOfSome ==
  ASSUME NEW n \in Nat, NEW T, T \subseteq 0..n, T # {}
  PROVE  \E m \in T : \A k \in T : m <= k
<1> PICK R : R = {p \in T \X T : p[1] < p[2]}
  OBVIOUS
<1>1. \A x, y \in T : <<x, y>> \in R <=> x < y
  OBVIOUS
<1>2. Linear(R, T)
  BY <1>1 DEF Linear
<1>3. IsFiniteSet(T)
  <2>1. IsFiniteSet(0..n)
    BY FS_Interval
  <2> QED
    BY ONLY <2>1, T \subseteq 0..n, FS_Subset
<1>4. PICK m \in T : \A y \in T \ {m} : <<m, y>> \in R
  BY ONLY <1>2, <1>3, T # {}, SomeIsFirst
<1>5. \A k \in T : m <= k
  <2> SUFFICES ASSUME NEW k \in T, k # m PROVE m <= k
    OBVIOUS
  <2>1. <<m, k>> \in R
    BY <1>4
  <2> QED
    BY <1>1, <2>1
<1> QED
  BY <1>5

LEMMA CountsDown ==
  ASSUME NEW s, IsFiniteSet(s), NEW x \in s
  PROVE  /\ IsFiniteSet(s \ {x})
         /\ Cardinality(s) \in Nat /\ Cardinality(s \ {x}) \in Nat
         /\ Cardinality(s \ {x}) = Cardinality(s) - 1
  BY FS_RemoveElement, FS_CardinalityType

LEMMA FoldExists ==
  ASSUME NEW S, IsFiniteSet(S), NEW V, NEW F \in [S \X V -> V], NEW base \in V
  PROVE  \E g : IsFold(g, S, V, F, base)
<1> PICK n \in Nat : n = Cardinality(S)
  BY FS_CardinalityType
<1> DEFINE D(k) == {s \in SUBSET S : Cardinality(s) <= k}
           Good(g, k) == /\ g \in [D(k) -> V] /\ g[{}] = base
                         /\ \A s \in D(k) : s # {} => g[s] = F[<<Pick(s), g[s \ {Pick(s)}]>>]
           T == {k \in 0..n : ~ \E g : Good(g, k)}
<1>1. \A s \in SUBSET S : IsFiniteSet(s) /\ Cardinality(s) \in Nat /\ Cardinality(s) <= n
  BY FS_Subset, FS_CardinalityType
<1>2. \A s \in SUBSET S : s # {} => /\ Pick(s) \in s
                                    /\ Cardinality(s \ {Pick(s)}) = Cardinality(s) - 1
  <2> SUFFICES ASSUME NEW s \in SUBSET S, s # {}
               PROVE  Pick(s) \in s /\ Cardinality(s \ {Pick(s)}) = Cardinality(s) - 1
    OBVIOUS
  <2>1. Pick(s) \in s
    BY DEF Pick
  <2> QED
    BY <1>1, <2>1, CountsDown
<1>3. 0 \notin T
  <2>1. D(0) = {{}}
    BY <1>1, FS_EmptySet
  <2>2. Good([s \in D(0) |-> base], 0)
    BY <2>1
  <2> QED
    BY <2>2
<1>4. ASSUME NEW k \in 1..n, k - 1 \notin T
      PROVE  k \notin T
  <2>1. k - 1 \in 0..n
    OBVIOUS
  <2>2. PICK h : Good(h, k - 1)
    BY <1>4, <2>1
  <2> DEFINE g == [s \in D(k) |-> IF s \in D(k - 1) THEN h[s]
                                   ELSE F[<<Pick(s), h[s \ {Pick(s)}]>>]]
  <2>3. {} \in D(k - 1) /\ D(k - 1) \subseteq D(k)
    BY <1>1, FS_EmptySet
  <2>4. ASSUME NEW s \in D(k), s # {}
        PROVE  Pick(s) \in S /\ s \ {Pick(s)} \in D(k - 1)
    <3>1. Cardinality(s) \in Nat /\ Cardinality(s) <= k /\ s \in SUBSET S
      BY <1>1
    <3>2. Cardinality(s \ {Pick(s)}) = Cardinality(s) - 1 /\ Pick(s) \in s
      BY <1>2, <2>4, <3>1
    <3> QED
      BY <3>1, <3>2
  <2> HIDE DEF D
  <2>5. g \in [D(k) -> V]
    <3> SUFFICES ASSUME NEW s \in D(k) PROVE g[s] \in V
      OBVIOUS
    <3>1. CASE s \in D(k - 1)
      BY <2>2, <3>1
    <3>2. CASE s \notin D(k - 1)
      <4>1. s # {}
        BY <2>3, <3>2
      <4>2. h[s \ {Pick(s)}] \in V /\ Pick(s) \in S
        BY <2>2, <2>4, <4>1
      <4> QED
        BY <3>2, <4>2
    <3> QED
      BY <3>1, <3>2
  <2>6. \A s \in D(k - 1) : g[s] = h[s]
    BY <2>3
  <2>7. ASSUME NEW s \in D(k), s # {}
        PROVE  g[s] = F[<<Pick(s), g[s \ {Pick(s)}]>>]
    <3>1. g[s \ {Pick(s)}] = h[s \ {Pick(s)}]
      BY <2>4, <2>6, <2>7
    <3>2. CASE s \in D(k - 1)
      BY <2>2, <2>6, <2>7, <3>1, <3>2
    <3>3. CASE s \notin D(k - 1)
      BY <3>1, <3>3
    <3> QED
      BY <3>2, <3>3
  <2>8. g[{}] = base
    BY <2>2, <2>3, <2>6
  <2>9. Good(g, k)
    BY <2>5, <2>7, <2>8
  <2> QED
    BY <2>9
<1>5. T = {}
  <2> SUFFICES ASSUME T # {} PROVE FALSE
    OBVIOUS
  <2>1. T \subseteq 0..n
    OBVIOUS
  <2> HIDE DEF T
  <2>2. PICK m \in T : \A k \in T : m <= k
    BY <2>1, LeastOfSome
  <2>3. m \in 1..n /\ m - 1 \notin T
    BY <1>3, <2>1, <2>2
  <2> QED
    BY <1>4, <2>2, <2>3
<1>6. PICK g : Good(g, n)
  <2>1. n \in 0..n
    OBVIOUS
  <2>2. n \notin T => \E g : Good(g, n)
    BY <2>1
  <2> HIDE DEF T
  <2>3. n \notin T
    BY <1>5
  <2> QED
    BY <2>2, <2>3
<1>7. D(n) = SUBSET S
  BY <1>1
<1> QED
  BY <1>6, <1>7 DEF IsFold

(* Folds of functions that agree are the same. *)
LEMMA FoldsAgree ==
  ASSUME NEW S, IsFiniteSet(S), NEW V, NEW F, NEW base, NEW R, NEW W, NEW G, NEW D,
         NEW g, IsFold(g, R, V, F, base), NEW h, IsFold(h, D, W, G, base),
         S \subseteq R, S \subseteq D,
         \A x \in S, y \in V : F[<<x, y>>] = G[<<x, y>>]
  PROVE  g[S] = h[S]
<1> PICK n \in Nat : n = Cardinality(S)
  BY FS_CardinalityType
<1> DEFINE T == {k \in 0..n : \E s \in SUBSET S : Cardinality(s) = k /\ g[s] # h[s]}
<1>1. \A s \in SUBSET S : IsFiniteSet(s) /\ Cardinality(s) \in Nat /\ Cardinality(s) <= n
  BY FS_Subset, FS_CardinalityType
<1>2. ASSUME T # {} PROVE FALSE
  <2>1. T \subseteq 0..n
    OBVIOUS
  <2>2. PICK m \in T : \A k \in T : m <= k
    <3> HIDE DEF T
    <3> QED
      BY <1>2, <2>1, LeastOfSome
  <2>3. PICK s \in SUBSET S : Cardinality(s) = m /\ g[s] # h[s]
    OBVIOUS
  <2>4. s # {}
    BY <2>3 DEF IsFold
  <2> PICK x : x = Pick(s)
    OBVIOUS
  <2>5. x \in s
    BY <2>4 DEF Pick
  <2>6. Cardinality(s \ {x}) = m - 1 /\ m \in Nat /\ m - 1 \in 0..n
    <3>1. IsFiniteSet(s) /\ Cardinality(s) \in Nat /\ Cardinality(s) <= n
      BY <1>1
    <3>2. Cardinality(s \ {x}) \in Nat /\ Cardinality(s \ {x}) = Cardinality(s) - 1
      BY ONLY <2>5, <3>1, CountsDown
    <3> QED
      BY <2>3, <3>1, <3>2
  <2>7. g[s \ {x}] = h[s \ {x}]
    <3>1. m - 1 \notin T
      <4> HIDE DEF T
      <4> QED
        BY <2>2, <2>6
    <3> QED
      BY <2>6, <3>1
  <2>8. g[s] = F[<<x, g[s \ {x}]>>] /\ g[s \ {x}] \in V
    BY <2>4 DEF IsFold
  <2>9. h[s] = G[<<x, h[s \ {x}]>>]
    BY <2>4 DEF IsFold
  <2> QED
    BY <2>3, <2>5, <2>7, <2>8, <2>9
<1>3. n \in 0..n /\ S \in SUBSET S
  OBVIOUS
<1>4. g[S] # h[S] => n \in T
  BY <1>3
<1> QED
  BY <1>2, <1>4

Adding(f, S) == [p \in S \X Int |-> f[p[1]] + p[2]]

LEMMA SumIsFold ==
  ASSUME NEW S, IsFiniteSet(S), NEW f, \A x \in S : f[x] \in Int
  PROVE  \E g : IsFold(g, S, Int, Adding(f, S), 0) /\ SumFunctionOnSet(f, S) = g[S]
<1> PICK F : F = Adding(f, S)
  OBVIOUS
<1>1. F \in [S \X Int -> Int]
  BY DEF Adding
<1>2. PICK h : IsFold(h, S, Int, F, 0)
  BY <1>1, FoldExists
<1> DEFINE Folded(g) == [s \in SUBSET S |-> IF s = {} THEN 0 ELSE f[Pick(s)] + g[s \ {Pick(s)}]]
<1>3. \A s \in SUBSET S : s # {} => Pick(s) \in s
  BY DEF Pick
<1>4. h = Folded(h)
  <2>1. h \in [SUBSET S -> Int] /\ h[{}] = 0
    BY <1>2 DEF IsFold
  <2>2. ASSUME NEW s \in SUBSET S
        PROVE  h[s] = IF s = {} THEN 0 ELSE f[Pick(s)] + h[s \ {Pick(s)}]
    <3>1. CASE s = {}
      BY <2>1, <3>1
    <3>2. CASE s # {}
      <4> PICK x \in S : x = Pick(s)
        BY <1>3, <3>2
      <4>1. h[s] = F[<<x, h[s \ {x}]>>]
        BY <1>2, <3>2 DEF IsFold
      <4>2. h[s \ {x}] \in Int
        BY <2>1
      <4>3. F[<<x, h[s \ {x}]>>] = f[x] + h[s \ {x}]
        BY <4>2 DEF Adding
      <4> QED
        BY <3>2, <4>1, <4>3
    <3> QED
      BY <3>1, <3>2
  <2> QED
    BY <2>1, <2>2
<1> DEFINE g == CHOOSE i : i = Folded(i)
<1>5. g = Folded(g)
  BY <1>4
<1>6. SumFunctionOnSet(f, S) = g[S]
  BY DEF SumFunctionOnSet, FoldFunctionOnSet, MapThenFoldSet, Pick
<1> PICK k : k = g
  OBVIOUS
<1>7. k = Folded(k)
  BY <1>5
<1> HIDE DEF g
<1> PICK V : V = Int \cup {k[s] : s \in SUBSET S}
  OBVIOUS
<1> PICK G : G = [p \in S \X V |-> f[p[1]] + p[2]]
  OBVIOUS
<1>8. IsFold(k, S, V, G, 0)
  <2>1. k \in [SUBSET S -> V] /\ k[{}] = 0
    BY <1>7
  <2>2. ASSUME NEW s \in SUBSET S, s # {}
        PROVE  k[s] = G[<<Pick(s), k[s \ {Pick(s)}]>>]
    <3> PICK x \in S : x = Pick(s)
      BY <1>3, <2>2
    <3>1. k[s] = f[x] + k[s \ {x}]
      BY <1>7, <2>2
    <3>2. k[s \ {x}] \in V
      BY <2>1
    <3> QED
      BY <3>1, <3>2
  <2> QED
    BY <2>1, <2>2 DEF IsFold
<1>9. \A x \in S, y \in Int : F[<<x, y>>] = G[<<x, y>>]
  BY DEF Adding
<1>10. h[S] = k[S]
  <2>1. S \subseteq S
    OBVIOUS
  <2> QED
    BY ONLY <1>2, <1>8, <1>9, <2>1, IsFiniteSet(S), FoldsAgree
<1> QED
  BY <1>2, <1>6, <1>10

(* Sums may be taken in any order: some member is the last one added. *)
LEMMA AnyComesLast ==
  ASSUME NEW S, IsFiniteSet(S), NEW f, \A x \in S : f[x] \in Int,
         NEW g, IsFold(g, S, Int, Adding(f, S), 0)
  PROVE  \A x \in S : g[S] = f[x] + g[S \ {x}]
<1> PICK n \in Nat : n = Cardinality(S)
  BY FS_CardinalityType
<1>0. g \in [SUBSET S -> Int] /\ g[{}] = 0
  BY DEF IsFold
<1>9. ASSUME NEW s \in SUBSET S, s # {}
      PROVE  g[s] = f[Pick(s)] + g[s \ {Pick(s)}] /\ Pick(s) \in s
  <2> PICK x \in s : x = Pick(s)
    BY <1>9 DEF Pick
  <2>1. g[s] = Adding(f, S)[<<x, g[s \ {x}]>>]
    BY <1>9 DEF IsFold
  <2>2. g[s \ {x}] \in Int
    BY <1>0
  <2> QED
    BY <2>1, <2>2 DEF Adding
<1> DEFINE T == {k \in 0..n : \E s \in SUBSET S, x \in S :
                   x \in s /\ Cardinality(s) = k /\ g[s] # f[x] + g[s \ {x}]}
<1>1. \A s \in SUBSET S : IsFiniteSet(s) /\ Cardinality(s) \in Nat /\ Cardinality(s) <= n
  BY FS_Subset, FS_CardinalityType
<1>2. ASSUME T # {} PROVE FALSE
  <2>1. T \subseteq 0..n
    OBVIOUS
  <2>2. PICK m \in T : \A k \in T : m <= k
    <3> HIDE DEF T
    <3> QED
      BY <1>2, <2>1, LeastOfSome
  <2>3. PICK s \in SUBSET S, x \in S :
          x \in s /\ Cardinality(s) = m /\ g[s] # f[x] + g[s \ {x}]
    OBVIOUS
  <2> PICK c : c = Pick(s)
    OBVIOUS
  <2>4. g[s] = f[c] + g[s \ {c}] /\ c \in s /\ c # x
    BY <1>9, <2>3
  <2>5. Cardinality(s \ {c}) = m - 1 /\ Cardinality(s \ {x}) = m - 1 /\ m - 1 \in 0..n
    <3>1. IsFiniteSet(s) /\ Cardinality(s) \in Nat /\ Cardinality(s) <= n
      BY <1>1
    <3>2. Cardinality(s \ {c}) \in Nat /\ Cardinality(s \ {c}) = Cardinality(s) - 1
      BY ONLY <2>4, <3>1, CountsDown
    <3>3. Cardinality(s \ {x}) \in Nat /\ Cardinality(s \ {x}) = Cardinality(s) - 1
      BY ONLY <2>3, <3>1, CountsDown
    <3> QED
      BY <2>3, <3>1, <3>2, <3>3
  <2>6. \A t \in SUBSET S : \A y \in t : Cardinality(t) = m - 1 => g[t] = f[y] + g[t \ {y}]
    <3>1. m - 1 \notin T
      <4>1. m \in 0..n
        BY <2>1
      <4> HIDE DEF T
      <4> QED
        BY <2>2, <4>1
    <3> QED
      BY <2>5, <3>1
  <2>7. g[s \ {c}] = f[x] + g[(s \ {c}) \ {x}]
    BY <2>3, <2>4, <2>5, <2>6
  <2>8. g[s \ {x}] = f[c] + g[(s \ {x}) \ {c}]
    BY <2>3, <2>4, <2>5, <2>6
  <2>9. (s \ {c}) \ {x} = (s \ {x}) \ {c}
    OBVIOUS
  <2> PICK a \in Int : a = f[x]
    OBVIOUS
  <2> PICK b \in Int : b = f[c]
    BY <2>4
  <2> PICK w \in Int : w = g[(s \ {c}) \ {x}]
    BY <1>0
  <2>10. g[s] = b + (a + w) /\ f[x] + g[s \ {x}] = a + (b + w)
    BY <2>4, <2>7, <2>8, <2>9
  <2> QED
    BY <2>3, <2>10
<1>3. ASSUME NEW x \in S, g[S] # f[x] + g[S \ {x}]
      PROVE  n \in T
  <2>1. n \in 0..n /\ S \in SUBSET S /\ Cardinality(S) = n
    OBVIOUS
  <2> QED
    BY <1>3, <2>1
<1> QED
  BY <1>2, <1>3

LEMMA SumOfNone ==
  ASSUME NEW f
  PROVE  SumFunctionOnSet(f, {}) = 0
<1>1. PICK g : IsFold(g, {}, Int, Adding(f, {}), 0) /\ SumFunctionOnSet(f, {}) = g[{}]
  BY SumIsFold, FS_EmptySet
<1> QED
  BY <1>1 DEF IsFold

LEMMA SumOfOneMore ==
  ASSUME NEW S, IsFiniteSet(S), NEW x, x \notin S, NEW f, NEW h,
         \A y \in S \cup {x} : f[y] \in Int, \A y \in S : h[y] = f[y]
  PROVE  /\ SumFunctionOnSet(h, S) \in Int
         /\ SumFunctionOnSet(f, S \cup {x}) = SumFunctionOnSet(h, S) + f[x]
<1> PICK R : R = S \cup {x}
  OBVIOUS
<1>1. IsFiniteSet(R)
  BY FS_AddElement
<1>2. PICK g : IsFold(g, R, Int, Adding(f, R), 0) /\ SumFunctionOnSet(f, R) = g[R]
  BY <1>1, SumIsFold
<1>3. PICK k : IsFold(k, S, Int, Adding(h, S), 0) /\ SumFunctionOnSet(h, S) = k[S]
  BY SumIsFold
<1>4. \A y \in S, z \in Int : Adding(f, R)[<<y, z>>] = Adding(h, S)[<<y, z>>]
  BY DEF Adding
<1>5. g[S] = k[S]
  <2>1. S \subseteq R /\ S \subseteq S
    OBVIOUS
  <2> QED
    BY ONLY <1>2, <1>3, <1>4, <2>1, IsFiniteSet(S), FoldsAgree
<1>6. g[R] = f[x] + g[R \ {x}]
  <2>1. x \in R /\ \A y \in R : f[y] \in Int
    OBVIOUS
  <2> QED
    BY ONLY <1>1, <1>2, <2>1, AnyComesLast
<1>7. R \ {x} = S
  OBVIOUS
<1>8. k[S] \in Int /\ f[x] \in Int
  BY <1>3 DEF IsFold
<1>9. SumFunctionOnSet(f, R) = k[S] + f[x]
  <2> PICK a \in Int : a = f[x]
    BY <1>8
  <2> PICK b \in Int : b = k[S]
    BY <1>8
  <2>1. g[R \ {x}] = b
    BY <1>5, <1>7
  <2>2. g[R] = a + b
    BY <1>6, <2>1
  <2> QED
    BY <1>2, <2>2
<1> QED
  BY <1>3, <1>8, <1>9

LEMMA SumOfNextOne ==
  ASSUME NEW k \in Nat, NEW f, \A i \in 1..k + 1 : f[i] \in Int
  PROVE  /\ SumFunctionOnSet(f, 1..k) \in Int
         /\ SumFunctionOnSet(f, 1..k + 1) = SumFunctionOnSet(f, 1..k) + f[k + 1]
<1> PICK S : S = 1..k
  OBVIOUS
<1> PICK x : x = k + 1
  OBVIOUS
<1>1. IsFiniteSet(S)
  BY FS_Interval
<1>2. x \notin S /\ S \cup {x} = 1..k + 1
  OBVIOUS
<1>3. \A y \in S \cup {x} : f[y] \in Int
  BY <1>2
<1>4. /\ SumFunctionOnSet(f, S) \in Int
      /\ SumFunctionOnSet(f, S \cup {x}) = SumFunctionOnSet(f, S) + f[x]
  BY ONLY <1>1, <1>2, <1>3, SumOfOneMore
<1> QED
  BY <1>2, <1>4
=============================================================================
