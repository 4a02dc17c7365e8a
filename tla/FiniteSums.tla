------------------------------ MODULE FiniteSums ------------------------------
(***************************************************************************)
(* Sums over finite sets, as MapThenSumSet of the community modules makes  *)
(* them: a recursive function on the subsets that takes out one chosen     *)
(* element at a time.  The facts proved here say that such a function      *)
(* exists, is the only one, and changes by d when one summand does.        *)
(*                                                                         *)
(* The inductions are on the size of a set, in the form of a least         *)
(* counterexample (LeastNat).                                              *)
(***************************************************************************)
EXTENDS Integers, FiniteSetTheorems, WellFoundedInduction, TLAPS

Chosen(T) == CHOOSE x \in T : TRUE

\* f[T] is the sum of h over T, for the subsets T of S.
IsSum(f, h, S) ==
    f = [T \in SUBSET S |-> IF T = {} THEN 0 ELSE h[Chosen(T)] + f[T \ {Chosen(T)}]]

\* The least-number principle.
LEMMA LeastNat ==
    ASSUME NEW A \in SUBSET Nat, A # {}
    PROVE  \E n \in A : \A m \in A : n <= m
<1>1. IsWellFoundedOn(OpToRel(<, Nat), Nat)
  BY NatLessThanWellFounded
<1>2. PICK n \in A : \A m \in A : ~(<<m, n>> \in OpToRel(<, Nat))
  BY <1>1, WFMin
<1>3. \A m \in A : ~(m < n)
  BY <1>2 DEF OpToRel
<1>. QED
  BY <1>3

\* What is left when the chosen element is taken out.
LEMMA TakeOut ==
    ASSUME NEW S, IsFiniteSet(S), NEW T \in SUBSET S, T # {}
    PROVE  /\ Chosen(T) \in T /\ Chosen(T) \in S /\ T \ {Chosen(T)} \in SUBSET S
           /\ Cardinality(T) \in Nat /\ Cardinality(T) # 0
           /\ Cardinality(T \ {Chosen(T)}) = Cardinality(T) - 1
<1>1. Chosen(T) \in T
  BY DEF Chosen
<1>2. IsFiniteSet(T)
  BY FS_Subset
<1>. QED
  BY <1>1, <1>2, FS_RemoveElement, FS_CardinalityType, FS_EmptySet

\* The equation, at one subset.
LEMMA SumAt ==
    ASSUME NEW f, NEW h, NEW S, IsSum(f, h, S), NEW T \in SUBSET S
    PROVE  /\ T = {} => f[T] = 0
           /\ T # {} => f[T] = h[Chosen(T)] + f[T \ {Chosen(T)}]
BY DEF IsSum

\* Two functions that satisfy the equation agree.
LEMMA SumIsUnique ==
    ASSUME NEW S, IsFiniteSet(S), NEW f, NEW g, NEW h, IsSum(f, h, S), IsSum(g, h, S)
    PROVE  f = g
<1>f. \A T \in SUBSET S : /\ T = {} => f[T] = 0
                         /\ T # {} => f[T] = h[Chosen(T)] + f[T \ {Chosen(T)}]
  BY SumAt
<1>g. \A T \in SUBSET S : /\ T = {} => g[T] = 0
                         /\ T # {} => g[T] = h[Chosen(T)] + g[T \ {Chosen(T)}]
  BY SumAt
<1>e. f[{}] = 0 /\ g[{}] = 0
  BY DEF IsSum
<1>1. ASSUME NEW T \in SUBSET S, f[T] # g[T] PROVE FALSE
  <2>. DEFINE Bad == {n \in Nat : \E U \in SUBSET S : Cardinality(U) = n /\ f[U] # g[U]}
  <2>1. Cardinality(T) \in Bad
    BY <1>1, FS_Subset, FS_CardinalityType
  <2>2. PICK n \in Bad : \A m \in Bad : n <= m
    <3>1. Bad \in SUBSET Nat /\ Bad # {}
      BY <2>1
    <3>. HIDE DEF Bad
    <3>. QED
      BY <3>1, LeastNat
  <2>3. PICK U \in SUBSET S : Cardinality(U) = n /\ f[U] # g[U]
    BY <2>2
  <2>4. U # {}
    BY <2>3, <1>e
  <2>5. /\ U \ {Chosen(U)} \in SUBSET S /\ n \in Nat /\ n # 0
        /\ Cardinality(U \ {Chosen(U)}) = n - 1
    BY <2>3, <2>4, TakeOut
  <2>6. f[U \ {Chosen(U)}] # g[U \ {Chosen(U)}]
    <3>. HIDE DEF Bad
    <3>1. f[U] = h[Chosen(U)] + f[U \ {Chosen(U)}]
      BY <2>4, <1>f
    <3>2. g[U] = h[Chosen(U)] + g[U \ {Chosen(U)}]
      BY <2>4, <1>g
    <3>. QED
      BY <2>3, <3>1, <3>2
  <2>7. n - 1 \in Bad
    BY <2>5, <2>6
  <2>. QED
    BY <2>2, <2>5, <2>7
<1>2. f = [T \in SUBSET S |-> f[T]] /\ g = [T \in SUBSET S |-> g[T]]
  BY DEF IsSum
<1>. QED
  BY <1>1, <1>2

\* The subsets of S with at most n elements, and a function that sums over them.
Small(S, n) == {T \in SUBSET S : Cardinality(T) <= n}
SumsTo(f, h, S, n) ==
    /\ f \in [Small(S, n) -> Int]
    /\ \A T \in Small(S, n) :
           f[T] = IF T = {} THEN 0 ELSE h[Chosen(T)] + f[T \ {Chosen(T)}]

\* The sum over the empty set, and over sets with one element more.
LEMMA SumsToZero ==
    ASSUME NEW S, IsFiniteSet(S), NEW h
    PROVE  \E f : SumsTo(f, h, S, 0)
<1>1. \A T \in Small(S, 0) : T = {}
  BY FS_Subset, FS_CardinalityType, FS_EmptySet DEF Small
<1>2. SumsTo([T \in Small(S, 0) |-> 0], h, S, 0)
  BY <1>1 DEF SumsTo
<1>. QED
  BY <1>2

LEMMA SumsToNext ==
    ASSUME NEW S, IsFiniteSet(S), NEW h \in [S -> Int], NEW n \in Nat, NEW f, SumsTo(f, h, S, n)
    PROVE  \E g : SumsTo(g, h, S, n + 1)
<1>. DEFINE g == [T \in Small(S, n + 1) |-> IF T = {} THEN 0 ELSE h[Chosen(T)] + f[T \ {Chosen(T)}]]
<1>1. ASSUME NEW T \in Small(S, n + 1), T # {}
      PROVE  /\ Chosen(T) \in S /\ T \ {Chosen(T)} \in Small(S, n)
             /\ T \ {Chosen(T)} \in Small(S, n + 1)
  BY <1>1, TakeOut DEF Small
<1>2. \A T \in Small(S, n) : T \in Small(S, n + 1) /\ g[T] = f[T]
  <2>1. \A T \in Small(S, n) : T \in Small(S, n + 1)
    BY FS_Subset, FS_CardinalityType DEF Small
  <2>. QED
    BY <2>1 DEF SumsTo
<1>3. g \in [Small(S, n + 1) -> Int]
  BY <1>1 DEF SumsTo
<1>4. \A T \in Small(S, n + 1) :
          g[T] = IF T = {} THEN 0 ELSE h[Chosen(T)] + g[T \ {Chosen(T)}]
  BY <1>1, <1>2
<1>5. SumsTo(g, h, S, n + 1)
  BY <1>3, <1>4 DEF SumsTo
<1>. QED
  BY <1>5

\* There is a function that sums, and its values are integers.
LEMMA SumExists ==
    ASSUME NEW S, IsFiniteSet(S), NEW h \in [S -> Int]
    PROVE  \E f \in [SUBSET S -> Int] : IsSum(f, h, S)
<1>. DEFINE Bad == {n \in Nat : ~ \E f : SumsTo(f, h, S, n)}
<1>1. Bad = {}
  <2>. SUFFICES ASSUME Bad # {} PROVE FALSE
    OBVIOUS
  <2>1. PICK n \in Bad : \A m \in Bad : n <= m
    <3>1. Bad \in SUBSET Nat
      OBVIOUS
    <3>. HIDE DEF Bad
    <3>. QED
      BY <3>1, LeastNat
  <2>2. n \in Nat /\ n # 0 /\ n - 1 \in Nat /\ n - 1 \notin Bad
    BY <2>1, SumsToZero
  <2>3. PICK f : SumsTo(f, h, S, n - 1)
    BY <2>2
  <2>4. \E g : SumsTo(g, h, S, (n - 1) + 1)
    BY <2>2, <2>3, SumsToNext
  <2>5. (n - 1) + 1 = n
    BY <2>2
  <2>. QED
    BY <2>1, <2>4, <2>5
<1>2. Cardinality(S) \in Nat
  BY FS_CardinalityType
<1>3. PICK f : SumsTo(f, h, S, Cardinality(S))
  BY <1>1, <1>2
<1>4. Small(S, Cardinality(S)) = SUBSET S
  BY FS_Subset DEF Small
<1>5. f \in [SUBSET S -> Int] /\ IsSum(f, h, S)
  BY <1>3, <1>4 DEF SumsTo, IsSum
<1>. QED
  BY <1>5

LEMMA SumIsInt ==
    ASSUME NEW S, IsFiniteSet(S), NEW h \in [S -> Int], NEW f, IsSum(f, h, S)
    PROVE  f \in [SUBSET S -> Int]
<1>1. PICK g \in [SUBSET S -> Int] : IsSum(g, h, S)
  BY SumExists
<1>2. f = g
  BY <1>1, SumIsUnique
<1>. QED
  BY <1>2

\* When one summand changes, the sum changes by as much.
LEMMA SumChanges ==
    ASSUME NEW S, IsFiniteSet(S), NEW h \in [S -> Int], NEW k \in [S -> Int],
           NEW b \in S, NEW d \in Int, k[b] = h[b] + d, \A c \in S \ {b} : k[c] = h[c],
           NEW f, IsSum(f, h, S), NEW g, IsSum(g, k, S)
    PROVE  g[S] = f[S] + d
<1>. DEFINE Delta(T) == IF b \in T THEN d ELSE 0
<1>0. f \in [SUBSET S -> Int] /\ g \in [SUBSET S -> Int]
  <2>1. f \in [SUBSET S -> Int]
    BY SumIsInt
  <2>2. g \in [SUBSET S -> Int]
    <3>1. PICK e \in [SUBSET S -> Int] : IsSum(e, k, S)
      BY SumExists
    <3>2. g = e
      BY <3>1, SumIsUnique
    <3>. QED
      BY <3>1, <3>2
  <2>. QED
    BY <2>1, <2>2
<1>1. ASSUME NEW T \in SUBSET S, g[T] # f[T] + Delta(T) PROVE FALSE
  <2>. DEFINE Bad == {n \in Nat : \E U \in SUBSET S : Cardinality(U) = n /\ g[U] # f[U] + Delta(U)}
  <2>1. Cardinality(T) \in Bad
    BY <1>1, FS_Subset, FS_CardinalityType
  <2>2. PICK n \in Bad : \A m \in Bad : n <= m
    <3>1. Bad \in SUBSET Nat /\ Bad # {}
      BY <2>1
    <3>. HIDE DEF Bad
    <3>. QED
      BY <3>1, LeastNat
  <2>3. PICK U \in SUBSET S : Cardinality(U) = n /\ g[U] # f[U] + Delta(U)
    BY <2>2
  <2>4. U # {}
    <3>. SUFFICES ASSUME U = {} PROVE FALSE
      OBVIOUS
    <3>1. f[U] = 0
      BY SumAt
    <3>2. g[U] = 0
      BY SumAt
    <3>. QED
      BY <2>3, <3>1, <3>2
  <2>. DEFINE c == Chosen(U)
              V == U \ {c}
  <2>5. /\ V \in SUBSET S /\ n \in Nat /\ n # 0 /\ Cardinality(V) = n - 1 /\ c \in U /\ c \in S
    BY <2>3, <2>4, TakeOut
  <2>6. f[U] = h[c] + f[V] /\ g[U] = k[c] + g[V]
    <3>1. f[U] = h[c] + f[V]
      BY <2>4, SumAt
    <3>2. g[U] = k[c] + g[V]
      BY <2>4, SumAt
    <3>. QED
      BY <3>1, <3>2
  <2>7. k[c] = h[c] + (IF c = b THEN d ELSE 0) /\ h[c] \in Int /\ f[V] \in Int /\ g[V] \in Int
    <3>. HIDE DEF Bad, c, V
    <3>1. f[V] \in Int /\ g[V] \in Int
      BY <2>5, <1>0
    <3>2. h[c] \in Int
      BY <2>5
    <3>3. k[c] = h[c] + (IF c = b THEN d ELSE 0)
      BY <2>5, <3>2
    <3>. QED
      BY <3>1, <3>2, <3>3
  <2>8. b \in U <=> (b = c \/ b \in V)
    BY <2>5
  <2>9. b = c => b \notin V
    OBVIOUS
  <2>. HIDE DEF c, V
  <2>10. g[V] # f[V] + Delta(V)
    BY <2>3, <2>6, <2>7, <2>8, <2>9
  <2>11. n - 1 \in Bad
    BY <2>5, <2>10
  <2>. QED
    BY <2>2, <2>5, <2>11
<1>. QED
  BY <1>1

\* k differs from h, on S, by d at b.
Differs(h, k, S, b, d) ==
    /\ h \in [S -> Int] /\ k \in [S -> Int] /\ b \in S /\ d \in Int
    /\ k[b] = h[b] + d
    /\ \A c \in S \ {b} : k[c] = h[c]

\* The sums of two such functions exist and differ by d.
LEMMA SumDiffers ==
    ASSUME NEW S, IsFiniteSet(S), NEW h, NEW k, NEW b, NEW d, Differs(h, k, S, b, d)
    PROVE  \E f, g : IsSum(f, h, S) /\ IsSum(g, k, S) /\ g[S] = f[S] + d
<1>1. h \in [S -> Int] /\ k \in [S -> Int] /\ b \in S /\ d \in Int
  BY DEF Differs
<1>2. k[b] = h[b] + d /\ \A c \in S \ {b} : k[c] = h[c]
  BY DEF Differs
<1>3. PICK f : IsSum(f, h, S)
  BY <1>1, SumExists
<1>4. PICK g : IsSum(g, k, S)
  BY <1>1, SumExists
<1>. QED
  BY <1>1, <1>2, <1>3, <1>4, SumChanges

\* The sum of nothing but zeros.
LEMMA SumOfZeros ==
    ASSUME NEW S, IsFiniteSet(S), NEW h \in [S -> Int], \A b \in S : h[b] = 0,
           NEW f, IsSum(f, h, S)
    PROVE  f[S] = 0
<1>. DEFINE z == [T \in SUBSET S |-> 0]
<1>1. \A T \in SUBSET S : T # {} => Chosen(T) \in S /\ T \ {Chosen(T)} \in SUBSET S
  BY TakeOut
<1>2. IsSum(z, h, S)
  BY <1>1 DEF IsSum
<1>3. f = z
  BY <1>2, SumIsUnique
<1>. QED
  BY <1>3
=============================================================================
