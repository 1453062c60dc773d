-------------------------------- MODULE Sums --------------------------------
(***************************************************************************)
(* Induction over the natural numbers and over finite sets, stated with    *)
(* sets in place of predicates, and what it gives for the sums that        *)
(* modules Functions and FiniteSetsExt define as folds.                    *)
(***************************************************************************)
EXTENDS Integers, FiniteSets, Functions, FiniteSetTheorems,
        WellFoundedInduction, TLAPS

-----------------------------------------------------------------------------
(* Induction.                                                              *)

\* A set of natural numbers has a least member.
LEMMA LeastMember ==
  ASSUME NEW T \in SUBSET Nat, T # {}
  PROVE  \E x \in T : \A y \in T : x <= y
<1> DEFINE R == OpToRel(<, Nat)
<1>1. IsWellFoundedOn(R, Nat)
  BY NatLessThanWellFounded
<1>2. \A x, y \in Nat : x < y => <<x, y>> \in R
  BY DEF OpToRel
<1> HIDE DEF R
<1>3. PICK x \in T : \A y \in T : ~ (<<y, x>> \in R)
  BY <1>1, WFMin
<1>4. \A y \in T : ~ (y < x)
  BY <1>2, <1>3
<1>5. \A y \in T : x \in Int /\ y \in Int
  OBVIOUS
<1>6. QED BY <1>4, <1>5

\* A set that holds 0 and with each number its successor holds every number.
LEMMA NaturalInduction ==
  ASSUME NEW U, 0 \in U, \A n \in Nat : n \in U => n + 1 \in U
  PROVE  \A n \in Nat : n \in U
<1> SUFFICES ASSUME NEW m \in Nat, m \notin U PROVE FALSE
  OBVIOUS
<1>1. PICK n \in Nat \ U : \A k \in Nat \ U : n <= k
  BY LeastMember, Nat \ U \in SUBSET Nat, Nat \ U # {}
<1>2. n # 0
  BY <1>1
<1>3. n - 1 \in Nat /\ ~(n <= n - 1) /\ (n - 1) + 1 = n
  BY <1>1, <1>2
<1>4. n - 1 \in U
  BY <1>1, <1>3
<1>5. QED BY <1>1, <1>3, <1>4

\* A family of subsets of a finite set S that holds the empty set, and with each
\* of its members what one more element of S makes of it, holds S.
LEMMA FiniteInduction ==
  ASSUME NEW S, IsFiniteSet(S), NEW U, {} \in U,
         \A s \in SUBSET S : \A x \in S \ s : s \in U => s \cup {x} \in U
  PROVE  S \in U
<1> DEFINE N == {n \in Nat : \A s \in SUBSET S : Cardinality(s) = n => s \in U}
<1>1. \A s \in SUBSET S : IsFiniteSet(s) /\ Cardinality(s) \in Nat
  BY FS_Subset, FS_CardinalityType
<1>2. 0 \in N
  BY <1>1, FS_EmptySet
<1>3. ASSUME NEW n \in Nat, n \in N PROVE n + 1 \in N
  <2> SUFFICES ASSUME NEW s \in SUBSET S, Cardinality(s) = n + 1 PROVE s \in U
    OBVIOUS
  <2>1. s # {}
    BY <1>1, FS_EmptySet
  <2>2. PICK x \in s : TRUE
    BY <2>1
  <2>3. Cardinality(s \ {x}) = n
    <3>1. Cardinality(s \ {x}) = Cardinality(s) - 1
      BY <1>1, <2>2, FS_RemoveElement
    <3>2. QED BY <3>1
  <2>4. s \ {x} \in U
    BY <1>3, <2>3
  <2>5. s \ {x} \in SUBSET S /\ x \in S \ (s \ {x}) /\ (s \ {x}) \cup {x} = s
    BY <2>2
  <2>6. QED BY <2>4, <2>5
<1>4. \A n \in Nat : n \in N
  <2> HIDE DEF N
  <2>1. QED BY <1>2, <1>3, NaturalInduction
<1>5. QED BY <1>1, <1>4

-----------------------------------------------------------------------------
(* Sums.                                                                   *)

\* The function that the fold of a sum is defined by: what is left of the set,
\* mapped to its sum.
IsSum(g, h, S) ==
  g = [s \in SUBSET S |->
        IF s = {} THEN 0
        ELSE h[CHOOSE x \in s : TRUE] + g[s \ {CHOOSE x \in s : TRUE}]]

\* That definition defines a function.
LEMMA SumExists ==
  ASSUME NEW h, NEW S, IsFiniteSet(S)
  PROVE  \E g : IsSum(g, h, S)
<1> DEFINE p(s) == CHOOSE x \in s : TRUE
           Up(n) == {s \in SUBSET S : Cardinality(s) <= n}
           N == {n \in Nat : \E g : g = [s \in Up(n) |->
                   IF s = {} THEN 0 ELSE h[p(s)] + g[s \ {p(s)}]]}
<1>1. \A s \in SUBSET S : IsFiniteSet(s) /\ Cardinality(s) \in Nat
  BY FS_Subset, FS_CardinalityType
<1>2. 0 \in N
  <2>1. [s \in Up(0) |-> 0] = [s \in Up(0) |-> IF s = {} THEN 0
                                ELSE h[p(s)] + [r \in Up(0) |-> 0][s \ {p(s)}]]
    <3>1. \A s \in Up(0) : s = {}
      BY <1>1, FS_EmptySet
    <3>2. QED BY <3>1
  <2>2. QED BY <2>1
<1>3. ASSUME NEW n \in Nat, n \in N PROVE n + 1 \in N
  <2>1. PICK g : g = [s \in Up(n) |-> IF s = {} THEN 0 ELSE h[p(s)] + g[s \ {p(s)}]]
    BY <1>3
  <2> DEFINE k == [s \in Up(n + 1) |-> IF s = {} THEN 0 ELSE h[p(s)] + g[s \ {p(s)}]]
  <2>2. \A s \in Up(n) : s \in Up(n + 1) /\ k[s] = g[s]
    <3>1. \A s \in Up(n) : s \in Up(n + 1)
      BY <1>1
    <3>2. QED BY <2>1, <3>1
  <2>3. ASSUME NEW s \in Up(n + 1), s # {} PROVE s \ {p(s)} \in Up(n)
    <3>1. p(s) \in s
      BY <2>3
    <3>2. Cardinality(s \ {p(s)}) = Cardinality(s) - 1
      BY <1>1, <3>1, FS_RemoveElement
    <3>3. QED BY <1>1, <3>2
  <2>4. \A s \in Up(n + 1) : s # {} => k[s \ {p(s)}] = g[s \ {p(s)}]
    <3> HIDE DEF k, Up, p
    <3>1. QED BY <2>2, <2>3
  <2>5. k = [s \in Up(n + 1) |-> IF s = {} THEN 0 ELSE h[p(s)] + k[s \ {p(s)}]]
    <3> HIDE DEF Up, p
    <3>1. \A s \in Up(n + 1) : s # {} => k[s \ {p(s)}] = g[s \ {p(s)}]
      BY <2>4
    <3> DEFINE kk == k
    <3>2. kk = [s \in Up(n + 1) |-> IF s = {} THEN 0 ELSE h[p(s)] + g[s \ {p(s)}]]
      OBVIOUS
    <3> HIDE DEF kk
    <3>3. QED BY <3>1, <3>2 DEF kk
  <2>6. QED
    <3> HIDE DEF k, Up, p
    <3>1. n + 1 \in Nat
      OBVIOUS
    <3>2. QED BY <2>5, <3>1
<1>4. \A n \in Nat : n \in N
  <2> HIDE DEF N
  <2>1. QED BY <1>2, <1>3, NaturalInduction
<1>5. Up(Cardinality(S)) = SUBSET S
  BY <1>1, FS_Subset
<1>6. PICK g : g = [s \in Up(Cardinality(S)) |-> IF s = {} THEN 0 ELSE h[p(s)] + g[s \ {p(s)}]]
  BY <1>1, <1>4
<1>7. QED BY <1>5, <1>6 DEF IsSum

\* It defines only one, and what it is for a set depends on nothing else.
LEMMA SumUnique ==
  ASSUME NEW h, NEW k, NEW S, NEW T, IsFiniteSet(T),
         T \subseteq S, \A x \in T : h[x] = k[x],
         NEW g, IsSum(g, h, S), NEW f, IsSum(f, k, T)
  PROVE  g[T] = f[T]
<1> DEFINE p(s) == CHOOSE x \in s : TRUE
           N == {n \in Nat : \A s \in SUBSET T : Cardinality(s) = n => g[s] = f[s]}
<1>1. \A s \in SUBSET T : IsFiniteSet(s) /\ Cardinality(s) \in Nat
  BY FS_Subset, FS_CardinalityType
<1>2. \A s \in SUBSET T : g[s] = IF s = {} THEN 0 ELSE h[p(s)] + g[s \ {p(s)}]
  BY DEF IsSum
<1>3. \A s \in SUBSET T : f[s] = IF s = {} THEN 0 ELSE k[p(s)] + f[s \ {p(s)}]
  BY DEF IsSum
<1>4. \A s \in SUBSET T : s # {} => p(s) \in s
  OBVIOUS
<1> HIDE DEF p
<1>5. 0 \in N
  BY <1>1, <1>2, <1>3, FS_EmptySet
<1>6. ASSUME NEW n \in Nat, n \in N PROVE n + 1 \in N
  <2> SUFFICES ASSUME NEW s \in SUBSET T, Cardinality(s) = n + 1 PROVE g[s] = f[s]
    OBVIOUS
  <2>1. s # {} /\ p(s) \in s
    BY <1>1, <1>4, FS_EmptySet
  <2>2. Cardinality(s \ {p(s)}) = Cardinality(s) - 1
    <3>1. IsFiniteSet(s)
      BY <1>1
    <3>2. QED BY <2>1, <3>1, FS_RemoveElement
  <2>3. g[s \ {p(s)}] = f[s \ {p(s)}]
    BY <1>6, <2>2
  <2>4. h[p(s)] = k[p(s)]
    BY <2>1
  <2>5. QED BY <1>2, <1>3, <2>1, <2>3, <2>4
<1>7. \A n \in Nat : n \in N
  <2> HIDE DEF N
  <2>1. QED BY <1>5, <1>6, NaturalInduction
<1>8. QED BY <1>1, <1>7

LEMMA SumIsSum ==
  ASSUME NEW h, NEW S, IsFiniteSet(S)
  PROVE  \E g : IsSum(g, h, S) /\ SumFunctionOnSet(h, S) = g[S]
<1>1. SumFunctionOnSet(h, S) = (CHOOSE g : IsSum(g, h, S))[S]
  BY DEF SumFunctionOnSet, FoldFunctionOnSet, MapThenFoldSet, IsSum
<1>2. IsSum((CHOOSE g : IsSum(g, h, S)), h, S)
  BY SumExists
<1>3. QED BY <1>1, <1>2

\* The sum depends on what is summed up only.
LEMMA SumSame ==
  ASSUME NEW S, IsFiniteSet(S), NEW h, NEW k, \A x \in S : h[x] = k[x]
  PROVE  SumFunctionOnSet(h, S) = SumFunctionOnSet(k, S)
<1>1. PICK g : IsSum(g, h, S) /\ SumFunctionOnSet(h, S) = g[S]
  BY SumIsSum
<1>2. PICK f : IsSum(f, k, S) /\ SumFunctionOnSet(k, S) = f[S]
  BY SumIsSum
<1>3. g[S] = f[S]
  <2>1. S \subseteq S
    OBVIOUS
  <2>2. QED BY <1>1, <1>2, <2>1, SumUnique
<1>4. QED BY <1>1, <1>2, <1>3

LEMMA SumEmpty ==
  ASSUME NEW h
  PROVE  SumFunctionOnSet(h, {}) = 0
<1>1. PICK g : IsSum(g, h, {}) /\ SumFunctionOnSet(h, {}) = g[{}]
  BY SumIsSum, FS_EmptySet
<1>2. QED BY <1>1 DEF IsSum

\* The recursion: some member, and the rest.
LEMMA SumPick ==
  ASSUME NEW h, NEW S, IsFiniteSet(S), S # {}
  PROVE  \E x \in S : SumFunctionOnSet(h, S) = h[x] + SumFunctionOnSet(h, S \ {x})
<1> DEFINE x == CHOOSE y \in S : TRUE
<1>1. x \in S
  OBVIOUS
<1>2. PICK g : IsSum(g, h, S) /\ SumFunctionOnSet(h, S) = g[S]
  BY SumIsSum
<1>3. g[S] = h[x] + g[S \ {x}]
  BY <1>2 DEF IsSum
<1> HIDE DEF x
<1>4. IsFiniteSet(S \ {x})
  BY FS_RemoveElement
<1>5. PICK f : IsSum(f, h, S \ {x}) /\ SumFunctionOnSet(h, S \ {x}) = f[S \ {x}]
  BY <1>4, SumIsSum
<1>6. g[S \ {x}] = f[S \ {x}]
  BY <1>2, <1>4, <1>5, SumUnique
<1>7. QED BY <1>1, <1>2, <1>3, <1>5, <1>6

\* A sum of integers is an integer, one of natural numbers a natural number.
LEMMA SumType ==
  ASSUME NEW V \in {Nat, Int}, NEW S, IsFiniteSet(S), NEW h, \A x \in S : h[x] \in V
  PROVE  SumFunctionOnSet(h, S) \in V
<1> DEFINE N == {n \in Nat : \A s \in SUBSET S : Cardinality(s) = n => SumFunctionOnSet(h, s) \in V}
<1>1. \A s \in SUBSET S : IsFiniteSet(s) /\ Cardinality(s) \in Nat
  BY FS_Subset, FS_CardinalityType
<1>2. 0 \in N
  BY <1>1, FS_EmptySet, SumEmpty
<1>3. ASSUME NEW n \in Nat, n \in N PROVE n + 1 \in N
  <2> SUFFICES ASSUME NEW s \in SUBSET S, Cardinality(s) = n + 1
               PROVE  SumFunctionOnSet(h, s) \in V
    OBVIOUS
  <2>1. s # {}
    BY <1>1, FS_EmptySet
  <2>2. PICK x \in s : SumFunctionOnSet(h, s) = h[x] + SumFunctionOnSet(h, s \ {x})
    BY <1>1, <2>1, SumPick
  <2>3. Cardinality(s \ {x}) = Cardinality(s) - 1
    BY <1>1, <2>2, FS_RemoveElement
  <2>4. SumFunctionOnSet(h, s \ {x}) \in V
    BY <1>3, <2>3
  <2>5. h[x] \in V
    BY <2>2
  <2>6. QED BY <2>2, <2>4, <2>5
<1>4. \A n \in Nat : n \in N
  <2> HIDE DEF N
  <2>1. QED BY <1>2, <1>3, NaturalInduction
<1>5. QED BY <1>1, <1>4

\* Any member, and the rest.
LEMMA SumAdd ==
  ASSUME NEW V, IsFiniteSet(V), NEW h, \A x \in V : h[x] \in Int
  PROVE  \A S \in SUBSET V : \A x \in V \ S :
           SumFunctionOnSet(h, S \cup {x}) = SumFunctionOnSet(h, S) + h[x]
<1> DEFINE Sum(s) == SumFunctionOnSet(h, s)
           N == {n \in Nat : \A s \in SUBSET V : \A x \in V \ s :
                   Cardinality(s) = n => Sum(s \cup {x}) = Sum(s) + h[x]}
<1>1. \A s \in SUBSET V : IsFiniteSet(s) /\ Cardinality(s) \in Nat /\ Sum(s) \in Int
  <2> SUFFICES ASSUME NEW s \in SUBSET V
               PROVE  IsFiniteSet(s) /\ Cardinality(s) \in Nat /\ Sum(s) \in Int
    OBVIOUS
  <2>1. IsFiniteSet(s) /\ Cardinality(s) \in Nat
    BY FS_Subset, FS_CardinalityType
  <2>2. QED BY <2>1, SumType
<1>2. \A s \in SUBSET V : s # {} => \E y \in s : Sum(s) = h[y] + Sum(s \ {y})
  BY <1>1, SumPick
<1>3. Sum({}) = 0
  BY SumEmpty
<1> HIDE DEF Sum
<1>4. 0 \in N
  <2> SUFFICES ASSUME NEW x \in V PROVE Sum({} \cup {x}) = Sum({}) + h[x]
    BY <1>1, FS_EmptySet
  <2>1. PICK y \in {x} : Sum({x}) = h[y] + Sum({x} \ {y})
    BY <1>2
  <2>2. y = x /\ {x} \ {x} = {} /\ {} \cup {x} = {x} /\ h[x] \in Int
    OBVIOUS
  <2>3. Sum({x}) = h[x] + Sum({})
    BY <2>1, <2>2
  <2>4. Sum({} \cup {x}) = h[x] + Sum({})
    BY <2>2, <2>3
  <2>5. QED BY <1>3, <2>2, <2>4
<1>5. ASSUME NEW n \in Nat, n \in N PROVE n + 1 \in N
  <2> SUFFICES ASSUME NEW s \in SUBSET V, NEW x \in V \ s, Cardinality(s) = n + 1
               PROVE  Sum(s \cup {x}) = Sum(s) + h[x]
    OBVIOUS
  <2>1. PICK y \in s \cup {x} : Sum(s \cup {x}) = h[y] + Sum((s \cup {x}) \ {y})
    BY <1>2
  <2>2. Sum(s) \in Int /\ h[x] \in Int /\ h[y] \in Int
    BY <1>1
  <2>3. CASE y = x
    <3>1. (s \cup {x}) \ {y} = s
      BY <2>3
    <3>2. Sum(s \cup {x}) = h[x] + Sum(s)
      BY <2>1, <2>3, <3>1
    <3>3. QED BY <2>2, <3>2
  <2>4. CASE y \in s
    <3> DEFINE r == s \ {y}
    <3>1. r \in SUBSET V /\ x \in V \ r /\ y \in V \ r
      BY <2>4
    <3>2. Cardinality(r) = Cardinality(s) - 1
      BY <1>1, <2>4, FS_RemoveElement
    <3>3. Cardinality(r) = n
      BY <3>2
    <3>4. (s \cup {x}) \ {y} = r \cup {x} /\ s = r \cup {y}
      BY <2>4
    <3>5. Sum(r \cup {x}) = Sum(r) + h[x] /\ Sum(r \cup {y}) = Sum(r) + h[y] /\ Sum(r) \in Int
      <4> HIDE DEF r
      <4>1. QED BY <1>1, <1>5, <3>1, <3>3
    <3> HIDE DEF r
    <3>6. Sum(s) = Sum(r) + h[y] /\ Sum(s \cup {x}) = h[y] + (Sum(r) + h[x])
      BY <2>1, <3>4, <3>5
    <3>7. QED BY <2>2, <3>5, <3>6
  <2>5. QED BY <2>3, <2>4
<1>6. \A n \in Nat : n \in N
  <2> HIDE DEF N
  <2>1. QED BY <1>4, <1>5, NaturalInduction
<1>7. \A S \in SUBSET V : \A x \in V \ S : Sum(S \cup {x}) = Sum(S) + h[x]
  BY <1>1, <1>6
<1>8. QED BY <1>7 DEF Sum

-----------------------------------------------------------------------------
(* Counting.                                                               *)

\* Two sets without a common member have as many members as both together.
LEMMA DisjointUnion ==
  ASSUME NEW S, NEW T, IsFiniteSet(S), IsFiniteSet(T), S \cap T = {}
  PROVE  IsFiniteSet(S \cup T) /\ Cardinality(S \cup T) = Cardinality(S) + Cardinality(T)
<1>1. Cardinality(S) \in Nat /\ Cardinality(T) \in Nat
  BY FS_CardinalityType
<1>2. Cardinality(S \cap T) = 0
  BY FS_EmptySet
<1>3. IsFiniteSet(S \cup T)
      /\ Cardinality(S \cup T) = Cardinality(S) + Cardinality(T) - Cardinality(S \cap T)
  BY FS_Union
<1>4. QED BY <1>1, <1>2, <1>3

\* Multiplication keeps the order, and distributes.
LEMMA Products ==
  /\ \A a, b, n \in Nat : a <= b => a * n <= b * n
  /\ \A a, b, n \in Nat : a <= b => n * a <= n * b
  /\ \A a, m, n \in Nat : a * (m + n) = a * m + a * n
OBVIOUS

=============================================================================
