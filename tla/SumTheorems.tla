----------------------------- MODULE SumTheorems -----------------------------
(***************************************************************************)
(* Induction over finite sets and the sums of the community modules.  The  *)
(* answers of this system are counts and sums over rows; what its proofs   *)
(* need of a sum is stated here once.                                      *)
(*                                                                         *)
(* Induction is stated with a set of "good" subsets where the library's    *)
(* theorem has an operator.  A sum is that of a function on a set of       *)
(* arguments, SumFunctionOnSet.                                            *)
(***************************************************************************)
EXTENDS FiniteSetsExt, FiniteSetTheorems, TLAPS

\* A set of subsets that holds the empty one, and every one of which it holds
\* what is left when any element is removed, holds them all.
LEMMA FiniteInduction ==
    ASSUME NEW S, IsFiniteSet(S), NEW Good, {} \in Good,
           \A T \in SUBSET S : T # {} /\ (\A x \in T : T \ {x} \in Good) => T \in Good
    PROVE  S \in Good
<1> DEFINE Bad == {T \in SUBSET S : T \notin Good}
           R == StrictSubsetOrdering(S)
<1>1. IsWellFoundedOn(R, SUBSET S)
  BY FS_StrictSubsetOrderingWellFounded, FS_FiniteSubsetsOfFinite
<1>2. SUFFICES ASSUME Bad # {}
               PROVE  FALSE
  OBVIOUS
<1>3. PICK T \in Bad : \A U \in Bad : ~(<<U, T>> \in R)
  <2> HIDE DEF Bad, R
  <2>1. Bad \subseteq SUBSET S
    BY DEF Bad
  <2> QED
    BY <1>1, <1>2, <2>1, WFMin
<1>4. PICK x \in T : T \ {x} \notin Good
  BY <1>3
<1>5. T \ {x} \in Bad
  BY <1>3, <1>4
<1>6. <<T \ {x}, T>> \in R
  BY <1>3, <1>4, <1>5 DEF StrictSubsetOrdering
<1> QED
  BY <1>3, <1>5, <1>6

-----------------------------------------------------------------------------

\* f is a natural number on every element of S.
Natural(f, S) == \A x \in S : f[x] \in Nat

\* g is, of every subset of S, what f adds up to.
AddsUp(g, f, S) ==
    g[{}] = 0 /\ \A T \in SUBSET S : \A x \in T : g[T] = f[x] + g[T \ {x}]

\* The recursion behind SumFunctionOnSet has one solution, so whatever satisfies
\* it for every element removed is the sum.
LEMMA SumIs ==
    ASSUME NEW S, IsFiniteSet(S), NEW f, NEW g, AddsUp(g, f, S)
    PROVE  SumFunctionOnSet(f, S) = g[S]
<1> USE DEF AddsUp
<1> DEFINE Rec(h) == [T \in SUBSET S |-> IF T = {} THEN 0
                                         ELSE f[CHOOSE x \in T : TRUE]
                                              + h[T \ {CHOOSE x \in T : TRUE}]]
           iter == CHOOSE h : h = Rec(h)
           w == [T \in SUBSET S |-> g[T]]
<1>1. w = Rec(w)
  <2> SUFFICES ASSUME NEW T \in SUBSET S
               PROVE  g[T] = Rec(w)[T]
    OBVIOUS
  <2>1. CASE T = {}
    BY <2>1
  <2>2. CASE T # {}
    <3>1. (CHOOSE x \in T : TRUE) \in T
      BY <2>2
    <3> QED
      BY <2>2, <3>1
  <2> QED
    BY <2>1, <2>2
<1>2. iter = Rec(iter)
  BY <1>1
<1>3. SumFunctionOnSet(f, S) = iter[S]
  BY DEF SumFunctionOnSet, FoldFunctionOnSet, MapThenFoldSet
<1> HIDE DEF iter
<1>4. iter[S] = g[S]
  <2> DEFINE Good == {T \in SUBSET S : iter[T] = g[T]}
  <2>1. {} \in Good
    BY <1>2
  <2>2. ASSUME NEW T \in SUBSET S, T # {}, \A x \in T : T \ {x} \in Good
        PROVE  T \in Good
    <3> DEFINE x == CHOOSE y \in T : TRUE
    <3>1. x \in T
      BY <2>2
    <3>2. iter[T] = f[x] + iter[T \ {x}]
      BY <1>2, <2>2
    <3> HIDE DEF x
    <3>3. T \ {x} \in Good
      BY <2>2, <3>1
    <3> QED
      BY <3>1, <3>2, <3>3
  <2>3. S \in Good
    <3> HIDE DEF Good
    <3> QED
      BY <2>1, <2>2, FiniteInduction
  <2> QED
    BY <2>3
<1> QED
  BY <1>3, <1>4


\* Numbers on a finite set have a sum: the elements of as many points are counted.
LEMMA SumExists ==
    ASSUME NEW S, IsFiniteSet(S), NEW f, Natural(f, S)
    PROVE  \E g \in [SUBSET S -> Nat] : AddsUp(g, f, S)
<1> USE DEF Natural
<1> DEFINE P(T) == {p \in T \X Nat : p[2] \in 1 .. f[p[1]]}
           B(x) == {x} \X (1 .. f[x])
           g == [T \in SUBSET S |-> Cardinality(P(T))]
<1>1. P({}) = {}
  OBVIOUS
<1>2. ASSUME NEW T \in SUBSET S, NEW x \in T
      PROVE  P(T) = P(T \ {x}) \cup B(x) /\ P(T \ {x}) \cap B(x) = {}
  <2>1. f[x] \in Nat /\ 1 .. f[x] \subseteq Nat
    OBVIOUS
  <2> QED
    BY <2>1
<1>3. ASSUME NEW x \in S
      PROVE  IsFiniteSet(B(x)) /\ Cardinality(B(x)) = f[x]
  <2> DEFINE h == [i \in 1 .. f[x] |-> <<x, i>>]
  <2>1. IsFiniteSet(1 .. f[x]) /\ Cardinality(1 .. f[x]) = f[x]
    BY FS_Interval
  <2>2. h \in Bijection(1 .. f[x], B(x))
    <3>1. h \in [1 .. f[x] -> B(x)]
      OBVIOUS
    <3>2. \A p \in B(x) : p[2] \in 1 .. f[x] /\ h[p[2]] = p
      OBVIOUS
    <3>3. \A i, j \in 1 .. f[x] : h[i] = h[j] => i = j
      OBVIOUS
    <3> HIDE DEF h, B
    <3> QED
      BY <3>1, <3>2, <3>3 DEF Bijection, Injection, Surjection, IsInjective
  <2> HIDE DEF h, B
  <2> QED
    BY <2>1, <2>2, FS_Bijection DEF ExistsBijection
<1> HIDE DEF P, B
<1>4. ASSUME NEW T \in SUBSET S
      PROVE  IsFiniteSet(P(T))
  <2> DEFINE Good == {U \in SUBSET T : IsFiniteSet(P(U))}
  <2>1. {} \in Good
    BY <1>1, FS_EmptySet
  <2>2. ASSUME NEW U \in SUBSET T, U # {}, \A x \in U : U \ {x} \in Good
        PROVE  U \in Good
    <3>1. PICK x \in U : TRUE
      BY <2>2
    <3>2. IsFiniteSet(P(U \ {x})) /\ IsFiniteSet(B(x)) /\ P(U) = P(U \ {x}) \cup B(x)
      BY <1>2, <1>3, <2>2, <3>1
    <3> QED
      BY <3>2, FS_Union
  <2> HIDE DEF Good
  <2>3. T \in Good
    BY <2>1, <2>2, FiniteInduction, FS_Subset
  <2> QED
    BY <2>3 DEF Good
<1>5. g \in [SUBSET S -> Nat]
  BY <1>4, FS_CardinalityType
<1>6. g[{}] = 0
  BY <1>1, FS_EmptySet
<1>7. ASSUME NEW T \in SUBSET S, NEW x \in T
      PROVE  g[T] = f[x] + g[T \ {x}]
  <2>1. Cardinality(P(T)) = Cardinality(P(T \ {x})) + Cardinality(B(x))
                            - Cardinality(P(T \ {x}) \cap B(x))
    BY <1>2, <1>3, <1>4, FS_Union
  <2>2. Cardinality(P(T \ {x}) \cap B(x)) = 0 /\ Cardinality(B(x)) = f[x]
    BY <1>2, <1>3, FS_EmptySet
  <2>3. Cardinality(P(T \ {x})) \in Nat /\ f[x] \in Nat
    BY <1>4, FS_CardinalityType
  <2> QED
    BY <2>1, <2>2, <2>3
<1> HIDE DEF g
<1> QED
  BY <1>5, <1>6, <1>7 DEF AddsUp

\* A sum of naturals: nothing for no argument, and any argument can be split off.
LEMMA SumSteps ==
    ASSUME NEW S, IsFiniteSet(S), NEW f, Natural(f, S)
    PROVE  /\ SumFunctionOnSet(f, {}) = 0
           /\ \A T \in SUBSET S :
                 /\ SumFunctionOnSet(f, T) \in Nat
                 /\ \A x \in T : SumFunctionOnSet(f, T) = f[x] + SumFunctionOnSet(f, T \ {x})
<1>1. PICK g \in [SUBSET S -> Nat] : AddsUp(g, f, S)
  BY SumExists
<1>2. ASSUME NEW T \in SUBSET S
      PROVE  SumFunctionOnSet(f, T) = g[T]
  <2>1. IsFiniteSet(T)
    BY FS_Subset
  <2>2. AddsUp(g, f, T)
    BY <1>1 DEF AddsUp
  <2> QED
    BY <1>1, <2>1, <2>2, SumIs
<1> QED
  BY <1>1, <1>2 DEF AddsUp


\* A sum depends on what the function is on the set summed over only.
LEMMA SumAgrees ==
    ASSUME NEW S, IsFiniteSet(S), NEW f, Natural(f, S), NEW h, \A x \in S : h[x] = f[x]
    PROVE  SumFunctionOnSet(h, S) = SumFunctionOnSet(f, S)
<1>1. PICK g \in [SUBSET S -> Nat] : AddsUp(g, f, S)
  BY SumExists
<1>2. AddsUp(g, h, S)
  BY <1>1 DEF AddsUp
<1> QED
  BY <1>1, <1>2, SumIs

\* The sums of two parts add up.
LEMMA SumUnion ==
    ASSUME NEW S, IsFiniteSet(S), NEW f, Natural(f, S),
           NEW A \in SUBSET S, NEW B \in SUBSET S, A \cap B = {}
    PROVE  SumFunctionOnSet(f, A \cup B) = SumFunctionOnSet(f, A) + SumFunctionOnSet(f, B)
<1> DEFINE Sum(T) == SumFunctionOnSet(f, T)
           Good == {T \in SUBSET B : Sum(A \cup T) = Sum(A) + Sum(T)}
<1>1. /\ Sum({}) = 0
      /\ \A T \in SUBSET S : Sum(T) \in Nat
      /\ \A T \in SUBSET S : \A x \in T : Sum(T) = f[x] + Sum(T \ {x})
  BY SumSteps
<1> HIDE DEF Sum
<1>2. {} \in Good
  BY <1>1
<1>3. ASSUME NEW T \in SUBSET B, T # {}, \A x \in T : T \ {x} \in Good
      PROVE  T \in Good
  <2>1. PICK x \in T : Sum(A \cup (T \ {x})) = Sum(A) + Sum(T \ {x})
    BY <1>3
  <2>2. (A \cup T) \ {x} = A \cup (T \ {x}) /\ A \cup T \in SUBSET S /\ x \in A \cup T
    BY <2>1
  <2>3. Sum(A \cup T) = f[x] + Sum(A \cup (T \ {x})) /\ Sum(T) = f[x] + Sum(T \ {x})
    BY <1>1, <2>1, <2>2
  <2>4. f[x] \in Nat /\ Sum(A) \in Nat /\ Sum(T \ {x}) \in Nat
    BY <1>1, <2>1 DEF Natural
  <2> QED
    BY <2>1, <2>3, <2>4
<1> HIDE DEF Good
<1>4. B \in Good
  BY <1>2, <1>3, FiniteInduction, FS_Subset
<1> QED
  BY <1>4 DEF Good, Sum

\* h is, of every group of S that key makes, what f adds up to.
SumsGroups(h, f, S, K, key) ==
    /\ key \in [S -> K]
    /\ \A k \in K : h[k] = SumFunctionOnSet(f, {x \in S : key[x] = k})

\* Summing by group and then over the groups is summing.
LEMMA SumOfGroups ==
    ASSUME NEW S, IsFiniteSet(S), NEW f, Natural(f, S), NEW K, IsFiniteSet(K), NEW key, NEW h,
           SumsGroups(h, f, S, K, key)
    PROVE  SumFunctionOnSet(h, K) = SumFunctionOnSet(f, S)
<1> DEFINE In(U) == {x \in S : key[x] \in U}
           Of(k) == {x \in S : key[x] = k}
           g == [U \in SUBSET K |-> SumFunctionOnSet(f, In(U))]
<1>1. In({}) = {} /\ In(K) = S
  BY DEF SumsGroups
<1>2. \A U \in SUBSET K : \A k \in U : /\ In(U) = Of(k) \cup In(U \ {k})
                                       /\ Of(k) \cap In(U \ {k}) = {}
                                       /\ Of(k) \in SUBSET S /\ In(U \ {k}) \in SUBSET S
  OBVIOUS
<1>3. \A k \in K : h[k] = SumFunctionOnSet(f, Of(k))
  BY DEF SumsGroups
<1> HIDE DEF In, Of
<1>4. g[{}] = 0
  BY <1>1, SumSteps
<1>5. ASSUME NEW U \in SUBSET K, NEW k \in U
      PROVE  g[U] = h[k] + g[U \ {k}]
  <2>1. SumFunctionOnSet(f, In(U)) = SumFunctionOnSet(f, Of(k)) + SumFunctionOnSet(f, In(U \ {k}))
    BY <1>2, SumUnion
  <2> QED
    BY <1>3, <2>1
<1> HIDE DEF g
<1>6. AddsUp(g, h, K)
  BY <1>4, <1>5 DEF AddsUp
<1>7. SumFunctionOnSet(h, K) = g[K]
  BY <1>6, SumIs
<1> QED
  BY <1>1, <1>7 DEF g

\* Counting by group and then adding the counts is counting.
LEMMA CountOfGroups ==
    ASSUME NEW S, IsFiniteSet(S), NEW K, IsFiniteSet(K), NEW key \in [S -> K],
           NEW h, \A k \in K : h[k] = Cardinality({x \in S : key[x] = k})
    PROVE  SumFunctionOnSet(h, K) = Cardinality(S)
<1> DEFINE In(U) == {x \in S : key[x] \in U}
           Of(k) == {x \in S : key[x] = k}
           g == [U \in SUBSET K |-> Cardinality(In(U))]
<1>1. In({}) = {} /\ In(K) = S
  OBVIOUS
<1>2. \A U \in SUBSET K : \A k \in U : /\ In(U) = Of(k) \cup In(U \ {k})
                                       /\ Of(k) \cap In(U \ {k}) = {}
                                       /\ Of(k) \in SUBSET S /\ In(U \ {k}) \in SUBSET S
  OBVIOUS
<1>3. \A k \in K : h[k] = Cardinality(Of(k))
  OBVIOUS
<1> HIDE DEF In, Of
<1>4. g[{}] = 0
  BY <1>1, FS_EmptySet
<1>5. ASSUME NEW U \in SUBSET K, NEW k \in U
      PROVE  g[U] = h[k] + g[U \ {k}]
  <2>1. IsFiniteSet(Of(k)) /\ IsFiniteSet(In(U \ {k}))
    BY <1>2, FS_Subset
  <2>2. Cardinality(In(U)) = Cardinality(Of(k)) + Cardinality(In(U \ {k}))
                             - Cardinality(Of(k) \cap In(U \ {k}))
    BY <1>2, <2>1, FS_Union
  <2>3. Cardinality(Of(k) \cap In(U \ {k})) = 0
    BY <1>2, FS_EmptySet
  <2>4. Cardinality(Of(k)) \in Nat /\ Cardinality(In(U \ {k})) \in Nat
    BY <2>1, FS_CardinalityType
  <2> QED
    BY <1>3, <2>2, <2>3, <2>4
<1> HIDE DEF g
<1>6. AddsUp(g, h, K)
  BY <1>4, <1>5 DEF AddsUp
<1>7. SumFunctionOnSet(h, K) = g[K]
  BY <1>6, SumIs
<1> QED
  BY <1>1, <1>7 DEF g

\* A sum lies between as many times the least and the greatest summand.
LEMMA SumBounds ==
    ASSUME NEW S, IsFiniteSet(S), NEW f, Natural(f, S), NEW lo \in Nat, NEW hi \in Nat,
           \A x \in S : lo <= f[x] /\ f[x] <= hi
    PROVE  /\ Cardinality(S) * lo <= SumFunctionOnSet(f, S)
           /\ SumFunctionOnSet(f, S) <= Cardinality(S) * hi
<1> DEFINE Sum(T) == SumFunctionOnSet(f, T)
           Good == {T \in SUBSET S : /\ Cardinality(T) * lo <= Sum(T)
                                     /\ Sum(T) <= Cardinality(T) * hi}
<1>1. /\ Sum({}) = 0
      /\ \A T \in SUBSET S : Sum(T) \in Nat
      /\ \A T \in SUBSET S : \A x \in T : Sum(T) = f[x] + Sum(T \ {x})
  BY SumSteps
<1> HIDE DEF Sum
<1>2. {} \in Good
  BY <1>1, FS_EmptySet
<1>3. ASSUME NEW T \in SUBSET S, T # {}, \A x \in T : T \ {x} \in Good
      PROVE  T \in Good
  <2>1. PICK x \in T : /\ Cardinality(T \ {x}) * lo <= Sum(T \ {x})
                       /\ Sum(T \ {x}) <= Cardinality(T \ {x}) * hi
    BY <1>3
  <2>2. IsFiniteSet(T \ {x}) /\ x \notin T \ {x} /\ T = (T \ {x}) \cup {x}
    BY <2>1, FS_Subset
  <2>3. Cardinality(T \ {x}) \in Nat /\ Cardinality(T) = Cardinality(T \ {x}) + 1
    BY <2>2, FS_AddElement, FS_CardinalityType
  <2>4. Sum(T) = f[x] + Sum(T \ {x}) /\ Sum(T \ {x}) \in Nat
    BY <1>1, <2>1
  <2>5. f[x] \in Nat /\ lo <= f[x] /\ f[x] <= hi
    BY <2>1 DEF Natural
  <2>6. /\ (Cardinality(T \ {x}) + 1) * lo = Cardinality(T \ {x}) * lo + lo
        /\ (Cardinality(T \ {x}) + 1) * hi = Cardinality(T \ {x}) * hi + hi
        /\ Cardinality(T \ {x}) * lo \in Nat /\ Cardinality(T \ {x}) * hi \in Nat
    BY <2>3
  <2> QED
    BY <2>1, <2>3, <2>4, <2>5, <2>6
<1> HIDE DEF Good
<1>4. S \in Good
  BY <1>2, <1>3, FiniteInduction
<1> QED
  BY <1>4 DEF Good, Sum

\* Arguments that count for nothing may be left out.
LEMMA SumSupport ==
    ASSUME NEW S, IsFiniteSet(S), NEW f, Natural(f, S), NEW T \in SUBSET S,
           \A x \in S \ T : f[x] = 0
    PROVE  SumFunctionOnSet(f, S) = SumFunctionOnSet(f, T)
<1>1. S \ T \in SUBSET S /\ IsFiniteSet(S \ T) /\ T \cap (S \ T) = {} /\ T \cup (S \ T) = S
  BY FS_Difference
<1>2. SumFunctionOnSet(f, S \ T) = 0
  <2>1. Natural(f, S \ T) /\ \A x \in S \ T : 0 <= f[x] /\ f[x] <= 0
    BY DEF Natural
  <2>2. /\ Cardinality(S \ T) * 0 <= SumFunctionOnSet(f, S \ T)
        /\ SumFunctionOnSet(f, S \ T) <= Cardinality(S \ T) * 0
    BY <1>1, <2>1, SumBounds
  <2>3. SumFunctionOnSet(f, S \ T) \in Nat /\ Cardinality(S \ T) \in Nat
    BY <1>1, SumSteps, FS_CardinalityType
  <2> QED
    BY <2>2, <2>3
<1>3. SumFunctionOnSet(f, T \cup (S \ T)) = SumFunctionOnSet(f, T) + SumFunctionOnSet(f, S \ T)
  BY <1>1, SumUnion
<1>4. SumFunctionOnSet(f, T) \in Nat
  BY SumSteps
<1>5. SumFunctionOnSet(f, S) = SumFunctionOnSet(f, T \cup (S \ T))
  BY <1>1, Zenon
<1> QED
  BY <1>2, <1>3, <1>4, <1>5

\* The sum of a flag is the number of arguments that have it.
LEMMA SumOfFlags ==
    ASSUME NEW S, IsFiniteSet(S), NEW f, NEW T \in SUBSET S,
           \A x \in T : f[x] = 1, \A x \in S \ T : f[x] = 0
    PROVE  SumFunctionOnSet(f, S) = Cardinality(T)
<1>1. Natural(f, S) /\ Natural(f, T)
  BY DEF Natural
<1>2. IsFiniteSet(T) /\ Cardinality(T) \in Nat
  BY FS_Subset, FS_CardinalityType
<1>3. SumFunctionOnSet(f, S) = SumFunctionOnSet(f, T)
  BY <1>1, SumSupport
<1>4. \A x \in T : 1 <= f[x] /\ f[x] <= 1
  OBVIOUS
<1>5. /\ Cardinality(T) * 1 <= SumFunctionOnSet(f, T)
      /\ SumFunctionOnSet(f, T) <= Cardinality(T) * 1
  BY <1>1, <1>2, <1>4, SumBounds
<1>6. SumFunctionOnSet(f, T) \in Nat
  BY <1>1, <1>2, SumSteps
<1> QED
  BY <1>2, <1>3, <1>5, <1>6

\* An optional value, taken as 0 when there is none.
LEMMA SumOfOne == SumSet({}) = 0 /\ \A v \in Int : SumSet({v}) = v
<1>1. SumSet({}) = 0
  <2> DEFINE Rec(h) == [T \in SUBSET {} |-> IF T = {} THEN 0
                                            ELSE (CHOOSE x \in T : TRUE)
                                                 + h[T \ {CHOOSE x \in T : TRUE}]]
             iter == CHOOSE h : h = Rec(h)
  <2>1. [T \in SUBSET {} |-> 0] = Rec([T \in SUBSET {} |-> 0])
    OBVIOUS
  <2>2. iter = Rec(iter)
    BY <2>1
  <2>3. SumSet({}) = iter[{}]
    BY DEF SumSet, FoldSet, MapThenFoldSet
  <2> HIDE DEF iter
  <2> QED
    BY <2>2, <2>3
<1>2. ASSUME NEW v \in Int
      PROVE  SumSet({v}) = v
  <2> DEFINE Rec(h) == [T \in SUBSET {v} |-> IF T = {} THEN 0
                                             ELSE (CHOOSE x \in T : TRUE)
                                                  + h[T \ {CHOOSE x \in T : TRUE}]]
             iter == CHOOSE h : h = Rec(h)
             w == [T \in SUBSET {v} |-> IF T = {} THEN 0 ELSE v]
  <2>1. \A T \in SUBSET {v} : T # {} => /\ (CHOOSE x \in T : TRUE) = v
                                        /\ T \ {v} = {}
    OBVIOUS
  <2>2. w = Rec(w)
    <3> SUFFICES ASSUME NEW T \in SUBSET {v}
                 PROVE  w[T] = Rec(w)[T]
      OBVIOUS
    <3>1. T = {} \/ T = {v}
      OBVIOUS
    <3>2. w[{}] = 0 /\ w[{v}] = v
      OBVIOUS
    <3>3. CASE T = {}
      BY <3>2, <3>3
    <3>4. CASE T = {v}
      BY <2>1, <3>2, <3>4
    <3> QED
      BY <3>1, <3>3, <3>4
  <2>3. iter = Rec(iter)
    BY <2>2
  <2>4. SumSet({v}) = iter[{v}]
    BY DEF SumSet, FoldSet, MapThenFoldSet
  <2> HIDE DEF iter
  <2>5. iter[{v}] = v + iter[{}] /\ iter[{}] = 0
    BY <2>1, <2>3
  <2> QED
    BY <2>4, <2>5
<1> QED
  BY <1>1, <1>2


\* Numbers on a finite set have a greatest.
LEMMA Greatest ==
    ASSUME NEW S, IsFiniteSet(S), S # {}, NEW f, Natural(f, S)
    PROVE  \E x \in S : \A y \in S : f[y] <= f[x]
<1> DEFINE Good == {T \in SUBSET S : T = {} \/ \E x \in T : \A y \in T : f[y] <= f[x]}
<1>1. ASSUME NEW T \in SUBSET S, T # {}, \A x \in T : T \ {x} \in Good
      PROVE  T \in Good
  <2>1. PICK z \in T : T \ {z} \in Good
    BY <1>1
  <2>2. CASE T \ {z} = {}
    BY <2>1, <2>2 DEF Natural
  <2>3. ASSUME NEW x \in T \ {z}, \A y \in T \ {z} : f[y] <= f[x]
        PROVE  T \in Good
    <3>1. f[x] \in Nat /\ f[z] \in Nat /\ \A y \in T : f[y] \in Nat
      BY <2>1, <2>3 DEF Natural
    <3>2. CASE f[z] <= f[x]
      <4>1. \A y \in T : f[y] <= f[x]
        BY <2>3, <3>2
      <4> QED
        BY <4>1
    <3>3. CASE ~(f[z] <= f[x])
      <4>1. \A y \in T : f[y] <= f[z]
        BY <2>3, <3>1, <3>3
      <4> QED
        BY <2>1, <4>1
    <3> QED
      BY <3>2, <3>3
  <2> QED
    BY <2>1, <2>2, <2>3
<1>2. {} \in Good
  OBVIOUS
<1> HIDE DEF Good
<1>3. S \in Good
  BY <1>1, <1>2, FiniteInduction
<1> QED
  BY <1>3 DEF Good

\* When nothing in A exceeds anything in B, the mean over A does not exceed the
\* mean over B; both sides are multiplied out.
LEMMA MeansCompare ==
    ASSUME NEW A, IsFiniteSet(A), A # {}, NEW B, IsFiniteSet(B), NEW f,
           Natural(f, A), Natural(f, B), \A x \in A, y \in B : f[x] <= f[y]
    PROVE  SumFunctionOnSet(f, A) * Cardinality(B) <= SumFunctionOnSet(f, B) * Cardinality(A)
<1>1. PICK z \in A : \A x \in A : f[x] <= f[z]
  BY Greatest
<1> DEFINE a == Cardinality(A)
           b == Cardinality(B)
           M == f[z]
           sa == SumFunctionOnSet(f, A)
           sb == SumFunctionOnSet(f, B)
<1>2. a \in Nat /\ b \in Nat /\ M \in Nat /\ sa \in Nat /\ sb \in Nat
  BY <1>1, FS_CardinalityType, SumSteps DEF Natural
<1>3. \A x \in A : 0 <= f[x] /\ f[x] <= M
  BY <1>1 DEF Natural
<1>4. sa <= a * M
  BY <1>2, <1>3, SumBounds
<1>5. b * M <= sb
  <2>1. b = 0 \/ B # {}
    BY FS_EmptySet
  <2>2. CASE B # {}
    <3>1. PICK t \in B : \A y \in B : f[y] <= f[t]
      BY <2>2, Greatest
    <3>2. f[t] \in Nat /\ \A y \in B : M <= f[y] /\ f[y] <= f[t]
      BY <3>1, <1>1 DEF Natural
    <3> HIDE DEF M, b, sb
    <3> QED
      BY <1>2, <3>2, SumBounds DEF b, sb
  <2>3. CASE b = 0
    BY <1>2, <2>3
  <2> QED
    BY <2>1, <2>2, <2>3
<1> HIDE DEF a, b, M, sa, sb
<1>6. sa * b <= (a * M) * b /\ (b * M) * a <= sb * a
  <2>1. \A x, y, c \in Nat : x <= y => x * c <= y * c
    <3> SUFFICES ASSUME NEW x \in Nat, NEW y \in Nat, NEW c \in Nat, x <= y
                 PROVE  x * c <= y * c
      OBVIOUS
    <3>1. PICK d \in Nat : y = x + d
      <4>1. y - x \in Nat /\ y = x + (y - x)
        OBVIOUS
      <4> QED
        BY <4>1
    <3>2. y * c = x * c + d * c /\ d * c \in Nat /\ x * c \in Nat
      BY <3>1
    <3> QED
      BY <3>2
  <2>2. a * M \in Nat /\ b * M \in Nat
    BY <1>2
  <2> QED
    BY <1>2, <1>4, <1>5, <2>1, <2>2
<1>7. (a * M) * b = (b * M) * a /\ (a * M) * b \in Nat /\ sa * b \in Nat /\ sb * a \in Nat
  BY <1>2
<1>8. sa * b <= sb * a
  BY <1>6, <1>7
<1> QED
  BY <1>8 DEF a, b, sa, sb

-----------------------------------------------------------------------------

\* A finite set of numbers has a greatest and a least element.
LEMMA Extremes ==
    ASSUME NEW S \in SUBSET Int, IsFiniteSet(S), S # {}
    PROVE  /\ Max(S) \in S /\ \A x \in S : x <= Max(S)
           /\ Min(S) \in S /\ \A x \in S : Min(S) <= x
<1> DEFINE Good == {T \in SUBSET S :
                       T = {} \/ \E x, y \in T : \A z \in T : x <= z /\ z <= y}
<1>1. ASSUME NEW T \in SUBSET S, T # {}, \A x \in T : T \ {x} \in Good
      PROVE  T \in Good
  <2>1. PICK z \in T : T \ {z} \in Good
    BY <1>1
  <2>2. CASE T \ {z} = {}
    <3>1. \A x \in T : x = z /\ x \in Int
      BY <2>2
    <3> QED
      BY <2>1, <3>1
  <2>3. ASSUME NEW x \in T \ {z}, NEW y \in T \ {z}, \A w \in T \ {z} : x <= w /\ w <= y
        PROVE  T \in Good
    <3>1. z \in Int /\ x \in Int /\ y \in Int /\ \A w \in T : w \in Int
      BY <2>1
    <3>2. \E a \in {x, z} : a <= x /\ a <= z
      BY <3>1
    <3>3. \E b \in {y, z} : y <= b /\ z <= b
      BY <3>1
    <3>4. PICK a \in T : a <= x /\ a <= z
      BY <2>1, <3>2
    <3>5. PICK b \in T : y <= b /\ z <= b
      BY <2>1, <3>3
    <3>6. ASSUME NEW w \in T
          PROVE  a <= w /\ w <= b
      BY <2>3, <3>1, <3>4, <3>5
    <3> QED
      BY <3>6
  <2> QED
    BY <2>1, <2>2, <2>3
<1>2. {} \in Good
  OBVIOUS
<1> HIDE DEF Good
<1>3. S \in Good
  BY <1>1, <1>2, FiniteInduction
<1>4. PICK x \in S, y \in S : \A z \in S : x <= z /\ z <= y
  BY <1>3 DEF Good
<1>5. y \in S /\ \A z \in S : y >= z
  BY <1>4
<1> QED
  BY <1>4, <1>5 DEF Max, Min

\* Whole units that do not exceed a finer measure do not exceed it in the sum.
LEMMA SumScaled ==
    ASSUME NEW S, IsFiniteSet(S), NEW f, Natural(f, S), NEW h, Natural(h, S), NEW c \in Nat,
           \A x \in S : f[x] * c <= h[x]
    PROVE  SumFunctionOnSet(f, S) * c <= SumFunctionOnSet(h, S)
<1> DEFINE F(T) == SumFunctionOnSet(f, T)
           H(T) == SumFunctionOnSet(h, T)
           Good == {T \in SUBSET S : F(T) * c <= H(T)}
<1>1. /\ F({}) = 0 /\ H({}) = 0
      /\ \A T \in SUBSET S :
            /\ F(T) \in Nat /\ H(T) \in Nat
            /\ \A x \in T : F(T) = f[x] + F(T \ {x}) /\ H(T) = h[x] + H(T \ {x})
  BY SumSteps
<1> HIDE DEF F, H
<1>2. ASSUME NEW T \in SUBSET S, T # {}, \A x \in T : T \ {x} \in Good
      PROVE  T \in Good
  <2>1. PICK x \in T : F(T \ {x}) * c <= H(T \ {x})
    BY <1>2
  <2>2. /\ F(T) = f[x] + F(T \ {x}) /\ H(T) = h[x] + H(T \ {x})
        /\ F(T \ {x}) \in Nat /\ H(T \ {x}) \in Nat
    BY <1>1
  <2>3. f[x] \in Nat /\ h[x] \in Nat /\ f[x] * c <= h[x]
    BY DEF Natural
  <2>4. (f[x] + F(T \ {x})) * c = f[x] * c + F(T \ {x}) * c
    BY <2>2, <2>3
  <2>5. f[x] * c \in Nat /\ F(T \ {x}) * c \in Nat
    BY <2>2, <2>3
  <2> QED
    BY <2>1, <2>2, <2>3, <2>4, <2>5
<1>3. {} \in Good
  BY <1>1
<1> HIDE DEF Good
<1>4. S \in Good
  BY <1>2, <1>3, FiniteInduction
<1> QED
  BY <1>4 DEF Good, F, H

\* The lengths of intervals that do not overlap add up to the instants in them.
LEMMA LengthsOfApart ==
    ASSUME NEW K, IsFiniteSet(K), NEW lo, NEW hi, NEW h,
           \A k \in K : /\ lo[k] \in Int /\ hi[k] \in Int /\ lo[k] <= hi[k]
                        /\ h[k] = hi[k] - lo[k],
           \A k, l \in K : k # l => hi[k] <= lo[l] \/ hi[l] <= lo[k]
    PROVE  LET S == UNION {lo[k] + 1 .. hi[k] : k \in K}
           IN  IsFiniteSet(S) /\ SumFunctionOnSet(h, K) = Cardinality(S)
<1> DEFINE ticks == [k \in K |-> lo[k] + 1 .. hi[k]]
           all == {ticks[k] : k \in K}
           S == UNION all
           key == [t \in S |-> CHOOSE k \in K : t \in ticks[k]]
<1>1. \A k \in K : /\ IsFiniteSet(ticks[k]) /\ Cardinality(ticks[k]) = hi[k] - lo[k]
  <2>1. ASSUME NEW k \in K
        PROVE  IsFiniteSet(ticks[k]) /\ Cardinality(ticks[k]) = hi[k] - lo[k]
    <3>1. lo[k] \in Int /\ hi[k] \in Int /\ lo[k] <= hi[k] /\ lo[k] + 1 \in Int
      OBVIOUS
    <3>2. /\ IsFiniteSet(lo[k] + 1 .. hi[k])
          /\ Cardinality(lo[k] + 1 .. hi[k])
             = IF lo[k] + 1 > hi[k] THEN 0 ELSE hi[k] - (lo[k] + 1) + 1
      BY <3>1, FS_Interval
    <3> QED
      BY <3>1, <3>2
  <2> QED
    BY <2>1
<1>2. IsFiniteSet(all)
  <2>1. ticks \in Surjection(K, all)
    BY DEF Surjection
  <2> QED
    BY <2>1, FS_Surjection
<1>3. IsFiniteSet(S)
  BY <1>1, <1>2, FS_UNION
<1>4. \A t \in S : key[t] \in K /\ t \in ticks[key[t]]
  OBVIOUS
<1>5. ASSUME NEW k \in K, NEW l \in K, NEW t \in ticks[k], t \in ticks[l]
      PROVE  k = l
  <2>1. lo[k] < t /\ t <= hi[k] /\ lo[l] < t /\ t <= hi[l] /\ t \in Int
    BY <1>5
  <2>2. ~(hi[k] <= lo[l]) /\ ~(hi[l] <= lo[k])
    BY <2>1
  <2> QED
    BY <2>2
<1>6. ASSUME NEW k \in K
      PROVE  h[k] = Cardinality({t \in S : key[t] = k})
  <2>1. ticks[k] \subseteq S
    OBVIOUS
  <2> HIDE DEF key, ticks, S
  <2>2. {t \in S : key[t] = k} = ticks[k]
    BY <1>4, <1>5, <2>1
  <2> QED
    BY <1>1, <2>2
<1>7. key \in [S -> K]
  BY <1>4
<1>8. S = UNION {lo[k] + 1 .. hi[k] : k \in K}
  OBVIOUS
<1> HIDE DEF key, ticks, all, S
<1>9. SumFunctionOnSet(h, K) = Cardinality(S)
  BY <1>3, <1>6, <1>7, CountOfGroups
<1> QED
  BY <1>3, <1>8, <1>9

=============================================================================
