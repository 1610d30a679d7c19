------------------------------- MODULE SumFacts -------------------------------
(***************************************************************************)
(* Facts about SumFunctionOnSet, the sum of a function's values on a       *)
(* finite set: it is the base on the empty set, it changes by one value    *)
(* with each element, in whatever order they are taken, and it grows with  *)
(* the values and with the set. And about numbers: some have a least one,  *)
(* and counting up reaches every one.                                      *)
(***************************************************************************)
EXTENDS Integers, FiniteSets, Functions, FiniteSetTheorems, TLAPS

(* Induction over the elements of a finite set, as a set of its subsets *)
LEMMA GrowToAll ==
  ASSUME NEW S, IsFiniteSet(S), NEW Good \in SUBSET SUBSET S, {} \in Good,
         \A T \in Good : \A x \in S \ T : T \cup {x} \in Good
  PROVE  \A T \in SUBSET S : T \in Good
<1> DEFINE R == StrictSubsetOrdering(S)
           Bad == (SUBSET S) \ Good
<1>1. IsWellFoundedOn(R, SUBSET S)
  BY FS_StrictSubsetOrderingWellFounded, FS_FiniteSubsetsOfFinite
<1>2. SUFFICES ASSUME Bad # {} PROVE FALSE
  OBVIOUS
<1>3. PICK T \in Bad : \A U \in Bad : ~ (<<U, T>> \in R)
  <2>1. Bad \subseteq SUBSET S
    OBVIOUS
  <2> HIDE DEF R, Bad
  <2> QED
    BY <1>1, <1>2, <2>1, WFMin
<1>4. PICK x \in T : TRUE
  OBVIOUS
<1>5. <<T \ {x}, T>> \in R
  BY DEF StrictSubsetOrdering
<1>6. T \ {x} \in Good
  BY <1>3, <1>5
<1>7. (T \ {x}) \cup {x} = T /\ x \in S \ (T \ {x})
  OBVIOUS
<1> QED
  BY <1>6, <1>7

(* g gives the sum of f over every subset of S. *)
Sums(g, f, S) ==
  /\ g \in [SUBSET S -> Int]
  /\ g[{}] = 0
  /\ \A T \in SUBSET S : \A x \in S \ T : g[T \cup {x}] = f[x] + g[T]

LEMMA SumsExist ==
  ASSUME NEW S, IsFiniteSet(S), NEW f, \A x \in S : f[x] \in Int
  PROVE  \E g : Sums(g, f, S)
<1> DEFINE Good == {T \in SUBSET S : \E g : Sums(g, f, T)}
<1>1. {} \in Good
  <2>1. Sums([T \in SUBSET {} |-> 0], f, {})
    BY DEF Sums
  <2> QED
    BY <2>1
<1>2. ASSUME NEW T \in Good, NEW x \in S \ T
      PROVE  T \cup {x} \in Good
  <2>1. PICK g : Sums(g, f, T)
    OBVIOUS
  <2> DEFINE h == [U \in SUBSET (T \cup {x}) |-> IF x \in U THEN f[x] + g[U \ {x}] ELSE g[U]]
  <2>2. f[x] \in Int /\ (\A y \in T : f[y] \in Int) /\ x \notin T /\ g \in [SUBSET T -> Int]
    BY <2>1 DEF Sums
  <2>3. h \in [SUBSET (T \cup {x}) -> Int] /\ h[{}] = 0
    <3>1. \A U \in SUBSET (T \cup {x}) : U \ {x} \in SUBSET T /\ (x \notin U => U \in SUBSET T)
      OBVIOUS
    <3>2. g[{}] = 0
      BY <2>1 DEF Sums
    <3> QED
      BY <3>1, <3>2, <2>2
  <2>4. ASSUME NEW U \in SUBSET (T \cup {x}), NEW y \in (T \cup {x}) \ U
        PROVE  h[U \cup {y}] = f[y] + h[U]
    <3>0. /\ h[U \cup {y}] = IF x \in U \cup {y} THEN f[x] + g[(U \cup {y}) \ {x}] ELSE g[U \cup {y}]
          /\ h[U] = IF x \in U THEN f[x] + g[U \ {x}] ELSE g[U]
      OBVIOUS
    <3> HIDE DEF h
    <3>1. CASE y = x
      <4>1. (U \cup {y}) \ {x} = U /\ x \notin U
        BY <3>1
      <4> QED
        BY <3>0, <3>1, <4>1
    <3>2. CASE y # x /\ x \notin U
      <4>1. U \in SUBSET T /\ y \in T \ U /\ x \notin U \cup {y}
        BY <3>2
      <4> QED
        BY <3>0, <3>2, <4>1, <2>1 DEF Sums
    <3>3. CASE y # x /\ x \in U
      <4> DEFINE V == U \ {x}
      <4>1. V \in SUBSET T /\ y \in T \ V /\ x \in U \cup {y} /\ (U \cup {y}) \ {x} = V \cup {y}
        BY <3>3
      <4>2. g[V \cup {y}] = f[y] + g[V] /\ g[V] \in Int /\ f[y] \in Int
        BY <4>1, <2>1, <2>2 DEF Sums
      <4>3. h[U \cup {y}] = f[x] + g[V \cup {y}] /\ h[U] = f[x] + g[V]
        BY <3>0, <3>3, <4>1
      <4> QED
        BY <4>2, <4>3, <2>2
    <3> QED
      BY <3>1, <3>2, <3>3
  <2>5. Sums(h, f, T \cup {x})
    BY <2>3, <2>4 DEF Sums
  <2>6. T \cup {x} \in SUBSET S
    OBVIOUS
  <2> QED
    BY <2>5, <2>6
<1>3. S \in Good
  <2>1. Good \in SUBSET SUBSET S
    OBVIOUS
  <2> HIDE DEF Good
  <2> QED
    BY <1>1, <1>2, <2>1, GrowToAll
<1> QED
  BY <1>3

(* What the recursion of the library says, and that it has one solution *)
Unrolls(h, f, S) ==
  h = [s \in SUBSET S |-> IF s = {} THEN 0
                          ELSE LET x == CHOOSE x \in s : TRUE IN f[x] + h[s \ {x}]]

LEMMA SumsUnroll ==
  ASSUME NEW S, NEW f, NEW g, Sums(g, f, S)
  PROVE  Unrolls(g, f, S)
<1>1. ASSUME NEW s \in SUBSET S, s # {}
      PROVE  g[s] = LET x == CHOOSE x \in s : TRUE IN f[x] + g[s \ {x}]
  <2> DEFINE x == CHOOSE x \in s : TRUE
  <2>1. x \in s
    BY <1>1
  <2> HIDE DEF x
  <2>2. s \ {x} \in SUBSET S /\ x \in S \ (s \ {x}) /\ (s \ {x}) \cup {x} = s
    BY <2>1
  <2>3. g[s] = f[x] + g[s \ {x}]
    BY <2>2 DEF Sums
  <2> QED
    BY <2>3 DEF x
<1>2. g \in [SUBSET S -> Int] /\ g[{}] = 0
  BY DEF Sums
<1> QED
  BY <1>1, <1>2 DEF Unrolls

LEMMA UnrollsOnce ==
  ASSUME NEW S, IsFiniteSet(S), NEW f, NEW g, NEW h, Unrolls(g, f, S), Unrolls(h, f, S)
  PROVE  \A T \in SUBSET S : g[T] = h[T]
<1> DEFINE R == StrictSubsetOrdering(S)
           Bad == {T \in SUBSET S : g[T] # h[T]}
<1>1. IsWellFoundedOn(R, SUBSET S)
  BY FS_StrictSubsetOrderingWellFounded, FS_FiniteSubsetsOfFinite
<1>2. SUFFICES ASSUME Bad # {} PROVE FALSE
  OBVIOUS
<1>3. PICK T \in Bad : \A U \in Bad : ~ (<<U, T>> \in R)
  <2>1. Bad \subseteq SUBSET S
    OBVIOUS
  <2> HIDE DEF R, Bad
  <2> QED
    BY <1>1, <1>2, <2>1, WFMin
<1>4. T \in SUBSET S /\ g[T] # h[T]
  BY <1>3
<1>5. T # {}
  BY <1>4 DEF Unrolls
<1> DEFINE x == CHOOSE x \in T : TRUE
<1>6. x \in T
  BY <1>5
<1>7. g[T] = f[x] + g[T \ {x}] /\ h[T] = f[x] + h[T \ {x}]
  BY <1>4, <1>5 DEF Unrolls
<1> HIDE DEF x
<1>8. T \ {x} \in SUBSET S /\ <<T \ {x}, T>> \in R
  BY <1>4, <1>6 DEF StrictSubsetOrdering
<1>9. g[T \ {x}] = h[T \ {x}]
  BY <1>3, <1>8
<1> QED
  BY <1>4, <1>7, <1>9

LEMMA SumIs ==
  ASSUME NEW S, IsFiniteSet(S), NEW f, NEW g, Sums(g, f, S)
  PROVE  SumFunctionOnSet(f, S) = g[S]
<1> DEFINE iter == CHOOSE h : Unrolls(h, f, S)
<1>1. Unrolls(g, f, S)
  BY SumsUnroll
<1>2. Unrolls(iter, f, S)
  BY <1>1
<1>3. iter[S] = g[S]
  <2> HIDE DEF iter
  <2>1. S \in SUBSET S
    OBVIOUS
  <2> QED
    BY <1>1, <1>2, <2>1, UnrollsOnce
<1>4. SumFunctionOnSet(f, S) = iter[S]
  BY DEF SumFunctionOnSet, FoldFunctionOnSet, MapThenFoldSet, Unrolls
<1> QED
  BY <1>3, <1>4

-----------------------------------------------------------------------------
(* The sum is built up by one element at a time, whichever comes next.       *)
THEOREM SumOfNone ==
  ASSUME NEW f
  PROVE  SumFunctionOnSet(f, {}) = 0
<1>1. PICK g : Sums(g, f, {})
  BY SumsExist, FS_EmptySet
<1> QED
  BY <1>1, SumIs, FS_EmptySet DEF Sums

THEOREM SumGrows ==
  ASSUME NEW S, IsFiniteSet(S), NEW f, \A x \in S : f[x] \in Int,
         NEW T \in SUBSET S, NEW y \in S \ T
  PROVE  /\ SumFunctionOnSet(f, T) \in Int
         /\ SumFunctionOnSet(f, T \cup {y}) = f[y] + SumFunctionOnSet(f, T)
<1>1. PICK g : Sums(g, f, S)
  BY SumsExist
<1>2. ASSUME NEW U \in SUBSET S
      PROVE  SumFunctionOnSet(f, U) = g[U] /\ g[U] \in Int
  <2> DEFINE h == [V \in SUBSET U |-> g[V]]
  <2>1. Sums(h, f, U)
    <3>1. \A V \in SUBSET U : V \in SUBSET S /\ h[V] = g[V] /\ g[V] \in Int
      BY <1>1 DEF Sums
    <3>2. \A V \in SUBSET U : \A x \in U \ V : V \cup {x} \in SUBSET U /\ x \in S \ V
      OBVIOUS
    <3>3. h[{}] = 0 /\ h \in [SUBSET U -> Int]
      BY <1>1, <3>1 DEF Sums
    <3>4. \A V \in SUBSET U : \A x \in U \ V : h[V \cup {x}] = f[x] + h[V]
      BY <1>1, <3>1, <3>2 DEF Sums
    <3> QED
      BY <3>3, <3>4 DEF Sums
  <2>2. IsFiniteSet(U)
    BY FS_Subset
  <2>3. SumFunctionOnSet(f, U) = h[U]
    <3> HIDE DEF h
    <3> QED
      BY <2>1, <2>2, SumIs
  <2> QED
    BY <2>3, <1>1 DEF Sums
<1>3. T \cup {y} \in SUBSET S
  OBVIOUS
<1> QED
  BY <1>1, <1>2, <1>3 DEF Sums

THEOREM SumIsInt ==
  ASSUME NEW S, IsFiniteSet(S), NEW f, \A x \in S : f[x] \in Int
  PROVE  SumFunctionOnSet(f, S) \in Int
<1>1. CASE S = {}
  BY <1>1, SumOfNone
<1>2. CASE S # {}
  <2>1. PICK y \in S : TRUE
    BY <1>2
  <2> DEFINE T == S \ {y}
  <2>2. T \in SUBSET S /\ y \in S \ T /\ T \cup {y} = S /\ f[y] \in Int
    BY <2>1
  <2> HIDE DEF T
  <2> QED
    BY <2>2, SumGrows
<1> QED
  BY <1>1, <1>2

(* The sum grows with the values. *)
THEOREM SumGrowsWith ==
  ASSUME NEW S, IsFiniteSet(S), NEW f, NEW g,
         \A x \in S : f[x] \in Int /\ g[x] \in Int /\ f[x] <= g[x]
  PROVE  SumFunctionOnSet(f, S) <= SumFunctionOnSet(g, S)
<1> DEFINE F(T) == SumFunctionOnSet(f, T)
           G(T) == SumFunctionOnSet(g, T)
           Good == {T \in SUBSET S : F(T) <= G(T)}
<1>1. {} \in Good
  BY SumOfNone
<1>2. ASSUME NEW T \in Good, NEW y \in S \ T
      PROVE  T \cup {y} \in Good
  <2>1. /\ F(T) \in Int /\ F(T \cup {y}) = f[y] + F(T)
        /\ G(T) \in Int /\ G(T \cup {y}) = g[y] + G(T)
    BY SumGrows
  <2>2. F(T) <= G(T) /\ f[y] \in Int /\ g[y] \in Int /\ f[y] <= g[y]
    OBVIOUS
  <2> HIDE DEF F, G
  <2> QED
    BY <2>1, <2>2
<1>3. S \in SUBSET S /\ Good \in SUBSET SUBSET S
  OBVIOUS
<1>4. S \in Good
  <2> HIDE DEF Good
  <2> QED
    BY <1>1, <1>2, <1>3, GrowToAll
<1> QED
  BY <1>4

(* The sum changes with one value by the difference. *)
THEOREM SumOfSame ==
  ASSUME NEW S, IsFiniteSet(S), NEW f, NEW g, \A x \in S : f[x] \in Int /\ f[x] = g[x]
  PROVE  SumFunctionOnSet(f, S) = SumFunctionOnSet(g, S)
<1>1. /\ SumFunctionOnSet(f, S) <= SumFunctionOnSet(g, S)
      /\ SumFunctionOnSet(g, S) <= SumFunctionOnSet(f, S)
      /\ SumFunctionOnSet(f, S) \in Int /\ SumFunctionOnSet(g, S) \in Int
  BY SumGrowsWith, SumIsInt
<1> QED
  BY <1>1

THEOREM SumChanges ==
  ASSUME NEW S, IsFiniteSet(S), NEW f, NEW g, NEW y \in S,
         \A x \in S : f[x] \in Int /\ g[x] \in Int /\ (x # y => f[x] = g[x])
  PROVE  SumFunctionOnSet(g, S) = SumFunctionOnSet(f, S) + g[y] - f[y]
<1> DEFINE T == S \ {y}
<1>1. T \in SUBSET S /\ y \in S \ T /\ T \cup {y} = S /\ f[y] \in Int /\ g[y] \in Int
  OBVIOUS
<1>2. SumFunctionOnSet(f, T) = SumFunctionOnSet(g, T)
  <2>1. IsFiniteSet(T) /\ \A x \in T : f[x] \in Int /\ f[x] = g[x]
    BY FS_Subset
  <2> HIDE DEF T
  <2> QED
    BY <2>1, SumOfSame
<1> HIDE DEF T
<1>3. /\ SumFunctionOnSet(f, T) \in Int
      /\ SumFunctionOnSet(f, S) = f[y] + SumFunctionOnSet(f, T)
      /\ SumFunctionOnSet(g, S) = g[y] + SumFunctionOnSet(g, T)
  BY <1>1, SumGrows
<1> QED
  BY <1>1, <1>2, <1>3

(* Values that are not negative sum up to no less on the larger set. *)
THEOREM SumOfMore ==
  ASSUME NEW S, IsFiniteSet(S), NEW f, \A x \in S : f[x] \in Nat, NEW T \in SUBSET S
  PROVE  /\ SumFunctionOnSet(f, T) \in Nat /\ SumFunctionOnSet(f, S) \in Nat
         /\ SumFunctionOnSet(f, T) <= SumFunctionOnSet(f, S)
<1> DEFINE F(U) == SumFunctionOnSet(f, U)
           Good == {U \in SUBSET S : F(U) \in Nat /\ F(U \cap T) \in Nat /\ F(U \cap T) <= F(U)}
<1>1. {} \in Good
  <2>1. {} \cap T = {} /\ F({}) = 0
    BY SumOfNone
  <2> HIDE DEF F
  <2> QED
    BY <2>1
<1>2. ASSUME NEW U \in Good, NEW y \in S \ U
      PROVE  U \cup {y} \in Good
  <2>1. F(U) \in Nat /\ F(U \cap T) \in Nat /\ F(U \cap T) <= F(U) /\ f[y] \in Nat
    OBVIOUS
  <2>2. F(U \cup {y}) = f[y] + F(U)
    BY SumGrows
  <2>3. F((U \cap T) \cup {y}) = f[y] + F(U \cap T)
    <3>1. U \cap T \in SUBSET S /\ y \in S \ (U \cap T)
      OBVIOUS
    <3> QED
      BY <3>1, SumGrows
  <2>4. (U \cup {y}) \cap T = (U \cap T) \cup {y} \/ (U \cup {y}) \cap T = U \cap T
    OBVIOUS
  <2>5. F((U \cup {y}) \cap T) = f[y] + F(U \cap T) \/ F((U \cup {y}) \cap T) = F(U \cap T)
    BY <2>3, <2>4
  <2> HIDE DEF F
  <2>6. /\ F(U \cup {y}) \in Nat /\ F((U \cup {y}) \cap T) \in Nat
        /\ F((U \cup {y}) \cap T) <= F(U \cup {y})
    BY <2>1, <2>2, <2>5
  <2>7. U \cup {y} \in SUBSET S
    OBVIOUS
  <2> QED
    BY <2>6, <2>7
<1>3. S \in SUBSET S /\ Good \in SUBSET SUBSET S /\ S \cap T = T
  OBVIOUS
<1>4. S \in Good
  <2> HIDE DEF Good
  <2> QED
    BY <1>1, <1>2, <1>3, GrowToAll
<1> QED
  BY <1>3, <1>4

(* Where g is not above f but by k on the elements of C, its sum is not     *)
(* above that of f but by k for each of them.                               *)
THEOREM SumWithin ==
  ASSUME NEW S, IsFiniteSet(S), NEW f, NEW g, NEW C \in SUBSET S, NEW k \in Nat,
         \A x \in S : /\ f[x] \in Int /\ g[x] \in Int
                      /\ g[x] <= f[x] + (IF x \in C THEN k ELSE 0)
  PROVE  SumFunctionOnSet(g, S) <= SumFunctionOnSet(f, S) + k * Cardinality(C)
<1> DEFINE F(T) == SumFunctionOnSet(f, T)
           G(T) == SumFunctionOnSet(g, T)
           N(T) == Cardinality(T \cap C)
           Good == {T \in SUBSET S : G(T) <= F(T) + k * N(T)}
<1>0. \A T \in SUBSET S : /\ F(T) \in Int /\ G(T) \in Int
                          /\ N(T) \in Nat /\ IsFiniteSet(T \cap C)
  <2> TAKE T \in SUBSET S
  <2>1. IsFiniteSet(T) /\ IsFiniteSet(T \cap C)
    BY FS_Subset
  <2>2. F(T) \in Int /\ G(T) \in Int
    BY <2>1, SumIsInt
  <2> QED
    BY <2>1, <2>2, FS_CardinalityType
<1>1. {} \in Good
  <2>1. F({}) = 0 /\ G({}) = 0
    BY SumOfNone
  <2>2. N({}) = 0
    <3>1. {} \cap C = {}
      OBVIOUS
    <3> QED
      BY <3>1, FS_EmptySet
  <2> HIDE DEF F, G, N
  <2>3. G({}) <= F({}) + k * N({})
    BY <2>1, <2>2
  <2> QED
    BY <2>3
<1>2. ASSUME NEW T \in Good, NEW y \in S \ T
      PROVE  T \cup {y} \in Good
  <2>1. /\ G(T) <= F(T) + k * N(T) /\ f[y] \in Int /\ g[y] \in Int
        /\ g[y] <= f[y] + (IF y \in C THEN k ELSE 0)
        /\ T \in SUBSET S /\ T \cup {y} \in SUBSET S
    OBVIOUS
  <2>2. F(T \cup {y}) = f[y] + F(T) /\ G(T \cup {y}) = g[y] + G(T)
    BY <2>1, SumGrows
  <2>3. N(T \cup {y}) = IF y \in C THEN N(T) + 1 ELSE N(T)
    <3>1. CASE y \in C
      <4>1. (T \cup {y}) \cap C = (T \cap C) \cup {y} /\ y \notin T \cap C
        BY <3>1
      <4> QED
        BY <1>0, <2>1, <3>1, <4>1, FS_AddElement
    <3>2. CASE y \notin C
      <4>1. (T \cup {y}) \cap C = T \cap C
        BY <3>2
      <4> QED
        BY <3>2, <4>1
    <3> QED
      BY <3>1, <3>2
  <2>4. N(T) \in Nat /\ F(T) \in Int /\ G(T) \in Int
    BY <1>0, <2>1
  <2> HIDE DEF F, G, N
  <2>5. k * N(T \cup {y}) = k * N(T) + (IF y \in C THEN k ELSE 0) /\ k * N(T) \in Int
    BY <2>3, <2>4
  <2>6. G(T \cup {y}) <= F(T \cup {y}) + k * N(T \cup {y})
    BY <2>1, <2>2, <2>4, <2>5
  <2> QED
    BY <2>1, <2>6
<1>3. S \in SUBSET S /\ Good \in SUBSET SUBSET S /\ S \cap C = C
  OBVIOUS
<1>4. S \in Good
  <2> HIDE DEF Good
  <2> QED
    BY <1>1, <1>2, <1>3, GrowToAll
<1> QED
  BY <1>3, <1>4

(* Nothing but noughts sums up to nought. *)
THEOREM SumOfNoughts ==
  ASSUME NEW S, IsFiniteSet(S), NEW f, \A x \in S : f[x] = 0
  PROVE  SumFunctionOnSet(f, S) = 0
<1> DEFINE Good == {T \in SUBSET S : SumFunctionOnSet(f, T) = 0}
<1>1. {} \in Good
  BY SumOfNone
<1>2. ASSUME NEW T \in Good, NEW y \in S \ T
      PROVE  T \cup {y} \in Good
  <2>1. SumFunctionOnSet(f, T \cup {y}) = f[y] + SumFunctionOnSet(f, T)
    BY SumGrows
  <2> QED
    BY <2>1
<1>3. S \in SUBSET S /\ Good \in SUBSET SUBSET S
  OBVIOUS
<1>4. S \in Good
  <2> HIDE DEF Good
  <2> QED
    BY <1>1, <1>2, <1>3, GrowToAll
<1> QED
  BY <1>4

-----------------------------------------------------------------------------
(* Of some numbers one is the least.                                       *)
LEMMA SomeLeast ==
  ASSUME NEW S \in SUBSET Nat, S # {}
  PROVE  \E n \in S : \A m \in S : n <= m
<1>1. PICK top \in S : top \in Nat
  OBVIOUS
<1> DEFINE Upto(k) == S \intersect (0..k)
           Up == {Upto(k) : k \in S \intersect (0..top)}
           R == StrictSubsetOrdering(0..top)
<1>2. IsWellFoundedOn(R, SUBSET (0..top))
  <2>1. IsFiniteSet(0..top)
    BY <1>1, FS_Interval
  <2>2. FiniteSubsetsOf(0..top) = SUBSET (0..top)
    BY <2>1, FS_FiniteSubsetsOfFinite
  <2> QED
    BY <2>2, FS_StrictSubsetOrderingWellFounded
<1>3. Up \subseteq SUBSET (0..top) /\ Up # {}
  <2>1. ASSUME NEW k \in S \intersect (0..top) PROVE Upto(k) \subseteq 0..top
    BY <1>1
  <2>2. top \in S \intersect (0..top)
    BY <1>1
  <2>3. Up \subseteq SUBSET (0..top)
    BY <2>1
  <2>4. Upto(top) \in Up
    BY <2>2
  <2> HIDE DEF Up
  <2> QED
    BY <2>3, <2>4
<1>4. PICK T \in Up : \A U \in Up : ~ (<<U, T>> \in R)
  <2> HIDE DEF R, Up
  <2> QED
    BY <1>2, <1>3, WFMin
<1>5. PICK n \in S \intersect (0..top) : T = Upto(n)
  BY <1>4
<1>6. ASSUME NEW m \in S, m < n PROVE FALSE
  <2>1. Upto(m) \in Up
    BY <1>1, <1>5, <1>6
  <2>2. Upto(m) \subseteq Upto(n) /\ n \in Upto(n) /\ n \notin Upto(m)
    <3>1. m \in Nat /\ n \in Nat /\ n \in S
      BY <1>5, <1>6
    <3>2. \A k \in 0..m : k \in 0..n /\ k # n
      BY <1>6, <3>1
    <3>3. n \in 0..n
      BY <3>1
    <3> QED
      BY <3>1, <3>2, <3>3
  <2>3. <<Upto(m), T>> \in R
    <3>1. /\ Upto(m) \in SUBSET (0..top) /\ T \in SUBSET (0..top)
          /\ Upto(m) \subseteq T /\ Upto(m) # T
      <4> HIDE DEF Upto, Up
      <4> QED
        BY <1>3, <1>5, <2>1, <2>2
    <3> HIDE DEF Upto, Up
    <3> QED
      BY <3>1 DEF StrictSubsetOrdering
  <2> QED
    BY <1>4, <2>1, <2>3
<1> QED
  BY <1>5, <1>6

(* Counting up to n.                                                       *)
LEMMA CountUp ==
  ASSUME NEW n \in Nat, NEW Good \in SUBSET (1..n), n > 0 => 1 \in Good,
         \A k \in Good : k < n => k + 1 \in Good
  PROVE  Good = 1..n
<1> DEFINE Bad == (1..n) \ Good
<1>1. SUFFICES ASSUME Bad # {} PROVE FALSE
  OBVIOUS
<1>2. PICK k \in Bad : \A m \in Bad : k <= m
  <2>1. Bad \in SUBSET Nat
    OBVIOUS
  <2> HIDE DEF Bad
  <2> QED
    BY <1>1, <2>1, SomeLeast
<1>3. k \in 1..n /\ k # 1 /\ k \notin Good
  OBVIOUS
<1>4. k - 1 \in 1..n /\ k - 1 < n /\ (k - 1) + 1 = k /\ ~(k <= k - 1)
  BY <1>3
<1>5. k - 1 \in Good
  BY <1>2, <1>4
<1> QED
  BY <1>3, <1>4, <1>5

=============================================================================
