----------------------------- MODULE SumTheorems -----------------------------
(***************************************************************************)
(* What SumFunction returns: the facts about sums over finite sets that    *)
(* the budgets of variopt rest on (the limits reserved for a batch, the    *)
(* calls its episodes made, the requests that sessions have in flight).    *)
(* SumFunction folds in an order that nobody chooses; the facts say that   *)
(* the order does not matter.  Where a proof needs induction, it takes a   *)
(* smallest set of those for which the fact would fail.                    *)
(***************************************************************************)
EXTENDS Integers, Functions, FiniteSetTheorems, TLAPS

(* Among subsets of a finite set there is one that contains no other. *)
LEMMA SmallestSet ==
  ASSUME NEW S, IsFiniteSet(S), NEW B, B \subseteq SUBSET S, B # {}
  PROVE  \E T \in B : \A U \in B : U \subseteq T => U = T
<1>1. FiniteSubsetsOf(S) = SUBSET S
  BY FS_FiniteSubsetsOfFinite
<1>2. PICK T \in B : \A U \in B : <<U, T>> \notin StrictSubsetOrdering(S)
  BY <1>1, FS_StrictSubsetOrderingWellFounded, WFMin
<1>3. ASSUME NEW U \in B, U \subseteq T, U # T
      PROVE  FALSE
  <2>1. <<U, T>> \in StrictSubsetOrdering(S)
    BY <1>3 DEF StrictSubsetOrdering
  <2> QED BY <1>2, <2>1
<1>4. \A U \in B : U \subseteq T => U = T
  BY <1>3
<1> QED BY <1>4

(* A set of natural numbers that has 0 and with each number the next has all. *)
LEMMA AllNaturals ==
  ASSUME NEW N, 0 \in N, \A n \in Nat : n \in N => n + 1 \in N
  PROVE  \A n \in Nat : n \in N
<1> SUFFICES ASSUME NEW n \in Nat, n \notin N
             PROVE  FALSE
  OBVIOUS
<1> DEFINE B == {T \in SUBSET (1..n) : \E m \in Nat : T = 1..m /\ m \notin N}
<1>1. IsFiniteSet(1..n)
  BY FS_Interval
<1>2. 1..n \in B
  OBVIOUS
<1>3. PICK T \in B : \A U \in B : U \subseteq T => U = T
  <2> DEFINE I == 1..n
  <2>1. IsFiniteSet(I) /\ B \subseteq SUBSET I /\ B # {}
    BY <1>1, <1>2
  <2> HIDE DEF B, I
  <2> QED BY <2>1, SmallestSet
<1>4. PICK m \in Nat : T = 1..m /\ m \notin N
  BY <1>3
<1>5. m # 0 /\ m - 1 \in Nat
  BY <1>4
<1>6. m - 1 \notin N
  <2>1. (m - 1) + 1 = m
    OBVIOUS
  <2> QED BY <1>4, <1>5, <2>1
<1>7. 1..(m - 1) \in B
  BY <1>3, <1>4, <1>5, <1>6, SMTT(20)
<1>8. 1..(m - 1) \subseteq T /\ m \in T /\ m \notin 1..(m - 1)
  BY <1>4, <1>5
<1> QED BY <1>3, <1>7, <1>8

(* Natural numbers have a least one. *)
LEMMA LeastNatural ==
  ASSUME NEW N \in SUBSET Nat, N # {}
  PROVE  \E n \in N : \A m \in N : n <= m
<1> SUFFICES ASSUME \A n \in N : \E m \in N : ~(n <= m)
             PROVE  FALSE
  OBVIOUS
<1> DEFINE M == {n \in Nat : \A m \in N : n <= m}
<1>1. 0 \in M
  OBVIOUS
<1>2. ASSUME NEW n \in Nat, n \in M
      PROVE  n + 1 \in M
  <2>1. n \notin N
    BY <1>2
  <2>2. \A m \in N : n <= m /\ m # n /\ m \in Nat
    BY <1>2, <2>1
  <2>3. \A m \in N : n + 1 <= m
    BY <2>2
  <2> QED BY <2>3
<1>3. PICK m \in N : m \in Nat
  OBVIOUS
<1>4. m + 1 \in M
  <2> HIDE DEF M
  <2> QED BY <1>1, <1>2, <1>3, AllNaturals
<1> QED BY <1>3, <1>4

(* A function of the natural numbers may be defined by what it is at 0 and how
   each value follows from the one before. *)
THEOREM Iteration ==
  ASSUME NEW X, NEW a \in X, NEW step \in [X -> X]
  PROVE  \E h \in [Nat -> X] : h[0] = a /\ \A n \in Nat : h[n + 1] = step[h[n]]
<1> DEFINE Starts(g, n) == /\ g \in [0..n -> X] /\ g[0] = a
                           /\ \A k \in 0..(n - 1) : g[k + 1] = step[g[k]]
           N == {n \in Nat : \E g : Starts(g, n)}
<1>1. \A n \in Nat : n \in N
  <2>1. 0 \in N
    <3>1. Starts([k \in 0..0 |-> a], 0)
      OBVIOUS
    <3> HIDE DEF Starts
    <3> QED BY <3>1
  <2>2. ASSUME NEW n \in Nat, n \in N
        PROVE  n + 1 \in N
    <3>1. PICK g : Starts(g, n)
      BY <2>2
    <3> DEFINE h == [k \in 0..(n + 1) |-> IF k = n + 1 THEN step[g[n]] ELSE g[k]]
    <3>2. h \in [0..(n + 1) -> X] /\ h[0] = a
      BY <3>1
    <3>3. ASSUME NEW k \in 0..n
          PROVE  h[k + 1] = step[h[k]]
      BY <3>1
    <3>4. Starts(h, n + 1)
      <4> HIDE DEF h
      <4> QED BY <3>2, <3>3
    <3> HIDE DEF Starts, h
    <3> QED BY <3>4
  <2> HIDE DEF N
  <2> QED BY <2>1, <2>2, AllNaturals
<1> DEFINE of == [n \in Nat |-> CHOOSE g : Starts(g, n)]
           h == [n \in Nat |-> of[n][n]]
<1>2. ASSUME NEW n \in Nat
      PROVE  Starts(of[n], n)
  <2>1. \E g : Starts(g, n)
    BY <1>1
  <2> HIDE DEF Starts
  <2> QED BY <2>1
<1> HIDE DEF of
<1>3. ASSUME NEW n \in Nat
      PROVE  \A k \in 0..n : of[n + 1][k] = of[n][k]
  <2> DEFINE M == {k \in Nat : k <= n => of[n + 1][k] = of[n][k]}
  <2>1. 0 \in M
    BY <1>2
  <2>2. ASSUME NEW k \in Nat, k \in M
        PROVE  k + 1 \in M
    <3> SUFFICES ASSUME k + 1 <= n
                 PROVE  of[n + 1][k + 1] = of[n][k + 1]
      OBVIOUS
    <3>1. of[n + 1][k] = of[n][k]
      BY <2>2
    <3>2. Starts(of[n], n) /\ Starts(of[n + 1], n + 1)
      BY <1>2
    <3> QED BY <3>1, <3>2
  <2>3. \A k \in Nat : k \in M
    <3> HIDE DEF M
    <3> QED BY <2>1, <2>2, AllNaturals
  <2> QED BY <2>3
<1>4. h \in [Nat -> X] /\ h[0] = a
  BY <1>2
<1>5. ASSUME NEW n \in Nat
      PROVE  h[n + 1] = step[h[n]]
  <2>1. Starts(of[n + 1], n + 1)
    BY <1>2
  <2>2. of[n + 1][n + 1] = step[of[n + 1][n]]
    BY <2>1
  <2> QED BY <1>3, <2>2
<1> QED BY <1>4, <1>5

\* The sequence of values that a step computes from a first one.
IsIteration(h, X, a, step) ==
  h \in [Nat -> X] /\ h[0] = a /\ \A n \in Nat : h[n + 1] = step[h[n]]

\* Iteration, for a step that depends on the state.
THEOREM Iterates ==
  \A X, a, step : a \in X /\ step \in [X -> X] => \E h : IsIteration(h, X, a, step)
<1> TAKE X, a, step
<1> HAVE a \in X /\ step \in [X -> X]
<1> QED BY Iteration, SMT DEF IsIteration

-----------------------------------------------------------------------------
(* The recursive function that SumFunction folds with. *)
Pick(s) == CHOOSE x \in s : TRUE
IsTally(g, f, S) ==
  g = [s \in SUBSET S |-> IF s = {} THEN 0 ELSE f[Pick(s)] + g[s \ {Pick(s)}]]

LEMMA PickIsElement == \A s : s # {} => Pick(s) \in s
  BY DEF Pick

(* Such a function exists: what is known of sets of up to n elements says what
   it is on sets of one more. *)
LEMMA TallyExists ==
  ASSUME NEW f, NEW S, IsFiniteSet(S)
  PROVE  \E g : IsTally(g, f, S)
<1> DEFINE UpTo(n) == {s \in SUBSET S : Cardinality(s) <= n}
           Next(g, s) == IF s = {} THEN 0 ELSE f[Pick(s)] + g[s \ {Pick(s)}]
           N == {n \in Nat : \E g : g = [s \in UpTo(n) |-> Next(g, s)]}
<1>0. \A s \in SUBSET S : IsFiniteSet(s) /\ Cardinality(s) \in Nat
  BY FS_Subset, FS_CardinalityType
<1>1. 0 \in N
  <2>1. \A s \in UpTo(0) : s = {}
    BY <1>0, FS_EmptySet
  <2>2. [s \in UpTo(0) |-> 0] = [s \in UpTo(0) |-> Next([t \in UpTo(0) |-> 0], s)]
    BY <2>1
  <2> QED BY <2>2
<1>2. ASSUME NEW n \in Nat, n \in N
      PROVE  n + 1 \in N
  <2>1. PICK g : g = [s \in UpTo(n) |-> Next(g, s)]
    BY <1>2
  <2> DEFINE h == [s \in UpTo(n + 1) |-> Next(g, s)]
  <2>2. ASSUME NEW s \in UpTo(n)
        PROVE  h[s] = g[s]
    <3>1. s \in UpTo(n + 1)
      BY <1>0
    <3>2. h[s] = Next(g, s)
      BY <3>1
    <3>3. g[s] = Next(g, s)
      BY <2>1
    <3> QED BY <3>2, <3>3
  <2>3. ASSUME NEW s \in UpTo(n + 1), s # {}
        PROVE  s \ {Pick(s)} \in UpTo(n)
    <3>1. Pick(s) \in s
      BY <2>3, PickIsElement
    <3>2. Cardinality(s \ {Pick(s)}) = Cardinality(s) - 1
      BY <1>0, <3>1, FS_RemoveElement
    <3> QED BY <1>0, <3>2
  <2>4. ASSUME NEW s \in UpTo(n + 1)
        PROVE  Next(g, s) = Next(h, s)
    BY <2>2, <2>3
  <2>5. h = [s \in UpTo(n + 1) |-> Next(h, s)]
    <3> HIDE DEF Next, UpTo
    <3> QED BY <2>4
  <2>6. \E k : k = [s \in UpTo(n + 1) |-> Next(k, s)]
    <3> HIDE DEF h, Next, UpTo
    <3> QED BY <2>5
  <2> HIDE DEF h, Next, UpTo
  <2> QED BY <2>6
<1>3. Cardinality(S) \in N
  <2> HIDE DEF N
  <2> QED BY <1>0, <1>1, <1>2, AllNaturals
<1>4. UpTo(Cardinality(S)) = SUBSET S
  BY <1>0, FS_Subset
<1>5. PICK g : g = [s \in UpTo(Cardinality(S)) |-> Next(g, s)]
  BY <1>3
<1>6. IsTally(g, f, S)
  BY <1>4, <1>5 DEF IsTally
<1> QED BY <1>6

(* And it is determined by the values of f. *)
LEMMA TallyUnique ==
  ASSUME NEW S, IsFiniteSet(S), NEW T \in SUBSET S,
         NEW f, NEW e, \A x \in T : f[x] = e[x],
         NEW g, IsTally(g, f, S), NEW h, IsTally(h, e, T)
  PROVE  g[T] = h[T]
<1> DEFINE B == {s \in SUBSET T : g[s] # h[s]}
<1> SUFFICES ASSUME B # {} PROVE FALSE
  OBVIOUS
<1>1. IsFiniteSet(T)
  BY FS_Subset
<1>2. PICK s \in B : \A t \in B : t \subseteq s => t = s
  <2>1. B \subseteq SUBSET T
    OBVIOUS
  <2> HIDE DEF B
  <2> QED BY <1>1, <2>1, SmallestSet
<1>3. g[s] = IF s = {} THEN 0 ELSE f[Pick(s)] + g[s \ {Pick(s)}]
  BY <1>2 DEF IsTally
<1>4. h[s] = IF s = {} THEN 0 ELSE e[Pick(s)] + h[s \ {Pick(s)}]
  BY <1>2 DEF IsTally
<1>5. s # {} /\ Pick(s) \in s
  BY <1>2, <1>3, <1>4, PickIsElement
<1>6. s \ {Pick(s)} \notin B
  BY <1>2, <1>5
<1>7. g[s \ {Pick(s)}] = h[s \ {Pick(s)}] /\ f[Pick(s)] = e[Pick(s)]
  BY <1>2, <1>5, <1>6
<1> QED BY <1>2, <1>3, <1>4, <1>5, <1>7

LEMMA SumIsTally ==
  ASSUME NEW f, NEW S, IsFiniteSet(S)
  PROVE  \E g : IsTally(g, f, S) /\ SumFunctionOnSet(f, S) = g[S]
<1> DEFINE g == CHOOSE iter : IsTally(iter, f, S)
<1>1. SumFunctionOnSet(f, S) = g[S]
  BY DEF SumFunctionOnSet, FoldFunctionOnSet, MapThenFoldSet, IsTally, Pick
<1>2. IsTally(g, f, S)
  BY TallyExists
<1> QED BY <1>1, <1>2

-----------------------------------------------------------------------------
(* The sum depends on the values of f on S only. *)
LEMMA SumCongruence ==
  ASSUME NEW S, IsFiniteSet(S), NEW f, NEW e, \A x \in S : f[x] = e[x]
  PROVE  SumFunctionOnSet(f, S) = SumFunctionOnSet(e, S)
<1>1. PICK g : IsTally(g, f, S) /\ SumFunctionOnSet(f, S) = g[S]
  BY SumIsTally
<1>2. PICK h : IsTally(h, e, S) /\ SumFunctionOnSet(e, S) = h[S]
  BY SumIsTally
<1>3. g[S] = h[S]
  BY <1>1, <1>2, TallyUnique
<1> QED BY <1>1, <1>2, <1>3

LEMMA SumEmpty == \A f : SumFunctionOnSet(f, {}) = 0
<1> TAKE f
<1>1. PICK g : IsTally(g, f, {}) /\ SumFunctionOnSet(f, {}) = g[{}]
  BY SumIsTally, FS_EmptySet
<1> QED BY <1>1 DEF IsTally

(* One step of the fold. *)
LEMMA SumUnfold ==
  ASSUME NEW f, NEW S, IsFiniteSet(S), S # {}
  PROVE  SumFunctionOnSet(f, S) = f[Pick(S)] + SumFunctionOnSet(f, S \ {Pick(S)})
<1> DEFINE T == S \ {Pick(S)}
<1>1. PICK g : IsTally(g, f, S) /\ SumFunctionOnSet(f, S) = g[S]
  BY SumIsTally
<1>2. IsFiniteSet(T) /\ T \in SUBSET S
  BY FS_Subset
<1>3. PICK h : IsTally(h, f, T) /\ SumFunctionOnSet(f, T) = h[T]
  BY <1>2, SumIsTally
<1>4. g[T] = h[T]
  BY <1>1, <1>2, <1>3, TallyUnique
<1>5. g[S] = f[Pick(S)] + g[T]
  BY <1>1 DEF IsTally
<1> QED BY <1>1, <1>3, <1>4, <1>5

(* A sum of integers is one. *)
LEMMA SumType ==
  ASSUME NEW S, IsFiniteSet(S), NEW f, \A x \in S : f[x] \in Int
  PROVE  SumFunctionOnSet(f, S) \in Int
<1> DEFINE B == {T \in SUBSET S : SumFunctionOnSet(f, T) \notin Int}
<1> SUFFICES ASSUME B # {} PROVE FALSE
  OBVIOUS
<1>1. PICK T \in B : \A U \in B : U \subseteq T => U = T
  <2>1. B \subseteq SUBSET S
    OBVIOUS
  <2> HIDE DEF B
  <2> QED BY <2>1, SmallestSet
<1>2. T # {}
  <2>1. SumFunctionOnSet(f, {}) \in Int
    BY SumEmpty
  <2> QED BY <1>1, <2>1
<1>3. Pick(T) \in T /\ IsFiniteSet(T)
  BY <1>1, <1>2, PickIsElement, FS_Subset
<1>4. SumFunctionOnSet(f, T \ {Pick(T)}) \in Int
  BY <1>1, <1>3
<1>5. SumFunctionOnSet(f, T) = f[Pick(T)] + SumFunctionOnSet(f, T \ {Pick(T)})
  BY <1>2, <1>3, SumUnfold
<1> QED BY <1>1, <1>3, <1>4, <1>5

(* Any element may be taken out, not only the one that the fold chooses. *)
THEOREM SumRemove ==
  ASSUME NEW S, IsFiniteSet(S), NEW f, \A x \in S : f[x] \in Int, NEW x \in S
  PROVE  SumFunctionOnSet(f, S) = f[x] + SumFunctionOnSet(f, S \ {x})
<1> DEFINE Sum(T) == SumFunctionOnSet(f, T)
           B == {T \in SUBSET S : \E y \in T : Sum(T) # f[y] + Sum(T \ {y})}
<1> HIDE DEF Sum
<1> SUFFICES ASSUME B # {} PROVE FALSE
  BY DEF Sum
<1>1. PICK T \in B : \A U \in B : U \subseteq T => U = T
  <2>1. B \subseteq SUBSET S
    OBVIOUS
  <2> HIDE DEF B
  <2> QED BY <2>1, SmallestSet
<1>2. PICK y \in T : Sum(T) # f[y] + Sum(T \ {y})
  BY <1>1
<1> DEFINE c == Pick(T)
<1>3. c \in T /\ T \subseteq S
  BY <1>1, <1>2, PickIsElement
<1> HIDE DEF c
<1>4. Sum(T) = f[c] + Sum(T \ {c})
  BY <1>2, <1>3, SumUnfold, FS_Subset DEF Sum, c
<1>5. c # y
  BY <1>2, <1>4
<1>6. T \ {c} \notin B /\ T \ {y} \notin B
  BY <1>1, <1>2, <1>3
<1>7. Sum(T \ {c}) = f[y] + Sum((T \ {c}) \ {y})
  BY <1>2, <1>3, <1>5, <1>6
<1>8. Sum(T \ {y}) = f[c] + Sum((T \ {y}) \ {c})
  BY <1>2, <1>3, <1>5, <1>6
<1>9. Sum((T \ {c}) \ {y}) = Sum((T \ {y}) \ {c})
  <2>1. (T \ {c}) \ {y} = (T \ {y}) \ {c}
    OBVIOUS
  <2> QED BY <2>1
<1>10. PICK rest \in Int : rest = Sum((T \ {c}) \ {y})
  <2>1. (T \ {c}) \ {y} \in SUBSET S
    BY <1>3
  <2>2. IsFiniteSet((T \ {c}) \ {y})
    BY <2>1, FS_Subset
  <2> QED BY <2>1, <2>2, SumType DEF Sum
<1>11. f[c] \in Int /\ f[y] \in Int
  BY <1>2, <1>3
<1> QED BY <1>2, <1>4, <1>7, <1>8, <1>9, <1>10, <1>11

(* A change at one place changes the sum by as much. *)
THEOREM SumAt ==
  ASSUME NEW S, IsFiniteSet(S), NEW x \in S, NEW f, NEW e,
         \A y \in S : f[y] \in Int /\ e[y] \in Int, \A y \in S \ {x} : e[y] = f[y]
  PROVE  SumFunctionOnSet(e, S) = SumFunctionOnSet(f, S) - f[x] + e[x]
<1> DEFINE T == S \ {x}
<1>1. IsFiniteSet(T)
  BY FS_RemoveElement
<1>2. SumFunctionOnSet(f, S) = f[x] + SumFunctionOnSet(f, T)
  BY SumRemove
<1>3. SumFunctionOnSet(e, S) = e[x] + SumFunctionOnSet(e, T)
  BY SumRemove
<1>4. SumFunctionOnSet(f, T) = SumFunctionOnSet(e, T)
  BY <1>1, SumCongruence
<1>5. PICK rest \in Int : rest = SumFunctionOnSet(f, T)
  BY <1>1, SumType
<1> QED BY <1>2, <1>3, <1>4, <1>5

(* A larger function has a larger sum, *)
THEOREM SumMonotone ==
  ASSUME NEW S, IsFiniteSet(S), NEW f, NEW e,
         \A x \in S : f[x] \in Int /\ e[x] \in Int /\ f[x] <= e[x]
  PROVE  SumFunctionOnSet(f, S) <= SumFunctionOnSet(e, S)
<1> DEFINE B == {T \in SUBSET S : ~(SumFunctionOnSet(f, T) <= SumFunctionOnSet(e, T))}
<1> SUFFICES ASSUME B # {} PROVE FALSE
  OBVIOUS
<1>1. PICK T \in B : \A U \in B : U \subseteq T => U = T
  <2>1. B \subseteq SUBSET S
    OBVIOUS
  <2> HIDE DEF B
  <2> QED BY <2>1, SmallestSet
<1>2. T # {}
  <2>1. SumFunctionOnSet(f, {}) <= SumFunctionOnSet(e, {})
    BY SumEmpty
  <2> QED BY <1>1, <2>1
<1>3. PICK x \in T : TRUE
  BY <1>2
<1>4. IsFiniteSet(T) /\ IsFiniteSet(T \ {x}) /\ T \subseteq S
  BY <1>1, FS_Subset, FS_RemoveElement
<1>5. SumFunctionOnSet(f, T) = f[x] + SumFunctionOnSet(f, T \ {x})
  BY <1>4, SumRemove
<1>6. SumFunctionOnSet(e, T) = e[x] + SumFunctionOnSet(e, T \ {x})
  BY <1>4, SumRemove
<1>7. SumFunctionOnSet(f, T \ {x}) <= SumFunctionOnSet(e, T \ {x})
  BY <1>1, <1>3
<1>8. SumFunctionOnSet(f, T \ {x}) \in Int /\ SumFunctionOnSet(e, T \ {x}) \in Int
  BY <1>4, SumType
<1>9. SumFunctionOnSet(f, T) <= SumFunctionOnSet(e, T)
  BY <1>3, <1>4, <1>5, <1>6, <1>7, <1>8
<1> QED BY <1>1, <1>9

(* and the same sum only if it is the same function. *)
THEOREM SumStrict ==
  ASSUME NEW S, IsFiniteSet(S), NEW f, NEW e,
         \A x \in S : f[x] \in Int /\ e[x] \in Int /\ f[x] <= e[x],
         SumFunctionOnSet(e, S) <= SumFunctionOnSet(f, S), NEW x \in S
  PROVE  f[x] = e[x]
<1>1. IsFiniteSet(S \ {x})
  BY FS_RemoveElement
<1>2. SumFunctionOnSet(f, S) = f[x] + SumFunctionOnSet(f, S \ {x})
  BY SumRemove
<1>3. SumFunctionOnSet(e, S) = e[x] + SumFunctionOnSet(e, S \ {x})
  BY SumRemove
<1>4. SumFunctionOnSet(f, S \ {x}) <= SumFunctionOnSet(e, S \ {x})
  BY <1>1, SumMonotone
<1>5. SumFunctionOnSet(f, S \ {x}) \in Int /\ SumFunctionOnSet(e, S \ {x}) \in Int
  BY <1>1, SumType
<1> QED BY <1>2, <1>3, <1>4, <1>5

(* Sums of natural numbers are natural numbers, and none of them exceeds it. *)
THEOREM SumNat ==
  ASSUME NEW S, IsFiniteSet(S), NEW f, \A x \in S : f[x] \in Nat
  PROVE  /\ SumFunctionOnSet(f, S) \in Nat
         /\ \A x \in S : f[x] <= SumFunctionOnSet(f, S)
<1> DEFINE B == {T \in SUBSET S : SumFunctionOnSet(f, T) \notin Nat}
<1>1. B = {}
  <2> SUFFICES ASSUME B # {} PROVE FALSE
    OBVIOUS
  <2>1. PICK T \in B : \A U \in B : U \subseteq T => U = T
    <3>1. B \subseteq SUBSET S
      OBVIOUS
    <3> HIDE DEF B
    <3> QED BY <3>1, SmallestSet
  <2>2. T # {}
    <3>1. SumFunctionOnSet(f, {}) \in Nat
      BY SumEmpty
    <3> QED BY <2>1, <3>1
  <2>3. PICK x \in T : TRUE
    BY <2>2
  <2>4. IsFiniteSet(T) /\ T \subseteq S
    BY <2>1, FS_Subset
  <2>5. SumFunctionOnSet(f, T) = f[x] + SumFunctionOnSet(f, T \ {x})
    BY <2>4, SumRemove
  <2>6. SumFunctionOnSet(f, T \ {x}) \in Nat
    BY <2>1, <2>3
  <2> QED BY <2>1, <2>3, <2>4, <2>5, <2>6
<1>2. \A T \in SUBSET S : SumFunctionOnSet(f, T) \in Nat
  BY <1>1
<1>3. ASSUME NEW x \in S
      PROVE  f[x] <= SumFunctionOnSet(f, S)
  <2>1. SumFunctionOnSet(f, S) = f[x] + SumFunctionOnSet(f, S \ {x})
    BY SumRemove
  <2>2. SumFunctionOnSet(f, S \ {x}) \in Nat
    BY <1>2
  <2> QED BY <2>1, <2>2
<1>4. SumFunctionOnSet(f, S) \in Nat
  BY <1>2
<1> QED BY <1>3, <1>4

(* Elements that add nothing may be left out. *)
THEOREM SumOnSubset ==
  ASSUME NEW S, IsFiniteSet(S), NEW A \in SUBSET S, NEW f, \A x \in S : f[x] \in Int,
         \A x \in S \ A : f[x] = 0
  PROVE  SumFunctionOnSet(f, S) = SumFunctionOnSet(f, A)
<1> DEFINE B == {T \in SUBSET S : A \subseteq T /\ SumFunctionOnSet(f, T) # SumFunctionOnSet(f, A)}
<1> SUFFICES ASSUME B # {} PROVE FALSE
  OBVIOUS
<1>1. PICK T \in B : \A U \in B : U \subseteq T => U = T
  <2>1. B \subseteq SUBSET S
    OBVIOUS
  <2> HIDE DEF B
  <2> QED BY <2>1, SmallestSet
<1>2. PICK x \in T : x \notin A
  <2>1. A \subseteq T /\ SumFunctionOnSet(f, T) # SumFunctionOnSet(f, A)
    BY <1>1
  <2>2. A # T
    BY <2>1
  <2> QED BY <2>1, <2>2
<1>3. IsFiniteSet(T) /\ IsFiniteSet(T \ {x}) /\ T \subseteq S
  BY <1>1, FS_Subset, FS_RemoveElement
<1>4. SumFunctionOnSet(f, T) = f[x] + SumFunctionOnSet(f, T \ {x})
  BY <1>3, SumRemove
<1>5. SumFunctionOnSet(f, T \ {x}) = SumFunctionOnSet(f, A)
  BY <1>1, <1>2
<1>6. SumFunctionOnSet(f, T \ {x}) \in Int /\ f[x] = 0
  BY <1>2, <1>3, SumType
<1> QED BY <1>1, <1>4, <1>5, <1>6

(* Adding d to each element of A adds d times their number. *)
THEOREM SumRaise ==
  ASSUME NEW S, IsFiniteSet(S), NEW A \in SUBSET S, NEW d \in Int, NEW f, NEW e,
         \A x \in S : f[x] \in Int,
         \A x \in S : e[x] = IF x \in A THEN f[x] + d ELSE f[x]
  PROVE  SumFunctionOnSet(e, S) = SumFunctionOnSet(f, S) + d * Cardinality(A)
<1> DEFINE Raised(T) == [x \in S |-> IF x \in T THEN f[x] + d ELSE f[x]]
           B == {T \in SUBSET S : SumFunctionOnSet(Raised(T), S)
                                    # SumFunctionOnSet(f, S) + d * Cardinality(T)}
<1>0. SumFunctionOnSet(f, S) \in Int
  BY SumType
<1>1. B = {}
  <2> SUFFICES ASSUME B # {} PROVE FALSE
    OBVIOUS
  <2>1. PICK T \in B : \A U \in B : U \subseteq T => U = T
    <3>1. B \subseteq SUBSET S
      OBVIOUS
    <3> HIDE DEF B
    <3> QED BY <3>1, SmallestSet
  <2>2. T # {}
    <3>1. SumFunctionOnSet(Raised({}), S) = SumFunctionOnSet(f, S)
      <4>1. \A x \in S : Raised({})[x] = f[x]
        OBVIOUS
      <4> HIDE DEF Raised
      <4> QED BY <4>1, SumCongruence
    <3>2. d * Cardinality({}) = 0
      BY FS_EmptySet
    <3>3. {} \notin B
      <4> HIDE DEF Raised
      <4> QED BY <1>0, <3>1, <3>2
    <3> HIDE DEF B
    <3> QED BY <2>1, <3>3
  <2>3. PICK x \in T : TRUE
    BY <2>2
  <2> DEFINE U == T \ {x}
  <2>4. IsFiniteSet(T) /\ T \subseteq S /\ U \subseteq S /\ U # T
    BY <2>1, <2>3, FS_Subset
  <2>5. Cardinality(T) = Cardinality(U) + 1 /\ Cardinality(U) \in Nat
    <3>1. IsFiniteSet(U) /\ Cardinality(U) = Cardinality(T) - 1
      BY <2>3, <2>4, FS_RemoveElement
    <3>2. Cardinality(T) \in Nat /\ Cardinality(U) \in Nat
      BY <2>4, <3>1, FS_CardinalityType
    <3> QED BY <3>1, <3>2
  <2>6. U \notin B
    BY <2>1, <2>4
  <2>7. SumFunctionOnSet(Raised(U), S) = SumFunctionOnSet(f, S) + d * Cardinality(U)
    BY <2>4, <2>6
  <2>8. SumFunctionOnSet(Raised(T), S)
          = SumFunctionOnSet(Raised(U), S) - Raised(U)[x] + Raised(T)[x]
    <3>1. \A y \in S : Raised(U)[y] \in Int /\ Raised(T)[y] \in Int
      OBVIOUS
    <3>2. \A y \in S \ {x} : Raised(T)[y] = Raised(U)[y]
      OBVIOUS
    <3>3. x \in S
      BY <2>3, <2>4
    <3> HIDE DEF Raised, U
    <3> QED BY <3>1, <3>2, <3>3, SumAt
  <2>9. Raised(U)[x] = f[x] /\ Raised(T)[x] = f[x] + d /\ f[x] \in Int
    BY <2>3, <2>4
  <2>10. d * (Cardinality(U) + 1) = d * Cardinality(U) + d
    BY <2>5
  <2>11. d * Cardinality(U) \in Int
    BY <2>5
  <2>12. SumFunctionOnSet(Raised(T), S) = SumFunctionOnSet(f, S) + d * Cardinality(T)
    <3> HIDE DEF Raised, U
    <3> QED BY <1>0, <2>5, <2>7, <2>8, <2>9, <2>10, <2>11
  <2> QED BY <2>1, <2>12
<1>2. SumFunctionOnSet(Raised(A), S) = SumFunctionOnSet(f, S) + d * Cardinality(A)
  BY <1>1
<1>3. SumFunctionOnSet(e, S) = SumFunctionOnSet(Raised(A), S)
  <2>1. \A x \in S : e[x] = Raised(A)[x]
    OBVIOUS
  <2> HIDE DEF Raised
  <2> QED BY <2>1, SumCongruence
<1> QED BY <1>2, <1>3

(* Ones sum up to the number of elements. *)
THEOREM SumOfOnes ==
  ASSUME NEW S, IsFiniteSet(S), NEW A \in SUBSET S, NEW f,
         \A x \in S : f[x] = IF x \in A THEN 1 ELSE 0
  PROVE  SumFunctionOnSet(f, S) = Cardinality(A)
<1> DEFINE zero == [x \in S |-> 0]
<1>1. \A x \in S : zero[x] = 0
  OBVIOUS
<1> HIDE DEF zero
<1>2. SumFunctionOnSet(zero, S) = 0
  BY <1>1, SumOnSubset, SumEmpty
<1>3. SumFunctionOnSet(f, S) = SumFunctionOnSet(zero, S) + 1 * Cardinality(A)
  <2>1. \A x \in S : f[x] = IF x \in A THEN zero[x] + 1 ELSE zero[x]
    BY <1>1
  <2> QED BY <1>1, <2>1, SumRaise
<1>4. Cardinality(A) \in Nat
  BY FS_Subset, FS_CardinalityType
<1> QED BY <1>2, <1>3, <1>4

(* A sum may be taken over other names of the same elements. *)
THEOREM SumReindex ==
  ASSUME NEW S, IsFiniteSet(S), NEW T, IsFiniteSet(T), NEW h \in Bijection(S, T),
         NEW f, NEW e, \A x \in S : f[x] \in Int /\ f[x] = e[h[x]]
  PROVE  SumFunctionOnSet(f, S) = SumFunctionOnSet(e, T)
<1> DEFINE Image(U) == {h[x] : x \in U}
           B == {U \in SUBSET S : SumFunctionOnSet(f, U) # SumFunctionOnSet(e, Image(U))}
<1>0. h \in [S -> T] /\ (\A x, y \in S : h[x] = h[y] => x = y) /\ (\A t \in T : \E x \in S : h[x] = t)
  BY DEF Bijection, Injection, Surjection, IsInjective
<1>1. B = {}
  <2> SUFFICES ASSUME B # {} PROVE FALSE
    OBVIOUS
  <2>1. PICK U \in B : \A V \in B : V \subseteq U => V = U
    <3>1. B \subseteq SUBSET S
      OBVIOUS
    <3> HIDE DEF B
    <3> QED BY <3>1, SmallestSet
  <2>2. U # {}
    <3>1. Image({}) = {}
      OBVIOUS
    <3>2. {} \notin B
      <4> HIDE DEF Image
      <4> QED BY <3>1, SumEmpty
    <3> HIDE DEF B
    <3> QED BY <2>1, <3>2
  <2>3. PICK x \in U : TRUE
    BY <2>2
  <2> DEFINE V == U \ {x}
  <2>4. U \subseteq S /\ IsFiniteSet(U) /\ V \subseteq S /\ V # U
    BY <2>1, <2>3, FS_Subset
  <2>5. Image(U) \subseteq T /\ IsFiniteSet(Image(U)) /\ h[x] \in Image(U)
    <3>1. Image(U) \in SUBSET T /\ h[x] \in Image(U)
      BY <1>0, <2>3, <2>4
    <3> HIDE DEF Image
    <3> QED BY <3>1, FS_Subset
  <2>6. Image(V) = Image(U) \ {h[x]}
    BY <1>0, <2>3, <2>4
  <2>7. \A t \in Image(U) : e[t] \in Int
    BY <2>4
  <2>8. SumFunctionOnSet(f, U) = f[x] + SumFunctionOnSet(f, V)
    BY <2>3, <2>4, SumRemove
  <2>9. SumFunctionOnSet(e, Image(U)) = e[h[x]] + SumFunctionOnSet(e, Image(V))
    <3> HIDE DEF Image
    <3> QED BY <2>5, <2>6, <2>7, SumRemove, SMTT(20)
  <2>10. SumFunctionOnSet(f, V) = SumFunctionOnSet(e, Image(V))
    BY <2>1, <2>3, <2>4
  <2>11. f[x] = e[h[x]]
    BY <2>3, <2>4
  <2>12. U \notin B
    <3> HIDE DEF Image, V
    <3> QED BY <2>8, <2>9, <2>10, <2>11
  <2> QED BY <2>1, <2>12
<1>2. Image(S) = T
  BY <1>0
<1> HIDE DEF Image
<1> QED BY <1>1, <1>2

-----------------------------------------------------------------------------
(* The elements of a finite set of integers, counted from the least: i has as
   many before it as are less. *)
Before(A, i) == {j \in A : j < i}

THEOREM Ranking ==
  ASSUME NEW A \in SUBSET Int, IsFiniteSet(A)
  PROVE  /\ \A i \in A : Cardinality(Before(A, i)) \in 0..(Cardinality(A) - 1)
         /\ \A i, j \in A : i < j => Cardinality(Before(A, i)) < Cardinality(Before(A, j))
         /\ \A k \in 0..(Cardinality(A) - 1) : \E i \in A : Cardinality(Before(A, i)) = k
<1> DEFINE Rank(i) == Cardinality(Before(A, i))
<1>0. Cardinality(A) \in Nat /\ \A i \in A : IsFiniteSet(Before(A, i)) /\ Rank(i) \in Nat
  BY FS_CardinalityType, FS_Subset DEF Before
<1>1. ASSUME NEW i \in A, NEW j \in A, i < j
      PROVE  Rank(i) < Rank(j)
  <2>1. Before(A, i) \cup {i} \in SUBSET Before(A, j) /\ i \notin Before(A, i)
    <3>1. \A x \in A : x \in Int
      OBVIOUS
    <3>2. \A x \in A : x < i => x < j
      BY <1>1, <3>1
    <3>3. ~(i < i)
      BY <3>1
    <3> QED BY <1>1, <3>2, <3>3 DEF Before
  <2>2. Cardinality(Before(A, i) \cup {i}) = Rank(i) + 1
    BY <1>0, <2>1, FS_AddElement
  <2>3. Cardinality(Before(A, i) \cup {i}) <= Rank(j)
    BY <1>0, <2>1, FS_Subset
  <2> QED BY <1>0, <2>2, <2>3
<1>2. ASSUME NEW i \in A
      PROVE  Rank(i) \in 0..(Cardinality(A) - 1)
  <2>1. Before(A, i) \in SUBSET (A \ {i})
    BY DEF Before
  <2>2. IsFiniteSet(A \ {i}) /\ Cardinality(A \ {i}) = Cardinality(A) - 1
    BY FS_RemoveElement
  <2>3. Rank(i) <= Cardinality(A) - 1
    BY <2>1, <2>2, FS_Subset
  <2> QED BY <1>0, <2>3
<1>3. ASSUME NEW k \in 0..(Cardinality(A) - 1)
      PROVE  \E i \in A : Rank(i) = k
  <2> DEFINE K == 0..(Cardinality(A) - 1)
             r == [i \in A |-> Rank(i)]
  <2>1. IsFiniteSet(K) /\ Cardinality(K) = Cardinality(A)
    BY <1>0, <1>3, FS_Interval
  <2>2. r \in [A -> K]
    BY <1>2
  <2>3. \A i, j \in A : r[i] = r[j] => i = j
    BY <1>0, <1>1
  <2>4. r \in Injection(A, K)
    BY <2>2, <2>3 DEF Injection, IsInjective
  <2>5. r \in Surjection(A, K)
    <3> HIDE DEF r, K
    <3> QED BY <2>1, <2>4, FS_Injection
  <2> QED BY <2>5 DEF Surjection
<1> QED BY <1>1, <1>2, <1>3

(* As many elements as there are smaller ranks have a rank below r. *)
THEOREM FirstRanks ==
  ASSUME NEW A \in SUBSET Int, IsFiniteSet(A), NEW r \in 0..Cardinality(A)
  PROVE  Cardinality({i \in A : Cardinality(Before(A, i)) < r}) = r
<1> DEFINE F == {i \in A : Cardinality(Before(A, i)) < r}
           rank == [i \in F |-> Cardinality(Before(A, i))]
           K == 0..(r - 1)
<1>0. Cardinality(A) \in Nat /\ r \in Nat
  BY FS_CardinalityType
<1>1. IsFiniteSet(K) /\ Cardinality(K) = r
  <2>1. r - 1 \in Int /\ (IF 0 > r - 1 THEN 0 ELSE r - 1 - 0 + 1) = r
    BY <1>0
  <2> QED BY <2>1, FS_Interval
<1>2. rank \in [F -> K]
  <2>1. \A i \in F : Cardinality(Before(A, i)) \in K
    BY <1>0, Ranking
  <2> QED BY <2>1
<1>3. \A i, j \in F : rank[i] = rank[j] => i = j
  <2> SUFFICES ASSUME NEW i \in F, NEW j \in F, i # j
               PROVE  rank[i] # rank[j]
    OBVIOUS
  <2>1. i \in Int /\ j \in Int
    OBVIOUS
  <2>2. i < j \/ j < i
    BY <2>1
  <2> QED BY <2>2, Ranking
<1>4. \A k \in K : \E i \in F : rank[i] = k
  BY <1>0, Ranking
<1>5. rank \in Injection(F, K) /\ rank \in Surjection(F, K)
  <2> HIDE DEF rank, K, F
  <2> QED BY <1>2, <1>3, <1>4 DEF Injection, Surjection, IsInjective
<1> HIDE DEF rank, K
<1> QED BY <1>1, <1>5, FS_Injection
=============================================================================
