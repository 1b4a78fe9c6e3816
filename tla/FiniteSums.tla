----------------------------- MODULE FiniteSums -----------------------------
(***************************************************************************)
(* Sums over finite sets, as the community modules define them: a function *)
(* on the subsets of a set that takes off one chosen element at a time.    *)
(* The models add up stock, refunds and payables with them.  The lemmas    *)
(* say that the result is the sum one expects.  They go by a minimal       *)
(* counterexample, since an induction theorem would take a predicate as    *)
(* its parameter.                                                          *)
(***************************************************************************)
EXTENDS Integers, FiniteSets, FiniteSetsExt, FiniteSetTheorems, TLAPS

Chosen(s) == CHOOSE x \in s : TRUE

(* The equation of the function that adds up g on the subsets of S. *)
Adds(it, g, S) ==
  it = [s \in SUBSET S |-> IF s = {} THEN 0 ELSE g[Chosen(s)] + it[s \ {Chosen(s)}]]

Numbers(g, S) == \A x \in S : g[x] \in Int

(* Among subsets of a finite set, if there are any, one has none below it.  *)
LEMMA MinimalSet ==
  ASSUME NEW S, IsFiniteSet(S), NEW B \in SUBSET SUBSET S, B # {}
  PROVE  \E T \in B : IsFiniteSet(T) /\ \A U \in SUBSET T : U # T => U \notin B
  <1>1. PICK T \in B : \A U \in B : <<U, T>> \notin StrictSubsetOrdering(S)
    <2>1. IsWellFoundedOn(StrictSubsetOrdering(S), FiniteSubsetsOf(S))
      BY FS_StrictSubsetOrderingWellFounded
    <2>2. B \subseteq FiniteSubsetsOf(S)
      BY FS_Subset DEF FiniteSubsetsOf
    <2> QED
      BY <2>1, <2>2, WFMin
  <1>2. IsFiniteSet(T) /\ \A U \in SUBSET T : U \in SUBSET S
    BY FS_Subset
  <1> QED
    BY <1>1, <1>2 DEF StrictSubsetOrdering

LEMMA ChosenFrom ==
  ASSUME NEW s, s # {}
  PROVE  Chosen(s) \in s
  BY DEF Chosen

(* Two functions that satisfy the equation agree where both are defined.    *)
LEMMA AddsOnce ==
  ASSUME NEW g, NEW R, NEW S, NEW it, NEW jt, Adds(it, g, R), Adds(jt, g, S),
         IsFiniteSet(R), R \subseteq S
  PROVE  it[R] = jt[R]
  <1> DEFINE B == {T \in SUBSET R : it[T] # jt[T]}
  <1>1. SUFFICES ASSUME B # {} PROVE FALSE
    OBVIOUS
  <1>2. PICK T \in B : \A U \in SUBSET T : U # T => U \notin B
    <2> HIDE DEF B
    <2>1. B \in SUBSET SUBSET R
      BY DEF B
    <2> QED
      BY <1>1, <2>1, MinimalSet
  <1> DEFINE U == T \ {Chosen(T)}
  <1>3. /\ it[T] = IF T = {} THEN 0 ELSE g[Chosen(T)] + it[U]
        /\ jt[T] = IF T = {} THEN 0 ELSE g[Chosen(T)] + jt[U]
    BY <1>2 DEF Adds
  <1>4. T # {} /\ it[U] # jt[U]
    BY <1>2, <1>3
  <1> QED
    BY <1>2, <1>4, ChosenFrom

(* A set for whose proper subsets the equation has a solution has one       *)
(* itself: their sums, and the one they make.                               *)
LEMMA AddsStep ==
  ASSUME NEW g, NEW T, IsFiniteSet(T),
         \A U \in SUBSET T : U # T => \E it : Adds(it, g, U)
  PROVE  \E it : Adds(it, g, T)
  <1> DEFINE Run(U) == CHOOSE it : Adds(it, g, U)
             Sum(U) == Run(U)[U]
             Rest(U) == U \ {Chosen(U)}
  <1>1. ASSUME NEW U \in SUBSET T, U # T
        PROVE  Sum(U) = IF U = {} THEN 0 ELSE g[Chosen(U)] + Sum(Rest(U))
    <2>1. Rest(U) \in SUBSET U /\ Rest(U) \in SUBSET T /\ Rest(U) # T
      BY <1>1
    <2>2. Adds(Run(U), g, U) /\ Adds(Run(Rest(U)), g, Rest(U))
      BY <1>1, <2>1
    <2>3. IsFiniteSet(Rest(U))
      BY <2>1, FS_Subset
    <2> HIDE DEF Run
    <2>4. Run(U)[Rest(U)] = Run(Rest(U))[Rest(U)]
      <3> HIDE DEF Rest
      <3> QED
        BY <2>1, <2>2, <2>3, AddsOnce
    <2>5. Run(U)[U] = IF U = {} THEN 0 ELSE g[Chosen(U)] + Run(U)[Rest(U)]
      BY <2>2 DEF Adds
    <2> QED
      BY <2>4, <2>5
  <1> HIDE DEF Sum
  <1> DEFINE it == [s \in SUBSET T |-> IF s = {} THEN 0 ELSE
                     IF s = T THEN g[Chosen(T)] + Sum(Rest(T)) ELSE Sum(s)]
  <1>2. ASSUME NEW s \in SUBSET T
        PROVE  it[s] = IF s = {} THEN 0 ELSE g[Chosen(s)] + it[Rest(s)]
    <2>1. CASE s = {}
      BY <2>1
    <2>2. CASE s # {}
      <3>1. Rest(s) \in SUBSET T /\ Rest(s) # T
        BY <2>2, ChosenFrom
      <3>2. it[Rest(s)] = Sum(Rest(s))
        BY <1>1, <3>1
      <3>3. it[s] = g[Chosen(s)] + Sum(Rest(s))
        BY <1>1, <2>2
      <3> QED
        BY <2>2, <3>2, <3>3
    <2> QED
      BY <2>1, <2>2
  <1>3. it = [s \in SUBSET T |-> it[s]]
    OBVIOUS
  <1> HIDE DEF it
  <1>4. Adds(it, g, T)
    BY <1>2, <1>3 DEF Adds
  <1> QED
    BY <1>4

LEMMA AddsExists ==
  ASSUME NEW g, NEW S, IsFiniteSet(S)
  PROVE  \E it : Adds(it, g, S)
  <1> DEFINE B == {T \in SUBSET S : ~ \E it : Adds(it, g, T)}
  <1>1. SUFFICES ASSUME B # {} PROVE FALSE
    OBVIOUS
  <1>2. PICK T \in B : IsFiniteSet(T) /\ \A U \in SUBSET T : U # T => U \notin B
    <2> HIDE DEF B
    <2>1. B \in SUBSET SUBSET S
      BY DEF B
    <2> QED
      BY <1>1, <2>1, MinimalSet
  <1> QED
    BY <1>2, AddsStep

(* The sum over a finite set that is not empty is what a chosen element     *)
(* adds to the sum over the others.                                         *)
LEMMA SumUnfolds ==
  ASSUME NEW g, NEW S, IsFiniteSet(S)
  PROVE  SumFunctionOnSet(g, S) =
           IF S = {} THEN 0 ELSE g[Chosen(S)] + SumFunctionOnSet(g, S \ {Chosen(S)})
  <1> DEFINE Run(U) == CHOOSE it : Adds(it, g, U)
             Rest == S \ {Chosen(S)}
  <1>1. IsFiniteSet(Rest) /\ Rest \subseteq S
    BY FS_Subset
  <1>2. Adds(Run(S), g, S) /\ Adds(Run(Rest), g, Rest)
    BY <1>1, AddsExists
  <1>3. \A U : SumFunctionOnSet(g, U) = Run(U)[U]
    BY Zenon DEF SumFunctionOnSet, FoldFunctionOnSet, MapThenFoldSet, Adds, Chosen
  <1> HIDE DEF Run
  <1>4. Run(S)[Rest] = Run(Rest)[Rest]
    <2> HIDE DEF Rest
    <2> QED
      BY <1>1, <1>2, AddsOnce
  <1>5. Run(S)[S] = IF S = {} THEN 0 ELSE g[Chosen(S)] + Run(S)[Rest]
    BY <1>2 DEF Adds
  <1> QED
    BY <1>3, <1>4, <1>5

LEMMA SumEmpty ==
  ASSUME NEW g
  PROVE  SumFunctionOnSet(g, {}) = 0
  BY SumUnfolds, FS_EmptySet

(* A sum of integers is an integer. *)
LEMMA SumType ==
  ASSUME NEW g, NEW S, IsFiniteSet(S), Numbers(g, S)
  PROVE  SumFunctionOnSet(g, S) \in Int
  <1> DEFINE B == {T \in SUBSET S : SumFunctionOnSet(g, T) \notin Int}
  <1>1. SUFFICES ASSUME B # {} PROVE FALSE
    OBVIOUS
  <1>2. PICK T \in B : IsFiniteSet(T) /\ \A U \in SUBSET T : U # T => U \notin B
    <2> HIDE DEF B
    <2>1. B \in SUBSET SUBSET S
      BY DEF B
    <2> QED
      BY <1>1, <2>1, MinimalSet
  <1> DEFINE x == Chosen(T)
             U == T \ {x}
  <1>3. SumFunctionOnSet(g, T) = IF T = {} THEN 0 ELSE g[x] + SumFunctionOnSet(g, U)
    BY <1>2, SumUnfolds
  <1>4. T # {} /\ x \in T
    BY <1>2, <1>3, ChosenFrom
  <1>5. SumFunctionOnSet(g, U) \in Int /\ g[x] \in Int
    BY <1>2, <1>4 DEF Numbers
  <1> QED
    BY <1>2, <1>3, <1>4, <1>5

(* Whatever element is chosen first, the sum is the same. *)
LEMMA SumRemove ==
  ASSUME NEW g, NEW S, IsFiniteSet(S), NEW x \in S, Numbers(g, S)
  PROVE  SumFunctionOnSet(g, S) = SumFunctionOnSet(g, S \ {x}) + g[x]
  <1> DEFINE Sum(T) == SumFunctionOnSet(g, T)
             Split(T, y) == Sum(T) = Sum(T \ {y}) + g[y]
             B == {T \in SUBSET S : \E y \in T : ~Split(T, y)}
  <1>1. SUFFICES ASSUME B # {} PROVE FALSE
    OBVIOUS
  <1>2. PICK T \in B : IsFiniteSet(T) /\ \A U \in SUBSET T : U # T => U \notin B
    <2> HIDE DEF B
    <2>1. B \in SUBSET SUBSET S
      BY DEF B
    <2> QED
      BY <1>1, <2>1, MinimalSet
  <1>3. PICK y \in T : ~Split(T, y)
    BY <1>2
  <1>4. \A U \in SUBSET S : Sum(U) \in Int
    BY SumType, FS_Subset DEF Numbers
  <1> DEFINE c == Chosen(T)
             U == (T \ {c}) \ {y}
  <1>5. c \in T /\ Sum(T) = g[c] + Sum(T \ {c}) /\ g[c] \in Int /\ g[y] \in Int
    BY <1>2, <1>3, ChosenFrom, SumUnfolds DEF Numbers
  <1> HIDE DEF c, Sum
  <1>6. y # c
    BY <1>3, <1>4, <1>5
  <1>7. /\ Sum(T \ {c}) = Sum(U) + g[y]
        /\ Sum(T \ {y}) = Sum(U) + g[c]
    <2>1. Split(T \ {c}, y) /\ Split(T \ {y}, c)
      BY <1>2, <1>3, <1>5, <1>6
    <2>2. U = (T \ {y}) \ {c}
      OBVIOUS
    <2> QED
      BY <2>1, <2>2
  <1>8. Sum(T) \in Int /\ Sum(T \ {c}) \in Int /\ Sum(T \ {y}) \in Int /\ Sum(U) \in Int
    BY <1>4
  <1> HIDE DEF U
  <1> QED
    BY <1>3, <1>5, <1>7, <1>8

(* An element that joins the set adds its value. *)
LEMMA SumAdd ==
  ASSUME NEW g, NEW S, IsFiniteSet(S), NEW x, x \notin S, Numbers(g, S \cup {x})
  PROVE  SumFunctionOnSet(g, S \cup {x}) = SumFunctionOnSet(g, S) + g[x]
  <1>1. (S \cup {x}) \ {x} = S /\ IsFiniteSet(S \cup {x})
    BY FS_AddElement
  <1> QED
    BY <1>1, SumRemove

(* A sum depends on the values on the set alone, and grows with them. *)
LEMMA SumMonotone ==
  ASSUME NEW f, NEW g, NEW S, IsFiniteSet(S), Numbers(f, S), Numbers(g, S),
         \A x \in S : f[x] <= g[x]
  PROVE  SumFunctionOnSet(f, S) <= SumFunctionOnSet(g, S)
  <1> DEFINE Below(T) == SumFunctionOnSet(f, T) <= SumFunctionOnSet(g, T)
             B == {T \in SUBSET S : ~Below(T)}
  <1>1. SUFFICES ASSUME B # {} PROVE FALSE
    OBVIOUS
  <1>2. PICK T \in B : IsFiniteSet(T) /\ \A U \in SUBSET T : U # T => U \notin B
    <2> HIDE DEF B
    <2>1. B \in SUBSET SUBSET S
      BY DEF B
    <2> QED
      BY <1>1, <2>1, MinimalSet
  <1>3. T # {}
    <2>1. Below({})
      BY SumEmpty
    <2> HIDE DEF Below
    <2> QED
      BY <1>2, <2>1
  <1>4. PICK x \in T : TRUE
    BY <1>3
  <1> DEFINE U == T \ {x}
  <1>5. /\ SumFunctionOnSet(f, T) = SumFunctionOnSet(f, U) + f[x]
        /\ SumFunctionOnSet(g, T) = SumFunctionOnSet(g, U) + g[x]
    BY <1>2, <1>4, SumRemove DEF Numbers
  <1>6. SumFunctionOnSet(f, U) \in Int /\ SumFunctionOnSet(g, U) \in Int /\ IsFiniteSet(U)
    BY <1>2, SumType, FS_Subset DEF Numbers
  <1>7. f[x] <= g[x] /\ f[x] \in Int /\ g[x] \in Int /\ Below(U)
    BY <1>2, <1>4 DEF Numbers
  <1> QED
    BY <1>2, <1>5, <1>6, <1>7

LEMMA SumSame ==
  ASSUME NEW f, NEW g, NEW S, IsFiniteSet(S), Numbers(f, S),
         \A x \in S : f[x] = g[x]
  PROVE  SumFunctionOnSet(f, S) = SumFunctionOnSet(g, S)
  <1>1. Numbers(g, S)
    BY DEF Numbers
  <1>2. SumFunctionOnSet(f, S) \in Int /\ SumFunctionOnSet(g, S) \in Int
    BY <1>1, SumType
  <1>3. /\ SumFunctionOnSet(f, S) <= SumFunctionOnSet(g, S)
        /\ SumFunctionOnSet(g, S) <= SumFunctionOnSet(f, S)
    BY <1>1, SumMonotone DEF Numbers
  <1> QED
    BY <1>2, <1>3

(* A sum of natural numbers is a natural number. *)
LEMMA SumNat ==
  ASSUME NEW g, NEW S, IsFiniteSet(S), \A x \in S : g[x] \in Nat
  PROVE  SumFunctionOnSet(g, S) \in Nat
  <1> DEFINE B == {T \in SUBSET S : SumFunctionOnSet(g, T) \notin Nat}
  <1>1. SUFFICES ASSUME B # {} PROVE FALSE
    OBVIOUS
  <1>2. PICK T \in B : IsFiniteSet(T) /\ \A U \in SUBSET T : U # T => U \notin B
    <2> HIDE DEF B
    <2>1. B \in SUBSET SUBSET S
      BY DEF B
    <2> QED
      BY <1>1, <2>1, MinimalSet
  <1>3. T # {}
    <2>1. SumFunctionOnSet(g, {}) \in Nat
      BY SumEmpty
    <2> QED
      BY <1>2, <2>1
  <1>4. PICK x \in T : TRUE
    BY <1>3
  <1>5. SumFunctionOnSet(g, T) = SumFunctionOnSet(g, T \ {x}) + g[x]
    BY <1>2, <1>4, SumRemove DEF Numbers
  <1>6. SumFunctionOnSet(g, T \ {x}) \in Nat /\ g[x] \in Nat
    BY <1>2, <1>4
  <1> QED
    BY <1>2, <1>5, <1>6

(* What more elements add is not negative. *)
LEMMA SumSubset ==
  ASSUME NEW g, NEW S, IsFiniteSet(S), NEW R \in SUBSET S, \A x \in S : g[x] \in Nat
  PROVE  SumFunctionOnSet(g, R) <= SumFunctionOnSet(g, S)
  <1> DEFINE More(T) == SumFunctionOnSet(g, R \cup T)
             B == {T \in SUBSET (S \ R) : ~(More({}) <= More(T))}
  <1>0. SUFFICES S \ R \notin B
    <2>1. R \cup (S \ R) = S /\ R \cup {} = R
      OBVIOUS
    <2> QED
      BY <2>1
  <1>1. SUFFICES ASSUME B # {} PROVE FALSE
    OBVIOUS
  <1>a. IsFiniteSet(S \ R)
    BY FS_Difference
  <1>2. PICK T \in B : IsFiniteSet(T) /\ \A U \in SUBSET T : U # T => U \notin B
    <2> HIDE DEF B
    <2>1. B \in SUBSET SUBSET (S \ R)
      BY DEF B
    <2> QED
      BY <1>1, <1>a, <2>1, MinimalSet
  <1>b. \A U \in SUBSET S : IsFiniteSet(U) /\ Numbers(g, U) /\ SumFunctionOnSet(g, U) \in Nat
    BY SumNat, FS_Subset DEF Numbers
  <1>3. T # {}
    <2>1. R \cup {} \in SUBSET S
      OBVIOUS
    <2>2. More({}) \in Nat
      BY <1>b, <2>1
    <2>3. More({}) <= More({})
      <3> HIDE DEF More
      <3> QED
        BY <2>2
    <2> HIDE DEF More
    <2> QED
      BY <1>2, <2>3
  <1>4. PICK x \in T : TRUE
    BY <1>3
  <1> DEFINE U == R \cup (T \ {x})
  <1>5. More(T) = More(T \ {x}) + g[x]
    <2>1. R \cup T = U \cup {x} /\ x \notin U /\ U \in SUBSET S /\ (U \cup {x}) \in SUBSET S
      BY <1>2, <1>4
    <2> HIDE DEF U
    <2>2. SumFunctionOnSet(g, U \cup {x}) = SumFunctionOnSet(g, U) + g[x]
      BY <1>b, <2>1, SumAdd
    <2> QED
      BY <2>1, <2>2 DEF U
  <1>6. More({}) <= More(T \ {x}) /\ g[x] \in Nat
    BY <1>2, <1>4
  <1>7. More({}) \in Nat /\ More(T \ {x}) \in Nat /\ More(T) \in Nat
    <2>1. R \cup {} \in SUBSET S /\ R \cup (T \ {x}) \in SUBSET S /\ R \cup T \in SUBSET S
      BY <1>2
    <2> QED
      BY <1>b, <2>1
  <1>8. ~(More({}) <= More(T))
    BY <1>2
  <1> HIDE DEF More
  <1> QED
    BY <1>5, <1>6, <1>7, <1>8

(* h is a times f and b times g.  *)
Combines(h, a, f, b, g, S) == \A x \in S : h[x] = a * f[x] + b * g[x]

(* A sum is linear in its terms. *)
LEMMA SumLinear ==
  ASSUME NEW f, NEW g, NEW h, NEW S, IsFiniteSet(S), Numbers(f, S), Numbers(g, S),
         NEW a \in Int, NEW b \in Int, Combines(h, a, f, b, g, S)
  PROVE  SumFunctionOnSet(h, S) = a * SumFunctionOnSet(f, S) + b * SumFunctionOnSet(g, S)
  <1> DEFINE Linear(T) == SumFunctionOnSet(h, T) = a * SumFunctionOnSet(f, T) + b * SumFunctionOnSet(g, T)
             B == {T \in SUBSET S : ~Linear(T)}
  <1>1. SUFFICES ASSUME B # {} PROVE FALSE
    OBVIOUS
  <1>2. PICK T \in B : IsFiniteSet(T) /\ \A U \in SUBSET T : U # T => U \notin B
    <2> HIDE DEF B
    <2>1. B \in SUBSET SUBSET S
      BY DEF B
    <2> QED
      BY <1>1, <2>1, MinimalSet
  <1>3. T # {}
    <2>1. Linear({})
      BY SumEmpty
    <2> HIDE DEF Linear
    <2> QED
      BY <1>2, <2>1
  <1>4. PICK x \in T : TRUE
    BY <1>3
  <1> DEFINE U == T \ {x}
  <1>5. Numbers(f, T) /\ Numbers(g, T) /\ Numbers(h, T) /\ h[x] = a * f[x] + b * g[x]
    BY <1>2, <1>4 DEF Numbers, Combines
  <1>6. /\ SumFunctionOnSet(f, T) = SumFunctionOnSet(f, U) + f[x]
        /\ SumFunctionOnSet(g, T) = SumFunctionOnSet(g, U) + g[x]
        /\ SumFunctionOnSet(h, T) = SumFunctionOnSet(h, U) + h[x]
    BY <1>2, <1>4, <1>5, SumRemove
  <1>7. /\ SumFunctionOnSet(f, U) \in Int /\ SumFunctionOnSet(g, U) \in Int
        /\ f[x] \in Int /\ g[x] \in Int
    BY <1>2, <1>4, <1>5, SumType, FS_Subset DEF Numbers
  <1>8. Linear(U) /\ ~Linear(T)
    BY <1>2, <1>4
  <1> HIDE DEF U
  <1> QED
    BY <1>5, <1>6, <1>7, <1>8

(* Terms of at most c come to at most c for each. *)
LEMMA SumAtMost ==
  ASSUME NEW g, NEW S, IsFiniteSet(S), Numbers(g, S), NEW c \in Int, \A x \in S : g[x] <= c
  PROVE  SumFunctionOnSet(g, S) <= c * Cardinality(S)
  <1> DEFINE Below(T) == SumFunctionOnSet(g, T) <= c * Cardinality(T)
             B == {T \in SUBSET S : ~Below(T)}
  <1>1. SUFFICES ASSUME B # {} PROVE FALSE
    OBVIOUS
  <1>2. PICK T \in B : IsFiniteSet(T) /\ \A U \in SUBSET T : U # T => U \notin B
    <2> HIDE DEF B
    <2>1. B \in SUBSET SUBSET S
      BY DEF B
    <2> QED
      BY <1>1, <2>1, MinimalSet
  <1>3. T # {}
    <2>1. Below({})
      BY SumEmpty, FS_EmptySet
    <2> HIDE DEF Below
    <2> QED
      BY <1>2, <2>1
  <1>4. PICK x \in T : TRUE
    BY <1>3
  <1> DEFINE U == T \ {x}
  <1>5. Numbers(g, T) /\ g[x] \in Int /\ g[x] <= c
    BY <1>2, <1>4 DEF Numbers
  <1>6. SumFunctionOnSet(g, T) = SumFunctionOnSet(g, U) + g[x]
    BY <1>2, <1>4, <1>5, SumRemove
  <1>7. SumFunctionOnSet(g, U) \in Int
    BY <1>2, <1>5, SumType, FS_Subset DEF Numbers
  <1>8. Cardinality(T) = Cardinality(U) + 1 /\ Cardinality(U) \in Nat
    <2>1. IsFiniteSet(U) /\ Cardinality(U) = Cardinality(T) - 1
      BY <1>2, <1>4, FS_RemoveElement
    <2> QED
      BY <1>2, <2>1, FS_CardinalityType
  <1>9. Below(U) /\ ~Below(T)
    BY <1>2, <1>4
  <1> HIDE DEF U
  <1> QED
    BY <1>5, <1>6, <1>7, <1>8, <1>9

(* The sum over two sets that have nothing in common. *)
LEMMA SumDisjoint ==
  ASSUME NEW g, NEW R, NEW S, IsFiniteSet(R), IsFiniteSet(S), R \cap S = {}, Numbers(g, R \cup S)
  PROVE  SumFunctionOnSet(g, R \cup S) = SumFunctionOnSet(g, R) + SumFunctionOnSet(g, S)
  <1> DEFINE Splits(T) == SumFunctionOnSet(g, R \cup T) = SumFunctionOnSet(g, R) + SumFunctionOnSet(g, T)
             B == {T \in SUBSET S : ~Splits(T)}
  <1>1. SUFFICES ASSUME B # {} PROVE FALSE
    OBVIOUS
  <1>2. PICK T \in B : IsFiniteSet(T) /\ \A U \in SUBSET T : U # T => U \notin B
    <2> HIDE DEF B
    <2>1. B \in SUBSET SUBSET S
      BY DEF B
    <2> QED
      BY <1>1, <2>1, MinimalSet
  <1>a. \A U \in SUBSET (R \cup S) : IsFiniteSet(U) /\ Numbers(g, U) /\ SumFunctionOnSet(g, U) \in Int
    <2>1. IsFiniteSet(R \cup S)
      BY FS_Union
    <2> QED
      BY <2>1, SumType, FS_Subset DEF Numbers
  <1>3. T # {}
    <2>1. Splits({})
      <3>1. SumFunctionOnSet(g, R) \in Int
        BY <1>a
      <3>2. R \cup {} = R
        OBVIOUS
      <3> QED
        BY <3>1, <3>2, SumEmpty
    <2> HIDE DEF Splits
    <2> QED
      BY <1>2, <2>1
  <1>4. PICK x \in T : TRUE
    BY <1>3
  <1> DEFINE U == T \ {x}
  <1>5. SumFunctionOnSet(g, T) = SumFunctionOnSet(g, U) + g[x]
    BY <1>2, <1>4, <1>a, SumRemove
  <1>6. SumFunctionOnSet(g, R \cup T) = SumFunctionOnSet(g, R \cup U) + g[x]
    <2>1. R \cup T \in SUBSET (R \cup S) /\ x \in R \cup T /\ (R \cup T) \ {x} = R \cup U
      BY <1>2, <1>4
    <2> HIDE DEF U
    <2> QED
      BY <1>a, <2>1, SumRemove
  <1>7. /\ SumFunctionOnSet(g, U) \in Int /\ SumFunctionOnSet(g, R) \in Int /\ g[x] \in Int
        /\ SumFunctionOnSet(g, R \cup U) \in Int
    <2>1. U \in SUBSET (R \cup S) /\ R \in SUBSET (R \cup S) /\ R \cup U \in SUBSET (R \cup S) /\ x \in R \cup S
      BY <1>2, <1>4
    <2> HIDE DEF U
    <2> QED
      BY <1>a, <2>1 DEF Numbers
  <1>8. Splits(U) /\ ~Splits(T)
    BY <1>2, <1>4
  <1> HIDE DEF U
  <1> QED
    BY <1>5, <1>6, <1>7, <1>8

(* A set that falls into parts, what they are together, and their sums.  *)
FallsInto(part, D, S) ==
  /\ part \in [D -> SUBSET S]
  /\ \A c, d \in D : c # d => part[c] \cap part[d] = {}
AllOf(part, D) == UNION {part[d] : d \in D}
SumsOf(h, g, part, D) == \A d \in D : h[d] = SumFunctionOnSet(g, part[d])

(* The sum over a set that falls into parts is the sum over its parts. *)
LEMMA SumParts ==
  ASSUME NEW g, NEW S, IsFiniteSet(S), Numbers(g, S), NEW D, IsFiniteSet(D),
         NEW part, FallsInto(part, D, S), NEW h, SumsOf(h, g, part, D)
  PROVE  SumFunctionOnSet(g, AllOf(part, D)) = SumFunctionOnSet(h, D)
  <1>b. /\ part \in [D -> SUBSET S] /\ \A c, d \in D : c # d => part[c] \cap part[d] = {}
        /\ \A d \in D : h[d] = SumFunctionOnSet(g, part[d])
    BY DEF FallsInto, SumsOf
  <1> DEFINE InParts(T) == SumFunctionOnSet(g, AllOf(part, T)) = SumFunctionOnSet(h, T)
             B == {T \in SUBSET D : ~InParts(T)}
  <1>1. SUFFICES ASSUME B # {} PROVE FALSE
    OBVIOUS
  <1>2. PICK T \in B : IsFiniteSet(T) /\ \A U \in SUBSET T : U # T => U \notin B
    <2> HIDE DEF B
    <2>1. B \in SUBSET SUBSET D
      BY DEF B
    <2> QED
      BY <1>1, <2>1, MinimalSet
  <1>3. T # {}
    <2>1. InParts({})
      <3>1. AllOf(part, {}) = {}
        BY DEF AllOf
      <3> QED
        BY <3>1, SumEmpty
    <2> HIDE DEF InParts
    <2> QED
      BY <1>2, <2>1
  <1>4. PICK x \in T : TRUE
    BY <1>3
  <1> DEFINE U == T \ {x}
  <1>5. Numbers(h, D)
    <2> SUFFICES ASSUME NEW d \in D PROVE h[d] \in Int
      BY DEF Numbers
    <2>1. IsFiniteSet(part[d]) /\ Numbers(g, part[d])
      BY <1>b, FS_Subset DEF Numbers
    <2> QED
      BY <1>b, <2>1, SumType
  <1>6. SumFunctionOnSet(h, T) = SumFunctionOnSet(h, U) + h[x]
    <2>1. Numbers(h, T)
      BY <1>2, <1>5 DEF Numbers
    <2> QED
      BY <1>2, <1>4, <2>1, SumRemove
  <1>7. SumFunctionOnSet(g, AllOf(part, T)) = SumFunctionOnSet(g, AllOf(part, U)) + h[x]
    <2>1. AllOf(part, T) = AllOf(part, U) \cup part[x] /\ AllOf(part, U) \cap part[x] = {}
      BY <1>2, <1>4, <1>b DEF AllOf
    <2>2. AllOf(part, U) \in SUBSET S /\ part[x] \in SUBSET S /\ x \in D
      BY <1>2, <1>4, <1>b DEF AllOf
    <2> HIDE DEF U
    <2>3. /\ IsFiniteSet(AllOf(part, U)) /\ IsFiniteSet(part[x])
          /\ Numbers(g, AllOf(part, U) \cup part[x])
      BY <2>2, FS_Subset DEF Numbers
    <2>4. SumFunctionOnSet(g, AllOf(part, U) \cup part[x]) = SumFunctionOnSet(g, AllOf(part, U)) + SumFunctionOnSet(g, part[x])
      BY <2>1, <2>3, SumDisjoint
    <2> QED
      BY <1>b, <2>1, <2>2, <2>4
  <1>8. InParts(U) /\ ~InParts(T)
    BY <1>2, <1>4
  <1> HIDE DEF U
  <1> QED
    BY <1>6, <1>7, <1>8

-----------------------------------------------------------------------------
(* A set of numbers has a least one. *)
LEMMA LeastNumber ==
  ASSUME NEW n \in Nat, NEW B \in SUBSET (0 .. n), B # {}
  PROVE  \E m \in B : \A k \in 0 .. m - 1 : k \notin B
  <1> DEFINE Below(m) == 0 .. m
             C == {Below(m) : m \in B}
  <1>1. IsFiniteSet(0 .. n)
    BY FS_Interval
  <1>2. C \in SUBSET SUBSET (0 .. n) /\ C # {}
    <2>1. \A m \in B : Below(m) \in SUBSET (0 .. n)
      OBVIOUS
    <2> QED
      BY <2>1
  <1>3. PICK T \in C : \A U \in SUBSET T : U # T => U \notin C
    <2> HIDE DEF C
    <2> QED
      BY <1>1, <1>2, MinimalSet
  <1>4. PICK m \in B : T = Below(m)
    BY <1>3
  <1>5. ASSUME NEW k \in 0 .. m - 1, k \in B PROVE FALSE
    <2>1. Below(k) \in SUBSET T /\ Below(k) # T
      <3>1. m \in Nat /\ k \in Nat /\ k < m
        BY <1>4
      <3>2. m \in T /\ m \notin Below(k)
        BY <1>4, <3>1
      <3> QED
        BY <1>4, <3>1, <3>2
    <2>2. Below(k) \in C
      BY <1>5
    <2> QED
      BY <1>3, <2>1, <2>2
  <1> QED
    BY <1>5

=============================================================================
