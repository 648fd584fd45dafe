------------------------- MODULE AssistantTurnsProofs -------------------------
(***************************************************************************)
(* The safety of the assistant's turns, for any number of messages, users, *)
(* numbers and days, and any limits.                                       *)
(***************************************************************************)
EXTENDS AssistantTurns, FiniteSetTheorems, TLAPS

-----------------------------------------------------------------------------
(* What SumFunctionOnSet of the module Functions computes over a finite    *)
(* set, for the day's tokens and the reserves. The library's induction      *)
(* theorems take an operator; here induction is over the set of the        *)
(* arguments a statement holds for, which follows from the                  *)
(* well-foundedness of < and of strict inclusion.                          *)

(* Induction over the naturals and over the subsets of a finite set. *)
LEMMA NatSets ==
    ASSUME NEW Good, 0 \in Good, \A n \in Nat : n \in Good => n + 1 \in Good
    PROVE  Nat \subseteq Good
<1> DEFINE Bad == Nat \ Good
<1>1. SUFFICES ASSUME Bad # {} PROVE FALSE OBVIOUS
<1>2. PICK n \in Bad : \A m \in Bad : ~(<<m, n>> \in OpToRel(<, Nat))
  BY <1>1, NatLessThanWellFounded, WFMin
<1>3. \A m \in Bad : ~(m < n) BY <1>2 DEF OpToRel
<1>4. n # 0 /\ n - 1 \in Nat BY DEF Bad
<1>5. n - 1 \in Good BY <1>3, <1>4
<1> QED BY <1>4, <1>5

LEMMA MinimalSet ==
    ASSUME NEW S, IsFiniteSet(S), NEW Bad, Bad \subseteq SUBSET S, Bad # {}
    PROVE  \E T \in Bad : \A U \in Bad : U \subseteq T => U = T
<1>1. Bad \subseteq FiniteSubsetsOf(S) BY FS_FiniteSubsetsOfFinite
<1>2. PICK T \in Bad : \A U \in Bad : ~(<<U, T>> \in StrictSubsetOrdering(S))
  BY <1>1, FS_StrictSubsetOrderingWellFounded, WFMin
<1> QED BY <1>2 DEF StrictSubsetOrdering

LEMMA StrictSubsetInduction ==
    ASSUME NEW S, IsFiniteSet(S), NEW Good,
           \A T \in SUBSET S : (\A U \in SUBSET T : U # T => U \in Good) => T \in Good
    PROVE  SUBSET S \subseteq Good
<1> DEFINE Bad == {T \in SUBSET S : T \notin Good}
<1>1. SUFFICES ASSUME Bad # {} PROVE FALSE OBVIOUS
<1>2. Bad \subseteq SUBSET S OBVIOUS
<1> HIDE DEF Bad
<1>3. PICK T \in Bad : \A U \in Bad : U \subseteq T => U = T BY <1>1, <1>2, MinimalSet
<1>4. T \in SUBSET S /\ T \notin Good BY <1>3 DEF Bad
<1>5. \A U \in SUBSET T : U # T => U \in Good BY <1>3, <1>4 DEF Bad
<1> QED BY <1>4, <1>5

LEMMA SubsetInduction ==
    ASSUME NEW S, IsFiniteSet(S), NEW Good, {} \in Good,
           \A T \in SUBSET S, x \in S : T \in Good /\ x \notin T => T \cup {x} \in Good
    PROVE  SUBSET S \subseteq Good
<1>1. ASSUME NEW T \in SUBSET S, \A U \in SUBSET T : U # T => U \in Good PROVE T \in Good
  <2>1. CASE T = {} BY <2>1
  <2>2. CASE T # {}
    <3>1. PICK x \in T : TRUE BY <2>2
    <3>2. T \ {x} \in Good /\ T = (T \ {x}) \cup {x} /\ x \in S BY <1>1, <3>1
    <3> QED BY <3>2
  <2> QED BY <2>1, <2>2
<1> QED BY <1>1, StrictSubsetInduction

-----------------------------------------------------------------------------
(* The recursion the sum is computed by, on the subsets of S. *)
SumStep(f, g, s) == IF s = {} THEN 0 ELSE f[CHOOSE x \in s : TRUE] + g[s \ {CHOOSE x \in s : TRUE}]
SumIter(f, S) == CHOOSE g : g = [s \in SUBSET S |-> SumStep(f, g, s)]

LEMMA SumIsIter == ASSUME NEW f, NEW S PROVE SumFunctionOnSet(f, S) = SumIter(f, S)[S]
BY DEF SumFunctionOnSet, FoldFunctionOnSet, MapThenFoldSet, SumIter, SumStep

LEMMA IterExists ==
    ASSUME NEW f, NEW S, IsFiniteSet(S)
    PROVE  \E g : g = [s \in SUBSET S |-> SumStep(f, g, s)]
<1> DEFINE Small(n) == {s \in SUBSET S : Cardinality(s) <= n}
           Good == {n \in Nat : \E g : \A s \in Small(n) : g[s] = SumStep(f, g, s)}
<1>1. \A s \in SUBSET S : IsFiniteSet(s) /\ Cardinality(s) \in Nat /\ Cardinality(s) <= Cardinality(S)
  BY FS_Subset, FS_CardinalityType
<1>2. 0 \in Good
  <2>1. \A s \in Small(0) : s = {} BY <1>1, FS_EmptySet
  <2>2. \A s \in Small(0) : [s2 \in SUBSET S |-> 0][s] = SumStep(f, [s2 \in SUBSET S |-> 0], s)
    BY <2>1 DEF SumStep
  <2> QED BY <2>2
<1>3. ASSUME NEW n \in Nat, n \in Good PROVE n + 1 \in Good
  <2>1. PICK g : \A s \in Small(n) : g[s] = SumStep(f, g, s) BY <1>3
  <2> DEFINE h == [s \in SUBSET S |-> SumStep(f, g, s)]
  <2>2. ASSUME NEW s \in Small(n + 1) PROVE h[s] = SumStep(f, h, s)
    <3>1. CASE s = {} BY <3>1 DEF SumStep
    <3>2. CASE s # {}
      <4> DEFINE c == CHOOSE x \in s : TRUE
      <4>1. c \in s BY <3>2
      <4> HIDE DEF c
      <4>2. s \ {c} \in Small(n) BY <1>1, <4>1, FS_RemoveElement
      <4>3. h[s \ {c}] = SumStep(f, g, s \ {c}) /\ g[s \ {c}] = SumStep(f, g, s \ {c})
        BY <2>1, <4>2
      <4>4. h[s] = f[c] + g[s \ {c}] /\ SumStep(f, h, s) = f[c] + h[s \ {c}]
        BY <3>2 DEF SumStep, c
      <4> QED BY <4>3, <4>4
    <3> QED BY <3>1, <3>2
  <2> HIDE DEF h
  <2> QED BY <2>2
<1>4. Cardinality(S) \in Good
  <2> HIDE DEF Good
  <2>1. Nat \subseteq Good BY <1>2, <1>3, NatSets
  <2> QED BY <1>1, <2>1
<1>5. PICK g : \A s \in SUBSET S : g[s] = SumStep(f, g, s) BY <1>1, <1>4
<1> DEFINE h == [s \in SUBSET S |-> SumStep(f, g, s)]
<1>6. ASSUME NEW s \in SUBSET S PROVE SumStep(f, g, s) = SumStep(f, h, s)
  <2>1. CASE s = {} BY <2>1 DEF SumStep
  <2>2. CASE s # {}
    <3> DEFINE c == CHOOSE x \in s : TRUE
    <3>1. c \in s BY <2>2
    <3> HIDE DEF c
    <3>2. h[s \ {c}] = g[s \ {c}] BY <1>5
    <3> QED BY <2>2, <3>2 DEF SumStep, c
  <2> QED BY <2>1, <2>2
<1>7. h = [s \in SUBSET S |-> SumStep(f, h, s)] BY <1>6
<1> QED BY <1>7

LEMMA IterUnfolds ==
    ASSUME NEW f, NEW S, IsFiniteSet(S), NEW s \in SUBSET S
    PROVE  SumIter(f, S)[s] = SumStep(f, SumIter(f, S), s)
<1> DEFINE g == SumIter(f, S)
<1>1. g = [r \in SUBSET S |-> SumStep(f, g, r)] BY IterExists DEF SumIter
<1> HIDE DEF g
<1>2. g[s] = SumStep(f, g, s) BY <1>1
<1> QED BY <1>2 DEF g

(* A subset's sum does not depend on the set it is part of. *)
LEMMA IterOfSubset ==
    ASSUME NEW f, NEW S, IsFiniteSet(S), NEW T \in SUBSET S
    PROVE  SumIter(f, S)[T] = SumIter(f, T)[T]
<1> DEFINE Good == {s \in SUBSET T : SumIter(f, S)[s] = SumIter(f, T)[s]}
<1>1. IsFiniteSet(T) BY FS_Subset
<1>2. ASSUME NEW s \in SUBSET T, \A r \in SUBSET s : r # s => r \in Good PROVE s \in Good
  <2>1. /\ SumIter(f, S)[s] = SumStep(f, SumIter(f, S), s)
        /\ SumIter(f, T)[s] = SumStep(f, SumIter(f, T), s)
    BY <1>1, IterUnfolds
  <2>2. CASE s = {} BY <2>1, <2>2 DEF SumStep
  <2>3. CASE s # {}
    <3> DEFINE c == CHOOSE y \in s : TRUE
    <3>1. c \in s BY <2>3
    <3> HIDE DEF c
    <3>2. SumIter(f, S)[s \ {c}] = SumIter(f, T)[s \ {c}] BY <1>2, <3>1
    <3> QED BY <2>1, <2>3, <3>2 DEF SumStep, c
  <2> QED BY <2>2, <2>3
<1> HIDE DEF Good
<1>3. T \in Good BY <1>1, <1>2, StrictSubsetInduction
<1> QED BY <1>3 DEF Good

(* The recursion, for the sum itself: the element it takes first is fixed,   *)
(* but unknown.                                                              *)
LEMMA SumUnfolds ==
    ASSUME NEW f, NEW S, IsFiniteSet(S), S # {}
    PROVE  \E c \in S : SumFunctionOnSet(f, S) = f[c] + SumFunctionOnSet(f, S \ {c})
<1> DEFINE c == CHOOSE x \in S : TRUE
<1>1. c \in S OBVIOUS
<1> HIDE DEF c
<1>2. SumIter(f, S)[S] = SumStep(f, SumIter(f, S), S) BY IterUnfolds
<1>3. SumStep(f, SumIter(f, S), S) = f[c] + SumIter(f, S)[S \ {c}] BY DEF SumStep, c
<1>4. SumIter(f, S)[S \ {c}] = SumIter(f, S \ {c})[S \ {c}] BY IterOfSubset
<1>5. /\ SumFunctionOnSet(f, S) = SumIter(f, S)[S]
      /\ SumFunctionOnSet(f, S \ {c}) = SumIter(f, S \ {c})[S \ {c}]
  BY SumIsIter
<1> QED BY <1>1, <1>2, <1>3, <1>4, <1>5

LEMMA SumOfNone == \A f : SumFunctionOnSet(f, {}) = 0
<1> SUFFICES ASSUME NEW f PROVE SumFunctionOnSet(f, {}) = 0 OBVIOUS
<1>1. SumIter(f, {})[{}] = SumStep(f, SumIter(f, {}), {}) BY IterUnfolds, FS_EmptySet
<1> QED BY <1>1, SumIsIter DEF SumStep

LEMMA SumType ==
    ASSUME NEW S, IsFiniteSet(S), NEW f, \A x \in S : f[x] \in Int
    PROVE  SumFunctionOnSet(f, S) \in Int
<1> DEFINE Good == {T \in SUBSET S : SumFunctionOnSet(f, T) \in Int}
<1>1. ASSUME NEW T \in SUBSET S, \A U \in SUBSET T : U # T => U \in Good PROVE T \in Good
  <2>1. CASE T = {} BY <2>1, SumOfNone
  <2>2. CASE T # {}
    <3>1. PICK c \in T : SumFunctionOnSet(f, T) = f[c] + SumFunctionOnSet(f, T \ {c})
      BY <2>2, FS_Subset, SumUnfolds
    <3>2. T \ {c} \in SUBSET T /\ T \ {c} # T BY <3>1
    <3>3. SumFunctionOnSet(f, T \ {c}) \in Int BY <1>1, <3>2
    <3> QED BY <3>1, <3>3
  <2> QED BY <2>1, <2>2
<1> HIDE DEF Good
<1>2. S \in Good BY <1>1, StrictSubsetInduction
<1> QED BY <1>2 DEF Good

(* Any element may be taken out. *)
LEMMA SumTakes ==
    ASSUME NEW S, IsFiniteSet(S), NEW f, \A x \in S : f[x] \in Int, NEW p \in S
    PROVE  SumFunctionOnSet(f, S) = f[p] + SumFunctionOnSet(f, S \ {p})
<1> DEFINE Sum(T) == SumFunctionOnSet(f, T)
           Good == {T \in SUBSET S : \A x \in T : Sum(T) = f[x] + Sum(T \ {x})}
<1>1. ASSUME NEW T \in SUBSET S PROVE IsFiniteSet(T) /\ Sum(T) \in Int
  <2>1. IsFiniteSet(T) /\ \A x \in T : f[x] \in Int BY FS_Subset
  <2> QED BY <2>1, SumType
<1>2. \A T \in SUBSET S : T # {} => \E c \in T : Sum(T) = f[c] + Sum(T \ {c}) BY <1>1, SumUnfolds
<1> HIDE DEF Sum
<1>3. ASSUME NEW T \in SUBSET S, \A U \in SUBSET T : U # T => U \in Good PROVE T \in Good
  <2>1. SUFFICES ASSUME NEW x \in T PROVE Sum(T) = f[x] + Sum(T \ {x}) OBVIOUS
  <2>2. PICK c \in T : Sum(T) = f[c] + Sum(T \ {c}) BY <1>2, <2>1
  <2>3. CASE c = x BY <2>2, <2>3
  <2>4. CASE c # x
    <3> DEFINE R == T \ {c, x}
    <3>1. T \ {c} \in Good /\ T \ {x} \in Good BY <1>3, <2>1, <2>2
    <3>2. /\ x \in T \ {c} /\ (T \ {c}) \ {x} = R
          /\ c \in T \ {x} /\ (T \ {x}) \ {c} = R
      BY <2>1, <2>2, <2>4
    <3>3. Sum(T \ {c}) = f[x] + Sum(R) /\ Sum(T \ {x}) = f[c] + Sum(R) BY <3>1, <3>2
    <3>4. f[x] \in Int /\ f[c] \in Int /\ Sum(R) \in Int BY <1>1, <2>1, <2>2
    <3> HIDE DEF R
    <3> QED BY <2>2, <3>3, <3>4
  <2> QED BY <2>3, <2>4
<1>4. S \in Good
  <2> HIDE DEF Good
  <2> QED BY <1>3, StrictSubsetInduction
<1> QED BY <1>4 DEF Sum

-----------------------------------------------------------------------------
(* How two sums over a set compare. *)
LEMMA SumMonotone ==
    ASSUME NEW S, IsFiniteSet(S), NEW f, NEW g, \A x \in S : f[x] \in Int /\ g[x] \in Int /\ f[x] <= g[x]
    PROVE  SumFunctionOnSet(f, S) <= SumFunctionOnSet(g, S)
<1> DEFINE Good == {T \in SUBSET S : SumFunctionOnSet(f, T) <= SumFunctionOnSet(g, T)}
<1>1. {} \in Good BY SumOfNone
<1>2. ASSUME NEW T \in SUBSET S, NEW x \in S, T \in Good, x \notin T PROVE T \cup {x} \in Good
  <2> DEFINE U == T \cup {x}
  <2>1. U \in SUBSET S /\ x \in U /\ U \ {x} = T BY <1>2
  <2>2. IsFiniteSet(U) /\ IsFiniteSet(T) BY <2>1, FS_Subset
  <2>3. \A y \in U : f[y] \in Int /\ g[y] \in Int BY <2>1
  <2> HIDE DEF U
  <2>4. /\ SumFunctionOnSet(f, U) = f[x] + SumFunctionOnSet(f, T)
        /\ SumFunctionOnSet(g, U) = g[x] + SumFunctionOnSet(g, T)
    BY <2>1, <2>2, <2>3, SumTakes
  <2>5. SumFunctionOnSet(f, T) \in Int /\ SumFunctionOnSet(g, T) \in Int
    BY <2>2, SumType
  <2> QED BY <1>2, <2>1, <2>4, <2>5 DEF U
<1> HIDE DEF Good
<1>3. S \in Good BY <1>1, <1>2, SubsetInduction
<1> QED BY <1>3 DEF Good

LEMMA SumCongruence ==
    ASSUME NEW S, IsFiniteSet(S), NEW f, NEW g, \A x \in S : f[x] \in Int /\ g[x] = f[x]
    PROVE  SumFunctionOnSet(f, S) = SumFunctionOnSet(g, S)
<1>1. SumFunctionOnSet(f, S) <= SumFunctionOnSet(g, S) BY SumMonotone
<1>2. SumFunctionOnSet(g, S) <= SumFunctionOnSet(f, S) BY SumMonotone
<1>3. SumFunctionOnSet(f, S) \in Int /\ SumFunctionOnSet(g, S) \in Int BY SumType
<1> QED BY <1>1, <1>2, <1>3

(* One element changes. *)
LEMMA SumChange ==
    ASSUME NEW S, IsFiniteSet(S), NEW f, NEW g, NEW p \in S,
           \A x \in S : f[x] \in Int /\ g[x] \in Int /\ (x # p => g[x] = f[x])
    PROVE  SumFunctionOnSet(g, S) = SumFunctionOnSet(f, S) - f[p] + g[p]
<1>1. IsFiniteSet(S \ {p}) BY FS_Subset
<1>2. SumFunctionOnSet(f, S \ {p}) = SumFunctionOnSet(g, S \ {p})
  <2>1. \A x \in S \ {p} : f[x] \in Int /\ g[x] = f[x] OBVIOUS
  <2> QED BY <1>1, <2>1, SumCongruence
<1>3. SumFunctionOnSet(f, S \ {p}) \in Int BY <1>1, SumType
<1>4. /\ SumFunctionOnSet(f, S) = f[p] + SumFunctionOnSet(f, S \ {p})
      /\ SumFunctionOnSet(g, S) = g[p] + SumFunctionOnSet(g, S \ {p})
  BY SumTakes
<1> QED BY <1>2, <1>3, <1>4

(* A sum over a part is a sum over the whole. *)
Part(f, T, S) == [x \in S |-> IF x \in T THEN f[x] ELSE 0]

LEMMA SumOfPart ==
    ASSUME NEW S, IsFiniteSet(S), NEW T \in SUBSET S, NEW f, \A x \in T : f[x] \in Int
    PROVE  SumFunctionOnSet(f, T) = SumFunctionOnSet(Part(f, T, S), S)
<1> DEFINE g == Part(f, T, S)
           Good == {U \in SUBSET S : SumFunctionOnSet(f, T \cap U) = SumFunctionOnSet(g, U)}
<1>1. {} \in Good BY SumOfNone
<1>2. ASSUME NEW U \in SUBSET S, NEW x \in S, U \in Good, x \notin U PROVE U \cup {x} \in Good
  <2> DEFINE V == U \cup {x}
  <2>1. V \in SUBSET S /\ x \in V /\ V \ {x} = U BY <1>2
  <2>2. IsFiniteSet(V) /\ IsFiniteSet(U) /\ IsFiniteSet(T \cap V) BY <2>1, FS_Subset
  <2>3. \A y \in S : g[y] = IF y \in T THEN f[y] ELSE 0 BY DEF Part
  <2>4. \A y \in S : g[y] \in Int BY <2>3
  <2> HIDE DEF V, g
  <2>5. SumFunctionOnSet(g, V) = g[x] + SumFunctionOnSet(g, U) BY <2>1, <2>2, <2>4, SumTakes
  <2>6. SumFunctionOnSet(g, U) \in Int BY <2>2, <2>4, SumType
  <2>7. CASE x \in T
    <3>1. x \in T \cap V /\ (T \cap V) \ {x} = T \cap U BY <1>2, <2>1, <2>7
    <3>2. SumFunctionOnSet(f, T \cap V) = f[x] + SumFunctionOnSet(f, T \cap U)
      BY <2>2, <3>1, SumTakes
    <3> QED BY <1>2, <2>1, <2>3, <2>5, <2>7, <3>2 DEF V
  <2>8. CASE x \notin T
    <3>1. T \cap V = T \cap U BY <1>2, <2>1, <2>8
    <3>2. g[x] = 0 BY <1>2, <2>3, <2>8
    <3>3. SumFunctionOnSet(g, V) = SumFunctionOnSet(g, U) BY <2>5, <2>6, <3>2
    <3> QED BY <1>2, <2>1, <3>1, <3>3 DEF V
  <2> QED BY <2>7, <2>8
<1>3. S \in Good
  <2> HIDE DEF Good
  <2> QED BY <1>1, <1>2, SubsetInduction
<1>4. T \cap S = T OBVIOUS
<1> HIDE DEF g
<1> QED BY <1>3, <1>4 DEF g

LEMMA SumAdds ==
    ASSUME NEW S, IsFiniteSet(S), NEW f, NEW g, NEW h,
           \A x \in S : f[x] \in Int /\ g[x] \in Int /\ h[x] = f[x] + g[x]
    PROVE  SumFunctionOnSet(h, S) = SumFunctionOnSet(f, S) + SumFunctionOnSet(g, S)
<1> DEFINE Good == {T \in SUBSET S : SumFunctionOnSet(h, T) = SumFunctionOnSet(f, T) + SumFunctionOnSet(g, T)}
<1>1. {} \in Good BY SumOfNone
<1>2. ASSUME NEW T \in SUBSET S, NEW x \in S, T \in Good, x \notin T PROVE T \cup {x} \in Good
  <2> DEFINE U == T \cup {x}
  <2>1. U \in SUBSET S /\ x \in U /\ U \ {x} = T BY <1>2
  <2>2. IsFiniteSet(U) /\ IsFiniteSet(T) BY <2>1, FS_Subset
  <2>3. \A y \in U : f[y] \in Int /\ g[y] \in Int /\ h[y] \in Int BY <2>1
  <2> HIDE DEF U
  <2>4. /\ SumFunctionOnSet(f, U) = f[x] + SumFunctionOnSet(f, T)
        /\ SumFunctionOnSet(g, U) = g[x] + SumFunctionOnSet(g, T)
        /\ SumFunctionOnSet(h, U) = h[x] + SumFunctionOnSet(h, T)
    BY <2>1, <2>2, <2>3, SumTakes
  <2>5. SumFunctionOnSet(f, T) \in Int /\ SumFunctionOnSet(g, T) \in Int
    BY <2>2, SumType
  <2> QED BY <1>2, <2>1, <2>3, <2>4, <2>5 DEF U
<1> HIDE DEF Good
<1>3. S \in Good BY <1>1, <1>2, SubsetInduction
<1> QED BY <1>3 DEF Good

LEMMA SumOfConstant ==
    ASSUME NEW S, IsFiniteSet(S), NEW k \in Int, NEW f, \A x \in S : f[x] = k
    PROVE  SumFunctionOnSet(f, S) = k * Cardinality(S)
<1> DEFINE Good == {T \in SUBSET S : SumFunctionOnSet(f, T) = k * Cardinality(T)}
<1>1. {} \in Good BY SumOfNone, FS_EmptySet
<1>2. ASSUME NEW T \in SUBSET S, NEW x \in S, T \in Good, x \notin T PROVE T \cup {x} \in Good
  <2> DEFINE U == T \cup {x}
  <2>1. U \in SUBSET S /\ x \in U /\ U \ {x} = T BY <1>2
  <2>2. IsFiniteSet(U) /\ IsFiniteSet(T) BY <2>1, FS_Subset
  <2>3. \A y \in U : f[y] \in Int BY <2>1
  <2>4. Cardinality(T) \in Nat /\ Cardinality(U) = Cardinality(T) + 1
    BY <1>2, <2>2, FS_AddElement, FS_CardinalityType
  <2> HIDE DEF U
  <2>5. SumFunctionOnSet(f, U) = f[x] + SumFunctionOnSet(f, T) BY <2>1, <2>2, <2>3, SumTakes
  <2>6. k * (Cardinality(T) + 1) = k + k * Cardinality(T) BY <2>4
  <2> QED BY <1>2, <2>1, <2>4, <2>5, <2>6 DEF U
<1> HIDE DEF Good
<1>3. S \in Good BY <1>1, <1>2, SubsetInduction
<1> QED BY <1>3 DEF Good

LEMMA SumNat ==
    ASSUME NEW S, IsFiniteSet(S), NEW f, \A x \in S : f[x] \in Nat
    PROVE  SumFunctionOnSet(f, S) \in Nat
<1> DEFINE zero == [x \in S |-> 0]
<1>1. \A x \in S : zero[x] \in Int /\ f[x] \in Int /\ zero[x] <= f[x] OBVIOUS
<1>2. \A x \in S : zero[x] = 0 OBVIOUS
<1> HIDE DEF zero
<1>3. SumFunctionOnSet(zero, S) = 0 * Cardinality(S) BY <1>2, SumOfConstant
<1>4. Cardinality(S) \in Nat BY FS_CardinalityType
<1>5. SumFunctionOnSet(zero, S) <= SumFunctionOnSet(f, S) BY <1>1, SumMonotone
<1>6. SumFunctionOnSet(f, S) \in Int BY <1>1, SumType
<1> QED BY <1>3, <1>4, <1>5, <1>6

-----------------------------------------------------------------------------
(* Where a turn is says how far its registers are filled. *)
Waiting == {"seeding", "seeded"}
BeforeSave == {"count", "ask", "summarise", "save", "insert"}

Registers(p) ==
    /\ pc[p] = "unborn" => turn[p] = NoTurn
    /\ pc[p] # "unborn" => turn[p].day \in Days /\ turn[p].day <= today
    /\ pc[p] \in Waiting \cup {"load", "count"} => turn[p].calls = 0
    /\ pc[p] = "ask" => turn[p].calls < MaxIterations
    /\ pc[p] = "summarise" => turn[p].calls <= MaxIterations
    /\ turn[p].calls <= MaxIterations + 1
    /\ pc[p] \notin Idle /\ turn[p].conv # NoConversation => Stored(turn[p].conv)
    /\ pc[p] = "insert" => turn[p].conv # NoConversation

(* A message is written once, late, with its turn's bill. *)
Messages(p) ==
    /\ pc[p] \notin {"saved", "done"} => ~Written(p)
    /\ ~Written(p) => msg[p] = NoMessage
    /\ Written(p) => /\ msg[p].tokens = turn[p].calls
                     /\ turn[p].day <= msg[p].at /\ msg[p].at <= today
                     /\ msg[p].conv \in Conversations /\ Stored(msg[p].conv)

Rows == \A c \in Conversations : ~Stored(c) => conv[c] = NoRow

SeedDay == seed.at # "none" => seed.day \in Days

TypeInv == TypeOK /\ Rows /\ SeedDay /\ \A p \in Turns : Registers(p) /\ Messages(p)

-----------------------------------------------------------------------------
(* Every step is one turn's, the seeding's, the clock's or a crash's. *)
Moves(p) ==
    /\ today' = today
    /\ \A q \in Turns \ {p} : pc'[q] = pc[q] /\ turn'[q] = turn[q] /\ msg'[q] = msg[q]
    /\ \A c \in Conversations : Stored(c) => Stored(c)'

LEMMA OthersKeep ==
    ASSUME TypeInv, NEW p \in Turns, Moves(p)
    PROVE  \A q \in Turns \ {p} : Registers(q)' /\ Messages(q)'
<1> SUFFICES ASSUME NEW q \in Turns \ {p} PROVE Registers(q)' /\ Messages(q)' OBVIOUS
<1>1. Registers(q) /\ Messages(q) /\ turn[q].conv \in Conversations \cup {NoConversation}
  BY DEF TypeInv, TypeOK, Turn
<1>2. Registers(q)' BY <1>1 DEF Moves, Registers, Stored
<1>3. Messages(q)' BY <1>1 DEF Moves, Messages, Written
<1> QED BY <1>2, <1>3

LEMMA FiniteTurns == IsFiniteSet(Turns) BY TurnsAssumption

LEMMA TokensAreNat == ASSUME TypeInv, NEW day PROVE TokensSince(day) \in Nat
<1> DEFINE T == {p \in Turns : msg[p].at >= day}
<1>1. IsFiniteSet(T) BY TurnsAssumption, FS_Subset
<1>2. \A p \in T : Tokens[p] \in Nat BY DEF Tokens, TypeInv, TypeOK, Message
<1> QED BY <1>1, <1>2, SumNat DEF TokensSince

LEMMA TypeInit == Init => TypeInv
<1> SUFFICES ASSUME Init PROVE TypeInv OBVIOUS
<1> USE DEF Init, NoTurn, NoRow, NoMessage, NoSeed, NoDay, NoConversation
<1>1. TypeOK BY TurnsAssumption DEF TypeOK, Turn, Conversation, Message, Days, Idle, Visitors
<1>2. Rows /\ SeedDay BY DEF Rows, SeedDay
<1>3. \A p \in Turns : Registers(p) /\ Messages(p)
  BY TurnsAssumption DEF Registers, Messages, Written, Waiting, Idle
<1> QED BY <1>1, <1>2, <1>3 DEF TypeInv

(* A step of one turn keeps the invariant if it keeps the turn's own part. *)
LEMMA TurnKeeps ==
    ASSUME TypeInv, NEW p \in Turns, Moves(p), TypeOK', Rows', SeedDay', Registers(p)', Messages(p)'
    PROVE  TypeInv'
BY OthersKeep DEF TypeInv

LEMMA TypeBegin ==
    ASSUME TypeInv, NEW p \in Turns, NEW who \in Visitors, NEW c \in Conversations \cup {NoConversation},
           c # NoConversation => Stored(c), Begin(p, who, c)
    PROVE  TypeInv'
<1>1. Moves(p) BY DEF Begin, Moves, Reservar, Goto, Stored, TypeInv, TypeOK
<1>2. /\ turn' = [turn EXCEPT ![p] = [NoTurn EXCEPT !.who = who, !.day = today, !.conv = c]]
      /\ pc[p] = "unborn" /\ UNCHANGED <<today, conv, msg>>
      /\ \E s \in {"load", "done", "seeding"} : /\ pc' = [pc EXCEPT ![p] = s]
                                                /\ s = "seeding" => seed'.at # "none"
  BY DEF Begin, Reservar, Goto, TypeInv, TypeOK
<1>3. /\ ledger' \in [day : Days \cup {NoDay}, spent : Nat]
      /\ seed' \in [at : {"none", "asked", "read"}, day : Days \cup {NoDay}, total : Nat]
      /\ SeedDay' /\ (seed.at # "none" => seed'.at # "none")
  BY TurnsAssumption DEF Begin, Reservar, TypeInv, TypeOK, SeedDay
<1>4. TypeOK'
  <2>1. turn' \in [Turns -> Turn]
    BY <1>2, TurnsAssumption DEF TypeInv, TypeOK, Turn, NoTurn
  <2>2. pc' \in [Turns -> Idle \cup {"seeding", "seeded", "load", "count", "ask", "summarise",
                                   "save", "insert", "saved"}]
    BY <1>2 DEF TypeInv, TypeOK, Idle
  <2> QED BY <1>2, <1>3, <2>1, <2>2 DEF TypeInv, TypeOK
<1>5. Rows' BY <1>2 DEF TypeInv, Rows, Stored
<1>6. Registers(p)'
  BY <1>2, TurnsAssumption DEF Registers, TypeInv, TypeOK, Days, NoTurn, Waiting, Idle, Stored
<1>7. Messages(p)' BY <1>2 DEF Messages, TypeInv, TypeOK, Written, NoDay, NoMessage
<1> QED BY <1>1, <1>3, <1>4, <1>5, <1>6, <1>7, TurnKeeps

LEMMA TypeEnd ==
    ASSUME TypeInv, NEW p \in Turns, InFlight(p), End(p), UNCHANGED <<today, conv, msg, seed>>
    PROVE  TypeInv'
<1>1. Moves(p) BY DEF End, Goto, Moves, Stored, TypeInv, TypeOK
<1>2. Registers(p) /\ Messages(p) BY DEF TypeInv
<1>3. /\ turn'[p] = Ended(turn[p]) /\ pc'[p] = "done" /\ turn[p] \in Turn /\ msg[p] \in Message
      /\ today \in Days
  BY DEF End, Goto, TypeInv, TypeOK
<1>4. TypeOK'
  <2>1. turn' \in [Turns -> Turn]
    BY TurnsAssumption DEF End, Ended, TypeInv, TypeOK, Turn, NoTurn, Visitors
  <2>2. pc' \in [Turns -> Idle \cup {"seeding", "seeded", "load", "count", "ask", "summarise",
                                   "save", "insert", "saved"}]
    BY DEF End, Goto, TypeInv, TypeOK, Idle
  <2>3. ledger' \in [day : Days \cup {NoDay}, spent : Nat]
    BY <1>3, TurnsAssumption DEF End, Liquidated, TypeInv, TypeOK, Turn
  <2>4. \A q \in Turns : pc'[q] = "seeding" => seed'.at # "none"
    BY DEF End, Goto, TypeInv, TypeOK
  <2> QED BY <2>1, <2>2, <2>3, <2>4 DEF TypeInv, TypeOK
<1>5. Rows' /\ SeedDay' BY DEF TypeInv, Rows, Stored, SeedDay
<1>6. Registers(p)'
  BY <1>2, <1>3, TurnsAssumption DEF Registers, Ended, Turn, NoTurn, Waiting, Idle, InFlight
<1>7. Messages(p)' BY <1>2, <1>3 DEF Messages, Ended, Turn, NoTurn, Written, Stored
<1> QED BY <1>1, <1>4, <1>5, <1>6, <1>7, TurnKeeps

LEMMA TypeResume == ASSUME TypeInv, NEW p \in Turns, Resume(p) PROVE TypeInv'
<1>1. Moves(p) BY DEF Resume, Reservar, Goto, Moves, Stored, TypeInv, TypeOK
<1>2. Registers(p) /\ Messages(p) BY DEF TypeInv
<1>3. /\ pc[p] = "seeded" /\ UNCHANGED <<today, turn, conv, msg, seed>>
      /\ \E s \in {"load", "done"} : pc' = [pc EXCEPT ![p] = s]
  BY DEF Resume, Reservar, Goto
<1>4. TypeOK'
  <2>1. ledger' \in [day : Days \cup {NoDay}, spent : Nat]
    BY TurnsAssumption DEF Resume, Reservar, TypeInv, TypeOK
  <2> QED BY <1>3, <2>1 DEF TypeInv, TypeOK, Idle
<1>5. Rows' /\ SeedDay' BY <1>3 DEF TypeInv, Rows, Stored, SeedDay
<1>6. Registers(p)' BY <1>2, <1>3 DEF Registers, Waiting, Idle, Stored, TypeInv, TypeOK
<1>7. Messages(p)' BY <1>2, <1>3 DEF Messages, Written, Stored, TypeInv, TypeOK
<1> QED BY <1>1, <1>4, <1>5, <1>6, <1>7, TurnKeeps

(* A step in memory changes the turn's own registers and nothing else. *)
InMemory(p, s, t) ==
    /\ pc[p] \in {"load", "count", "ask", "summarise"}
    /\ pc' = [pc EXCEPT ![p] = s] /\ turn' = [turn EXCEPT ![p] = t]
    /\ UNCHANGED <<today, conv, msg, ledger, seed>>

LEMMA TypeInMemory ==
    ASSUME TypeInv, NEW p \in Turns, NEW t \in Turn, NEW s \in {"count", "ask", "summarise", "save"},
           InMemory(p, s, t), t.day = turn[p].day, t.conv # NoConversation => Stored(t.conv),
           s = "count" => t.calls = 0, s = "ask" => t.calls < MaxIterations,
           s = "summarise" => t.calls <= MaxIterations, t.calls <= MaxIterations + 1
    PROVE  TypeInv'
<1> USE DEF InMemory
<1>1. Moves(p) BY DEF Moves, Stored, TypeInv, TypeOK
<1>2. Registers(p) /\ Messages(p) BY DEF TypeInv
<1>3. turn'[p] = t /\ pc'[p] = s BY DEF TypeInv, TypeOK
<1>4. TypeOK'
  <2>1. turn' \in [Turns -> Turn] BY DEF TypeInv, TypeOK
  <2> QED BY <2>1 DEF TypeInv, TypeOK, Idle
<1>5. Rows' /\ SeedDay' BY DEF TypeInv, Rows, Stored, SeedDay
<1>6. Registers(p)' BY <1>2, <1>3 DEF Registers, Waiting, Idle, Stored
<1>7. Messages(p)' BY <1>2, <1>3 DEF Messages, Written, Stored
<1> QED BY <1>1, <1>4, <1>5, <1>6, <1>7, TurnKeeps

LEMMA MessagesAreNat == ASSUME NEW c PROVE MessagesOf(c) \in Nat
<1>1. IsFiniteSet({p \in Turns : msg[p].conv = c}) BY TurnsAssumption, FS_Subset
<1> QED BY <1>1, FS_CardinalityType DEF MessagesOf

(* What loadOrStart leaves in memory. *)
LEMMA LoadedType ==
    ASSUME TypeInv, NEW p \in Turns, pc[p] = "load"
    PROVE  /\ Started(p) \in Turn /\ Started(p).day = turn[p].day /\ Started(p).calls = 0
           /\ Started(p).conv = NoConversation /\ Started(p).who = turn[p].who
           /\ \A c \in Conversations : /\ Loaded(p, c) \in Turn /\ Loaded(p, c).day = turn[p].day
                                       /\ Loaded(p, c).calls = 0 /\ Loaded(p, c).conv = c
                                       /\ Loaded(p, c).who = turn[p].who
<1>1. turn[p] \in Turn /\ turn[p].calls = 0
  BY DEF TypeInv, TypeOK, Registers, Waiting
<1>2. /\ Started(p) \in Turn /\ Started(p).day = turn[p].day /\ Started(p).calls = 0
      /\ Started(p).conv = NoConversation /\ Started(p).who = turn[p].who
  BY <1>1 DEF Started, Turn
<1>3. ASSUME NEW c \in Conversations
      PROVE  /\ Loaded(p, c) \in Turn /\ Loaded(p, c).day = turn[p].day
             /\ Loaded(p, c).calls = 0 /\ Loaded(p, c).conv = c /\ Loaded(p, c).who = turn[p].who
  <2>1. conv[c].owner \in Users \cup {Nobody} /\ MessagesOf(c) \in Nat
    BY MessagesAreNat DEF TypeInv, TypeOK, Conversation
  <2> QED BY <1>1, <2>1 DEF Loaded, Turn
<1> QED BY <1>2, <1>3

LEMMA TypeLoadPhone == ASSUME TypeInv, NEW p \in Turns, LoadPhone(p) PROVE TypeInv'
<1>1. PICK t \in {Started(p)} \cup {Loaded(p, c) : c \in Findable(p)} : InMemory(p, "count", t)
  BY DEF LoadPhone, InMemory, Goto
<1>2. \A c \in Findable(p) : c \in Conversations /\ Stored(c) BY DEF Findable, ActiveByPhone
<1>3. t \in Turn /\ t.day = turn[p].day /\ t.calls = 0 /\ (t.conv # NoConversation => Stored(t.conv))
  BY <1>1, <1>2, LoadedType DEF LoadPhone
<1> QED BY <1>1, <1>3, TypeInMemory, TurnsAssumption

LEMMA TypeLoadWeb == ASSUME TypeInv, NEW p \in Turns, LoadWeb(p) PROVE TypeInv'
<1> DEFINE c == turn[p].conv
<1>1. CASE End(p)
  BY <1>1, TypeEnd DEF LoadWeb, InFlight
<1>2. CASE ~End(p)
  <2>1. PICK t \in {Started(p), Loaded(p, c)} :
          InMemory(p, "count", t) /\ (t = Started(p) \/ c # NoConversation)
    BY <1>2 DEF LoadWeb, InMemory, Goto
  <2>2. pc[p] = "load" /\ (c # NoConversation => c \in Conversations /\ Stored(c))
    BY DEF LoadWeb, TypeInv, TypeOK, Turn, Registers, Idle
  <2>3. t \in Turn /\ t.day = turn[p].day /\ t.calls = 0 /\ (t.conv # NoConversation => Stored(t.conv))
    BY <2>1, <2>2, LoadedType
  <2> QED BY <2>1, <2>3, TypeInMemory, TurnsAssumption
<1> QED BY <1>1, <1>2

LEMMA TypeCount == ASSUME TypeInv, NEW p \in Turns, Count(p) PROVE TypeInv'
<1>1. CASE End(p) BY <1>1, TypeEnd DEF Count, InFlight
<1>2. CASE ~End(p)
  <2>1. /\ turn[p] \in Turn /\ turn[p].calls = 0
        /\ turn[p].conv # NoConversation => Stored(turn[p].conv)
    BY DEF Count, TypeInv, TypeOK, Registers, Waiting, Idle
  <2>2. InMemory(p, "ask", turn[p]) BY <1>2 DEF Count, InMemory, Goto, TypeInv, TypeOK
  <2> QED BY <2>1, <2>2, TypeInMemory, TurnsAssumption
<1> QED BY <1>1, <1>2

(* A call more. *)
Asked(p) == [turn[p] EXCEPT !.calls = @ + 1]

LEMMA AskedType ==
    ASSUME TypeInv, NEW p \in Turns, pc[p] \in {"ask", "summarise"}
    PROVE  /\ Asked(p) \in Turn /\ Asked(p).day = turn[p].day /\ Asked(p).calls = turn[p].calls + 1
           /\ Asked(p).calls \in Nat
           /\ Asked(p).conv = turn[p].conv /\ Asked(p).who = turn[p].who
           /\ Asked(p).conv # NoConversation => Stored(Asked(p).conv)
           /\ pc[p] = "ask" => turn[p].calls < MaxIterations
           /\ pc[p] = "summarise" => turn[p].calls <= MaxIterations
<1>1. turn[p] \in Turn /\ Registers(p) BY DEF TypeInv, TypeOK
<1> QED BY <1>1 DEF Asked, Turn, Registers, Idle

LEMMA AskMoves ==
    ASSUME TypeInv, NEW p \in Turns, Ask(p)
    PROVE  /\ pc[p] = "ask"
           /\ \E s \in {"ask", "summarise", "save"} :
                InMemory(p, s, Asked(p)) /\ (s = "ask" => Asked(p).calls < MaxIterations)
<1>1. /\ pc[p] = "ask" /\ turn' = [turn EXCEPT ![p] = Asked(p)] /\ turn'[p] = Asked(p)
      /\ UNCHANGED <<today, conv, msg, ledger, seed>>
  BY DEF Ask, Asked, TypeInv, TypeOK
<1>2. \E s \in {"ask", "summarise", "save"} :
        pc' = [pc EXCEPT ![p] = s] /\ (s = "ask" => Asked(p).calls < MaxIterations)
  BY <1>1 DEF Ask, Goto, Iterates
<1> QED BY <1>1, <1>2 DEF InMemory

LEMMA TypeAsk == ASSUME TypeInv, NEW p \in Turns, Ask(p) PROVE TypeInv'
<1>1. PICK s \in {"ask", "summarise", "save"} :
        InMemory(p, s, Asked(p)) /\ (s = "ask" => Asked(p).calls < MaxIterations)
  BY AskMoves
<1>2. /\ turn[p].calls < MaxIterations /\ turn[p].calls \in Nat
      /\ Asked(p).calls = turn[p].calls + 1 /\ Asked(p).calls \in Nat
  BY AskMoves, AskedType DEF TypeInv, TypeOK, Turn
<1>3. Asked(p).calls <= MaxIterations BY <1>2, TurnsAssumption
<1> QED BY <1>1, <1>2, <1>3, AskMoves, AskedType, TypeInMemory, TurnsAssumption

LEMMA TypeSummarise == ASSUME TypeInv, NEW p \in Turns, Summarise(p) PROVE TypeInv'
<1>1. pc[p] = "summarise" /\ InMemory(p, "save", Asked(p)) BY DEF Summarise, InMemory, Asked, Goto
<1>2. turn[p].calls \in Nat BY DEF TypeInv, TypeOK, Turn
<1>3. Asked(p).calls <= MaxIterations + 1 BY <1>1, <1>2, AskedType, TurnsAssumption
<1> QED BY <1>1, <1>3, AskedType, TypeInMemory

LEMMA TypeSaveNew == ASSUME TypeInv, NEW p \in Turns, SaveNew(p) PROVE TypeInv'
<1>1. PICK c \in Conversations :
        /\ IsNew(c)
        /\ conv' = [conv EXCEPT ![c] = [owner |-> turn[p].owner, phone |-> PhoneOf(p), updated |-> today]]
        /\ msg' = [msg EXCEPT ![p] = MessageOf(p, c)]
  BY DEF SaveNew
<1>2. /\ pc[p] = "save" /\ pc' = [pc EXCEPT ![p] = "saved"] /\ UNCHANGED <<today, turn, ledger, seed>>
  BY DEF SaveNew, Goto
<1>3. Registers(p) /\ Messages(p) /\ turn[p] \in Turn /\ today \in Days BY DEF TypeInv, TypeOK
<1>4. PhoneOf(p) \in Phones \cup {Nobody} BY DEF PhoneOf
<1>5. MessageOf(p, c) \in Message /\ msg'[p] = MessageOf(p, c)
  BY <1>1, <1>3 DEF MessageOf, Message, Turn, TypeInv, TypeOK
<1>6. Stored(c)' /\ \A d \in Conversations \ {c} : conv'[d] = conv[d]
  BY <1>1, <1>3 DEF Stored, TypeInv, TypeOK, Days, NoDay
<1>7. Moves(p) BY <1>1, <1>2, <1>6 DEF Moves, Stored, TypeInv, TypeOK
<1>8. TypeOK'
  <2>1. conv' \in [Conversations -> Conversation]
    BY <1>1, <1>3, <1>4 DEF TypeInv, TypeOK, Conversation, Turn
  <2>2. msg' \in [Turns -> Message] BY <1>1, <1>5 DEF TypeInv, TypeOK
  <2> QED BY <1>2, <2>1, <2>2 DEF TypeInv, TypeOK, Idle
<1>9. Rows' /\ SeedDay' BY <1>2, <1>6 DEF TypeInv, Rows, Stored, SeedDay
<1>10. Registers(p)' BY <1>2, <1>3 DEF Registers, Waiting, Idle, TypeInv, TypeOK, Moves, Stored, SaveNew
<1>11. Messages(p)'
  BY <1>2, <1>3, <1>5, <1>6 DEF Messages, Registers, Written, MessageOf, Days, NoDay, TypeInv, TypeOK, Turn
<1> QED BY <1>7, <1>8, <1>9, <1>10, <1>11, TurnKeeps

LEMMA TypeSaveScalars == ASSUME TypeInv, NEW p \in Turns, SaveScalars(p) PROVE TypeInv'
<1> DEFINE c == turn[p].conv
<1>1. /\ pc[p] = "save" /\ c # NoConversation /\ pc' = [pc EXCEPT ![p] = "insert"]
      /\ UNCHANGED <<today, turn, msg, ledger, seed>>
  BY DEF SaveScalars, Goto
<1>2. Registers(p) /\ Messages(p) /\ turn[p] \in Turn /\ today \in Days BY DEF TypeInv, TypeOK
<1>3. c \in Conversations BY <1>1, <1>2 DEF Turn
<1>4. conv' = [conv EXCEPT ![c] = [conv[c] EXCEPT !.owner = turn[p].owner, !.updated = today]]
  BY <1>3 DEF SaveScalars, TypeInv, TypeOK, Conversation
<1>5. conv' \in [Conversations -> Conversation]
  <2>1. turn[p].owner \in Users \cup {Nobody} BY <1>2 DEF Turn
  <2> QED BY <1>2, <1>3, <1>4, <2>1 DEF TypeInv, TypeOK, Conversation
<1>6. Stored(c)' /\ \A d \in Conversations \ {c} : conv'[d] = conv[d]
  <2>1. conv \in [Conversations -> Conversation] BY DEF TypeInv, TypeOK
  <2>2. conv'[c].updated = today BY <1>3, <1>4, <2>1 DEF Conversation
  <2>3. \A d \in Conversations \ {c} : conv'[d] = conv[d] BY <1>4, <2>1
  <2> QED BY <1>1, <1>2, <2>2, <2>3 DEF Stored, Days, NoDay
<1>7. Moves(p) BY <1>1, <1>6 DEF Moves, Stored, TypeInv, TypeOK
<1>8. TypeOK' BY <1>1, <1>5 DEF TypeInv, TypeOK, Idle
<1>9. Rows' /\ SeedDay' BY <1>1, <1>6 DEF TypeInv, Rows, Stored, SeedDay
<1>10. Registers(p)' BY <1>1, <1>2, <1>6 DEF Registers, Waiting, Idle, TypeInv, TypeOK
<1>11. Messages(p)' BY <1>1, <1>2, <1>6 DEF Messages, Written, TypeInv, TypeOK, Stored
<1> QED BY <1>7, <1>8, <1>9, <1>10, <1>11, TurnKeeps

LEMMA TypeInsertMessages == ASSUME TypeInv, NEW p \in Turns, InsertMessages(p) PROVE TypeInv'
<1> DEFINE c == turn[p].conv
<1>1. /\ pc[p] = "insert" /\ pc' = [pc EXCEPT ![p] = "saved"]
      /\ msg' = [msg EXCEPT ![p] = MessageOf(p, c)]
      /\ UNCHANGED <<today, turn, conv, ledger, seed>>
  BY DEF InsertMessages, Goto
<1>2. Registers(p) /\ Messages(p) /\ turn[p] \in Turn /\ today \in Days BY DEF TypeInv, TypeOK
<1>3. c \in Conversations /\ Stored(c) BY <1>1, <1>2 DEF Turn, Registers, Idle
<1>4. MessageOf(p, c) \in Message /\ msg'[p] = MessageOf(p, c)
  BY <1>1, <1>2, <1>3 DEF MessageOf, Message, Turn, TypeInv, TypeOK
<1>5. Moves(p) BY <1>1 DEF Moves, Stored, TypeInv, TypeOK
<1>6. TypeOK'
  <2>1. msg' \in [Turns -> Message] BY <1>1, <1>4 DEF TypeInv, TypeOK
  <2> QED BY <1>1, <2>1 DEF TypeInv, TypeOK, Idle
<1>7. Rows' /\ SeedDay' BY <1>1 DEF TypeInv, Rows, Stored, SeedDay
<1>8. Registers(p)' BY <1>1, <1>2 DEF Registers, Waiting, Idle, TypeInv, TypeOK, Stored
<1>9. Messages(p)'
  BY <1>1, <1>2, <1>3, <1>4 DEF Messages, Registers, Written, Stored, MessageOf, Days, NoDay, TypeInv, TypeOK, Turn
<1> QED BY <1>5, <1>6, <1>7, <1>8, <1>9, TurnKeeps

LEMMA TypeReply == ASSUME TypeInv, NEW p \in Turns, Reply(p) \/ Fail(p) PROVE TypeInv'
BY TypeEnd DEF Reply, Fail, InFlight

(* The seeding, the clock and a crash touch every turn alike. *)
LEMMA TypeSeeding == ASSUME TypeInv, Sembrar PROVE TypeInv'
<1>1. /\ UNCHANGED <<today, turn, conv, msg>>
      /\ \E s \in {"seeding", "seeded", "done"} :
           pc' = Waiters(s) /\ (s = "seeding" => seed'.at # "none")
  <2>1. pc = Waiters("seeding") BY DEF Waiters, TypeInv, TypeOK
  <2> QED BY <2>1 DEF Sembrar, SeedRead, SeedLand, SeedFail, TypeInv, TypeOK
<1>2. /\ ledger' \in [day : Days \cup {NoDay}, spent : Nat] /\ SeedDay'
      /\ seed' \in [at : {"none", "asked", "read"}, day : Days \cup {NoDay}, total : Nat]
  <2>1. TokensSince(seed.day) \in Nat BY TokensAreNat
  <2> USE DEF TypeInv, TypeOK, SeedDay
  <2>2. CASE SeedRead BY <2>1, <2>2 DEF SeedRead
  <2>3. CASE SeedLand BY <2>3 DEF SeedLand, Seeded, NoSeed
  <2>4. CASE SeedFail BY <2>4 DEF SeedFail, NoSeed
  <2> QED BY <2>2, <2>3, <2>4 DEF Sembrar
<1>3. PICK s \in {"seeding", "seeded", "done"} : pc' = Waiters(s) /\ (s = "seeding" => seed'.at # "none")
  BY <1>1
<1>4. TypeOK' BY <1>1, <1>2, <1>3 DEF Waiters, Idle, TypeInv, TypeOK
<1>5. Rows' BY <1>1 DEF Rows, Stored, TypeInv
<1>6. ASSUME NEW p \in Turns PROVE Registers(p)' /\ Messages(p)'
  <2>1. Registers(p) /\ Messages(p) BY DEF TypeInv
  <2>2. pc'[p] = pc[p] \/ (pc[p] = "seeding" /\ pc'[p] \in {"seeding", "seeded", "done"})
    BY <1>3 DEF Waiters
  <2>3. Registers(p)' BY <1>1, <2>1, <2>2 DEF Registers, Waiting, Idle, Stored
  <2>4. Messages(p)' BY <1>1, <2>1, <2>2 DEF Messages, Written, Stored
  <2> QED BY <2>3, <2>4
<1> QED BY <1>2, <1>4, <1>5, <1>6 DEF TypeInv

LEMMA TypeTick == ASSUME TypeInv, Tick PROVE TypeInv'
<1>1. TypeOK' BY TurnsAssumption DEF Tick, TypeInv, TypeOK, Days
<1>2. Rows' /\ SeedDay' BY DEF Tick, TypeInv, Rows, Stored, SeedDay
<1>3. ASSUME NEW p \in Turns PROVE Registers(p)' /\ Messages(p)'
  <2>1. Registers(p) /\ Messages(p) /\ turn[p].day \in Days \cup {NoDay} /\ msg[p].at \in Days \cup {NoDay}
        /\ today \in Days
    BY DEF TypeInv, TypeOK, Turn, Message
  <2> QED BY <2>1, TurnsAssumption DEF Tick, Registers, Messages, Stored, Written, Days, NoDay
<1> QED BY <1>1, <1>2, <1>3 DEF TypeInv

LEMMA TypeCrash == ASSUME TypeInv, Crash PROVE TypeInv'
<1>1. ASSUME NEW p \in Turns
      PROVE  /\ turn'[p] = Ended(turn[p]) /\ turn'[p] \in Turn
             /\ turn'[p].day = turn[p].day /\ turn'[p].calls = turn[p].calls
             /\ turn'[p].conv = NoConversation
             /\ pc[p] = "unborn" => turn'[p] = NoTurn
             /\ pc'[p] \in Idle /\ (pc'[p] = "unborn" <=> pc[p] = "unborn")
  <2>1. turn[p] \in Turn /\ Registers(p) BY DEF TypeInv, TypeOK
  <2> QED BY <2>1, TurnsAssumption DEF Crash, Ended, Turn, NoTurn, Visitors, Registers, Idle
<1>2. TypeOK'
  <2>1. turn' \in [Turns -> Turn] /\ pc' \in [Turns -> Idle] BY <1>1 DEF Crash
  <2> QED BY <2>1 DEF Crash, TypeInv, TypeOK, Idle, NoSeed, NoDay
<1>3. Rows' /\ SeedDay' BY DEF Crash, TypeInv, Rows, Stored, SeedDay, NoSeed
<1>4. ASSUME NEW p \in Turns PROVE Registers(p)' /\ Messages(p)'
  <2>1. Registers(p) /\ Messages(p) BY DEF TypeInv
  <2>2. Registers(p)' BY <1>1, <2>1 DEF Registers, Waiting, Idle, Crash
  <2>3. Messages(p)' BY <1>1, <2>1 DEF Messages, Written, Stored, Idle, Crash
  <2> QED BY <2>2, <2>3
<1> QED BY <1>2, <1>3, <1>4 DEF TypeInv

LEMMA TypeStep == TypeInv /\ [Next]_vars => TypeInv'
<1> SUFFICES ASSUME TypeInv, [Next]_vars PROVE TypeInv' OBVIOUS
<1>1. ASSUME NEW p \in Turns, Step(p) PROVE TypeInv'
  BY <1>1, TypeResume, TypeLoadPhone, TypeLoadWeb, TypeCount, TypeAsk, TypeSummarise, TypeSaveNew,
     TypeSaveScalars, TypeInsertMessages, TypeReply DEF Step
<1>2. ASSUME NEW p \in Turns, NEW who \in Visitors,
             NEW c \in {NoConversation} \cup {d \in Conversations : Stored(d)}, Begin(p, who, c)
      PROVE  TypeInv'
  BY <1>2, TypeBegin
<1>3. CASE UNCHANGED vars
  BY <1>3 DEF vars, TypeInv, TypeOK, Rows, SeedDay, Registers, Messages, Stored, Written
<1> QED BY <1>1, <1>2, <1>3, TypeSeeding, TypeTick, TypeCrash DEF Next

(* The tables and the ledger keep their types, and nobody waits for a        *)
(* seeding that is not in flight, whatever fails or crashes.                 *)
THEOREM TypeCorrect == Spec => []TypeOK
<1>1. TypeInv => TypeOK BY DEF TypeInv
<1> QED BY <1>1, TypeInit, TypeStep, PTL DEF Spec

LEMMA Typed == Spec => []TypeInv
BY TypeInit, TypeStep, PTL DEF Spec

(* A turn never makes more calls to the model than its iterations and one    *)
(* summary (SendMessageUseCase: MAX_TOOL_ITERATIONS).                        *)
THEOREM CallsBounded == Spec => []CallsAreBounded
<1>1. TypeInv => CallsAreBounded BY DEF TypeInv, Registers, CallsAreBounded
<1> QED BY <1>1, Typed, PTL

-----------------------------------------------------------------------------
(* The ledger. *)

(* What turn p can have cost on day d, and what it has cost for sure. *)
Owed(p, d) ==
    IF turn[p].day = d THEN IF InFlight(p) THEN Reserve ELSE turn[p].calls
    ELSE IF msg[p].at >= d THEN msg[p].tokens ELSE 0
Sure(p, d) ==
    IF turn[p].day # d THEN 0 ELSE IF InFlight(p) THEN Reserve ELSE msg[p].tokens

OwedOn(d) == [p \in Turns |-> Owed(p, d)]
SureOf(d) == [p \in Turns |-> Sure(p, d)]
AllOwed(d) == SumFunctionOnSet(OwedOn(d), Turns)
AllSure(d) == SumFunctionOnSet(SureOf(d), Turns)

(* In flight are only turns of the ledger's day or before; a seeding in      *)
(* flight is for a later one.                                                *)
InOrder ==
    /\ \A p \in Turns : InFlight(p) => turn[p].day <= ledger.day
    /\ ledger.day <= today
    /\ seed.at # "none" => ledger.day < seed.day /\ seed.day <= today

Balanced ==
    /\ ledger.day # NoDay => AllSure(ledger.day) <= ledger.spent /\ ledger.spent <= AllOwed(ledger.day)
    /\ seed.at = "read" => AllSure(seed.day) <= seed.total /\ seed.total <= AllOwed(seed.day)

LedgerInv == InOrder /\ Balanced

LEMMA BillsAreNat ==
    ASSUME NEW d
    PROVE  LET Bills == /\ \A p \in Turns : Owed(p, d) \in Nat /\ Sure(p, d) \in Nat
                        /\ AllOwed(d) \in Nat /\ AllSure(d) \in Nat
           IN  (TypeInv => Bills) /\ (TypeInv' => Bills')
<1>1. TypeInv => \A p \in Turns : Owed(p, d) \in Nat /\ Sure(p, d) \in Nat
  BY TurnsAssumption DEF Owed, Sure, TypeInv, TypeOK, Turn, Message
<1>2. TypeInv' => \A p \in Turns : Owed(p, d)' \in Nat /\ Sure(p, d)' \in Nat
  BY TurnsAssumption DEF Owed, Sure, TypeInv, TypeOK, Turn, Message
<1>3. TypeInv => AllOwed(d) \in Nat /\ AllSure(d) \in Nat
  <2> SUFFICES ASSUME TypeInv PROVE AllOwed(d) \in Nat /\ AllSure(d) \in Nat OBVIOUS
  <2>1. \A p \in Turns : OwedOn(d)[p] \in Nat /\ SureOf(d)[p] \in Nat BY <1>1 DEF OwedOn, SureOf
  <2> QED BY <2>1, SumNat, TurnsAssumption DEF AllOwed, AllSure
<1>4. TypeInv' => AllOwed(d)' \in Nat /\ AllSure(d)' \in Nat
  <2> SUFFICES ASSUME TypeInv' PROVE AllOwed(d)' \in Nat /\ AllSure(d)' \in Nat OBVIOUS
  <2>1. \A p \in Turns : OwedOn(d)'[p] \in Nat /\ SureOf(d)'[p] \in Nat BY <1>2 DEF OwedOn, SureOf
  <2> QED BY <2>1, SumNat, TurnsAssumption DEF AllOwed, AllSure
<1> QED BY <1>1, <1>2, <1>3, <1>4

(* Steps that leave the day's balance alone, or move it apart. *)
LEMMA BillsGrow ==
    ASSUME TypeInv, TypeInv', NEW d \in Days,
           \A p \in Turns : Owed(p, d) <= Owed(p, d)' /\ Sure(p, d)' <= Sure(p, d)
    PROVE  AllOwed(d) <= AllOwed(d)' /\ AllSure(d)' <= AllSure(d)
<1>1. \A p \in Turns : /\ Owed(p, d) \in Nat /\ Sure(p, d) \in Nat
                       /\ Owed(p, d)' \in Nat /\ Sure(p, d)' \in Nat
  BY BillsAreNat
<1>2. \A p \in Turns : /\ OwedOn(d)[p] \in Int /\ OwedOn(d)'[p] \in Int /\ OwedOn(d)[p] <= OwedOn(d)'[p]
                       /\ SureOf(d)[p] \in Int /\ SureOf(d)'[p] \in Int /\ SureOf(d)'[p] <= SureOf(d)[p]
  BY <1>1 DEF OwedOn, SureOf
<1> QED BY <1>2, SumMonotone, TurnsAssumption DEF AllOwed, AllSure

(* Steps of one turn. *)
Alone(p) == \A q \in Turns \ {p} : pc'[q] = pc[q] /\ turn'[q] = turn[q] /\ msg'[q] = msg[q]

LEMMA BillChanges ==
    ASSUME TypeInv, TypeInv', NEW d \in Days, NEW p \in Turns, Alone(p)
    PROVE  /\ AllOwed(d)' = AllOwed(d) - Owed(p, d) + Owed(p, d)'
           /\ AllSure(d)' = AllSure(d) - Sure(p, d) + Sure(p, d)'
<1>1. \A q \in Turns : /\ OwedOn(d)[q] \in Int /\ SureOf(d)[q] \in Int
                       /\ OwedOn(d)'[q] \in Int /\ SureOf(d)'[q] \in Int
  <2>1. \A q \in Turns : /\ Owed(q, d) \in Nat /\ Sure(q, d) \in Nat
                         /\ Owed(q, d)' \in Nat /\ Sure(q, d)' \in Nat
    BY BillsAreNat
  <2> QED BY <2>1 DEF OwedOn, SureOf
<1>2. \A q \in Turns : q # p => OwedOn(d)'[q] = OwedOn(d)[q] /\ SureOf(d)'[q] = SureOf(d)[q]
  BY DEF OwedOn, SureOf, Owed, Sure, Alone, InFlight
<1>3. /\ OwedOn(d)[p] = Owed(p, d) /\ SureOf(d)[p] = Sure(p, d)
      /\ OwedOn(d)'[p] = Owed(p, d)' /\ SureOf(d)'[p] = Sure(p, d)'
  BY DEF OwedOn, SureOf
<1>4. AllOwed(d)' = AllOwed(d) - OwedOn(d)[p] + OwedOn(d)'[p]
  <2> DEFINE f == OwedOn(d)
             g == OwedOn(d)'
  <2>1. \A q \in Turns : f[q] \in Int /\ g[q] \in Int /\ (q # p => g[q] = f[q])
    BY <1>1, <1>2
  <2> HIDE DEF f, g
  <2>2. SumFunctionOnSet(g, Turns) = SumFunctionOnSet(f, Turns) - f[p] + g[p]
    BY <2>1, SumChange, FiniteTurns
  <2> QED BY <2>2 DEF f, g, AllOwed
<1>5. AllSure(d)' = AllSure(d) - SureOf(d)[p] + SureOf(d)'[p]
  <2> DEFINE f == SureOf(d)
             g == SureOf(d)'
  <2>1. \A q \in Turns : f[q] \in Int /\ g[q] \in Int /\ (q # p => g[q] = f[q])
    BY <1>1, <1>2
  <2> HIDE DEF f, g
  <2>2. SumFunctionOnSet(g, Turns) = SumFunctionOnSet(f, Turns) - f[p] + g[p]
    BY <2>1, SumChange, FiniteTurns
  <2> QED BY <2>2 DEF f, g, AllSure
<1> QED BY <1>3, <1>4, <1>5

LEMMA LedgerInit == Init => LedgerInv
BY DEF Init, LedgerInv, InOrder, Balanced, InFlight, NoSeed, NoDay

(* The ledger and the seeding stay; bills only move apart. *)
LEMMA LedgerQuiet ==
    ASSUME TypeInv, TypeInv', LedgerInv, UNCHANGED ledger,
           today <= today',
           seed' = seed \/ seed'.at = "none" \/ (seed'.at = "asked" /\ ledger.day < seed'.day /\ seed'.day <= today'),
           \A p \in Turns : InFlight(p)' => turn'[p].day <= ledger.day,
           \A d \in Days, p \in Turns : Owed(p, d) <= Owed(p, d)' /\ Sure(p, d)' <= Sure(p, d)
    PROVE  LedgerInv'
<1>1. InOrder' BY DEF InOrder, LedgerInv, TypeInv, TypeOK, Days, NoDay
<1>2. \A d \in Days : /\ AllOwed(d) <= AllOwed(d)' /\ AllSure(d)' <= AllSure(d)
                      /\ AllOwed(d) \in Nat /\ AllSure(d) \in Nat
                      /\ AllOwed(d)' \in Nat /\ AllSure(d)' \in Nat
  <2> TAKE d \in Days
  <2>1. \A p \in Turns : Owed(p, d) <= Owed(p, d)' /\ Sure(p, d)' <= Sure(p, d) OBVIOUS
  <2> QED BY <2>1, BillsAreNat, BillsGrow
<1>3. ASSUME ledger.day # NoDay
      PROVE  AllSure(ledger.day)' <= ledger'.spent /\ ledger'.spent <= AllOwed(ledger.day)'
  <2>1. ledger.day \in Days /\ ledger.spent \in Nat BY <1>3 DEF TypeInv, TypeOK
  <2>2. AllSure(ledger.day) <= ledger.spent /\ ledger.spent <= AllOwed(ledger.day)
    BY <1>3 DEF LedgerInv, Balanced
  <2> DEFINE d == ledger.day
  <2>3. d \in Days /\ AllSure(d)' <= ledger.spent /\ ledger.spent <= AllOwed(d)'
    BY <1>2, <2>1, <2>2
  <2> QED BY <2>3
<1>4. ASSUME seed'.at = "read"
      PROVE  AllSure(seed.day)' <= seed'.total /\ seed'.total <= AllOwed(seed.day)'
  <2>1. seed' = seed BY <1>4
  <2>2. seed.day \in Days /\ seed.total \in Nat BY <1>4, <2>1 DEF TypeInv, TypeOK, SeedDay
  <2>3. AllSure(seed.day) <= seed.total /\ seed.total <= AllOwed(seed.day)
    BY <1>4, <2>1 DEF LedgerInv, Balanced
  <2> QED BY <1>2, <2>1, <2>2, <2>3
<1> QED BY <1>1, <1>3, <1>4 DEF LedgerInv, Balanced

(* A turn is charged: its reserve enters the balance on the ledger's day. *)
LEMMA LedgerAdmits ==
    ASSUME TypeInv, TypeInv', LedgerInv, NEW p \in Turns, Alone(p), ~Written(p), msg'[p] = msg[p],
           turn[p].calls = 0, turn'[p].calls = 0, ~InFlight(p), InFlight(p)',
           turn'[p].day = ledger.day, turn'[p].day # NoDay,
           ledger' = [ledger EXCEPT !.spent = @ + Reserve], UNCHANGED <<today, seed>>
    PROVE  LedgerInv'
<1>1. ledger.day \in Days /\ ledger.spent \in Nat /\ ledger'.day = ledger.day /\ ledger'.spent = ledger.spent + Reserve
  BY DEF TypeInv, TypeOK
<1>2. InOrder'
  BY <1>1 DEF InOrder, LedgerInv, Alone, InFlight, Days
<1>3. /\ msg[p].tokens = 0 /\ msg[p].at = NoDay
  BY DEF TypeInv, Messages, Written, NoMessage
<1>4. \A d \in Days : /\ Owed(p, d) = 0 /\ Sure(p, d) = 0
                      /\ d = ledger.day => Owed(p, d)' = Reserve /\ Sure(p, d)' = Reserve
                      /\ d # ledger.day => Owed(p, d)' = 0 /\ Sure(p, d)' = 0
  BY <1>3 DEF Owed, Sure, Days, NoDay
<1>5. \A d \in Days : /\ AllOwed(d)' = AllOwed(d) - Owed(p, d) + Owed(p, d)'
                      /\ AllSure(d)' = AllSure(d) - Sure(p, d) + Sure(p, d)'
                      /\ AllOwed(d) \in Nat /\ AllSure(d) \in Nat
  BY BillChanges, BillsAreNat
<1>6. Balanced'
  <2>1. Reserve \in Nat BY TurnsAssumption
  <2>2. LET d == ledger.day IN AllSure(d)' <= ledger'.spent /\ ledger'.spent <= AllOwed(d)'
    <3> DEFINE d == ledger.day
    <3>1. d \in Days /\ AllSure(d) <= ledger.spent /\ ledger.spent <= AllOwed(d)
      BY <1>1 DEF LedgerInv, Balanced, Days, NoDay
    <3>2. AllSure(d)' = AllSure(d) + Reserve /\ AllOwed(d)' = AllOwed(d) + Reserve
      BY <1>4, <1>5, <2>1, <3>1
    <3> QED BY <1>1, <1>5, <2>1, <3>1, <3>2
  <2>3. ASSUME seed.at = "read"
        PROVE  AllSure(seed.day)' <= seed.total /\ seed.total <= AllOwed(seed.day)'
    <3> DEFINE d == seed.day
    <3>1. d \in Days /\ d # ledger.day /\ AllSure(d) <= seed.total /\ seed.total <= AllOwed(d)
      BY <1>1, <2>3 DEF LedgerInv, InOrder, Balanced, TypeInv, SeedDay, Days
    <3>2. AllSure(d)' = AllSure(d) /\ AllOwed(d)' = AllOwed(d)
      BY <1>4, <1>5, <3>1
    <3> QED BY <3>1, <3>2
  <2> QED BY <1>1, <2>2, <2>3 DEF Balanced
<1> QED BY <1>2, <1>6 DEF LedgerInv

(* A turn's end gives its reserve back, if the ledger is still of its day. *)
LEMMA LedgerEnd ==
    ASSUME TypeInv, TypeInv', LedgerInv, NEW p \in Turns, InFlight(p), End(p),
           UNCHANGED <<today, conv, msg, seed>>
    PROVE  LedgerInv'
<1> DEFINE day == turn[p].day
           calls == turn[p].calls
<1>1. /\ Alone(p) /\ msg'[p] = msg[p] /\ turn'[p].day = day /\ turn'[p].calls = calls
      /\ ~InFlight(p)'
  BY DEF End, Goto, Ended, NoTurn, Alone, InFlight, TypeInv, TypeOK, Turn
<1>2. /\ day \in Days /\ calls \in Nat /\ day <= ledger.day
      /\ ledger.day \in Days /\ ledger.spent \in Nat /\ Reserve \in Nat
  <2>1. Registers(p) /\ turn[p] \in Turn /\ ledger \in [day : Days \cup {NoDay}, spent : Nat]
    BY DEF TypeInv, TypeOK
  <2>2. day <= ledger.day BY DEF LedgerInv, InOrder
  <2> QED BY <2>1, <2>2, TurnsAssumption DEF Registers, InFlight, Turn, Days, NoDay
<1>3. msg[p].tokens \in Nat /\ msg[p].tokens <= calls
  BY <1>2 DEF TypeInv, TypeOK, Message, Messages, NoMessage
<1> HIDE DEF day, calls
<1>4. ledger' = Liquidated(day, calls) /\ ledger'.day = ledger.day
  BY DEF End, Liquidated, day, calls, TypeInv, TypeOK
<1>5. InOrder' BY <1>1, <1>4 DEF InOrder, LedgerInv, Alone, InFlight
<1>6. \A d \in Days :
        /\ d = day => /\ Owed(p, d) = Reserve /\ Sure(p, d) = Reserve
                      /\ Owed(p, d)' = calls /\ Sure(p, d)' = msg[p].tokens
        /\ d # day => Owed(p, d)' = Owed(p, d) /\ Sure(p, d)' = Sure(p, d)
  BY <1>1 DEF Owed, Sure, day, calls
<1>7. \A d \in Days : /\ AllOwed(d)' = AllOwed(d) - Owed(p, d) + Owed(p, d)'
                      /\ AllSure(d)' = AllSure(d) - Sure(p, d) + Sure(p, d)'
                      /\ AllOwed(d) \in Nat /\ AllSure(d) \in Nat
                      /\ AllOwed(d)' \in Nat /\ AllSure(d)' \in Nat
                      /\ Owed(p, d) \in Nat /\ Sure(p, d) \in Nat
  BY <1>1, BillChanges, BillsAreNat
<1>8. \A d \in Days : d # day => AllOwed(d)' = AllOwed(d) /\ AllSure(d)' = AllSure(d)
  BY <1>6, <1>7
<1>9. AllSure(ledger.day)' <= ledger'.spent /\ ledger'.spent <= AllOwed(ledger.day)'
  <2> DEFINE d == ledger.day
  <2>1. d \in Days /\ AllSure(d) <= ledger.spent /\ ledger.spent <= AllOwed(d)
    BY <1>2 DEF LedgerInv, Balanced, Days, NoDay
  <2>2. CASE d # day
    <3>1. ledger' = ledger BY <1>4, <2>2 DEF Liquidated
    <3> QED BY <1>8, <2>1, <2>2, <3>1
  <2>3. CASE d = day
    <3>1. ledger'.spent = IF ledger.spent - Reserve + calls > 0 THEN ledger.spent - Reserve + calls ELSE 0
      BY <1>4, <2>3 DEF Liquidated, TypeInv, TypeOK
    <3>2. AllOwed(d)' = AllOwed(d) - Reserve + calls /\ AllSure(d)' = AllSure(d) - Reserve + msg[p].tokens
      BY <1>4, <1>6, <1>7, <2>1, <2>3
    <3>3. AllOwed(d) \in Nat /\ AllSure(d) \in Nat /\ AllOwed(d)' \in Nat
      BY <1>4, <1>7, <2>1
    <3>4. calls \in Nat BY <1>2 
    <3> HIDE DEF d
    <3>5. AllSure(d)' <= ledger'.spent /\ ledger'.spent <= AllOwed(d)'
      BY <1>2, <1>3, <2>1, <3>1, <3>2, <3>3, <3>4
    <3> QED BY <3>5 DEF d
  <2> QED BY <2>2, <2>3
<1>10. ASSUME seed.at = "read"
       PROVE  AllSure(seed.day)' <= seed.total /\ seed.total <= AllOwed(seed.day)'
  <2>1. seed.day \in Days /\ ledger.day < seed.day BY <1>10 DEF TypeInv, SeedDay, LedgerInv, InOrder
  <2>2. seed.day # day BY <1>2, <2>1 DEF Days
  <2>3. AllSure(seed.day) <= seed.total /\ seed.total <= AllOwed(seed.day)
    BY <1>10 DEF LedgerInv, Balanced
  <2> QED BY <1>8, <2>1, <2>2, <2>3
<1> QED BY <1>4, <1>5, <1>9, <1>10 DEF LedgerInv, Balanced

(* The sum the seeding reads is what the day's turns have cost: none of them *)
(* is in flight before the day has a ledger.                                 *)
LEMMA LedgerSeedRead ==
    ASSUME TypeInv, TypeInv', LedgerInv, SeedRead
    PROVE  LedgerInv'
<1> DEFINE d == seed.day
           read == {p \in Turns : msg[p].at >= d}
           part == Part(Tokens, read, Turns)
<1>1. /\ seed' = [seed EXCEPT !.at = "read", !.total = TokensSince(d)]
      /\ UNCHANGED <<today, pc, turn, conv, msg, ledger>> /\ d \in Days /\ ledger.day < d
      /\ seed'.at = "read" /\ seed'.day = d /\ seed'.total = TokensSince(d)
  BY DEF SeedRead, TypeInv, TypeOK, SeedDay, LedgerInv, InOrder
<1>2. InOrder' BY <1>1 DEF InOrder, LedgerInv, InFlight, SeedRead
<1>3. ASSUME NEW p \in Turns
      PROVE  /\ part[p] \in Int /\ OwedOn(d)[p] \in Int /\ SureOf(d)[p] \in Int
             /\ SureOf(d)[p] <= part[p] /\ part[p] <= OwedOn(d)[p]
  <2>1. Messages(p) /\ turn[p] \in Turn /\ msg[p] \in Message BY DEF TypeInv, TypeOK
  <2>2. InFlight(p) => turn[p].day # d
    BY <1>1, <2>1 DEF LedgerInv, InOrder, TypeInv, TypeOK, Turn, Days, NoDay
  <2>3. part[p] = IF msg[p].at >= d THEN msg[p].tokens ELSE 0 BY DEF Part, Tokens
  <2>4. Sure(p, d) <= part[p] /\ part[p] <= Owed(p, d)
    BY <1>1, <2>1, <2>2, <2>3
       DEF Owed, Sure, Messages, Written, NoMessage, Days, NoDay, Turn, Message
  <2> QED BY <2>1, <2>3, <2>4, BillsAreNat DEF OwedOn, SureOf, Message
<1>4. AllSure(d) <= TokensSince(d) /\ TokensSince(d) <= AllOwed(d)
  <2>1. TokensSince(d) = SumFunctionOnSet(part, Turns)
    <3>1. \A p \in read : Tokens[p] \in Int BY DEF Tokens, TypeInv, TypeOK, Message
    <3> QED BY <3>1, SumOfPart, FiniteTurns DEF TokensSince
  <2> HIDE DEF part
  <2>2. AllSure(d) <= SumFunctionOnSet(part, Turns) BY <1>3, SumMonotone, FiniteTurns DEF AllSure
  <2>3. SumFunctionOnSet(part, Turns) <= AllOwed(d) BY <1>3, SumMonotone, FiniteTurns DEF AllOwed
  <2> QED BY <2>1, <2>2, <2>3
<1>5. \A e : AllSure(e)' = AllSure(e) /\ AllOwed(e)' = AllOwed(e)
  BY <1>1 DEF AllSure, AllOwed, SureOf, OwedOn, Sure, Owed, InFlight
<1>6. Balanced' BY <1>1, <1>4, <1>5 DEF Balanced, LedgerInv
<1> QED BY <1>2, <1>6 DEF LedgerInv

LEMMA LedgerSeedLand ==
    ASSUME TypeInv, TypeInv', LedgerInv, SeedLand
    PROVE  LedgerInv'
<1>0. PICK d \in Days : d = seed.day BY DEF SeedLand, TypeInv, SeedDay
<1>1. /\ UNCHANGED <<today, turn, conv, msg>> /\ seed.at = "read" /\ seed'.at = "none"
      /\ ledger'.day = d /\ ledger'.spent = seed.total /\ d \in Days /\ ledger.day < d /\ d <= today
  BY <1>0 DEF SeedLand, Seeded, NoSeed, LedgerInv, InOrder, TypeInv, TypeOK, SeedDay, Days
<1>2. \A p \in Turns : InFlight(p)' <=> InFlight(p)
  BY DEF SeedLand, Waiters, InFlight, TypeInv, TypeOK
<1>3. InOrder'
  <2>1. \A p \in Turns : turn[p].day \in Days \cup {NoDay} /\ ledger.day \in Days \cup {NoDay}
    BY DEF TypeInv, TypeOK, Turn
  <2> QED BY <1>1, <1>2, <2>1 DEF InOrder, LedgerInv, Days, NoDay
<1>4. ledger'.spent \in Nat /\ AllSure(d) <= ledger'.spent /\ ledger'.spent <= AllOwed(d)
  BY <1>0, <1>1 DEF LedgerInv, Balanced, TypeInv, TypeOK
<1>5. \A p \in Turns : Sure(p, d)' = Sure(p, d) /\ Owed(p, d)' = Owed(p, d)
  BY <1>1, <1>2 DEF Sure, Owed
<1>6. SureOf(d)' = SureOf(d) /\ OwedOn(d)' = OwedOn(d) BY <1>5 DEF SureOf, OwedOn
<1>7. AllSure(d)' = AllSure(d) /\ AllOwed(d)' = AllOwed(d) BY <1>6 DEF AllSure, AllOwed
<1> QED BY <1>1, <1>3, <1>4, <1>7 DEF LedgerInv, Balanced

LEMMA LedgerCrash ==
    ASSUME TypeInv, Crash
    PROVE  LedgerInv'
<1>1. \A p \in Turns : ~InFlight(p)' BY DEF Crash, InFlight, Idle
<1> QED BY <1>1 DEF Crash, LedgerInv, InOrder, Balanced, NoSeed, NoDay, Days, TypeInv, TypeOK

(* A turn in flight that stays so leaves the balance alone. *)
LEMMA LedgerFlies ==
    ASSUME TypeInv, TypeInv', LedgerInv, NEW p \in Turns, Alone(p), InFlight(p), InFlight(p)',
           turn'[p].day = turn[p].day, msg'[p] = msg[p] \/ ~Written(p),
           UNCHANGED <<today, ledger, seed>>
    PROVE  LedgerInv'
<1>1. \A q \in Turns : /\ turn'[q].day = turn[q].day
                       /\ InFlight(q)' <=> InFlight(q)
                       /\ msg'[q] = msg[q] \/ (InFlight(q) /\ ~Written(q))
  BY DEF Alone, InFlight
<1>2. ASSUME NEW q \in Turns, NEW d \in Days
      PROVE  Owed(q, d) <= Owed(q, d)' /\ Sure(q, d)' <= Sure(q, d)
  <2>1. /\ Owed(q, d) \in Nat /\ Owed(q, d)' \in Nat /\ Sure(q, d) \in Nat /\ Sure(q, d)' \in Nat
    BY BillsAreNat
  <2>2. CASE msg'[q] = msg[q]
    <3>1. Owed(q, d)' = Owed(q, d) /\ Sure(q, d)' = Sure(q, d)
      BY <1>1, <2>2 DEF Owed, Sure, Alone, InFlight
    <3> QED BY <2>1, <3>1
  <2>3. CASE turn[q].day = d /\ InFlight(q)
    <3>1. Owed(q, d)' = Owed(q, d) /\ Sure(q, d)' = Sure(q, d)
      BY <1>1, <2>3 DEF Owed, Sure
    <3> QED BY <2>1, <3>1
  <2>4. CASE turn[q].day # d /\ ~Written(q)
    <3>1. Owed(q, d) = 0 /\ Sure(q, d)' = 0
      BY <1>1, <2>4 DEF Owed, Sure, Written, Days, NoDay
    <3> QED BY <2>1, <3>1
  <2> QED BY <1>1, <2>2, <2>3, <2>4
<1>3. \A q \in Turns : InFlight(q)' => turn'[q].day <= ledger.day
  BY <1>1 DEF LedgerInv, InOrder
<1>4. today <= today' BY DEF TypeInv, TypeOK, Days
<1> QED BY <1>2, <1>3, <1>4, LedgerQuiet

(* So does one that is not in flight and is not charged. *)
LEMMA LedgerWaits ==
    ASSUME TypeInv, TypeInv', LedgerInv, NEW p \in Turns, Alone(p), ~InFlight(p), ~InFlight(p)',
           msg'[p] = msg[p], ~Written(p), turn[p].calls = 0, turn'[p].calls = 0,
           UNCHANGED <<today, ledger>>,
           seed' = seed \/ (seed'.at = "asked" /\ ledger.day < seed'.day /\ seed'.day <= today)
    PROVE  LedgerInv'
<1>1. msg[p].at = NoDay /\ msg[p].tokens = 0 BY DEF Written, TypeInv, Messages, NoMessage
<1>2. ASSUME NEW q \in Turns, NEW d \in Days
      PROVE  Owed(q, d) <= Owed(q, d)' /\ Sure(q, d)' <= Sure(q, d)
  <2>1. Owed(q, d) \in Nat /\ Sure(q, d) \in Nat BY BillsAreNat
  <2>2. Owed(q, d)' = Owed(q, d) /\ Sure(q, d)' = Sure(q, d)
    BY <1>1 DEF Owed, Sure, Alone, InFlight, Days, NoDay
  <2> QED BY <2>1, <2>2
<1>3. \A q \in Turns : InFlight(q)' => turn'[q].day <= ledger.day
  BY DEF LedgerInv, InOrder, Alone, InFlight
<1>4. today <= today' BY DEF TypeInv, TypeOK, Days
<1> QED BY <1>2, <1>3, <1>4, LedgerQuiet

LEMMA LedgerBegin ==
    ASSUME TypeInv, TypeInv', LedgerInv, NEW p \in Turns, NEW who \in Visitors,
           NEW c \in Conversations \cup {NoConversation}, Begin(p, who, c)
    PROVE  LedgerInv'
<1>1. /\ Alone(p) /\ ~InFlight(p) /\ ~Written(p) /\ msg' = msg /\ UNCHANGED today
      /\ turn[p].calls = 0 /\ turn'[p].calls = 0 /\ turn'[p].day = today /\ today \in Days
  <2>1. /\ pc[p] = "unborn" /\ turn' = [turn EXCEPT ![p] = [NoTurn EXCEPT !.who = who, !.day = today, !.conv = c]]
        /\ UNCHANGED <<today, msg>> /\ \A q \in Turns \ {p} : pc'[q] = pc[q]
    BY DEF Begin, Reservar, Goto, TypeInv, TypeOK
  <2> QED BY <2>1 DEF Alone, InFlight, TypeInv, TypeOK, Registers, Messages, NoTurn
<1>2. CASE ledger.day = today /\ ledger.spent < Ceiling
  <2>1. /\ ledger' = [ledger EXCEPT !.spent = @ + Reserve] /\ UNCHANGED seed /\ InFlight(p)'
    BY <1>2 DEF Begin, Reservar, Goto, InFlight, TypeInv, TypeOK
  <2>2. turn'[p].day = ledger.day /\ turn'[p].day # NoDay BY <1>1, <1>2 DEF Days, NoDay
  <2> QED BY <1>1, <2>1, <2>2, LedgerAdmits
<1>3. CASE ~(ledger.day = today /\ ledger.spent < Ceiling)
  <2>1. UNCHANGED ledger /\ ~InFlight(p)'
    BY <1>3 DEF Begin, Reservar, Goto, InFlight, TypeInv, TypeOK
  <2>2. \/ seed' = seed
        \/ ledger.day # today /\ seed' = [at |-> "asked", day |-> today, total |-> 0]
    BY DEF Begin
  <2>3. ledger.day # today => ledger.day < today
    BY <1>1 DEF LedgerInv, InOrder, TypeInv, TypeOK, Days, NoDay
  <2>4. seed' = seed \/ (seed'.at = "asked" /\ ledger.day < seed'.day /\ seed'.day <= today)
    BY <1>1, <2>2, <2>3 DEF Days
  <2> QED BY <1>1, <2>1, <2>4, LedgerWaits
<1> QED BY <1>2, <1>3

LEMMA LedgerResume ==
    ASSUME TypeInv, TypeInv', LedgerInv, NEW p \in Turns, Resume(p)
    PROVE  LedgerInv'
<1>1. /\ Alone(p) /\ ~InFlight(p) /\ ~Written(p) /\ turn[p].calls = 0 /\ turn[p].day \in Days
      /\ UNCHANGED <<today, turn, msg, seed>>
  BY DEF Resume, Reservar, Goto, Alone, InFlight, TypeInv, TypeOK, Registers, Waiting, Messages
<1>2. CASE ledger.day = turn[p].day /\ ledger.spent < Ceiling
  <2>1. ledger' = [ledger EXCEPT !.spent = @ + Reserve] /\ InFlight(p)'
    BY <1>2 DEF Resume, Reservar, Goto, InFlight, TypeInv, TypeOK
  <2>2. turn[p].day # NoDay BY <1>1 DEF Days, NoDay
  <2> QED BY <1>1, <1>2, <2>1, <2>2, LedgerAdmits
<1>3. CASE ~(ledger.day = turn[p].day /\ ledger.spent < Ceiling)
  <2>1. UNCHANGED ledger /\ ~InFlight(p)'
    BY <1>3 DEF Resume, Reservar, Goto, InFlight, TypeInv, TypeOK
  <2> QED BY <1>1, <2>1, LedgerWaits
<1> QED BY <1>2, <1>3

(* The rest of a turn: it flies on, or it ends. *)
Rest(p) ==
    \/ LoadPhone(p) \/ LoadWeb(p) \/ Count(p) \/ Ask(p) \/ Summarise(p)
    \/ SaveNew(p) \/ SaveScalars(p) \/ InsertMessages(p) \/ Reply(p) \/ Fail(p)

LEMMA RestFlies ==
    ASSUME TypeInv, NEW p \in Turns, Rest(p)
    PROVE  /\ InFlight(p)
           /\ \/ End(p) /\ UNCHANGED <<today, conv, msg, seed>>
              \/ /\ Alone(p) /\ InFlight(p)' /\ turn'[p].day = turn[p].day /\ turn'[p].who = turn[p].who
                 /\ msg'[p] = msg[p] \/ ~Written(p)
                 /\ UNCHANGED <<today, ledger, seed>>
<1> DEFINE Flies == /\ Alone(p) /\ InFlight(p)' /\ turn'[p].day = turn[p].day /\ turn'[p].who = turn[p].who
                    /\ msg'[p] = msg[p] \/ ~Written(p)
                    /\ UNCHANGED <<today, ledger, seed>>
           Goal == InFlight(p) /\ ((End(p) /\ UNCHANGED <<today, conv, msg, seed>>) \/ Flies)
<1>1. ASSUME NEW t, t.day = turn[p].day, t.who = turn[p].who, NEW s \in {"count", "ask", "summarise", "save"},
             InMemory(p, s, t)
      PROVE  Goal
  BY <1>1 DEF InMemory, Alone, InFlight, TypeInv, TypeOK
<1>2. CASE LoadPhone(p)
  <2>1. PICK t \in {Started(p)} \cup {Loaded(p, c) : c \in Findable(p)} : InMemory(p, "count", t)
    BY <1>2 DEF LoadPhone, InMemory, Goto
  <2>2. \A c \in Findable(p) : c \in Conversations BY DEF Findable, ActiveByPhone
  <2>3. t.day = turn[p].day /\ t.who = turn[p].who BY <1>2, <2>1, <2>2, LoadedType DEF LoadPhone
  <2> QED BY <1>1, <2>1, <2>3
<1>3. CASE LoadWeb(p) /\ ~End(p)
  <2>1. PICK t \in {Started(p), Loaded(p, turn[p].conv)} :
          InMemory(p, "count", t) /\ (t = Started(p) \/ turn[p].conv # NoConversation)
    BY <1>3 DEF LoadWeb, InMemory, Goto
  <2>2. turn[p].conv \in Conversations \cup {NoConversation} /\ pc[p] = "load"
    BY <1>3 DEF LoadWeb, TypeInv, TypeOK, Turn
  <2>3. t.day = turn[p].day /\ t.who = turn[p].who BY <2>1, <2>2, LoadedType
  <2> QED BY <1>1, <2>1, <2>3
<1>4. CASE Count(p) /\ ~End(p)
  <2>1. InMemory(p, "ask", turn[p]) BY <1>4 DEF Count, InMemory, Goto, TypeInv, TypeOK
  <2> QED BY <1>1, <2>1
<1>5. CASE Ask(p) \/ Summarise(p)
  <2>1. pc[p] \in {"ask", "summarise"} /\ \E s \in {"ask", "summarise", "save"} : InMemory(p, s, Asked(p))
    BY <1>5, AskMoves DEF Summarise, InMemory, Asked, Goto
  <2>2. Asked(p).day = turn[p].day /\ Asked(p).who = turn[p].who BY <2>1, AskedType
  <2> QED BY <1>1, <2>1, <2>2
<1>6. CASE SaveNew(p) \/ SaveScalars(p) \/ InsertMessages(p)
  <2>1. pc[p] \in {"save", "insert"} /\ UNCHANGED <<today, turn, ledger, seed>>
        /\ (\E s \in {"saved", "insert"} : pc' = [pc EXCEPT ![p] = s])
        /\ \E m : msg' = [msg EXCEPT ![p] = m]
    <3>1. msg = [msg EXCEPT ![p] = msg[p]] BY DEF TypeInv, TypeOK
    <3> QED BY <1>6, <3>1 DEF SaveNew, SaveScalars, InsertMessages, Goto
  <2>2. ~Written(p) BY <2>1 DEF TypeInv, Messages
  <2> QED BY <2>1, <2>2 DEF Alone, InFlight, TypeInv, TypeOK
<1>7. CASE Reply(p) \/ Fail(p) BY <1>7 DEF Reply, Fail, InFlight
<1>8. CASE (LoadWeb(p) \/ Count(p)) /\ End(p) BY <1>8 DEF LoadWeb, Count, InFlight
<1> QED BY <1>2, <1>3, <1>4, <1>5, <1>6, <1>7, <1>8 DEF Rest

LEMMA LedgerStep == TypeInv /\ TypeInv' /\ LedgerInv /\ [Next]_vars => LedgerInv'
<1> SUFFICES ASSUME TypeInv, TypeInv', LedgerInv, [Next]_vars PROVE LedgerInv' OBVIOUS
<1>1. ASSUME NEW p \in Turns, Step(p) PROVE LedgerInv'
  <2>1. CASE Resume(p) BY <2>1, LedgerResume
  <2>2. CASE Rest(p) BY <2>2, RestFlies, LedgerFlies, LedgerEnd
  <2> QED BY <1>1, <2>1, <2>2 DEF Step, Rest
<1>2. ASSUME NEW p \in Turns, NEW who \in Visitors,
             NEW c \in {NoConversation} \cup {d \in Conversations : Stored(d)}, Begin(p, who, c)
      PROVE  LedgerInv'
  BY <1>2, LedgerBegin
<1>3. CASE SeedFail \/ Tick \/ UNCHANGED vars
  <2>1. UNCHANGED <<turn, msg, ledger>> /\ today <= today' /\ (seed' = seed \/ seed'.at = "none")
    BY <1>3 DEF SeedFail, Tick, vars, NoSeed, TypeInv, TypeOK, Days
  <2>2. \A p \in Turns : InFlight(p)' <=> InFlight(p)
    BY <1>3 DEF SeedFail, Tick, vars, Waiters, InFlight, TypeInv, TypeOK
  <2>3. ASSUME NEW q \in Turns, NEW d \in Days
        PROVE  Owed(q, d) <= Owed(q, d)' /\ Sure(q, d)' <= Sure(q, d)
    <3>1. Owed(q, d) \in Nat /\ Sure(q, d) \in Nat BY BillsAreNat
    <3>2. Owed(q, d)' = Owed(q, d) /\ Sure(q, d)' = Sure(q, d) BY <2>1, <2>2 DEF Owed, Sure
    <3> QED BY <3>1, <3>2
  <2>4. \A q \in Turns : InFlight(q)' => turn'[q].day <= ledger.day
    BY <2>1, <2>2 DEF LedgerInv, InOrder
  <2> QED BY <2>1, <2>3, <2>4, LedgerQuiet
<1> QED BY <1>1, <1>2, <1>3, LedgerSeedRead, LedgerSeedLand, LedgerCrash DEF Next, Sembrar

(* The properties follow by summing turn by turn. *)
Reserves == [p \in Turns |-> Reserve]

LEMMA ReservesAre ==
    ASSUME NEW T \in SUBSET Turns
    PROVE  SumFunctionOnSet(Reserves, T) = Reserve * Cardinality(T)
<1>1. IsFiniteSet(T) BY FiniteTurns, FS_Subset
<1>2. \A p \in T : Reserves[p] = Reserve BY DEF Reserves
<1>3. Reserve \in Int BY TurnsAssumption
<1> QED BY <1>1, <1>2, <1>3, SumOfConstant

LEMMA LeaksNothing == TypeInv /\ LedgerInv => NoReserveLeaks
<1> SUFFICES ASSUME TypeInv, LedgerInv, ledger.day # NoDay
             PROVE  LET day == ledger.day
                        mine == {p \in Turns : OfDay(p, day)}
                    IN  ledger.spent <=
                          SumFunctionOnSet(Calls, mine)
                          + SumFunctionOnSet(Tokens, {p \in Turns \ mine : msg[p].at >= day})
                          + Reserve * Cardinality({p \in mine : InFlight(p)})
  BY DEF NoReserveLeaks
<1> DEFINE day == ledger.day
           mine == {p \in Turns : OfDay(p, day)}
           late == {p \in Turns \ mine : msg[p].at >= day}
           flying == {p \in mine : InFlight(p)}
           a == Part(Calls, mine, Turns)
           b == Part(Tokens, late, Turns)
           r == Part(Reserves, flying, Turns)
           ab == [p \in Turns |-> a[p] + b[p]]
           abr == [p \in Turns |-> ab[p] + r[p]]
<1>1. \A p \in Turns : Calls[p] \in Nat /\ Tokens[p] \in Nat /\ Reserves[p] \in Nat
  BY TurnsAssumption DEF Calls, Tokens, Reserves, TypeInv, TypeOK, Turn, Message
<1>2. mine \in SUBSET Turns /\ late \in SUBSET Turns /\ flying \in SUBSET Turns OBVIOUS
<1>3. ASSUME NEW p \in Turns
      PROVE  /\ a[p] = (IF p \in mine THEN Calls[p] ELSE 0) /\ a[p] \in Nat
             /\ b[p] = (IF p \in late THEN Tokens[p] ELSE 0) /\ b[p] \in Nat
             /\ r[p] = (IF p \in flying THEN Reserves[p] ELSE 0) /\ r[p] \in Nat
  BY <1>1 DEF Part
<1>4. ASSUME NEW p \in Turns PROVE OwedOn(day)[p] \in Nat /\ OwedOn(day)[p] <= a[p] + b[p] + r[p]
  <2>1. Owed(p, day) \in Nat /\ OwedOn(day)[p] = Owed(p, day) BY BillsAreNat DEF OwedOn
  <2>2. Owed(p, day) = IF p \in flying THEN Reserves[p] ELSE IF p \in mine THEN Calls[p]
                       ELSE IF p \in late THEN Tokens[p] ELSE 0
    BY DEF Owed, OfDay, Calls, Tokens, Reserves
  <2> HIDE DEF day, mine, late, flying, a, b, r
  <2> QED BY <1>3, <2>1, <2>2
<1> HIDE DEF day, mine, late, flying, a, b, r
<1>5. \A p \in Turns : ab[p] \in Int /\ abr[p] \in Int /\ a[p] \in Int /\ b[p] \in Int /\ r[p] \in Int
                       /\ OwedOn(day)[p] \in Int /\ OwedOn(day)[p] <= abr[p]
                       /\ ab[p] = a[p] + b[p] /\ abr[p] = ab[p] + r[p]
  BY <1>3, <1>4
<1> HIDE DEF ab, abr
<1>6. SumFunctionOnSet(ab, Turns) = SumFunctionOnSet(a, Turns) + SumFunctionOnSet(b, Turns)
  BY <1>5, SumAdds, FiniteTurns
<1>7. SumFunctionOnSet(abr, Turns) = SumFunctionOnSet(ab, Turns) + SumFunctionOnSet(r, Turns)
  BY <1>5, SumAdds, FiniteTurns
<1>8. AllOwed(day) <= SumFunctionOnSet(abr, Turns)
  BY <1>5, SumMonotone, FiniteTurns DEF AllOwed
<1>9. /\ SumFunctionOnSet(Calls, mine) = SumFunctionOnSet(a, Turns)
      /\ SumFunctionOnSet(Tokens, late) = SumFunctionOnSet(b, Turns)
      /\ SumFunctionOnSet(Reserves, flying) = SumFunctionOnSet(r, Turns)
  <2>1. \A p \in Turns : Calls[p] \in Int /\ Tokens[p] \in Int /\ Reserves[p] \in Int BY <1>1
  <2> QED BY <1>2, <2>1, SumOfPart, FiniteTurns DEF a, b, r
<1>10. /\ SumFunctionOnSet(a, Turns) \in Int /\ SumFunctionOnSet(b, Turns) \in Int
       /\ SumFunctionOnSet(r, Turns) \in Int
  BY <1>5, SumType, FiniteTurns
<1>11. ledger.spent <= AllOwed(day) /\ ledger.spent \in Nat /\ AllOwed(day) \in Nat
  BY BillsAreNat DEF LedgerInv, Balanced, TypeInv, TypeOK, day
<1>12. SumFunctionOnSet(Reserves, flying) = Reserve * Cardinality(flying) BY <1>2, ReservesAre
<1>13. ledger.spent <= SumFunctionOnSet(Calls, mine) + SumFunctionOnSet(Tokens, late)
                       + SumFunctionOnSet(Reserves, flying)
  BY <1>6, <1>7, <1>8, <1>9, <1>10, <1>11
<1> QED BY <1>12, <1>13 DEF day, mine, late, flying

LEMMA LedgerHolds == Spec => [](TypeInv /\ LedgerInv)
<1>1. TypeInv /\ LedgerInv /\ [Next]_vars => TypeInv' /\ LedgerInv' BY TypeStep, LedgerStep
<1> QED BY <1>1, TypeInit, LedgerInit, PTL DEF Spec

(* No turn leaves its reserve behind in the ledger, whether it answers, is   *)
(* refused, fails or dies with the process, and whenever the ledger is       *)
(* seeded (DailyTokenLedger.reservar, liquidar, sembrar).                    *)
THEOREM NoLeaks == Spec => []NoReserveLeaks
BY LedgerHolds, LeaksNothing, PTL

(* What the ledger holds covers what its day's turns stored and reserved. *)
LEMMA LedgerCovers ==
    ASSUME TypeInv, LedgerInv, ledger.day # NoDay
    PROVE  LET day == ledger.day
           IN  SumFunctionOnSet(Tokens, {q \in Turns : OfDay(q, day) /\ pc[q] = "done"})
               + Reserve * Cardinality({q \in Turns : OfDay(q, day) /\ InFlight(q)}) <= ledger.spent
<1> DEFINE day == ledger.day
           done == {q \in Turns : OfDay(q, day) /\ pc[q] = "done"}
           flying == {q \in Turns : OfDay(q, day) /\ InFlight(q)}
           a == Part(Tokens, done, Turns)
           r == Part(Reserves, flying, Turns)
           ar == [p \in Turns |-> a[p] + r[p]]
<1>1. \A p \in Turns : Tokens[p] \in Nat /\ Reserves[p] \in Nat
  BY TurnsAssumption DEF Tokens, Reserves, TypeInv, TypeOK, Message
<1>2. done \in SUBSET Turns /\ flying \in SUBSET Turns OBVIOUS
<1>3. ASSUME NEW p \in Turns
      PROVE  /\ a[p] = (IF p \in done THEN Tokens[p] ELSE 0) /\ a[p] \in Nat
             /\ r[p] = (IF p \in flying THEN Reserves[p] ELSE 0) /\ r[p] \in Nat
  BY <1>1 DEF Part
<1>4. ASSUME NEW p \in Turns PROVE SureOf(day)[p] \in Nat /\ a[p] + r[p] <= SureOf(day)[p]
  <2>1. Sure(p, day) \in Nat /\ SureOf(day)[p] = Sure(p, day) BY BillsAreNat DEF SureOf
  <2>2. /\ p \in flying => Sure(p, day) = Reserves[p]
        /\ p \in done => Sure(p, day) = Tokens[p]
        /\ ~(p \in flying /\ p \in done)
    BY DEF Sure, OfDay, Tokens, Reserves, InFlight
  <2> HIDE DEF day, done, flying, a, r
  <2> QED BY <1>1, <1>3, <2>1, <2>2
<1> HIDE DEF day, done, flying, a, r
<1>5. \A p \in Turns : ar[p] \in Int /\ a[p] \in Int /\ r[p] \in Int /\ ar[p] = a[p] + r[p]
                       /\ SureOf(day)[p] \in Int /\ ar[p] <= SureOf(day)[p]
  BY <1>3, <1>4
<1> HIDE DEF ar
<1>6. SumFunctionOnSet(ar, Turns) = SumFunctionOnSet(a, Turns) + SumFunctionOnSet(r, Turns)
  BY <1>5, SumAdds, FiniteTurns
<1>7. SumFunctionOnSet(ar, Turns) <= AllSure(day) BY <1>5, SumMonotone, FiniteTurns DEF AllSure
<1>8. /\ SumFunctionOnSet(Tokens, done) = SumFunctionOnSet(a, Turns)
      /\ SumFunctionOnSet(Reserves, flying) = SumFunctionOnSet(r, Turns)
  <2>1. \A p \in Turns : Tokens[p] \in Int /\ Reserves[p] \in Int BY <1>1
  <2> QED BY <1>2, <2>1, SumOfPart, FiniteTurns DEF a, r
<1>9. SumFunctionOnSet(a, Turns) \in Int /\ SumFunctionOnSet(r, Turns) \in Int
  BY <1>5, SumType, FiniteTurns
<1>10. AllSure(day) <= ledger.spent /\ ledger.spent \in Nat /\ AllSure(day) \in Nat
  BY BillsAreNat DEF LedgerInv, Balanced, TypeInv, TypeOK, day
<1>11. SumFunctionOnSet(Reserves, flying) = Reserve * Cardinality(flying) BY <1>2, ReservesAre
<1>12. SumFunctionOnSet(Tokens, done) + SumFunctionOnSet(Reserves, flying) <= ledger.spent
  BY <1>6, <1>7, <1>8, <1>9, <1>10
<1> QED BY <1>11, <1>12 DEF day, done, flying

LEMMA AdmissionIsCharged ==
    ASSUME TypeInv, [Next]_vars, NEW p \in Turns, Admitted(p)
    PROVE  turn'[p].day = ledger.day /\ ledger.day # NoDay /\ ledger.spent < Ceiling
<1>1. ~InFlight(p) /\ InFlight(p)' BY DEF Admitted
<1>2. ASSUME NEW q \in Turns, Rest(q) PROVE FALSE
  BY <1>1, <1>2, RestFlies DEF Alone, End, Goto, InFlight, TypeInv, TypeOK
<1>3. ASSUME NEW q \in Turns, Resume(q) PROVE turn'[p].day = ledger.day /\ ledger.day # NoDay /\ ledger.spent < Ceiling
  <2>1. turn[q].day # NoDay BY <1>3 DEF Resume, TypeInv, Registers, Days, NoDay
  <2> QED BY <1>1, <1>3, <2>1 DEF Resume, Reservar, Goto, InFlight, TypeInv, TypeOK
<1>4. ASSUME NEW q \in Turns, NEW who \in Visitors,
             NEW c \in {NoConversation} \cup {d \in Conversations : Stored(d)}, Begin(q, who, c)
      PROVE  turn'[p].day = ledger.day /\ ledger.day # NoDay /\ ledger.spent < Ceiling
  <2>1. today # NoDay BY DEF TypeInv, TypeOK, Days, NoDay
  <2>2. p = q /\ ledger.day = today /\ ledger.spent < Ceiling
    BY <1>1, <1>4 DEF Begin, Reservar, Goto, InFlight, TypeInv, TypeOK
  <2>3. turn'[q].day = today BY <1>4 DEF Begin, NoTurn, TypeInv, TypeOK
  <2> QED BY <2>1, <2>2, <2>3
<1>5. CASE Sembrar \/ Tick \/ Crash \/ UNCHANGED vars
  BY <1>1, <1>5 DEF Sembrar, SeedRead, SeedLand, SeedFail, Waiters, Tick, Crash, vars, InFlight, Idle, TypeInv, TypeOK
<1> QED BY <1>2, <1>3, <1>4, <1>5 DEF Next, Step, Rest

(* A message is let in only while the day's bills and reserves are under the *)
(* installation's ceiling (DailyTokenLedger.reservar).                       *)
THEOREM UnderCeiling == Spec => AdmittedUnderCeiling
<1> DEFINE Under(p) ==
             LET day == turn'[p].day
                 stored == SumFunctionOnSet(Tokens, {q \in Turns : OfDay(q, day) /\ pc[q] = "done"})
                 flying == Cardinality({q \in Turns : OfDay(q, day) /\ InFlight(q)})
             IN  stored + Reserve * flying < Ceiling
<1>1. ASSUME TypeInv, LedgerInv, [Next]_vars PROVE \A p \in Turns : Admitted(p) => Under(p)
  <2> SUFFICES ASSUME NEW p \in Turns, Admitted(p) PROVE Under(p) OBVIOUS
  <2>1. turn'[p].day = ledger.day /\ ledger.day # NoDay /\ ledger.spent < Ceiling
    BY <1>1, AdmissionIsCharged
  <2> DEFINE day == ledger.day
             done == {q \in Turns : OfDay(q, day) /\ pc[q] = "done"}
             flying == {q \in Turns : OfDay(q, day) /\ InFlight(q)}
  <2>2. SumFunctionOnSet(Tokens, done) + Reserve * Cardinality(flying) <= ledger.spent
    BY <1>1, <2>1, LedgerCovers
  <2>3. /\ SumFunctionOnSet(Tokens, done) \in Int /\ Reserve * Cardinality(flying) \in Int
        /\ ledger.spent \in Int /\ Ceiling \in Int
    <3>1. IsFiniteSet(done) /\ IsFiniteSet(flying) BY FiniteTurns, FS_Subset
    <3>2. \A q \in done : Tokens[q] \in Int BY <1>1 DEF Tokens, TypeInv, TypeOK, Message
    <3>3. Cardinality(flying) \in Nat /\ Reserve \in Nat BY <3>1, FS_CardinalityType, TurnsAssumption
    <3>4. ledger.spent \in Nat /\ Ceiling \in Nat BY <1>1, TurnsAssumption DEF TypeInv, TypeOK
    <3> HIDE DEF done, flying
    <3> QED BY <3>1, <3>2, <3>3, <3>4, SumType
  <2> HIDE DEF done, flying
  <2>4. SumFunctionOnSet(Tokens, done) + Reserve * Cardinality(flying) < Ceiling
    BY <2>1, <2>2, <2>3
  <2> QED BY <2>1, <2>4 DEF done, flying
<1> QED BY <1>1, LedgerHolds, PTL DEF AdmittedUnderCeiling, Spec

-----------------------------------------------------------------------------
(* The limits of a number. *)

Serial ==
    \A p, q \in Turns :
        p # q /\ turn[p].who = turn[q].who /\ turn[p].who \in Phones => pc[p] \in Idle \/ pc[q] \in Idle

SentBy(phone, d) == {q \in Turns : Written(q) /\ conv[msg[q].conv].phone = phone /\ msg[q].at >= d}

(* A number's conversations are its own, the web has no part in them; and    *)
(* while a turn that found room is in flight, there is room.                 *)
Fits(p) ==
    pc[p] \in BeforeSave =>
        /\ turn[p].conv # NoConversation =>
              /\ conv[turn[p].conv].phone = PhoneOf(p)
              /\ turn[p].who \in Phones => MessagesOf(turn[p].conv) < MaxMessages
        /\ pc[p] # "count" /\ turn[p].who \in Phones \ {Owner} =>
              Cardinality(SentBy(turn[p].who, turn[p].day - 1)) < MaxPerDay

PhoneInv == Serial /\ (\A p \in Turns : Fits(p)) /\ PhoneLimitsHold

LEMMA PhoneInit == Init => PhoneInv
<1> SUFFICES ASSUME Init PROVE PhoneInv OBVIOUS
<1>1. Serial /\ \A p \in Turns : Fits(p) BY DEF Init, Serial, Fits, Idle, BeforeSave
<1>2. PhoneLimitsHold BY DEF Init, PhoneLimitsHold, Written, NoMessage, NoRow
<1> QED BY <1>1, <1>2 DEF PhoneInv

(* Steps that write no message and give no conversation another number. *)
Unwritten == msg' = msg /\ \A c \in Conversations : conv'[c].phone = conv[c].phone

LEMMA SentStays ==
    ASSUME TypeInv, Unwritten
    PROVE  /\ \A phone, d : SentBy(phone, d)' = SentBy(phone, d)
           /\ \A c : MessagesOf(c)' = MessagesOf(c)
           /\ PhoneLimitsHold => PhoneLimitsHold'
<1>1. /\ msg' = msg
      /\ \A q \in Turns : Written(q)' = Written(q)
      /\ \A q \in Turns : Written(q) => conv'[msg[q].conv].phone = conv[msg[q].conv].phone
  BY DEF Unwritten, Written, TypeInv, Messages
<1>2. \A phone, d : SentBy(phone, d)' = SentBy(phone, d)
  BY <1>1 DEF SentBy
<1>3. \A c : MessagesOf(c)' = MessagesOf(c) BY <1>1 DEF MessagesOf
<1>4. PhoneLimitsHold => PhoneLimitsHold'
  <2> SUFFICES ASSUME PhoneLimitsHold PROVE PhoneLimitsHold' OBVIOUS
  <2>1. ASSUME NEW p \in Turns, Written(p)', conv'[msg'[p].conv].phone \in Phones \ {Owner}
        PROVE  Cardinality({q \in Turns : /\ Written(q)'
                                          /\ conv'[msg'[q].conv].phone = conv'[msg'[p].conv].phone
                                          /\ msg'[q].at \in (msg'[p].at - 1) .. msg'[p].at}) <= MaxPerDay
    <3> DEFINE W == {q \in Turns : /\ Written(q) /\ conv[msg[q].conv].phone = conv[msg[p].conv].phone
                                   /\ msg[q].at \in (msg[p].at - 1) .. msg[p].at}
    <3>1. Cardinality(W) <= MaxPerDay BY <1>1, <2>1 DEF PhoneLimitsHold
    <3>2. W = {q \in Turns : /\ Written(q)'
                             /\ conv'[msg'[q].conv].phone = conv'[msg'[p].conv].phone
                             /\ msg'[q].at \in (msg'[p].at - 1) .. msg'[p].at}
      BY <1>1, <2>1
    <3> QED BY <3>1, <3>2
  <2>2. \A c \in Conversations : conv'[c].phone # Nobody => MessagesOf(c)' <= MaxMessages + (MaxMessages % 2)
    BY <1>3 DEF PhoneLimitsHold, Unwritten
  <2> QED BY <2>1, <2>2 DEF PhoneLimitsHold
<1> QED BY <1>2, <1>3, <1>4

(* A turn that stays where it is keeps its room through such a step. *)
LEMMA FitsStays ==
    ASSUME TypeInv, PhoneInv, Unwritten, NEW q \in Turns,
           turn'[q] = turn[q], pc'[q] = pc[q] \/ (pc[q] = "save" /\ pc'[q] = "insert")
    PROVE  Fits(q)'
<1>1. turn[q].conv \in Conversations \cup {NoConversation} BY DEF TypeInv, TypeOK, Turn
<1>2. Fits(q) BY DEF PhoneInv
<1> QED BY <1>1, <1>2, SentStays DEF Fits, Unwritten, PhoneOf, BeforeSave

LEMMA SerialStays ==
    ASSUME Serial, \A q \in Turns : pc'[q] \notin Idle => pc[q] \notin Idle /\ turn'[q].who = turn[q].who
    PROVE  Serial'
BY DEF Serial

LEMMA PhoneInMemory ==
    ASSUME TypeInv, PhoneInv, NEW p \in Turns, NEW t, t.who = turn[p].who,
           NEW s \in {"count", "ask", "summarise", "save"}, InMemory(p, s, t), Fits(p)'
    PROVE  PhoneInv'
<1>1. Unwritten BY DEF InMemory, Unwritten
<1>2. turn'[p] = t /\ \A q \in Turns \ {p} : turn'[q] = turn[q] /\ pc'[q] = pc[q]
  BY DEF InMemory, TypeInv, TypeOK
<1>3. Serial' BY <1>2, SerialStays DEF PhoneInv, InMemory, Idle
<1>4. \A q \in Turns : Fits(q)' BY <1>1, <1>2, FitsStays
<1> QED BY <1>1, <1>3, <1>4, SentStays DEF PhoneInv

LEMMA PhoneEnd ==
    ASSUME TypeInv, PhoneInv, NEW p \in Turns, End(p), UNCHANGED <<conv, msg>>
    PROVE  PhoneInv'
<1>1. Unwritten BY DEF Unwritten
<1>2. pc'[p] = "done" /\ \A q \in Turns \ {p} : turn'[q] = turn[q] /\ pc'[q] = pc[q]
  BY DEF End, Goto, TypeInv, TypeOK
<1>3. Serial' BY <1>2, SerialStays DEF PhoneInv, Idle
<1>4. \A q \in Turns : Fits(q)' BY <1>1, <1>2, FitsStays DEF Fits, BeforeSave
<1> QED BY <1>1, <1>3, <1>4, SentStays DEF PhoneInv

(* Steps that write p's message into a conversation with room. *)
Writes(p, c) ==
    /\ pc[p] \in BeforeSave \ {"count"} /\ pc' = [pc EXCEPT ![p] = "saved"]
    /\ msg' = [msg EXCEPT ![p] = MessageOf(p, c)]
    /\ conv'[c].phone = PhoneOf(p)
    /\ \A d \in Conversations \ {c} : conv'[d].phone = conv[d].phone
    /\ \A q \in Turns : Written(q) /\ msg[q].conv = c => conv[c].phone = PhoneOf(p)
    /\ PhoneOf(p) # Nobody => MessagesOf(c) < MaxMessages
    /\ \A q \in Turns \ {p} : turn[q].conv = c /\ pc[q] \notin Idle => conv[c].phone = PhoneOf(p)
    /\ UNCHANGED <<today, turn>>

LEMMA EmptyConversation ==
    ASSUME TypeInv, NEW c \in Conversations, ~Stored(c)
    PROVE  (\A q \in Turns : msg[q].conv # c) /\ MessagesOf(c) = 0
<1>1. \A q \in Turns : msg[q].conv # c
  BY DEF TypeInv, Messages, NoMessage, Conversations, NoConversation
<1>2. {q \in Turns : msg[q].conv = c} = {} BY <1>1
<1>3. Cardinality({q \in Turns : msg[q].conv = c}) = 0 BY <1>2, FS_EmptySet
<1> QED BY <1>1, <1>3 DEF MessagesOf

LEMMA SavesWrite ==
    ASSUME TypeInv, PhoneInv, NEW p \in Turns, SaveNew(p) \/ InsertMessages(p)
    PROVE  \E c \in Conversations : Writes(p, c)
<1>1. CASE SaveNew(p)
  <2>1. PICK c \in Conversations :
          /\ IsNew(c)
          /\ conv' = [conv EXCEPT ![c] = [owner |-> turn[p].owner, phone |-> PhoneOf(p), updated |-> today]]
          /\ msg' = [msg EXCEPT ![p] = MessageOf(p, c)]
    BY <1>1 DEF SaveNew
  <2>2. ~Stored(c) /\ MessagesOf(c) = 0 /\ \A q \in Turns : msg[q].conv # c
    BY <2>1, EmptyConversation DEF IsNew
  <2>3. \A q \in Turns : turn[q].conv = c /\ pc[q] \notin Idle => FALSE
    BY <2>2 DEF TypeInv, Registers, Conversations, NoConversation
  <2>4. MessagesOf(c) < MaxMessages BY <2>2, TurnsAssumption
  <2>5. /\ pc[p] \in BeforeSave \ {"count"} /\ pc' = [pc EXCEPT ![p] = "saved"]
        /\ UNCHANGED <<today, turn>>
    BY <1>1 DEF SaveNew, Goto, BeforeSave
  <2>6. /\ conv'[c].phone = PhoneOf(p)
        /\ \A d \in Conversations \ {c} : conv'[d].phone = conv[d].phone
    BY <2>1 DEF TypeInv, TypeOK
  <2>7. Writes(p, c) BY <2>1, <2>2, <2>3, <2>4, <2>5, <2>6 DEF Writes
  <2> QED BY <2>7
<1>2. CASE InsertMessages(p)
  <2> DEFINE c == turn[p].conv
  <2>1. /\ pc[p] = "insert" /\ msg' = [msg EXCEPT ![p] = MessageOf(p, c)]
        /\ pc' = [pc EXCEPT ![p] = "saved"] /\ UNCHANGED <<today, turn, conv>>
    BY <1>2 DEF InsertMessages, Goto
  <2>2. c \in Conversations /\ c # NoConversation
    BY <2>1 DEF TypeInv, TypeOK, Turn, Registers
  <2>3. conv[c].phone = PhoneOf(p) /\ (PhoneOf(p) # Nobody => MessagesOf(c) < MaxMessages)
    BY <2>1, <2>2 DEF PhoneInv, Fits, BeforeSave, PhoneOf
  <2>4. Writes(p, c) BY <2>1, <2>2, <2>3 DEF Writes, BeforeSave
  <2> QED BY <2>2, <2>4
<1> QED BY <1>1, <1>2

(* What one message more makes of the counts. *)
LEMMA OneMore ==
    ASSUME TypeInv, NEW p \in Turns, NEW c \in Conversations, Writes(p, c)
    PROVE  /\ \A q \in Turns : q # p => msg'[q] = msg[q]
           /\ ~Written(p) /\ Written(p)' /\ msg'[p].at = today /\ msg'[p].conv = c
           /\ \A q \in Turns : Written(q) => conv'[msg[q].conv].phone = conv[msg[q].conv].phone
           /\ \A d \in Conversations \ {c} : MessagesOf(d)' = MessagesOf(d)
           /\ MessagesOf(c)' = MessagesOf(c) + 2
           /\ \A phone, d : phone # PhoneOf(p) => SentBy(phone, d)' = SentBy(phone, d)
<1>1. /\ \A q \in Turns : q # p => msg'[q] = msg[q] /\ Written(q)' = Written(q)
      /\ msg'[p] = MessageOf(p, c) /\ msg'[p].at = today /\ msg'[p].conv = c
      /\ ~Written(p) /\ msg[p].conv = NoConversation
      /\ today \in Days
  BY DEF Writes, Written, MessageOf, BeforeSave, TypeInv, TypeOK, Messages, NoMessage
<1>2. Written(p)' BY <1>1 DEF Written, Days, NoDay
<1>3. \A q \in Turns : Written(q) => conv'[msg[q].conv].phone = conv[msg[q].conv].phone
  BY DEF Writes, TypeInv, Messages
<1>4. \A d \in Conversations \ {c} : MessagesOf(d)' = MessagesOf(d)
  <2> TAKE d \in Conversations \ {c}
  <2>1. {q \in Turns : msg'[q].conv = d} = {q \in Turns : msg[q].conv = d}
    BY <1>1 DEF Conversations, NoConversation
  <2> QED BY <2>1 DEF MessagesOf
<1>5. MessagesOf(c)' = MessagesOf(c) + 2
  <2> DEFINE M == {q \in Turns : msg[q].conv = c}
  <2>1. {q \in Turns : msg'[q].conv = c} = M \cup {p} /\ p \notin M
    BY <1>1 DEF Conversations, NoConversation
  <2>2. IsFiniteSet(M) BY FiniteTurns, FS_Subset
  <2> HIDE DEF M
  <2>3. Cardinality(M \cup {p}) = Cardinality(M) + 1 /\ Cardinality(M) \in Nat
    BY <2>1, <2>2, FS_AddElement, FS_CardinalityType
  <2>4. MessagesOf(c)' = 2 * (Cardinality(M) + 1) /\ MessagesOf(c) = 2 * Cardinality(M)
    BY <2>1, <2>3 DEF MessagesOf, M
  <2> QED BY <2>3, <2>4
<1>6. ASSUME NEW phone, NEW d, phone # PhoneOf(p) PROVE SentBy(phone, d)' = SentBy(phone, d)
  <2>1. conv'[c].phone = PhoneOf(p) BY DEF Writes
  <2> QED BY <1>1, <1>3, <1>6, <2>1 DEF SentBy
<1> QED BY <1>1, <1>2, <1>3, <1>4, <1>5, <1>6

LEMMA PhoneWrites ==
    ASSUME TypeInv, TypeInv', PhoneInv, NEW p \in Turns, NEW c \in Conversations, Writes(p, c)
    PROVE  PhoneInv'
<1> DEFINE who == turn[p].who
<1>1. Serial' BY SerialStays DEF PhoneInv, Writes, BeforeSave, Idle, TypeInv, TypeOK
<1>2. ASSUME NEW q \in Turns PROVE Fits(q)'
  <2>1. CASE q = p BY <2>1 DEF Writes, Fits, BeforeSave, TypeInv, TypeOK
  <2>2. CASE q # p /\ pc[q] \in BeforeSave
    <3>1. pc'[q] = pc[q] /\ turn'[q] = turn[q] /\ Fits(q)
      BY <2>2 DEF Writes, PhoneInv, TypeInv, TypeOK
    <3>2. turn[q].who \in Phones => turn[q].who # PhoneOf(p)
      BY <2>2, TurnsAssumption DEF PhoneInv, Serial, Writes, BeforeSave, Idle, PhoneOf
    <3>3. PhoneOf(q)' = PhoneOf(q) BY <3>1 DEF PhoneOf
    <3>4. ASSUME turn[q].conv # NoConversation
          PROVE  /\ conv'[turn[q].conv].phone = PhoneOf(q)
                 /\ turn[q].who \in Phones => MessagesOf(turn[q].conv)' < MaxMessages
      <4>1. turn[q].conv \in Conversations BY <3>4 DEF TypeInv, TypeOK, Turn
      <4>2. /\ conv[turn[q].conv].phone = PhoneOf(q)
            /\ turn[q].who \in Phones => MessagesOf(turn[q].conv) < MaxMessages
        BY <2>2, <3>1, <3>4 DEF Fits
      <4>3. turn[q].conv = c => conv[c].phone = PhoneOf(p)
        BY <2>2 DEF Writes, BeforeSave, Idle
      <4>4. conv'[turn[q].conv].phone = conv[turn[q].conv].phone BY <4>1, <4>3 DEF Writes
      <4>5. turn[q].who \in Phones => turn[q].conv # c BY <3>2, <4>2, <4>3 DEF PhoneOf
      <4> QED BY <3>1, <4>1, <4>2, <4>4, <4>5, OneMore
    <3>5. turn[q].who \in Phones => 
            SentBy(turn[q].who, turn[q].day - 1)' = SentBy(turn[q].who, turn[q].day - 1)
      BY <3>1, <3>2, OneMore
    <3> QED BY <3>1, <3>3, <3>4, <3>5 DEF Fits
  <2>3. CASE q # p /\ pc[q] \notin BeforeSave BY <2>3 DEF Writes, Fits, TypeInv, TypeOK
  <2> QED BY <2>1, <2>2, <2>3
<1>3. ASSUME NEW q \in Turns, Written(q)', conv'[msg'[q].conv].phone \in Phones \ {Owner}
      PROVE  Cardinality({r \in Turns : /\ Written(r)'
                                        /\ conv'[msg'[r].conv].phone = conv'[msg'[q].conv].phone
                                        /\ msg'[r].at \in (msg'[q].at - 1) .. msg'[q].at}) <= MaxPerDay
  <2> DEFINE phone == conv'[msg'[q].conv].phone
             V == {r \in Turns : /\ Written(r)' /\ conv'[msg'[r].conv].phone = phone
                                 /\ msg'[r].at \in (msg'[q].at - 1) .. msg'[q].at}
  <2>1. /\ conv'[c].phone = PhoneOf(p) /\ turn[p].day <= today /\ today \in Days /\ turn[p].day \in Days
        /\ \A r \in Turns : Written(r)' => msg'[r].at \in Days /\ msg'[r].at <= today
    BY DEF Writes, TypeInv, TypeOK, Registers, Messages, Message, BeforeSave, Written
  <2>2. CASE phone = PhoneOf(p) /\ msg'[q].at = today
    <3> DEFINE S == SentBy(turn[p].who, turn[p].day - 1)
    <3>1. PhoneOf(p) = turn[p].who /\ turn[p].who \in Phones \ {Owner}
      BY <1>3, <2>2, TurnsAssumption DEF PhoneOf
    <3>2. Cardinality(S) < MaxPerDay
      BY <3>1 DEF PhoneInv, Fits, Writes
    <3>3. V \subseteq S \cup {p}
      <4> SUFFICES ASSUME NEW r \in V, r # p PROVE r \in S OBVIOUS
      <4>1. msg'[r] = msg[r] /\ Written(r) /\ conv[msg[r].conv].phone = turn[p].who
        BY <2>2, <3>1, OneMore DEF Written
      <4>2. msg[r].at >= turn[p].day - 1
        BY <2>1, <2>2, <4>1 DEF Days
      <4> QED BY <4>1, <4>2 DEF SentBy
    <3>4. IsFiniteSet(S) BY FiniteTurns, FS_Subset DEF SentBy
    <3> HIDE DEF S, V
    <3>5. IsFiniteSet(S \cup {p}) /\ Cardinality(S \cup {p}) <= Cardinality(S) + 1
          /\ Cardinality(S) \in Nat /\ Cardinality(S \cup {p}) \in Nat
      BY <3>4, FS_AddElement, FS_CardinalityType
    <3>6. Cardinality(V) <= Cardinality(S \cup {p}) /\ Cardinality(V) \in Nat
      BY <3>3, <3>5, FS_Subset, FS_CardinalityType
    <3>7. Cardinality(V) <= MaxPerDay BY <3>2, <3>5, <3>6, TurnsAssumption
    <3> QED BY <3>7 DEF V
  <2>3. CASE ~(phone = PhoneOf(p) /\ msg'[q].at = today)
    <3> DEFINE U == {r \in Turns : /\ Written(r) /\ conv[msg[r].conv].phone = conv[msg[q].conv].phone
                                   /\ msg[r].at \in (msg[q].at - 1) .. msg[q].at}
    <3>1. q # p BY <2>1, <2>3, OneMore
    <3>2. msg'[q] = msg[q] /\ Written(q) /\ conv[msg[q].conv].phone = phone
      BY <1>3, <3>1, OneMore DEF Written
    <3>3. Cardinality(U) <= MaxPerDay BY <1>3, <3>2 DEF PhoneInv, PhoneLimitsHold
    <3>4. p \notin V BY <1>3, <2>1, <2>3, OneMore DEF Days
    <3>5. V = U
      <4>1. ASSUME NEW r \in Turns, r # p PROVE r \in V <=> r \in U
        <5>1. msg'[r] = msg[r] /\ (Written(r)' <=> Written(r)) BY <4>1, OneMore DEF Written
        <5> QED BY <3>2, <5>1, OneMore
      <4>2. p \notin U BY OneMore
      <4> QED BY <3>4, <4>1, <4>2
    <3> QED BY <3>3, <3>5
  <2> QED BY <2>2, <2>3
<1>4. ASSUME NEW d \in Conversations, conv'[d].phone # Nobody
      PROVE  MessagesOf(d)' <= MaxMessages + (MaxMessages % 2)
  <2>1. CASE d = c
    <3>1. MessagesOf(c) < MaxMessages BY <1>4, <2>1 DEF Writes
    <3>2. PICK n \in Nat : MessagesOf(c) = 2 * n
      <4>1. IsFiniteSet({r \in Turns : msg[r].conv = c}) BY FiniteTurns, FS_Subset
      <4> QED BY <4>1, FS_CardinalityType DEF MessagesOf
    <3>3. 2 * n + 2 <= MaxMessages + (MaxMessages % 2) BY <3>1, <3>2, TurnsAssumption
    <3> QED BY <2>1, <3>2, <3>3, OneMore
  <2>2. CASE d # c
    <3>1. conv[d].phone # Nobody BY <1>4, <2>2 DEF Writes
    <3> QED BY <2>2, <3>1, OneMore DEF PhoneInv, PhoneLimitsHold
  <2> QED BY <2>1, <2>2
<1> QED BY <1>1, <1>2, <1>3, <1>4 DEF PhoneInv, PhoneLimitsHold

(* Where a turn gets its room from: loadOrStart and the count of the day. *)
LEMMA PhoneLoad ==
    ASSUME TypeInv, PhoneInv, NEW p \in Turns, LoadPhone(p) \/ LoadWeb(p)
    PROVE  PhoneInv'
<1>1. CASE End(p) BY <1>1, PhoneEnd DEF LoadPhone, LoadWeb
<1>2. CASE ~End(p)
  <2>1. PICK t \in {Started(p)} \cup {Loaded(p, c) : c \in Conversations} :
          /\ InMemory(p, "count", t)
          /\ \/ t = Started(p)
             \/ \E c \in Conversations : /\ t = Loaded(p, c) /\ MessagesOf(c) < MaxMessages
                                         /\ conv[c].phone = PhoneOf(p)
    <3>1. turn[p].conv # NoConversation => turn[p].conv \in Conversations BY DEF TypeInv, TypeOK, Turn
    <3>2. CASE LoadPhone(p) /\ Findable(p) = {}
      BY <3>2 DEF LoadPhone, InMemory, Goto
    <3>3. CASE LoadPhone(p) /\ Findable(p) # {}
      <4>1. PICK c \in Findable(p) : turn' = [turn EXCEPT ![p] = Loaded(p, c)] BY <3>3 DEF LoadPhone
      <4>2. c \in Conversations /\ MessagesOf(c) < MaxMessages /\ conv[c].phone = PhoneOf(p)
        BY <3>3 DEF Findable, ActiveByPhone, PhoneOf, LoadPhone
      <4> QED BY <3>3, <4>1, <4>2 DEF LoadPhone, InMemory, Goto
    <3>4. CASE LoadWeb(p)
      BY <1>2, <3>1, <3>4 DEF LoadWeb, MayJoin, PhoneOf, InMemory, Goto
    <3> QED BY <3>2, <3>3, <3>4
  <2>2. t.who = turn[p].who /\ (t.conv = NoConversation \/ t.conv \in Conversations)
    BY <2>1, LoadedType DEF InMemory, LoadPhone, LoadWeb
  <2>3. t.conv # NoConversation => MessagesOf(t.conv) < MaxMessages /\ conv[t.conv].phone = PhoneOf(p)
    BY <2>1, LoadedType DEF InMemory, LoadPhone, LoadWeb
  <2>4. turn'[p] = t /\ pc'[p] = "count" /\ PhoneOf(p)' = PhoneOf(p) /\ Unwritten /\ conv' = conv
    BY <2>1, <2>2 DEF InMemory, PhoneOf, Unwritten, TypeInv, TypeOK
  <2>5. Fits(p)' BY <2>3, <2>4, SentStays DEF Fits
  <2> QED BY <2>1, <2>2, <2>5, PhoneInMemory
<1> QED BY <1>1, <1>2

LEMMA PhoneCount ==
    ASSUME TypeInv, PhoneInv, NEW p \in Turns, Count(p)
    PROVE  PhoneInv'
<1>1. CASE End(p) BY <1>1, PhoneEnd DEF Count
<1>2. CASE ~End(p)
  <2>1. InMemory(p, "ask", turn[p]) /\ (turn[p].who \in {Nobody, Owner} \/ WithinDay(p))
    BY <1>2 DEF Count, InMemory, Goto, TypeInv, TypeOK
  <2>2. ASSUME turn[p].who \in Phones \ {Owner}
        PROVE  Cardinality(SentBy(turn[p].who, turn[p].day - 1)) < MaxPerDay
    <3> DEFINE who == turn[p].who
               day == turn[p].day - 1
    <3>1. WithinDay(p) BY <2>1, <2>2, TurnsAssumption
    <3>2. ASSUME NEW q \in Turns, Written(q)
          PROVE  who \in {conv[msg[q].conv].owner, conv[msg[q].conv].phone} <=> conv[msg[q].conv].phone = who
      <4>1. conv[msg[q].conv].owner \in Users \cup {Nobody}
        BY <3>2 DEF TypeInv, TypeOK, Messages, Conversation
      <4>2. conv[msg[q].conv].owner # who BY <2>2, <4>1, TurnsAssumption
      <4> QED BY <4>2
    <3>3. SentBy(who, day) = {q \in Turns : /\ Written(q) /\ msg[q].at >= day
                                            /\ who \in {conv[msg[q].conv].owner, conv[msg[q].conv].phone}}
      BY <3>2 DEF SentBy
    <3> HIDE DEF who, day
    <3>4. Cardinality(SentBy(who, day)) = CountSince(who, day) BY <3>3 DEF CountSince
    <3> QED BY <3>1, <3>4 DEF WithinDay, who, day
  <2>3. turn'[p] = turn[p] /\ pc'[p] = "ask" /\ PhoneOf(p)' = PhoneOf(p) /\ Unwritten
    BY <2>1 DEF InMemory, PhoneOf, Unwritten, TypeInv, TypeOK
  <2>4. Fits(p) /\ pc[p] = "count" /\ conv' = conv BY <1>2, <2>1 DEF PhoneInv, Count, InMemory
  <2>5. Fits(p)' BY <2>2, <2>3, <2>4, SentStays DEF Fits, BeforeSave
  <2> QED BY <2>1, <2>5, PhoneInMemory
<1> QED BY <1>1, <1>2

LEMMA PhoneAsk ==
    ASSUME TypeInv, PhoneInv, NEW p \in Turns, Ask(p) \/ Summarise(p)
    PROVE  PhoneInv'
<1>1. PICK s \in {"ask", "summarise", "save"} : InMemory(p, s, Asked(p)) /\ pc[p] \in {"ask", "summarise"}
  BY AskMoves DEF Summarise, InMemory, Asked, Goto
<1>2. /\ Asked(p).who = turn[p].who /\ Asked(p).conv = turn[p].conv /\ Asked(p).day = turn[p].day
  BY <1>1, AskedType
<1>3. /\ turn'[p] = Asked(p) /\ pc'[p] = s /\ PhoneOf(p)' = PhoneOf(p) /\ Unwritten /\ conv' = conv
  BY <1>1, <1>2 DEF InMemory, PhoneOf, Unwritten, TypeInv, TypeOK
<1>4. Fits(p) BY DEF PhoneInv
<1>5. Fits(p)' BY <1>1, <1>2, <1>3, <1>4, SentStays DEF Fits, BeforeSave
<1> QED BY <1>1, <1>2, <1>5, PhoneInMemory

LEMMA PhoneStep == TypeInv /\ TypeInv' /\ PhoneInv /\ [Next]_vars => PhoneInv'
<1> SUFFICES ASSUME TypeInv, TypeInv', PhoneInv, [Next]_vars PROVE PhoneInv' OBVIOUS
<1>1. ASSUME NEW p \in Turns, Rest(p) PROVE PhoneInv'
  <2>1. CASE SaveScalars(p)
    <3>1. turn[p].conv \in Conversations /\ pc[p] = "save" /\ pc' = [pc EXCEPT ![p] = "insert"]
          /\ UNCHANGED <<turn, msg>>
      BY <2>1 DEF SaveScalars, Goto, TypeInv, TypeOK, Turn
    <3>2. Unwritten BY <2>1, <3>1 DEF SaveScalars, Unwritten, TypeInv, TypeOK, Conversation
    <3>3. \A q \in Turns : Fits(q)' BY <3>1, <3>2, FitsStays DEF TypeInv, TypeOK
    <3>4. Serial' BY <3>1, SerialStays DEF PhoneInv, Idle, TypeInv, TypeOK
    <3> QED BY <3>2, <3>3, <3>4, SentStays DEF PhoneInv
  <2>2. CASE Reply(p) \/ Fail(p) BY <2>2, PhoneEnd DEF Reply, Fail
  <2> QED BY <1>1, <2>1, <2>2, PhoneLoad, PhoneCount, PhoneAsk, SavesWrite, PhoneWrites DEF Rest
<1>2. ASSUME NEW p \in Turns, NEW who \in Visitors,
             NEW c \in {NoConversation} \cup {d \in Conversations : Stored(d)}, Begin(p, who, c)
      PROVE  PhoneInv'
  <2>1. /\ \A q \in Turns \ {p} : pc'[q] = pc[q] /\ turn'[q] = turn[q]
        /\ turn'[p].who = who /\ pc'[p] \in Idle \cup {"seeding", "load"} /\ UNCHANGED <<conv, msg>>
        /\ who \in Phones => \A q \in Turns : turn[q].who = who => pc[q] \in Idle
    BY <1>2 DEF Begin, Reservar, Goto, NoTurn, Idle, TypeInv, TypeOK
  <2>2. Unwritten BY <2>1 DEF Unwritten
  <2>3. Serial' BY <2>1 DEF PhoneInv, Serial
  <2>4. \A q \in Turns : Fits(q)' BY <2>1, <2>2, FitsStays DEF Fits, BeforeSave, Idle
  <2> QED BY <2>2, <2>3, <2>4, SentStays DEF PhoneInv
<1>3. CASE Sembrar \/ Tick \/ Crash \/ UNCHANGED vars \/ \E p \in Turns : Resume(p)
  <2>1. Unwritten
    BY <1>3 DEF Sembrar, SeedRead, SeedLand, SeedFail, Tick, Crash, vars, Resume, Unwritten
  <2>2. ASSUME NEW q \in Turns
        PROVE  \/ pc'[q] = pc[q] /\ turn'[q] = turn[q]
               \/ pc[q] \in Waiting /\ pc'[q] \in {"seeded", "load", "done"} /\ turn'[q] = turn[q]
               \/ pc'[q] \in Idle
    <3>1. CASE \E p \in Turns : Resume(p)
      BY <3>1 DEF Resume, Reservar, Goto, Waiting, TypeInv, TypeOK
    <3>2. CASE Crash BY <3>2 DEF Crash, Idle
    <3>3. CASE Sembrar \/ Tick \/ UNCHANGED vars
      BY <3>3 DEF Sembrar, SeedRead, SeedLand, SeedFail, Waiters, Tick, vars, Waiting
    <3> QED BY <1>3, <3>1, <3>2, <3>3
  <2>3. Serial' BY <2>2, SerialStays DEF PhoneInv, Waiting, Idle
  <2>4. \A q \in Turns : Fits(q)' BY <2>1, <2>2, FitsStays DEF Fits, BeforeSave, Idle
  <2> QED BY <2>1, <2>3, <2>4, SentStays DEF PhoneInv
<1> QED BY <1>1, <1>2, <1>3 DEF Next, Step, Rest

(* A client's number stays within its limits per day and per conversation,   *)
(* however its messages, crashes and midnights interleave: they are counted  *)
(* before the model is asked and stored long after, and only their handling  *)
(* one at a time keeps the count good (SendMessageUseCase, SenderQueue).     *)
THEOREM PhoneLimits == Spec => []PhoneLimitsHold
<1>1. TypeInv /\ PhoneInv /\ [Next]_vars => TypeInv' /\ PhoneInv' BY TypeStep, PhoneStep
<1>2. PhoneInv => PhoneLimitsHold BY DEF PhoneInv
<1> QED BY <1>1, <1>2, TypeInit, PhoneInit, PTL DEF Spec
=============================================================================
