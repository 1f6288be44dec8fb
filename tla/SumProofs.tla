----------------------------- MODULE SumProofs -----------------------------
(***************************************************************************)
(* Sums over finite sets (SumFunctionOnSet of module Functions): what a    *)
(* sum of natural numbers is after an element is added or taken away.      *)
(*                                                                         *)
(* The fold behind the sum takes the elements in an order of its own, so   *)
(* that the order does not matter is proved here, by looking at a smallest *)
(* set for which it would.                                                 *)
(***************************************************************************)
EXTENDS Functions, FiniteSetTheorems, WellFoundedInduction, TLAPS

-----------------------------------------------------------------------------
(* Smallest counterexamples *)

\* A set of finite sets has a smallest member.
LEMMA SmallestSet ==
    ASSUME NEW S, IsFiniteSet(S), NEW Bad \in SUBSET SUBSET S, Bad # {}
    PROVE  \E T \in Bad : \A U \in Bad : ~(U \subseteq T /\ U # T)
<1>1. IsWellFoundedOn(StrictSubsetOrdering(S), FiniteSubsetsOf(S))
  BY FS_StrictSubsetOrderingWellFounded
<1>2. Bad \subseteq FiniteSubsetsOf(S)
  BY FS_Subset DEF FiniteSubsetsOf
<1>3. \E T \in Bad : \A U \in Bad : <<U, T>> \notin StrictSubsetOrdering(S)
  BY <1>1, <1>2, WFMin
<1> QED
  BY <1>3 DEF StrictSubsetOrdering

\* A set of natural numbers has a least member.
LEMMA LeastNumber ==
    ASSUME NEW Bad \in SUBSET Nat, Bad # {}
    PROVE  \E m \in Bad : \A k \in Bad : m <= k
<1>1. ASSUME NEW Less, IsWellFoundedOn(Less, Nat),
             \A k, m \in Nat : k < m => <<k, m>> \in Less
      PROVE  \E m \in Bad : \A k \in Bad : m <= k
  <2>1. IsWellFoundedOn(Less, Nat) /\ Bad \subseteq Nat
    BY <1>1
  <2>2. \E m \in Bad : \A k \in Bad : <<k, m>> \notin Less
    BY <2>1, WFMin
  <2>3. PICK m \in Bad : \A k \in Bad : <<k, m>> \notin Less
    BY <2>2
  <2>4. ASSUME NEW k \in Bad
        PROVE  m <= k
    <3>1. ~ (k < m)
      BY <1>1, <2>3
    <3> QED
      BY <3>1
  <2> QED
    BY <2>4
<1>2. \A k, m \in Nat : k < m => <<k, m>> \in OpToRel(<, Nat)
  BY Zenon DEF OpToRel
<1> QED
  BY <1>1, <1>2, NatLessThanWellFounded, Zenon

-----------------------------------------------------------------------------
(* The fold of SumFunctionOnSet is well defined *)

AnyOf(s) == CHOOSE x \in s : TRUE

\* g adds up f over each member of the family, one chosen element at a time.
Folds(f, family, g) ==
    g = [s \in family |-> IF s = {} THEN 0
                          ELSE f[AnyOf(s)] + g[s \ {AnyOf(s)}]]

\* f has a natural number for each member of the finite set S.
Summable(f, S) == IsFiniteSet(S) /\ \A x \in S : f[x] \in Nat

Agree(f, e, S) == \A x \in S : f[x] = e[x]

\* Any element of a member of the family may be taken out of it first.
AnyFirst(f, family, g) ==
    \A T \in family : \A x \in T : g[T] = f[x] + g[T \ {x}]

UpTo(S, n) == {s \in SUBSET S : Cardinality(s) <= n}

\* Such a g exists: on the sets of up to n elements, for every n.
LEMMA FoldExists ==
    ASSUME NEW S, IsFiniteSet(S), NEW f
    PROVE  \E g : Folds(f, SUBSET S, g)
<1> DEFINE Bad == {n \in Nat : ~ \E g : Folds(f, UpTo(S, n), g)}
<1>1. \A s \in SUBSET S : IsFiniteSet(s) /\ Cardinality(s) \in Nat
  BY FS_Subset, FS_CardinalityType
<1>2. \A s \in SUBSET S : s # {} =>
          /\ AnyOf(s) \in s
          /\ Cardinality(s \ {AnyOf(s)}) = Cardinality(s) - 1
          /\ s \ {AnyOf(s)} \in SUBSET S
  BY <1>1, FS_RemoveElement DEF AnyOf
<1>3. Bad = {}
  <2> SUFFICES ASSUME Bad # {}
               PROVE  FALSE
    OBVIOUS
  <2>1. PICK m \in Bad : \A k \in Bad : m <= k
    BY LeastNumber
  <2>2. CASE m = 0
    <3> DEFINE g == [s \in UpTo(S, 0) |-> 0]
    <3>1. \A s \in UpTo(S, 0) : s = {}
      BY <1>1, FS_EmptySet DEF UpTo
    <3>2. g = [s \in UpTo(S, 0) |-> IF s = {} THEN 0
                          ELSE f[AnyOf(s)] + g[s \ {AnyOf(s)}]]
      BY <3>1
    <3> HIDE DEF g
    <3> QED
      BY <2>1, <2>2, <3>2 DEF Folds
  <2>3. CASE m # 0
    <3>1. m \in Nat \ {0} /\ m - 1 \in Nat /\ m - 1 \notin Bad
      BY <2>1, <2>3
    <3>2. PICK g : Folds(f, UpTo(S, m - 1), g)
      BY <3>1
    <3> DEFINE h == [s \in UpTo(S, m) |-> IF s = {} THEN 0
                          ELSE f[AnyOf(s)] + g[s \ {AnyOf(s)}]]
    <3>3. \A s \in UpTo(S, m) : s # {} => s \ {AnyOf(s)} \in UpTo(S, m - 1)
      BY <1>1, <1>2, <3>1 DEF UpTo
    <3>4. UpTo(S, m - 1) \subseteq UpTo(S, m)
      BY <1>1, <3>1 DEF UpTo
    <3>5. \A s \in UpTo(S, m - 1) : h[s] = g[s]
      BY <3>2, <3>4 DEF Folds
    <3>6. h = [s \in UpTo(S, m) |-> IF s = {} THEN 0
                          ELSE f[AnyOf(s)] + h[s \ {AnyOf(s)}]]
      BY <3>3, <3>5
    <3> HIDE DEF h
    <3> QED
      BY <2>1, <3>6 DEF Folds
  <2> QED
    BY <2>2, <2>3
<1>4. Cardinality(S) \in Nat /\ UpTo(S, Cardinality(S)) = SUBSET S
  BY <1>1, FS_Subset, FS_CardinalityType DEF UpTo
<1>5. \E g : Folds(f, UpTo(S, Cardinality(S)), g)
  BY <1>3, <1>4
<1> QED
  BY <1>4, <1>5

\* The sum is the last value of such a g.
LEMMA SumIsAFold ==
    ASSUME NEW S, IsFiniteSet(S), NEW f
    PROVE  \E g : Folds(f, SUBSET S, g) /\ SumFunctionOnSet(f, S) = g[S]
<1> DEFINE h == CHOOSE g : Folds(f, SUBSET S, g)
<1>1. Folds(f, SUBSET S, h)
  BY FoldExists
<1>2. SumFunctionOnSet(f, S) = h[S]
  BY DEF SumFunctionOnSet, FoldFunctionOnSet, MapThenFoldSet, Folds, AnyOf
<1> QED
  BY <1>1, <1>2

\* Two folds agree wherever what they add up does, however large the sets that
\* they are part of.
LEMMA FoldsAgree ==
    ASSUME NEW S, IsFiniteSet(S), NEW A, NEW B, S \subseteq A, S \subseteq B,
           NEW f, NEW e, Agree(f, e, S),
           NEW g, NEW h, Folds(f, SUBSET A, g), Folds(e, SUBSET B, h)
    PROVE  g[S] = h[S]
<1> DEFINE Bad == {T \in SUBSET S : g[T] # h[T]}
<1>1. Bad = {}
  <2> SUFFICES ASSUME Bad # {}
               PROVE  FALSE
    OBVIOUS
  <2>0. Bad \in SUBSET SUBSET S /\ Bad # {}
    OBVIOUS
  <2>1. PICK T \in Bad : \A U \in Bad : ~(U \subseteq T /\ U # T)
    <3> HIDE DEF Bad
    <3> QED
      BY <2>0, SmallestSet
  <2> DEFINE U == T \ {AnyOf(T)}
  <2>2. T \in SUBSET A /\ T \in SUBSET B /\ T \in SUBSET S
    BY <2>1
  <2>3. CASE T = {}
    BY <2>1, <2>2, <2>3 DEF Folds
  <2>4. CASE T # {}
    <3>1. AnyOf(T) \in T
      BY <2>4 DEF AnyOf
    <3>2. U \in SUBSET S /\ U \subseteq T /\ U # T
      BY <2>2, <3>1
    <3>3. g[U] = h[U]
      BY <2>1, <3>2
    <3>4. g[T] = f[AnyOf(T)] + g[U] /\ h[T] = e[AnyOf(T)] + h[U]
      BY <2>2, <2>4 DEF Folds
    <3> QED
      BY <2>1, <2>2, <3>1, <3>3, <3>4 DEF Agree
  <2> QED
    BY <2>3, <2>4
<1> QED
  BY <1>1

\* A fold of natural numbers is a natural number.
LEMMA FoldIsNatural ==
    ASSUME NEW S, NEW f, Summable(f, S), NEW g, Folds(f, SUBSET S, g)
    PROVE  \A T \in SUBSET S : g[T] \in Nat
<1>1. g[{}] = 0
  BY DEF Folds
<1>2. \A T \in SUBSET S : T # {} =>
          AnyOf(T) \in T /\ g[T] = f[AnyOf(T)] + g[T \ {AnyOf(T)}]
  BY DEF Folds, AnyOf
<1> DEFINE Bad == {T \in SUBSET S : g[T] \notin Nat}
<1>3. ASSUME Bad # {}
      PROVE  FALSE
  <2>1. Bad \in SUBSET SUBSET S
    OBVIOUS
  <2>2. PICK T \in Bad : \A U \in Bad : ~(U \subseteq T /\ U # T)
    <3> HIDE DEF Bad
    <3> QED
      BY <1>3, <2>1, SmallestSet DEF Summable
  <2>3. T \in SUBSET S /\ g[T] \notin Nat
    BY <2>2
  <2>4. ASSUME T = {}
        PROVE  FALSE
    <3>1. g[{}] \notin Nat
      BY <2>3, <2>4
    <3> QED
      BY <1>1, <3>1
  <2>5. /\ AnyOf(T) \in T /\ f[AnyOf(T)] \in Nat
        /\ g[T] = f[AnyOf(T)] + g[T \ {AnyOf(T)}]
    BY <1>2, <2>3, <2>4 DEF Summable
  <2>6. T \ {AnyOf(T)} \notin Bad
    BY <2>2, <2>5
  <2>7. g[T \ {AnyOf(T)}] \in Nat
    BY <2>3, <2>6
  <2> QED
    BY <2>3, <2>5, <2>7
<1> QED
  BY <1>3

\* Any element may be taken out of a fold first.
LEMMA FoldAnyFirst ==
    ASSUME NEW S, NEW f, Summable(f, S), NEW g, Folds(f, SUBSET S, g)
    PROVE  AnyFirst(f, SUBSET S, g)
<1>1. \A T \in SUBSET S : g[T] \in Nat
  BY FoldIsNatural
<1>2. \A T \in SUBSET S : T # {} =>
          AnyOf(T) \in T /\ g[T] = f[AnyOf(T)] + g[T \ {AnyOf(T)}]
  BY DEF Folds, AnyOf
<1> DEFINE Bad == {T \in SUBSET S : \E x \in T : g[T] # f[x] + g[T \ {x}]}
<1>3. ASSUME Bad # {}
      PROVE  FALSE
  <2>1. Bad \in SUBSET SUBSET S
    OBVIOUS
  <2>2. PICK T \in Bad : \A U \in Bad : ~(U \subseteq T /\ U # T)
    <3> HIDE DEF Bad
    <3> QED
      BY <1>3, <2>1, SmallestSet DEF Summable
  <2>3. PICK x \in T : g[T] # f[x] + g[T \ {x}]
    BY <2>2
  <2>4. T \in SUBSET S /\ T # {}
    BY <2>2, <2>3
  <2>5. PICK c \in T : g[T] = f[c] + g[T \ {c}]
    BY <1>2, <2>4
  <2>6. c # x
    BY <2>3, <2>5
  <2> DEFINE U == (T \ {c}) \ {x}
  <2>7. /\ U \in SUBSET S /\ U = (T \ {x}) \ {c}
        /\ x \in T \ {c} /\ c \in T \ {x}
    BY <2>4, <2>6
  <2>8. /\ T \ {c} \in SUBSET S /\ T \ {c} \notin Bad
        /\ T \ {x} \in SUBSET S /\ T \ {x} \notin Bad
    BY <2>2, <2>4
  <2>9. g[T \ {c}] = f[x] + g[U] /\ g[T \ {x}] = f[c] + g[U]
    BY <2>7, <2>8
  <2>10. f[x] \in Nat /\ f[c] \in Nat /\ g[U] \in Nat
    BY <1>1, <2>4, <2>7 DEF Summable
  <2> QED
    BY <2>3, <2>5, <2>9, <2>10
<1> QED
  BY <1>3 DEF AnyFirst

-----------------------------------------------------------------------------
(* Sums *)

\* A sum of natural numbers is one, and one of its terms may be taken out.
LEMMA SumTakesOut ==
    ASSUME NEW S, NEW f, Summable(f, S)
    PROVE  /\ SumFunctionOnSet(f, S) \in Nat
           /\ \A x \in S : SumFunctionOnSet(f, S)
                  = f[x] + SumFunctionOnSet(f, S \ {x})
<1>1. PICK g : Folds(f, SUBSET S, g) /\ SumFunctionOnSet(f, S) = g[S]
  BY SumIsAFold DEF Summable
<1>2. S \in SUBSET S
  OBVIOUS
<1>3. g[S] \in Nat
  BY <1>1, <1>2, FoldIsNatural
<1>4. AnyFirst(f, SUBSET S, g)
  BY <1>1, FoldAnyFirst
<1>5. ASSUME NEW x \in S, NEW T, T = S \ {x}
      PROVE  SumFunctionOnSet(f, T) = g[T]
  <2>1. IsFiniteSet(T) /\ T \subseteq S /\ T \subseteq T
    BY <1>5, FS_RemoveElement DEF Summable
  <2>2. PICK h : Folds(f, SUBSET T, h) /\ SumFunctionOnSet(f, T) = h[T]
    BY <2>1, SumIsAFold
  <2>3. Agree(f, f, T)
    BY DEF Agree
  <2>4. Folds(f, SUBSET S, g) /\ Folds(f, SUBSET T, h)
    BY <1>1, <2>2
  <2>5. g[T] = h[T]
    BY <2>1, <2>3, <2>4, FoldsAgree, SMTT(20)
  <2> QED
    BY <2>2, <2>5
<1> QED
  BY <1>1, <1>2, <1>3, <1>4, <1>5 DEF AnyFirst

\* Only the values at the set matter.
LEMMA SumsAgree ==
    ASSUME NEW S, IsFiniteSet(S), NEW f, NEW e, Agree(f, e, S)
    PROVE  SumFunctionOnSet(f, S) = SumFunctionOnSet(e, S)
<1>1. PICK g : Folds(f, SUBSET S, g) /\ SumFunctionOnSet(f, S) = g[S]
  BY SumIsAFold
<1>2. PICK h : Folds(e, SUBSET S, h) /\ SumFunctionOnSet(e, S) = h[S]
  BY SumIsAFold
<1> QED
  BY <1>1, <1>2, FoldsAgree

\* The sum over nothing.
LEMMA SumOfNothing ==
    ASSUME NEW f
    PROVE  SumFunctionOnSet(f, {}) = 0
<1>1. PICK g : Folds(f, SUBSET {}, g) /\ SumFunctionOnSet(f, {}) = g[{}]
  BY SumIsAFold, FS_EmptySet
<1> QED
  BY <1>1 DEF Folds

\* One more term.
LEMMA SumAdds ==
    ASSUME NEW S, NEW x, x \notin S, NEW f, Summable(f, S \cup {x})
    PROVE  /\ SumFunctionOnSet(f, S) \in Nat
           /\ SumFunctionOnSet(f, S \cup {x}) = f[x] + SumFunctionOnSet(f, S)
<1> DEFINE T == S \cup {x}
<1>1. S = T \ {x} /\ S \subseteq T
  OBVIOUS
<1>2. Summable(f, S)
  BY <1>1, FS_Subset DEF Summable
<1>3. SumFunctionOnSet(f, T) = f[x] + SumFunctionOnSet(f, T \ {x})
  BY SumTakesOut
<1> QED
  BY <1>1, <1>2, <1>3, SumTakesOut

\* A part never adds up to more than the whole.
LEMMA SumOfPart ==
    ASSUME NEW S, NEW f, Summable(f, S), NEW T \in SUBSET S
    PROVE  SumFunctionOnSet(f, T) <= SumFunctionOnSet(f, S)
<1>1. \A U \in SUBSET S : Summable(f, U) /\ SumFunctionOnSet(f, U) \in Nat
  BY FS_Subset, SumTakesOut DEF Summable
<1> DEFINE Left(U) == SumFunctionOnSet(f, S \ U)
           Bad == {U \in SUBSET S : Left(U) > SumFunctionOnSet(f, S)}
<1>2. ASSUME Bad # {}
      PROVE  FALSE
  <2>1. Bad \in SUBSET SUBSET S
    OBVIOUS
  <2>2. PICK U \in Bad : \A V \in Bad : ~(V \subseteq U /\ V # U)
    <3> HIDE DEF Bad
    <3> QED
      BY <1>2, <2>1, SmallestSet DEF Summable
  <2>3. U \in SUBSET S /\ Left(U) > SumFunctionOnSet(f, S)
    BY <2>2
  <2>4. U # {}
    <3>1. Left({}) = SumFunctionOnSet(f, S)
      <4>1. S \ {} = S
        OBVIOUS
      <4> QED
        BY <4>1
    <3> QED
      BY <1>1, <2>3, <3>1
  <2>5. PICK x \in U : TRUE
    BY <2>4
  <2>6. U \ {x} \in SUBSET S /\ U \ {x} \notin Bad
    BY <2>2, <2>3
  <2>7. Left(U \ {x}) <= SumFunctionOnSet(f, S)
    BY <1>1, <2>6
  <2> DEFINE V == S \ U
  <2>8. S \ (U \ {x}) = V \cup {x} /\ x \notin V /\ V \cup {x} \in SUBSET S
    BY <2>3
  <2>9. Left(U \ {x}) = f[x] + Left(U)
    BY <1>1, <2>8, SumAdds
  <2>10. f[x] \in Nat /\ Left(U) \in Nat
    BY <1>1, <2>3 DEF Summable
  <2> QED
    BY <1>1, <2>3, <2>7, <2>9, <2>10
<1>3. S \ T \in SUBSET S /\ S \ (S \ T) = T
  OBVIOUS
<1>4. ~(Left(S \ T) > SumFunctionOnSet(f, S))
  BY <1>2, <1>3
<1> QED
  BY <1>1, <1>3, <1>4

-----------------------------------------------------------------------------
(* Places in an order *)

\* Where every element of a finite set has a place of its own below the size of
\* the set, every place is taken.
LEMMA PlacesAreTaken ==
    ASSUME NEW S, IsFiniteSet(S), NEW place \in [S -> 0..(Cardinality(S) - 1)],
           \A x, y \in S : place[x] = place[y] => x = y
    PROVE  \A k \in 0..(Cardinality(S) - 1) : \E x \in S : place[x] = k
<1> DEFINE n == Cardinality(S)
           T == 0..(n - 1)
<1>1. n \in Nat
  BY FS_CardinalityType
<1>2. IsFiniteSet(T) /\ Cardinality(T) = n
  <2> HIDE DEF n
  <2>1. 0 \in Int /\ n - 1 \in Int
    BY <1>1
  <2>2. /\ IsFiniteSet(T)
        /\ Cardinality(T) = IF 0 > n - 1 THEN 0 ELSE (n - 1) - 0 + 1
    BY <2>1, FS_Interval
  <2> QED
    BY <1>1, <2>2
<1>3. place \in Injection(S, T)
  BY DEF Injection, IsInjective
<1>4. place \in Surjection(S, T)
  BY <1>2, <1>3, FS_Injection
<1> QED
  BY <1>4 DEF Surjection
=============================================================================
