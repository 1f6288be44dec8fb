----------------------------- MODULE FoldProofs -----------------------------
(***************************************************************************)
(* Folding a sequence from the left (FoldLeft of module SequencesExt) with *)
(* any operation: what is true of the start, and is kept by every element, *)
(* is true of the result.  The provers do not take an operation as a       *)
(* parameter of a theorem; here it is a constant of the module, which is   *)
(* instantiated for each fold of the code.                                 *)
(***************************************************************************)
EXTENDS SequencesExt, Integers, SumProofs

CONSTANTS
    Op(_, _, _, _, _, _),   \* the result so far and the next element, in a context
    Holds(_, _, _)          \* what holds after so many elements, in a context

Folded(a, b, c, d, base, seq) ==
    FoldLeft(LAMBDA acc, x : Op(a, b, c, d, acc, x), base, seq)

-----------------------------------------------------------------------------
(* The places of a sequence *)

\* The greatest number of a set of places is one of them.
LEMMA GreatestPlace ==
    ASSUME NEW n \in Nat, NEW S \in SUBSET (1..n), S # {}
    PROVE  Max(S) \in S /\ \A k \in S : k <= Max(S)
<1> DEFINE Bad == {k \in Nat : n - k \in S}
<1>1. Bad # {}
  <2>1. PICK x \in S : TRUE
    OBVIOUS
  <2>2. n - x \in Nat /\ n - (n - x) = x
    OBVIOUS
  <2> QED
    BY <2>1, <2>2
<1>2. PICK m \in Bad : \A k \in Bad : m <= k
  BY <1>1, LeastNumber
<1>3. n - m \in S
  BY <1>2
<1>4. ASSUME NEW k \in S
      PROVE  n - m >= k
  <2>1. n - k \in Bad
    OBVIOUS
  <2> QED
    BY <1>2, <2>1
<1>5. \E y \in S : \A k \in S : y >= k
  BY <1>3, <1>4
<1> QED
  BY <1>5 DEF Max

\* g folds the elements at the places of a set, the last one last.
Partial(a, b, c, d, base, seq, g, family) ==
    g = [s \in family |-> IF s = {} THEN base
                          ELSE Op(a, b, c, d, g[s \ {Max(s)}], seq[Max(s)])]

AtMost(S, n) == {s \in SUBSET S : Cardinality(s) <= n}

\* There is such a g: on the sets of up to n places, for every n.
LEMMA PartialExists ==
    ASSUME NEW a, NEW b, NEW c, NEW d, NEW base, NEW seq, NEW size \in Nat
    PROVE  \E g : Partial(a, b, c, d, base, seq, g, SUBSET (1..size))
<1> DEFINE S == 1..size
           Bad == {n \in Nat : ~ \E g : Partial(a, b, c, d, base, seq, g, AtMost(S, n))}
<1>0. S \in SUBSET (1..size) /\ IsFiniteSet(S)
  BY FS_Interval
<1> HIDE DEF S
<1>1. \A s \in SUBSET S : IsFiniteSet(s) /\ Cardinality(s) \in Nat
  BY <1>0, FS_Subset, FS_CardinalityType
<1>2. \A s \in SUBSET S : s # {} =>
          /\ Max(s) \in s
          /\ Cardinality(s \ {Max(s)}) = Cardinality(s) - 1
          /\ s \ {Max(s)} \in SUBSET S
  <2> SUFFICES ASSUME NEW s \in SUBSET S, s # {}
               PROVE  /\ Max(s) \in s
                      /\ Cardinality(s \ {Max(s)}) = Cardinality(s) - 1
    OBVIOUS
  <2>1. Max(s) \in s
    BY <1>0, GreatestPlace
  <2> QED
    BY <1>1, <2>1, FS_RemoveElement
<1>3. Bad = {}
  <2> SUFFICES ASSUME Bad # {}
               PROVE  FALSE
    OBVIOUS
  <2>1. PICK m \in Bad : \A k \in Bad : m <= k
    BY LeastNumber
  <2>2. CASE m = 0
    <3> DEFINE g == [s \in AtMost(S, 0) |-> base]
    <3>1. \A s \in AtMost(S, 0) : s = {}
      BY <1>1, FS_EmptySet DEF AtMost
    <3>2. g = [s \in AtMost(S, 0) |-> IF s = {} THEN base
                          ELSE Op(a, b, c, d, g[s \ {Max(s)}], seq[Max(s)])]
      BY <3>1
    <3> HIDE DEF g
    <3> QED
      BY <2>1, <2>2, <3>2 DEF Partial
  <2>3. CASE m # 0
    <3>1. m \in Nat \ {0} /\ m - 1 \in Nat /\ m - 1 \notin Bad
      BY <2>1, <2>3
    <3>2. PICK g : Partial(a, b, c, d, base, seq, g, AtMost(S, m - 1))
      BY <3>1
    <3> DEFINE h == [s \in AtMost(S, m) |-> IF s = {} THEN base
                          ELSE Op(a, b, c, d, g[s \ {Max(s)}], seq[Max(s)])]
    <3>3. \A s \in AtMost(S, m) : s # {} => s \ {Max(s)} \in AtMost(S, m - 1)
      BY <1>1, <1>2, <3>1 DEF AtMost
    <3>4. AtMost(S, m - 1) \subseteq AtMost(S, m)
      BY <1>1, <3>1 DEF AtMost
    <3>5. \A s \in AtMost(S, m - 1) : h[s] = g[s]
      BY <3>2, <3>4 DEF Partial
    <3>6. h = [s \in AtMost(S, m) |-> IF s = {} THEN base
                          ELSE Op(a, b, c, d, h[s \ {Max(s)}], seq[Max(s)])]
      BY <3>3, <3>5
    <3> HIDE DEF h
    <3> QED
      BY <2>1, <3>6 DEF Partial
  <2> QED
    BY <2>2, <2>3
<1>4. Cardinality(S) \in Nat /\ AtMost(S, Cardinality(S)) = SUBSET S
  BY <1>0, <1>1, FS_Subset, FS_CardinalityType DEF AtMost
<1>5. \E g : Partial(a, b, c, d, base, seq, g, AtMost(S, Cardinality(S)))
  BY <1>3, <1>4
<1> QED
  BY <1>4, <1>5 DEF S

-----------------------------------------------------------------------------
(* Folds *)

\* The results h after 0, 1, ... elements of seq.
Results(a, b, c, d, base, seq, h) ==
    /\ h[0] = base
    /\ \A n \in 1..Len(seq) : h[n] = Op(a, b, c, d, h[n - 1], seq[n])

\* The fold goes through them.
THEOREM FoldHasSteps ==
    \A a, b, c, d, base, T : \A seq \in Seq(T) :
        \E h : Results(a, b, c, d, base, seq, h) /\ Folded(a, b, c, d, base, seq) = h[Len(seq)]
<1> SUFFICES ASSUME NEW a, NEW b, NEW c, NEW d, NEW base, NEW T, NEW seq \in Seq(T)
             PROVE  \E h : /\ Results(a, b, c, d, base, seq, h)
                           /\ Folded(a, b, c, d, base, seq) = h[Len(seq)]
  OBVIOUS
<1> DEFINE S == DOMAIN seq
           fold == CHOOSE g : Partial(a, b, c, d, base, seq, g, SUBSET S)
           h == [n \in 0..Len(seq) |-> fold[1..n]]
<1>1. S = 1..Len(seq) /\ Len(seq) \in Nat
  OBVIOUS
<1>2. Partial(a, b, c, d, base, seq, fold, SUBSET S)
  BY <1>1, PartialExists
<1>3. Folded(a, b, c, d, base, seq) = fold[S]
  BY DEF Folded, FoldLeft, MapThenFoldSet, Partial
<1> HIDE DEF fold, S
<1>4. ASSUME NEW n \in 1..Len(seq)
      PROVE  /\ 1..n \in SUBSET S /\ 1..n # {}
             /\ Max(1..n) = n /\ (1..n) \ {n} = 1..(n - 1)
  <2>1. 1..n \in SUBSET S /\ n \in 1..n /\ (1..n) \ {n} = 1..(n - 1)
    BY <1>1
  <2>2. Max(1..n) \in 1..n /\ \A k \in 1..n : k <= Max(1..n)
    BY <1>1, <2>1, GreatestPlace
  <2> QED
    BY <2>1, <2>2
<1>5. ASSUME NEW n \in 1..Len(seq)
      PROVE  fold[1..n] = Op(a, b, c, d, fold[1..(n - 1)], seq[n])
  <2> DEFINE s == 1..n
  <2>1. s \in SUBSET S /\ s # {} /\ Max(s) = n /\ s \ {n} = 1..(n - 1)
    BY <1>4
  <2> HIDE DEF s
  <2>2. fold[s] = Op(a, b, c, d, fold[s \ {Max(s)}], seq[Max(s)])
    BY <1>2, <2>1 DEF Partial
  <2> QED
    BY <2>1, <2>2 DEF s
<1>6. fold[1..0] = base
  <2>1. 1..0 = {} /\ {} \in SUBSET S
    OBVIOUS
  <2> QED
    BY <1>2, <2>1 DEF Partial
<1>7. /\ h[0] = base
      /\ \A n \in 1..Len(seq) : h[n] = Op(a, b, c, d, h[n - 1], seq[n])
  <2>1. h[0] = fold[1..0]
    BY <1>1
  <2>2. ASSUME NEW n \in 1..Len(seq)
        PROVE  h[n] = fold[1..n] /\ h[n - 1] = fold[1..(n - 1)]
    <3>1. n \in 0..Len(seq) /\ n - 1 \in 0..Len(seq)
      BY <1>1
    <3> QED
      BY <3>1
  <2> HIDE DEF h
  <2> QED
    BY <1>5, <1>6, <2>1, <2>2
<1>8. h[Len(seq)] = fold[S]
  BY <1>1
<1> HIDE DEF h
<1> QED
  BY <1>3, <1>7, <1>8 DEF Results

\* What holds of the start and is kept by each element holds of the fold.
THEOREM FoldKeeps ==
    \A a, b, c, d, ctx, base, T : \A seq \in Seq(T) :
        /\ Holds(ctx, 0, base)
        /\ \A k \in 1..Len(seq) : \A acc :
              Holds(ctx, k - 1, acc) => Holds(ctx, k, Op(a, b, c, d, acc, seq[k]))
        => Holds(ctx, Len(seq), Folded(a, b, c, d, base, seq))
<1> SUFFICES ASSUME NEW a, NEW b, NEW c, NEW d, NEW ctx, NEW base, NEW T, NEW seq \in Seq(T),
                    Holds(ctx, 0, base),
                    \A k \in 1..Len(seq) : \A acc :
                       Holds(ctx, k - 1, acc) => Holds(ctx, k, Op(a, b, c, d, acc, seq[k]))
             PROVE  Holds(ctx, Len(seq), Folded(a, b, c, d, base, seq))
  OBVIOUS
<1>1. PICK h : Results(a, b, c, d, base, seq, h) /\ Folded(a, b, c, d, base, seq) = h[Len(seq)]
  BY FoldHasSteps
<1> DEFINE Bad == {n \in Nat : n <= Len(seq) /\ ~Holds(ctx, n, h[n])}
<1>2. Bad = {}
  <2> SUFFICES ASSUME Bad # {}
               PROVE  FALSE
    OBVIOUS
  <2>1. PICK n \in Bad : \A k \in Bad : n <= k
    BY LeastNumber
  <2>2. n # 0
    BY <1>1, <2>1 DEF Results
  <2>3. n \in 1..Len(seq) /\ n - 1 \in Nat /\ n - 1 <= Len(seq) /\ n - 1 \notin Bad
    BY <2>1, <2>2
  <2>4. Holds(ctx, n - 1, h[n - 1])
    BY <2>3
  <2>5. h[n] = Op(a, b, c, d, h[n - 1], seq[n])
    BY <1>1, <2>3 DEF Results
  <2> QED
    BY <2>1, <2>3, <2>4, <2>5
<1>3. Len(seq) \in Nat
  OBVIOUS
<1> QED
  BY <1>1, <1>2, <1>3
=============================================================================
