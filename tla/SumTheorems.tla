---------------------------- MODULE SumTheorems ----------------------------
(***************************************************************************)
(* Induction over numbers and over finite sets, in a form in which what is *)
(* shown is membership in a set, and what follows from it: functions that  *)
(* are defined step by step, left folds of sequences, how many elements a  *)
(* part of a finite set has, and sums over functions, which the models     *)
(* fold by FoldFunction in an unknown order.                               *)
(***************************************************************************)
EXTENDS Integers, FiniteSets, Functions, FiniteSetTheorems, TLAPS

\* A set of numbers that has zero and each successor has all of them: otherwise the
\* successor would map a finite part of it into what is left without zero.
LEMMA Induction ==
  ASSUME NEW S \in SUBSET Nat, 0 \in S, \A n \in S : n + 1 \in S
  PROVE  \A n \in Nat : n \in S
<1>1. SUFFICES ASSUME NEW n \in Nat, n \notin S PROVE FALSE
  OBVIOUS
<1> DEFINE L == {i \in 0..n : i \in S}
           f == [i \in L |-> i + 1]
<1>2. /\ IsFiniteSet(L) /\ IsFiniteSet(L \ {0})
      /\ Cardinality(L \ {0}) < Cardinality(L)
  <2>1. IsFiniteSet(0..n) /\ 0 \in L
    BY FS_Interval
  <2>2. IsFiniteSet(L)
    BY <2>1, FS_Subset
  <2> HIDE DEF L
  <2>3. IsFiniteSet(L \ {0}) /\ Cardinality(L \ {0}) = Cardinality(L) - 1
    BY <2>1, <2>2, FS_RemoveElement
  <2>4. Cardinality(L) \in Nat
    BY <2>2, FS_CardinalityType
  <2> QED
    BY <2>2, <2>3, <2>4
<1>3. f \in [L -> L \ {0}]
  <2>1. \A i \in L : i + 1 \in L /\ i + 1 # 0
    BY <1>1
  <2> QED
    BY <2>1
<1>4. \A x, y \in L : x # y => f[x] # f[y]
  OBVIOUS
<1> HIDE DEF f, L
<1>5. \E x, y \in L : x # y /\ f[x] = f[y]
  BY <1>2, <1>3, FS_PigeonHole
<1> QED
  BY <1>4, <1>5

\* The same with finite sets: what has each set all of whose elements can be taken out.
LEMMA SetInduction ==
  ASSUME NEW D, IsFiniteSet(D), NEW T \in SUBSET SUBSET D,
         \A s \in SUBSET D : (\A x \in s : s \ {x} \in T) => s \in T
  PROVE  \A s \in SUBSET D : s \in T
<1> DEFINE S == {n \in Nat : \A s \in SUBSET D : Cardinality(s) <= n => s \in T}
<1>0. \A s \in SUBSET D : /\ IsFiniteSet(s) /\ Cardinality(s) \in Nat
                          /\ \A x \in s : Cardinality(s \ {x}) = Cardinality(s) - 1
                          /\ Cardinality(s) = 0 => s = {}
  BY FS_Subset, FS_CardinalityType, FS_RemoveElement, FS_EmptySet
<1>1. 0 \in S
  BY <1>0
<1>2. ASSUME NEW n \in S PROVE n + 1 \in S
  <2>1. SUFFICES ASSUME NEW s \in SUBSET D, Cardinality(s) <= n + 1 PROVE s \in T
    OBVIOUS
  <2>2. \A x \in s : s \ {x} \in T
    <3> TAKE x \in s
    <3>1. Cardinality(s \ {x}) <= n /\ s \ {x} \in SUBSET D
      BY <1>0, <2>1
    <3> QED
      BY <1>2, <3>1
  <2> QED
    BY <2>2
<1>3. \A n \in Nat : n \in S
  <2> HIDE DEF S
  <2>1. S \in SUBSET Nat
    BY DEF S
  <2> QED
    BY <1>1, <1>2, <2>1, Induction
<1> QED
  BY <1>0, <1>3

\* A set that loses an element, gains at most one, or shrinks, as the counts see it.
LEMMA Fewer ==
    ASSUME NEW A, IsFiniteSet(A), NEW B, B \subseteq A
    PROVE  /\ IsFiniteSet(B)
           /\ Cardinality(A) \in Nat /\ Cardinality(B) \in Nat
           /\ Cardinality(B) <= Cardinality(A)
  BY FS_Subset, FS_CardinalityType

LEMMA OneFewer ==
    ASSUME NEW A, IsFiniteSet(A), NEW x \in A, NEW B, B \subseteq A \ {x}
    PROVE  /\ IsFiniteSet(B)
           /\ Cardinality(B) \in Nat /\ Cardinality(A) \in Nat
           /\ Cardinality(B) + 1 <= Cardinality(A)
<1>1. /\ IsFiniteSet(A \ {x})
      /\ Cardinality(A \ {x}) = Cardinality(A) - 1
  BY FS_RemoveElement
<1>2. Cardinality(A \ {x}) \in Nat /\ Cardinality(A) \in Nat
  BY <1>1, FS_CardinalityType
<1>3. IsFiniteSet(B) /\ Cardinality(B) \in Nat /\ Cardinality(B) <= Cardinality(A \ {x})
  BY <1>1, FS_Subset, FS_CardinalityType
<1> QED
  BY <1>1, <1>2, <1>3

LEMMA OneMore ==
    ASSUME NEW A, IsFiniteSet(A), NEW x, NEW B, B \subseteq A \cup {x}
    PROVE  /\ IsFiniteSet(B)
           /\ Cardinality(B) \in Nat /\ Cardinality(A) \in Nat
           /\ Cardinality(B) <= Cardinality(A) + 1
<1>1. /\ IsFiniteSet(A \cup {x})
      /\ Cardinality(A \cup {x}) <= Cardinality(A) + 1
      /\ Cardinality(A) \in Nat /\ Cardinality(A \cup {x}) \in Nat
  BY FS_AddElement, FS_CardinalityType
<1>2. IsFiniteSet(B) /\ Cardinality(B) \in Nat /\ Cardinality(B) <= Cardinality(A \cup {x})
  BY <1>1, FS_Subset, FS_CardinalityType
<1> QED
  BY <1>1, <1>2

\* A function over the parts of a finite set that is given step by step: the value for a
\* part rests on the one for the part without the element that p takes out.
Stepwise(g, D, X, base, step, p) ==
    /\ g \in [SUBSET D -> X]
    /\ \A s \in SUBSET D : g[s] = IF s = {} THEN base ELSE step[s][g[s \ {p[s]}]]

LEMMA StepsExist ==
  ASSUME NEW D, IsFiniteSet(D), NEW X, NEW base \in X, NEW step \in [SUBSET D -> [X -> X]],
         NEW Y, NEW p \in [SUBSET D -> Y], \A s \in SUBSET D : s # {} => p[s] \in s
  PROVE  \E g : Stepwise(g, D, X, base, step, p)
<1> DEFINE Up(n) == {s \in SUBSET D : Cardinality(s) <= n}
           Body(g, s) == IF s = {} THEN base ELSE step[s][g[s \ {p[s]}]]
           Good(g, n) == g \in [Up(n) -> X] /\ \A s \in Up(n) : g[s] = Body(g, s)
           S == {n \in Nat : \E g : Good(g, n)}
<1>0. \A s \in SUBSET D : /\ IsFiniteSet(s) /\ Cardinality(s) \in Nat
                          /\ Cardinality(s) <= Cardinality(D)
                          /\ s # {} => Cardinality(s \ {p[s]}) = Cardinality(s) - 1
                          /\ (Cardinality(s) = 0) <=> (s = {})
  <2> TAKE s \in SUBSET D
  <2>1. IsFiniteSet(s) /\ Cardinality(s) <= Cardinality(D)
    BY FS_Subset
  <2>2. s # {} => Cardinality(s \ {p[s]}) = Cardinality(s) - 1
    BY <2>1, FS_RemoveElement
  <2> QED
    BY <2>1, <2>2, FS_CardinalityType, FS_EmptySet
<1>1. 0 \in S
  <2> DEFINE g == [s \in Up(0) |-> base]
  <2>1. ASSUME NEW s \in Up(0) PROVE s = {}
    <3>1. s \in SUBSET D /\ Cardinality(s) <= 0
      OBVIOUS
    <3> HIDE DEF Up
    <3>2. Cardinality(s) \in Nat /\ (Cardinality(s) = 0 => s = {})
      BY <1>0, <3>1
    <3> QED
      BY <3>1, <3>2
  <2>2. g \in [Up(0) -> X] /\ \A s \in Up(0) : g[s] = Body(g, s)
    BY <2>1
  <2> HIDE DEF g, Up, Body
  <2> QED
    BY <2>2
<1>2. ASSUME NEW n \in S PROVE n + 1 \in S
  <2>1. PICK g : Good(g, n)
    OBVIOUS
  <2> DEFINE h == [s \in Up(n + 1) |-> IF s \in Up(n) THEN g[s] ELSE Body(g, s)]
  <2>0. n \in Nat
    OBVIOUS
  <2>2. ASSUME NEW s \in Up(n + 1), s # {}
        PROVE  s \ {p[s]} \in Up(n) /\ s \ {p[s]} \in Up(n + 1)
    <3>1. s \in SUBSET D /\ Cardinality(s) <= n + 1 /\ s \ {p[s]} \in SUBSET D
      OBVIOUS
    <3>2. Cardinality(s) \in Nat /\ Cardinality(s \ {p[s]}) = Cardinality(s) - 1
      BY <1>0, <2>2, <3>1
    <3>3. Cardinality(s \ {p[s]}) <= n /\ Cardinality(s \ {p[s]}) <= n + 1
      BY <2>0, <3>1, <3>2
    <3> QED
      BY <3>1, <3>3
  <2>3. ASSUME NEW s \in Up(n + 1), s \notin Up(n) PROVE s # {}
    <3>1. s \in SUBSET D /\ ~(Cardinality(s) <= n)
      BY <2>3
    <3>2. s = {} => Cardinality(s) = 0
      BY <1>0, <3>1
    <3> QED
      BY <2>0, <3>1, <3>2
  <2>4. ASSUME NEW s \in Up(n + 1) PROVE s \in SUBSET D /\ p[s] = p[s]
    OBVIOUS
  <2> HIDE DEF S, Up
  <2>5. h \in [Up(n + 1) -> X]
    <3> SUFFICES ASSUME NEW s \in Up(n + 1), s \notin Up(n) PROVE Body(g, s) \in X
      BY <2>1
    <3>1. g[s \ {p[s]}] \in X /\ s \in SUBSET D
      BY <2>1, <2>2, <2>3, <2>4
    <3> QED
      BY <3>1
  <2>6. ASSUME NEW s \in Up(n + 1) PROVE h[s] = Body(h, s)
    <3>1. CASE s = {}
      <4>1. s \in Up(n)
        BY <2>3, <3>1
      <4> QED
        BY <2>1, <3>1, <4>1
    <3>2. CASE s # {}
      <4>1. h[s \ {p[s]}] = g[s \ {p[s]}]
        BY <2>2, <3>2
      <4>2. h[s] = Body(g, s)
        BY <2>1
      <4> HIDE DEF h
      <4> QED
        BY <3>2, <4>1, <4>2
    <3> QED
      BY <3>1, <3>2
  <2> HIDE DEF h, Body
  <2>7. Good(h, n + 1)
    BY <2>5, <2>6
  <2> HIDE DEF Good
  <2> QED
    BY <2>0, <2>7 DEF S
<1>3. Cardinality(D) \in S
  <2>1. \A n \in Nat : n \in S
    <3> HIDE DEF S
    <3>1. S \in SUBSET Nat
      BY DEF S
    <3> QED
      BY <1>1, <1>2, <3>1, Induction
  <2> HIDE DEF S
  <2> QED
    BY <1>0, <2>1
<1>4. Up(Cardinality(D)) = SUBSET D
  BY <1>0
<1> HIDE DEF Up
<1> QED
  BY <1>3, <1>4 DEF Stepwise

\* Numbers have a greatest one.
LEMMA GreatestIn ==
  ASSUME NEW D \in SUBSET Int, IsFiniteSet(D)
  PROVE  \A s \in SUBSET D : s # {} => \E x \in s : \A y \in s : x >= y
<1> DEFINE T == {s \in SUBSET D : s # {} => \E x \in s : \A y \in s : x >= y}
<1>1. ASSUME NEW s \in SUBSET D, \A x \in s : s \ {x} \in T PROVE s \in T
  <2> SUFFICES ASSUME NEW z \in s PROVE \E x \in s : \A y \in s : x >= y
    OBVIOUS
  <2>1. s \ {z} \in T
    BY <1>1
  <2>2. CASE s \ {z} = {}
    <3>1. \A y \in s : z >= y
      BY <2>2
    <3> QED
      BY <3>1
  <2>3. CASE s \ {z} # {}
    <3>1. PICK x \in s \ {z} : \A y \in s \ {z} : x >= y
      BY <2>1, <2>3
    <3>2. \A y \in s : (x >= z => x >= y) /\ (~(x >= z) => z >= y)
      BY <3>1
    <3> QED
      BY <3>2
  <2> QED
    BY <2>2, <2>3
<1>2. \A s \in SUBSET D : s \in T
  <2>1. T \in SUBSET SUBSET D
    OBVIOUS
  <2> HIDE DEF T
  <2> QED
    BY <1>1, <2>1, SetInduction
<1> QED
  BY <1>2

Greatest(s) == CHOOSE x \in s : \A y \in s : x >= y

LEMMA GreatestOfInterval ==
  ASSUME NEW n \in Nat
  PROVE  /\ \A s \in SUBSET (1..n) : s # {} => Greatest(s) \in s
         /\ \A k \in 1..n : Greatest(1..k) = k /\ (1..k) \ {k} = 1..(k - 1)
<1>1. 1..n \in SUBSET Int /\ IsFiniteSet(1..n)
  BY FS_Interval
<1> DEFINE D == 1..n
<1> HIDE DEF D
<1>2. \A s \in SUBSET D : s # {} => \E x \in s : \A y \in s : x >= y
  BY <1>1, GreatestIn DEF D
<1>3. \A s \in SUBSET D : s # {} => Greatest(s) \in s /\ \A y \in s : Greatest(s) >= y
  BY <1>2 DEF Greatest
<1>4. ASSUME NEW k \in 1..n PROVE Greatest(1..k) = k /\ (1..k) \ {k} = 1..(k - 1)
  <2>1. 1..k \in SUBSET D /\ k \in 1..k
    BY DEF D
  <2>2. Greatest(1..k) \in 1..k /\ Greatest(1..k) >= k
    BY <1>3, <2>1
  <2> QED
    BY <2>2
<1> QED
  BY <1>3, <1>4 DEF D

\* What a sequence of n elements is folded to from the left, step by step.
LeftFold(g, n, X, base, step) ==
    /\ g \in [SUBSET (1..n) -> X]
    /\ \A s \in SUBSET (1..n) :
           g[s] = IF s = {} THEN base ELSE step[Greatest(s)][g[s \ {Greatest(s)}]]

LEMMA LeftFoldExists ==
  ASSUME NEW n \in Nat, NEW X, NEW base \in X, NEW step \in [1..n -> [X -> X]]
  PROVE  \E g : LeftFold(g, n, X, base, step)
<1> DEFINE D == 1..n
           last == [s \in SUBSET D |-> Greatest(s)]
           move == [s \in SUBSET D |-> [x \in X |-> IF s = {} THEN base ELSE step[Greatest(s)][x]]]
<1>1. IsFiniteSet(D) /\ \A s \in SUBSET D : s # {} => Greatest(s) \in s
  <2>1. IsFiniteSet(D)
    BY FS_Interval
  <2>2. \A s \in SUBSET D : s # {} => Greatest(s) \in s
    BY GreatestOfInterval
  <2> QED
    BY <2>1, <2>2
<1>2. step \in [D -> [X -> X]]
  OBVIOUS
<1> HIDE DEF D
<1>3. move \in [SUBSET D -> [X -> X]]
  <2> SUFFICES ASSUME NEW s \in SUBSET D, NEW x \in X, s # {} PROVE step[Greatest(s)][x] \in X
    OBVIOUS
  <2>1. Greatest(s) \in D
    BY <1>1
  <2> QED
    BY <1>2, <2>1
<1>4. /\ last \in [SUBSET D -> {Greatest(s) : s \in SUBSET D}]
      /\ \A s \in SUBSET D : last[s] = Greatest(s)
  OBVIOUS
<1>5. \A s \in SUBSET D, x \in X : s # {} => move[s][x] = step[Greatest(s)][x]
  OBVIOUS
<1> HIDE DEF last, move
<1>6. PICK g : Stepwise(g, D, X, base, move, last)
  BY <1>1, <1>3, <1>4, StepsExist
<1>7. ASSUME NEW s \in SUBSET D
      PROVE  g[s] = IF s = {} THEN base ELSE step[Greatest(s)][g[s \ {Greatest(s)}]]
  <2>1. /\ last[s] = Greatest(s) /\ s \ {Greatest(s)} \in SUBSET D
        /\ g \in [SUBSET D -> X]
    BY <1>4, <1>6 DEF Stepwise
  <2>2. g[s] = IF s = {} THEN base ELSE move[s][g[s \ {last[s]}]]
    BY <1>6 DEF Stepwise
  <2>3. g[s \ {Greatest(s)}] \in X
    BY <2>1
  <2> QED
    BY <1>5, <2>1, <2>2, <2>3
<1>8. g \in [SUBSET D -> X]
  BY <1>6 DEF Stepwise
<1>9. LeftFold(g, n, X, base, step)
  BY <1>7, <1>8 DEF LeftFold, D
<1> QED
  BY <1>9

-----------------------------------------------------------------------------
(* A fold that adds. *)

SumOver(f) == FoldFunction(LAMBDA x, y : x + y, 0, f)

Pick(s) == CHOOSE x \in s : TRUE
IsFold(g, f, D) == g = [s \in SUBSET D |-> IF s = {} THEN 0
                                           ELSE f[Pick(s)] + g[s \ {Pick(s)}]]
Fold(f, D) == CHOOSE g : IsFold(g, f, D)

\* The sum over some of the indices.
SumOn(f, s) == Fold(f, DOMAIN f)[s]

LEMMA SumIsFold == ASSUME NEW f PROVE SumOver(f) = SumOn(f, DOMAIN f)
  BY Zenon DEF SumOver, SumOn, FoldFunction, FoldFunctionOnSet, MapThenFoldSet, Fold, IsFold, Pick

\* There is a function as the fold wants it: each level of sets adds to the one below.
LEMMA FoldExists ==
  ASSUME NEW f, NEW D, IsFiniteSet(D)
  PROVE  \E g : IsFold(g, f, D)
<1> DEFINE Up(n) == {s \in SUBSET D : Cardinality(s) <= n}
           Body(g, s) == IF s = {} THEN 0 ELSE f[Pick(s)] + g[s \ {Pick(s)}]
           S == {n \in Nat : \E g : g = [s \in Up(n) |-> Body(g, s)]}
<1>0. \A s \in SUBSET D : /\ IsFiniteSet(s) /\ Cardinality(s) \in Nat
                          /\ Cardinality(s) <= Cardinality(D)
                          /\ s # {} => /\ Pick(s) \in s
                                       /\ Cardinality(s \ {Pick(s)}) = Cardinality(s) - 1
                          /\ Cardinality(s) = 0 => s = {}
  BY FS_Subset, FS_CardinalityType, FS_RemoveElement, FS_EmptySet DEF Pick
<1>1. 0 \in S
  <2> DEFINE g == [s \in Up(0) |-> 0]
  <2>1. ASSUME NEW s \in Up(0) PROVE s = {}
    <3>1. s \in SUBSET D /\ Cardinality(s) <= 0
      OBVIOUS
    <3> HIDE DEF Up
    <3>2. Cardinality(s) \in Nat /\ (Cardinality(s) = 0 => s = {})
      BY <1>0, <3>1
    <3> QED
      BY <3>1, <3>2
  <2>2. g = [s \in Up(0) |-> Body(g, s)]
    BY <2>1
  <2> HIDE DEF g
  <2> QED
    BY <2>2
<1>2. ASSUME NEW n \in S PROVE n + 1 \in S
  <2>1. PICK g : g = [s \in Up(n) |-> Body(g, s)]
    OBVIOUS
  <2> DEFINE h == [s \in Up(n + 1) |-> IF Cardinality(s) <= n THEN g[s] ELSE Body(g, s)]
  <2>2. ASSUME NEW s \in Up(n + 1) PROVE h[s] = Body(h, s)
    <3>1. CASE s = {}
      <4>1. s \in Up(n)
        BY <3>1, FS_EmptySet
      <4> QED
        BY <2>1, <3>1, <4>1
    <3>2. CASE s # {}
      <4>1. s \ {Pick(s)} \in Up(n) /\ s \ {Pick(s)} \in Up(n + 1)
        BY <1>0, <3>2
      <4>2. h[s \ {Pick(s)}] = g[s \ {Pick(s)}]
        BY <4>1
      <4>3. h[s] = Body(g, s)
        <5>1. CASE Cardinality(s) <= n
          <6>1. s \in Up(n)
            BY <5>1
          <6>2. g[s] = Body(g, s)
            <7> HIDE DEF Up, Body
            <7> QED
              BY <2>1, <6>1
          <6> QED
            BY <5>1, <6>2
        <5>2. CASE ~(Cardinality(s) <= n)
          BY <5>2
        <5> QED
          BY <5>1, <5>2
      <4> HIDE DEF h
      <4> QED
        BY <3>2, <4>2, <4>3
    <3> QED
      BY <3>1, <3>2
  <2>3. h = [s \in Up(n + 1) |-> h[s]]
    OBVIOUS
  <2> HIDE DEF h, Up, Body
  <2>4. h = [s \in Up(n + 1) |-> Body(h, s)]
    BY <2>2, <2>3
  <2>5. n + 1 \in Nat
    OBVIOUS
  <2> QED
    BY <2>4, <2>5
<1>3. Cardinality(D) \in S
  <2>1. \A n \in Nat : n \in S
    <3> HIDE DEF S
    <3>1. S \in SUBSET Nat
      BY DEF S
    <3> QED
      BY <1>1, <1>2, <3>1, Induction
  <2> HIDE DEF S
  <2> QED
    BY <1>0, <2>1
<1>4. Up(Cardinality(D)) = SUBSET D
  BY <1>0
<1> HIDE DEF Up
<1> QED
  BY <1>3, <1>4 DEF IsFold

LEMMA FoldFacts ==
  ASSUME NEW f, NEW D, D = DOMAIN f, IsFiniteSet(D)
  PROVE  /\ SumOn(f, {}) = 0
         /\ \A s \in SUBSET D :
               s # {} => Pick(s) \in s /\ SumOn(f, s) = f[Pick(s)] + SumOn(f, s \ {Pick(s)})
<1> DEFINE F == Fold(f, D)
<1>1. IsFold(F, f, D)
  BY FoldExists DEF Fold
<1>2. F = [s \in SUBSET D |-> IF s = {} THEN 0 ELSE f[Pick(s)] + F[s \ {Pick(s)}]]
  BY <1>1 DEF IsFold
<1> HIDE DEF F
<1>3. \A s \in SUBSET D : F[s] = IF s = {} THEN 0 ELSE f[Pick(s)] + F[s \ {Pick(s)}]
  BY <1>2
<1>4. \A s : SumOn(f, s) = F[s]
  BY DEF SumOn, F
<1>5. \A s \in SUBSET D : s # {} => Pick(s) \in s
  BY DEF Pick
<1> QED
  BY <1>3, <1>4, <1>5

-----------------------------------------------------------------------------
(* Sums of natural numbers. *)

LEMMA PartType ==
  ASSUME NEW D, IsFiniteSet(D), NEW f \in [D -> Nat]
  PROVE  \A s \in SUBSET D : SumOn(f, s) \in Nat
<1> DEFINE T == {s \in SUBSET D : SumOn(f, s) \in Nat}
<1>1. D = DOMAIN f
  OBVIOUS
<1>2. ASSUME NEW s \in SUBSET D, \A x \in s : s \ {x} \in T PROVE s \in T
  <2>1. SumOn(f, {}) = 0 /\ (s # {} => Pick(s) \in s /\ SumOn(f, s) = f[Pick(s)] + SumOn(f, s \ {Pick(s)}))
    BY <1>1, FoldFacts
  <2> QED
    BY <1>2, <2>1
<1>3. \A s \in SUBSET D : s \in T
  <2>1. T \in SUBSET SUBSET D
    OBVIOUS
  <2> HIDE DEF T
  <2> QED
    BY <1>2, <2>1, SetInduction
<1> QED
  BY <1>3

\* Any element may be taken out, not only the one the fold picks.
LEMMA TakeOut ==
  ASSUME NEW D, IsFiniteSet(D), NEW f \in [D -> Nat]
  PROVE  \A s \in SUBSET D : \A x \in s : SumOn(f, s) = f[x] + SumOn(f, s \ {x})
<1> DEFINE T == {s \in SUBSET D : \A x \in s : SumOn(f, s) = f[x] + SumOn(f, s \ {x})}
<1>1. D = DOMAIN f
  OBVIOUS
<1>0. \A s \in SUBSET D : SumOn(f, s) \in Nat
  BY PartType
<1>2. ASSUME NEW s \in SUBSET D, \A x \in s : s \ {x} \in T PROVE s \in T
  <2> SUFFICES ASSUME NEW x \in s PROVE SumOn(f, s) = f[x] + SumOn(f, s \ {x})
    OBVIOUS
  <2> DEFINE p == Pick(s)
             r == (s \ {x}) \ {p}
  <2>1. p \in s /\ SumOn(f, s) = f[p] + SumOn(f, s \ {p})
    BY <1>1, FoldFacts
  <2> HIDE DEF p
  <2>2. CASE x # p
    <3>1. s \ {p} \in T /\ s \ {x} \in T /\ x \in s \ {p} /\ p \in s \ {x}
      BY <1>2, <2>1, <2>2
    <3>2. SumOn(f, s \ {p}) = f[x] + SumOn(f, (s \ {p}) \ {x})
      BY <3>1
    <3>3. SumOn(f, s \ {x}) = f[p] + SumOn(f, (s \ {x}) \ {p})
      BY <3>1
    <3>4. (s \ {p}) \ {x} = r /\ r \in SUBSET D
      OBVIOUS
    <3>5. SumOn(f, r) \in Nat /\ f[x] \in Nat /\ f[p] \in Nat
      BY <1>0, <2>1, <3>4
    <3> HIDE DEF T, r
    <3> QED
      BY <2>1, <3>2, <3>3, <3>4, <3>5 DEF r
  <2> QED
    BY <2>1, <2>2
<1>3. \A s \in SUBSET D : s \in T
  <2>1. T \in SUBSET SUBSET D
    OBVIOUS
  <2> HIDE DEF T
  <2> QED
    BY <1>2, <2>1, SetInduction
<1> QED
  BY <1>3

\* Of two functions the one with the greater numbers has the greater sum.
LEMMA AtMostPart ==
  ASSUME NEW D, IsFiniteSet(D), NEW f \in [D -> Nat],
         NEW E, IsFiniteSet(E), NEW g \in [E -> Nat]
  PROVE  \A s \in SUBSET (D \cap E) :
             (\A x \in s : f[x] <= g[x]) => SumOn(f, s) <= SumOn(g, s)
<1> DEFINE C == D \cap E
           T == {s \in SUBSET C : (\A x \in s : f[x] <= g[x]) => SumOn(f, s) <= SumOn(g, s)}
<1>1. D = DOMAIN f /\ E = DOMAIN g /\ IsFiniteSet(C)
  BY FS_Subset
<1>0. \A s \in SUBSET C : SumOn(f, s) \in Nat /\ SumOn(g, s) \in Nat
  BY PartType
<1>2. ASSUME NEW s \in SUBSET C, \A x \in s : s \ {x} \in T PROVE s \in T
  <2> SUFFICES ASSUME \A x \in s : f[x] <= g[x] PROVE SumOn(f, s) <= SumOn(g, s)
    OBVIOUS
  <2>1. /\ SumOn(f, {}) = 0 /\ SumOn(g, {}) = 0
        /\ s # {} => /\ Pick(s) \in s /\ SumOn(f, s) = f[Pick(s)] + SumOn(f, s \ {Pick(s)})
                     /\ SumOn(g, s) = g[Pick(s)] + SumOn(g, s \ {Pick(s)})
    BY <1>1, FoldFacts
  <2>2. CASE s # {}
    <3> DEFINE r == s \ {Pick(s)}
    <3>1. r \in T /\ r \in SUBSET C /\ Pick(s) \in C /\ \A x \in r : f[x] <= g[x]
      BY <1>2, <2>1, <2>2
    <3>2. SumOn(f, r) <= SumOn(g, r)
      BY <3>1
    <3>3. SumOn(f, r) \in Nat /\ SumOn(g, r) \in Nat /\ f[Pick(s)] \in Nat /\ g[Pick(s)] \in Nat
      BY <1>0, <3>1
    <3> HIDE DEF r, T
    <3> QED
      BY <2>1, <2>2, <3>2, <3>3 DEF r
  <2> QED
    BY <2>1, <2>2
<1>3. \A s \in SUBSET C : s \in T
  <2>1. T \in SUBSET SUBSET C
    OBVIOUS
  <2> HIDE DEF T, C
  <2> QED
    BY <1>1, <1>2, <2>1, SetInduction
<1> QED
  BY <1>3

\* The sum of a sum.
LEMMA AddedParts ==
  ASSUME NEW D, IsFiniteSet(D), NEW f \in [D -> Nat], NEW g \in [D -> Nat], NEW h \in [D -> Nat],
         \A x \in D : h[x] = f[x] + g[x]
  PROVE  \A s \in SUBSET D : SumOn(h, s) = SumOn(f, s) + SumOn(g, s)
<1> DEFINE T == {s \in SUBSET D : SumOn(h, s) = SumOn(f, s) + SumOn(g, s)}
<1>1. D = DOMAIN f /\ D = DOMAIN g /\ D = DOMAIN h
  OBVIOUS
<1>0. \A s \in SUBSET D : SumOn(f, s) \in Nat /\ SumOn(g, s) \in Nat
  BY PartType
<1>2. ASSUME NEW s \in SUBSET D, \A x \in s : s \ {x} \in T PROVE s \in T
  <2>1. /\ SumOn(f, {}) = 0 /\ SumOn(g, {}) = 0 /\ SumOn(h, {}) = 0
        /\ s # {} => /\ Pick(s) \in s /\ SumOn(f, s) = f[Pick(s)] + SumOn(f, s \ {Pick(s)})
                     /\ SumOn(g, s) = g[Pick(s)] + SumOn(g, s \ {Pick(s)})
                     /\ SumOn(h, s) = h[Pick(s)] + SumOn(h, s \ {Pick(s)})
    BY <1>1, FoldFacts
  <2>2. CASE s # {}
    <3> DEFINE r == s \ {Pick(s)}
    <3>1. r \in T /\ r \in SUBSET D /\ Pick(s) \in D
      BY <1>2, <2>1, <2>2
    <3>2. SumOn(h, r) = SumOn(f, r) + SumOn(g, r) /\ h[Pick(s)] = f[Pick(s)] + g[Pick(s)]
      BY <3>1
    <3>3. SumOn(f, r) \in Nat /\ SumOn(g, r) \in Nat /\ f[Pick(s)] \in Nat /\ g[Pick(s)] \in Nat
      BY <1>0, <3>1
    <3>4. SumOn(h, s) = SumOn(f, s) + SumOn(g, s)
      <4> HIDE DEF r, T
      <4> QED
        BY <2>1, <2>2, <3>2, <3>3 DEF r
    <3> QED
      BY <3>4
  <2>3. CASE s = {}
    <3>1. SumOn(h, s) = SumOn(f, s) + SumOn(g, s)
      BY <2>1, <2>3
    <3> QED
      BY <3>1
  <2> QED
    BY <2>2, <2>3
<1>3. \A s \in SUBSET D : s \in T
  <2>1. T \in SUBSET SUBSET D
    OBVIOUS
  <2> HIDE DEF T
  <2> QED
    BY <1>2, <2>1, SetInduction
<1> QED
  BY <1>3

LEMMA SumType ==
  ASSUME NEW D, IsFiniteSet(D), NEW f \in [D -> Nat]
  PROVE  /\ SumOver(f) \in Nat
         /\ \A x \in D : f[x] <= SumOver(f)
<1>0. DOMAIN f = D /\ D \in SUBSET D
  OBVIOUS
<1>1. SumOver(f) = SumOn(f, D)
  BY <1>0, SumIsFold
<1>2. \A s \in SUBSET D : SumOn(f, s) \in Nat
  BY PartType
<1>3. ASSUME NEW x \in D PROVE f[x] <= SumOn(f, D)
  <2>1. SumOn(f, D) = f[x] + SumOn(f, D \ {x})
    BY <1>0, TakeOut
  <2>2. f[x] \in Nat /\ SumOn(f, D \ {x}) \in Nat
    BY <1>2
  <2> QED
    BY <2>1, <2>2
<1> QED
  BY <1>0, <1>1, <1>2, <1>3

LEMMA SumAtMost ==
  ASSUME NEW D, IsFiniteSet(D), NEW f \in [D -> Nat], NEW g \in [D -> Nat],
         \A x \in D : f[x] <= g[x]
  PROVE  SumOver(f) <= SumOver(g)
  BY SumIsFold, AtMostPart

LEMMA SumPlus ==
  ASSUME NEW D, IsFiniteSet(D), NEW f \in [D -> Nat], NEW g \in [D -> Nat]
  PROVE  SumOver([x \in D |-> f[x] + g[x]]) = SumOver(f) + SumOver(g)
<1> DEFINE h == [x \in D |-> f[x] + g[x]]
<1>1. h \in [D -> Nat] /\ \A x \in D : h[x] = f[x] + g[x]
  OBVIOUS
<1>2. DOMAIN f = D /\ DOMAIN g = D /\ DOMAIN h = D
  OBVIOUS
<1> HIDE DEF h
<1>3. SumOn(h, D) = SumOn(f, D) + SumOn(g, D)
  BY <1>1, AddedParts
<1>4. SumOver(h) = SumOver(f) + SumOver(g)
  BY <1>2, <1>3, SumIsFold
<1> QED
  BY <1>4 DEF h

LEMMA SumZero ==
  ASSUME NEW D, IsFiniteSet(D)
  PROVE  SumOver([x \in D |-> 0]) = 0
<1> DEFINE z == [x \in D |-> 0]
<1>1. z \in [D -> Nat] /\ DOMAIN z = D
  OBVIOUS
<1>2. SumOver([x \in D |-> z[x] + z[x]]) = SumOver(z) + SumOver(z) /\ SumOver(z) \in Nat
  <2> HIDE DEF z
  <2> QED
    BY <1>1, SumPlus, SumType
<1>3. [x \in D |-> z[x] + z[x]] = z
  OBVIOUS
<1> HIDE DEF z
<1>4. SumOver(z) = 0
  BY <1>2, <1>3
<1> QED
  BY <1>4 DEF z

\* One number changes.
LEMMA SumChanged ==
  ASSUME NEW D, IsFiniteSet(D), NEW f \in [D -> Nat], NEW a \in D, NEW v \in Nat
  PROVE  SumOver([f EXCEPT ![a] = v]) = SumOver(f) - f[a] + v
<1> DEFINE g == [f EXCEPT ![a] = v]
           r == D \ {a}
<1>1. g \in [D -> Nat] /\ g[a] = v /\ \A x \in r : g[x] = f[x]
  OBVIOUS
<1>2. DOMAIN f = D /\ DOMAIN g = D
  OBVIOUS
<1> HIDE DEF g
<1>3. SumOn(f, D) = f[a] + SumOn(f, r) /\ SumOn(g, D) = g[a] + SumOn(g, r)
  BY <1>1, TakeOut
<1>4. SumOn(f, r) \in Nat /\ SumOn(g, r) \in Nat /\ f[a] \in Nat
  BY <1>1, PartType
<1>5. r \in SUBSET (D \cap D) /\ \A x \in r : f[x] <= g[x] /\ g[x] <= f[x]
  BY <1>1
<1>6. SumOn(f, r) <= SumOn(g, r) /\ SumOn(g, r) <= SumOn(f, r)
  BY <1>1, <1>5, AtMostPart
<1>7. SumOver(f) = SumOn(f, D) /\ SumOver(g) = SumOn(g, D)
  BY <1>2, SumIsFold
<1>8. SumOver(g) = SumOver(f) - f[a] + v
  BY <1>1, <1>3, <1>4, <1>6, <1>7
<1> QED
  BY <1>8 DEF g

LEMMA LastOut ==
  ASSUME NEW w \in Nat, NEW h \in [0..w -> Nat], NEW n \in 0..w
  PROVE  SumOn(h, 0..n) = h[n] + SumOn(h, 0..(n - 1)) /\ SumOn(h, 0..n) \in Nat /\ h[n] \in Nat
<1> DEFINE D == 0..w
           s == 0..n
<1>1. s \in SUBSET D /\ n \in s /\ s \ {n} = 0..(n - 1)
  OBVIOUS
<1>2. IsFiniteSet(D)
  BY FS_Interval
<1>3. h \in [D -> Nat] /\ h[n] \in Nat
  OBVIOUS
<1> HIDE DEF D, s
<1>4. SumOn(h, s) = h[n] + SumOn(h, s \ {n})
  BY <1>1, <1>2, <1>3, TakeOut
<1>5. SumOn(h, s) \in Nat
  BY <1>1, <1>2, <1>3, PartType
<1> QED
  BY <1>1, <1>3, <1>4, <1>5 DEF s

\* All numbers move on by one place, and the last one drops out.
LEMMA SumShifted ==
  ASSUME NEW w \in Nat, NEW f \in [0..w -> Nat]
  PROVE  SumOver([a \in 0..w |-> IF a = 0 THEN 0 ELSE f[a - 1]]) = SumOver(f) - f[w]
<1> DEFINE g == [a \in 0..w |-> IF a = 0 THEN 0 ELSE f[a - 1]]
           D == 0..w
           S == {n \in Nat : n < w => SumOn(g, 0..(n + 1)) = SumOn(f, 0..n)}
<1>1. /\ g \in [D -> Nat] /\ g[0] = 0 /\ f \in [D -> Nat]
      /\ DOMAIN f = D /\ DOMAIN g = D /\ IsFiniteSet(D)
      /\ \A a \in 1..w : g[a] = f[a - 1]
  <2>1. \A a \in D : a # 0 => a - 1 \in D
    OBVIOUS
  <2>2. IsFiniteSet(D)
    BY FS_Interval
  <2>3. f \in [D -> Nat]
    OBVIOUS
  <2> QED
    BY <2>1, <2>2, <2>3
<1>2. ASSUME NEW h \in [D -> Nat], NEW n \in D
      PROVE  SumOn(h, 0..n) = h[n] + SumOn(h, 0..(n - 1)) /\ SumOn(h, 0..n) \in Nat /\ h[n] \in Nat
  BY LastOut
<1>3. SumOn(g, 0..0) = 0
  <2>1. SumOn(g, {}) = 0 /\ 0..(0 - 1) = {} /\ 0 \in D
    BY <1>1, FoldFacts
  <2> HIDE DEF g
  <2>2. SumOn(g, 0..0) = g[0] + SumOn(g, 0..(0 - 1))
    BY <1>1, <1>2, <2>1
  <2> QED
    BY <1>1, <2>1, <2>2
<1> HIDE DEF g
<1>4. 0 \in S
  <2> SUFFICES ASSUME 0 < w PROVE SumOn(g, 0..1) = SumOn(f, 0..0)
    OBVIOUS
  <2>0. 0 \in D /\ 1 \in D
    OBVIOUS
  <2>1. SumOn(g, 0..1) = g[1] + SumOn(g, 0..(1 - 1))
    BY <1>1, <1>2, <2>0
  <2>2. SumOn(f, 0..0) = f[0] + SumOn(f, 0..(0 - 1)) /\ f[0] \in Nat
    BY <1>1, <1>2, <2>0
  <2>3. SumOn(f, {}) = 0 /\ 0..(0 - 1) = {} /\ 1 - 1 = 0
    BY <1>1, FoldFacts
  <2>4. g[1] = f[0]
    BY <1>1
  <2> QED
    BY <1>3, <2>1, <2>2, <2>3, <2>4
<1>5. ASSUME NEW n \in S PROVE n + 1 \in S
  <2> SUFFICES ASSUME n + 1 < w PROVE SumOn(g, 0..(n + 2)) = SumOn(f, 0..(n + 1))
    OBVIOUS
  <2>0. n + 1 \in D /\ n + 2 \in D
    OBVIOUS
  <2>1. SumOn(g, 0..(n + 2)) = g[n + 2] + SumOn(g, 0..((n + 2) - 1))
    BY <1>1, <1>2, <2>0
  <2>2. SumOn(f, 0..(n + 1)) = f[n + 1] + SumOn(f, 0..((n + 1) - 1))
    BY <1>1, <1>2, <2>0
  <2>3. g[n + 2] = f[n + 1] /\ (n + 2) - 1 = n + 1 /\ (n + 1) - 1 = n
    BY <1>1
  <2>4. SumOn(g, 0..(n + 1)) = SumOn(f, 0..n)
    OBVIOUS
  <2> QED
    BY <2>1, <2>2, <2>3, <2>4
<1>6. \A n \in Nat : n \in S
  <2>1. S \in SUBSET Nat
    OBVIOUS
  <2> HIDE DEF S
  <2> QED
    BY <1>4, <1>5, <2>1, Induction
<1>7. SumOver(f) = SumOn(f, 0..w) /\ SumOver(g) = SumOn(g, 0..w)
  BY <1>1, SumIsFold
<1>8. SumOn(f, 0..w) = f[w] + SumOn(f, 0..(w - 1)) /\ f[w] \in Nat
  <2>1. w \in D
    OBVIOUS
  <2> QED
    BY <1>1, <1>2, <2>1
<1>9. SumOn(g, 0..w) = SumOn(f, 0..(w - 1))
  <2>1. CASE w = 0
    <3>1. SumOn(f, {}) = 0 /\ 0..(0 - 1) = {}
      BY <1>1, FoldFacts
    <3> QED
      BY <1>3, <2>1, <3>1
  <2>2. CASE w # 0
    <3>1. w - 1 \in Nat /\ w - 1 < w /\ (w - 1) + 1 = w
      BY <2>2
    <3>2. w - 1 \in S
      BY <1>6, <3>1
    <3> QED
      BY <3>1, <3>2
  <2> QED
    BY <2>1, <2>2
<1>10. SumOn(f, 0..(w - 1)) \in Nat
  <2>1. 0..(w - 1) \in SUBSET D
    OBVIOUS
  <2>2. \A s \in SUBSET D : SumOn(f, s) \in Nat
    <3> HIDE DEF D, S
    <3> QED
      BY <1>1, PartType
  <2> QED
    BY <2>1, <2>2
<1>11. SumOver(g) = SumOver(f) - f[w]
  BY <1>7, <1>8, <1>9, <1>10
<1> QED
  BY <1>11 DEF g

\* Numbers that are picked from a function, each place at most once, add up to no more.
LEMMA SumReindexed ==
  ASSUME NEW D, IsFiniteSet(D), NEW f \in [D -> Nat],
         NEW E, IsFiniteSet(E), NEW h \in [E -> D], \A x, y \in E : h[x] = h[y] => x = y
  PROVE  SumOver([e \in E |-> f[h[e]]]) <= SumOver(f)
<1> DEFINE g == [e \in E |-> f[h[e]]]
           Rest(s) == D \ {h[e] : e \in s}
           T == {s \in SUBSET E : SumOn(g, s) + SumOn(f, Rest(s)) = SumOn(f, D)}
<1>1. /\ g \in [E -> Nat] /\ DOMAIN g = E /\ DOMAIN f = D
      /\ \A e \in E : g[e] = f[h[e]]
      /\ \A s \in SUBSET E : Rest(s) \in SUBSET D
  OBVIOUS
<1> HIDE DEF g
<1>2. /\ \A s \in SUBSET E : SumOn(g, s) \in Nat
      /\ \A s \in SUBSET D : SumOn(f, s) \in Nat
  BY <1>1, PartType
<1>3. ASSUME NEW s \in SUBSET E, \A x \in s : s \ {x} \in T PROVE s \in T
  <2>1. /\ SumOn(g, {}) = 0
        /\ s # {} => Pick(s) \in s /\ SumOn(g, s) = g[Pick(s)] + SumOn(g, s \ {Pick(s)})
    BY <1>1, FoldFacts
  <2>2. CASE s # {}
    <3> DEFINE p == Pick(s)
               r == s \ {p}
    <3>1. p \in s /\ r \in T /\ r \in SUBSET E
      BY <1>3, <2>1, <2>2
    <3>2. h[p] \in Rest(r) /\ Rest(r) \in SUBSET D /\ Rest(s) \in SUBSET D
      BY <3>1
    <3>3. Rest(s) = Rest(r) \ {h[p]}
      BY <3>1
    <3>4. SumOn(g, r) + SumOn(f, Rest(r)) = SumOn(f, D)
      BY <3>1
    <3>5. SumOn(g, s) = f[h[p]] + SumOn(g, r) /\ h[p] \in D
      BY <1>1, <2>1, <3>1
    <3> HIDE DEF p, r, T, Rest
    <3>6. SumOn(f, Rest(r)) = f[h[p]] + SumOn(f, Rest(s))
      BY <3>2, <3>3, TakeOut
    <3>7. SumOn(g, r) \in Nat /\ SumOn(f, Rest(s)) \in Nat /\ f[h[p]] \in Nat
      BY <1>2, <3>1, <3>2, <3>5
    <3>8. SumOn(g, s) + SumOn(f, Rest(s)) = SumOn(f, D)
      BY <3>4, <3>5, <3>6, <3>7
    <3> QED
      BY <3>8 DEF T
  <2>3. CASE s = {}
    <3>1. Rest(s) = D /\ SumOn(f, D) \in Nat
      BY <1>2, <2>3
    <3> QED
      BY <2>1, <2>3, <3>1
  <2> QED
    BY <2>2, <2>3
<1>4. E \in T
  <2>1. T \in SUBSET SUBSET E
    OBVIOUS
  <2> HIDE DEF T
  <2>2. \A s \in SUBSET E : s \in T
    BY <1>3, <2>1, SetInduction
  <2> QED
    BY <2>2
<1>5. SumOn(g, E) + SumOn(f, Rest(E)) = SumOn(f, D)
  BY <1>4
<1>6. SumOn(g, E) \in Nat /\ SumOn(f, Rest(E)) \in Nat
  BY <1>1, <1>2
<1>7. SumOn(g, E) <= SumOn(f, D)
  <2> HIDE DEF Rest, T
  <2> QED
    BY <1>2, <1>5, <1>6
<1>8. SumOver(g) <= SumOver(f)
  BY <1>1, <1>7, SumIsFold
<1> QED
  BY <1>8 DEF g
=============================================================================
