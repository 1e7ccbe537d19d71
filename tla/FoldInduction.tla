--------------------------- MODULE FoldInduction ----------------------------
(***************************************************************************)
(* What holds of a fold over a sequence.  The loops of the models are      *)
(* folds by FoldLeft; a module that proves something about one of them     *)
(* instantiates this one with the step of the loop and its invariant.  The *)
(* first argument of both stands for what the loop has around it.          *)
(***************************************************************************)
EXTENDS Integers, Folds, WellFoundedInduction, TLAPS

CONSTANTS
  Step(_, _, _),  \* what the loop makes of a value with an element
  Good(_, _, _)   \* what is claimed of the value after so many elements

Greatest(S) == CHOOSE x \in S : \A y \in S : x >= y

\* FoldLeft, in the terms in which SequencesExt defines it.
Fold(p, base, seq) ==
  MapThenFoldSet(LAMBDA x, a : Step(p, a, x), base, LAMBDA i : seq[i],
                 LAMBDA S : Greatest(S), DOMAIN seq)

\* Induction over the numbers: no least number is outside a set of this form.
LEMMA Numbers ==
  ASSUME NEW S, 0 \in S, \A n \in Nat : n \in S => n + 1 \in S
  PROVE  \A n \in Nat : n \in S
<1> DEFINE T == Nat \ S
           R == OpToRel(<, Nat)
<1>1. SUFFICES ASSUME T # {} PROVE FALSE
  OBVIOUS
<1>2. IsWellFoundedOn(R, Nat)
  BY NatLessThanWellFounded
<1>3. T \subseteq Nat
  OBVIOUS
<1>4. \A x, y \in Nat : <<y, x>> \in R <=> y < x
  BY DEF OpToRel
<1> HIDE DEF T, R
<1>5. PICK x \in T : \A y \in T : ~ (<<y, x>> \in R)
  BY <1>1, <1>2, <1>3, WFMin
<1>6. \A y \in T : ~ (y < x)
  BY <1>3, <1>4, <1>5
<1> USE DEF T
<1>7. CASE x = 0
  BY <1>7
<1>8. CASE x # 0
  <2>1. x - 1 \in Nat /\ x - 1 < x /\ (x - 1) + 1 = x /\ x \in Nat
    BY <1>8
  <2>2. x - 1 \notin T
    BY <2>1, <1>6
  <2>3. x - 1 \in S
    BY <2>1, <2>2
  <2> QED BY <2>1, <2>3
<1> QED BY <1>7, <1>8

\* The function that FoldLeft recurs with, on the sets of the first m places.
Folds(p, base, seq, m, f) ==
  f = [s \in SUBSET (1 .. m) |->
        IF s = {} THEN base ELSE Step(p, f[s \ {Greatest(s)}], seq[Greatest(s)])]

\* The greatest place of a set is the one that is added.
LEMMA GreatestAdded ==
  ASSUME NEW m \in Nat, NEW s \in SUBSET (1 .. m + 1), m + 1 \in s
  PROVE  Greatest(s) = m + 1
<1>1. \A y \in s : m + 1 >= y
  OBVIOUS
<1>2. \A x \in s : (\A y \in s : x >= y) => x = m + 1
  OBVIOUS
<1> QED BY <1>1, <1>2, Zenon DEF Greatest

\* The greatest place of a set is in it.
LEMMA GreatestIn ==
  ASSUME NEW m \in Nat, NEW s \in SUBSET (1 .. m), s # {}
  PROVE  Greatest(s) \in s
<1> DEFINE G == {n \in Nat : \A t \in SUBSET (1 .. n) :
                  t # {} => \E x \in t : \A y \in t : x >= y}
<1>1. 0 \in G
  <2>1. \A t \in SUBSET (1 .. 0) : t = {}
    OBVIOUS
  <2> QED BY <2>1
<1>2. ASSUME NEW n \in Nat, n \in G PROVE n + 1 \in G
  <2> SUFFICES ASSUME NEW t \in SUBSET (1 .. n + 1), t # {}
               PROVE  \E x \in t : \A y \in t : x >= y
    OBVIOUS
  <2>1. CASE n + 1 \in t
    BY <2>1
  <2>2. CASE n + 1 \notin t
    <3>1. t \in SUBSET (1 .. n)
      BY <2>2
    <3> QED BY <3>1, <1>2
  <2> QED BY <2>1, <2>2
<1> HIDE DEF G
<1>3. m \in G
  BY <1>1, <1>2, Numbers
<1>4. \E x \in s : \A y \in s : x >= y
  BY <1>3 DEF G
<1> QED BY <1>4, Zenon DEF Greatest

\* FoldLeft has a function to recur with.
LEMMA FoldExists ==
  ASSUME NEW p, NEW base, NEW seq, NEW m \in Nat
  PROVE  \E f : Folds(p, base, seq, m, f)
<1> DEFINE G == {n \in Nat : \E f : Folds(p, base, seq, n, f)}
<1>1. 0 \in G
  <2> DEFINE f == [s \in SUBSET (1 .. 0) |-> base]
  <2>1. \A s \in SUBSET (1 .. 0) : s = {}
    OBVIOUS
  <2>2. Folds(p, base, seq, 0, f)
    BY <2>1, Zenon DEF Folds
  <2> QED BY <2>2
<1>2. ASSUME NEW n \in Nat, n \in G PROVE n + 1 \in G
  <2>1. PICK f : Folds(p, base, seq, n, f)
    BY <1>2
  <2> DEFINE g == [s \in SUBSET (1 .. n + 1) |->
                    IF n + 1 \in s THEN Step(p, f[s \ {n + 1}], seq[n + 1]) ELSE f[s]]
             h == [s \in SUBSET (1 .. n + 1) |->
                    IF s = {} THEN base ELSE Step(p, g[s \ {Greatest(s)}], seq[Greatest(s)])]
  <2>2. ASSUME NEW s \in SUBSET (1 .. n + 1) PROVE g[s] = h[s]
    <3>1. CASE n + 1 \in s
      <4>1. Greatest(s) = n + 1 /\ s # {}
        BY <3>1, GreatestAdded
      <4>2. s \ {n + 1} \in SUBSET (1 .. n + 1) /\ n + 1 \notin s \ {n + 1}
        OBVIOUS
      <4>3. g[s \ {n + 1}] = f[s \ {n + 1}]
        BY <4>2
      <4>4. h[s] = Step(p, g[s \ {n + 1}], seq[n + 1])
        BY <4>1
      <4>5. g[s] = Step(p, f[s \ {n + 1}], seq[n + 1])
        BY <3>1
      <4> QED BY <4>3, <4>4, <4>5
    <3>2. CASE n + 1 \notin s
      <4>1. s \in SUBSET (1 .. n)
        BY <3>2
      <4>2. g[s] = f[s]
        BY <3>2
      <4>3. CASE s = {}
        <5>1. f[s] = base
          BY <2>1, <4>1, <4>3, Zenon DEF Folds
        <5> QED BY <4>2, <4>3, <5>1
      <4>4. CASE s # {}
        <5>1. Greatest(s) \in s
          BY <4>1, <4>4, GreatestIn
        <5>2. /\ s \ {Greatest(s)} \in SUBSET (1 .. n + 1)
              /\ n + 1 \notin s \ {Greatest(s)}
          BY <3>2
        <5>3. g[s \ {Greatest(s)}] = f[s \ {Greatest(s)}]
          BY <5>2
        <5>4. f[s] = Step(p, f[s \ {Greatest(s)}], seq[Greatest(s)])
          BY <2>1, <4>1, <4>4, Zenon DEF Folds
        <5>5. h[s] = Step(p, g[s \ {Greatest(s)}], seq[Greatest(s)])
          BY <4>4
        <5> QED BY <4>2, <5>3, <5>4, <5>5
      <4> QED BY <4>3, <4>4
    <3> QED BY <3>1, <3>2
  <2>3. g = h
    <3> HIDE DEF g, h
    <3>1. g = [s \in SUBSET (1 .. n + 1) |-> g[s]] /\ h = [s \in SUBSET (1 .. n + 1) |-> h[s]]
      BY Zenon DEF g, h
    <3> QED BY <2>2, <3>1, Zenon
  <2>4. Folds(p, base, seq, n + 1, g)
    BY <2>3, Zenon DEF Folds
  <2> QED BY <2>4
<1> HIDE DEF G
<1>3. m \in G
  BY <1>1, <1>2, Numbers
<1> QED BY <1>3 DEF G

\* What every step preserves holds at the end.
THEOREM FoldKeeps ==
  ASSUME NEW p, NEW base, NEW n \in Nat, NEW seq, DOMAIN seq = 1 .. n,
         Good(p, 0, base),
         \A i \in 1 .. n : \A a : Good(p, i - 1, a) => Good(p, i, Step(p, a, seq[i]))
  PROVE  Good(p, n, Fold(p, base, seq))
<1> DEFINE c == CHOOSE f : Folds(p, base, seq, n, f)
<1>1. Folds(p, base, seq, n, c)
  BY FoldExists, Zenon
<1>2. Fold(p, base, seq) = c[1 .. n]
  BY Zenon DEF Fold, MapThenFoldSet, Folds
<1> HIDE DEF c
<1> DEFINE G == {i \in Nat : i <= n => Good(p, i, c[1 .. i])}
<1>3. 0 \in G
  <2>1. 1 .. 0 \in SUBSET (1 .. n) /\ 1 .. 0 = {}
    OBVIOUS
  <2>2. c[1 .. 0] = base
    BY <1>1, <2>1, Zenon DEF Folds
  <2> QED BY <2>2
<1>4. ASSUME NEW i \in Nat, i \in G PROVE i + 1 \in G
  <2> SUFFICES ASSUME i + 1 <= n PROVE Good(p, i + 1, c[1 .. i + 1])
    OBVIOUS
  <2>1. 1 .. i + 1 \in SUBSET (1 .. n) /\ 1 .. i + 1 # {}
    <3>1. i + 1 \in 1 .. i + 1 /\ 1 .. i + 1 \subseteq 1 .. n
      OBVIOUS
    <3> QED BY <3>1
  <2>2. Greatest(1 .. i + 1) = i + 1
    <3>1. i + 1 \in 1 .. i + 1 /\ 1 .. i + 1 \in SUBSET (1 .. i + 1)
      OBVIOUS
    <3> QED BY <3>1, GreatestAdded
  <2>3. (1 .. i + 1) \ {i + 1} = 1 .. i
    OBVIOUS
  <2>4. c[1 .. i + 1] = Step(p, c[(1 .. i + 1) \ {Greatest(1 .. i + 1)}], seq[Greatest(1 .. i + 1)])
    BY <1>1, <2>1, Zenon DEF Folds
  <2>5. c[1 .. i + 1] = Step(p, c[1 .. i], seq[i + 1])
    BY <2>2, <2>3, <2>4
  <2>6. Good(p, i, c[1 .. i]) /\ i + 1 \in 1 .. n /\ (i + 1) - 1 = i
    BY <1>4
  <2> QED BY <2>5, <2>6
<1> HIDE DEF G
<1>5. n \in G
  BY <1>3, <1>4, Numbers
<1> QED BY <1>2, <1>5 DEF G
=============================================================================
