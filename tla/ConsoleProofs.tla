--------------------------- MODULE ConsoleProofs ----------------------------
(***************************************************************************)
(* The properties of the console and of the timed read, for every length   *)
(* of the line, set of characters, number of keys, timeout and word size,  *)
(* wherever keys and ticks fall.                                           *)
(***************************************************************************)
EXTENDS InputRead, FiniteSetTheorems, SequenceTheorems, TLAPS

-----------------------------------------------------------------------------
(* The timed read.                                                         *)

\* How many ticks went by since the copy was made.
SinceCopy ==
  g_tick_count = IF lasttick + unseen < WordSize THEN lasttick + unseen
                 ELSE lasttick + unseen - WordSize

\* While the call runs, the ticks counted and one that is about to be are ticks
\* of the silence, but for one that came before the last key was taken.
SilenceCounted ==
  /\ SinceCopy
  /\ timeout \in 0 .. Timeout
  /\ pc = "copy" => unseen > 0 /\ timeout > 0
  /\ Timeout - timeout <= silence + 1
  /\ unseen > 0 => Timeout - timeout <= silence

ReadInv ==
  /\ g_tick_count \in 0 .. WordSize - 1
  /\ lasttick \in 0 .. WordSize - 1
  /\ unseen \in 0 .. WordSize - 1
  /\ silence \in 0 .. Timeout
  /\ IF Reading THEN SilenceCounted
     ELSE Len(buffer) < asked => silence >= Timeout - 1

\* A tick wraps the count exactly at the last value of the word.
LEMMA TickWraps ==
  ASSUME NEW c \in 0 .. WordSize - 1
  PROVE  (c + 1) % WordSize = IF c = WordSize - 1 THEN 0 ELSE c + 1
<1> USE ReadAssumption
<1>1. CASE c = WordSize - 1
  BY <1>1
<1>2. CASE c # WordSize - 1
  BY <1>2
<1> QED BY <1>1, <1>2

\* Every access of the call, the keys it takes and the ticks between keep count.
LEMMA ReadStep == ReadInv /\ [Next]_allVars => ReadInv'
<1> SUFFICES ASSUME ReadInv, [Next]_allVars PROVE ReadInv'
  OBVIOUS
<1> USE ReadAssumption
<1>1. CASE UNCHANGED allVars
  BY <1>1 DEF ReadInv, SilenceCounted, SinceCopy, Reading, allVars, vars, readVars, locals
<1>2. CASE Input /\ UNCHANGED readVars
  <2>1. UNCHANGED pc
    BY <1>2 DEF Input, KeyArrives, SerialArrives
  <2> QED BY <1>2, <2>1 DEF ReadInv, SilenceCounted, SinceCopy, Reading, readVars, locals
<1>3. CASE Tick
  <2>1. g_tick_count' = IF g_tick_count = WordSize - 1 THEN 0 ELSE g_tick_count + 1
    BY <1>3, TickWraps DEF Tick, ReadInv
  <2> QED BY <1>3, <2>1 DEF Tick, ReadInv, SilenceCounted, SinceCopy, Reading, vars, locals
<1>4. CASE Shell
  <2>1. ~Reading /\ ~Reading'
    BY <1>4 DEF Shell, Main, GetLine, HasKey, WaitForKey, GetKey, ToLine, Execute, Executes,
                UpdateTimers, Reading
  <2> QED BY <1>4, <2>1 DEF Shell, ReadInv, readVars, locals
<1>5. CASE RunProgram
  BY <1>5 DEF RunProgram, Executes, ReadInv, SilenceCounted, SinceCopy, Reading
<1>6. CASE Compare
  BY <1>6 DEF Compare, ReadInv, SilenceCounted, SinceCopy, Reading, readVars, locals
<1>7. CASE Copy
  BY <1>7 DEF Copy, ReadInv, SilenceCounted, SinceCopy, Reading
<1>8. CASE TestKey
  BY <1>8 DEF TestKey, ReadInv, SilenceCounted, SinceCopy, Reading, readVars, locals
<1>9. CASE TakeKey
  <2>1. \/ UNCHANGED <<taken, pc, timeout, buffer, silence>>
        \/ \E src, ch : ToProgram(src, ch)
    BY <1>9 DEF TakeKey, GetKey
  <2>2. pc = "take" /\ UNCHANGED <<g_tick_count, lasttick, asked, unseen>>
    BY <1>9 DEF TakeKey
  <2>3. CASE UNCHANGED <<taken, pc, timeout, buffer, silence>>
    BY <2>2, <2>3 DEF ReadInv, SilenceCounted, SinceCopy, Reading
  <2>4. CASE \E src, ch : ToProgram(src, ch)
    BY <2>2, <2>4 DEF ToProgram, ReadInv, SilenceCounted, SinceCopy, Reading
  <2> QED BY <2>1, <2>3, <2>4
<1> QED BY <1>1, <1>2, <1>3, <1>4, <1>5, <1>6, <1>7, <1>8, <1>9 DEF Next, Read

\* ShortOnlyAfterSilence: a program gets fewer characters than it asked for only
\* after a silence of the timeout, or of one tick less.
THEOREM ShortReadsRight == Spec => []ShortOnlyAfterSilence
<1>1. ReadInit => ReadInv
  BY ReadAssumption DEF ReadInit, Init, ReadInv, Reading
<1>2. ReadInv => ShortOnlyAfterSilence
  BY DEF ReadInv, Reading, ShortOnlyAfterSilence
<1> QED BY <1>1, <1>2, ReadStep, PTL DEF Spec

-----------------------------------------------------------------------------
(* Picking elements of a sequence.                                         *)

\* Ranks number the members of a set of places from 1 on, in order.
LEMMA RanksAre ==
  ASSUME NEW n \in Nat, NEW K \in SUBSET (1 .. n)
  PROVE  /\ IsFiniteSet(K) /\ Cardinality(K) \in Nat
         /\ \A k \in K : Rank(K, k) \in 1 .. Cardinality(K)
         /\ \A j, k \in K : Rank(K, j) = Rank(K, k) => j = k
         /\ \A i \in 1 .. Cardinality(K) : Place(K, i) \in K /\ Rank(K, Place(K, i)) = i
<1> DEFINE Below(k) == {j \in K : j <= k}
<1>0. \A k \in K : k \in Nat
  OBVIOUS
<1>1. IsFiniteSet(1 .. n)
  BY FS_Interval
<1>2. IsFiniteSet(K) /\ Cardinality(K) \in Nat
  BY <1>1, FS_Subset, FS_CardinalityType
<1>3. \A k : /\ IsFiniteSet(Below(k)) /\ Cardinality(Below(k)) \in Nat
             /\ Cardinality(Below(k)) <= Cardinality(K)
  <2> TAKE k
  <2>1. Below(k) \in SUBSET K
    OBVIOUS
  <2> HIDE DEF Below
  <2> QED BY <2>1, <1>2, FS_Subset, FS_CardinalityType
<1>4. ASSUME NEW j \in K, NEW k \in K, j < k PROVE Cardinality(Below(j)) < Cardinality(Below(k))
  <2>1. Below(j) \in SUBSET Below(k) /\ k \in Below(k) /\ k \notin Below(j)
    <3>1. j \in Nat /\ k \in Nat /\ \A i \in K : i \in Nat
      BY <1>0
    <3>2. k <= k /\ ~(k <= j) /\ \A i \in K : i <= j => i <= k
      BY <3>1, <1>4
    <3> QED BY <3>2
  <2> HIDE DEF Below
  <2>2. /\ Cardinality(Below(j)) <= Cardinality(Below(k))
        /\ Cardinality(Below(j)) = Cardinality(Below(k)) => Below(j) = Below(k)
    BY <2>1, <1>3, FS_Subset
  <2>3. Cardinality(Below(j)) # Cardinality(Below(k))
    BY <2>1, <2>2
  <2> QED BY <2>2, <2>3, <1>3
<1>5. ASSUME NEW k \in K PROVE Cardinality(Below(k)) \in 1 .. Cardinality(K)
  <2>1. Below(k) # {}
    BY <1>0
  <2> HIDE DEF Below
  <2>2. Cardinality(Below(k)) # 0
    BY <2>1, <1>3, FS_EmptySet
  <2> QED BY <2>2, <1>2, <1>3
<1>6. \A j, k \in K : Cardinality(Below(j)) = Cardinality(Below(k)) => j = k
  <2> SUFFICES ASSUME NEW j \in K, NEW k \in K, j # k
               PROVE  Cardinality(Below(j)) # Cardinality(Below(k))
    OBVIOUS
  <2>1. j < k \/ k < j
    BY <1>0
  <2> HIDE DEF Below
  <2> QED BY <2>1, <1>3, <1>4
<1>7. \A i \in 1 .. Cardinality(K) : \E k \in K : Cardinality(Below(k)) = i
  <2> DEFINE N == 1 .. Cardinality(K)
             f == [k \in K |-> Cardinality(Below(k))]
  <2>1. IsFiniteSet(N) /\ Cardinality(N) = Cardinality(K)
    BY <1>2, FS_Interval
  <2> HIDE DEF Below
  <2>2. f \in Injection(K, N)
    BY <1>5, <1>6 DEF Injection, IsInjective
  <2> HIDE DEF f
  <2>3. f \in Surjection(K, N)
    BY <2>1, <2>2, FS_Injection
  <2>4. \A i \in N : \E k \in K : f[k] = i
    BY <2>3 DEF Surjection
  <2> QED BY <2>4 DEF f
<1>8. \A i \in 1 .. Cardinality(K) : Place(K, i) \in K /\ Rank(K, Place(K, i)) = i
  BY <1>7 DEF Place, Rank
<1> QED BY <1>2, <1>5, <1>6, <1>8 DEF Rank

\* One more element, not picked.
LEMMA PickedKept ==
  ASSUME NEW S, NEW s \in Seq(S), NEW e \in S, NEW K \in SUBSET (1 .. Len(s))
  PROVE  /\ Picked(s, K) \in Seq(S)
         /\ Picked(Append(s, e), K) = Picked(s, K)
<1>1. Cardinality(K) \in Nat /\ \A i \in 1 .. Cardinality(K) : Place(K, i) \in 1 .. Len(s)
  <2>1. Len(s) \in Nat
    OBVIOUS
  <2> QED BY <2>1, RanksAre
<1>2. \A i \in 1 .. Cardinality(K) :
        s[Place(K, i)] \in S /\ Append(s, e)[Place(K, i)] = s[Place(K, i)]
  BY <1>1
<1>3. Picked(s, K) \in [1 .. Cardinality(K) -> S]
  BY <1>2 DEF Picked
<1>4. Picked(s, K) \in Seq(S)
  BY <1>1, <1>3
<1>5. Picked(Append(s, e), K) = Picked(s, K)
  BY <1>2 DEF Picked
<1> QED BY <1>4, <1>5

\* One more element, picked.
LEMMA PickedMore ==
  ASSUME NEW S, NEW s \in Seq(S), NEW e \in S, NEW K \in SUBSET (1 .. Len(s))
  PROVE  Picked(Append(s, e), K \cup {Len(s) + 1}) = Append(Picked(s, K), e)
<1> DEFINE n == Len(s) + 1
           L == K \cup {n}
           c == Cardinality(K)
<1>0. n \in Nat /\ n \in 1 .. n /\ \A k \in K : k \in 1 .. n /\ k \in Nat /\ k < n
  <2>1. Len(s) \in Nat
    OBVIOUS
  <2> QED BY <2>1
<1> HIDE DEF n
<1>1. n \in Nat /\ K \in SUBSET (1 .. n) /\ L \in SUBSET (1 .. n) /\ n \notin K
  BY <1>0
<1>2. /\ IsFiniteSet(K) /\ c \in Nat
      /\ \A k \in K : Rank(K, k) \in 1 .. c
      /\ \A i \in 1 .. c : Place(K, i) \in K /\ Rank(K, Place(K, i)) = i
  BY <1>1, RanksAre
<1>3. Cardinality(L) = c + 1
  BY <1>1, <1>2, FS_AddElement
<1>4. /\ \A j, k \in L : Rank(L, j) = Rank(L, k) => j = k
      /\ \A i \in 1 .. c + 1 : Place(L, i) \in L /\ Rank(L, Place(L, i)) = i
  BY <1>1, <1>3, RanksAre
<1>5. \A k \in K : Rank(L, k) = Rank(K, k)
  <2> TAKE k \in K
  <2>1. {j \in L : j <= k} = {j \in K : j <= k}
    BY <1>0
  <2> QED BY <2>1 DEF Rank
<1>6. Rank(L, n) = c + 1
  <2>1. \A j \in L : j <= n
    BY <1>0
  <2>2. {j \in L : j <= n} = L
    BY <2>1
  <2> QED BY <2>2, <1>3 DEF Rank
<1>7. \A i \in 1 .. c : Place(L, i) = Place(K, i)
  <2> TAKE i \in 1 .. c
  <2>1. Place(K, i) \in K /\ Rank(K, Place(K, i)) = i /\ i \in 1 .. c + 1
    BY <1>2
  <2>2. Place(K, i) \in L /\ Rank(L, Place(K, i)) = i
    BY <2>1, <1>5
  <2> QED BY <2>1, <2>2, <1>4
<1>8. Place(L, c + 1) = n
  <2>1. c + 1 \in 1 .. c + 1 /\ n \in L
    BY <1>2
  <2> QED BY <2>1, <1>4, <1>6
<1>9. Picked(s, K) \in Seq(S) /\ Len(Picked(s, K)) = c
  BY <1>2, PickedKept DEF Picked
<1> DEFINE t == Append(s, e)
<1>10. t \in Seq(S) /\ t[n] = e /\ \A k \in K : t[k] = s[k]
  BY AppendProperties DEF n
<1>11. Picked(t, L) = [i \in 1 .. c + 1 |-> t[Place(L, i)]]
  BY <1>3 DEF Picked
<1>12. Picked(s, K) = [i \in 1 .. c |-> s[Place(K, i)]]
  BY DEF Picked
<1> HIDE DEF n, L, c, t
<1>13. \A i \in 1 .. c + 1 : t[Place(L, i)] = IF i = c + 1 THEN e ELSE s[Place(K, i)]
  <2> TAKE i \in 1 .. c + 1
  <2>1. CASE i = c + 1
    BY <2>1, <1>8, <1>10
  <2>2. CASE i # c + 1
    <3>1. i \in 1 .. c
      BY <2>2, <1>2
    <3>2. Place(K, i) \in K /\ Place(L, i) = Place(K, i)
      BY <3>1, <1>2, <1>7
    <3> QED BY <2>2, <3>2, <1>10
  <2> QED BY <2>1, <2>2
<1>14. Append(Picked(s, K), e) = [i \in 1 .. c + 1 |-> IF i = c + 1 THEN e ELSE s[Place(K, i)]]
  BY <1>2, <1>9, <1>12
<1> QED BY <1>11, <1>13, <1>14 DEF t, L, n

\* The characters of a sequence of codes, and of one code more.
LEMMA CharactersAre ==
  ASSUME NEW S, NEW s \in Seq(S), NEW e \in S
  PROVE  /\ Characters(s) \in Seq(S)
         /\ Characters(Append(s, e)) =
              IF e = NOTHING THEN Characters(s) ELSE Append(Characters(s), e)
<1> DEFINE K(t) == {k \in DOMAIN t : t[k] # NOTHING}
<1>1. K(s) \in SUBSET (1 .. Len(s))
  OBVIOUS
<1>2. DOMAIN Append(s, e) = 1 .. Len(s) + 1
  OBVIOUS
<1>3. \A k \in 1 .. Len(s) + 1 : Append(s, e)[k] = IF k = Len(s) + 1 THEN e ELSE s[k]
  OBVIOUS
<1>4. K(Append(s, e)) = IF e = NOTHING THEN K(s) ELSE K(s) \cup {Len(s) + 1}
  BY <1>2, <1>3
<1>5. Characters(s) = Picked(s, K(s)) /\ Characters(Append(s, e)) = Picked(Append(s, e), K(Append(s, e)))
  BY DEF Characters
<1> HIDE DEF K
<1>6. Characters(s) \in Seq(S) /\ Picked(Append(s, e), K(s)) = Characters(s)
  BY <1>1, <1>5, PickedKept
<1>7. Picked(Append(s, e), K(s) \cup {Len(s) + 1}) = Append(Characters(s), e)
  BY <1>1, <1>5, PickedMore
<1> QED BY <1>4, <1>5, <1>6, <1>7

\* No codes stand for no characters.
LEMMA CharactersNone == Characters(<<>>) = <<>>
<1>1. {k \in DOMAIN <<>> : <<>>[k] # NOTHING} = {}
  OBVIOUS
<1> QED BY <1>1, FS_EmptySet DEF Characters, Picked

-----------------------------------------------------------------------------
(* The keys.                                                               *)

Code == Keys \cup {NOTHING, ERASED}

\* Of the codes t received, those in c wait to be decoded, and tk and then p
\* are the characters of the others.
Follows(t, tk, c, p) ==
  /\ Len(c) <= Len(t)
  /\ c = SubSeq(t, Len(t) - Len(c) + 1, Len(t))
  /\ tk \o p = Characters(SubSeq(t, 1, Len(t) - Len(c)))

KeyInv ==
  /\ codes \in Seq(Code) /\ presses \in Seq(Code) /\ serial \in Seq(Code)
  /\ typed \in [keyboard : Seq(Code), serial : Seq(Code)]
  /\ taken \in [keyboard : Seq(Code), serial : Seq(Code)]
  /\ Follows(typed.keyboard, taken.keyboard, codes, presses)
  /\ taken.serial \o serial = typed.serial

\* Appending to the second of two sequences appends to both.
LEMMA AppendLast ==
  ASSUME NEW S, NEW s \in Seq(S), NEW t \in Seq(S), NEW e \in S
  PROVE  s \o Append(t, e) = Append(s \o t, e)
OBVIOUS

\* The first of the second sequence may as well be the last of the first.
LEMMA MoveHead ==
  ASSUME NEW S, NEW s \in Seq(S), NEW t \in Seq(S), t # <<>>
  PROVE  /\ Append(s, Head(t)) \in Seq(S) /\ Tail(t) \in Seq(S) /\ Head(t) \in S
         /\ Append(s, Head(t)) \o Tail(t) = s \o t
OBVIOUS

\* The same, with n codes decoded.
FollowsFrom(n, t, tk, c, p) ==
  /\ Len(t) = n + Len(c)
  /\ \A i \in 1 .. Len(c) : c[i] = t[n + i]
  /\ tk \o p = Characters(SubSeq(t, 1, n))

LEMMA FollowsAt ==
  ASSUME NEW t \in Seq(Code), NEW tk, NEW c \in Seq(Code), NEW p
  PROVE  Follows(t, tk, c, p) <=> \E n \in Nat : FollowsFrom(n, t, tk, c, p)
<1>1. ASSUME NEW n \in Nat, Len(t) = n + Len(c)
      PROVE  Follows(t, tk, c, p) <=> FollowsFrom(n, t, tk, c, p)
  <2> DEFINE s == SubSeq(t, n + 1, Len(t))
  <2>1. /\ Len(t) \in Nat /\ Len(c) \in Nat /\ Len(t) - Len(c) = n
        /\ Len(t) - Len(c) + 1 = n + 1 /\ Len(c) <= Len(t)
    BY <1>1
  <2>2. n + 1 \in Int /\ Len(t) \in Int /\ \A i \in n + 1 .. Len(t) : t[i] \in Code
    BY <2>1
  <2>3. s \in Seq(Code) /\ Len(s) = Len(c) /\ \A i \in 1 .. Len(c) : s[i] = t[n + i]
    <3>1. /\ s \in Seq(Code)
          /\ Len(s) = IF n + 1 <= Len(t) THEN Len(t) - (n + 1) + 1 ELSE 0
          /\ \A i \in 1 .. Len(t) - (n + 1) + 1 : s[i] = t[(n + 1) + i - 1]
      BY <2>2, SubSeqProperties
    <3> HIDE DEF s
    <3>2. Len(t) - (n + 1) + 1 = Len(c) /\ (n + 1 <= Len(t) <=> Len(c) # 0)
      BY <2>1
    <3>3. Len(s) = Len(c)
      BY <3>1, <3>2
    <3>4. ASSUME NEW i \in 1 .. Len(c) PROVE s[i] = t[n + i]
      <4>1. s[i] = t[(n + 1) + i - 1] /\ (n + 1) + i - 1 = n + i
        BY <3>1, <3>2, <2>1
      <4> QED BY <4>1
    <3> QED BY <3>1, <3>3, <3>4
  <2>4. Follows(t, tk, c, p) <=> c = s /\ tk \o p = Characters(SubSeq(t, 1, n))
    BY <2>1 DEF Follows
  <2> HIDE DEF s
  <2>5. c = s <=> \A i \in 1 .. Len(c) : c[i] = s[i]
    BY <2>3, SeqEqual
  <2> QED BY <1>1, <2>3, <2>4, <2>5 DEF FollowsFrom
<1>2. ASSUME Follows(t, tk, c, p) PROVE \E n \in Nat : Len(t) = n + Len(c)
  <2>1. Len(t) \in Nat /\ Len(c) \in Nat /\ Len(c) <= Len(t)
    BY <1>2 DEF Follows
  <2>2. Len(t) - Len(c) \in Nat /\ Len(t) = (Len(t) - Len(c)) + Len(c)
    BY <2>1
  <2> QED BY <2>2
<1> QED BY <1>1, <1>2 DEF FollowsFrom

\* A code that arrives is the last of those that wait.
LEMMA ArrivalFollows ==
  ASSUME NEW t \in Seq(Code), NEW tk \in Seq(Code), NEW c \in Seq(Code), NEW p \in Seq(Code),
         NEW k \in Code, Follows(t, tk, c, p)
  PROVE  Follows(Append(t, k), tk, Append(c, k), p)
<1>0. PICK n \in Nat : FollowsFrom(n, t, tk, c, p)
  BY FollowsAt
<1>1. Len(t) = n + Len(c)
  BY <1>0 DEF FollowsFrom
<1> DEFINE u == Append(t, k)
           d == Append(c, k)
<1>2. /\ u \in Seq(Code) /\ Len(u) = Len(t) + 1
      /\ \A i \in 1 .. Len(t) : u[i] = t[i]
      /\ u[Len(t) + 1] = k
  OBVIOUS
<1>3. /\ d \in Seq(Code) /\ Len(d) = Len(c) + 1
      /\ \A i \in 1 .. Len(c) : d[i] = c[i]
      /\ d[Len(c) + 1] = k
  OBVIOUS
<1>4. /\ \A i \in 1 .. Len(c) : c[i] = t[n + i]
      /\ tk \o p = Characters(SubSeq(t, 1, n))
  BY <1>0 DEF FollowsFrom
<1>5. Len(t) \in Nat /\ Len(c) \in Nat /\ Len(u) = n + Len(d)
  BY <1>1, <1>2, <1>3
<1>6. SubSeq(u, 1, n) = SubSeq(t, 1, n)
  BY <1>1, <1>2, <1>5
<1> HIDE DEF u, d
<1>7. \A i \in 1 .. Len(d) : d[i] = u[n + i]
  <2> TAKE i \in 1 .. Len(d)
  <2>1. CASE i = Len(d)
    BY <2>1, <1>1, <1>2, <1>3, <1>5
  <2>2. CASE i # Len(d)
    <3>1. i \in 1 .. Len(c) /\ n + i \in 1 .. Len(t)
      BY <2>2, <1>1, <1>3, <1>5
    <3> QED BY <3>1, <1>2, <1>3, <1>4
  <2> QED BY <2>1, <2>2
<1>8. Follows(u, tk, d, p)
  <2>1. FollowsFrom(n, u, tk, d, p)
    BY <1>4, <1>5, <1>6, <1>7 DEF FollowsFrom
  <2> QED BY <2>1, <1>2, <1>3, FollowsAt
<1> QED BY <1>8 DEF u, d

\* A poll decodes the first code that waits.
LEMMA DecodeFollows ==
  ASSUME NEW t \in Seq(Code), NEW tk \in Seq(Code), NEW c \in Seq(Code), NEW p \in Seq(Code),
         c # <<>>, Follows(t, tk, c, p)
  PROVE  Follows(t, tk, Tail(c), IF Head(c) = NOTHING THEN p ELSE Append(p, Head(c)))
<1>0. PICK n \in Nat : FollowsFrom(n, t, tk, c, p)
  BY FollowsAt
<1>1. Len(t) = n + Len(c)
  BY <1>0 DEF FollowsFrom
<1> DEFINE d == SubSeq(t, 1, n)
           e == Head(c)
           r == Tail(c)
<1>2. /\ r \in Seq(Code) /\ Len(r) = Len(c) - 1 /\ Len(c) \in Nat \ {0}
      /\ \A i \in 1 .. Len(r) : r[i] = c[i + 1]
  OBVIOUS
<1>3. /\ \A i \in 1 .. Len(c) : c[i] = t[n + i]
      /\ tk \o p = Characters(d)
  BY <1>0 DEF FollowsFrom
<1>4. e = t[n + 1] /\ e \in Code
  BY <1>2, <1>3
<1>5. d \in Seq(Code) /\ SubSeq(t, 1, n + 1) = Append(d, e)
  <2>1. Len(t) \in Nat /\ n + 1 \in 1 .. Len(t) /\ (n + 1) - 1 = n /\ 1 \in 1 .. Len(t)
    BY <1>1, <1>2
  <2>2. d \in Seq(Code)
    BY <2>1
  <2>3. SubSeq(t, 1, n + 1) = d \o <<t[n + 1]>>
    BY <2>1, SubSeqRecursiveSecond
  <2> HIDE DEF d, e
  <2> QED BY <1>4, <2>2, <2>3, AppendIsConcat
<1> DEFINE q == IF e = NOTHING THEN p ELSE Append(p, e)
<1>6. tk \o Append(p, e) = Append(tk \o p, e)
  BY <1>4, AppendLast
<1> HIDE DEF d, e, r
<1>7. Characters(Append(d, e)) = IF e = NOTHING THEN Characters(d) ELSE Append(Characters(d), e)
  <2>1. e \in Code /\ d \in Seq(Code)
    BY <1>4, <1>5
  <2> QED BY ONLY <2>1, CharactersAre
<1>8. tk \o q = Characters(SubSeq(t, 1, n + 1))
  <2>1. tk \o p = Characters(d)
    BY <1>3
  <2>2. CASE e = NOTHING
    BY <2>1, <2>2, <1>5, <1>7
  <2>3. CASE e # NOTHING
    BY <2>1, <2>3, <1>5, <1>6, <1>7
  <2> QED BY <2>2, <2>3
<1>9. \A i \in 1 .. Len(r) : r[i] = t[(n + 1) + i]
  <2> TAKE i \in 1 .. Len(r)
  <2>1. i + 1 \in 1 .. Len(c) /\ n + (i + 1) = (n + 1) + i
    BY <1>1, <1>2
  <2> QED BY <2>1, <1>2, <1>3
<1>10. n + 1 \in Nat /\ Len(t) = (n + 1) + Len(r)
  BY <1>1, <1>2
<1> HIDE DEF q
<1>11. Follows(t, tk, r, q)
  <2>1. FollowsFrom(n + 1, t, tk, r, q)
    BY <1>8, <1>9, <1>10 DEF FollowsFrom
  <2> QED BY <2>1, <1>2, <1>10, FollowsAt
<1> QED BY <1>11 DEF r, q, e

\* A poll, whatever waits.
PollsTo(q, t, tk) ==
  \E c, p \in Seq(Code) : Polled(q) = [codes |-> c, presses |-> p] /\ Follows(t, tk, c, p)

LEMMA PollFollows ==
  ASSUME NEW t \in Seq(Code), NEW tk \in Seq(Code), NEW c \in Seq(Code), NEW p \in Seq(Code),
         Follows(t, tk, c, p)
  PROVE  PollsTo([codes |-> c, presses |-> p], t, tk)
<1>1. CASE c = <<>>
  BY <1>1 DEF Polled, PollsTo
<1>2. CASE c # <<>>
  <2> DEFINE p1 == IF Head(c) = NOTHING THEN p ELSE Append(p, Head(c))
  <2>1. Tail(c) \in Seq(Code) /\ Head(c) \in Code /\ p1 \in Seq(Code)
    BY <1>2
  <2>2. Polled([codes |-> c, presses |-> p]) = [codes |-> Tail(c), presses |-> p1]
    BY <1>2 DEF Polled
  <2>3. Follows(t, tk, Tail(c), p1)
    BY <1>2, DecodeFollows
  <2> QED BY <2>1, <2>2, <2>3 DEF PollsTo
<1> QED BY <1>1, <1>2

\* A key that is taken is the first of those that wait.
LEMMA TakeFollows ==
  ASSUME NEW t \in Seq(Code), NEW tk \in Seq(Code), NEW c \in Seq(Code), NEW p \in Seq(Code),
         p # <<>>, Follows(t, tk, c, p)
  PROVE  Follows(t, Append(tk, Head(p)), c, Tail(p))
<1>1. Append(tk, Head(p)) \o Tail(p) = tk \o p
  BY MoveHead
<1> QED BY <1>1 DEF Follows

\* What a call of get_key does to the queues and to what was taken.
GotKey ==
  LET q == Polled(Queues)
      r == Polled(q)
  IN  /\ UNCHANGED typed
      /\ \/ /\ q.presses # <<>> /\ UNCHANGED serial
            /\ Becomes([r EXCEPT !.presses = Tail(@)])
            /\ taken' = [taken EXCEPT !["keyboard"] = Append(@, Head(r.presses))]
         \/ /\ Becomes(q) /\ serial # <<>> /\ serial' = Tail(serial)
            /\ taken' = [taken EXCEPT !["serial"] = Append(@, Head(serial))]
         \/ Becomes(q) /\ UNCHANGED <<serial, taken>>

\* The shell and the program take keys in the same way.
LEMMA BothGetKeys == WaitForKey \/ TakeKey => GotKey
<1>1. WaitForKey => GotKey
  BY DEF WaitForKey, GotKey, GetKey, ToLine
<1>2. TakeKey => GotKey
  BY DEF TakeKey, GotKey, GetKey, ToProgram
<1> QED BY <1>1, <1>2

\* Two polls in a row, and a key that waits after the first one still does after
\* the second.
PollsTwice(q, t, tk) ==
  \E c1, p1, c2, p2 \in Seq(Code) :
    /\ Polled(q) = [codes |-> c1, presses |-> p1] /\ Follows(t, tk, c1, p1)
    /\ Polled(Polled(q)) = [codes |-> c2, presses |-> p2] /\ Follows(t, tk, c2, p2)
    /\ p1 # <<>> => p2 # <<>>

LEMMA PollsFollow ==
  ASSUME NEW t \in Seq(Code), NEW tk \in Seq(Code), NEW c \in Seq(Code), NEW p \in Seq(Code),
         Follows(t, tk, c, p)
  PROVE  PollsTwice([codes |-> c, presses |-> p], t, tk)
<1> DEFINE q == [codes |-> c, presses |-> p]
<1>1. PollsTo(q, t, tk)
  BY PollFollows
<1> HIDE DEF q
<1>2. PICK c1, p1 \in Seq(Code) : Polled(q) = [codes |-> c1, presses |-> p1] /\ Follows(t, tk, c1, p1)
  BY <1>1 DEF PollsTo
<1>3. PollsTo([codes |-> c1, presses |-> p1], t, tk)
  <2>1. Follows(t, tk, c1, p1)
    BY <1>2
  <2> QED BY <2>1, PollFollows
<1>4. PICK c2, p2 \in Seq(Code) :
        /\ Polled([codes |-> c1, presses |-> p1]) = [codes |-> c2, presses |-> p2]
        /\ Follows(t, tk, c2, p2)
  BY <1>3 DEF PollsTo
<1>5. p1 # <<>> => p2 # <<>>
  <2>1. p2 = p1 \/ \E e \in Code : p2 = Append(p1, e)
    BY <1>4 DEF Polled
  <2> QED BY <2>1
<1>6. PollsTwice(q, t, tk)
  BY <1>2, <1>4, <1>5 DEF PollsTwice
<1> QED BY <1>6 DEF q

\* A key that get_key takes is taken from the front of its queue.
LEMMA GotKeyStep == KeyInv /\ GotKey => KeyInv'
<1> SUFFICES ASSUME KeyInv, GotKey PROVE KeyInv'
  OBVIOUS
<1> DEFINE t == typed.keyboard
           k == taken.keyboard
           q == Polled(Queues)
           r == Polled(q)
<1>1. PICK c1, p1, c2, p2 \in Seq(Code) :
        /\ q = [codes |-> c1, presses |-> p1] /\ Follows(t, k, c1, p1)
        /\ r = [codes |-> c2, presses |-> p2] /\ Follows(t, k, c2, p2)
        /\ p1 # <<>> => p2 # <<>>
  <2>1. /\ t \in Seq(Code) /\ k \in Seq(Code) /\ codes \in Seq(Code) /\ presses \in Seq(Code)
        /\ Follows(t, k, codes, presses)
    BY DEF KeyInv
  <2> HIDE DEF t, k
  <2>2. PollsTwice(Queues, t, k)
    BY <2>1, PollsFollow DEF Queues
  <2> QED BY <2>2 DEF PollsTwice
<1>2. t \in Seq(Code) /\ k \in Seq(Code) /\ taken.serial \in Seq(Code) /\ serial \in Seq(Code)
  BY DEF KeyInv
<1>3. UNCHANGED typed
  BY DEF GotKey
<1>4. CASE /\ q.presses # <<>> /\ UNCHANGED serial
           /\ Becomes([r EXCEPT !.presses = Tail(@)])
           /\ taken' = [taken EXCEPT !["keyboard"] = Append(@, Head(r.presses))]
  <2>1. p2 # <<>> /\ r.presses = p2 /\ codes' = c2 /\ presses' = Tail(p2)
    BY <1>1, <1>4 DEF Becomes
  <2>2. Head(p2) \in Code /\ Tail(p2) \in Seq(Code) /\ Append(k, Head(p2)) \in Seq(Code)
    BY <2>1, <1>2, MoveHead
  <2>3. Follows(t, Append(k, Head(p2)), c2, Tail(p2))
    BY <2>1, <1>1, <1>2, TakeFollows
  <2>4. /\ taken' \in [keyboard : Seq(Code), serial : Seq(Code)]
        /\ taken.serial' = taken.serial /\ taken.keyboard' = Append(k, Head(p2))
    BY <1>4, <2>1, <2>2 DEF KeyInv
  <2> QED BY <1>3, <1>4, <2>1, <2>2, <2>3, <2>4 DEF KeyInv
<1>5. CASE /\ Becomes(q) /\ serial # <<>> /\ serial' = Tail(serial)
           /\ taken' = [taken EXCEPT !["serial"] = Append(@, Head(serial))]
  <2>1. codes' = c1 /\ presses' = p1
    BY <1>1, <1>5 DEF Becomes
  <2>2. /\ Append(taken.serial, Head(serial)) \in Seq(Code) /\ Tail(serial) \in Seq(Code)
        /\ Append(taken.serial, Head(serial)) \o Tail(serial) = taken.serial \o serial
    BY <1>2, <1>5, MoveHead
  <2>3. /\ taken' \in [keyboard : Seq(Code), serial : Seq(Code)]
        /\ taken.serial' = Append(taken.serial, Head(serial)) /\ taken.keyboard' = k
    BY <1>5, <2>2 DEF KeyInv
  <2> QED BY <1>1, <1>3, <1>5, <2>1, <2>2, <2>3 DEF KeyInv
<1>6. CASE Becomes(q) /\ UNCHANGED <<serial, taken>>
  <2>1. codes' = c1 /\ presses' = p1
    BY <1>1, <1>6 DEF Becomes
  <2> QED BY <1>1, <1>3, <1>6, <2>1 DEF KeyInv
<1> QED BY <1>4, <1>5, <1>6 DEF GotKey

\* Every step keeps every key.
LEMMA KeyStep == KeyInv /\ [Next]_allVars => KeyInv'
<1> SUFFICES ASSUME KeyInv, [Next]_allVars PROVE KeyInv'
  OBVIOUS
<1> DEFINE Same == UNCHANGED <<codes, presses, serial, typed, taken>>
           Polls == /\ UNCHANGED <<serial, typed, taken>>
                    /\ Becomes(Queues) \/ Becomes(Polled(Queues))
<1>1. CASE Same
  BY <1>1 DEF KeyInv
<1>2. CASE Polls
  <2>1. PICK c1, p1 \in Seq(Code) :
          codes' = c1 /\ presses' = p1 /\ Follows(typed.keyboard, taken.keyboard, c1, p1)
    <3>1. CASE Becomes(Queues)
      BY <3>1 DEF Becomes, Queues, KeyInv
    <3>2. CASE Becomes(Polled(Queues))
      <4>1. typed.keyboard \in Seq(Code) /\ taken.keyboard \in Seq(Code)
        BY DEF KeyInv
      <4>2. PICK c1, p1 \in Seq(Code) :
              /\ Polled(Queues) = [codes |-> c1, presses |-> p1]
              /\ Follows(typed.keyboard, taken.keyboard, c1, p1)
        <5>1. PollsTo([codes |-> codes, presses |-> presses], typed.keyboard, taken.keyboard)
          BY <4>1, PollFollows DEF KeyInv
        <5>2. PollsTo(Queues, typed.keyboard, taken.keyboard)
          BY <5>1 DEF Queues
        <5> QED BY <5>2 DEF PollsTo
      <4> QED BY <3>2, <4>2 DEF Becomes
    <3> QED BY <1>2, <3>1, <3>2
  <2> QED BY <1>2, <2>1 DEF KeyInv
<1>3. CASE Input
  <2>1. ASSUME NEW k \in Keys \cup {NOTHING}, KeyArrives(k) PROVE KeyInv'
    <3>1. k \in Code /\ typed.keyboard \in Seq(Code) /\ taken.keyboard \in Seq(Code)
      BY DEF Code, KeyInv
    <3>2. Follows(Append(typed.keyboard, k), taken.keyboard, Append(codes, k), presses)
      BY <3>1, ArrivalFollows DEF KeyInv
    <3>3. Append(typed.keyboard, k) \in Seq(Code) /\ Append(codes, k) \in Seq(Code)
      BY <3>1 DEF KeyInv
    <3>4. /\ typed' \in [keyboard : Seq(Code), serial : Seq(Code)]
          /\ typed.serial' = typed.serial /\ typed.keyboard' = Append(typed.keyboard, k)
      BY <2>1, <3>3 DEF KeyArrives, KeyInv
    <3> QED BY <2>1, <3>2, <3>3, <3>4 DEF KeyArrives, KeyInv
  <2>2. ASSUME NEW b \in Keys \cup {ERASED}, SerialArrives(b) PROVE KeyInv'
    <3>1. b \in Code /\ typed.serial \in Seq(Code) /\ taken.serial \in Seq(Code)
      BY DEF Code, KeyInv
    <3>2. /\ Append(typed.serial, b) \in Seq(Code) /\ Append(serial, b) \in Seq(Code)
          /\ taken.serial \o Append(serial, b) = Append(typed.serial, b)
      <4>1. serial \in Seq(Code) /\ taken.serial \o serial = typed.serial
        BY DEF KeyInv
      <4>2. taken.serial \o Append(serial, b) = Append(taken.serial \o serial, b)
        <5> DEFINE g == taken.serial
        <5>1. g \in Seq(Code) /\ serial \in Seq(Code) /\ b \in Code
          BY <3>1, <4>1
        <5> HIDE DEF g
        <5>2. g \o Append(serial, b) = Append(g \o serial, b)
          BY <5>1, AppendLast
        <5> QED BY <5>2 DEF g
      <4> QED BY <3>1, <4>1, <4>2
    <3>3. /\ typed' \in [keyboard : Seq(Code), serial : Seq(Code)]
          /\ typed.serial' = Append(typed.serial, b) /\ typed.keyboard' = typed.keyboard
      BY <2>2, <3>2 DEF SerialArrives, KeyInv
    <3> QED BY <2>2, <3>2, <3>3 DEF SerialArrives, KeyInv
  <2> QED BY <1>3, <2>1, <2>2 DEF Input
<1>4. CASE Tick \/ RunProgram \/ Compare \/ Copy \/ UNCHANGED allVars
  <2>1. Same
    BY <1>4 DEF Tick, RunProgram, Executes, Compare, Copy, allVars, vars, history
  <2> QED BY <1>1, <2>1
<1>5. CASE TestKey
  <2>1. Polls
    BY <1>5 DEF TestKey, history
  <2> QED BY <1>2, <2>1
<1>6. CASE Shell
  <2>1. GetLine => Polls
    BY DEF GetLine, HasKey, history
  <2>2. Execute \/ UpdateTimers => Same
    BY DEF Execute, Executes, UpdateTimers, history
  <2> QED BY <1>1, <1>2, <1>6, <2>1, <2>2, BothGetKeys, GotKeyStep DEF Shell, Main
<1>7. CASE TakeKey
  BY <1>7, BothGetKeys, GotKeyStep
<1> QED BY <1>3, <1>4, <1>5, <1>6, <1>7 DEF Next, Read

\* NoKeyLost: every key of either source is taken once and in order, by the shell
\* or a program, for any number of keys wherever they come.
THEOREM KeysKept == Spec => []NoKeyLost
<1>1. ReadInit => KeyInv
  <2> SUFFICES ASSUME ReadInit PROVE KeyInv
    OBVIOUS
  <2>1. /\ codes = <<>> /\ presses = <<>> /\ serial = <<>>
        /\ typed = [keyboard |-> <<>>, serial |-> <<>>]
        /\ taken = [keyboard |-> <<>>, serial |-> <<>>]
    BY DEF ReadInit, Init
  <2>2. <<>> \in Seq(Code) /\ Len(<<>>) = 0 /\ <<>> \o <<>> = <<>>
    OBVIOUS
  <2>3. FollowsFrom(0, <<>>, <<>>, <<>>, <<>>)
    <3>1. SubSeq(<<>>, 1, 0) = <<>>
      BY SubSeqEmpty
    <3>2. Len(<<>>) = 0 + Len(<<>>) /\ \A i \in 1 .. Len(<<>>) : <<>>[i] = <<>>[0 + i]
      BY <2>2
    <3>3. <<>> \o <<>> = Characters(SubSeq(<<>>, 1, 0))
      BY <2>2, <3>1, CharactersNone
    <3> QED BY <3>2, <3>3 DEF FollowsFrom
  <2>4. Follows(<<>>, <<>>, <<>>, <<>>)
    BY <2>2, <2>3, FollowsAt
  <2> QED BY <2>1, <2>2, <2>4 DEF KeyInv
<1>2. KeyInv => NoKeyLost
  BY DEF KeyInv, Follows, NoKeyLost
<1> QED BY <1>1, <1>2, KeyStep, PTL DEF Spec

-----------------------------------------------------------------------------
(* The lines.                                                              *)

\* Between two commands: the keys taken stand for the lines executed and the one
\* being typed, or for lines of which the last was executed because it was full.
Agrees ==
  \/ lines = Append(executed, line)
  \/ /\ line = <<>> /\ executed = lines
     /\ executed # <<>> /\ Len(Last(executed)) = LineLen - 1

LineInv ==
  /\ line \in Seq(Printable) /\ Len(line) <= LineLen - 1
  /\ executed \in Seq(Seq(Printable)) /\ lines \in Seq(Seq(Printable))
  /\ pc # "run" => Agrees
  /\ pc = "get" => Len(line) < LineLen - 1
  /\ pc = "run" => \/ lines = Append(Append(executed, line), <<>>)
                   \/ lines = Append(executed, line) /\ Len(line) = LineLen - 1

\* What is in front of the element appended last.
LEMMA FrontLast ==
  ASSUME NEW S, NEW s \in Seq(S), NEW e \in S
  PROVE  /\ Append(s, e) \in Seq(S) /\ Append(s, e) # <<>>
         /\ Last(Append(s, e)) = e
         /\ Front(Append(s, e)) = s
<1> DEFINE t == Append(s, e)
<1>1. t \in Seq(S) /\ t # <<>> /\ Len(t) = Len(s) + 1 /\ Len(s) \in Nat /\ t[Len(s) + 1] = e
  OBVIOUS
<1>2. SubSeq(t, 1, Len(s)) = s
  OBVIOUS
<1>3. Len(t) - 1 = Len(s)
  BY <1>1
<1> HIDE DEF t
<1>4. Last(t) = e /\ Front(t) = s
  BY <1>1, <1>2, <1>3 DEF Last, Front
<1> QED BY <1>1, <1>4 DEF t

\* getline keeps its characters and adds one at most.
LEMMA EditedIs ==
  ASSUME LineInv, NEW ch
  PROVE  /\ Edited(ch) \in Seq(Printable) /\ Len(Edited(ch)) <= Len(line) + 1
         /\ ch \in {ENTER, ERASED} => Edited(ch) = line
<1>1. line \in Seq(Printable) /\ Len(line) \in Nat
  BY DEF LineInv
<1>2. ch \in {ENTER, ERASED} => ch \notin Printable /\ ch # DELETE
  BY LineAssumption DEF ENTER, ERASED, DELETE
<1>3. CASE ch \in Printable
  <2>0. ch # DELETE
    BY <1>3, LineAssumption
  <2>1. Edited(ch) = Append(line, ch)
    BY <1>3, <2>0 DEF Edited
  <2>2. Append(line, ch) \in Seq(Printable) /\ Len(Append(line, ch)) <= Len(line) + 1
    BY <1>1, <1>3
  <2> QED BY <1>2, <1>3, <2>1, <2>2
<1>4. CASE ch \notin Printable /\ ch = DELETE /\ line # <<>>
  <2>1. Front(line) \in Seq(Printable) /\ Len(Front(line)) <= Len(line) + 1
    BY <1>1, <1>4 DEF Front
  <2> QED BY <1>2, <1>4, <2>1 DEF Edited
<1>5. CASE ch \notin Printable /\ ~(ch = DELETE /\ line # <<>>)
  BY <1>1, <1>2, <1>5 DEF Edited
<1> QED BY <1>3, <1>4, <1>5

\* The reference makes of a key what getline does.
LEMMA AddKeyIs ==
  ASSUME LineInv, Agrees, Len(line) < LineLen - 1, NEW ch
  PROVE  AddKey(ch) = IF ch = ERASED THEN lines
                      ELSE IF ch = ENTER THEN Append(Append(executed, line), <<>>)
                      ELSE Append(executed, Edited(ch))
<1> DEFINE start == IF Len(Last(lines)) = LineLen - 1 THEN Append(lines, <<>>) ELSE lines
<1>1. /\ line \in Seq(Printable) /\ executed \in Seq(Seq(Printable)) /\ Len(line) \in Nat
      /\ lines \in Seq(Seq(Printable))
  BY DEF LineInv
<1>2. start = Append(executed, line)
  <2>1. CASE lines = Append(executed, line)
    <3>1. Last(lines) = line
      BY <2>1, <1>1, FrontLast
    <3> QED BY <2>1, <3>1, LineAssumption
  <2>2. CASE line = <<>> /\ executed = lines /\ Len(Last(executed)) = LineLen - 1
    BY <2>2
  <2> QED BY <2>1, <2>2 DEF Agrees
<1> HIDE DEF start
<1>3. Last(start) = line /\ Front(start) = executed
  BY <1>1, <1>2, FrontLast
<1>4. AddKey(ch) = CASE ch = ERASED -> lines
                     [] ch = ENTER -> Append(start, <<>>)
                     [] ch \in Printable -> Append(Front(start), Append(Last(start), ch))
                     [] ch = DELETE /\ Last(start) # <<>> -> Append(Front(start), Front(Last(start)))
                     [] OTHER -> start
  BY DEF AddKey, start
<1>5. /\ ERASED \notin Printable /\ ENTER \notin Printable /\ DELETE \notin Printable
      /\ ERASED # ENTER /\ DELETE # ENTER /\ DELETE # ERASED
  BY LineAssumption DEF ENTER, ERASED, DELETE
<1>6. CASE ch \in {ERASED, ENTER}
  BY <1>2, <1>4, <1>5, <1>6
<1>7. CASE ch \in Printable
  BY <1>3, <1>4, <1>5, <1>7 DEF Edited
<1>8. CASE ch = DELETE /\ line # <<>>
  BY <1>3, <1>4, <1>5, <1>8 DEF Edited
<1>9. CASE ch \notin {ERASED, ENTER} \cup Printable /\ ~(ch = DELETE /\ line # <<>>)
  BY <1>2, <1>3, <1>4, <1>9 DEF Edited
<1> QED BY <1>6, <1>7, <1>8, <1>9

\* A key that getline takes.
LEMMA ToLineStep ==
  ASSUME LineInv, pc = "get", UNCHANGED executed, NEW src, NEW ch, ToLine(src, ch)
  PROVE  LineInv'
<1>1. /\ line \in Seq(Printable) /\ executed \in Seq(Seq(Printable)) /\ Len(line) \in Nat
      /\ lines \in Seq(Seq(Printable)) /\ Agrees /\ Len(line) < LineLen - 1
  BY DEF LineInv
<1>2. /\ line' = Edited(ch) /\ executed' = executed /\ lines' = AddKey(ch)
      /\ Edited(ch) \in Seq(Printable) /\ Len(Edited(ch)) \in Nat
      /\ Len(Edited(ch)) <= Len(line) + 1
      /\ ch \in {ENTER, ERASED} => Edited(ch) = line
  BY EditedIs DEF ToLine
<1>3. Len(Edited(ch)) <= LineLen - 1
  BY <1>1, <1>2, LineAssumption
<1>4. ENTER # ERASED
  BY DEF ENTER, ERASED
<1>5. CASE ch = ERASED
  <2>1. AddKey(ch) = lines
    BY <1>1, <1>5, AddKeyIs
  <2>2. lines' = lines /\ pc' = "get" /\ line' = line
    BY <1>2, <1>4, <1>5, <2>1 DEF ToLine
  <2> QED BY <1>1, <1>2, <2>2 DEF LineInv, Agrees
<1>6. CASE ch = ENTER
  <2>0. AddKey(ch) = Append(Append(executed, line), <<>>)
    BY <1>1, <1>4, <1>6, AddKeyIs
  <2>1. lines' = Append(Append(executed, line), <<>>) /\ pc' = "run" /\ line' = line
    BY <1>2, <1>4, <1>6, <2>0 DEF ToLine
  <2>2. lines' \in Seq(Seq(Printable))
    BY <1>1, <2>1
  <2> QED BY <1>1, <1>2, <1>3, <2>1, <2>2 DEF LineInv
<1>7. CASE ch \notin {ERASED, ENTER}
  <2>0. AddKey(ch) = Append(executed, Edited(ch))
    BY <1>1, <1>7, AddKeyIs
  <2>1. lines' = Append(executed, Edited(ch)) /\ pc' = "timers"
    BY <1>2, <1>7, <2>0 DEF ToLine
  <2>2. lines' \in Seq(Seq(Printable))
    BY <1>1, <1>2, <2>1
  <2> QED BY <1>1, <1>2, <1>3, <2>1, <2>2 DEF LineInv, Agrees
<1> QED BY <1>5, <1>6, <1>7

\* The line is executed and the next one begins.
LEMMA ExecutesStep ==
  ASSUME LineInv, Executes, pc' \notin {"run", "get"}
  PROVE  LineInv'
<1>1. /\ line \in Seq(Printable) /\ executed \in Seq(Seq(Printable))
      /\ lines \in Seq(Seq(Printable)) /\ lines' = lines
      /\ executed' = Append(executed, line) /\ line' = <<>>
  BY DEF LineInv, Executes
<1>2. \/ lines = Append(executed', <<>>)
      \/ lines = executed' /\ Len(line) = LineLen - 1
  BY <1>1 DEF LineInv, Executes
<1>3. executed' \in Seq(Seq(Printable)) /\ executed' # <<>> /\ Last(executed') = line
  BY <1>1, FrontLast
<1>4. Agrees'
  BY <1>1, <1>2, <1>3 DEF Agrees
<1>5. <<>> \in Seq(Printable) /\ Len(<<>>) <= LineLen - 1
  BY LineAssumption
<1> QED BY <1>1, <1>3, <1>4, <1>5 DEF LineInv

\* Every other step leaves the lines alone, or finds the line full.
LEMMA LineStep == LineInv /\ [Next]_allVars => LineInv'
<1> SUFFICES ASSUME LineInv, [Next]_allVars PROVE LineInv'
  OBVIOUS
<1> DEFINE Same == UNCHANGED <<line, executed, lines>>
<1>0. CASE Same /\ UNCHANGED pc
  BY <1>0 DEF LineInv, Agrees
<1>1. CASE Same /\ pc # "run" /\ pc' \notin {"run", "get"}
  BY <1>1 DEF LineInv, Agrees
<1>2. CASE Input \/ Tick \/ UNCHANGED allVars
  <2>1. Same /\ UNCHANGED pc
    BY <1>2 DEF Input, KeyArrives, SerialArrives, Tick, allVars, vars, history
  <2> QED BY <1>0, <2>1
<1>3. CASE Compare \/ Copy \/ TestKey
  <2>1. Same /\ pc # "run" /\ pc' \notin {"run", "get"}
    BY <1>3 DEF Compare, Copy, TestKey, history
  <2> QED BY <1>1, <2>1
<1>4. CASE TakeKey
  <2>1. \/ UNCHANGED <<taken, pc, timeout, buffer, silence>>
        \/ \E src, ch : ToProgram(src, ch)
    BY <1>4 DEF TakeKey, GetKey
  <2>2. pc = "take" /\ Same
    BY <1>4 DEF TakeKey
  <2>3. UNCHANGED pc \/ pc' \in {"timers", "compare"}
    BY <2>1 DEF ToProgram
  <2> QED BY <1>0, <1>1, <2>2, <2>3
<1>5. CASE RunProgram
  <2>1. Executes /\ pc' \notin {"run", "get"}
    BY <1>5 DEF RunProgram
  <2> QED BY <2>1, ExecutesStep
<1>6. CASE Shell
  <2>1. CASE GetLine
    <3>1. Same /\ pc = "loop" /\ (Len(line) < LineLen - 1 \/ Len(line) = LineLen - 1)
      BY <2>1, LineAssumption DEF GetLine, history, LineInv
    <3>2. CASE pc' = "timers"
      BY <1>1, <3>1, <3>2
    <3>3. CASE pc' = "get"
      <4>1. Len(line) < LineLen - 1
        BY <2>1, <3>3 DEF GetLine, HasKey
      <4> QED BY <3>1, <3>3, <4>1 DEF LineInv, Agrees
    <3>4. CASE pc' = "run"
      <4>1. Len(line) = LineLen - 1
        BY <2>1, <3>1, <3>4 DEF GetLine, HasKey
      <4>2. line # <<>>
        BY <4>1, LineAssumption
      <4>3. lines = Append(executed, line)
        BY <3>1, <4>2 DEF LineInv, Agrees
      <4> QED BY <3>1, <3>4, <4>1, <4>3 DEF LineInv
    <3> QED BY <2>1, <3>2, <3>3, <3>4 DEF GetLine, HasKey
  <2>2. CASE WaitForKey
    <3>1. \/ UNCHANGED <<line, pc, taken, lines>>
          \/ \E src, ch : ToLine(src, ch)
      BY <2>2 DEF WaitForKey, GetKey
    <3>2. pc = "get" /\ UNCHANGED executed
      BY <2>2 DEF WaitForKey
    <3>3. CASE UNCHANGED <<line, pc, taken, lines>>
      BY <1>0, <3>2, <3>3
    <3>4. ASSUME NEW src, NEW ch, ToLine(src, ch) PROVE LineInv'
      BY <3>2, <3>4, ToLineStep
    <3> QED BY <3>1, <3>3, <3>4
  <2>3. CASE Execute
    <3>1. Executes /\ pc' \notin {"run", "get"}
      BY <2>3 DEF Execute
    <3> QED BY <3>1, ExecutesStep
  <2>4. CASE UpdateTimers
    <3>1. Same /\ pc # "run" /\ pc' \notin {"run", "get"}
      BY <2>4 DEF UpdateTimers, history
    <3> QED BY <1>1, <3>1
  <2> QED BY <1>6, <2>1, <2>2, <2>3, <2>4 DEF Shell, Main
<1> QED BY <1>2, <1>3, <1>4, <1>5, <1>6 DEF Next, Read

\* CommandsAreLines: the lines executed are the lines typed, cut where the buffer
\* is full, for every length of the buffer and whoever reads keys in between.
THEOREM CommandsTyped == Spec => []CommandsAreLines
<1>1. ReadInit => LineInv
  <2> SUFFICES ASSUME ReadInit PROVE LineInv
    OBVIOUS
  <2>1. line = <<>> /\ executed = <<>> /\ lines = <<<<>>>> /\ pc = "loop"
    BY DEF ReadInit, Init
  <2>2. /\ <<>> \in Seq(Printable) /\ <<>> \in Seq(Seq(Printable)) /\ Len(<<>>) <= LineLen - 1
        /\ Append(<<>>, <<>>) = <<<<>>>> /\ <<<<>>>> \in Seq(Seq(Printable))
    BY LineAssumption
  <2> QED BY <2>1, <2>2 DEF LineInv, Agrees
<1>2. LineInv => CommandsAreLines
  <2> SUFFICES ASSUME LineInv PROVE CommandsAreLines
    OBVIOUS
  <2>1. Append(executed, line) = executed \o <<line>>
    BY AppendIsConcat DEF LineInv
  <2> QED BY <2>1 DEF LineInv, Agrees, CommandsAreLines
<1> QED BY <1>1, <1>2, LineStep, PTL DEF Spec
=============================================================================
