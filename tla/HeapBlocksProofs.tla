-------------------------- MODULE HeapBlocksProofs --------------------------
(***************************************************************************)
(* What the functions of stdlib/src/malloc.c do to a sound heap, for any   *)
(* pool, alignment, split threshold and number of block descriptors.       *)
(***************************************************************************)
EXTENDS HeapBlocks, SequenceTheorems, FiniteSetTheorems, WellFoundedInduction,
        TLAPS

-----------------------------------------------------------------------------
(* Least elements, enumerations in ascending order, and sequences.         *)

\* A set of natural numbers has a least element, which is its Min.
LEMMA LeastNat ==
  ASSUME NEW T \in SUBSET Nat, T # {}
  PROVE  Min(T) \in T /\ \A m \in T : Min(T) <= m
<1>1. IsWellFoundedOn(OpToRel(<, Nat), Nat)
  BY NatLessThanWellFounded
<1>2. PICK x \in T : \A y \in T : ~(<<y, x>> \in OpToRel(<, Nat))
  BY <1>1, WFMin
<1>3. \A y \in T : ~(y < x)
  BY <1>2 DEF OpToRel
<1>4. \E n \in T : \A m \in T : n <= m
  BY <1>3
<1> QED BY <1>4 DEF Min

\* An ascending enumeration of a set is the only one.
LEMMA AscendingIs ==
  ASSUME NEW S \in SUBSET Nat, NEW m \in Nat, NEW e \in [1 .. m -> S],
         \A i, j \in 1 .. m : i < j => e[i] < e[j],
         \A x \in S : \E i \in 1 .. m : e[i] = x
  PROVE  Ascending(S) = e
<1>1. Cardinality(S) = m
  <2>1. \A i, j \in 1 .. m : i # j => e[i] # e[j]
    <3> SUFFICES ASSUME NEW i \in 1 .. m, NEW j \in 1 .. m, i # j
                 PROVE  e[i] # e[j]
      OBVIOUS
    <3>1. e[i] \in Nat /\ e[j] \in Nat
      OBVIOUS
    <3> QED BY <3>1
  <2>2. e \in Bijection(1 .. m, S)
    BY <2>1 DEF Bijection, Injection, Surjection, IsInjective
  <2> QED BY <2>2, FS_CountingElements DEF ExistsBijection
<1> DEFINE Rising(f) == \A i, j \in 1 .. m : i < j => f[i] < f[j]
<1>2. ASSUME NEW f \in [1 .. m -> S], Rising(f)
      PROVE  f = e
  <2> DEFINE T == {i \in 1 .. m : f[i] # e[i]}
  <2>1. CASE T = {}
    BY <2>1
  <2>2. CASE T # {}
    <3>0. PICK i \in T : \A j \in T : i <= j
      BY <2>2, LeastNat, T \in SUBSET Nat
    <3>1. i \in 1 .. m /\ f[i] # e[i] /\ \A j \in 1 .. m : j < i => f[j] = e[j]
      BY <3>0
    <3>2. f[i] \in Nat /\ e[i] \in Nat
      BY <3>1
    <3>3. CASE f[i] < e[i]
      <4>1. PICK k \in 1 .. m : e[k] = f[i]
        BY <3>1
      <4>2. k < i
        BY <3>1, <3>2, <3>3, <4>1
      <4> QED BY <1>2, <3>1, <3>2, <4>1, <4>2
    <3>4. CASE e[i] < f[i]
      <4>1. \E k \in 1 .. m : f[k] = e[i]
        <5>1. f \in Injection(1 .. m, S)
          <6>1. \A k, l \in 1 .. m : k # l => f[k] # f[l]
            <7> SUFFICES ASSUME NEW k \in 1 .. m, NEW l \in 1 .. m, k # l
                         PROVE  f[k] # f[l]
              OBVIOUS
            <7>1. f[k] \in Nat /\ f[l] \in Nat
              OBVIOUS
            <7> QED BY <1>2, <7>1
          <6> QED BY <6>1 DEF Injection, IsInjective
        <5>2. IsFiniteSet(S) /\ Cardinality(1 .. m) = m
          <6>1. Cardinality(1 .. m) = m
            BY FS_Interval
          <6>2. e \in Surjection(1 .. m, S)
            BY DEF Surjection
          <6> QED BY <6>1, <6>2, FS_Interval, FS_Surjection
        <5>3. f \in Surjection(1 .. m, S)
          BY <1>1, <5>1, <5>2, FS_Injection
        <5> QED BY <3>1, <5>3 DEF Surjection
      <4>2. PICK k \in 1 .. m : f[k] = e[i]
        BY <4>1
      <4>3. ~(k > i)
        BY <1>2, <3>1, <3>2, <3>4, <4>2
      <4>4. k < i
        BY <3>1, <3>4, <4>2, <4>3
      <4> QED BY <3>1, <3>2, <4>2, <4>4
    <3> QED BY <3>1, <3>2, <3>3, <3>4
  <2> QED BY <2>1, <2>2
<1>3. Ascending(S) = CHOOSE f \in [1 .. m -> S] : Rising(f)
  BY <1>1 DEF Ascending
<1>4. Rising(e)
  OBVIOUS
<1> QED BY <1>2, <1>3, <1>4

\* InsertAt and RemoveAt move the entries behind the position by one.
LEMMA InsertAtIs ==
  ASSUME NEW S, NEW s \in Seq(S), NEW e \in S, NEW k \in 1 .. Len(s) + 1
  PROVE  /\ InsertAt(s, k, e) \in Seq(S)
         /\ Len(InsertAt(s, k, e)) = Len(s) + 1
         /\ \A i \in 1 .. Len(s) + 1 :
              InsertAt(s, k, e)[i] = IF i < k THEN s[i] ELSE IF i = k THEN e ELSE s[i - 1]
<1> DEFINE a == SubSeq(s, 1, k - 1)
           c == SubSeq(s, k, Len(s))
<1>1. Len(s) \in Nat /\ \A i \in 1 .. Len(s) : s[i] \in S
  BY LenProperties, ElementOfSeq
<1>2. /\ a \in Seq(S) /\ Len(a) = k - 1
      /\ \A i \in 1 .. k - 1 : a[i] = s[i]
  BY <1>1, SubSeqProperties
<1>3. /\ c \in Seq(S) /\ Len(c) = Len(s) - k + 1
      /\ \A i \in 1 .. Len(s) - k + 1 : c[i] = s[k + i - 1]
  BY <1>1, SubSeqProperties
<1>4. /\ <<e>> \in Seq(S) /\ Len(<<e>>) = 1 /\ <<e>>[1] = e
  OBVIOUS
<1> HIDE DEF a, c
<1>5. /\ a \o <<e>> \in Seq(S) /\ Len(a \o <<e>>) = k
      /\ \A i \in 1 .. k : (a \o <<e>>)[i] = IF i <= k - 1 THEN a[i] ELSE e
  BY <1>1, <1>2, <1>4, ConcatProperties
<1>6. /\ (a \o <<e>>) \o c \in Seq(S) /\ Len((a \o <<e>>) \o c) = Len(s) + 1
      /\ \A i \in 1 .. Len(s) + 1 : ((a \o <<e>>) \o c)[i] =
           IF i <= k THEN (a \o <<e>>)[i] ELSE c[i - k]
  <2>1. LET t == a \o <<e>>
        IN  /\ t \o c \in Seq(S) /\ Len(t \o c) = Len(t) + Len(c)
            /\ \A i \in 1 .. Len(t) + Len(c) : (t \o c)[i] =
                 IF i <= Len(t) THEN t[i] ELSE c[i - Len(t)]
    <3>1. a \o <<e>> \in Seq(S) /\ c \in Seq(S)
      BY <1>3, <1>5
    <3> QED BY <3>1, ConcatProperties
  <2>2. k + Len(c) = Len(s) + 1
    BY <1>1, <1>3
  <2> QED BY <1>5, <2>1, <2>2
<1>7. InsertAt(s, k, e) = (a \o <<e>>) \o c
  BY DEF InsertAt, a, c
<1>8. ASSUME NEW i \in 1 .. Len(s) + 1
      PROVE  ((a \o <<e>>) \o c)[i] = IF i < k THEN s[i] ELSE IF i = k THEN e ELSE s[i - 1]
  BY <1>1, <1>2, <1>3, <1>5, <1>6
<1> QED BY <1>6, <1>7, <1>8

\* Removing an element moves those behind it down by one.
LEMMA RemoveAtIs ==
  ASSUME NEW S, NEW s \in Seq(S), NEW k \in 1 .. Len(s)
  PROVE  /\ RemoveAt(s, k) \in Seq(S)
         /\ Len(RemoveAt(s, k)) = Len(s) - 1
         /\ \A i \in 1 .. Len(s) - 1 :
              RemoveAt(s, k)[i] = IF i < k THEN s[i] ELSE s[i + 1]
<1> DEFINE a == SubSeq(s, 1, k - 1)
           c == SubSeq(s, k + 1, Len(s))
<1>1. Len(s) \in Nat /\ \A i \in 1 .. Len(s) : s[i] \in S
  BY LenProperties, ElementOfSeq
<1>2. /\ a \in Seq(S) /\ Len(a) = k - 1
      /\ \A i \in 1 .. k - 1 : a[i] = s[i]
  BY <1>1, SubSeqProperties
<1>3. /\ c \in Seq(S) /\ Len(c) = Len(s) - k
      /\ \A i \in 1 .. Len(s) - k : c[i] = s[k + i]
  BY <1>1, SubSeqProperties
<1> HIDE DEF a, c
<1>4. /\ a \o c \in Seq(S) /\ Len(a \o c) = Len(s) - 1
      /\ \A i \in 1 .. Len(s) - 1 : (a \o c)[i] = IF i <= k - 1 THEN a[i] ELSE c[i - (k - 1)]
  <2>1. /\ a \o c \in Seq(S) /\ Len(a \o c) = Len(a) + Len(c)
        /\ \A i \in 1 .. Len(a) + Len(c) : (a \o c)[i] =
             IF i <= Len(a) THEN a[i] ELSE c[i - Len(a)]
    BY <1>2, <1>3, ConcatProperties
  <2>2. k - 1 + Len(c) = Len(s) - 1
    BY <1>1, <1>3
  <2> QED BY <1>2, <2>1, <2>2
<1>5. ASSUME NEW i \in 1 .. Len(s) - 1
      PROVE  (a \o c)[i] = IF i < k THEN s[i] ELSE s[i + 1]
  <2>1. CASE i < k
    BY <1>1, <1>2, <1>4, <2>1
  <2>2. CASE i >= k
    <3>1. i - (k - 1) \in 1 .. Len(s) - k /\ ~(i <= k - 1)
      BY <1>1, <2>2
    <3>2. (a \o c)[i] = c[i - (k - 1)]
      BY <1>4, <3>1
    <3>3. c[i - (k - 1)] = s[k + (i - (k - 1))]
      BY <1>3, <3>1
    <3>4. k + (i - (k - 1)) = i + 1
      BY <1>1
    <3>5. ~(i < k)
      BY <1>1, <2>2
    <3> QED BY <3>2, <3>3, <3>4, <3>5
  <2>3. i < k \/ i >= k
    BY <1>1
  <2> QED BY <2>1, <2>2, <2>3
<1>6. RemoveAt(s, k) = a \o c
  BY DEF RemoveAt, a, c
<1> QED BY <1>4, <1>5, <1>6

\* An element put in front moves all the others up by one.
LEMMA PushIs ==
  ASSUME NEW S, NEW s \in Seq(S), NEW e \in S
  PROVE  /\ <<e>> \o s \in Seq(S)
         /\ Len(<<e>> \o s) = Len(s) + 1
         /\ \A i \in 1 .. Len(s) + 1 : (<<e>> \o s)[i] = IF i = 1 THEN e ELSE s[i - 1]
<1>1. /\ <<e>> \in Seq(S) /\ Len(<<e>>) = 1 /\ <<e>>[1] = e
      /\ Len(s) \in Nat
  BY LenProperties
<1>2. /\ <<e>> \o s \in Seq(S) /\ Len(<<e>> \o s) = Len(<<e>>) + Len(s)
      /\ \A i \in 1 .. Len(<<e>>) + Len(s) : (<<e>> \o s)[i] =
           IF i <= Len(<<e>>) THEN <<e>>[i] ELSE s[i - Len(<<e>>)]
  BY <1>1, ConcatProperties
<1>3. ASSUME NEW i \in 1 .. Len(s) + 1
      PROVE  (<<e>> \o s)[i] = IF i = 1 THEN e ELSE s[i - 1]
  <2>1. i \in 1 .. Len(<<e>>) + Len(s) /\ (i <= Len(<<e>>) <=> i = 1)
    BY <1>1
  <2> QED BY <1>1, <1>2, <2>1
<1> QED BY <1>1, <1>2, <1>3

-----------------------------------------------------------------------------
(* insert_block and compact on a free list without touching blocks.        *)

Blocks == [addr : Nat, size : Nat]

\* One of two blocks ends before the other begins.
Apart(b, c) == EndOf(b) <= c.addr \/ EndOf(c) <= b.addr

\* The list ascends and there is something between any two of its blocks.
Spaced(list) ==
  \A i, j \in 1 .. Len(list) : i < j => EndOf(list[i]) < list[j].addr

\* Every block of the list ends before b or begins behind it.
FitsIn(list, b) ==
  \A i \in 1 .. Len(list) :
    IF b.addr <= list[i].addr THEN EndOf(b) <= list[i].addr ELSE EndOf(list[i]) <= b.addr

\* b may stand at position k of the list.
Belongs(list, k, b) ==
  /\ k \in 1 .. Len(list) + 1
  /\ \A i \in 1 .. Len(list) : i < k => EndOf(list[i]) <= b.addr
  /\ \A i \in 1 .. Len(list) : i >= k => EndOf(b) <= list[i].addr

\* Does b touch the block before it, and the one behind it?  The list with b
\* merged into those.
Below(list, k, b) == IF k > 1 /\ EndOf(list[k - 1]) = b.addr THEN 1 ELSE 0
Above(list, k, b) == IF k <= Len(list) /\ EndOf(b) = list[k].addr THEN 1 ELSE 0
Foot(list, k, b) == IF Below(list, k, b) = 1 THEN list[k - 1].addr ELSE b.addr
Roof(list, k, b) == IF Above(list, k, b) = 1 THEN EndOf(list[k]) ELSE EndOf(b)
Merged(list, k, b) ==
  [r \in 1 .. Len(list) + 1 - Below(list, k, b) - Above(list, k, b) |->
     IF r < k - Below(list, k, b) THEN list[r]
     ELSE IF r = k - Below(list, k, b)
       THEN Block(Foot(list, k, b), Roof(list, k, b) - Foot(list, k, b))
     ELSE list[r - 1 + Below(list, k, b) + Above(list, k, b)]]

\* A block ends at or behind the address where it begins, and is known by the two.
LEMMA BlockIs ==
  ASSUME NEW b \in Blocks
  PROVE  /\ b.addr \in Nat /\ b.size \in Nat /\ EndOf(b) \in Nat /\ b.addr <= EndOf(b)
         /\ Block(b.addr, EndOf(b) - b.addr) = b
         /\ (b.size = 0 <=> EndOf(b) = b.addr)
BY DEF Blocks, Block, EndOf

\* Block makes a block of the address and size it is given.
LEMMA MadeBlockIs ==
  ASSUME NEW a \in Nat, NEW n \in Nat
  PROVE  /\ Block(a, n) \in Blocks
         /\ Block(a, n).addr = a /\ Block(a, n).size = n /\ EndOf(Block(a, n)) = a + n
BY DEF Blocks, Block, EndOf

\* The entries of a list of blocks are blocks.
LEMMA EntryIs ==
  ASSUME NEW list \in Seq(Blocks), NEW i \in 1 .. Len(list)
  PROVE  /\ list[i] \in Blocks /\ list[i].addr \in Nat /\ list[i].size \in Nat
         /\ EndOf(list[i]) \in Nat /\ list[i].addr <= EndOf(list[i])
BY ElementOfSeq, BlockIs

\* insert_block puts a block where it belongs.
LEMMA InsertBlockIs ==
  ASSUME NEW list \in Seq(Blocks), NEW b \in Blocks, Spaced(list), FitsIn(list, b)
  PROVE  \E k \in 1 .. Len(list) + 1 :
           Belongs(list, k, b) /\ InsertBlock(list, b) = InsertAt(list, k, b)
<1> DEFINE above == {i \in DOMAIN list : b.addr <= list[i].addr}
           k == IF above = {} THEN Len(list) + 1 ELSE Min(above)
<1>0. DOMAIN list = 1 .. Len(list) /\ Len(list) \in Nat
  BY LenProperties
<1>1. InsertBlock(list, b) = InsertAt(list, k, b)
  BY DEF InsertBlock
<1>2. /\ k \in 1 .. Len(list) + 1
      /\ \A i \in 1 .. Len(list) : i < k => ~(b.addr <= list[i].addr)
      /\ k <= Len(list) => b.addr <= list[k].addr
  <2>1. CASE above = {}
    BY <1>0, <2>1
  <2>2. CASE above # {}
    <3>1. above \in SUBSET Nat
      BY <1>0
    <3>2. k \in above /\ \A i \in above : k <= i
      BY <2>2, <3>1, LeastNat
    <3> HIDE DEF k
    <3>3. ASSUME NEW i \in 1 .. Len(list), i < k
          PROVE  i \notin above
      BY <1>0, <3>1, <3>2, <3>3
    <3> QED BY <1>0, <3>2, <3>3
  <2> QED BY <2>1, <2>2
<1> HIDE DEF k
<1>3. ASSUME NEW i \in 1 .. Len(list), i < k
      PROVE  EndOf(list[i]) <= b.addr
  BY <1>2, <1>3 DEF FitsIn
<1>4. ASSUME NEW i \in 1 .. Len(list), i >= k
      PROVE  EndOf(b) <= list[i].addr
  <2>1. k \in 1 .. Len(list) /\ EndOf(b) <= list[k].addr
    BY <1>0, <1>2, <1>4 DEF FitsIn
  <2>2. CASE i = k
    BY <2>1, <2>2
  <2>3. CASE i # k
    <3>1. EndOf(list[k]) < list[i].addr
      BY <1>0, <1>4, <2>1, <2>3 DEF Spaced
    <3> QED BY SMTT(30), <2>1, <3>1, EntryIs, BlockIs
  <2> QED BY <2>2, <2>3
<1>5. Belongs(list, k, b)
  BY <1>2, <1>3, <1>4 DEF Belongs
<1> QED BY <1>1, <1>2, <1>5

\* compact merges the new block with its neighbours and changes nothing else.
LEMMA CompactIs ==
  ASSUME NEW list \in Seq(Blocks), NEW b \in Blocks, NEW k \in Nat,
         Spaced(list), Belongs(list, k, b)
  PROVE  Compact(InsertAt(list, k, b)) = Merged(list, k, b)
<1> DEFINE n == Len(list)
           lo == Below(list, k, b)
           hi == Above(list, k, b)
           m == n + 1 - lo - hi
           s == InsertAt(list, k, b)
           S == {i \in DOMAIN s : i = 1 \/ EndOf(s[i - 1]) # s[i].addr}
           e == [r \in 1 .. m |-> IF r <= k - lo THEN r ELSE r + lo + hi]
<1>1. n \in Nat /\ k \in 1 .. n + 1
  BY LenProperties DEF Belongs
<1>2. /\ lo \in {0, 1} /\ (lo = 1 => k > 1) /\ (k > 1 => (lo = 0 <=> EndOf(list[k - 1]) # b.addr))
      /\ hi \in {0, 1} /\ (hi = 1 => k <= n) /\ (k <= n => (hi = 0 <=> EndOf(b) # list[k].addr))
  BY DEF Below, Above
<1>3. /\ s \in Seq(Blocks) /\ Len(s) = n + 1 /\ DOMAIN s = 1 .. n + 1
      /\ \A i \in 1 .. n + 1 : s[i] = IF i < k THEN list[i] ELSE IF i = k THEN b ELSE list[i - 1]
  BY <1>1, InsertAtIs, LenProperties
<1> HIDE DEF n, lo, hi, s
<1>4. m \in Nat /\ k - lo \in 1 .. m
  BY <1>1, <1>2
<1>5. \A i \in 1 .. n + 1 : i \in S <=> ~(i = k /\ lo = 1) /\ ~(i = k + 1 /\ hi = 1)
  <2> SUFFICES ASSUME NEW i \in 1 .. n + 1, i > 1
               PROVE  EndOf(s[i - 1]) # s[i].addr <=> ~(i = k /\ lo = 1) /\ ~(i = k + 1 /\ hi = 1)
    BY <1>1, <1>2, <1>3
  <2>0. i - 1 \in 1 .. n + 1
    BY <1>1
  <2>1. CASE i < k \/ i > k + 1
    <3>1. PICK j \in 1 .. n : j + 1 \in 1 .. n /\ s[i - 1] = list[j] /\ s[i] = list[j + 1]
      <4>1. CASE i < k
        BY <1>1, <1>3, <2>0, <4>1
      <4>2. CASE i > k + 1
        <5>1. s[i] = list[i - 1] /\ s[i - 1] = list[i - 1 - 1]
          BY <1>1, <1>3, <2>0, <4>2
        <5>2. i - 1 - 1 \in 1 .. n /\ i - 1 \in 1 .. n /\ i - 1 - 1 + 1 = i - 1
          BY <1>1, <4>2
        <5> QED BY <5>1, <5>2
      <4> QED BY <2>1, <4>1, <4>2
    <3>2. EndOf(s[i - 1]) < s[i].addr
      BY <1>1, <3>1 DEF Spaced, n
    <3>3. s[i] \in Blocks /\ s[i - 1] \in Blocks
      BY <1>3, <2>0, ElementOfSeq
    <3>4. EndOf(s[i - 1]) # s[i].addr
      BY <3>2, <3>3, BlockIs
    <3> QED BY <1>1, <2>1, <3>4
  <2>2. CASE i = k
    <3>1. s[i - 1] = list[k - 1] /\ s[i] = b
      BY <1>1, <1>3, <2>0, <2>2
    <3> QED BY <1>1, <1>2, <2>2, <3>1
  <2>3. CASE i = k + 1
    <3>1. s[i - 1] = b /\ s[i] = list[k] /\ k <= n
      BY <1>1, <1>3, <2>0, <2>3
    <3> QED BY <1>1, <1>2, <2>3, <3>1
  <2> QED BY <1>1, <2>1, <2>2, <2>3
<1>6. Ascending(S) = e
  <2>1. S \in SUBSET Nat
    BY <1>3
  <2>2. ASSUME NEW r \in 1 .. m
        PROVE  e[r] \in S
    <3>1. e[r] \in 1 .. n + 1 /\ ~(e[r] = k /\ lo = 1) /\ ~(e[r] = k + 1 /\ hi = 1)
      BY <1>1, <1>2
    <3> QED BY <1>5, <3>1
  <2>3. e \in [1 .. m -> S]
    <3> HIDE DEF S
    <3> QED BY <2>2
  <2>4. \A i, j \in 1 .. m : i < j => e[i] < e[j]
    BY <1>1, <1>2
  <2>5. ASSUME NEW x \in S
        PROVE  \E i \in 1 .. m : e[i] = x
    <3>1. x \in 1 .. n + 1 /\ ~(x = k /\ lo = 1) /\ ~(x = k + 1 /\ hi = 1)
      BY <1>3, <1>5
    <3> HIDE DEF S
    <3>2. CASE x <= k - lo
      BY <1>1, <1>2, <3>1, <3>2
    <3>3. CASE x > k - lo
      <4>1. x - lo - hi \in 1 .. m /\ ~(x - lo - hi <= k - lo)
        BY <1>1, <1>2, <3>1, <3>3
      <4>2. e[x - lo - hi] = x
        BY <1>1, <1>2, <3>1, <4>1
      <4> QED BY <4>1, <4>2
    <3> QED BY <1>1, <1>2, <3>1, <3>2, <3>3
  <2> HIDE DEF S, e, m
  <2> QED BY <1>4, <2>1, <2>3, <2>4, <2>5, AscendingIs
<1>7. e \in Seq(Nat) /\ Len(e) = m /\ DOMAIN e = 1 .. m
  <2>1. e \in [1 .. m -> Nat]
    BY <1>1, <1>2
  <2> HIDE DEF e, m
  <2> QED BY <1>4, <2>1
<1> DEFINE last(r) == IF r = m THEN n + 1 ELSE e[r + 1] - 1
<1>8. Compact(s) = [r \in 1 .. m |-> Block(s[e[r]].addr, EndOf(s[last(r)]) - s[e[r]].addr)]
  <2> HIDE DEF e, m, S
  <2>1. Compact(s) = [r \in DOMAIN e |->
                        Block(s[e[r]].addr,
                              EndOf(s[IF r = Len(e) THEN Len(s) ELSE e[r + 1] - 1]) - s[e[r]].addr)]
    BY <1>6 DEF Compact, S
  <2> QED BY <1>3, <1>7, <2>1
<1>9. ASSUME NEW r \in 1 .. m
      PROVE  Block(s[e[r]].addr, EndOf(s[last(r)]) - s[e[r]].addr) =
             IF r < k - lo THEN list[r]
             ELSE IF r = k - lo
               THEN Block(Foot(list, k, b), Roof(list, k, b) - Foot(list, k, b))
             ELSE list[r - 1 + lo + hi]
  <2>1. CASE r < k - lo
    <3>1. e[r] = r /\ last(r) = r
      BY <1>1, <1>2, <1>4, <2>1
    <3>2. s[r] = list[r] /\ r \in 1 .. n
      BY <1>1, <1>2, <1>3, <2>1
    <3> QED BY SMTT(30), <2>1, <3>1, <3>2, ElementOfSeq, BlockIs DEF n
  <2>2. CASE r = k - lo
    <3>1. e[r] = k - lo /\ last(r) = k + hi
      BY <1>1, <1>2, <1>4, <2>2
    <3>2. s[k - lo].addr = Foot(list, k, b)
      BY SMTT(30), <1>1, <1>2, <1>3 DEF Foot, lo
    <3>3. EndOf(s[k + hi]) = Roof(list, k, b)
      BY SMTT(30), <1>1, <1>2, <1>3 DEF Roof, hi
    <3> QED BY <1>1, <1>2, <2>2, <3>1, <3>2, <3>3
  <2>3. CASE r > k - lo
    <3>0. /\ r \in Int /\ k \in Int /\ n \in Int /\ lo \in Int /\ hi \in Int
          /\ r >= 1 /\ r <= m
      BY <1>1, <1>2
    <3>1. e[r] = r + lo + hi /\ last(r) = r + lo + hi
      <4>1. e[r] = r + lo + hi
        BY <2>3, <3>0
      <4>2. CASE r = m
        BY <3>0, <4>1, <4>2
      <4>3. CASE r < m
        <5>1. r + 1 \in 1 .. m /\ ~(r + 1 <= k - lo)
          BY <2>3, <3>0, <4>3
        <5>2. e[r + 1] = r + 1 + lo + hi
          BY <5>1
        <5> QED BY <3>0, <4>1, <4>3, <5>2
      <4> QED BY <3>0, <4>1, <4>2, <4>3
    <3> DEFINE q == r + lo + hi
    <3>2. q \in 1 .. n + 1 /\ q > k /\ q - 1 = r - 1 + lo + hi
      BY <1>2, <2>3, <3>0
    <3>3. s[r + lo + hi] = list[r - 1 + lo + hi] /\ r - 1 + lo + hi \in 1 .. n
      <4> HIDE DEF q
      <4>1. ~(q < k) /\ q # k /\ q - 1 \in 1 .. n
        BY <1>1, <3>0, <3>2
      <4>2. s[q] = list[q - 1]
        BY <1>3, <3>2, <4>1
      <4> QED BY <3>2, <4>1, <4>2 DEF q
    <3>4. list[r - 1 + lo + hi] \in Blocks
      BY <3>3, ElementOfSeq DEF n
    <3>5. ~(r < k - lo) /\ r # k - lo
      BY <1>1, <1>2, <2>3
    <3> QED BY <3>1, <3>3, <3>4, <3>5, BlockIs
  <2> QED BY <1>1, <1>2, <2>1, <2>2, <2>3
<1> HIDE DEF last, e, m
<1>10. Merged(list, k, b) =
         [r \in 1 .. m |-> IF r < k - lo THEN list[r]
                           ELSE IF r = k - lo
                             THEN Block(Foot(list, k, b), Roof(list, k, b) - Foot(list, k, b))
                           ELSE list[r - 1 + lo + hi]]
  BY DEF Merged, m, lo, hi, n
<1> QED BY <1>8, <1>9, <1>10 DEF s

\* The block that b becomes.
Grown(list, k, b) == Block(Foot(list, k, b), Roof(list, k, b) - Foot(list, k, b))

\* The block that b becomes holds b, and begins and ends with the neighbours it touches.
LEMMA GrownIs ==
  ASSUME NEW list \in Seq(Blocks), NEW b \in Blocks, NEW k \in Nat, Belongs(list, k, b)
  PROVE  /\ Grown(list, k, b) \in Blocks
         /\ Grown(list, k, b).addr <= b.addr /\ EndOf(b) <= EndOf(Grown(list, k, b))
         /\ IF Below(list, k, b) = 1
              THEN /\ k - 1 \in 1 .. Len(list) /\ EndOf(list[k - 1]) = b.addr
                   /\ Grown(list, k, b).addr = list[k - 1].addr
              ELSE Grown(list, k, b).addr = b.addr
         /\ IF Above(list, k, b) = 1
              THEN /\ k \in 1 .. Len(list) /\ list[k].addr = EndOf(b)
                   /\ EndOf(Grown(list, k, b)) = EndOf(list[k])
              ELSE EndOf(Grown(list, k, b)) = EndOf(b)
<1> DEFINE f == Foot(list, k, b)
           l == Roof(list, k, b)
<1>1. Len(list) \in Nat /\ k \in 1 .. Len(list) + 1
  BY LenProperties DEF Belongs
<1>2. b.addr \in Nat /\ EndOf(b) \in Nat /\ b.addr <= EndOf(b)
  BY BlockIs
<1>3. /\ f \in Nat /\ f <= b.addr
      /\ IF Below(list, k, b) = 1
           THEN k - 1 \in 1 .. Len(list) /\ EndOf(list[k - 1]) = b.addr /\ f = list[k - 1].addr
           ELSE f = b.addr
  <2>1. CASE Below(list, k, b) = 1
    <3>1. k - 1 \in 1 .. Len(list) /\ EndOf(list[k - 1]) = b.addr /\ f = list[k - 1].addr
      BY <1>1, <2>1 DEF Below, Foot
    <3> QED BY <2>1, <3>1, EntryIs
  <2>2. CASE Below(list, k, b) # 1
    BY <1>2, <2>2 DEF Foot
  <2> QED BY <2>1, <2>2
<1>4. /\ l \in Nat /\ EndOf(b) <= l
      /\ IF Above(list, k, b) = 1
           THEN k \in 1 .. Len(list) /\ list[k].addr = EndOf(b) /\ l = EndOf(list[k])
           ELSE l = EndOf(b)
  <2>1. CASE Above(list, k, b) = 1
    <3>1. k \in 1 .. Len(list) /\ list[k].addr = EndOf(b) /\ l = EndOf(list[k])
      BY <1>1, <2>1 DEF Above, Roof
    <3> QED BY <2>1, <3>1, EntryIs
  <2>2. CASE Above(list, k, b) # 1
    BY <1>2, <2>2 DEF Roof
  <2> QED BY <2>1, <2>2
<1> HIDE DEF f, l
<1> DEFINE d == l - f
<1>5. d \in Nat /\ f + d = l
  BY <1>2, <1>3, <1>4
<1>6. Grown(list, k, b) = Block(f, d)
  BY DEF Grown, f, l
<1> HIDE DEF d
<1>7. Grown(list, k, b) \in Blocks /\ Grown(list, k, b).addr = f /\ EndOf(Grown(list, k, b)) = l
  BY <1>3, <1>5, <1>6, MadeBlockIs
<1> QED BY <1>3, <1>4, <1>7

\* The entries of new are those of the list, in order, around the block at g that
\* b has become.
Around(list, k, b, new, g) ==
  /\ new[g] = Grown(list, k, b)
  /\ \A r \in 1 .. Len(new) : r < g =>
       r \in 1 .. Len(list) /\ r + Below(list, k, b) < k /\ new[r] = list[r]
  /\ \A r \in 1 .. Len(new) : r > g =>
       \E q \in 1 .. Len(list) :
         /\ q = r - 1 + Below(list, k, b) + Above(list, k, b)
         /\ q >= k + Above(list, k, b) /\ new[r] = list[q]
  /\ \A q \in 1 .. Len(list) :
       \/ q + Below(list, k, b) < k /\ \E r \in 1 .. Len(new) : new[r] = list[q]
       \/ q >= k + Above(list, k, b) /\ \E r \in 1 .. Len(new) : new[r] = list[q]
       \/ q = k - 1 /\ Below(list, k, b) = 1
       \/ q = k /\ Above(list, k, b) = 1

\* Merging b into a free list leaves every other block as it is.
LEMMA MergedIs ==
  ASSUME NEW list \in Seq(Blocks), NEW b \in Blocks, NEW k \in Nat,
         Spaced(list), Belongs(list, k, b),
         NEW new, new = Merged(list, k, b)
  PROVE  /\ new \in Seq(Blocks) /\ Len(new) <= Len(list) + 1
         /\ \E g \in 1 .. Len(new) : Around(list, k, b, new, g)
<1> DEFINE n == Len(list)
           lo == Below(list, k, b)
           hi == Above(list, k, b)
           m == n + 1 - lo - hi
           g == k - lo
<1>1. n \in Nat /\ k \in 1 .. n + 1
  BY LenProperties DEF Belongs
<1>2. lo \in {0, 1} /\ (lo = 1 => k > 1) /\ hi \in {0, 1} /\ (hi = 1 => k <= n)
  BY DEF Below, Above
<1>3. new = [r \in 1 .. m |-> IF r < g THEN list[r] ELSE IF r = g THEN Grown(list, k, b)
                              ELSE list[r - 1 + lo + hi]]
  BY DEF Merged, Grown
<1> HIDE DEF n, lo, hi
<1>4. m \in Nat /\ g \in 1 .. m /\ m <= n + 1 /\ g \in Nat
  BY <1>1, <1>2
<1>5. ASSUME NEW r \in 1 .. m, r < g
      PROVE  r \in 1 .. n /\ r + lo < k /\ new[r] = list[r]
  <2>1. r \in 1 .. n /\ r + lo < k
    BY <1>1, <1>2, <1>5
  <2> QED BY <1>3, <1>5, <2>1
<1>6. ASSUME NEW r \in 1 .. m, r > g
      PROVE  \E q \in 1 .. n : q = r - 1 + lo + hi /\ q >= k + hi /\ new[r] = list[q]
  <2>1. r - 1 + lo + hi \in 1 .. n /\ r - 1 + lo + hi >= k + hi /\ ~(r < g) /\ r # g
    BY <1>1, <1>2, <1>6
  <2> QED BY <1>3, <2>1
<1>7. new[g] = Grown(list, k, b)
  BY <1>3, <1>4
<1>8. ASSUME NEW r \in 1 .. m
      PROVE  new[r] \in Blocks
  <2>1. CASE r < g
    BY <1>5, <2>1, ElementOfSeq DEF n
  <2>2. CASE r = g
    BY <1>7, <2>2, GrownIs
  <2>3. CASE r > g
    BY <1>6, <2>3, ElementOfSeq DEF n
  <2> QED BY <1>4, <2>1, <2>2, <2>3
<1>9. new \in Seq(Blocks) /\ Len(new) = m
  <2>1. new \in [1 .. m -> Blocks]
    <3> HIDE DEF m, g
    <3> QED BY <1>3, <1>8
  <2> HIDE DEF m
  <2> QED BY <1>4, <2>1
<1>10. ASSUME NEW q \in 1 .. n
       PROVE  \/ q + lo < k /\ \E r \in 1 .. m : new[r] = list[q]
              \/ q >= k + hi /\ \E r \in 1 .. m : new[r] = list[q]
              \/ q = k - 1 /\ lo = 1
              \/ q = k /\ hi = 1
  <2>1. CASE q + lo < k
    <3>1. q \in 1 .. m /\ q < g
      BY <1>1, <1>2, <2>1
    <3> QED BY <1>5, <2>1, <3>1
  <2>2. CASE q >= k + hi
    <3>1. q + 1 - lo - hi \in 1 .. m /\ q + 1 - lo - hi > g
          /\ (q + 1 - lo - hi) - 1 + lo + hi = q
      BY <1>1, <1>2, <2>2
    <3> QED BY <1>6, <2>2, <3>1
  <2> QED BY <1>1, <1>2, <2>1, <2>2
<1> HIDE DEF m, g
<1>11. Around(list, k, b, new, g)
  BY <1>5, <1>6, <1>7, <1>9, <1>10 DEF Around, n, lo, hi
<1> QED BY <1>4, <1>9, <1>11 DEF n

\* What insert_block and compact make of a list without touching blocks and a
\* block that is apart from all of them.
Inserted(list, b, new) ==
  /\ new \in Seq(Blocks) /\ Len(new) <= Len(list) + 1
  /\ Spaced(new)
  \* Both ends of its blocks are ends of blocks that were there.
  /\ \A i \in 1 .. Len(new) :
       /\ new[i].addr = b.addr \/ \E j \in 1 .. Len(list) : new[i].addr = list[j].addr
       /\ EndOf(new[i]) = EndOf(b) \/ \E j \in 1 .. Len(list) : EndOf(new[i]) = EndOf(list[j])
  \* No byte is lost.
  /\ \A x \in Nat :
       x \in Bytes(b) \/ (\E j \in 1 .. Len(list) : x \in Bytes(list[j]))
         => \E i \in 1 .. Len(new) : x \in Bytes(new[i])
  \* What is apart from all the blocks stays so, unless it stands where
  \* two of them are joined.
  /\ \A u \in Blocks :
       /\ Apart(b, u)
       /\ \A j \in 1 .. Len(list) : Apart(list[j], u)
       /\ u.size = 0 => \A j \in 1 .. Len(list) :
            /\ EndOf(list[j]) # b.addr
            /\ EndOf(b) = list[j].addr => u.addr # EndOf(b)
       => \A i \in 1 .. Len(new) : Apart(new[i], u)
  \* No empty block comes into being but b itself.
  /\ \A i \in 1 .. Len(new) : new[i].size = 0 =>
       \/ \E j \in 1 .. Len(list) : list[j].size = 0 /\ new[i].addr = list[j].addr
       \/ /\ b.size = 0 /\ new[i].addr = b.addr
          /\ \A j \in 1 .. Len(list) : list[j].addr # b.addr
  /\ (\A j \in 1 .. Len(list) : EndOf(list[j]) # b.addr)
       => \E i \in 1 .. Len(new) : new[i].addr = b.addr

\* insert_block and compact together: no free byte is lost or gained but those of b.
LEMMA InsertIs ==
  ASSUME NEW list \in Seq(Blocks), NEW b \in Blocks, Spaced(list), FitsIn(list, b),
         NEW new, new = Compact(InsertBlock(list, b))
  PROVE  Inserted(list, b, new)
<1>1. PICK k \in 1 .. Len(list) + 1 :
        Belongs(list, k, b) /\ InsertBlock(list, b) = InsertAt(list, k, b)
  BY InsertBlockIs
<1>2. k \in Nat /\ Len(list) \in Nat
  BY LenProperties
<1>3. new = Merged(list, k, b)
  BY <1>1, <1>2, CompactIs
<1> DEFINE lo == Below(list, k, b)
           hi == Above(list, k, b)
           G == Grown(list, k, b)
<1>4. /\ new \in Seq(Blocks) /\ Len(new) <= Len(list) + 1 /\ Len(new) \in Nat
      /\ \E g \in 1 .. Len(new) : Around(list, k, b, new, g)
  BY <1>1, <1>2, <1>3, MergedIs, LenProperties
<1>5. PICK g \in 1 .. Len(new) :
        /\ new[g] = G
        /\ \A r \in 1 .. Len(new) : r < g =>
             r \in 1 .. Len(list) /\ r + lo < k /\ new[r] = list[r]
        /\ \A r \in 1 .. Len(new) : r > g =>
             \E q \in 1 .. Len(list) :
               q = r - 1 + lo + hi /\ q >= k + hi /\ new[r] = list[q]
        /\ \A q \in 1 .. Len(list) :
             \/ q + lo < k /\ \E r \in 1 .. Len(new) : new[r] = list[q]
             \/ q >= k + hi /\ \E r \in 1 .. Len(new) : new[r] = list[q]
             \/ q = k - 1 /\ lo = 1
             \/ q = k /\ hi = 1
  <2>1. PICK g \in 1 .. Len(new) : Around(list, k, b, new, g)
    BY <1>4
  <2> QED BY <2>1 DEF Around
<1>6. /\ G \in Blocks /\ G.addr <= b.addr /\ EndOf(b) <= EndOf(G)
      /\ IF lo = 1
           THEN k - 1 \in 1 .. Len(list) /\ EndOf(list[k - 1]) = b.addr /\ G.addr = list[k - 1].addr
           ELSE G.addr = b.addr
      /\ IF hi = 1
           THEN k \in 1 .. Len(list) /\ list[k].addr = EndOf(b) /\ EndOf(G) = EndOf(list[k])
           ELSE EndOf(G) = EndOf(b)
  BY <1>1, <1>2, GrownIs
<1>7. lo \in {0, 1} /\ hi \in {0, 1}
  BY DEF Below, Above
<1>b. /\ b.addr \in Nat /\ b.size \in Nat /\ EndOf(b) \in Nat /\ b.addr <= EndOf(b)
      /\ (b.size = 0 <=> EndOf(b) = b.addr)
  BY BlockIs
<1>g. /\ G.addr \in Nat /\ EndOf(G) \in Nat /\ G.addr <= EndOf(G)
      /\ (G.size = 0 <=> EndOf(G) = G.addr)
  BY <1>6, BlockIs
<1> HIDE DEF lo, hi, G
\* Entries of the list before and behind the grown block.
<1>8. ASSUME NEW q \in 1 .. Len(list), q + lo < k
      PROVE  EndOf(list[q]) < G.addr
  <2>1. EndOf(list[q]) \in Nat /\ EndOf(list[q]) <= b.addr
    BY <1>1, <1>2, <1>7, <1>8, EntryIs DEF Belongs
  <2>2. CASE lo = 1
    <3>1. q < k - 1 /\ k - 1 \in 1 .. Len(list)
      BY <1>2, <1>6, <1>8, <2>2
    <3> QED BY <1>6, <2>2, <3>1 DEF Spaced
  <2>3. CASE lo = 0
    <3>1. EndOf(list[q]) # b.addr
      <4>1. CASE q = k - 1
        BY <1>1, <1>2, <2>3, <4>1 DEF Below, lo
      <4>2. CASE q < k - 1
        <5>1. k - 1 \in 1 .. Len(list)
          BY <1>1, <1>2, <4>2
        <5>2. EndOf(list[q]) < list[k - 1].addr /\ EndOf(list[k - 1]) <= b.addr
          BY <1>1, <1>2, <4>2, <5>1 DEF Spaced, Belongs
        <5>3. list[k - 1].addr \in Nat /\ EndOf(list[k - 1]) \in Nat
              /\ list[k - 1].addr <= EndOf(list[k - 1])
          BY <5>1, EntryIs
        <5> QED BY <1>b, <2>1, <5>2, <5>3
      <4> QED BY <1>2, <1>8, <2>3, <4>1, <4>2
    <3> QED BY <1>6, <1>b, <2>1, <2>3, <3>1
  <2> QED BY <1>7, <2>2, <2>3
<1>9. ASSUME NEW q \in 1 .. Len(list), q >= k + hi
      PROVE  EndOf(G) < list[q].addr
  <2>1. list[q].addr \in Nat /\ EndOf(b) <= list[q].addr
    BY <1>1, <1>2, <1>7, <1>9, EntryIs DEF Belongs
  <2>2. CASE hi = 1
    <3>1. q > k /\ k \in 1 .. Len(list)
      BY <1>2, <1>6, <1>9, <2>2
    <3> QED BY <1>6, <2>2, <3>1 DEF Spaced
  <2>3. CASE hi = 0
    <3>1. EndOf(b) # list[q].addr
      <4>1. CASE q = k
        BY <1>1, <1>2, <2>3, <4>1 DEF Above, hi
      <4>2. CASE q > k
        <5>1. k \in 1 .. Len(list)
          BY <1>1, <1>2, <4>2
        <5>2. EndOf(list[k]) < list[q].addr /\ EndOf(b) <= list[k].addr
          BY <1>1, <1>2, <4>2, <5>1 DEF Spaced, Belongs
        <5>3. list[k].addr \in Nat /\ EndOf(list[k]) \in Nat
              /\ list[k].addr <= EndOf(list[k])
          BY <5>1, EntryIs
        <5> QED BY <1>b, <2>1, <5>2, <5>3
      <4> QED BY <1>2, <1>9, <2>3, <4>1, <4>2
    <3> QED BY <1>6, <1>b, <2>1, <2>3, <3>1
  <2> QED BY <1>7, <2>2, <2>3
\* Every entry is the grown block or one that was there.
<1>10. ASSUME NEW i \in 1 .. Len(new)
       PROVE  \/ new[i] = G
              \/ \E q \in 1 .. Len(list) : new[i] = list[q] /\ (q + lo < k \/ q >= k + hi)
  BY <1>4, <1>5
<1>11. Spaced(new)
  <2> SUFFICES ASSUME NEW i \in 1 .. Len(new), NEW j \in 1 .. Len(new), i < j
               PROVE  EndOf(new[i]) < new[j].addr
    BY DEF Spaced
  <2>1. CASE j < g
    <3>1. i \in 1 .. Len(list) /\ new[i] = list[i] /\ j \in 1 .. Len(list) /\ new[j] = list[j]
      BY <1>5, <2>1
    <3> QED BY <3>1 DEF Spaced
  <2>2. CASE j = g
    BY <1>5, <1>8, <2>2
  <2>3. CASE j > g
    <3>1. PICK q \in 1 .. Len(list) : q = j - 1 + lo + hi /\ q >= k + hi /\ new[j] = list[q]
      BY <1>5, <2>3
    <3>2. CASE i < g
      <4>1. EndOf(new[i]) < G.addr /\ EndOf(G) < new[j].addr
        BY <1>5, <1>8, <1>9, <3>1, <3>2
      <4>2. EndOf(new[i]) \in Nat /\ new[j].addr \in Nat
        BY <1>4, EntryIs
      <4> QED BY <1>g, <4>1, <4>2
    <3>3. CASE i = g
      BY <1>5, <1>9, <3>1, <3>3
    <3>4. CASE i > g
      <4>1. PICK p \in 1 .. Len(list) : p = i - 1 + lo + hi /\ p >= k + hi /\ new[i] = list[p]
        BY <1>5, <3>4
      <4>2. p < q
        BY SMTT(30), <1>7, <3>1, <4>1
      <4> QED BY <3>1, <4>1, <4>2 DEF Spaced
    <3> QED BY <3>2, <3>3, <3>4
  <2> QED BY <2>1, <2>2, <2>3
<1>12. ASSUME NEW i \in 1 .. Len(new)
       PROVE  /\ new[i].addr = b.addr \/ \E j \in 1 .. Len(list) : new[i].addr = list[j].addr
              /\ EndOf(new[i]) = EndOf(b) \/ \E j \in 1 .. Len(list) : EndOf(new[i]) = EndOf(list[j])
  BY <1>6, <1>7, <1>10
<1>13. ASSUME NEW x \in Nat,
              x \in Bytes(b) \/ \E j \in 1 .. Len(list) : x \in Bytes(list[j])
       PROVE  \E i \in 1 .. Len(new) : x \in Bytes(new[i])
  <2>1. ASSUME G.addr <= x, x < EndOf(G)
        PROVE  \E i \in 1 .. Len(new) : x \in Bytes(new[i])
    BY <1>5, <1>g, <2>1 DEF Bytes
  <2>2. CASE x \in Bytes(b)
    BY <1>6, <1>b, <1>g, <2>1, <2>2 DEF Bytes
  <2>3. ASSUME NEW q \in 1 .. Len(list), x \in Bytes(list[q])
        PROVE  \E i \in 1 .. Len(new) : x \in Bytes(new[i])
    <3>1. list[q].addr <= x /\ x < EndOf(list[q]) /\ list[q].addr \in Nat /\ EndOf(list[q]) \in Nat
      BY <2>3, EntryIs DEF Bytes
    <3>2. CASE \E r \in 1 .. Len(new) : new[r] = list[q]
      BY <2>3, <3>2
    <3>3. CASE q = k - 1 /\ lo = 1
      BY SMTT(30), <1>6, <1>b, <1>g, <2>1, <3>1, <3>3
    <3>4. CASE q = k /\ hi = 1
      BY SMTT(30), <1>6, <1>b, <1>g, <2>1, <3>1, <3>4
    <3> QED BY <1>5, <3>2, <3>3, <3>4
  <2> QED BY <1>13, <2>2, <2>3
<1>14. ASSUME NEW u \in Blocks, Apart(b, u), \A j \in 1 .. Len(list) : Apart(list[j], u),
              u.size = 0 => \A j \in 1 .. Len(list) :
                /\ EndOf(list[j]) # b.addr
                /\ EndOf(b) = list[j].addr => u.addr # EndOf(b),
              NEW i \in 1 .. Len(new)
       PROVE  Apart(new[i], u)
  <2>u. /\ u.addr \in Nat /\ EndOf(u) \in Nat /\ u.addr <= EndOf(u)
        /\ (u.size = 0 <=> EndOf(u) = u.addr)
    BY BlockIs
  <2>1. CASE \E q \in 1 .. Len(list) : new[i] = list[q]
    BY <1>14, <2>1
  <2>2. CASE new[i] = G
    <3>1. lo = 1 => Apart(list[k - 1], u) /\ EndOf(list[k - 1]) = b.addr
                    /\ G.addr = list[k - 1].addr /\ u.size # 0
      BY <1>6, <1>14
    <3>2. hi = 1 => Apart(list[k], u) /\ EndOf(b) = list[k].addr
                    /\ EndOf(G) = EndOf(list[k]) /\ (u.size = 0 => u.addr # EndOf(b))
      BY <1>6, <1>14
    <3>3. EndOf(u) <= G.addr \/ b.addr <= u.addr
      BY SMTT(30), <1>6, <1>14, <1>b, <1>g, <2>u, <3>1 DEF Apart
    <3>4. EndOf(G) <= u.addr \/ EndOf(u) <= EndOf(b)
      BY <1>6, <1>14, <1>b, <1>g, <2>u, <3>2 DEF Apart
    <3>5. EndOf(u) <= b.addr \/ EndOf(b) <= u.addr
      BY <1>14 DEF Apart
    <3>6. EndOf(u) <= G.addr \/ EndOf(G) <= u.addr
      <4>1. CASE lo = 1 \/ hi = 1
        BY SMTT(30), <1>6, <1>7, <1>b, <1>g, <2>u, <3>1, <3>2, <3>3, <3>4, <3>5, <4>1
      <4>2. CASE lo = 0 /\ hi = 0
        BY <1>6, <3>5, <4>2
      <4> QED BY <1>7, <4>1, <4>2
    <3> QED BY <2>2, <3>6 DEF Apart
  <2> QED BY <1>10, <2>1, <2>2
<1>15. ASSUME NEW i \in 1 .. Len(new), new[i].size = 0
       PROVE  \/ \E j \in 1 .. Len(list) : list[j].size = 0 /\ new[i].addr = list[j].addr
              \/ /\ b.size = 0 /\ new[i].addr = b.addr
                 /\ \A j \in 1 .. Len(list) : list[j].addr # b.addr
  <2>1. CASE \E q \in 1 .. Len(list) : new[i] = list[q]
    BY <1>15, <2>1
  <2>2. CASE new[i] = G
    <3>1. G.addr = b.addr /\ b.addr = EndOf(b) /\ EndOf(G) = G.addr
      BY <1>6, <1>15, <1>b, <1>g, <2>2
    <3>2. CASE lo = 1
      <4>1. k - 1 \in 1 .. Len(list) /\ list[k - 1].addr = EndOf(list[k - 1])
        BY <1>6, <3>1, <3>2
      <4> QED BY <1>6, <2>2, <3>2, <4>1, BlockIs, ElementOfSeq
    <3>3. CASE hi = 1
      <4>1. k \in 1 .. Len(list) /\ list[k].addr = EndOf(list[k]) /\ list[k].addr = G.addr
        BY <1>6, <3>1, <3>3
      <4> QED BY <2>2, <4>1, BlockIs, ElementOfSeq
    <3>4. CASE lo = 0 /\ hi = 0
      <4>1. ASSUME NEW j \in 1 .. Len(list)
            PROVE  list[j].addr # b.addr
        <5>1. j + lo < k \/ j >= k + hi
          BY <1>2, <3>4
        <5> QED BY <1>8, <1>9, <3>1, <5>1, <1>b, EntryIs
      <4> QED BY <1>b, <2>2, <3>1, <4>1
    <3> QED BY <1>7, <3>2, <3>3, <3>4
  <2> QED BY <1>10, <2>1, <2>2
<1>16. ASSUME \A j \in 1 .. Len(list) : EndOf(list[j]) # b.addr
       PROVE  \E i \in 1 .. Len(new) : new[i].addr = b.addr
  BY <1>5, <1>6, <1>16
<1> QED BY <1>4, <1>11, <1>12, <1>13, <1>14, <1>15, <1>16 DEF Inserted

-----------------------------------------------------------------------------
(* The invariant of the heap record.                                       *)

\* malloc_check.
Conserved(h) == Len(h.free) + Len(h.used) + h.fresh = MaxBlocks

\* An empty block of the free list stands at the top, where the next request
\* takes it, so that no block in use begins at its address.
FreeSound(free, top) ==
  /\ Spaced(free)
  /\ \A i \in 1 .. Len(free) :
       /\ Base <= free[i].addr /\ EndOf(free[i]) <= top
       /\ free[i].size = 0 => free[i].addr = top

\* An empty block in use stands where it will be merged, or at the top.
UsedSound(free, used, top) ==
  \A i \in 1 .. Len(used) :
    /\ Base <= used[i].addr /\ EndOf(used[i]) <= top
    /\ used[i].size = 0 =>
         used[i].addr = top \/ \E j \in 1 .. Len(free) : free[j].addr = used[i].addr

UsedApart(used) == \A i, j \in 1 .. Len(used) : i # j => Apart(used[i], used[j])
FreeApart(free, used) ==
  \A i \in 1 .. Len(free), j \in 1 .. Len(used) : Apart(free[i], used[j])

Covered(free, used, top) ==
  \A x \in Nat : Base <= x /\ x < top =>
    \/ \E i \in 1 .. Len(free) : x \in Bytes(free[i])
    \/ \E j \in 1 .. Len(used) : x \in Bytes(used[j])

SoundLists(free, used, top) ==
  /\ free \in Seq(Blocks) /\ used \in Seq(Blocks)
  /\ top \in Nat /\ Base <= top /\ top <= Limit
  /\ FreeSound(free, top) /\ UsedSound(free, used, top)
  /\ UsedApart(used) /\ FreeApart(free, used) /\ Covered(free, used, top)

HeapRecord == [free : Seq(Blocks), used : Seq(Blocks), fresh : Int, top : Int]

SoundHeap(h) ==
  /\ h \in HeapRecord /\ h.fresh >= 0
  /\ Conserved(h)
  /\ SoundLists(h.free, h.used, h.top)

AllSolid(used) == \A i \in 1 .. Len(used) : used[i].size > 0

\* What RemoveAt leaves, by position and as a whole.
IsRest(list, i, rest) ==
  /\ rest \in Seq(Blocks) /\ Len(rest) = Len(list) - 1
  /\ \A p \in 1 .. Len(rest) : \E q \in 1 .. Len(list) :
       q # i /\ rest[p] = list[q] /\ q = IF p < i THEN p ELSE p + 1
  /\ \A q \in 1 .. Len(list) : q # i => \E p \in 1 .. Len(rest) : rest[p] = list[q]
  /\ Spaced(list) => Spaced(rest)

\* RemoveAt takes one block away and keeps the order of the others.
LEMMA RestIs ==
  ASSUME NEW list \in Seq(Blocks), NEW i \in 1 .. Len(list), NEW rest, rest = RemoveAt(list, i)
  PROVE  IsRest(list, i, rest)
<1>1. /\ rest \in Seq(Blocks) /\ Len(rest) = Len(list) - 1 /\ Len(list) \in Nat
      /\ \A p \in 1 .. Len(list) - 1 : rest[p] = IF p < i THEN list[p] ELSE list[p + 1]
  BY RemoveAtIs, LenProperties
<1>2. ASSUME NEW p \in 1 .. Len(rest)
      PROVE  \E q \in 1 .. Len(list) :
               q # i /\ rest[p] = list[q] /\ q = IF p < i THEN p ELSE p + 1
  <2>1. CASE p < i
    BY <1>1, <2>1
  <2>2. CASE p >= i
    <3>1. p + 1 \in 1 .. Len(list) /\ p + 1 # i /\ ~(p < i)
      BY <1>1, <2>2
    <3> QED BY <1>1, <3>1
  <2> QED BY <1>1, <2>1, <2>2
<1>3. ASSUME NEW q \in 1 .. Len(list), q # i
      PROVE  \E p \in 1 .. Len(rest) : rest[p] = list[q]
  <2>1. CASE q < i
    BY <1>1, <2>1
  <2>2. CASE q > i
    <3>1. q - 1 \in 1 .. Len(rest) /\ ~(q - 1 < i) /\ q - 1 + 1 = q
      BY <1>1, <2>2
    <3> QED BY <1>1, <3>1
  <2> QED BY <1>1, <1>3, <2>1, <2>2
<1>4. ASSUME Spaced(list)
      PROVE  Spaced(rest)
  <2> SUFFICES ASSUME NEW p \in 1 .. Len(rest), NEW r \in 1 .. Len(rest), p < r
               PROVE  EndOf(rest[p]) < rest[r].addr
    BY DEF Spaced
  <2>1. PICK q \in 1 .. Len(list) : rest[p] = list[q] /\ q = IF p < i THEN p ELSE p + 1
    BY <1>2
  <2>2. PICK t \in 1 .. Len(list) : rest[r] = list[t] /\ t = IF r < i THEN r ELSE r + 1
    BY <1>2
  <2>3. q < t
    BY <1>1, <2>1, <2>2
  <2> QED BY <1>4, <2>1, <2>2, <2>3 DEF Spaced
<1> QED BY <1>1, <1>2, <1>3, <1>4 DEF IsRest

\* Pushing a block on the list of used ones.
IsPushed(list, b, used) ==
  /\ used \in Seq(Blocks) /\ Len(used) = Len(list) + 1
  /\ 1 \in 1 .. Len(used) /\ used[1] = b
  /\ \A p \in 1 .. Len(used) : p # 1 =>
       \E q \in 1 .. Len(list) : used[p] = list[q] /\ q = p - 1
  /\ \A q \in 1 .. Len(list) : \E p \in 1 .. Len(used) : used[p] = list[q]

\* The block put in front of the used list is the newest, and the others follow.
LEMMA UsedIs ==
  ASSUME NEW list \in Seq(Blocks), NEW b \in Blocks, NEW used, used = <<b>> \o list
  PROVE  IsPushed(list, b, used)
<1>1. /\ used \in Seq(Blocks) /\ Len(used) = Len(list) + 1 /\ Len(list) \in Nat
      /\ \A i \in 1 .. Len(list) + 1 : used[i] = IF i = 1 THEN b ELSE list[i - 1]
  BY PushIs, LenProperties
<1>2. ASSUME NEW p \in 1 .. Len(used), p # 1
      PROVE  \E q \in 1 .. Len(list) : used[p] = list[q] /\ q = p - 1
  <2>1. p - 1 \in 1 .. Len(list)
    BY <1>1, <1>2
  <2> QED BY <1>1, <1>2, <2>1
<1>3. ASSUME NEW q \in 1 .. Len(list)
      PROVE  \E p \in 1 .. Len(used) : used[p] = list[q]
  <2>1. q + 1 \in 1 .. Len(used) /\ q + 1 # 1 /\ q + 1 - 1 = q
    BY <1>1
  <2> QED BY <1>1, <2>1
<1>4. 1 \in 1 .. Len(used) /\ used[1] = b
  <2>1. 1 \in 1 .. Len(list) + 1
    BY <1>1
  <2> QED BY <1>1, <2>1
<1> QED BY <1>1, <1>2, <1>3, <1>4 DEF IsPushed

\* A new block in use that is apart from all the others leaves those apart.
LEMMA PushApart ==
  ASSUME NEW list \in Seq(Blocks), NEW b \in Blocks, NEW used, used = <<b>> \o list,
         UsedApart(list), \A j \in 1 .. Len(list) : Apart(b, list[j])
  PROVE  UsedApart(used)
<1> USE DEF UsedApart
<1> SUFFICES ASSUME NEW i \in 1 .. Len(used), NEW j \in 1 .. Len(used), i # j
             PROVE  Apart(used[i], used[j])
  OBVIOUS
<1>1. used[1] = b /\ Len(used) \in Nat
  BY UsedIs, LenProperties DEF IsPushed
<1>2. CASE i = 1
  <2>1. PICK q \in 1 .. Len(list) : used[j] = list[q]
    BY <1>2, UsedIs DEF IsPushed
  <2> QED BY <1>1, <1>2, <2>1
<1>3. CASE j = 1
  <2>1. PICK q \in 1 .. Len(list) : used[i] = list[q]
    BY <1>3, UsedIs DEF IsPushed
  <2> QED BY <1>1, <1>3, <2>1 DEF Apart
<1>4. CASE i # 1 /\ j # 1
  <2>1. PICK p \in 1 .. Len(list) : used[i] = list[p] /\ p = i - 1
    BY <1>4, UsedIs DEF IsPushed
  <2>2. PICK q \in 1 .. Len(list) : used[j] = list[q] /\ q = j - 1
    BY <1>4, UsedIs DEF IsPushed
  <2>3. p # q
    BY <1>1, <2>1, <2>2
  <2> QED BY <2>1, <2>2, <2>3
<1> QED BY <1>2, <1>3, <1>4

\* RoundUp gives at least what was asked for and never wraps, when the request
\* does not.
LEMMA RoundUpIs ==
  ASSUME NEW n \in Nat, n + Alignment + Limit < WordSize
  PROVE  /\ RoundUp(n) \in Nat /\ n <= RoundUp(n)
         /\ RoundUp(n) + Limit < WordSize
<1> DEFINE sum == n + Alignment - 1
<1>1. sum \in Nat /\ sum < WordSize /\ WordSize \in Nat
  BY LayoutAssumption
<1>2. sum % WordSize = sum
  <2> HIDE DEF sum
  <2> QED BY <1>1
<1>3. sum % Alignment \in 0 .. Alignment - 1
  <2> HIDE DEF sum
  <2> QED BY <1>1, LayoutAssumption
<1>4. RoundUp(n) = sum - (sum % Alignment)
  BY <1>2 DEF RoundUp
<1> QED BY <1>1, <1>3, <1>4, LayoutAssumption

-----------------------------------------------------------------------------
(* Every function keeps a heap sound.                                      *)

\* The blocks of a list without touching blocks lie apart.
LEMMA SpacedApart ==
  ASSUME NEW list \in Seq(Blocks), Spaced(list),
         NEW i \in 1 .. Len(list), NEW j \in 1 .. Len(list), i # j
  PROVE  /\ i < j => EndOf(list[i]) < list[j].addr
         /\ i > j => EndOf(list[j]) < list[i].addr
         /\ i < j \/ i > j
         /\ Apart(list[i], list[j])
<1>1. /\ i < j => EndOf(list[i]) < list[j].addr
      /\ i > j => EndOf(list[j]) < list[i].addr
  BY DEF Spaced
<1>2. /\ EndOf(list[i]) \in Nat /\ list[i].addr \in Nat
      /\ EndOf(list[j]) \in Nat /\ list[j].addr \in Nat
  BY EntryIs
<1>3. i < j \/ i > j
  BY LenProperties
<1> QED BY <1>1, <1>2, <1>3 DEF Apart

\* The blocks of sound lists and their ends.
LEMMA ListEntries ==
  ASSUME NEW free, NEW used, NEW top, SoundLists(free, used, top)
  PROVE  /\ Base \in Nat \ {0} /\ Limit \in Nat
         /\ Len(free) \in Nat /\ Len(used) \in Nat
         /\ \A i \in 1 .. Len(free) :
              /\ free[i] \in Blocks /\ free[i].addr \in Nat /\ free[i].size \in Nat
              /\ EndOf(free[i]) \in Nat /\ free[i].addr <= EndOf(free[i])
              /\ (free[i].size = 0 <=> EndOf(free[i]) = free[i].addr)
              /\ Base <= free[i].addr /\ EndOf(free[i]) <= top
              /\ free[i].size = 0 => free[i].addr = top
         /\ \A i \in 1 .. Len(used) :
              /\ used[i] \in Blocks /\ used[i].addr \in Nat /\ used[i].size \in Nat
              /\ EndOf(used[i]) \in Nat /\ used[i].addr <= EndOf(used[i])
              /\ (used[i].size = 0 <=> EndOf(used[i]) = used[i].addr)
              /\ Base <= used[i].addr /\ EndOf(used[i]) <= top
<1>1. free \in Seq(Blocks) /\ used \in Seq(Blocks)
  BY DEF SoundLists
<1>2. Base \in Nat \ {0} /\ Limit \in Nat /\ Len(free) \in Nat /\ Len(used) \in Nat
  BY <1>1, LayoutAssumption, LenProperties
<1>3. ASSUME NEW i \in 1 .. Len(free)
      PROVE  /\ free[i] \in Blocks /\ free[i].addr \in Nat /\ free[i].size \in Nat
             /\ EndOf(free[i]) \in Nat /\ free[i].addr <= EndOf(free[i])
             /\ (free[i].size = 0 <=> EndOf(free[i]) = free[i].addr)
             /\ Base <= free[i].addr /\ EndOf(free[i]) <= top
             /\ free[i].size = 0 => free[i].addr = top
  BY <1>1, ElementOfSeq, BlockIs DEF SoundLists, FreeSound
<1>4. ASSUME NEW i \in 1 .. Len(used)
      PROVE  /\ used[i] \in Blocks /\ used[i].addr \in Nat /\ used[i].size \in Nat
             /\ EndOf(used[i]) \in Nat /\ used[i].addr <= EndOf(used[i])
             /\ (used[i].size = 0 <=> EndOf(used[i]) = used[i].addr)
             /\ Base <= used[i].addr /\ EndOf(used[i]) <= top
  BY <1>1, ElementOfSeq, BlockIs DEF SoundLists, UsedSound
<1> QED BY <1>2, <1>3, <1>4

\* A block at the top is cut or stretched.
LEMMA CutTop ==
  ASSUME NEW free, NEW used, NEW top, SoundLists(free, used, top), AllSolid(used),
         NEW i \in 1 .. Len(free), NEW num \in Nat,
         EndOf(free[i]) >= top, free[i].addr + num <= Limit,
         NEW newfree, newfree = RemoveAt(free, i),
         NEW newused, newused = <<Block(free[i].addr, num)>> \o used
  PROVE  SoundLists(newfree, newused, free[i].addr + num)
<1> DEFINE b == free[i]
           c == Block(b.addr, num)
           newtop == b.addr + num
<1>0. /\ b.addr \in Nat /\ EndOf(b) \in Nat /\ EndOf(b) = top /\ b.addr <= top /\ Base <= b.addr
      /\ top \in Nat /\ Base \in Nat /\ Limit \in Nat
      /\ free \in Seq(Blocks) /\ used \in Seq(Blocks)
  BY ListEntries DEF SoundLists
<1>c. c \in Blocks /\ c.addr = b.addr /\ c.size = num /\ EndOf(c) = newtop
  BY <1>0, MadeBlockIs
<1> HIDE DEF c
<1>1. newused = <<c>> \o used
  BY DEF c
<1>2. /\ newfree \in Seq(Blocks)
      /\ \A p \in 1 .. Len(newfree) : \E q \in 1 .. Len(free) : q # i /\ newfree[p] = free[q]
      /\ \A q \in 1 .. Len(free) : q # i => \E p \in 1 .. Len(newfree) : newfree[p] = free[q]
      /\ Spaced(newfree)
  <2>1. IsRest(free, i, newfree)
    BY <1>0, RestIs
  <2>2. Spaced(free)
    BY DEF SoundLists, FreeSound
  <2> QED BY <2>1, <2>2 DEF IsRest
<1>3. /\ newused \in Seq(Blocks) /\ newused[1] = c /\ 1 \in 1 .. Len(newused)
      /\ \A p \in 1 .. Len(newused) : p # 1 => \E q \in 1 .. Len(used) : newused[p] = used[q]
      /\ \A q \in 1 .. Len(used) : \E p \in 1 .. Len(newused) : newused[p] = used[q]
  <2>1. IsPushed(used, c, newused)
    BY <1>0, <1>1, <1>c, UsedIs
  <2> QED BY <2>1 DEF IsPushed
\* Nothing else reaches behind the beginning of the block.
<1>4. ASSUME NEW q \in 1 .. Len(free), q # i
      PROVE  EndOf(free[q]) < b.addr /\ EndOf(free[q]) \in Nat /\ free[q].addr \in Nat
             /\ free[q].addr <= EndOf(free[q])
             /\ Base <= free[q].addr /\ free[q].size # 0
  <2>1. /\ EndOf(free[q]) \in Nat /\ free[q].addr \in Nat
        /\ free[q].addr <= EndOf(free[q]) /\ EndOf(free[q]) <= top /\ Base <= free[q].addr
        /\ free[q].size = 0 => free[q].addr = top
    BY ListEntries
  <2>2. q < i
    <3>1. CASE q > i
      <4>1. EndOf(b) < free[q].addr
        BY <3>1 DEF SoundLists, FreeSound, Spaced
      <4> QED BY <1>0, <2>1, <4>1
    <3> QED BY <1>0, <1>4, <3>1, LenProperties
  <2>3. EndOf(free[q]) < b.addr
    BY <2>2 DEF SoundLists, FreeSound, Spaced
  <2> QED BY SMTT(30), <1>0, <2>1, <2>3
<1>5. ASSUME NEW q \in 1 .. Len(used)
      PROVE  /\ EndOf(used[q]) <= b.addr /\ EndOf(used[q]) \in Nat /\ used[q].addr \in Nat
             /\ used[q].addr <= EndOf(used[q])
             /\ Base <= used[q].addr /\ used[q].size # 0
  <2>1. /\ EndOf(used[q]) \in Nat /\ used[q].addr \in Nat /\ used[q].size \in Nat
        /\ used[q].addr <= EndOf(used[q]) /\ EndOf(used[q]) <= top /\ Base <= used[q].addr
        /\ (used[q].size = 0 <=> EndOf(used[q]) = used[q].addr)
    BY ListEntries
  <2>2. used[q].size > 0
    BY DEF AllSolid
  <2>3. EndOf(b) <= used[q].addr \/ EndOf(used[q]) <= b.addr
    BY DEF SoundLists, FreeApart, Apart
  <2> QED BY SMTT(30), <1>0, <2>1, <2>2, <2>3
<1>6. FreeSound(newfree, newtop)
  <2> SUFFICES ASSUME NEW p \in 1 .. Len(newfree)
               PROVE  /\ Base <= newfree[p].addr /\ EndOf(newfree[p]) <= newtop
                      /\ newfree[p].size # 0
    BY <1>2 DEF FreeSound
  <2>1. PICK q \in 1 .. Len(free) : q # i /\ newfree[p] = free[q]
    BY <1>2
  <2>2. /\ EndOf(free[q]) < b.addr /\ EndOf(free[q]) \in Nat
        /\ Base <= free[q].addr /\ free[q].size # 0
    BY <1>4, <2>1
  <2> QED BY SMTT(30), <1>0, <2>1, <2>2
<1>7. UsedSound(newfree, newused, newtop)
  <2> SUFFICES ASSUME NEW p \in 1 .. Len(newused)
               PROVE  /\ Base <= newused[p].addr /\ EndOf(newused[p]) <= newtop
                      /\ newused[p].size = 0 => newused[p].addr = newtop
    BY DEF UsedSound
  <2>1. CASE p = 1
    <3>1. newused[p] = c
      BY <1>3, <2>1
    <3> QED BY SMTT(30), <1>0, <1>c, <3>1
  <2>2. CASE p # 1
    <3>1. PICK q \in 1 .. Len(used) : newused[p] = used[q]
      BY <1>3, <2>2
    <3>2. /\ EndOf(used[q]) <= b.addr /\ EndOf(used[q]) \in Nat
          /\ Base <= used[q].addr /\ used[q].size # 0
      BY <1>5
    <3>3. b.addr \in Nat /\ newtop \in Nat /\ b.addr <= newtop
      BY SMTT(30), <1>0
    <3> HIDE DEF b, newtop
    <3>4. EndOf(used[q]) <= newtop
      BY <3>2, <3>3
    <3> QED BY <3>1, <3>2, <3>4
  <2> QED BY <2>1, <2>2
<1>8. UsedApart(newused)
  <2>1. \A q \in 1 .. Len(used) : Apart(c, used[q])
    BY <1>5, <1>c DEF Apart
  <2> QED BY <1>0, <1>1, <1>c, <2>1, PushApart DEF SoundLists
<1>9. FreeApart(newfree, newused)
  <2> SUFFICES ASSUME NEW p \in 1 .. Len(newfree), NEW q \in 1 .. Len(newused)
               PROVE  Apart(newfree[p], newused[q])
    BY DEF FreeApart
  <2>1. PICK r \in 1 .. Len(free) : r # i /\ newfree[p] = free[r]
    BY <1>2
  <2>2. CASE q = 1
    BY SMTT(30), <1>0, <1>3, <1>4, <1>c, <2>1, <2>2 DEF Apart
  <2>3. CASE q # 1
    BY <1>3, <2>1, <2>3 DEF SoundLists, FreeApart
  <2> QED BY <2>2, <2>3
<1>10. Covered(newfree, newused, newtop)
  <2> SUFFICES ASSUME NEW x \in Nat, Base <= x, x < newtop
               PROVE  \/ \E p \in 1 .. Len(newfree) : x \in Bytes(newfree[p])
                      \/ \E q \in 1 .. Len(newused) : x \in Bytes(newused[q])
    BY DEF Covered
  <2>1. CASE x >= b.addr
    <3>1. x \in Bytes(c)
      BY <1>0, <1>c, <2>1 DEF Bytes
    <3> QED BY <1>3, <3>1
  <2>2. CASE x < b.addr
    <3>1. x < top /\ x \notin Bytes(b)
      BY <1>0, <2>2 DEF Bytes
    <3>2. \/ \E p \in 1 .. Len(free) : x \in Bytes(free[p])
          \/ \E q \in 1 .. Len(used) : x \in Bytes(used[q])
      BY <3>1 DEF SoundLists, Covered
    <3>3. ASSUME NEW p \in 1 .. Len(free), x \in Bytes(free[p])
          PROVE  \E r \in 1 .. Len(newfree) : x \in Bytes(newfree[r])
      BY <1>2, <3>1, <3>3
    <3> QED BY <1>3, <3>2, <3>3
  <2> QED BY <1>0, <2>1, <2>2
<1>11. newtop \in Nat /\ Base <= newtop /\ newtop <= Limit
  BY <1>0
<1> QED BY <1>2, <1>3, <1>6, <1>7, <1>8, <1>9, <1>10, <1>11 DEF SoundLists

\* A new block in use behind the top.
LEMMA PushTop ==
  ASSUME NEW free, NEW used, NEW top, SoundLists(free, used, top), AllSolid(used),
         NEW num \in Nat, top + num <= Limit,
         \A i \in 1 .. Len(free) : EndOf(free[i]) < top,
         NEW newused, newused = <<Block(top, num)>> \o used
  PROVE  SoundLists(free, newused, top + num)
<1> DEFINE c == Block(top, num)
           newtop == top + num
<1>0. /\ top \in Nat /\ Base \in Nat /\ Limit \in Nat /\ Base <= top
      /\ free \in Seq(Blocks) /\ used \in Seq(Blocks)
  BY ListEntries DEF SoundLists
<1>c. c \in Blocks /\ c.addr = top /\ c.size = num /\ EndOf(c) = newtop
  BY <1>0, MadeBlockIs
<1> HIDE DEF c
<1>1. newused = <<c>> \o used
  BY DEF c
<1>3. /\ newused \in Seq(Blocks) /\ newused[1] = c /\ 1 \in 1 .. Len(newused)
      /\ \A p \in 1 .. Len(newused) : p # 1 => \E q \in 1 .. Len(used) : newused[p] = used[q]
      /\ \A q \in 1 .. Len(used) : \E p \in 1 .. Len(newused) : newused[p] = used[q]
  <2>1. IsPushed(used, c, newused)
    BY <1>0, <1>1, <1>c, UsedIs
  <2> QED BY <2>1 DEF IsPushed
<1>4. newtop \in Nat /\ top <= newtop /\ newtop <= Limit
  BY <1>0
<1> HIDE DEF newtop
<1>5. ASSUME NEW q \in 1 .. Len(free)
      PROVE  /\ Base <= free[q].addr /\ EndOf(free[q]) <= newtop /\ free[q].size # 0
             /\ EndOf(free[q]) <= top /\ EndOf(free[q]) \in Nat
  <2>1. /\ EndOf(free[q]) \in Nat /\ free[q].addr \in Nat /\ Base <= free[q].addr
        /\ (free[q].size = 0 <=> EndOf(free[q]) = free[q].addr)
        /\ free[q].size = 0 => free[q].addr = top
    BY ListEntries
  <2>2. EndOf(free[q]) < top
    OBVIOUS
  <2> QED BY <1>0, <1>4, <2>1, <2>2
<1>6. FreeSound(free, newtop)
  BY <1>5 DEF FreeSound, SoundLists
<1>7. UsedSound(free, newused, newtop)
  <2> SUFFICES ASSUME NEW p \in 1 .. Len(newused)
               PROVE  /\ Base <= newused[p].addr /\ EndOf(newused[p]) <= newtop
                      /\ newused[p].size = 0 => newused[p].addr = newtop
    BY DEF UsedSound
  <2>1. CASE p = 1
    <3>1. newused[p] = c
      BY <1>3, <2>1
    <3>2. Base <= newused[p].addr /\ newused[p].size = num /\ newused[p].addr = top
      BY <1>0, <1>c, <3>1
    <3>3. EndOf(newused[p]) <= newtop
      BY <1>4, <1>c, <3>1
    <3>4. num = 0 => top = newtop
      BY <1>0 DEF newtop
    <3> QED BY <3>2, <3>3, <3>4
  <2>2. CASE p # 1
    <3>1. PICK q \in 1 .. Len(used) : newused[p] = used[q]
      BY <1>3, <2>2
    <3>2. EndOf(used[q]) <= top /\ EndOf(used[q]) \in Nat /\ Base <= used[q].addr
      BY ListEntries
    <3>3. used[q].size > 0 /\ used[q].size \in Nat
      BY ListEntries DEF AllSolid
    <3>4. EndOf(used[q]) <= newtop /\ used[q].size # 0
      BY SMTT(30), <1>0, <1>4, <3>2, <3>3
    <3> QED BY <3>1, <3>2, <3>4
  <2> QED BY <2>1, <2>2
<1>8. UsedApart(newused)
  <2>1. \A q \in 1 .. Len(used) : Apart(c, used[q])
    BY <1>c, ListEntries DEF Apart
  <2> QED BY <1>0, <1>1, <1>c, <2>1, PushApart DEF SoundLists
<1>9. FreeApart(free, newused)
  <2> SUFFICES ASSUME NEW p \in 1 .. Len(free), NEW q \in 1 .. Len(newused)
               PROVE  Apart(free[p], newused[q])
    BY DEF FreeApart
  <2>1. CASE q = 1
    BY <1>3, <1>5, <1>c, <2>1 DEF Apart
  <2>2. CASE q # 1
    BY <1>3, <2>2 DEF SoundLists, FreeApart
  <2> QED BY <2>1, <2>2
<1>10. Covered(free, newused, newtop)
  <2> SUFFICES ASSUME NEW x \in Nat, Base <= x, x < newtop
               PROVE  \/ \E p \in 1 .. Len(free) : x \in Bytes(free[p])
                      \/ \E q \in 1 .. Len(newused) : x \in Bytes(newused[q])
    BY DEF Covered
  <2>1. CASE x >= top
    <3>1. x \in Bytes(c)
      BY <1>0, <1>4, <1>c, <2>1 DEF Bytes
    <3> QED BY <1>3, <3>1
  <2>2. CASE x < top
    <3>1. \/ \E p \in 1 .. Len(free) : x \in Bytes(free[p])
          \/ \E q \in 1 .. Len(used) : x \in Bytes(used[q])
      BY <2>2 DEF SoundLists, Covered
    <3> QED BY <1>3, <3>1
  <2>3. x >= top \/ x < top
    BY <1>0
  <2> QED BY <2>1, <2>2, <2>3
<1>11. SoundLists(free, newused, newtop)
  BY <1>0, <1>3, <1>4, <1>6, <1>7, <1>8, <1>9, <1>10 DEF SoundLists
<1> QED BY <1>11 DEF newtop

\* A free block goes into use as it is.
LEMMA TakeWhole ==
  ASSUME NEW free, NEW used, NEW top, SoundLists(free, used, top), AllSolid(used),
         NEW i \in 1 .. Len(free), free[i].size > 0,
         NEW newfree, newfree = RemoveAt(free, i),
         NEW newused, newused = <<free[i]>> \o used
  PROVE  SoundLists(newfree, newused, top)
<1> DEFINE b == free[i]
<1>0. /\ b \in Blocks /\ b.addr \in Nat /\ EndOf(b) \in Nat /\ Base <= b.addr /\ EndOf(b) <= top
      /\ top \in Nat /\ Base \in Nat /\ Limit \in Nat /\ b.size # 0
      /\ free \in Seq(Blocks) /\ used \in Seq(Blocks)
  BY ListEntries DEF SoundLists
<1>2. /\ newfree \in Seq(Blocks)
      /\ \A p \in 1 .. Len(newfree) : \E q \in 1 .. Len(free) : q # i /\ newfree[p] = free[q]
      /\ \A q \in 1 .. Len(free) : q # i => \E p \in 1 .. Len(newfree) : newfree[p] = free[q]
      /\ Spaced(newfree)
  <2>1. IsRest(free, i, newfree)
    BY <1>0, RestIs
  <2>2. Spaced(free)
    BY DEF SoundLists, FreeSound
  <2> QED BY <2>1, <2>2 DEF IsRest
<1>3. /\ newused \in Seq(Blocks) /\ newused[1] = b /\ 1 \in 1 .. Len(newused)
      /\ \A p \in 1 .. Len(newused) : p # 1 => \E q \in 1 .. Len(used) : newused[p] = used[q]
      /\ \A q \in 1 .. Len(used) : \E p \in 1 .. Len(newused) : newused[p] = used[q]
  <2>1. IsPushed(used, b, newused)
    BY <1>0, UsedIs
  <2> QED BY <2>1 DEF IsPushed
<1>4. ASSUME NEW q \in 1 .. Len(free), q # i
      PROVE  Apart(free[q], b)
  <2>1. Spaced(free)
    BY DEF SoundLists, FreeSound
  <2> QED BY <1>0, <1>4, <2>1, SpacedApart
<1>6. FreeSound(newfree, top)
  <2> SUFFICES ASSUME NEW p \in 1 .. Len(newfree)
               PROVE  /\ Base <= newfree[p].addr /\ EndOf(newfree[p]) <= top
                      /\ newfree[p].size = 0 => newfree[p].addr = top
    BY <1>2 DEF FreeSound
  <2>1. PICK q \in 1 .. Len(free) : q # i /\ newfree[p] = free[q]
    BY <1>2
  <2> QED BY <2>1, ListEntries
<1>7. UsedSound(newfree, newused, top)
  <2> SUFFICES ASSUME NEW p \in 1 .. Len(newused)
               PROVE  /\ Base <= newused[p].addr /\ EndOf(newused[p]) <= top
                      /\ newused[p].size # 0
    BY DEF UsedSound
  <2>1. CASE p = 1
    BY <1>0, <1>3, <2>1
  <2>2. CASE p # 1
    <3>1. PICK q \in 1 .. Len(used) : newused[p] = used[q]
      BY <1>3, <2>2
    <3>2. EndOf(used[q]) <= top /\ Base <= used[q].addr /\ used[q].size \in Nat
      BY ListEntries
    <3>3. used[q].size # 0
      BY <3>2 DEF AllSolid
    <3> QED BY <3>1, <3>2, <3>3
  <2> QED BY <2>1, <2>2
<1>8. UsedApart(newused)
  <2>1. \A q \in 1 .. Len(used) : Apart(b, used[q])
    BY DEF SoundLists, FreeApart
  <2> QED BY <1>0, <2>1, PushApart DEF SoundLists
<1>9. FreeApart(newfree, newused)
  <2> SUFFICES ASSUME NEW p \in 1 .. Len(newfree), NEW q \in 1 .. Len(newused)
               PROVE  Apart(newfree[p], newused[q])
    BY DEF FreeApart
  <2>1. PICK r \in 1 .. Len(free) : r # i /\ newfree[p] = free[r]
    BY <1>2
  <2>2. CASE q = 1
    BY <1>3, <1>4, <2>1, <2>2
  <2>3. CASE q # 1
    BY <1>3, <2>1, <2>3 DEF SoundLists, FreeApart
  <2> QED BY <2>2, <2>3
<1>10. Covered(newfree, newused, top)
  <2> SUFFICES ASSUME NEW x \in Nat, Base <= x, x < top
               PROVE  \/ \E p \in 1 .. Len(newfree) : x \in Bytes(newfree[p])
                      \/ \E q \in 1 .. Len(newused) : x \in Bytes(newused[q])
    BY DEF Covered
  <2>1. \/ \E p \in 1 .. Len(free) : x \in Bytes(free[p])
        \/ \E q \in 1 .. Len(used) : x \in Bytes(used[q])
    BY DEF SoundLists, Covered
  <2>2. CASE x \in Bytes(b)
    BY <1>3, <2>2
  <2>3. CASE x \notin Bytes(b)
    <3>1. ASSUME NEW p \in 1 .. Len(free), x \in Bytes(free[p])
          PROVE  \E r \in 1 .. Len(newfree) : x \in Bytes(newfree[r])
      BY <1>2, <2>3, <3>1
    <3> QED BY <1>3, <2>1, <3>1
  <2> QED BY <2>2, <2>3
<1> QED BY <1>0, <1>2, <1>3, <1>6, <1>7, <1>8, <1>9, <1>10 DEF SoundLists

\* The two parts of a split block.
Parts(b, num, c, d) ==
  /\ c \in Blocks /\ c.addr = b.addr /\ c.size = num /\ EndOf(c) = b.addr + num
  /\ d \in Blocks /\ d.addr = b.addr + num /\ d.size # 0 /\ EndOf(d) = EndOf(b)
  /\ EndOf(c) = d.addr /\ b.addr <= d.addr /\ d.addr < EndOf(b)
  /\ d.addr \in Nat /\ (c.size = 0 => c.addr = d.addr)
  /\ \A u \in Blocks : Apart(b, u) => Apart(c, u) /\ Apart(d, u)

\* The split of a block in TakeFree: the two parts share its bytes between them.
LEMMA PartsAre ==
  ASSUME NEW b \in Blocks, NEW num \in Nat, num < b.size,
         NEW c, c = Block(b.addr, num), NEW d, d = Block(b.addr + num, b.size - num)
  PROVE  Parts(b, num, c, d)
<1>1. b.addr \in Nat /\ b.size \in Nat /\ EndOf(b) = b.addr + b.size
  BY BlockIs DEF EndOf
<1>2. c \in Blocks /\ c.addr = b.addr /\ c.size = num /\ EndOf(c) = b.addr + num
  BY <1>1, MadeBlockIs
<1>3. d \in Blocks /\ d.addr = b.addr + num /\ d.size = b.size - num /\ EndOf(d) = EndOf(b)
  <2> DEFINE a == b.addr + num
             n == b.size - num
  <2>1. a \in Nat /\ n \in Nat /\ a + n = EndOf(b)
    BY <1>1
  <2>2. d = Block(a, n)
    OBVIOUS
  <2> HIDE DEF a, n
  <2>3. /\ Block(a, n) \in Blocks
        /\ Block(a, n).addr = a /\ Block(a, n).size = n /\ EndOf(Block(a, n)) = a + n
    BY <2>1, MadeBlockIs
  <2>4. d \in Blocks /\ d.addr = a /\ d.size = n /\ EndOf(d) = EndOf(b)
    BY <2>1, <2>2, <2>3
  <2> QED BY <2>4 DEF a, n
<1>4. ASSUME NEW u \in Blocks, Apart(b, u)
      PROVE  Apart(c, u) /\ Apart(d, u)
  <2>1. u.addr \in Nat /\ EndOf(u) \in Nat
    BY BlockIs
  <2> QED BY <1>1, <1>2, <1>3, <1>4, <2>1 DEF Apart
<1> QED BY <1>1, <1>2, <1>3, <1>4 DEF Parts

\* A free block is split: its beginning goes into use and the rest back among
\* the free ones, where it touches none.
LEMMA SplitBlock ==
  ASSUME NEW free, NEW used, NEW top, SoundLists(free, used, top), AllSolid(used),
         NEW i \in 1 .. Len(free), NEW num \in Nat, num < free[i].size,
         NEW d, d = Block(free[i].addr + num, free[i].size - num),
         NEW newfree, newfree = Compact(InsertBlock(RemoveAt(free, i), d)),
         NEW newused, newused = <<Block(free[i].addr, num)>> \o used
  PROVE  SoundLists(newfree, newused, top) /\ Len(newfree) <= Len(free)
<1> DEFINE b == free[i]
           c == Block(b.addr, num)
           rest == RemoveAt(free, i)
<1>0. /\ b \in Blocks /\ b.addr \in Nat /\ EndOf(b) \in Nat /\ Base <= b.addr /\ EndOf(b) <= top
      /\ top \in Nat /\ Base \in Nat /\ Limit \in Nat /\ b.size \in Nat /\ EndOf(b) = b.addr + b.size
      /\ free \in Seq(Blocks) /\ used \in Seq(Blocks)
  BY ListEntries DEF SoundLists, EndOf
<1>2. /\ rest \in Seq(Blocks) /\ Len(rest) = Len(free) - 1
      /\ \A p \in 1 .. Len(rest) : \E q \in 1 .. Len(free) : q # i /\ rest[p] = free[q]
      /\ \A q \in 1 .. Len(free) : q # i => \E p \in 1 .. Len(rest) : rest[p] = free[q]
      /\ Spaced(rest)
  <2>1. IsRest(free, i, rest)
    BY <1>0, RestIs
  <2>2. Spaced(free)
    BY DEF SoundLists, FreeSound
  <2> QED BY <2>1, <2>2 DEF IsRest
<1>n. /\ newfree = Compact(InsertBlock(rest, d)) /\ num < b.size
      /\ c = Block(b.addr, num) /\ d = Block(b.addr + num, b.size - num)
      /\ newused = <<c>> \o used
  OBVIOUS
<1>b. b = free[i]
  OBVIOUS
<1> HIDE DEF b, c, rest
<1>p. Parts(b, num, c, d)
  BY <1>0, <1>n, PartsAre
<1>c. /\ c \in Blocks /\ c.addr = b.addr /\ c.size = num /\ EndOf(c) = d.addr
      /\ b.addr <= d.addr /\ d.addr < EndOf(b) /\ (c.size = 0 => c.addr = d.addr)
  BY <1>p DEF Parts
<1>d. d \in Blocks /\ d.addr \in Nat /\ d.size # 0 /\ EndOf(d) = EndOf(b)
  BY <1>p DEF Parts
<1>3. /\ newused \in Seq(Blocks) /\ newused[1] = c /\ 1 \in 1 .. Len(newused)
      /\ \A p \in 1 .. Len(newused) : p # 1 => \E q \in 1 .. Len(used) : newused[p] = used[q]
      /\ \A q \in 1 .. Len(used) : \E p \in 1 .. Len(newused) : newused[p] = used[q]
  <2>1. IsPushed(used, c, newused)
    BY <1>0, <1>c, <1>n, UsedIs
  <2> QED BY <2>1 DEF IsPushed
\* Every other free block ends before the beginning of b or begins behind its
\* end.
<1>4. ASSUME NEW p \in 1 .. Len(rest)
      PROVE  /\ rest[p].addr \in Nat /\ EndOf(rest[p]) \in Nat /\ rest[p].addr <= EndOf(rest[p])
             /\ Base <= rest[p].addr /\ EndOf(rest[p]) <= top
             /\ rest[p].size = 0 => rest[p].addr = top
             /\ EndOf(rest[p]) < b.addr \/ EndOf(b) < rest[p].addr
             /\ \A q \in 1 .. Len(used) : Apart(rest[p], used[q])
  <2>1. PICK q \in 1 .. Len(free) : q # i /\ rest[p] = free[q]
    BY <1>2
  <2>2. Spaced(free)
    BY DEF SoundLists, FreeSound
  <2>3. EndOf(free[q]) < b.addr \/ EndOf(b) < free[q].addr
    BY <1>0, <2>1, <2>2, SpacedApart DEF b
  <2>4. \A r \in 1 .. Len(used) : Apart(free[q], used[r])
    BY DEF SoundLists, FreeApart
  <2>5. /\ free[q].addr \in Nat /\ EndOf(free[q]) \in Nat /\ free[q].addr <= EndOf(free[q])
        /\ Base <= free[q].addr /\ EndOf(free[q]) <= top
        /\ free[q].size = 0 => free[q].addr = top
    BY ListEntries
  <2> QED BY <2>1, <2>3, <2>4, <2>5
<1>5. ASSUME NEW p \in 1 .. Len(rest)
      PROVE  /\ EndOf(rest[p]) < c.addr \/ EndOf(d) < rest[p].addr
             /\ EndOf(rest[p]) # d.addr /\ rest[p].addr # EndOf(d)
             /\ IF d.addr <= rest[p].addr THEN EndOf(d) <= rest[p].addr ELSE EndOf(rest[p]) <= d.addr
             /\ Apart(rest[p], c)
  <2>0. b.addr \in Nat /\ EndOf(b) \in Nat
    BY <1>0
  <2>1. /\ rest[p].addr \in Nat /\ EndOf(rest[p]) \in Nat /\ rest[p].addr <= EndOf(rest[p])
        /\ EndOf(rest[p]) < b.addr \/ EndOf(b) < rest[p].addr
    BY <1>4
  <2>2. CASE EndOf(rest[p]) < b.addr
    BY SMTT(30), <1>c, <1>d, <2>0, <2>1, <2>2 DEF Apart
  <2>3. CASE EndOf(b) < rest[p].addr
    BY <1>c, <1>d, <2>0, <2>1, <2>3 DEF Apart
  <2> QED BY <2>1, <2>2, <2>3
<1>6. Inserted(rest, d, newfree)
  <2>1. FitsIn(rest, d)
    BY <1>5 DEF FitsIn
  <2> QED BY <1>2, <1>d, <1>n, <2>1, InsertIs
<1>7. /\ newfree \in Seq(Blocks) /\ Len(newfree) <= Len(free) /\ Spaced(newfree)
      /\ \E p \in 1 .. Len(newfree) : newfree[p].addr = d.addr
  <2>1. newfree \in Seq(Blocks) /\ Len(newfree) <= Len(rest) + 1 /\ Spaced(newfree)
    BY <1>6 DEF Inserted
  <2>2. Len(rest) + 1 = Len(free)
    BY <1>0, <1>2, LenProperties
  <2>3. \E p \in 1 .. Len(newfree) : newfree[p].addr = d.addr
    BY <1>5, <1>6 DEF Inserted
  <2> QED BY <2>1, <2>2, <2>3
<1>8. FreeSound(newfree, top)
  <2> SUFFICES ASSUME NEW p \in 1 .. Len(newfree)
               PROVE  /\ Base <= newfree[p].addr /\ EndOf(newfree[p]) <= top
                      /\ newfree[p].size = 0 => newfree[p].addr = top
    BY <1>7 DEF FreeSound
  <2>1. newfree[p].addr = d.addr \/ \E j \in 1 .. Len(rest) : newfree[p].addr = rest[j].addr
    BY <1>6 DEF Inserted
  <2>2. EndOf(newfree[p]) = EndOf(d) \/ \E j \in 1 .. Len(rest) : EndOf(newfree[p]) = EndOf(rest[j])
    BY <1>6 DEF Inserted
  <2>3. newfree[p].size = 0 => \E j \in 1 .. Len(rest) : rest[j].size = 0 /\ newfree[p].addr = rest[j].addr
    BY <1>d, <1>6 DEF Inserted
  <2>4. Base <= d.addr
    BY <1>0, <1>c, <1>d
  <2>5. Base <= newfree[p].addr
    BY <1>4, <2>1, <2>4
  <2>6. EndOf(newfree[p]) <= top
    BY <1>0, <1>4, <1>d, <2>2
  <2> QED BY <1>4, <2>3, <2>5, <2>6
<1>9. ASSUME NEW q \in 1 .. Len(used)
      PROVE  /\ Base <= used[q].addr /\ EndOf(used[q]) <= top /\ used[q].size # 0
             /\ Apart(c, used[q]) /\ Apart(d, used[q]) /\ used[q] \in Blocks
  <2>1. /\ used[q] \in Blocks /\ EndOf(used[q]) \in Nat /\ used[q].addr \in Nat /\ used[q].size \in Nat
        /\ EndOf(used[q]) <= top /\ Base <= used[q].addr
    BY ListEntries
  <2>2. used[q].size > 0
    BY DEF AllSolid
  <2>3. Apart(b, used[q])
    BY DEF SoundLists, FreeApart, b
  <2>6. Apart(c, used[q]) /\ Apart(d, used[q])
    BY <1>p, <2>1, <2>3 DEF Parts
  <2> QED BY <2>1, <2>2, <2>6
<1>10. UsedSound(newfree, newused, top)
  <2> SUFFICES ASSUME NEW p \in 1 .. Len(newused)
               PROVE  /\ Base <= newused[p].addr /\ EndOf(newused[p]) <= top
                      /\ newused[p].size = 0 =>
                           \E j \in 1 .. Len(newfree) : newfree[j].addr = newused[p].addr
    BY DEF UsedSound
  <2>1. CASE p = 1
    <3>1. newused[p] = c
      BY <1>3, <2>1
    <3>2. EndOf(c) <= top
      BY <1>0, <1>c, <1>d
    <3>3. Base <= c.addr
      BY <1>0, <1>c
    <3>4. c.size = 0 => \E j \in 1 .. Len(newfree) : newfree[j].addr = c.addr
      BY <1>c, <1>7
    <3> QED BY <3>1, <3>2, <3>3, <3>4
  <2>2. CASE p # 1
    BY <1>3, <1>9, <2>2
  <2> QED BY <2>1, <2>2
<1>11. UsedApart(newused)
  <2>1. newused = <<c>> \o used
    BY <1>n
  <2>2. \A q \in 1 .. Len(used) : Apart(c, used[q])
    BY <1>9
  <2> QED BY <1>0, <1>c, <2>1, <2>2, PushApart DEF SoundLists
<1>12. FreeApart(newfree, newused)
  <2> SUFFICES ASSUME NEW p \in 1 .. Len(newfree), NEW q \in 1 .. Len(newused)
               PROVE  Apart(newfree[p], newused[q])
    BY DEF FreeApart
  <2> DEFINE u == newused[q]
  <2>1. u \in Blocks /\ Apart(d, u) /\ \A j \in 1 .. Len(rest) : Apart(rest[j], u)
    <3>1. CASE q = 1
      <4>1. u = c
        BY <1>3, <3>1
      <4>2. Apart(d, c)
        BY <1>c, <1>d DEF Apart
      <4> QED BY <1>5, <1>c, <4>1, <4>2
    <3>2. CASE q # 1
      BY <1>3, <1>4, <1>9, <3>2
    <3> QED BY <3>1, <3>2
  <2> HIDE DEF u
  <2>2. Apart(newfree[p], u)
    BY <1>5, <1>6, <2>1 DEF Inserted
  <2> QED BY <2>2 DEF u
<1>13. Covered(newfree, newused, top)
  <2> SUFFICES ASSUME NEW x \in Nat, Base <= x, x < top
               PROVE  \/ \E p \in 1 .. Len(newfree) : x \in Bytes(newfree[p])
                      \/ \E q \in 1 .. Len(newused) : x \in Bytes(newused[q])
    BY DEF Covered
  <2>1. \/ \E p \in 1 .. Len(free) : x \in Bytes(free[p])
        \/ \E q \in 1 .. Len(used) : x \in Bytes(used[q])
    BY DEF SoundLists, Covered
  <2>2. x \in Bytes(d) \/ (\E j \in 1 .. Len(rest) : x \in Bytes(rest[j]))
          => \E p \in 1 .. Len(newfree) : x \in Bytes(newfree[p])
    BY <1>6 DEF Inserted
  <2>3. CASE x \in Bytes(b)
    <3>1. x \in Bytes(c) \/ x \in Bytes(d)
      BY <1>0, <1>c, <1>d, <2>3 DEF Bytes
    <3> QED BY <1>3, <2>2, <3>1
  <2>4. CASE x \notin Bytes(b)
    <3>1. ASSUME NEW p \in 1 .. Len(free), x \in Bytes(free[p])
          PROVE  \E j \in 1 .. Len(rest) : x \in Bytes(rest[j])
      BY <1>2, <2>4, <3>1 DEF b
    <3> QED BY <1>3, <2>1, <2>2, <3>1
  <2> QED BY <2>3, <2>4
<1> QED BY <1>0, <1>3, <1>7, <1>8, <1>10, <1>11, <1>12, <1>13 DEF SoundLists

\* A block in use goes back among the free ones, when no other one is empty.
LEMMA Release ==
  ASSUME NEW free, NEW used, NEW top, SoundLists(free, used, top),
         NEW k \in 1 .. Len(used),
         \A j \in 1 .. Len(used) : j # k => used[j].size > 0,
         NEW newfree, newfree = Compact(InsertBlock(free, used[k])),
         NEW newused, newused = RemoveAt(used, k)
  PROVE  SoundLists(newfree, newused, top) /\ Len(newfree) <= Len(free) + 1
<1> DEFINE b == used[k]
<1>0. /\ b \in Blocks /\ b.addr \in Nat /\ EndOf(b) \in Nat /\ b.addr <= EndOf(b)
      /\ Base <= b.addr /\ EndOf(b) <= top /\ (b.size = 0 <=> EndOf(b) = b.addr)
      /\ top \in Nat /\ Base \in Nat /\ Limit \in Nat
      /\ free \in Seq(Blocks) /\ used \in Seq(Blocks)
  BY ListEntries DEF SoundLists
<1>1. /\ newused \in Seq(Blocks) /\ Len(newused) = Len(used) - 1
      /\ \A p \in 1 .. Len(newused) : \E q \in 1 .. Len(used) :
           q # k /\ newused[p] = used[q] /\ q = IF p < k THEN p ELSE p + 1
      /\ \A q \in 1 .. Len(used) : q # k => \E p \in 1 .. Len(newused) : newused[p] = used[q]
  <2>1. IsRest(used, k, newused)
    BY <1>0, RestIs
  <2> QED BY <2>1 DEF IsRest
<1>n. newfree = Compact(InsertBlock(free, b))
  OBVIOUS
<1>2. ASSUME NEW j \in 1 .. Len(free)
      PROVE  /\ free[j].addr \in Nat /\ EndOf(free[j]) \in Nat /\ free[j].addr <= EndOf(free[j])
             /\ (free[j].size = 0 <=> EndOf(free[j]) = free[j].addr)
             /\ Base <= free[j].addr /\ EndOf(free[j]) <= top
             /\ free[j].size = 0 => free[j].addr = top
             /\ Apart(free[j], b)
  <2>1. Apart(free[j], b)
    BY DEF SoundLists, FreeApart
  <2> HIDE DEF b
  <2> QED BY <2>1, ListEntries
<1>3. b.size = 0 => b.addr = top \/ \E j \in 1 .. Len(free) : free[j].addr = b.addr
  BY DEF SoundLists, UsedSound
<1>4. ASSUME NEW q \in 1 .. Len(used), q # k
      PROVE  /\ used[q] \in Blocks /\ Base <= used[q].addr /\ EndOf(used[q]) <= top
             /\ used[q].size # 0 /\ Apart(b, used[q])
             /\ \A j \in 1 .. Len(free) : Apart(free[j], used[q])
  <2>1. used[q] \in Blocks /\ Base <= used[q].addr /\ EndOf(used[q]) <= top /\ used[q].size \in Nat
    BY ListEntries
  <2>2. used[q].size > 0
    BY <1>4
  <2>3. Apart(b, used[q])
    BY <1>4 DEF SoundLists, UsedApart
  <2>4. \A j \in 1 .. Len(free) : Apart(free[j], used[q])
    BY DEF SoundLists, FreeApart
  <2> HIDE DEF b
  <2> QED BY <2>1, <2>2, <2>3, <2>4
<1> HIDE DEF b
<1>5. Inserted(free, b, newfree)
  <2>1. FitsIn(free, b)
    <3> SUFFICES ASSUME NEW j \in 1 .. Len(free)
                 PROVE  IF b.addr <= free[j].addr THEN EndOf(b) <= free[j].addr
                        ELSE EndOf(free[j]) <= b.addr
      BY DEF FitsIn
    <3>1. EndOf(free[j]) <= b.addr \/ EndOf(b) <= free[j].addr
      BY <1>2 DEF Apart
    <3> QED BY <1>0, <1>2, <3>1
  <2>2. Spaced(free)
    BY DEF SoundLists, FreeSound
  <2> QED BY <1>0, <1>n, <2>1, <2>2, InsertIs
<1>6. newfree \in Seq(Blocks) /\ Len(newfree) <= Len(free) + 1 /\ Spaced(newfree)
  BY <1>5 DEF Inserted
<1>7. FreeSound(newfree, top)
  <2> SUFFICES ASSUME NEW p \in 1 .. Len(newfree)
               PROVE  /\ Base <= newfree[p].addr /\ EndOf(newfree[p]) <= top
                      /\ newfree[p].size = 0 => newfree[p].addr = top
    BY <1>6 DEF FreeSound
  <2>1. newfree[p].addr = b.addr \/ \E j \in 1 .. Len(free) : newfree[p].addr = free[j].addr
    BY <1>5 DEF Inserted
  <2>2. EndOf(newfree[p]) = EndOf(b) \/ \E j \in 1 .. Len(free) : EndOf(newfree[p]) = EndOf(free[j])
    BY <1>5 DEF Inserted
  <2>3. newfree[p].size = 0 =>
          \/ \E j \in 1 .. Len(free) : free[j].size = 0 /\ newfree[p].addr = free[j].addr
          \/ /\ b.size = 0 /\ newfree[p].addr = b.addr
             /\ \A j \in 1 .. Len(free) : free[j].addr # b.addr
    BY <1>5 DEF Inserted
  <2>4. Base <= newfree[p].addr
    BY <1>0, <1>2, <2>1
  <2>5. EndOf(newfree[p]) <= top
    BY <1>0, <1>2, <2>2
  <2>6. newfree[p].size = 0 => newfree[p].addr = top
    BY <1>2, <1>3, <2>3
  <2> QED BY <2>4, <2>5, <2>6
<1>8. UsedSound(newfree, newused, top)
  <2> SUFFICES ASSUME NEW p \in 1 .. Len(newused)
               PROVE  /\ Base <= newused[p].addr /\ EndOf(newused[p]) <= top
                      /\ newused[p].size # 0
    BY DEF UsedSound
  <2>1. PICK q \in 1 .. Len(used) : q # k /\ newused[p] = used[q]
    BY <1>1
  <2> QED BY <1>4, <2>1
<1>9. UsedApart(newused)
  <2> SUFFICES ASSUME NEW p \in 1 .. Len(newused), NEW r \in 1 .. Len(newused), p # r
               PROVE  Apart(newused[p], newused[r])
    BY DEF UsedApart
  <2>1. PICK q \in 1 .. Len(used) : newused[p] = used[q] /\ q = IF p < k THEN p ELSE p + 1
    BY <1>1
  <2>2. PICK t \in 1 .. Len(used) : newused[r] = used[t] /\ t = IF r < k THEN r ELSE r + 1
    BY <1>1
  <2>3. q # t
    BY <2>1, <2>2
  <2> QED BY <2>1, <2>2, <2>3 DEF SoundLists, UsedApart
<1>10. FreeApart(newfree, newused)
  <2> SUFFICES ASSUME NEW p \in 1 .. Len(newfree), NEW r \in 1 .. Len(newused)
               PROVE  Apart(newfree[p], newused[r])
    BY DEF FreeApart
  <2>1. PICK q \in 1 .. Len(used) : q # k /\ newused[r] = used[q]
    BY <1>1
  <2>2. /\ used[q] \in Blocks /\ used[q].size # 0 /\ Apart(b, used[q])
        /\ \A j \in 1 .. Len(free) : Apart(free[j], used[q])
    BY <1>4, <2>1
  <2>3. Apart(newfree[p], used[q])
    BY <1>5, <2>2 DEF Inserted
  <2> QED BY <2>1, <2>3
<1>11. Covered(newfree, newused, top)
  <2> SUFFICES ASSUME NEW x \in Nat, Base <= x, x < top
               PROVE  \/ \E p \in 1 .. Len(newfree) : x \in Bytes(newfree[p])
                      \/ \E q \in 1 .. Len(newused) : x \in Bytes(newused[q])
    BY DEF Covered
  <2>1. \/ \E p \in 1 .. Len(free) : x \in Bytes(free[p])
        \/ \E q \in 1 .. Len(used) : x \in Bytes(used[q])
    BY DEF SoundLists, Covered
  <2>2. x \in Bytes(b) \/ (\E j \in 1 .. Len(free) : x \in Bytes(free[j]))
          => \E p \in 1 .. Len(newfree) : x \in Bytes(newfree[p])
    BY <1>5 DEF Inserted
  <2>3. CASE x \in Bytes(b)
    BY <2>2, <2>3
  <2>4. ASSUME NEW q \in 1 .. Len(used), x \in Bytes(used[q]), x \notin Bytes(b)
        PROVE  \E r \in 1 .. Len(newused) : x \in Bytes(newused[r])
    BY <1>1, <2>4 DEF b
  <2> QED BY <2>1, <2>2, <2>3, <2>4
<1>12. Base <= top /\ top <= Limit
  BY DEF SoundLists
<1> QED BY <1>0, <1>1, <1>6, <1>7, <1>8, <1>9, <1>10, <1>11, <1>12 DEF SoundLists

-----------------------------------------------------------------------------
(* The heap record.                                                        *)


\* A record with these parts is a sound heap.
LEMMA SoundParts ==
  ASSUME NEW g \in HeapRecord, SoundLists(g.free, g.used, g.top),
         Len(g.free) + Len(g.used) + g.fresh = MaxBlocks, g.fresh >= 0
  PROVE  SoundHeap(g)
BY DEF SoundHeap, Conserved

\* The parts of a sound heap.
LEMMA HeapParts ==
  ASSUME NEW h, SoundHeap(h)
  PROVE  /\ h \in HeapRecord
         /\ SoundLists(h.free, h.used, h.top)
         /\ h.free \in Seq(Blocks) /\ h.used \in Seq(Blocks) /\ h.fresh \in Nat /\ h.top \in Nat
         /\ Len(h.free) \in Nat /\ Len(h.used) \in Nat /\ MaxBlocks \in Nat
         /\ Len(h.free) + Len(h.used) + h.fresh = MaxBlocks
<1>1. h \in HeapRecord /\ h.fresh >= 0 /\ Len(h.free) + Len(h.used) + h.fresh = MaxBlocks
  BY DEF SoundHeap, Conserved
<1>2. SoundLists(h.free, h.used, h.top)
  BY DEF SoundHeap
<1>3. h.free \in Seq(Blocks) /\ h.used \in Seq(Blocks) /\ h.fresh \in Nat /\ h.top \in Nat
  BY <1>1, <1>2 DEF HeapRecord, SoundLists
<1> QED BY <1>1, <1>2, <1>3, LayoutAssumption, LenProperties

\* A heap record with these parts.
HasParts(g, free, used, fresh, top) ==
  g \in HeapRecord /\ g.free = free /\ g.used = used /\ g.fresh = fresh /\ g.top = top

\* The record with the free list and the number of blank descriptors changed.
LEMMA FreeFresh ==
  ASSUME NEW h \in HeapRecord, NEW x \in Seq(Blocks), NEW m \in Int,
         NEW g, g = [h EXCEPT !.free = x, !.fresh = m]
  PROVE  HasParts(g, x, h.used, m, h.top)
BY DEF HeapRecord, HasParts

\* The record with both lists changed.
LEMMA FreeUsed ==
  ASSUME NEW h \in HeapRecord, NEW x \in Seq(Blocks), NEW y \in Seq(Blocks),
         NEW g, g = [h EXCEPT !.free = x, !.used = y]
  PROVE  HasParts(g, x, y, h.fresh, h.top)
BY DEF HeapRecord, HasParts

\* The record with the used list changed.
LEMMA UsedOnly ==
  ASSUME NEW h \in HeapRecord, NEW y \in Seq(Blocks),
         NEW g, g = [h EXCEPT !.used = y]
  PROVE  HasParts(g, h.free, y, h.fresh, h.top)
BY DEF HeapRecord, HasParts

\* The record with the used list and the number of blank descriptors changed.
LEMMA UsedFresh ==
  ASSUME NEW h \in HeapRecord, NEW y \in Seq(Blocks), NEW m \in Int,
         NEW g, g = [h EXCEPT !.used = y, !.fresh = m]
  PROVE  HasParts(g, h.free, y, m, h.top)
BY DEF HeapRecord, HasParts

\* The record with both lists and the top changed.
LEMMA FreeUsedTop ==
  ASSUME NEW h \in HeapRecord, NEW x \in Seq(Blocks), NEW y \in Seq(Blocks), NEW t \in Int,
         NEW g, g = [h EXCEPT !.free = x, !.used = y, !.top = t]
  PROVE  HasParts(g, x, y, h.fresh, t)
BY DEF HeapRecord, HasParts

\* The record with all but the free list changed.
LEMMA UsedFreshTop ==
  ASSUME NEW h \in HeapRecord, NEW y \in Seq(Blocks), NEW m \in Int, NEW t \in Int,
         NEW g, g = [h EXCEPT !.used = y, !.fresh = m, !.top = t]
  PROVE  HasParts(g, h.free, y, m, t)
BY DEF HeapRecord, HasParts

\* insert_block with compact on the record.
LEMMA InsertedHeap ==
  ASSUME NEW h \in HeapRecord, NEW list, NEW b, NEW g, g = Insert(h, list, b),
         NEW new \in Seq(Blocks), new = Compact(InsertBlock(list, b)),
         Len(list) \in Nat
  PROVE  /\ g \in HeapRecord
         /\ g.free = new /\ g.used = h.used /\ g.top = h.top
         /\ g.fresh = h.fresh + (Len(list) + 1 - Len(new))
<1>1. g = [h EXCEPT !.free = new, !.fresh = @ + (Len(list) + 1 - Len(new))]
  BY DEF Insert
<1>2. Len(new) \in Nat
  BY LenProperties
<1> DEFINE k == Len(list) + 1 - Len(new)
<1>3. k \in Int
  BY <1>2
<1> DEFINE m == h.fresh + k
<1>4. m \in Int /\ g = [h EXCEPT !.free = new, !.fresh = m]
  <2>1. h.fresh \in Int
    BY DEF HeapRecord
  <2> QED BY <1>1, <1>3, <2>1
<1> HIDE DEF k, m
<1>5. /\ g \in HeapRecord
      /\ g.free = new /\ g.used = h.used /\ g.top = h.top /\ g.fresh = m
  <2>1. HasParts(g, new, h.used, m, h.top)
    BY <1>4, FreeFresh
  <2> QED BY <2>1 DEF HasParts
<1> QED BY <1>5 DEF k, m

\* free gives a block in use back.
LEMMA ReleaseHeap ==
  ASSUME NEW h, SoundHeap(h), NEW k \in 1 .. Len(h.used),
         \A j \in 1 .. Len(h.used) : j # k => h.used[j].size > 0,
         NEW g, g = Insert([h EXCEPT !.used = RemoveAt(h.used, k)], h.free, h.used[k])
  PROVE  SoundHeap(g) /\ g.used = RemoveAt(h.used, k)
<1> DEFINE new == Compact(InsertBlock(h.free, h.used[k]))
           rest == RemoveAt(h.used, k)
           f == [h EXCEPT !.used = rest]
<1>1. /\ h \in HeapRecord
      /\ SoundLists(h.free, h.used, h.top)
      /\ h.free \in Seq(Blocks) /\ h.used \in Seq(Blocks) /\ h.fresh \in Nat /\ h.top \in Nat
      /\ Len(h.free) \in Nat /\ Len(h.used) \in Nat /\ MaxBlocks \in Nat
      /\ Len(h.free) + Len(h.used) + h.fresh = MaxBlocks
  BY HeapParts
<1>2. rest \in Seq(Blocks) /\ Len(rest) = Len(h.used) - 1
  BY <1>1, RemoveAtIs
<1>3. SoundLists(new, rest, h.top) /\ Len(new) <= Len(h.free) + 1
  BY <1>1, Release
<1>4. new \in Seq(Blocks) /\ Len(new) \in Nat
  BY <1>3, LenProperties DEF SoundLists
<1>5. f \in HeapRecord /\ f.used = rest /\ f.fresh = h.fresh /\ f.top = h.top
  <2>1. HasParts(f, h.free, rest, h.fresh, h.top)
    BY <1>1, <1>2, UsedOnly
  <2> QED BY <2>1 DEF HasParts
<1>6. g = Insert(f, h.free, h.used[k])
  OBVIOUS
<1> HIDE DEF f, rest
<1>7. /\ g \in HeapRecord
      /\ g.free = new /\ g.used = rest /\ g.top = h.top
      /\ g.fresh = h.fresh + (Len(h.free) + 1 - Len(new))
  <2> DEFINE free == h.free
             b == h.used[k]
  <2>1. g = Insert(f, free, b) /\ new = Compact(InsertBlock(free, b)) /\ Len(free) \in Nat
    BY <1>1, <1>6
  <2> HIDE DEF free, b, new
  <2>2. /\ g \in HeapRecord
        /\ g.free = new /\ g.used = f.used /\ g.top = f.top
        /\ g.fresh = f.fresh + (Len(free) + 1 - Len(new))
    BY <1>4, <1>5, <2>1, InsertedHeap
  <2> QED BY <1>5, <2>2 DEF free
<1> HIDE DEF new
<1>8. Len(g.free) + Len(g.used) + g.fresh = MaxBlocks /\ g.fresh >= 0
  <2>1. Len(g.free) = Len(new) /\ Len(g.used) = Len(h.used) - 1
    BY <1>2, <1>7
  <2>2. /\ Len(h.free) \in Nat /\ Len(h.used) \in Nat /\ MaxBlocks \in Nat /\ h.fresh \in Nat
        /\ Len(h.free) + Len(h.used) + h.fresh = MaxBlocks
        /\ Len(new) \in Nat /\ Len(new) <= Len(h.free) + 1
        /\ g.fresh = h.fresh + (Len(h.free) + 1 - Len(new))
    BY <1>1, <1>3, <1>4, <1>7
  <2>3. Len(new) + (Len(h.used) - 1) + g.fresh = MaxBlocks /\ g.fresh >= 0
    <3> DEFINE nf == Len(h.free)
               nu == Len(h.used)
               nn == Len(new)
               w == h.fresh
    <3>1. /\ nf \in Nat /\ nu \in Nat /\ MaxBlocks \in Nat /\ w \in Nat
          /\ nf + nu + w = MaxBlocks /\ nn \in Nat /\ nn <= nf + 1
      BY <2>2
    <3>3. nn + (nu - 1) + (w + (nf + 1 - nn)) = MaxBlocks /\ w + (nf + 1 - nn) >= 0
      <4> HIDE DEF nf, nu, nn, w
      <4> QED BY SMTT(30), <3>1
    <3>2. g.fresh = h.fresh + (Len(h.free) + 1 - Len(new))
      BY <2>2
    <3> QED BY <3>2, <3>3
  <2> QED BY <2>1, <2>3
<1>9. SoundHeap(g)
  BY <1>3, <1>7, <1>8, SoundParts
<1> QED BY <1>7, <1>9 DEF rest

\* The end of a block of the pool does not wrap.
LEMMA NoWrap ==
  ASSUME NEW a \in Nat, NEW n \in Nat, a <= Limit, n + Limit < WordSize
  PROVE  (a + n) % WordSize = a + n
<1> DEFINE sum == a + n
<1>1. WordSize \in Nat /\ Limit \in Nat
  BY LayoutAssumption
<1>2. sum \in Nat /\ sum < WordSize
  BY <1>1
<1> HIDE DEF sum
<1>3. sum % WordSize = sum
  BY <1>1, <1>2
<1> QED BY <1>3 DEF sum

\* What a successful request has done: a block in use more, before the others,
\* of at least the size wanted.
Given(h, n, g, a) ==
  /\ SoundHeap(g) /\ a \in Nat /\ Base <= a
  /\ \E m \in Nat : m >= n /\ g.used = <<Block(a, m)>> \o h.used

\* The number of descriptors when a free block goes into use.
LEMMA TakenHeap ==
  ASSUME NEW h, SoundHeap(h), NEW i \in 1 .. Len(h.free), NEW c \in Blocks,
         NEW g \in HeapRecord, g.free = RemoveAt(h.free, i), g.used = <<c>> \o h.used,
         g.fresh = h.fresh, SoundLists(g.free, g.used, g.top)
  PROVE  SoundHeap(g)
<1>1. /\ h.free \in Seq(Blocks) /\ h.used \in Seq(Blocks) /\ h.fresh \in Nat
      /\ Len(h.free) \in Nat /\ Len(h.used) \in Nat /\ MaxBlocks \in Nat
      /\ Len(h.free) + Len(h.used) + h.fresh = MaxBlocks
  BY HeapParts
<1>2. Len(g.free) = Len(h.free) - 1
  BY <1>1, RemoveAtIs
<1>3. Len(g.used) = Len(h.used) + 1
  BY <1>1, PushIs
<1>4. Len(g.free) + Len(g.used) + g.fresh = MaxBlocks /\ g.fresh >= 0
  <2> DEFINE nf == Len(h.free)
             nu == Len(h.used)
             f == h.fresh
  <2>1. nf \in Nat /\ nu \in Nat /\ f \in Nat /\ nf + nu + f = MaxBlocks
    BY <1>1
  <2>2. (nf - 1) + (nu + 1) + f = MaxBlocks /\ f >= 0
    <3> HIDE DEF nf, nu, f
    <3> QED BY <2>1
  <2> QED BY <1>2, <1>3, <2>2
<1> QED BY <1>4, SoundParts

\* A request that a free block serves.
LEMMA TakeFreeIs ==
  ASSUME NEW h, SoundHeap(h), AllSolid(h.used), NEW n \in Nat,
         NEW num \in Nat, num >= n, num + Limit < WordSize,
         NEW i \in 1 .. Len(h.free), IsTop(h, h.free[i], num) \/ h.free[i].size >= num,
         NEW g, g = TakeFree(h, i, num)
  PROVE  Given(h, n, g, h.free[i].addr)
<1> DEFINE b == h.free[i]
           rest == RemoveAt(h.free, i)
           used(m) == <<Block(b.addr, m)>> \o h.used
<1>1. /\ h \in HeapRecord
      /\ SoundLists(h.free, h.used, h.top)
      /\ h.free \in Seq(Blocks) /\ h.used \in Seq(Blocks) /\ h.fresh \in Nat /\ h.top \in Nat
      /\ Len(h.free) \in Nat /\ Len(h.used) \in Nat /\ MaxBlocks \in Nat
      /\ Len(h.free) + Len(h.used) + h.fresh = MaxBlocks
  BY HeapParts
<1>2. /\ b \in Blocks /\ b.addr \in Nat /\ b.size \in Nat /\ EndOf(b) \in Nat /\ b.addr <= EndOf(b)
      /\ (b.size = 0 <=> EndOf(b) = b.addr)
      /\ Base <= b.addr /\ EndOf(b) <= h.top /\ (b.size = 0 => b.addr = h.top)
  BY SMTT(30), <1>1, ListEntries
<1>3. /\ (b.addr + num) % WordSize = b.addr + num
      /\ h.top <= Limit /\ Limit \in Nat
  <2>1. h.top <= Limit /\ Limit \in Nat
    BY <1>1, LayoutAssumption DEF SoundLists
  <2>2. b.addr <= Limit
    BY <1>1, <1>2, <2>1
  <2> QED BY <1>2, <2>1, <2>2, NoWrap
<1>4. rest \in Seq(Blocks) /\ Len(rest) = Len(h.free) - 1
  BY <1>1, RemoveAtIs
<1>5. ASSUME NEW m \in Nat
      PROVE  Block(b.addr, m) \in Blocks /\ used(m) \in Seq(Blocks) /\ Len(used(m)) = Len(h.used) + 1
  <2>1. Block(b.addr, m) \in Blocks
    BY <1>2, MadeBlockIs
  <2> QED BY <1>1, <2>1, PushIs
<1>6. CASE IsTop(h, b, num)
  <2>1. g = [h EXCEPT !.free = rest, !.used = used(num), !.top = b.addr + num]
    BY <1>6 DEF TakeFree
  <2>2. EndOf(b) >= h.top /\ b.addr + num <= Limit
    BY <1>3, <1>6 DEF IsTop
  <2>3. SoundLists(rest, used(num), b.addr + num)
    BY <1>1, <2>2, CutTop
  <2>4. b.addr + num \in Int
    BY <1>2
  <2>5. /\ g \in HeapRecord /\ g.free = rest /\ g.used = used(num)
        /\ g.fresh = h.fresh /\ g.top = b.addr + num
    <3> DEFINE y == used(num)
               t == b.addr + num
    <3>1. g = [h EXCEPT !.free = rest, !.used = y, !.top = t] /\ t \in Int /\ y \in Seq(Blocks)
      BY <1>5, <2>1, <2>4
    <3> HIDE DEF y, t, rest
    <3>2. HasParts(g, rest, y, h.fresh, t)
      BY <1>1, <1>4, <3>1, FreeUsedTop
    <3> QED BY <3>2 DEF HasParts, y, t
  <2>6. SoundHeap(g)
    BY <1>5, <2>3, <2>5, TakenHeap
  <2> QED BY <1>2, <2>5, <2>6 DEF Given
<1>7. CASE ~IsTop(h, b, num) /\ h.fresh > 0 /\ b.size - num >= SplitThresh
  <2> DEFINE d == Block(b.addr + num, b.size - num)
             f == [h EXCEPT !.used = used(num), !.fresh = @ - 1]
             new == Compact(InsertBlock(rest, d))
  <2>1. g = Insert(f, rest, d)
    BY <1>7 DEF TakeFree
  <2>2. num < b.size
    BY <1>2, <1>7, LayoutAssumption
  <2>3. SoundLists(new, used(num), h.top) /\ Len(new) <= Len(h.free)
    BY <1>1, <2>2, SplitBlock
  <2>4. new \in Seq(Blocks) /\ Len(new) \in Nat
    BY <2>3, LenProperties DEF SoundLists
  <2>5. /\ f \in HeapRecord /\ f.used = used(num) /\ f.fresh = h.fresh - 1 /\ f.top = h.top
    <3>1. h.fresh - 1 \in Int
      BY <1>1
    <3>2. HasParts(f, h.free, used(num), h.fresh - 1, h.top)
      BY <1>1, <1>5, <3>1, UsedFresh
    <3> QED BY <3>2 DEF HasParts
  <2>6. Len(rest) \in Nat
    BY <1>4, LenProperties
  <2>7. /\ g \in HeapRecord
        /\ g.free = new /\ g.used = f.used /\ g.top = f.top
        /\ g.fresh = f.fresh + (Len(rest) + 1 - Len(new))
    <3>1. new = Compact(InsertBlock(rest, d))
      OBVIOUS
    <3> HIDE DEF f, d, rest, new
    <3> QED BY SMTT(30), <2>1, <2>4, <2>5, <2>6, <3>1, InsertedHeap
  <2>8. Len(g.free) + Len(g.used) + g.fresh = MaxBlocks /\ g.fresh >= 0
    <3> DEFINE nf == Len(h.free)
               nu == Len(h.used)
               nn == Len(new)
               w == h.fresh
    <3>1. /\ nf \in Nat /\ nu \in Nat /\ MaxBlocks \in Nat /\ w \in Nat /\ w > 0
          /\ nf + nu + w = MaxBlocks /\ nn \in Nat /\ nn <= nf
      BY <1>1, <1>7, <2>3, <2>4
    <3>2. nn + (nu + 1) + ((w - 1) + ((nf - 1) + 1 - nn)) = MaxBlocks
          /\ (w - 1) + ((nf - 1) + 1 - nn) >= 0
      <4> HIDE DEF nf, nu, nn, w
      <4> QED BY SMTT(30), <3>1
    <3>3. Len(g.free) = nn /\ Len(g.used) = nu + 1
          /\ g.fresh = (w - 1) + ((nf - 1) + 1 - nn)
      <4>1. Len(used(num)) = nu + 1
        BY <1>5
      <4> HIDE DEF f, new, rest, used
      <4> QED BY <1>4, <2>5, <2>7, <4>1
    <3> QED BY <3>2, <3>3
  <2>9. SoundHeap(g)
    BY <2>3, <2>5, <2>7, <2>8, SoundParts
  <2> QED BY <1>2, <2>5, <2>7, <2>9 DEF Given
<1>8. CASE ~IsTop(h, b, num) /\ ~(h.fresh > 0 /\ b.size - num >= SplitThresh)
  <2>1. g = [h EXCEPT !.free = rest, !.used = used(b.size)]
    BY <1>8 DEF TakeFree
  \* An empty free block stands at the top and would have been stretched.
  <2>2. b.size > 0 /\ b.size >= num
    <3>1. b.size >= num
      BY <1>8
    <3>2. CASE b.size = 0
      <4>1. num = 0 /\ b.addr = h.top /\ EndOf(b) >= h.top
        BY <1>1, <1>2, <3>1, <3>2
      <4>2. IsTop(h, b, num)
        BY <1>1, <1>3, <4>1 DEF IsTop
      <4> QED BY <1>8, <4>2
    <3> QED BY <1>2, <3>1, <3>2
  <2>3. Block(b.addr, b.size) = b
    BY <1>2 DEF Block, Blocks
  <2>4. SoundLists(rest, used(b.size), h.top)
    <3>1. used(b.size) = <<b>> \o h.used
      BY <2>3
    <3> QED BY <1>1, <2>2, <3>1, TakeWhole
  <2>5. /\ g \in HeapRecord /\ g.free = rest /\ g.used = used(b.size)
        /\ g.fresh = h.fresh /\ g.top = h.top
    <3> DEFINE y == used(b.size)
    <3>1. /\ g = [h EXCEPT !.free = rest, !.used = y]
          /\ y \in Seq(Blocks) /\ rest \in Seq(Blocks)
          /\ h \in HeapRecord
      BY <1>1, <1>2, <1>4, <1>5, <2>1
    <3> HIDE DEF y, rest
    <3>2. HasParts(g, rest, y, h.fresh, h.top)
      BY <3>1, FreeUsed
    <3> QED BY <3>2 DEF HasParts, y
  <2>6. SoundHeap(g)
    BY <1>2, <1>5, <2>4, <2>5, TakenHeap
  <2>7. b.size >= n
    BY <1>2, <2>2
  <2> QED BY <1>2, <2>5, <2>6, <2>7 DEF Given
<1> QED BY <1>6, <1>7, <1>8

\* A request that a new block at the top serves.
LEMMA TakeFreshIs ==
  ASSUME NEW h, SoundHeap(h), AllSolid(h.used), NEW n \in Nat,
         NEW num \in Nat, num >= n, h.fresh > 0, h.top + num <= Limit,
         \A i \in 1 .. Len(h.free) : EndOf(h.free[i]) < h.top,
         NEW g, g = TakeFresh(h, num)
  PROVE  Given(h, n, g, h.top)
<1> DEFINE y == <<Block(h.top, num)>> \o h.used
           m == h.fresh - 1
           t == h.top + num
<1>1. /\ h \in HeapRecord
      /\ SoundLists(h.free, h.used, h.top)
      /\ h.free \in Seq(Blocks) /\ h.used \in Seq(Blocks) /\ h.fresh \in Nat /\ h.top \in Nat
      /\ Len(h.free) \in Nat /\ Len(h.used) \in Nat /\ MaxBlocks \in Nat
      /\ Len(h.free) + Len(h.used) + h.fresh = MaxBlocks
  BY HeapParts
<1>2. y \in Seq(Blocks) /\ Len(y) = Len(h.used) + 1
  <2>1. Block(h.top, num) \in Blocks
    BY <1>1, MadeBlockIs
  <2> QED BY <1>1, <2>1, PushIs
<1>3. m \in Int /\ t \in Int
  BY <1>1
<1>4. SoundLists(h.free, y, t)
  BY <1>1, PushTop
<1>5. g = [h EXCEPT !.used = y, !.fresh = m, !.top = t]
  <2>1. g = [h EXCEPT !.used = y, !.fresh = @ - 1, !.top = @ + num]
    BY DEF TakeFresh
  <2> QED BY <1>1, <2>1 DEF HeapRecord
<1>6. HasParts(g, h.free, y, m, t)
  <2> HIDE DEF y, m, t
  <2> QED BY <1>1, <1>2, <1>3, <1>5, UsedFreshTop
<1>7. Len(g.free) + Len(g.used) + g.fresh = MaxBlocks /\ g.fresh >= 0
  <2> DEFINE nf == Len(h.free)
             nu == Len(h.used)
             w == h.fresh
  <2>1. nf \in Nat /\ nu \in Nat /\ w \in Nat /\ w > 0 /\ nf + nu + w = MaxBlocks
    BY <1>1
  <2>2. nf + (nu + 1) + (w - 1) = MaxBlocks /\ w - 1 >= 0
    <3> HIDE DEF nf, nu, w
    <3> QED BY <2>1
  <2>3. Len(g.free) = nf /\ Len(g.used) = nu + 1 /\ g.fresh = w - 1
    <3> HIDE DEF y, t
    <3> QED BY <1>2, <1>6 DEF HasParts
  <2> QED BY <2>2, <2>3
<1>8. SoundHeap(g) /\ g.used = y
  <2> HIDE DEF y, m, t
  <2>1. /\ g \in HeapRecord /\ g.free = h.free /\ g.used = y /\ g.top = t
    BY <1>6 DEF HasParts
  <2> QED BY <1>4, <1>7, <2>1, SoundParts
<1>9. Base <= h.top
  BY <1>1 DEF SoundLists
<1> QED BY <1>1, <1>8, <1>9 DEF Given

\* alloc_block keeps the heap sound, and gives a block of at least the size
\* wanted or changes nothing.
LEMMA AllocIs ==
  ASSUME NEW h, SoundHeap(h), AllSolid(h.used),
         NEW n \in Nat, n + Alignment + Limit < WordSize,
         NEW r, r = AllocBlock(h, n)
  PROVE  \/ r.addr = NULL /\ r.heap = h
         \/ r.addr # NULL /\ Given(h, n, r.heap, r.addr)
<1> DEFINE num == RoundUp(n)
           fits == {i \in DOMAIN h.free : IsTop(h, h.free[i], num) \/ h.free[i].size >= num}
<1>1. num \in Nat /\ num >= n /\ num + Limit < WordSize
  BY RoundUpIs
<1>2. /\ SoundLists(h.free, h.used, h.top) /\ h.free \in Seq(Blocks)
      /\ h.top \in Nat /\ h.fresh \in Nat /\ DOMAIN h.free = 1 .. Len(h.free)
      /\ Len(h.free) \in Nat
  BY HeapParts, LenProperties
<1>3. h.top <= Limit /\ Limit \in Nat
  BY <1>2, LayoutAssumption DEF SoundLists
<1>4. NULL = 0 /\ Base > 0 /\ Base \in Nat
  BY LayoutAssumption DEF NULL
<1>5. ASSUME NEW g, NEW a, Given(h, n, g, a)
      PROVE  a # NULL
  BY <1>4, <1>5 DEF Given
<1> DEFINE i == Min(fits)
<1>6. r = IF fits # {} THEN [heap |-> TakeFree(h, i, num), addr |-> h.free[i].addr]
          ELSE IF h.fresh > 0 /\ (h.top + num) % WordSize <= Limit
            THEN [heap |-> TakeFresh(h, num), addr |-> h.top]
          ELSE [heap |-> h, addr |-> NULL]
  BY DEF AllocBlock
<1>7. CASE fits # {}
  <2>1. i \in fits
    <3>1. fits \in SUBSET Nat
      BY <1>2
    <3> HIDE DEF fits
    <3> QED BY <1>7, <3>1, LeastNat
  <2>2. i \in 1 .. Len(h.free) /\ (IsTop(h, h.free[i], num) \/ h.free[i].size >= num)
    <3> HIDE DEF i, num
    <3> QED BY <1>2, <2>1
  <2>3. r.heap = TakeFree(h, i, num) /\ r.addr = h.free[i].addr
    <3> HIDE DEF i, num, fits
    <3> QED BY <1>6, <1>7
  <2>4. Given(h, n, r.heap, r.addr)
    <3> HIDE DEF i, num, fits
    <3>1. Given(h, n, TakeFree(h, i, num), h.free[i].addr)
      BY <1>1, <2>2, TakeFreeIs
    <3> QED BY <2>3, <3>1
  <2> QED BY <1>5, <2>4
<1>8. CASE fits = {} /\ h.fresh > 0 /\ (h.top + num) % WordSize <= Limit
  <2>1. r.heap = TakeFresh(h, num) /\ r.addr = h.top
    <3> HIDE DEF i, num, fits
    <3> QED BY <1>6, <1>8
  <2>2. h.top + num <= Limit
    <3> HIDE DEF num
    <3> QED BY <1>1, <1>2, <1>3, <1>8, NoWrap
  <2>3. ASSUME NEW j \in 1 .. Len(h.free)
        PROVE  EndOf(h.free[j]) < h.top
    <3> DEFINE b == h.free[j]
    <3>1. b.addr \in Nat /\ EndOf(b) \in Nat /\ b.addr <= EndOf(b) /\ EndOf(b) <= h.top
      BY <1>2, ListEntries
    <3>2. ~IsTop(h, b, num)
      <4> HIDE DEF num
      <4> QED BY <1>2, <1>8
    <3> HIDE DEF num, b, fits
    <3>3. b.addr <= Limit /\ b.addr + num <= Limit
      BY <1>1, <1>2, <1>3, <2>2, <3>1
    <3>4. (b.addr + num) % WordSize = b.addr + num
      BY <1>1, <3>1, <3>3, NoWrap
    <3>5. ~(EndOf(b) >= h.top)
      BY <3>2, <3>3, <3>4 DEF IsTop
    <3>6. EndOf(b) < h.top
      BY <1>2, <3>1, <3>5
    <3> QED BY <3>6 DEF b
  <2>4. Given(h, n, TakeFresh(h, num), h.top)
    <3> HIDE DEF num, fits
    <3> QED BY <1>1, <1>8, <2>2, <2>3, TakeFreshIs
  <2>5. Given(h, n, r.heap, r.addr)
    BY <2>1, <2>4
  <2> QED BY <1>5, <2>5
<1>9. CASE fits = {} /\ ~(h.fresh > 0 /\ (h.top + num) % WordSize <= Limit)
  <2> HIDE DEF i, num, fits
  <2> QED BY <1>6, <1>9
<1> QED BY <1>7, <1>8, <1>9

\* free takes the newest block in use at the address, or does nothing.
LEMMA FreeIs ==
  ASSUME NEW h, SoundHeap(h), NEW a, NEW g, g = FreeBlock(h, a)
  PROVE  \/ g = h /\ \A j \in 1 .. Len(h.used) : h.used[j].addr # a
         \/ \E k \in 1 .. Len(h.used) :
              /\ h.used[k].addr = a /\ \A j \in 1 .. Len(h.used) : j < k => h.used[j].addr # a
              /\ g = Insert([h EXCEPT !.used = RemoveAt(h.used, k)], h.free, h.used[k])
<1> DEFINE found == {i \in DOMAIN h.used : h.used[i].addr = a}
           k == Min(found)
<1>1. DOMAIN h.used = 1 .. Len(h.used) /\ Len(h.used) \in Nat
  BY HeapParts, LenProperties
<1>2. g = IF found = {} THEN h
          ELSE Insert([h EXCEPT !.used = RemoveAt(h.used, k)], h.free, h.used[k])
  BY DEF FreeBlock
<1>3. CASE found = {}
  <2>1. g = h
    BY <1>2, <1>3
  <2> QED BY <1>1, <1>3, <2>1
<1>4. CASE found # {}
  <2>1. k \in found /\ \A j \in found : k <= j
    <3>1. found \in SUBSET Nat
      BY <1>1
    <3> HIDE DEF found
    <3> QED BY <1>4, <3>1, LeastNat
  <2>2. g = Insert([h EXCEPT !.used = RemoveAt(h.used, k)], h.free, h.used[k])
    BY <1>2, <1>4
  <2> HIDE DEF k
  <2>3. k \in 1 .. Len(h.used) /\ h.used[k].addr = a
    BY <1>1, <2>1
  <2>4. ASSUME NEW j \in 1 .. Len(h.used), j < k
        PROVE  h.used[j].addr # a
    <3>1. ~(k <= j)
      BY <1>1, <2>3, <2>4
    <3> QED BY <1>1, <2>1, <3>1
  <2> QED BY <2>2, <2>3, <2>4
<1> QED BY <1>3, <1>4

\* malloc_init.
LEMMA EmptyIs == SoundHeap(EmptyHeap) /\ AllSolid(EmptyHeap.used) /\ EmptyHeap.used = <<>>
<1>1. /\ EmptyHeap.free = <<>> /\ EmptyHeap.used = <<>>
      /\ EmptyHeap.fresh = MaxBlocks /\ EmptyHeap.top = Base
      /\ EmptyHeap \in HeapRecord
  BY LayoutAssumption DEF EmptyHeap, HeapRecord
<1>2. <<>> \in Seq(Blocks) /\ Len(<<>>) = 0
  OBVIOUS
<1>3. SoundLists(<<>>, <<>>, Base)
  <2>1. Base \in Nat /\ Base <= Limit
    BY LayoutAssumption
  <2>2. FreeSound(<<>>, Base) /\ UsedSound(<<>>, <<>>, Base) /\ UsedApart(<<>>) /\ FreeApart(<<>>, <<>>)
    BY DEF FreeSound, Spaced, UsedSound, UsedApart, FreeApart
  <2>3. Covered(<<>>, <<>>, Base)
    BY <2>1 DEF Covered
  <2> QED BY <1>2, <2>1, <2>2, <2>3 DEF SoundLists
<1>4. MaxBlocks \in Nat
  BY LayoutAssumption
<1>5. SoundHeap(EmptyHeap)
  <2>1. SoundLists(EmptyHeap.free, EmptyHeap.used, EmptyHeap.top)
    BY <1>1, <1>3
  <2>2. Len(EmptyHeap.free) + Len(EmptyHeap.used) + EmptyHeap.fresh = MaxBlocks
        /\ EmptyHeap.fresh >= 0
    BY <1>1, <1>2, <1>4
  <2> QED BY <1>1, <2>1, <2>2, SoundParts
<1>6. AllSolid(EmptyHeap.used)
  BY <1>1, <1>2 DEF AllSolid
<1> QED BY <1>1, <1>5, <1>6

-----------------------------------------------------------------------------
(* What callers hold.                                                      *)

\* What callers hold: areas with bytes, each in a block in use, at addresses of
\* their own.
Backed(b, used) ==
  \E i \in 1 .. Len(used) : used[i].addr = b.addr /\ used[i].size >= b.size

Held(areas, used) ==
  /\ \A b \in areas : b \in Blocks /\ b.size > 0 /\ Backed(b, used)
  /\ \A b, c \in areas : b # c => b.addr # c.addr

\* A newest block in use for s, the only one that may be empty.
Buffer(s, used) ==
  /\ s \in Blocks
  /\ Len(used) > 0 /\ used[1].addr = s.addr /\ used[1].size >= s.size
  /\ \A i \in 1 .. Len(used) : i # 1 => used[i].size > 0

\* No other block in use begins where a block with bytes does.
LEMMA OwnAddress ==
  ASSUME NEW h, SoundHeap(h), NEW i \in 1 .. Len(h.used), NEW j \in 1 .. Len(h.used),
         i # j, h.used[j].size > 0
  PROVE  h.used[i].addr # h.used[j].addr
<1> DEFINE u == h.used[i]
           v == h.used[j]
<1>1. SoundLists(h.free, h.used, h.top)
  BY HeapParts
<1>2. /\ u.addr \in Nat /\ u.size \in Nat /\ EndOf(u) \in Nat /\ u.addr <= EndOf(u)
      /\ (u.size = 0 <=> EndOf(u) = u.addr)
  BY SMTT(30), <1>1, ListEntries
<1>3. /\ v.addr \in Nat /\ v.size \in Nat /\ EndOf(v) \in Nat /\ v.addr <= EndOf(v)
      /\ (v.size = 0 <=> EndOf(v) = v.addr) /\ EndOf(v) <= h.top /\ h.top \in Nat
  BY SMTT(30), <1>1, ListEntries DEF SoundLists
<1>4. EndOf(u) <= v.addr \/ EndOf(v) <= u.addr
  BY <1>1 DEF SoundLists, UsedApart, Apart
<1>5. u.size = 0 => u.addr = h.top \/ \E k \in 1 .. Len(h.free) : h.free[k].addr = u.addr
  BY <1>1 DEF SoundLists, UsedSound
<1>6. ASSUME NEW k \in 1 .. Len(h.free), h.free[k].addr = v.addr
      PROVE  FALSE
  <2> DEFINE f == h.free[k]
  <2>1. /\ f.addr \in Nat /\ f.size \in Nat /\ EndOf(f) \in Nat /\ f.addr <= EndOf(f)
        /\ (f.size = 0 <=> EndOf(f) = f.addr) /\ (f.size = 0 => f.addr = h.top)
    BY SMTT(30), <1>1, ListEntries
  <2>2. EndOf(f) <= v.addr \/ EndOf(v) <= f.addr
    BY <1>1 DEF SoundLists, FreeApart, Apart
  <2>3. f.addr = v.addr /\ v.size > 0
    BY <1>6
  <2> HIDE DEF f, v
  <2> QED BY <1>3, <2>1, <2>2, <2>3
<1>7. v.size > 0
  OBVIOUS
<1> HIDE DEF u, v
<1>8. u.addr # v.addr
  BY <1>2, <1>3, <1>4, <1>5, <1>6, <1>7
<1> QED BY <1>8 DEF u, v

\* A successful request leaves what is held in place, at other addresses.
LEMMA GivenIs ==
  ASSUME NEW areas, NEW h, SoundHeap(h), Held(areas, h.used), AllSolid(h.used),
         NEW n \in Nat, NEW g, NEW a, Given(h, n, g, a)
  PROVE  /\ SoundHeap(g) /\ Held(areas, g.used)
         /\ Block(a, n) \in Blocks /\ Buffer(Block(a, n), g.used)
         /\ \A b \in areas : b.addr # a
         /\ Block(a, n).addr = a /\ Block(a, n).size = n
<1>1. SoundHeap(g) /\ a \in Nat
  BY DEF Given
<1>2. PICK m \in Nat : m >= n /\ g.used = <<Block(a, m)>> \o h.used
  BY DEF Given
<1>3. /\ Block(a, n) \in Blocks /\ Block(a, n).addr = a /\ Block(a, n).size = n
      /\ Block(a, m) \in Blocks /\ Block(a, m).addr = a /\ Block(a, m).size = m
  BY <1>1, MadeBlockIs
<1>4. h.used \in Seq(Blocks) /\ Len(h.used) \in Nat /\ g.used \in Seq(Blocks)
  BY <1>1, HeapParts
<1>5. IsPushed(h.used, Block(a, m), g.used)
  BY <1>2, <1>3, <1>4, UsedIs
<1>6. /\ 1 \in 1 .. Len(g.used) /\ g.used[1] = Block(a, m) /\ Len(g.used) = Len(h.used) + 1
      /\ \A p \in 1 .. Len(g.used) : p # 1 => \E q \in 1 .. Len(h.used) : g.used[p] = h.used[q]
  BY <1>5 DEF IsPushed
<1>7. ASSUME NEW q \in 1 .. Len(h.used)
      PROVE  \E p \in 1 .. Len(g.used) : p # 1 /\ g.used[p] = h.used[q]
  <2>1. q + 1 \in 1 .. Len(h.used) + 1 /\ q + 1 # 1 /\ q + 1 - 1 = q
    BY <1>4
  <2>2. (<<Block(a, m)>> \o h.used)[q + 1] = h.used[q]
    BY <1>3, <1>4, <2>1, PushIs
  <2> QED BY <1>2, <1>6, <2>1, <2>2
<1>8. ASSUME NEW b \in areas
      PROVE  b \in Blocks /\ b.size > 0 /\ Backed(b, g.used) /\ b.addr # a
  <2>1. b \in Blocks /\ b.size > 0 /\ b.size \in Nat
    BY BlockIs DEF Held
  <2>2. PICK q \in 1 .. Len(h.used) : h.used[q].addr = b.addr /\ h.used[q].size >= b.size
    BY DEF Held, Backed
  <2>3. PICK p \in 1 .. Len(g.used) : p # 1 /\ g.used[p] = h.used[q]
    BY <1>7
  <2>4. g.used[p].size > 0
    BY <2>3 DEF AllSolid
  <2>5. g.used[1].addr # g.used[p].addr
    BY <1>1, <1>6, <2>3, <2>4, OwnAddress
  <2> QED BY <1>3, <1>6, <2>1, <2>2, <2>3, <2>5 DEF Backed
<1>9. Held(areas, g.used)
  BY <1>8 DEF Held
<1>10. Buffer(Block(a, n), g.used)
  <2>1. ASSUME NEW p \in 1 .. Len(g.used), p # 1
        PROVE  g.used[p].size > 0
    BY <1>6, <2>1 DEF AllSolid
  <2>2. Len(g.used) > 0
    BY <1>4, <1>6
  <2> QED BY <1>2, <1>3, <1>6, <2>1, <2>2 DEF Buffer
<1> QED BY <1>1, <1>3, <1>8, <1>9, <1>10

\* Giving a block back leaves what is held at other addresses in place.
LEMMA GivenBack ==
  ASSUME NEW areas, NEW h, SoundHeap(h), Held(areas, h.used), NEW a,
         \A b \in areas : b.addr # a,
         \A j \in 1 .. Len(h.used) : h.used[j].addr = a \/ h.used[j].size > 0,
         \A i, j \in 1 .. Len(h.used) :
           h.used[i].addr = a /\ h.used[j].addr = a /\ h.used[j].size = 0 => j <= i,
         NEW g, g = FreeBlock(h, a)
  PROVE  /\ SoundHeap(g) /\ Held(areas, g.used)
         /\ (\E j \in 1 .. Len(h.used) : h.used[j].addr = a) => AllSolid(g.used)
<1>1. /\ h.used \in Seq(Blocks) /\ Len(h.used) \in Nat
      /\ \A j \in 1 .. Len(h.used) : h.used[j].size \in Nat
  BY HeapParts, EntryIs
<1>2. CASE g = h /\ \A j \in 1 .. Len(h.used) : h.used[j].addr # a
  BY <1>2
<1>3. ASSUME NEW k \in 1 .. Len(h.used), h.used[k].addr = a,
             \A j \in 1 .. Len(h.used) : j < k => h.used[j].addr # a,
             g = Insert([h EXCEPT !.used = RemoveAt(h.used, k)], h.free, h.used[k])
      PROVE  SoundHeap(g) /\ Held(areas, g.used) /\ AllSolid(g.used)
  <2>1. ASSUME NEW j \in 1 .. Len(h.used), j # k
        PROVE  h.used[j].size > 0
    <3>1. CASE h.used[j].addr # a
      BY <3>1
    <3>2. CASE h.used[j].addr = a
      <4>1. j > k
        BY <1>1, <1>3, <2>1, <3>2
      <4>2. h.used[j].size # 0
        BY <1>1, <1>3, <3>2, <4>1
      <4> QED BY <1>1, <4>2
    <3> QED BY <3>1, <3>2
  <2>2. SoundHeap(g) /\ g.used = RemoveAt(h.used, k)
    BY <1>3, <2>1, ReleaseHeap
  <2>3. IsRest(h.used, k, g.used)
    BY <1>1, <2>2, RestIs
  <2>4. AllSolid(g.used)
    <3> SUFFICES ASSUME NEW p \in 1 .. Len(g.used)
                 PROVE  g.used[p].size > 0
      BY DEF AllSolid
    <3>1. PICK q \in 1 .. Len(h.used) : q # k /\ g.used[p] = h.used[q]
      BY <2>3 DEF IsRest
    <3> QED BY <2>1, <3>1
  <2>5. ASSUME NEW b \in areas
        PROVE  Backed(b, g.used)
    <3>1. PICK q \in 1 .. Len(h.used) : h.used[q].addr = b.addr /\ h.used[q].size >= b.size
      BY DEF Held, Backed
    <3>2. q # k
      BY <1>3, <3>1
    <3>3. PICK p \in 1 .. Len(g.used) : g.used[p] = h.used[q]
      BY <2>3, <3>2 DEF IsRest
    <3> QED BY <3>1, <3>3 DEF Backed
  <2>6. Held(areas, g.used)
    BY <2>5 DEF Held
  <2> QED BY <2>2, <2>4, <2>6
<1>4. \/ g = h /\ \A j \in 1 .. Len(h.used) : h.used[j].addr # a
      \/ \E k \in 1 .. Len(h.used) :
           /\ h.used[k].addr = a /\ \A j \in 1 .. Len(h.used) : j < k => h.used[j].addr # a
           /\ g = Insert([h EXCEPT !.used = RemoveAt(h.used, k)], h.free, h.used[k])
  BY FreeIs
<1> QED BY <1>2, <1>3, <1>4

\* One area more, at an address no other one has.
LEMMA HeldMore ==
  ASSUME NEW areas, NEW used, Held(areas, used), NEW b \in Blocks, b.size > 0,
         Backed(b, used), \A c \in areas : c.addr # b.addr
  PROVE  Held(areas \cup {b}, used)
BY DEF Held

=============================================================================
