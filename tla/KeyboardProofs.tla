--------------------------- MODULE KeyboardProofs ---------------------------
(***************************************************************************)
(* Facts about the ring buffer operators, for every ring of two or more    *)
(* slots: a put appends, a put into a full ring also drops the oldest      *)
(* entry, a get removes the oldest.  Then the properties of ScancodeRing   *)
(* for every ring size, every number of interrupts and every interleaving, *)
(* and those of Keyboard for every size of its rings and every sequence of *)
(* key events.                                                             *)
(*                                                                         *)
(* The invariant of Keyboard speaks of the bytes that are queued or on the *)
(* wire through the decodings of them: sequences of flags, locks and       *)
(* characters, each from the one before by vt8242_process_scancode.        *)
(***************************************************************************)
EXTENDS ScancodeRing, Keyboard, SequenceTheorems, FiniteSetTheorems, WellFoundedInduction, TLAPS

-----------------------------------------------------------------------------
(* The operators of RingBuf.                                               *)

\* The index arithmetic of ringbuffer.c wraps exactly at the last slot.
LEMMA AfterWraps ==
  ASSUME NEW n \in Nat, n > 1, NEW i \in 0 .. n - 1
  PROVE  (i + 1) % n = IF i = n - 1 THEN 0 ELSE i + 1
<1>1. CASE i = n - 1
  BY <1>1
<1>2. CASE i # n - 1
  BY <1>2
<1> QED BY <1>1, <1>2

\* The indices of a ring, and their successors, are slots of its array.
LEMMA RingFields ==
  ASSUME NEW n \in Nat, n > 1, NEW Data, NEW rb \in Rings(n, Data)
  PROVE  /\ rb.buffer \in [0 .. n - 1 -> Data]
         /\ rb.head \in 0 .. n - 1
         /\ rb.tail \in 0 .. n - 1
         /\ rb.length = n
         /\ After(rb, rb.head) = IF rb.head = n - 1 THEN 0 ELSE rb.head + 1
         /\ After(rb, rb.tail) = IF rb.tail = n - 1 THEN 0 ELSE rb.tail + 1
<1>1. /\ rb.buffer \in [0 .. n - 1 -> Data]
      /\ rb.head \in 0 .. n - 1
      /\ rb.tail \in 0 .. n - 1
      /\ rb.length = n
  BY DEF Rings
<1>2. /\ (rb.head + 1) % n = IF rb.head = n - 1 THEN 0 ELSE rb.head + 1
      /\ (rb.tail + 1) % n = IF rb.tail = n - 1 THEN 0 ELSE rb.tail + 1
  BY <1>1, AfterWraps
<1> QED BY <1>1, <1>2 DEF After

\* A ring stays a ring under a put, and under a store of any index in the tail.
LEMMA PutType ==
  ASSUME NEW n \in Nat, n > 1, NEW Data, NEW rb \in Rings(n, Data), NEW c \in Data
  PROVE  RingPut(rb, c) \in Rings(n, Data)
<1>1. /\ rb.buffer \in [0 .. n - 1 -> Data]
      /\ rb.tail \in 0 .. n - 1
      /\ rb.length = n
      /\ After(rb, rb.head) \in 0 .. n - 1
      /\ After(rb, rb.tail) \in 0 .. n - 1
  <2>1. /\ rb.buffer \in [0 .. n - 1 -> Data] /\ rb.length = n
        /\ rb.head \in 0 .. n - 1 /\ rb.tail \in 0 .. n - 1
    BY RingFields
  <2>2. /\ After(rb, rb.head) = IF rb.head = n - 1 THEN 0 ELSE rb.head + 1
        /\ After(rb, rb.tail) = IF rb.tail = n - 1 THEN 0 ELSE rb.tail + 1
    BY RingFields
  <2> QED BY <2>1, <2>2
<1>2. [rb.buffer EXCEPT ![rb.head] = c] \in [0 .. n - 1 -> Data]
  BY <1>1
<1> QED BY <1>1, <1>2 DEF Rings, RingPut

\* A byte stored in a slot leaves a ring.
LEMMA StoreType ==
  ASSUME NEW n \in Nat, n > 1, NEW Data, NEW rb \in Rings(n, Data),
         NEW t \in 0 .. n - 1
  PROVE  [rb EXCEPT !.tail = t] \in Rings(n, Data)
BY DEF Rings

\* A ring of n slots holds at most n - 1 entries, and the two tests of
\* ringbuffer.h recognise none and n - 1.
LEMMA CountType ==
  ASSUME NEW n \in Nat, n > 1, NEW Data, NEW rb \in Rings(n, Data)
  PROVE  /\ Count(rb) \in 0 .. n - 1
         /\ RingEmpty(rb) <=> Count(rb) = 0
         /\ RingFull(rb) <=> Count(rb) = n - 1
<1>1. /\ rb.head \in 0 .. n - 1
      /\ rb.tail \in 0 .. n - 1
      /\ rb.length = n
      /\ After(rb, rb.head) = IF rb.head = n - 1 THEN 0 ELSE rb.head + 1
  BY RingFields
<1> QED BY <1>1 DEF Count, RingEmpty, RingFull

\* A put into a ring with room adds one entry, into a full ring none.
LEMMA PutCount ==
  ASSUME NEW n \in Nat, n > 1, NEW Data, NEW rb \in Rings(n, Data), NEW c \in Data
  PROVE  Count(RingPut(rb, c)) = IF RingFull(rb) THEN n - 1 ELSE Count(rb) + 1
<1>1. /\ rb.head \in 0 .. n - 1
      /\ rb.tail \in 0 .. n - 1
      /\ rb.length = n
      /\ After(rb, rb.head) = IF rb.head = n - 1 THEN 0 ELSE rb.head + 1
      /\ After(rb, rb.tail) = IF rb.tail = n - 1 THEN 0 ELSE rb.tail + 1
  BY RingFields
<1> QED BY <1>1 DEF Count, RingPut, RingFull

\* The entry a put leaves in place k: c in the last place, and otherwise the
\* entry that was there, or one place further on when the oldest was dropped.
LEMMA PutEntry ==
  ASSUME NEW n \in Nat, n > 1, NEW Data, NEW rb \in Rings(n, Data), NEW c \in Data,
         NEW k \in 0 .. Count(RingPut(rb, c)) - 1
  PROVE  RingPut(rb, c).buffer[SlotOf(RingPut(rb, c), k)] =
           IF k = Count(RingPut(rb, c)) - 1 THEN c
           ELSE IF RingFull(rb) THEN rb.buffer[SlotOf(rb, k + 1)]
           ELSE rb.buffer[SlotOf(rb, k)]
<1>1. /\ rb.buffer \in [0 .. n - 1 -> Data]
      /\ rb.head \in 0 .. n - 1
      /\ rb.tail \in 0 .. n - 1
      /\ rb.length = n
      /\ After(rb, rb.head) = IF rb.head = n - 1 THEN 0 ELSE rb.head + 1
      /\ After(rb, rb.tail) = IF rb.tail = n - 1 THEN 0 ELSE rb.tail + 1
  <2>1. rb.buffer \in [0 .. n - 1 -> Data]
    BY DEF Rings
  <2>2. /\ rb.head \in 0 .. n - 1 /\ rb.tail \in 0 .. n - 1 /\ rb.length = n
        /\ After(rb, rb.head) = IF rb.head = n - 1 THEN 0 ELSE rb.head + 1
        /\ After(rb, rb.tail) = IF rb.tail = n - 1 THEN 0 ELSE rb.tail + 1
    BY RingFields
  <2> QED BY <2>1, <2>2
<1>2. /\ Count(rb) \in 0 .. n - 1
      /\ RingFull(rb) <=> Count(rb) = n - 1
      /\ Count(RingPut(rb, c)) = IF RingFull(rb) THEN n - 1 ELSE Count(rb) + 1
  BY CountType, PutCount
<1>3. /\ RingPut(rb, c).buffer = [rb.buffer EXCEPT ![rb.head] = c]
      /\ RingPut(rb, c).length = n
      /\ RingPut(rb, c).tail = IF RingFull(rb) THEN After(rb, rb.tail) ELSE rb.tail
  BY <1>1 DEF RingPut, RingFull
<1>4. SlotOf(RingPut(rb, c), k) =
        IF RingFull(rb) THEN IF k = n - 2 THEN rb.head ELSE SlotOf(rb, k + 1)
        ELSE IF k = Count(rb) THEN rb.head ELSE SlotOf(rb, k)
  <2>1. Count(rb) = IF rb.head >= rb.tail THEN rb.head - rb.tail
                    ELSE rb.head - rb.tail + n
    BY <1>1 DEF Count
  <2>2. CASE RingFull(rb)
    <3>1. k \in 0 .. n - 2
      BY <2>2, <1>2
    <3>2. SlotOf(RingPut(rb, c), k) =
            IF After(rb, rb.tail) + k < n THEN After(rb, rb.tail) + k
            ELSE After(rb, rb.tail) + k - n
      BY <2>2, <1>3 DEF SlotOf
    <3>3. SlotOf(rb, k + 1) = IF rb.tail + (k + 1) < n THEN rb.tail + (k + 1)
                              ELSE rb.tail + (k + 1) - n
      BY <1>1 DEF SlotOf
    <3>4. k = n - 2 => SlotOf(RingPut(rb, c), k) = rb.head
      <4>1. rb.head = IF rb.tail = 0 THEN n - 1 ELSE rb.tail - 1
        BY <1>1, <2>2 DEF RingFull
      <4> QED BY <1>1, <3>1, <3>2, <4>1
    <3>5. k # n - 2 => SlotOf(RingPut(rb, c), k) = SlotOf(rb, k + 1)
      BY <1>1, <3>1, <3>2, <3>3
    <3> QED BY <2>2, <3>4, <3>5
  <2>3. CASE ~RingFull(rb)
    <3>1. k \in 0 .. Count(rb)
      BY <2>3, <1>2
    <3>2. SlotOf(RingPut(rb, c), k) = SlotOf(rb, k)
      BY <2>3, <1>1, <1>3 DEF SlotOf
    <3>3. SlotOf(rb, k) = IF rb.tail + k < n THEN rb.tail + k
                          ELSE rb.tail + k - n
      BY <1>1 DEF SlotOf
    <3>4. k = Count(rb) => SlotOf(rb, k) = rb.head
      <4>1. Count(rb) \in Nat
        BY <1>2
      <4>2. CASE rb.head >= rb.tail
        BY <1>1, <2>1, <3>3, <4>1, <4>2
      <4>3. CASE ~(rb.head >= rb.tail)
        BY <1>1, <2>1, <3>3, <4>1, <4>3
      <4> QED BY <4>2, <4>3
    <3> QED BY <2>3, <3>2, <3>4
  <2> QED BY <2>2, <2>3
<1>5. ASSUME NEW j \in 0 .. Count(rb) - 1
      PROVE  SlotOf(rb, j) \in 0 .. n - 1 /\ SlotOf(rb, j) # rb.head
  <2>1. SlotOf(rb, j) = IF rb.tail + j < n THEN rb.tail + j ELSE rb.tail + j - n
    BY <1>1 DEF SlotOf
  <2>2. j \in Nat /\ j < n
    BY <1>2
  <2>3. CASE rb.head >= rb.tail
    <3>1. j < rb.head - rb.tail
      BY <1>1, <1>2, <2>3 DEF Count
    <3> QED BY <1>1, <2>1, <2>2, <2>3, <3>1
  <2>4. CASE ~(rb.head >= rb.tail)
    <3>1. j < rb.head - rb.tail + n
      BY <1>1, <1>2, <2>4 DEF Count
    <3> QED BY <1>1, <2>1, <2>2, <2>4, <3>1
  <2> QED BY <2>3, <2>4
<1> QED BY <1>1, <1>2, <1>3, <1>4, <1>5

\* Storing the successor of the tail removes the oldest entry.
LEMMA DropEntry ==
  ASSUME NEW n \in Nat, n > 1, NEW Data, NEW rb \in Rings(n, Data), Count(rb) > 0,
         NEW new,
         new.buffer = rb.buffer, new.head = rb.head,
         new.tail = After(rb, rb.tail), new.length = rb.length
  PROVE  /\ Count(new) = Count(rb) - 1
         /\ \A k \in 0 .. Count(rb) - 2 :
              new.buffer[SlotOf(new, k)] = rb.buffer[SlotOf(rb, k + 1)]
<1>1. /\ rb.head \in 0 .. n - 1
      /\ rb.tail \in 0 .. n - 1
      /\ rb.length = n
      /\ After(rb, rb.tail) = IF rb.tail = n - 1 THEN 0 ELSE rb.tail + 1
  BY RingFields
<1>3. Count(rb) \in 1 .. n - 1
  BY CountType
<1>4. Count(new) = Count(rb) - 1
  BY <1>1, <1>3 DEF Count
<1>5. ASSUME NEW k \in 0 .. Count(rb) - 2
      PROVE  SlotOf(new, k) = SlotOf(rb, k + 1)
  <2>1. k + 1 < n
    BY <1>3
  <2> QED BY <1>1, <2>1 DEF SlotOf
<1> QED BY <1>4, <1>5

-----------------------------------------------------------------------------
(* The same for g_buf_scancode.                                            *)

\* The indices and the number of entries of the queue.
LEMMA RingFacts ==
  ASSUME ring \in Rings(Length, Nat)
  PROVE  /\ ring.buffer \in [0 .. Length - 1 -> Nat]
         /\ ring.head \in 0 .. Length - 1
         /\ ring.tail \in 0 .. Length - 1
         /\ ring.length = Length
         /\ After(ring, ring.head) =
              IF ring.head = Length - 1 THEN 0 ELSE ring.head + 1
         /\ After(ring, ring.tail) =
              IF ring.tail = Length - 1 THEN 0 ELSE ring.tail + 1
         /\ Count(ring) \in 0 .. Length - 1
         /\ RingEmpty(ring) <=> Count(ring) = 0
         /\ RingFull(ring) <=> Count(ring) = Length - 1
BY LengthAssumption, RingFields, CountType

-----------------------------------------------------------------------------
(* Type correctness.                                                       *)

\* Every access of the reader and of the interrupt handler keeps the types.
LEMMA TypeStep == TypeOK /\ [Next]_vars => TypeOK'
<1> SUFFICES ASSUME TypeOK, [Next]_vars PROVE TypeOK'
  OBVIOUS
<1> USE LengthAssumption, BoundAssumption
<1>0. /\ ring.buffer \in [0 .. Length - 1 -> Nat]
      /\ ring.head \in 0 .. Length - 1
      /\ ring.tail \in 0 .. Length - 1
      /\ After(ring, ring.tail) \in 0 .. Length - 1
  BY RingFacts DEF TypeOK
<1>1. CASE KeyboardInterrupt
  <2>1. RingPut(ring, arrived + 1) \in Rings(Length, Nat)
    BY PutType DEF TypeOK
  <2> QED BY <1>1, <2>1 DEF TypeOK, KeyboardInterrupt, reader, Steps
<1>2. CASE LoadHead
  BY <1>0, <1>2 DEF TypeOK, LoadHead, Steps
<1>3. CASE LoadTail
  BY <1>3 DEF TypeOK, LoadTail, Steps
<1>4. CASE LoadSlot
  BY <1>0, <1>4 DEF TypeOK, LoadSlot, Steps
<1>5. CASE ReadByte
  BY <1>0, <1>5 DEF TypeOK, ReadByte, Steps
<1>6. CASE LoadNext
  BY <1>0, <1>6 DEF TypeOK, LoadNext, Steps
<1>7. CASE StoreTail
  <2>0. /\ Length \in Nat /\ Length > 1
        /\ ring \in Rings(Length, Nat)
        /\ newTail \in 0 .. Length - 1
    BY DEF TypeOK, LengthAssumption
  <2>1. [ring EXCEPT !.tail = newTail] \in Rings(Length, Nat)
    BY ONLY <2>0, StoreType
  <2>2. Append(taken, byte) \in Seq(Nat)
    BY DEF TypeOK
  <2> QED BY <1>7, <2>1, <2>2 DEF TypeOK, StoreTail, Steps
<1>8. CASE UNCHANGED vars
  BY <1>8 DEF TypeOK, vars, reader
<1> QED BY <1>1, <1>2, <1>3, <1>4, <1>5, <1>6, <1>7, <1>8
        DEF Next, Access

\* The empty ring has its type.
LEMMA TypeInit == Init => TypeOK
BY LengthAssumption, BoundAssumption DEF Init, TypeOK, Rings, RingInit, Steps

\* Every index process_keyboard and the interrupt handler use lies inside
\* g_scancode_data, whatever the interleaving.
THEOREM TypeCorrect == Spec => []TypeOK
<1> QED BY TypeInit, TypeStep, PTL DEF Spec

-----------------------------------------------------------------------------
(* The inductive invariant.                                                *)

SafeInv == WindowInv /\ ReaderInv /\ TakenInv

\* The accesses of a pass that leave the shared ring alone.
LEMMA LoadStep ==
  ASSUME TypeOK, SafeInv,
         LoadHead \/ LoadTail \/ LoadSlot \/ ReadByte \/ LoadNext
  PROVE  SafeInv'
<1> USE LengthAssumption DEF SafeInv
<1>1. UNCHANGED <<ring, arrived, taken, overwrites>>
  BY DEF LoadHead, LoadTail, LoadSlot, ReadByte, LoadNext
<1>2. /\ Count(ring) \in 0 .. Length - 1
      /\ RingEmpty(ring) <=> Count(ring) = 0
      /\ RingFull(ring) <=> Count(ring) = Length - 1
      /\ ring.tail \in 0 .. Length - 1
      /\ ring.head \in 0 .. Length - 1
  BY RingFacts DEF TypeOK
<1>3. WindowInv'
  BY <1>1 DEF WindowInv, Oldest
<1>4. Count(ring) > 0 => ring.buffer[ring.tail] = Oldest
  <2>1. SlotOf(ring, 0) = ring.tail
    BY RingFacts DEF TypeOK, SlotOf
  <2>2. Count(ring) > 0 => 0 \in 0 .. Count(ring) - 1
    BY <1>2
  <2>3. arrived \in Int /\ Oldest + 0 = Oldest
    BY <1>2, BoundAssumption DEF TypeOK, Oldest
  <2> QED BY <2>1, <2>2, <2>3 DEF WindowInv
<1>5. CASE LoadHead
  <2>1. ReaderInv'
    BY <1>1, <1>5 DEF LoadHead, ReaderInv
  <2>2. TakenInv'
    BY <1>1, <1>5 DEF LoadHead, TakenInv, Ordered, LastTaken, Oldest
  <2> QED BY <1>3, <2>1, <2>2
<1>6. CASE LoadTail
  <2>1. ReaderInv'
    BY <1>1, <1>2, <1>6 DEF LoadTail, ReaderInv, RingEmpty
  <2>2. TakenInv'
    BY <1>1, <1>6 DEF LoadTail, TakenInv, Ordered, LastTaken, Oldest
  <2> QED BY <1>3, <2>1, <2>2
<1>7. CASE LoadSlot
  <2>1. ReaderInv'
    BY <1>1, <1>7 DEF LoadSlot, ReaderInv
  <2>2. TakenInv'
    BY <1>1, <1>4, <1>7
       DEF LoadSlot, TakenInv, Ordered, LastTaken, Oldest, ReaderInv
  <2> QED BY <1>3, <2>1, <2>2
<1>8. CASE ReadByte
  <2>1. ReaderInv'
    BY <1>1, <1>4, <1>8 DEF ReadByte, ReaderInv, Overtaken, Oldest
  <2>2. TakenInv'
    BY <1>1, <1>8 DEF ReadByte, TakenInv, Ordered, LastTaken, Oldest
  <2> QED BY <1>3, <2>1, <2>2
<1>9. CASE LoadNext
  <2>1. ReaderInv'
    BY <1>1, <1>9 DEF LoadNext, ReaderInv, Overtaken, Oldest, After
  <2>2. TakenInv'
    BY <1>1, <1>9 DEF LoadNext, TakenInv, Ordered, LastTaken, Oldest
  <2> QED BY <1>3, <2>1, <2>2
<1> QED BY <1>5, <1>6, <1>7, <1>8, <1>9

\* The end of a pass: the oldest entry leaves the ring, or, when the pass was
\* overtaken, the tail the handler has already moved is stored again.
LEMMA StoreStep ==
  ASSUME TypeOK, SafeInv, StoreTail
  PROVE  SafeInv'
<1> USE LengthAssumption DEF SafeInv
<1>1. /\ Count(ring) \in 1 .. Length - 1
      /\ RingFull(ring) => Count(ring) > 1
      /\ arrived \in Int /\ overwrites \in Int /\ byte \in Nat
      /\ taken \in Seq(Nat)
      /\ Oldest \in Int
  <2>1. Count(ring) \in 0 .. Length - 1 /\ Count(ring) > 0
    BY RingFacts DEF TypeOK, StoreTail, ReaderInv
  <2>2. RingFull(ring) <=> Count(ring) = Length - 1
    BY RingFacts DEF TypeOK
  <2> QED BY <2>1, <2>2, BoundAssumption DEF TypeOK, Oldest
<1>2. /\ arrived' = arrived /\ overwrites' = overwrites
      /\ taken' = Append(taken, byte)
      /\ pc' = "head"
  BY DEF StoreTail
<1>3. /\ LastTaken' = byte
      /\ Len(taken') = Len(taken) + 1
      /\ \A i \in 1 .. Len(taken) : taken'[i] = taken[i]
      /\ taken'[Len(taken) + 1] = byte
      /\ Ordered'
  <2>1. /\ Len(taken') = Len(taken) + 1
        /\ \A i \in 1 .. Len(taken) : taken'[i] = taken[i]
        /\ taken'[Len(taken) + 1] = byte
        /\ taken' # <<>>
    BY <1>1, <1>2, AppendProperties
  <2>2. LastTaken < byte /\ Ordered
    BY DEF StoreTail, TakenInv
  <2>3. Len(taken) \in Nat /\ (Len(taken) = 0 <=> taken = <<>>)
    BY <1>1
  <2>4. ASSUME NEW i \in 1 .. Len(taken')
        PROVE  taken'[i] > (IF i = 1 THEN 0 ELSE taken'[i - 1])
    <3>1. CASE i \in 1 .. Len(taken)
      BY <2>1, <2>2, <2>3, <3>1 DEF Ordered
    <3>2. CASE i = Len(taken) + 1
      BY <1>1, <2>1, <2>2, <2>3, <3>2 DEF LastTaken
    <3> QED BY <2>1, <2>3, <3>1, <3>2
  <2> QED BY <2>1, <2>4 DEF LastTaken, Ordered
<1>4. ReaderInv'
  BY <1>2 DEF ReaderInv
<1>5. CASE newTail = After(ring, ring.tail)
  <2>1. /\ ring'.buffer = ring.buffer
        /\ ring'.head = ring.head
        /\ ring'.tail = After(ring, ring.tail)
        /\ ring'.length = ring.length
    BY <1>5 DEF StoreTail, TypeOK, Rings
  <2>2. /\ Count(ring') = Count(ring) - 1
        /\ \A k \in 0 .. Count(ring) - 2 :
             ring'.buffer[SlotOf(ring', k)] = ring.buffer[SlotOf(ring, k + 1)]
    <3>1. ring \in Rings(Length, Nat) /\ Count(ring) > 0 /\ Length \in Nat /\ Length > 1
      BY <1>1 DEF TypeOK
    <3> QED BY <2>1, <3>1, DropEntry
  <2>3. Oldest' = Oldest + 1
    BY <1>1, <1>2, <2>2 DEF Oldest
  <2>4. WindowInv'
    <3>1. Count(ring') <= arrived'
      BY <1>1, <1>2, <2>2 DEF WindowInv
    <3>2. ASSUME NEW k \in 0 .. Count(ring') - 1
          PROVE  ring'.buffer[SlotOf(ring', k)] = Oldest' + k
      <4>1. k \in 0 .. Count(ring) - 2 /\ k + 1 \in 0 .. Count(ring) - 1
        BY <1>1, <2>2
      <4>2. ring'.buffer[SlotOf(ring', k)] = ring.buffer[SlotOf(ring, k + 1)]
        BY <2>2, <4>1
      <4>3. ring.buffer[SlotOf(ring, k + 1)] = Oldest + (k + 1)
        BY <4>1 DEF WindowInv
      <4> QED BY <1>1, <2>3, <4>2, <4>3
    <3> QED BY <3>1, <3>2 DEF WindowInv
  <2>5. TakenInv'
    <3>1. LastTaken' < Oldest' /\ (Count(ring') = 0 => LastTaken' = arrived')
      <4>1. byte = Oldest \/ (RingFull(ring) /\ byte = Oldest - 1)
        BY DEF StoreTail, ReaderInv, Overtaken
      <4>2. Count(ring') = 0 => Count(ring) = 1 /\ ~RingFull(ring)
        BY <1>1, <2>2
      <4>3. Count(ring) = 1 => Oldest = arrived
        BY <1>1 DEF Oldest
      <4> QED BY <1>1, <1>2, <1>3, <2>3, <4>1, <4>2, <4>3
    <3>2. Oldest' - 1 - Len(taken') <= overwrites'
      BY <1>1, <1>2, <1>3, <2>3 DEF TakenInv
    <3>3. overwrites' = 0 => /\ Len(taken') = Oldest' - 1
                             /\ \A i \in 1 .. Len(taken') : taken'[i] = i
      <4>1. overwrites = 0 => /\ byte = Oldest
                              /\ Len(taken) = Oldest - 1
                              /\ \A i \in 1 .. Len(taken) : taken[i] = i
        BY DEF StoreTail, ReaderInv, Overtaken, TakenInv
      <4> QED BY <1>1, <1>2, <1>3, <2>3, <4>1
    <3> QED BY <1>2, <1>3, <3>1, <3>2, <3>3 DEF TakenInv
  <2> QED BY <1>4, <2>4, <2>5
<1>6. CASE newTail = ring.tail /\ newTail # After(ring, ring.tail)
  <2>1. ring' = ring
    BY <1>6 DEF StoreTail, TypeOK, Rings
  <2>2. Overtaken /\ byte = Oldest - 1 /\ Oldest' = Oldest
    BY <1>2, <1>6, <2>1 DEF StoreTail, ReaderInv, Oldest
  <2>3. WindowInv'
    BY <1>2, <2>1, <2>2 DEF WindowInv
  <2>4. TakenInv'
    BY <1>1, <1>2, <1>3, <2>1, <2>2 DEF TakenInv, Overtaken
  <2> QED BY <1>4, <2>3, <2>4
<1> QED BY <1>5, <1>6 DEF StoreTail, ReaderInv

\* The interrupt handler: an entry is added; when the ring was full the oldest
\* one goes, and a pass that was about to return it is overtaken.
LEMMA InterruptStep ==
  ASSUME TypeOK, SafeInv, KeyboardInterrupt, Calm'
  PROVE  SafeInv'
<1> USE LengthAssumption DEF SafeInv
<1> DEFINE c == arrived + 1
<1>1. /\ arrived \in Int /\ overwrites \in Nat /\ byte \in Nat
      /\ taken \in Seq(Nat) /\ Len(taken) \in Nat
      /\ burst \in Nat
      /\ Count(ring) \in 0 .. Length - 1
      /\ RingFull(ring) <=> Count(ring) = Length - 1
      /\ RingEmpty(ring) <=> Count(ring) = 0
      /\ Oldest \in Int
  <2>1. Count(ring) \in 0 .. Length - 1
    BY RingFacts DEF TypeOK
  <2> QED BY <2>1, RingFacts, BoundAssumption DEF TypeOK, Oldest
<1>2. /\ ring' = RingPut(ring, c) /\ c \in Nat
      /\ arrived' = c
      /\ overwrites' = IF RingFull(ring) THEN overwrites + 1 ELSE overwrites
      /\ burst' = IF pc = "head" THEN burst ELSE burst + 1
      /\ pc' = pc /\ seenHead' = seenHead /\ slot' = slot /\ byte' = byte
      /\ newTail' = newTail /\ taken' = taken
  <2>1. c \in Nat
    BY BoundAssumption DEF TypeOK
  <2> QED BY <2>1 DEF KeyboardInterrupt, reader
<1>3. /\ Count(ring') = IF RingFull(ring) THEN Length - 1 ELSE Count(ring) + 1
      /\ Oldest' = IF RingFull(ring) THEN Oldest + 1 ELSE Oldest
  <2>1. ring \in Rings(Length, Nat) /\ Length \in Nat /\ Length > 1
    BY DEF TypeOK
  <2>2. Count(ring') = IF RingFull(ring) THEN Length - 1 ELSE Count(ring) + 1
    BY <1>2, <2>1, PutCount
  <2> QED BY <1>1, <1>2, <2>2 DEF Oldest
<1>4. WindowInv'
  <2>1. Count(ring') <= arrived'
    BY <1>1, <1>2, <1>3 DEF WindowInv
  <2>2. ASSUME NEW k \in 0 .. Count(ring') - 1
        PROVE  ring'.buffer[SlotOf(ring', k)] = Oldest' + k
    <3>1. ring'.buffer[SlotOf(ring', k)] =
            IF k = Count(ring') - 1 THEN c
            ELSE IF RingFull(ring) THEN ring.buffer[SlotOf(ring, k + 1)]
            ELSE ring.buffer[SlotOf(ring, k)]
      <4>1. ring \in Rings(Length, Nat) /\ Length \in Nat /\ Length > 1
        BY DEF TypeOK
      <4> QED BY <1>2, <4>1, PutEntry
    <3>2. CASE k = Count(ring') - 1
      BY SMTT(30), <1>1, <1>2, <1>3, <3>1, <3>2 DEF Oldest
    <3>3. CASE k # Count(ring') - 1 /\ RingFull(ring)
      <4>1. k + 1 \in 0 .. Count(ring) - 1
        BY <1>1, <1>3, <3>3
      <4>2. ring.buffer[SlotOf(ring, k + 1)] = Oldest + (k + 1)
        BY <4>1 DEF WindowInv
      <4>3. Oldest + (k + 1) = Oldest' + k
        BY <1>1, <1>3, <3>3
      <4> QED BY <3>1, <3>3, <4>2, <4>3
    <3>4. CASE k # Count(ring') - 1 /\ ~RingFull(ring)
      <4>1. k \in 0 .. Count(ring) - 1
        BY <1>1, <1>3, <3>4
      <4> QED BY <1>3, <3>1, <3>4, <4>1 DEF WindowInv
    <3> QED BY <3>2, <3>3, <3>4
  <2> QED BY <2>1, <2>2 DEF WindowInv
<1>5. /\ Count(ring) > 0 => ring.buffer[ring.tail] = Oldest
      /\ Count(ring) > 0 => ring'.buffer[ring.tail] = Oldest
      /\ ring'.tail = IF RingFull(ring) THEN After(ring, ring.tail) ELSE ring.tail
      /\ RingFull(ring) => ring'.head = ring.tail
      /\ After(ring', ring.tail) = After(ring, ring.tail)
  <2>1. /\ ring.buffer \in [0 .. Length - 1 -> Nat]
        /\ ring.head \in 0 .. Length - 1
        /\ ring.tail \in 0 .. Length - 1
        /\ ring.length = Length
    BY RingFacts DEF TypeOK
  <2>2. SlotOf(ring, 0) = ring.tail
    BY <2>1 DEF SlotOf
  <2>3. Count(ring) > 0 => ring.buffer[ring.tail] = Oldest
    <3>1. Count(ring) > 0 => 0 \in 0 .. Count(ring) - 1
      BY <1>1
    <3>2. Oldest + 0 = Oldest
      BY <1>1
    <3> QED BY <2>2, <3>1, <3>2 DEF WindowInv
  <2>4. /\ ring'.buffer = [ring.buffer EXCEPT ![ring.head] = c]
        /\ ring'.head = After(ring, ring.head)
        /\ ring'.length = ring.length
        /\ ring'.tail = IF RingFull(ring) THEN After(ring, ring.tail) ELSE ring.tail
    BY <1>2 DEF RingPut, RingFull
  <2>5. Count(ring) > 0 => ring.head # ring.tail
    BY <1>1 DEF RingEmpty
  <2> QED BY <2>1, <2>3, <2>4, <2>5 DEF RingFull, After
<1>6. CASE ~RingFull(ring)
  <2>1. /\ Count(ring') > 0 /\ Count(ring) >= 0
        /\ Oldest' = Oldest
        /\ overwrites' = overwrites
        /\ ring'.tail = ring.tail
        /\ ~Overtaken
    BY <1>1, <1>2, <1>3, <1>5, <1>6 DEF Overtaken
  <2>2. ReaderInv'
    BY <1>2, <1>5, <2>1 DEF ReaderInv
  <2>3. TakenInv'
    <3>1. pc = "byte" => LastTaken < ring'.buffer[slot]
      BY <1>5, <2>1 DEF ReaderInv, TakenInv
    <3> QED BY <1>2, <2>1, <3>1 DEF TakenInv, Ordered, LastTaken
  <2> QED BY <1>4, <2>2, <2>3
<1>7. CASE RingFull(ring)
  <2>1. /\ Count(ring') > 0 /\ Count(ring) > 0
        /\ Oldest' = Oldest + 1
        /\ overwrites' = overwrites + 1
        /\ ring'.tail = After(ring, ring.tail)
        /\ ring'.head = ring.tail
    BY <1>1, <1>2, <1>3, <1>5, <1>7
  <2>2. pc # "head" => Overtaken' /\ ~Overtaken
    <3>1. RingFull(ring')
      <4>1. ring' \in Rings(Length, Nat)
        BY <1>2, PutType DEF TypeOK
      <4>2. Count(ring') = Length - 1
        BY <1>3, <1>7
      <4>3. Length \in Nat /\ Length > 1
        OBVIOUS
      <4> QED BY <4>1, <4>2, <4>3, CountType
    <3>2. ~rushed'
      BY <1>1, <2>1 DEF Calm
    <3>3. ~(burst' > 1)
      BY <3>2 DEF KeyboardInterrupt
    <3>4. pc # "head" => burst = 0 /\ burst' = 1
      BY <1>1, <1>2, <3>3
    <3> QED BY <1>1, <2>1, <3>1, <3>4 DEF Overtaken
  <2>3. Oldest = Oldest' - 1
    BY <1>1, <2>1
  <2>4. ReaderInv'
    BY <1>2, <1>5, <2>1, <2>2, <2>3 DEF ReaderInv
  <2>5. TakenInv'
    <3>1. pc = "byte" => LastTaken < ring'.buffer[slot]
      BY <1>5, <2>1, <2>2 DEF ReaderInv, TakenInv
    <3>2. LastTaken < Oldest'
      BY <1>1, <2>1 DEF TakenInv, LastTaken
    <3>3. Oldest' - 1 - Len(taken) <= overwrites'
      BY <1>1, <2>1 DEF TakenInv
    <3> QED BY <1>1, <1>2, <2>1, <3>1, <3>2, <3>3 DEF TakenInv, Ordered, LastTaken
  <2> QED BY <1>4, <2>4, <2>5
<1> QED BY <1>6, <1>7

\* While no pass has been interrupted twice, every step keeps the invariant.
LEMMA InvStep == IInv /\ [Next]_vars => IInv'
<1> SUFFICES ASSUME IInv, [Next]_vars PROVE IInv'
  OBVIOUS
<1>1. TypeOK'
  BY TypeStep DEF IInv
<1>2. ASSUME Calm' PROVE SafeInv'
  <2>1. Calm
    BY <1>2, BoundAssumption
       DEF IInv, TypeOK, Calm, Next, Access, KeyboardInterrupt, LoadHead,
           LoadTail, LoadSlot, ReadByte, LoadNext, StoreTail, vars
  <2>2. TypeOK /\ SafeInv
    BY <2>1 DEF IInv, SafeInv
  <2>3. CASE KeyboardInterrupt
    BY <1>2, <2>2, <2>3, InterruptStep
  <2>4. CASE LoadHead \/ LoadTail \/ LoadSlot \/ ReadByte \/ LoadNext
    BY <2>2, <2>4, LoadStep
  <2>5. CASE StoreTail
    BY <2>2, <2>5, StoreStep
  <2>6. CASE UNCHANGED vars
    BY <2>2, <2>6
       DEF SafeInv, WindowInv, ReaderInv, TakenInv, Ordered, LastTaken, Oldest,
           Overtaken, vars, reader
  <2> QED BY <2>3, <2>4, <2>5, <2>6 DEF Next, Access
<1> QED BY <1>1, <1>2 DEF IInv, SafeInv

\* The invariant of the interleavings: the window of bytes not yet taken is in
\* the ring, and what the reader has loaded stays true until it stores.
THEOREM Invariance == Spec => []IInv
<1>1. Init => IInv
  <2> SUFFICES ASSUME Init PROVE IInv
    OBVIOUS
  <2>1. TypeOK
    BY TypeInit
  <2>2. Count(ring) = 0 /\ Oldest = 1
    BY DEF Init, RingInit, Count, Oldest
  <2> QED BY <2>1, <2>2
          DEF Init, IInv, WindowInv, ReaderInv, TakenInv, Ordered, LastTaken
<1> QED BY <1>1, InvStep, PTL DEF Spec

-----------------------------------------------------------------------------
(* What the invariant means.                                               *)

\* However often and wherever the handler interrupts process_keyboard, and for
\* every ring size: until a put overwrites an entry, the decoded bytes followed
\* by the queued bytes are exactly the received bytes.
THEOREM FifoCorrect == Spec => []FifoUntilOverflow
<1>1. IInv => FifoUntilOverflow
  <2> SUFFICES ASSUME IInv, overwrites = 0
               PROVE  taken \o Contents(ring) = [k \in 1 .. arrived |-> k]
    BY DEF FifoUntilOverflow
  <2> DEFINE n == Count(ring)
             all == [k \in 1 .. arrived |-> k]
  <2>1. /\ TypeOK /\ WindowInv
        /\ Len(taken) = arrived - n
        /\ \A i \in 1 .. Len(taken) : taken[i] = i
        /\ arrived \in Nat /\ n \in 0 .. Length - 1 /\ n <= arrived
    <3>1. /\ TypeOK /\ WindowInv
          /\ Len(taken) = Oldest - 1
          /\ \A i \in 1 .. Len(taken) : taken[i] = i
      BY DEF IInv, Calm, TakenInv
    <3>2. arrived \in Nat /\ n \in 0 .. Length - 1 /\ n <= arrived
      BY <3>1, RingFacts, BoundAssumption DEF TypeOK, WindowInv
    <3> QED BY <3>1, <3>2, LengthAssumption DEF Oldest
  <2>2. /\ Contents(ring) \in Seq(Nat) /\ Len(Contents(ring)) = n
        /\ \A k \in 1 .. n : Contents(ring)[k] = arrived - n + k
    <3>1. \A k \in 1 .. n : ring.buffer[SlotOf(ring, k - 1)] = arrived - n + k
      <4> SUFFICES ASSUME NEW k \in 1 .. n
                   PROVE  ring.buffer[SlotOf(ring, k - 1)] = arrived - n + k
        OBVIOUS
      <4>1. k - 1 \in 0 .. n - 1
        BY <2>1, LengthAssumption
      <4> QED BY <2>1, <4>1, LengthAssumption DEF WindowInv, Oldest
    <3>2. \A k \in 1 .. n : arrived - n + k \in Nat
      BY <2>1, LengthAssumption
    <3>3. n \in Nat
      BY <2>1, LengthAssumption
    <3>4. Contents(ring) = [k \in 1 .. n |-> ring.buffer[SlotOf(ring, k - 1)]]
      BY DEF Contents
    <3>5. Contents(ring) = [k \in 1 .. n |-> arrived - n + k]
      BY <3>1, <3>4
    <3> HIDE DEF n
    <3> QED BY <3>2, <3>3, <3>5
  <2>3. taken \in Seq(Nat)
    BY <2>1 DEF TypeOK
  <2>4. /\ taken \o Contents(ring) \in Seq(Nat)
        /\ Len(taken \o Contents(ring)) = arrived
        /\ \A i \in 1 .. arrived : (taken \o Contents(ring))[i] = i
    <3>1. /\ taken \o Contents(ring) \in Seq(Nat)
          /\ Len(taken \o Contents(ring)) = Len(taken) + Len(Contents(ring))
          /\ \A i \in 1 .. Len(taken) + Len(Contents(ring)) : (taken \o Contents(ring))[i] =
               IF i <= Len(taken) THEN taken[i]
               ELSE Contents(ring)[i - Len(taken)]
      BY <2>2, <2>3, ConcatProperties
    <3>2. Len(taken) + n = arrived
      BY <2>1, LengthAssumption
    <3> HIDE DEF n
    <3> QED BY <2>1, <2>2, <3>1, <3>2, LengthAssumption
  <2>5. all \in Seq(Nat) /\ Len(all) = arrived
    BY <2>1
  <2> QED BY <2>4, <2>5, SeqEqual
<1> QED BY <1>1, Invariance, PTL

\* While no pass is interrupted twice, bytes are decoded in the order of their
\* arrival and at most once, overflow or not.
THEOREM InOrderCorrect == Spec => []InOrder
<1>1. IInv => InOrder
  BY DEF IInv, InOrder, TakenInv
<1> QED BY <1>1, Invariance, PTL

\* While no pass is interrupted twice, an empty ring means that nothing is
\* waiting, overflow or not.
THEOREM EmptyCorrect == Spec => []EmptyMeansDrained
<1>1. IInv => EmptyMeansDrained
  <2> SUFFICES ASSUME IInv, Calm, RingEmpty(ring), arrived > 0
               PROVE  taken # <<>> /\ taken[Len(taken)] = arrived
    BY DEF EmptyMeansDrained
  <2>1. Count(ring) = 0
    BY RingFacts DEF IInv, TypeOK
  <2>2. LastTaken = arrived
    BY <2>1 DEF IInv, TakenInv
  <2> QED BY <2>2 DEF LastTaken
<1> QED BY <1>1, Invariance, PTL

\* While no pass is interrupted twice, a put into a full ring costs at most
\* one byte, the one it overwrites or the one the overtaken pass skips.
THEOREM LossCorrect == Spec => []LossBounded
<1>1. IInv => LossBounded
  <2> SUFFICES ASSUME IInv, Calm PROVE arrived - Len(taken) - Count(ring) <= overwrites
    BY DEF LossBounded
  <2>1. Oldest - 1 - Len(taken) <= overwrites
    BY DEF IInv, TakenInv
  <2>2. arrived \in Int /\ Count(ring) \in Int /\ Len(taken) \in Int
    BY RingFacts, BoundAssumption, LengthAssumption DEF IInv, TypeOK
  <2> QED BY <2>1, <2>2 DEF Oldest
<1> QED BY <1>1, Invariance, PTL

-----------------------------------------------------------------------------
(* What a ring stands for, as a sequence.                                  *)

\* The entries of a ring are a sequence of its data.
LEMMA ContentsType ==
  ASSUME NEW n \in Nat, n > 1, NEW Data, NEW rb \in Rings(n, Data)
  PROVE  /\ Contents(rb) \in Seq(Data)
         /\ Len(Contents(rb)) = Count(rb)
         /\ \A k \in 1 .. Count(rb) : Contents(rb)[k] = rb.buffer[SlotOf(rb, k - 1)]
<1>1. /\ Count(rb) \in 0 .. n - 1
  BY CountType
<1>2. /\ rb.buffer \in [0 .. n - 1 -> Data]
      /\ rb.head \in 0 .. n - 1 /\ rb.tail \in 0 .. n - 1 /\ rb.length = n
  BY RingFields
<1>3. \A k \in 1 .. Count(rb) : SlotOf(rb, k - 1) \in 0 .. n - 1
  BY <1>1, <1>2 DEF SlotOf
<1>4. Contents(rb) \in [1 .. Count(rb) -> Data]
  BY <1>2, <1>3 DEF Contents
<1> QED BY <1>1, <1>4 DEF Contents

\* A put appends a byte, and drops the oldest one when the ring is full.
LEMMA PutContents ==
  ASSUME NEW n \in Nat, n > 1, NEW Data, NEW rb \in Rings(n, Data), NEW c \in Data
  PROVE  Contents(RingPut(rb, c)) =
           Append(IF RingFull(rb) THEN Tail(Contents(rb)) ELSE Contents(rb), c)
<1> DEFINE new == RingPut(rb, c)
           old == IF RingFull(rb) THEN Tail(Contents(rb)) ELSE Contents(rb)
<1>1. new \in Rings(n, Data)
  BY PutType
<1>2. /\ Contents(rb) \in Seq(Data) /\ Len(Contents(rb)) = Count(rb)
      /\ \A k \in 1 .. Count(rb) : Contents(rb)[k] = rb.buffer[SlotOf(rb, k - 1)]
  BY ContentsType
<1>3. /\ Contents(new) \in Seq(Data) /\ Len(Contents(new)) = Count(new)
      /\ \A k \in 1 .. Count(new) : Contents(new)[k] = new.buffer[SlotOf(new, k - 1)]
  BY <1>1, ContentsType
<1>4. /\ Count(rb) \in 0 .. n - 1
      /\ RingFull(rb) <=> Count(rb) = n - 1
      /\ Count(new) = IF RingFull(rb) THEN n - 1 ELSE Count(rb) + 1
  BY CountType, PutCount
<1>5. /\ old \in Seq(Data)
      /\ Len(old) = Count(new) - 1
      /\ \A k \in 1 .. Count(new) - 1 :
           old[k] = IF RingFull(rb) THEN Contents(rb)[k + 1] ELSE Contents(rb)[k]
  BY <1>2, <1>4
<1>6. \A k \in 1 .. Count(new) :
        Contents(new)[k] = IF k = Count(new) THEN c
                           ELSE IF RingFull(rb) THEN Contents(rb)[k + 1] ELSE Contents(rb)[k]
  <2> SUFFICES ASSUME NEW k \in 1 .. Count(new)
               PROVE Contents(new)[k] = IF k = Count(new) THEN c
                       ELSE IF RingFull(rb) THEN Contents(rb)[k + 1] ELSE Contents(rb)[k]
    OBVIOUS
  <2>1. k - 1 \in 0 .. Count(new) - 1 /\ k - 1 + 1 = k
    BY <1>4
  <2>2. new.buffer[SlotOf(new, k - 1)] =
           IF k - 1 = Count(new) - 1 THEN c
           ELSE IF RingFull(rb) THEN rb.buffer[SlotOf(rb, k - 1 + 1)]
           ELSE rb.buffer[SlotOf(rb, k - 1)]
    BY <2>1, PutEntry
  <2>3. k # Count(new) /\ RingFull(rb) => Contents(rb)[k + 1] = rb.buffer[SlotOf(rb, k)]
    <3>1. SUFFICES ASSUME k # Count(new), RingFull(rb)
                   PROVE  Contents(rb)[k + 1] = rb.buffer[SlotOf(rb, k)]
      OBVIOUS
    <3>2. k + 1 \in 1 .. Count(rb) /\ k + 1 - 1 = k
      BY <3>1, <1>4
    <3> QED BY <3>2, <1>2
  <2>4. k # Count(new) /\ ~RingFull(rb) => Contents(rb)[k] = rb.buffer[SlotOf(rb, k - 1)]
    BY <1>2, <1>4
  <2> HIDE DEF new
  <2>5. k = Count(new) <=> k - 1 = Count(new) - 1
    BY <1>4
  <2> QED BY <1>3, <2>1, <2>2, <2>3, <2>4, <2>5
<1> HIDE DEF new, old
<1>7. /\ Append(old, c) \in Seq(Data) /\ Len(Append(old, c)) = Count(new)
      /\ \A k \in 1 .. Count(new) : Append(old, c)[k] = IF k = Count(new) THEN c ELSE old[k]
  BY <1>4, <1>5
<1>8. \A k \in 1 .. Count(new) : Append(old, c)[k] = Contents(new)[k]
  BY <1>5, <1>6, <1>7
<1>9. Contents(new) = Append(old, c)
  BY <1>3, <1>7, <1>8, SeqEqual
<1> QED BY <1>9 DEF new, old

\* A get takes the oldest byte.
LEMMA DropContents ==
  ASSUME NEW n \in Nat, n > 1, NEW Data, NEW rb \in Rings(n, Data), ~RingEmpty(rb)
  PROVE  /\ RingDrop(rb) \in Rings(n, Data)
         /\ Contents(rb) # <<>>
         /\ RingFront(rb) = Head(Contents(rb))
         /\ Contents(RingDrop(rb)) = Tail(Contents(rb))
<1> DEFINE new == RingDrop(rb)
<1>1. /\ rb.tail \in 0 .. n - 1 /\ rb.length = n
      /\ After(rb, rb.tail) \in 0 .. n - 1
  BY RingFields
<1>2. /\ Count(rb) \in 1 .. n - 1
  BY CountType
<1>3. new \in Rings(n, Data)
  BY <1>1, StoreType DEF RingDrop
<1>4. /\ Contents(rb) \in Seq(Data) /\ Len(Contents(rb)) = Count(rb)
      /\ \A k \in 1 .. Count(rb) : Contents(rb)[k] = rb.buffer[SlotOf(rb, k - 1)]
  BY ContentsType
<1>5. /\ Contents(new) \in Seq(Data) /\ Len(Contents(new)) = Count(new)
      /\ \A k \in 1 .. Count(new) : Contents(new)[k] = new.buffer[SlotOf(new, k - 1)]
  BY <1>3, ContentsType
<1>6. /\ new.buffer = rb.buffer /\ new.head = rb.head
      /\ new.tail = After(rb, rb.tail) /\ new.length = rb.length
  BY DEF RingDrop, Rings
<1>7. /\ Count(new) = Count(rb) - 1
      /\ \A k \in 0 .. Count(rb) - 2 :
           new.buffer[SlotOf(new, k)] = rb.buffer[SlotOf(rb, k + 1)]
  BY <1>2, <1>6, DropEntry
<1> HIDE DEF new
<1>8. /\ Tail(Contents(rb)) \in Seq(Data) /\ Len(Tail(Contents(rb))) = Count(new)
      /\ \A k \in 1 .. Count(new) : Tail(Contents(rb))[k] = Contents(rb)[k + 1]
  BY <1>2, <1>4, <1>7
<1>9. \A k \in 1 .. Count(new) : Tail(Contents(rb))[k] = Contents(new)[k]
  <2> SUFFICES ASSUME NEW k \in 1 .. Count(new) PROVE Tail(Contents(rb))[k] = Contents(new)[k]
    OBVIOUS
  <2>1. k - 1 \in 0 .. Count(rb) - 2 /\ k - 1 + 1 = k /\ k + 1 \in 1 .. Count(rb) /\ k + 1 - 1 = k
    BY <1>2, <1>7
  <2>2. Contents(rb)[k + 1] = rb.buffer[SlotOf(rb, k)]
    BY <1>4, <2>1
  <2>3. Contents(new)[k] = rb.buffer[SlotOf(rb, k)]
    BY <1>5, <1>7, <2>1
  <2> QED BY <1>8, <2>2, <2>3
<1>10. Contents(new) = Tail(Contents(rb))
  BY <1>5, <1>8, <1>9, SeqEqual
<1>11. RingFront(rb) = Head(Contents(rb)) /\ Contents(rb) # <<>>
  <2>1. SlotOf(rb, 0) = rb.tail
    BY <1>1 DEF SlotOf
  <2>2. Contents(rb)[1] = rb.buffer[rb.tail]
    BY <1>2, <1>4, <2>1
  <2> QED BY <1>2, <1>4, <2>2 DEF RingFront
<1> QED BY <1>3, <1>10, <1>11 DEF new

\* The empty ring.
LEMMA EmptyContents ==
  ASSUME NEW n \in Nat, n > 1, NEW Data, NEW rb \in Rings(n, Data)
  PROVE  RingEmpty(rb) <=> Contents(rb) = <<>>
<1>1. Contents(rb) \in Seq(Data) /\ Len(Contents(rb)) = Count(rb)
  BY ContentsType
<1>2. RingEmpty(rb) <=> Count(rb) = 0
  BY CountType
<1> QED BY <1>1, <1>2

-----------------------------------------------------------------------------
(* vt8242_process_scancode over a code: S[i], M[i] and D[i] are the flags, *)
(* the locks and the characters after i of its bytes.                      *)

Extended(d, chr) == IF chr = NoChar THEN d ELSE Append(d, chr)

Follows(S, w) == \A i \in 1 .. Len(w) : S[i] = NextState(S[i - 1], w[i])
Writes(S, M, D, w) ==
  \A i \in 1 .. Len(w) : /\ M[i] = NextMode(S[i - 1], M[i - 1], w[i])
                         /\ D[i] = Extended(D[i - 1], CharOf(S[i - 1], M[i - 1], w[i]))
From(F, k) == [i \in Nat |-> F[i + k]]

\* What follows one code and then another follows each of them.
LEMMA FollowsTwo ==
  ASSUME NEW u \in Seq(Bytes), NEW v \in Seq(Bytes), NEW S, Follows(S, u \o v)
  PROVE  Follows(S, u) /\ Follows(From(S, Len(u)), v)
<1>1. /\ Len(u) \in Nat /\ Len(v) \in Nat /\ Len(u \o v) = Len(u) + Len(v)
      /\ \A i \in 1 .. Len(u) : (u \o v)[i] = u[i]
      /\ \A i \in 1 .. Len(v) : (u \o v)[i + Len(u)] = v[i]
  OBVIOUS
<1>2. Follows(S, u)
  <2> SUFFICES ASSUME NEW i \in 1 .. Len(u) PROVE S[i] = NextState(S[i - 1], u[i])
    BY DEF Follows
  <2>1. i \in 1 .. Len(u \o v)
    BY <1>1
  <2> QED BY <1>1, <2>1 DEF Follows
<1>3. ASSUME NEW i \in 1 .. Len(v)
      PROVE From(S, Len(u))[i] = NextState(From(S, Len(u))[i - 1], v[i])
  <2>1. i + Len(u) \in 1 .. Len(u \o v) /\ (i + Len(u)) - 1 = (i - 1) + Len(u)
        /\ i \in Nat /\ i - 1 \in Nat
    BY <1>1
  <2>2. S[i + Len(u)] = NextState(S[(i - 1) + Len(u)], (u \o v)[i + Len(u)])
    BY <2>1 DEF Follows
  <2> QED BY <1>1, <2>1, <2>2 DEF From
<1> QED BY <1>2, <1>3 DEF Follows

\* The same for the locks and the characters.
LEMMA WritesTwo ==
  ASSUME NEW u \in Seq(Bytes), NEW v \in Seq(Bytes), NEW S, NEW M, NEW D,
         Writes(S, M, D, u \o v)
  PROVE  /\ Writes(S, M, D, u)
         /\ Writes(From(S, Len(u)), From(M, Len(u)), From(D, Len(u)), v)
<1>1. /\ Len(u) \in Nat /\ Len(v) \in Nat /\ Len(u \o v) = Len(u) + Len(v)
      /\ \A i \in 1 .. Len(u) : (u \o v)[i] = u[i]
      /\ \A i \in 1 .. Len(v) : (u \o v)[i + Len(u)] = v[i]
  OBVIOUS
<1>2. Writes(S, M, D, u)
  BY <1>1 DEF Writes
<1> DEFINE s == From(S, Len(u))
           m == From(M, Len(u))
           d == From(D, Len(u))
<1>3. ASSUME NEW i \in 1 .. Len(v)
      PROVE  /\ m[i] = NextMode(s[i - 1], m[i - 1], v[i])
             /\ d[i] = Extended(d[i - 1], CharOf(s[i - 1], m[i - 1], v[i]))
  <2>1. i + Len(u) \in 1 .. Len(u \o v) /\ (i + Len(u)) - 1 = (i - 1) + Len(u)
        /\ i \in Nat /\ i - 1 \in Nat
    BY <1>1
  <2> DEFINE j == (i - 1) + Len(u)
  <2>2. /\ M[i + Len(u)] = NextMode(S[j], M[j], (u \o v)[i + Len(u)])
        /\ D[i + Len(u)] = Extended(D[j], CharOf(S[j], M[j], (u \o v)[i + Len(u)]))
    BY <2>1 DEF Writes
  <2> QED BY <1>1, <2>1, <2>2 DEF From
<1> QED BY <1>2, <1>3 DEF Writes

-----------------------------------------------------------------------------
(* The codes of the keyboard, from flags x in which no break is pending.   *)

\* The flags after a make code, a break code and a fake shift.
AfterMake(k, x) ==
  IF IsShift(k) THEN x \cup {FlagOf(k)}
  ELSE IF k.code = ALT /\ (k.ext \/ "modifier" \in x) THEN (x \cup {"altgr"}) \ {"modifier"}
  ELSE x \ {"modifier"}
AfterBreak(k, x) ==
  (x \ {"modifier"}) \
    (IF IsShift(k) THEN {FlagOf(k)}
     ELSE IF k.code = ALT /\ (k.ext \/ "modifier" \in x) THEN {"altgr"} ELSE {})
ShiftFlag(code) == IF code = LSHIFT THEN "shiftL" ELSE "shiftR"
AfterSaying(code, shifts, down, x) ==
  IF code \notin shifts THEN x
  ELSE IF code \in down THEN x \cup {"modifier", ShiftFlag(code)}
  ELSE x \ {"modifier", ShiftFlag(code)}

\* The code of a key is none of the prefixes.
LEMMA KeyFacts ==
  ASSUME NEW k \in Keys
  PROVE  /\ k.ext \in BOOLEAN /\ k.code \in 0 .. 135
         /\ k.ext => k.code \notin {LSHIFT, RSHIFT, CAPSLOCK}
         /\ k.code # BREAK /\ k.code # EXTENDED /\ k.code \in Bytes
         /\ MakeCode(k) \in Seq(Bytes) /\ BreakCode(k) \in Seq(Bytes)
         /\ Len(MakeCode(k)) \in Nat /\ Len(BreakCode(k)) \in Nat
<1>1. /\ k.ext \in BOOLEAN /\ k.code \in 0 .. 135
      /\ k.ext => k.code \notin {LSHIFT, RSHIFT, CAPSLOCK}
  BY KeysAssumption
<1>2. k.code # BREAK /\ k.code # EXTENDED /\ k.code \in Bytes /\ BREAK \in Bytes /\ EXTENDED \in Bytes
  BY <1>1 DEF BREAK, EXTENDED, Bytes
<1>3. MakeCode(k) \in Seq(Bytes) /\ BreakCode(k) \in Seq(Bytes)
  BY <1>1, <1>2 DEF MakeCode, BreakCode
<1> QED BY <1>1, <1>2, <1>3

\* The bytes that vt8242_process_scancode tells apart.
LEMMA Apart ==
  /\ BREAK # EXTENDED /\ LSHIFT # RSHIFT /\ LSHIFT # ALT /\ RSHIFT # ALT
  /\ ALT # BREAK /\ ALT # EXTENDED
  /\ LSHIFT # BREAK /\ LSHIFT # EXTENDED /\ RSHIFT # BREAK /\ RSHIFT # EXTENDED
  /\ LSHIFT \in Bytes /\ RSHIFT \in Bytes /\ BREAK \in Bytes /\ EXTENDED \in Bytes
BY DEF BREAK, EXTENDED, LSHIFT, RSHIFT, ALT, Bytes

\* A make code sets the flag of its key and clears the prefix.
LEMMA MakeFlags ==
  ASSUME NEW k \in Keys, NEW S, Follows(S, MakeCode(k)), "break" \notin S[0]
  PROVE  S[Len(MakeCode(k))] = AfterMake(k, S[0])
<1> DEFINE c == k.code
<1>0. c # BREAK /\ c # EXTENDED /\ k.ext \in BOOLEAN /\ (k.ext => c \notin {LSHIFT, RSHIFT})
  BY KeyFacts
<1>1. \A s : "break" \notin s /\ "modifier" \in s /\ ~IsShift(k) /\ c \notin {LSHIFT, RSHIFT} =>
        NextState(s, c) = IF c = ALT THEN (s \cup {"altgr"}) \ {"modifier"} ELSE s \ {"modifier"}
  BY <1>0, Apart DEF NextState
<1>2. \A s : "break" \notin s /\ "modifier" \notin s /\ c \notin {LSHIFT, RSHIFT} =>
        NextState(s, c) = s \ {"modifier"}
  BY <1>0, Apart DEF NextState
<1>3. \A s : "break" \notin s /\ c \in {LSHIFT, RSHIFT} =>
        NextState(s, c) = s \cup {IF c = LSHIFT THEN "shiftL" ELSE "shiftR"}
  BY <1>0, Apart DEF NextState
<1>4. \A s : NextState(s, EXTENDED) = s \cup {"modifier"}
  BY Apart DEF NextState
<1>5. CASE k.ext
  <2>1. MakeCode(k) = <<EXTENDED, c>>
    BY <1>5 DEF MakeCode
  <2>2. S[1] = NextState(S[0], EXTENDED) /\ S[2] = NextState(S[1], c)
    BY <2>1 DEF Follows
  <2>3. S[1] = S[0] \cup {"modifier"}
    BY <1>4, <2>2
  <2>4. ~IsShift(k) /\ c \notin {LSHIFT, RSHIFT}
    BY <1>0, <1>5 DEF IsShift
  <2>5. S[2] = IF c = ALT THEN (S[1] \cup {"altgr"}) \ {"modifier"} ELSE S[1] \ {"modifier"}
    BY <1>1, <2>2, <2>3, <2>4
  <2>6. S[2] = AfterMake(k, S[0])
    BY <1>5, <2>3, <2>4, <2>5 DEF AfterMake
  <2> QED BY <2>1, <2>6
<1>6. CASE ~k.ext
  <2>1. MakeCode(k) = <<c>>
    BY <1>6 DEF MakeCode
  <2>2. S[1] = NextState(S[0], c)
    BY <2>1 DEF Follows
  <2>3. IsShift(k) <=> c \in {LSHIFT, RSHIFT}
    BY <1>6 DEF IsShift, ShiftCodes
  <2>4. IsShift(k) => FlagOf(k) = IF c = LSHIFT THEN "shiftL" ELSE "shiftR"
    BY <2>3, Apart DEF FlagOf
  <2>5. S[1] = AfterMake(k, S[0])
    BY <1>0, <1>1, <1>2, <1>3, <1>6, <2>2, <2>3, <2>4 DEF AfterMake
  <2> QED BY <2>1, <2>5
<1> QED BY <1>0, <1>5, <1>6

\* A break code clears the flag of its key and the prefix.
LEMMA BreakFlags ==
  ASSUME NEW k \in Keys, NEW S, Follows(S, BreakCode(k)), "break" \notin S[0]
  PROVE  S[Len(BreakCode(k))] = AfterBreak(k, S[0])
<1> DEFINE c == k.code
<1>0. c # BREAK /\ c # EXTENDED /\ k.ext \in BOOLEAN /\ (k.ext => c \notin {LSHIFT, RSHIFT})
  BY KeyFacts
<1>1. \A s : NextState(s, EXTENDED) = s \cup {"modifier"} /\ NextState(s, BREAK) = s \cup {"break"}
  BY Apart DEF NextState
<1>2. \A s : "break" \in s => NextState(s, c) = s \ ({"break", "modifier"} \cup Released(s, c))
  BY <1>0 DEF NextState
<1>3. IsShift(k) => c \in {LSHIFT, RSHIFT} /\ ~k.ext
                    /\ FlagOf(k) = IF c = LSHIFT THEN "shiftL" ELSE "shiftR"
  BY Apart DEF FlagOf, IsShift, ShiftCodes
<1>4. ~IsShift(k) => c \notin {LSHIFT, RSHIFT}
  BY <1>0 DEF IsShift, ShiftCodes
<1>5. \A s : Released(s, c) = IF IsShift(k) THEN {FlagOf(k)}
                              ELSE IF c = ALT /\ "modifier" \in s THEN {"altgr"} ELSE {}
  <2>1. CASE c = LSHIFT
    BY <2>1, <1>3, <1>4, Apart DEF Released
  <2>2. CASE c = RSHIFT
    BY <2>2, <1>3, <1>4, Apart DEF Released
  <2>3. CASE c # LSHIFT /\ c # RSHIFT
    <3>1. ~IsShift(k)
      BY <1>3, <2>3
    <3> QED BY <2>3, <3>1 DEF Released
  <2> QED BY <2>1, <2>2, <2>3
<1>6. CASE k.ext
  <2>1. BreakCode(k) = <<EXTENDED, BREAK, c>>
    BY <1>6 DEF BreakCode
  <2>2. S[1] = NextState(S[0], EXTENDED) /\ S[2] = NextState(S[1], BREAK) /\ S[3] = NextState(S[2], c)
    BY <2>1 DEF Follows
  <2>3. S[2] = (S[0] \cup {"modifier"}) \cup {"break"}
    BY <1>1, <2>2
  <2>4. S[3] = S[2] \ ({"break", "modifier"} \cup Released(S[2], c))
    BY <1>2, <2>2, <2>3
  <2>5. S[3] = AfterBreak(k, S[0])
    BY <1>5, <1>6, <2>3, <2>4 DEF AfterBreak
  <2> QED BY <2>1, <2>5
<1>7. CASE ~k.ext
  <2>1. BreakCode(k) = <<BREAK, c>>
    BY <1>7 DEF BreakCode
  <2>2. S[1] = NextState(S[0], BREAK) /\ S[2] = NextState(S[1], c)
    BY <2>1 DEF Follows
  <2>3. S[1] = S[0] \cup {"break"}
    BY <1>1, <2>2
  <2>4. S[2] = S[1] \ ({"break", "modifier"} \cup Released(S[1], c))
    BY <1>2, <2>2, <2>3
  <2>5. S[2] = AfterBreak(k, S[0])
    BY <1>5, <1>7, <2>3, <2>4 DEF AfterBreak
  <2> QED BY <2>1, <2>5
<1> QED BY <1>0, <1>6, <1>7

\* A fake shift sets or clears the flag of the shift key it names; what it sets
\* leaves the prefix behind.
LEMMA SayingFlags ==
  ASSUME NEW code \in {LSHIFT, RSHIFT}, NEW shifts, NEW down, NEW S,
         Follows(S, Saying(code, shifts, down)), "break" \notin S[0]
  PROVE  /\ Saying(code, shifts, down) \in Seq(Bytes)
         /\ S[Len(Saying(code, shifts, down))] = AfterSaying(code, shifts, down, S[0])
<1>1. \A s : NextState(s, EXTENDED) = s \cup {"modifier"} /\ NextState(s, BREAK) = s \cup {"break"}
  BY Apart DEF NextState
<1>2. \A s : "break" \in s => NextState(s, code) = s \ {"break", "modifier", ShiftFlag(code)}
  <2>1. \A s : Released(s, code) = {ShiftFlag(code)}
    BY Apart DEF Released, ShiftFlag
  <2>2. \A s : "break" \in s => NextState(s, code) = s \ ({"break", "modifier"} \cup Released(s, code))
    BY Apart DEF NextState
  <2> QED BY <2>1, <2>2
<1>3. \A s : "break" \notin s => NextState(s, code) = s \cup {ShiftFlag(code)}
  BY Apart DEF NextState, ShiftFlag
<1>4. CASE code \notin shifts
  <2>1. Saying(code, shifts, down) = <<>>
    BY <1>4 DEF Saying
  <2> QED BY <1>4, <2>1 DEF AfterSaying
<1>5. CASE code \in shifts /\ code \in down
  <2>1. Saying(code, shifts, down) = <<EXTENDED, code>>
    BY <1>5 DEF Saying
  <2>2. S[1] = NextState(S[0], EXTENDED) /\ S[2] = NextState(S[1], code)
    BY <2>1 DEF Follows
  <2>3. S[1] = S[0] \cup {"modifier"}
    BY <1>1, <2>2
  <2>4. S[2] = S[1] \cup {ShiftFlag(code)}
    BY <1>3, <2>2, <2>3
  <2>5. <<EXTENDED, code>> \in Seq(Bytes) /\ Len(<<EXTENDED, code>>) = 2
    BY Apart
  <2> QED BY <1>5, <2>1, <2>3, <2>4, <2>5 DEF AfterSaying
<1>6. CASE code \in shifts /\ code \notin down
  <2>1. Saying(code, shifts, down) = <<EXTENDED, BREAK, code>>
    BY <1>6 DEF Saying
  <2>2. S[1] = NextState(S[0], EXTENDED) /\ S[2] = NextState(S[1], BREAK) /\ S[3] = NextState(S[2], code)
    BY <2>1 DEF Follows
  <2>3. S[2] = (S[0] \cup {"modifier"}) \cup {"break"}
    BY <1>1, <2>2
  <2>4. S[3] = S[2] \ {"break", "modifier", ShiftFlag(code)}
    BY <1>2, <2>2, <2>3
  <2>5. <<EXTENDED, BREAK, code>> \in Seq(Bytes) /\ Len(<<EXTENDED, BREAK, code>>) = 3
    BY Apart
  <2>6. S[3] = S[0] \ {"modifier", ShiftFlag(code)}
    BY <2>3, <2>4
  <2> QED BY <1>6, <2>1, <2>5, <2>6 DEF AfterSaying
<1> QED BY <1>4, <1>5, <1>6

AfterSays(shifts, down, x) ==
  AfterSaying(RSHIFT, shifts, down, AfterSaying(LSHIFT, shifts, down, x))

\* A fake shift is a sequence of bytes.
LEMMA SayingType ==
  ASSUME NEW code \in {LSHIFT, RSHIFT}, NEW shifts, NEW down
  PROVE  /\ Saying(code, shifts, down) \in Seq(Bytes)
         /\ Len(Saying(code, shifts, down)) \in Nat
<1>1. /\ <<>> \in Seq(Bytes) /\ <<EXTENDED, code>> \in Seq(Bytes)
      /\ <<EXTENDED, BREAK, code>> \in Seq(Bytes)
  BY Apart
<1>2. Saying(code, shifts, down) \in Seq(Bytes)
  BY <1>1 DEF Saying
<1> QED BY <1>2

\* The fake shifts of a key, one after the other.
LEMMA SaysFlags ==
  ASSUME NEW shifts, NEW down, NEW S, Follows(S, Says(shifts, down)), "break" \notin S[0]
  PROVE  S[Len(Says(shifts, down))] = AfterSays(shifts, down, S[0])
<1> DEFINE u == Saying(LSHIFT, shifts, down)
           v == Saying(RSHIFT, shifts, down)
           T == From(S, Len(u))
<1>1. u \in Seq(Bytes) /\ v \in Seq(Bytes) /\ Len(u) \in Nat /\ Len(v) \in Nat
      /\ Len(u \o v) = Len(u) + Len(v)
  <2>1. u \in Seq(Bytes) /\ v \in Seq(Bytes)
    BY SayingType
  <2> QED BY <2>1
<1>2. Follows(S, u) /\ Follows(T, v)
  BY <1>1, FollowsTwo DEF Says
<1>3. S[Len(u)] = AfterSaying(LSHIFT, shifts, down, S[0])
  BY <1>2, SayingFlags
<1>4. T[0] = S[Len(u)]
  BY <1>1 DEF From
<1>5. "break" \notin T[0]
  BY <1>3, <1>4 DEF AfterSaying, ShiftFlag
<1>6. T[Len(v)] = AfterSaying(RSHIFT, shifts, down, T[0])
  BY <1>2, <1>5, SayingFlags
<1>7. T[Len(v)] = S[Len(v) + Len(u)]
  BY <1>1 DEF From
<1>8. Says(shifts, down) = u \o v /\ Len(v) + Len(u) = Len(u \o v)
  BY <1>1 DEF Says
<1> QED BY <1>3, <1>4, <1>6, <1>7, <1>8 DEF AfterSays

\* A fake shift and a break code write nothing and turn no lock.
LEMMA Silent ==
  ASSUME NEW s, NEW m, NEW d, NEW b, ~IsMake(s, b)
  PROVE  NextMode(s, m, b) = m /\ Extended(d, CharOf(s, m, b)) = d
BY DEF NextMode, Extended, CharOf

\* A fake shift turns no lock and writes nothing.
LEMMA SayingSilent ==
  ASSUME NEW code \in {LSHIFT, RSHIFT}, NEW shifts, NEW down, NEW S, NEW M, NEW D,
         Writes(S, M, D, Saying(code, shifts, down))
  PROVE  /\ M[Len(Saying(code, shifts, down))] = M[0]
         /\ D[Len(Saying(code, shifts, down))] = D[0]
<1> DEFINE w == Saying(code, shifts, down)
<1>1. \A s : ~IsMake(s, code) /\ ~IsMake(s, EXTENDED) /\ ~IsMake(s, BREAK)
  BY DEF IsMake
<1>2. \A s, m, d : NextMode(s, m, code) = m /\ Extended(d, CharOf(s, m, code)) = d
  BY <1>1, Silent
<1>3. \A s, m, d : NextMode(s, m, EXTENDED) = m /\ Extended(d, CharOf(s, m, EXTENDED)) = d
  BY <1>1, Silent
<1>4. \A s, m, d : NextMode(s, m, BREAK) = m /\ Extended(d, CharOf(s, m, BREAK)) = d
  BY <1>1, Silent
<1>5. CASE w = <<>>
  BY <1>5
<1>6. CASE w = <<EXTENDED, code>>
  <2>1. /\ M[1] = NextMode(S[0], M[0], EXTENDED) /\ M[2] = NextMode(S[1], M[1], code)
        /\ D[1] = Extended(D[0], CharOf(S[0], M[0], EXTENDED))
        /\ D[2] = Extended(D[1], CharOf(S[1], M[1], code))
    BY <1>6 DEF Writes
  <2>2. Len(w) = 2
    BY <1>6
  <2> QED BY <1>2, <1>3, <2>1, <2>2
<1>7. CASE w = <<EXTENDED, BREAK, code>>
  <2>1. /\ M[1] = NextMode(S[0], M[0], EXTENDED) /\ M[2] = NextMode(S[1], M[1], BREAK)
        /\ M[3] = NextMode(S[2], M[2], code)
        /\ D[1] = Extended(D[0], CharOf(S[0], M[0], EXTENDED))
        /\ D[2] = Extended(D[1], CharOf(S[1], M[1], BREAK))
        /\ D[3] = Extended(D[2], CharOf(S[2], M[2], code))
    BY <1>7 DEF Writes
  <2>2. Len(w) = 3
    BY <1>7
  <2> QED BY <1>2, <1>3, <1>4, <2>1, <2>2
<1> QED BY <1>5, <1>6, <1>7 DEF Saying

\* The fake shifts of a key turn no lock and write nothing.
LEMMA SaysSilent ==
  ASSUME NEW shifts, NEW down, NEW S, NEW M, NEW D, Writes(S, M, D, Says(shifts, down))
  PROVE  M[Len(Says(shifts, down))] = M[0] /\ D[Len(Says(shifts, down))] = D[0]
<1> DEFINE u == Saying(LSHIFT, shifts, down)
           v == Saying(RSHIFT, shifts, down)
<1>1. u \in Seq(Bytes) /\ v \in Seq(Bytes) /\ Len(u) \in Nat /\ Len(v) \in Nat
  BY SayingType
<1>2. Len(v) + Len(u) = Len(u \o v) /\ Says(shifts, down) = u \o v
  BY <1>1 DEF Says
<1>3. /\ Writes(S, M, D, u)
      /\ Writes(From(S, Len(u)), From(M, Len(u)), From(D, Len(u)), v)
  BY <1>1, <1>2, WritesTwo
<1>4. M[Len(u)] = M[0] /\ D[Len(u)] = D[0]
  BY <1>3, SayingSilent
<1>5. /\ From(M, Len(u))[Len(v)] = From(M, Len(u))[0]
      /\ From(D, Len(u))[Len(v)] = From(D, Len(u))[0]
  BY <1>3, SayingSilent
<1>6. \A F : From(F, Len(u))[Len(v)] = F[Len(v) + Len(u)] /\ From(F, Len(u))[0] = F[Len(u)]
  BY <1>1 DEF From
<1> QED BY <1>2, <1>4, <1>5, <1>6

\* A break code turns no lock and writes nothing.
LEMMA BreakSilent ==
  ASSUME NEW k \in Keys, NEW S, NEW M, NEW D, Follows(S, BreakCode(k)),
         Writes(S, M, D, BreakCode(k))
  PROVE  M[Len(BreakCode(k))] = M[0] /\ D[Len(BreakCode(k))] = D[0]
<1> DEFINE w == BreakCode(k)
           c == k.code
<1>1. \A s : ~IsMake(s, EXTENDED) /\ ~IsMake(s, BREAK) /\ ("break" \in s => ~IsMake(s, c))
  BY DEF IsMake
<1>2. \A s : "break" \in NextState(s, BREAK)
  BY Apart DEF NextState
<1>3. \A s, m, d : NextMode(s, m, EXTENDED) = m /\ Extended(d, CharOf(s, m, EXTENDED)) = d
  BY <1>1, Silent
<1>4. \A s, m, d : NextMode(s, m, BREAK) = m /\ Extended(d, CharOf(s, m, BREAK)) = d
  BY <1>1, Silent
<1>5. \A s, m, d : "break" \in s => NextMode(s, m, c) = m /\ Extended(d, CharOf(s, m, c)) = d
  BY <1>1, Silent
<1>6. CASE ~k.ext
  <2>1. w = <<BREAK, c>> /\ Len(w) = 2
    BY <1>6 DEF BreakCode
  <2>2. /\ M[1] = NextMode(S[0], M[0], BREAK) /\ M[2] = NextMode(S[1], M[1], c)
        /\ D[1] = Extended(D[0], CharOf(S[0], M[0], BREAK))
        /\ D[2] = Extended(D[1], CharOf(S[1], M[1], c))
        /\ S[1] = NextState(S[0], BREAK)
    BY <2>1 DEF Writes, Follows
  <2> QED BY <1>2, <1>4, <1>5, <2>1, <2>2
<1>7. CASE k.ext
  <2>1. w = <<EXTENDED, BREAK, c>> /\ Len(w) = 3
    BY <1>7 DEF BreakCode
  <2>2. /\ M[1] = NextMode(S[0], M[0], EXTENDED) /\ M[2] = NextMode(S[1], M[1], BREAK)
        /\ M[3] = NextMode(S[2], M[2], c)
        /\ D[1] = Extended(D[0], CharOf(S[0], M[0], EXTENDED))
        /\ D[2] = Extended(D[1], CharOf(S[1], M[1], BREAK))
        /\ D[3] = Extended(D[2], CharOf(S[2], M[2], c))
        /\ S[2] = NextState(S[1], BREAK)
    BY <2>1 DEF Writes, Follows
  <2> QED BY <1>2, <1>3, <1>4, <1>5, <2>1, <2>2
<1> QED BY <1>6, <1>7, KeyFacts

\* What a make code turns and writes.
KeyMode(k, m) == IF IsShift(k) THEN m ELSE Toggled(m, LockOf(k.code))
KeyChar(k, x, m) ==
  LET chr == IF k.ext \/ "modifier" \in x THEN KeymapExtended(k.code)
             ELSE IF x \cap {"shiftL", "shiftR"} # {} THEN KeymapShift(k.code)
             ELSE Keymap(k.code)
  IN  IF IsShift(k) THEN NoChar ELSE IF "caps" \in m THEN ToUpper(chr) ELSE chr

\* A make code turns the lock of its key, and writes its character.
LEMMA MakeWrites ==
  ASSUME NEW k \in Keys, NEW S, NEW M, NEW D, Follows(S, MakeCode(k)),
         Writes(S, M, D, MakeCode(k)), "break" \notin S[0]
  PROVE  /\ M[Len(MakeCode(k))] = KeyMode(k, M[0])
         /\ D[Len(MakeCode(k))] = Extended(D[0], KeyChar(k, S[0], KeyMode(k, M[0])))
<1> DEFINE w == MakeCode(k)
           c == k.code
<1>0. c # BREAK /\ c # EXTENDED /\ k.ext \in BOOLEAN /\ (k.ext => c \notin {LSHIFT, RSHIFT})
  BY KeyFacts
<1>1. IsShift(k) <=> c \in {LSHIFT, RSHIFT}
  BY <1>0 DEF IsShift, ShiftCodes
<1>2. \A s : "break" \notin s => (IsMake(s, c) <=> ~IsShift(k))
  BY <1>0, <1>1 DEF IsMake
<1>3. \A s, m : "break" \notin s => NextMode(s, m, c) = KeyMode(k, m)
  BY <1>2 DEF NextMode, KeyMode
<1>4. \A s, m : "break" \notin s /\ ~k.ext => CharOf(s, m, c) = KeyChar(k, s, KeyMode(k, m))
  BY <1>2, <1>3 DEF CharOf, KeyChar
<1>5. \A s, m : "break" \notin s /\ k.ext /\ "modifier" \in s =>
                  CharOf(s, m, c) = KeyChar(k, s, KeyMode(k, m))
  BY <1>2, <1>3 DEF CharOf, KeyChar
<1>6. \A s : ~IsMake(s, EXTENDED)
  BY DEF IsMake
<1>7. \A s, m, d : NextMode(s, m, EXTENDED) = m /\ Extended(d, CharOf(s, m, EXTENDED)) = d
  BY <1>6, Silent
<1>8. CASE ~k.ext
  <2>1. w = <<c>> /\ Len(w) = 1
    BY <1>8 DEF MakeCode
  <2>2. M[1] = NextMode(S[0], M[0], c) /\ D[1] = Extended(D[0], CharOf(S[0], M[0], c))
    BY <2>1 DEF Writes
  <2> QED BY <1>3, <1>4, <1>8, <2>1, <2>2
<1>9. CASE k.ext
  <2>1. w = <<EXTENDED, c>> /\ Len(w) = 2
    BY <1>9 DEF MakeCode
  <2>2. /\ M[1] = NextMode(S[0], M[0], EXTENDED) /\ M[2] = NextMode(S[1], M[1], c)
        /\ D[1] = Extended(D[0], CharOf(S[0], M[0], EXTENDED))
        /\ D[2] = Extended(D[1], CharOf(S[1], M[1], c))
        /\ S[1] = NextState(S[0], EXTENDED)
    BY <2>1 DEF Writes, Follows
  <2>3. S[1] = S[0] \cup {"modifier"}
    BY <2>2, Apart DEF NextState
  <2>4. "break" \notin S[1] /\ "modifier" \in S[1]
    BY <2>3
  <2>5. M[1] = M[0] /\ D[1] = D[0]
    BY <1>7, <2>2
  <2>6. M[2] = KeyMode(k, M[0])
    BY <1>3, <2>2, <2>4, <2>5
  <2>7. D[2] = Extended(D[0], KeyChar(k, S[1], KeyMode(k, M[0])))
    BY <1>5, <1>9, <2>2, <2>4, <2>5
  <2>8. KeyChar(k, S[1], KeyMode(k, M[0])) = KeyChar(k, S[0], KeyMode(k, M[0]))
    BY <1>9 DEF KeyChar
  <2> QED BY <2>1, <2>6, <2>7, <2>8
<1> QED BY <1>0, <1>8, <1>9

Before(F, x) == [i \in Nat |-> IF i = 0 THEN x ELSE F[i - 1]]

\* Decoding the first byte and then the others decodes the code.
LEMMA FollowsBefore ==
  ASSUME NEW w \in Seq(Bytes), w # <<>>, NEW s, NEW S,
         S[0] = NextState(s, Head(w)), Follows(S, Tail(w))
  PROVE  /\ Follows(Before(S, s), w)
         /\ Before(S, s)[0] = s
         /\ Before(S, s)[Len(w)] = S[Len(Tail(w))]
<1>1. /\ Len(w) \in Nat /\ Len(w) > 0 /\ Len(Tail(w)) = Len(w) - 1
      /\ Head(w) = w[1]
      /\ \A i \in 1 .. Len(w) - 1 : Tail(w)[i] = w[i + 1]
  BY EmptySeq
<1>2. Before(S, s)[0] = s /\ Before(S, s)[Len(w)] = S[Len(Tail(w))]
  BY <1>1 DEF Before
<1>3. ASSUME NEW i \in 1 .. Len(w)
      PROVE  Before(S, s)[i] = NextState(Before(S, s)[i - 1], w[i])
  <2>1. i \in Nat /\ i - 1 \in Nat /\ Before(S, s)[i] = S[i - 1]
    BY DEF Before
  <2>2. CASE i = 1
    BY <1>1, <2>1, <2>2 DEF Before
  <2>3. CASE i # 1
    <3>1. i - 1 \in 1 .. Len(Tail(w)) /\ (i - 1) + 1 = i /\ i - 1 # 0
      BY <1>1, <2>3
    <3>2. S[i - 1] = NextState(S[(i - 1) - 1], Tail(w)[i - 1])
      BY <3>1 DEF Follows
    <3>3. Tail(w)[i - 1] = w[i]
      BY <1>1, <3>1
    <3>4. Before(S, s)[i - 1] = S[(i - 1) - 1]
      BY <2>1, <3>1 DEF Before
    <3> QED BY <2>1, <3>2, <3>3, <3>4
  <2> QED BY <2>2, <2>3
<1> QED BY <1>2, <1>3 DEF Follows

\* The same for the locks and the characters.
LEMMA WritesBefore ==
  ASSUME NEW w \in Seq(Bytes), w # <<>>, NEW s, NEW m, NEW d, NEW S, NEW M, NEW D,
         S[0] = NextState(s, Head(w)), M[0] = NextMode(s, m, Head(w)),
         D[0] = Extended(d, CharOf(s, m, Head(w))), Writes(S, M, D, Tail(w))
  PROVE  /\ Writes(Before(S, s), Before(M, m), Before(D, d), w)
         /\ Before(M, m)[Len(w)] = M[Len(Tail(w))]
         /\ Before(D, d)[Len(w)] = D[Len(Tail(w))]
<1>1. /\ Len(w) \in Nat /\ Len(w) > 0 /\ Len(Tail(w)) = Len(w) - 1
      /\ Head(w) = w[1]
      /\ \A i \in 1 .. Len(w) - 1 : Tail(w)[i] = w[i + 1]
  BY EmptySeq
<1>2. /\ Before(M, m)[Len(w)] = M[Len(Tail(w))]
      /\ Before(D, d)[Len(w)] = D[Len(Tail(w))]
  BY <1>1 DEF Before
<1> DEFINE s1 == Before(S, s)
           m1 == Before(M, m)
           d1 == Before(D, d)
<1>3. ASSUME NEW i \in 1 .. Len(w)
      PROVE  /\ m1[i] = NextMode(s1[i - 1], m1[i - 1], w[i])
             /\ d1[i] = Extended(d1[i - 1], CharOf(s1[i - 1], m1[i - 1], w[i]))
  <2>1. i \in Nat /\ i - 1 \in Nat /\ m1[i] = M[i - 1] /\ d1[i] = D[i - 1]
    BY DEF Before
  <2>2. CASE i = 1
    <3>1. s1[0] = s /\ m1[0] = m /\ d1[0] = d
      BY DEF Before
    <3> QED BY <1>1, <2>1, <2>2, <3>1
  <2>3. CASE i # 1
    <3>1. i - 1 \in 1 .. Len(Tail(w)) /\ (i - 1) + 1 = i /\ i - 1 # 0
      BY <1>1, <2>3
    <3> DEFINE j == (i - 1) - 1
    <3>2. /\ M[i - 1] = NextMode(S[j], M[j], Tail(w)[i - 1])
          /\ D[i - 1] = Extended(D[j], CharOf(S[j], M[j], Tail(w)[i - 1]))
      BY <3>1 DEF Writes
    <3>3. Tail(w)[i - 1] = w[i]
      BY <1>1, <3>1
    <3>4. s1[i - 1] = S[j] /\ m1[i - 1] = M[j] /\ d1[i - 1] = D[j]
      BY <2>1, <3>1 DEF Before
    <3> QED BY <2>1, <3>2, <3>3, <3>4
  <2> QED BY <2>2, <2>3
<1> QED BY <1>2, <1>3 DEF Writes

-----------------------------------------------------------------------------
(* Type correctness.                                                       *)

\* The sizes of the two rings.
LEMMA CodeSizes ==
  /\ ScanLength \in Nat /\ ScanLength > 1 /\ PressLength \in Nat /\ PressLength > 1
  /\ REPLY \in Bytes /\ 0 \in Bytes
BY RingAssumption DEF REPLY, Bytes

\* What a byte writes is a byte, and what it turns is a lock.
LEMMA CharType ==
  ASSUME NEW s, NEW m, NEW b
  PROVE  CharOf(s, m, b) \in Bytes /\ LockOf(b) \subseteq {"caps", "num", "scroll"}
<1>1. /\ Keymap(b) \in Bytes /\ KeymapShift(b) \in Bytes /\ KeymapExtended(b) \in Bytes
      /\ NoChar \in Bytes /\ \A c \in Bytes : ToUpper(c) \in Bytes
  BY DEF Keymap, KeymapShift, KeymapExtended, ToUpper, NoChar, SMALL_A, LARGE_A, DIGIT_8,
         PS2_UPARROW, PS2_SCROLL, Bytes, KEY_A, KEY_8, SCROLLLOCK
<1>2. LockOf(b) \subseteq {"caps", "num", "scroll"}
  BY DEF LockOf, CAPSLOCK, NUMLOCK, SCROLLLOCK
<1> QED BY <1>1, <1>2 DEF CharOf

\* The character a key stands for is a byte.
LEMMA MeaningType == \A k, down, lk : Meaning(k, down, lk) \in Bytes
<1>1. \A b : /\ Keymap(b) \in Bytes /\ KeymapShift(b) \in Bytes /\ KeymapExtended(b) \in Bytes
      /\ NoChar \in Bytes /\ \A c \in Bytes : ToUpper(c) \in Bytes
  BY DEF Keymap, KeymapShift, KeymapExtended, ToUpper, NoChar, SMALL_A, LARGE_A, DIGIT_8,
         PS2_UPARROW, PS2_SCROLL, Bytes, KEY_A, KEY_8, SCROLLLOCK
<1> SUFFICES ASSUME NEW k, NEW down, NEW lk PROVE Meaning(k, down, lk) \in Bytes
  OBVIOUS
<1> DEFINE plain == CASE IsShift(k) -> NoChar
                      [] k.ext -> KeymapExtended(k.code)
                      [] OTHER -> IF \E h \in down : IsShift(h)
                                  THEN KeymapShift(k.code) ELSE Keymap(k.code)
<1>2. plain \in Bytes
  BY <1>1
<1> QED BY <1>1, <1>2 DEF Meaning

\* The flags after a byte are flags.
LEMMA FlagType ==
  ASSUME NEW s \in SUBSET Flags, NEW b
  PROVE  NextState(s, b) \in SUBSET Flags
BY DEF NextState, Flags

\* A keyboard lies about at most the two shift keys.
LEMMA LieType ==
  ASSUME KeyboardTypeOK, NEW k \in Keys
  PROVE  /\ ShiftsDown(held) \subseteq {LSHIFT, RSHIFT} /\ Lies(k) \subseteq {LSHIFT, RSHIFT}
         /\ \A c \in SUBSET {LSHIFT, RSHIFT} :
              /\ Cardinality(c) \in Nat
              /\ Cardinality(c) = 0 <=> c = {}
<1>1. ShiftsDown(held) \subseteq {LSHIFT, RSHIFT}
  BY DEF ShiftsDown, IsShift, ShiftCodes
<1>2. \A c \in SUBSET {LSHIFT, RSHIFT} :
              /\ Cardinality(c) \in Nat
              /\ Cardinality(c) = 0 <=> c = {}
  <2>1. IsFiniteSet({LSHIFT, RSHIFT})
    <3>1. IsFiniteSet({LSHIFT}) /\ {LSHIFT, RSHIFT} = {LSHIFT} \cup {RSHIFT}
      BY FS_Singleton
    <3> QED BY <3>1, FS_AddElement
  <2>2. \A c \in SUBSET {LSHIFT, RSHIFT} : IsFiniteSet(c)
    BY <2>1, FS_Subset
  <2> QED BY <2>2, FS_CardinalityType, FS_EmptySet
<1> QED BY <1>1, <1>2 DEF Lies

\* Fake shifts are a sequence of bytes.
LEMMA SaysType ==
  ASSUME NEW shifts, NEW down
  PROVE  Says(shifts, down) \in Seq(Bytes) /\ Len(Says(shifts, down)) \in Nat
<1>1. Saying(LSHIFT, shifts, down) \in Seq(Bytes) /\ Saying(RSHIFT, shifts, down) \in Seq(Bytes)
  BY SayingType
<1> QED BY <1>1 DEF Says

\* An empty ring has no contents.
LEMMA EmptyRing ==
  ASSUME NEW n \in Nat, n > 1, NEW Data, 0 \in Data
  PROVE  RingInit(n) \in Rings(n, Data) /\ Contents(RingInit(n)) = <<>>
<1>1. RingInit(n) \in Rings(n, Data)
  BY DEF RingInit, Rings
<1>2. RingEmpty(RingInit(n))
  BY DEF RingInit, RingEmpty
<1> QED BY <1>1, <1>2, EmptyContents

\* The state vt8242_init_buffers leaves is well typed.
LEMMA KeyboardTypeInit == InitBuffers => KeyboardTypeOK
<1> SUFFICES ASSUME InitBuffers PROVE KeyboardTypeOK
  OBVIOUS
<1>1. scancodes \in Rings(ScanLength, Bytes) /\ keypresses \in Rings(PressLength, Bytes)
  BY CodeSizes, EmptyRing DEF InitBuffers
<1>2. events \in 0 .. MaxEvents /\ locks \in 0 .. MaxLocks /\ fakes \in Nat /\ replies \in Nat
  BY BoundsAssumption DEF InitBuffers
<1>3. wire \in Seq(Bytes) /\ typed \in Seq(Bytes) /\ delivered \in Seq(Bytes)
  BY DEF InitBuffers
<1>4. /\ state = {} /\ mode = {} /\ held = {} /\ num \in BOOLEAN /\ faked = {} /\ locked = {}
      /\ lost = {} /\ intact \subseteq Keys /\ releasing = {}
  BY DEF InitBuffers
<1> QED BY <1>1, <1>2, <1>3, <1>4 DEF KeyboardTypeOK

\* A key that goes down keeps the types.
LEMMA MakeType ==
  ASSUME KeyboardTypeOK, NEW k \in Keys, KeyMake(k) PROVE KeyboardTypeOK'
<1> DEFINE lk == IF k.ext \/ IsShift(k) THEN locked ELSE Toggled(locked, LockOf(k.code))
           opposite == ShiftCodes \ ShiftsDown(held)
           chr == Meaning(k, held, lk)
           codes == Says(Lies(k), opposite) \o MakeCode(k)
<1>1. lk \subseteq {"caps", "num", "scroll"}
  BY CharType DEF KeyboardTypeOK, Toggled
<1>2. codes \in Seq(Bytes)
  BY SaysType, KeyFacts
<1>3. Lies(k) \subseteq {LSHIFT, RSHIFT} /\ Cardinality(Lies(k)) \in Nat
  BY LieType
<1>4. chr \in Bytes
  BY MeaningType
<1>5. typed' \in Seq(Bytes)
  BY <1>4 DEF KeyMake, KeyboardTypeOK
<1>6. /\ locked' = lk /\ wire' = codes /\ held' = held \cup {k} /\ faked' = faked \cup Lies(k)
      /\ events < MaxEvents /\ events' = events + 1
      /\ releasing' = {h \in held \ held' : IsHeldKey(h)}
      /\ intact' = intact \ Misled(Lies(k)) /\ fakes' = fakes + Cardinality(Lies(k))
      /\ lk # locked => locks < MaxLocks
      /\ locks' = IF lk # locked THEN locks + 1 ELSE locks
      /\ UNCHANGED <<scancodes, keypresses, state, mode, num, replies, delivered, lost>>
  BY DEF KeyMake, KeyEvent, driver
<1> HIDE DEF lk, codes
<1>7. locks' \in 0 .. MaxLocks /\ events' \in 0 .. MaxEvents /\ fakes' \in Nat
  BY <1>3, <1>6, BoundsAssumption DEF KeyboardTypeOK
<1> QED BY <1>1, <1>2, <1>3, <1>5, <1>6, <1>7 DEF KeyboardTypeOK

\* A key that comes up keeps the types.
LEMMA BreakType ==
  ASSUME KeyboardTypeOK, NEW k \in Keys, KeyBreak(k) PROVE KeyboardTypeOK'
<1> DEFINE truths == IF IsNavigation(k) THEN faked ELSE {}
           codes == BreakCode(k) \o Says(truths, ShiftsDown(held))
<1>1. codes \in Seq(Bytes)
  BY SaysType, KeyFacts
<1>2. truths \subseteq {LSHIFT, RSHIFT} /\ Cardinality(truths) \in Nat
  BY LieType DEF KeyboardTypeOK
<1>3. /\ wire' = codes /\ held' = held \ {k} /\ faked' = faked \ truths
      /\ events < MaxEvents /\ events' = events + 1
      /\ releasing' = {h \in held \ held' : IsHeldKey(h)}
      /\ intact' = intact \ Misled(truths) /\ fakes' = fakes + Cardinality(truths)
      /\ UNCHANGED <<scancodes, keypresses, state, mode, num, replies, delivered, lost, locked,
                     typed, locks>>
  BY DEF KeyBreak, KeyEvent, driver
<1> HIDE DEF codes, truths
<1>4. events' \in 0 .. MaxEvents /\ fakes' \in Nat
  BY <1>2, <1>3, BoundsAssumption DEF KeyboardTypeOK
<1> QED BY <1>1, <1>3, <1>4 DEF KeyboardTypeOK

\* The interrupt handler keeps the types.
LEMMA ReceiveType ==
  ASSUME KeyboardTypeOK, ReceiveCode \/ ReceiveReply PROVE KeyboardTypeOK'
<1>1. CASE ReceiveCode
  <2>1. Head(wire) \in Bytes /\ Tail(wire) \in Seq(Bytes)
    BY <1>1 DEF ReceiveCode, KeyboardTypeOK
  <2>2. RingPut(scancodes, Head(wire)) \in Rings(ScanLength, Bytes)
    BY <2>1, CodeSizes, PutType DEF KeyboardTypeOK
  <2> QED BY <1>1, <2>1, <2>2 DEF ReceiveCode, Receive, KeyboardTypeOK
<1>2. CASE ReceiveReply
  <2>1. RingPut(scancodes, REPLY) \in Rings(ScanLength, Bytes)
    BY CodeSizes, PutType DEF KeyboardTypeOK
  <2>2. replies - 1 \in Nat
    BY <1>2 DEF ReceiveReply, KeyboardTypeOK
  <2> QED BY <1>2, <2>1, <2>2 DEF ReceiveReply, Receive, KeyboardTypeOK
<1> QED BY <1>1, <1>2

\* A poll keeps the types, with or without the LED command of a lock key.
LEMMA PollType ==
  ASSUME KeyboardTypeOK, HasKey \/ GetKey PROVE KeyboardTypeOK'
<1>1. Queued \in Rings(PressLength, Bytes)
  <2>1. \A c \in Bytes : RingPut(keypresses, c) \in Rings(PressLength, Bytes)
    BY CodeSizes, PutType DEF KeyboardTypeOK
  <2> QED BY <2>1, CharType DEF Queued, KeyboardTypeOK
<1>2. keypresses' \in Rings(PressLength, Bytes) /\ delivered' \in Seq(Bytes)
  <2>1. CASE HasKey
    BY <1>1, <2>1 DEF HasKey, KeyboardTypeOK
  <2>2. CASE GetKey /\ RingEmpty(Queued)
    BY <1>1, <2>2 DEF GetKey, KeyboardTypeOK
  <2>3. CASE GetKey /\ ~RingEmpty(Queued)
    <3>1. RingDrop(Queued) \in Rings(PressLength, Bytes)
      BY <1>1, <2>3, CodeSizes, DropContents
    <3>2. RingFront(Queued) \in Bytes
      BY <1>1, CodeSizes, RingFields DEF RingFront
    <3>3. delivered \in Seq(Bytes)
      BY DEF KeyboardTypeOK
    <3>4. keypresses' = RingDrop(Queued) /\ delivered' = Append(delivered, RingFront(Queued))
      BY <2>3 DEF GetKey
    <3> QED BY <3>1, <3>2, <3>3, <3>4
  <2> QED BY <2>1, <2>2, <2>3
<1>3. ProcessKeyboard
  BY DEF HasKey, GetKey
<1>4. /\ scancodes' \in Rings(ScanLength, Bytes) /\ state' \subseteq Flags
      /\ mode' \subseteq {"caps", "num", "scroll"} /\ lost' \subseteq {"code", "char"}
      /\ num' \in BOOLEAN /\ replies' \in Nat
  <2>1. CASE RingEmpty(scancodes)
    BY <1>3, <2>1 DEF ProcessKeyboard, KeyboardTypeOK
  <2>2. CASE ~RingEmpty(scancodes)
    <3> DEFINE sc == RingFront(scancodes)
    <3>1. ProcessScancode(sc) /\ scancodes' = RingDrop(scancodes)
      BY <1>3, <2>2 DEF ProcessKeyboard
    <3>2. RingDrop(scancodes) \in Rings(ScanLength, Bytes)
      BY <2>2, CodeSizes, DropContents DEF KeyboardTypeOK
    <3> HIDE DEF sc
    <3>3. state' \subseteq Flags
      BY <3>1, FlagType DEF ProcessScancode, KeyboardTypeOK
    <3>4. mode' \subseteq {"caps", "num", "scroll"}
      <4>1. LockOf(sc) \subseteq {"caps", "num", "scroll"}
        BY CharType
      <4> QED BY <3>1, <4>1 DEF ProcessScancode, KeyboardTypeOK, NextMode, Toggled
    <3>5. lost' \subseteq {"code", "char"}
      BY <3>1 DEF ProcessScancode, KeyboardTypeOK
    <3>6. num' \in BOOLEAN /\ replies' \in Nat
      <4>1. num \in BOOLEAN /\ replies \in Nat
        BY DEF KeyboardTypeOK
      <4>2. CASE IsMake(state, sc) /\ LockOf(sc) # {}
        <5>1. PICK n \in 0 .. 2 : /\ replies' = replies + n
                                  /\ num' = IF n = 2 THEN "num" \in mode' ELSE num
          BY <3>1, <4>2 DEF ProcessScancode
        <5>2. replies' \in Nat
          BY <4>1, <5>1
        <5>3. num' \in BOOLEAN
          <6>1. CASE n = 2 /\ "num" \in mode'
            BY <5>1, <6>1
          <6>2. CASE n = 2 /\ "num" \notin mode'
            BY <5>1, <6>2
          <6>3. CASE n # 2
            BY <4>1, <5>1, <6>3
          <6> QED BY <6>1, <6>2, <6>3
        <5> QED BY <5>2, <5>3
      <4>3. CASE ~(IsMake(state, sc) /\ LockOf(sc) # {})
        BY <3>1, <4>1, <4>3 DEF ProcessScancode
      <4> QED BY <4>2, <4>3
    <3> QED BY <3>1, <3>2, <3>3, <3>4, <3>5, <3>6
  <2> QED BY <2>1, <2>2
<1> QED BY <1>2, <1>3, <1>4 DEF ProcessKeyboard, KeyboardTypeOK

\* Every step keeps the types.
LEMMA KeyboardTypeStep == KeyboardTypeOK /\ [KeyboardNext]_keyboardVars => KeyboardTypeOK'
<1> SUFFICES ASSUME KeyboardTypeOK, [KeyboardNext]_keyboardVars PROVE KeyboardTypeOK'
  OBVIOUS
<1>1. CASE \E k \in Keys : KeyMake(k) \/ KeyBreak(k)
  BY <1>1, MakeType, BreakType
<1>2. CASE ReceiveCode \/ ReceiveReply
  BY <1>2, ReceiveType
<1>3. CASE HasKey \/ GetKey
  BY <1>3, PollType
<1>4. CASE UNCHANGED keyboardVars
  BY <1>4 DEF keyboardVars, driver, keyboard, history, KeyboardTypeOK
<1> QED BY <1>1, <1>2, <1>3, <1>4 DEF KeyboardNext

-----------------------------------------------------------------------------
(* The shift and AltGr flags.                                              *)

\* The scancodes that are queued or on their way.
Pending == Contents(scancodes) \o wire

\* Flags s are right about the keys in reliable, when those in down are down.
Agree(s, reliable, down) ==
  /\ reliable # {} => "break" \notin s
  /\ (\E h \in reliable : ~IsShift(h)) => "modifier" \notin s
  /\ \A h \in reliable : FlagOf(h) \in s <=> h \in down

FlagsInv ==
  \A S : S[0] = state /\ Follows(S, Pending) =>
    /\ Agree(S[Len(Pending)], intact, held)
    /\ lost = {} => "break" \notin S[Len(Pending)]

HeldKeys == {k \in Keys : IsHeldKey(k)}

\* The flag of a shift or AltGr key is its own.
LEMMA FlagFacts ==
  ASSUME NEW h \in HeldKeys
  PROVE  /\ h \in Keys /\ h.ext \in BOOLEAN
         /\ IsShift(h) => /\ ~h.ext /\ h.code \in {LSHIFT, RSHIFT}
                          /\ FlagOf(h) = ShiftFlag(h.code)
         /\ ~IsShift(h) => h.ext /\ h.code = ALT /\ FlagOf(h) = "altgr"
         /\ \A k \in HeldKeys : FlagOf(k) = FlagOf(h) => k = h
<1>1. \A k \in HeldKeys : /\ k \in Keys /\ k = [ext |-> k.ext, code |-> k.code] /\ k.ext \in BOOLEAN
  BY KeysAssumption DEF HeldKeys
<1>2. \A k \in HeldKeys : IsShift(k) => /\ ~k.ext /\ k.code \in {LSHIFT, RSHIFT}
                                        /\ FlagOf(k) = ShiftFlag(k.code)
  BY Apart DEF HeldKeys, IsShift, ShiftCodes, FlagOf, ShiftFlag
<1>3. \A k \in HeldKeys : ~IsShift(k) => k.ext /\ k.code = ALT /\ FlagOf(k) = "altgr"
  BY Apart DEF HeldKeys, IsHeldKey, FlagOf
<1>4. \A k \in HeldKeys : FlagOf(k) = FlagOf(h) => k.ext = h.ext /\ k.code = h.code
  BY <1>1, <1>2, <1>3, Apart DEF ShiftFlag
<1> QED BY <1>1, <1>2, <1>3, <1>4

\* Fake shifts concern only the shift keys they name, and never AltGr.
LEMMA SaysKeeps ==
  ASSUME NEW lies \in SUBSET {LSHIFT, RSHIFT}, NEW down, NEW x, "break" \notin x
  PROVE  /\ "break" \notin AfterSays(lies, down, x)
         /\ lies = {} => AfterSays(lies, down, x) = x
         /\ \A c \in {LSHIFT, RSHIFT} \ lies :
              ShiftFlag(c) \in AfterSays(lies, down, x) <=> ShiftFlag(c) \in x
         /\ "altgr" \in AfterSays(lies, down, x) <=> "altgr" \in x
<1> DEFINE u == AfterSaying(LSHIFT, lies, down, x)
<1>1. /\ "break" \notin u /\ (LSHIFT \notin lies => u = x)
      /\ "shiftR" \in u <=> "shiftR" \in x
      /\ "altgr" \in u <=> "altgr" \in x
  BY DEF AfterSaying, ShiftFlag
<1> DEFINE v == AfterSaying(RSHIFT, lies, down, u)
<1> HIDE DEF u
<1>2. /\ "break" \notin v /\ (RSHIFT \notin lies => v = u)
      /\ "shiftL" \in v <=> "shiftL" \in u
      /\ "altgr" \in v <=> "altgr" \in u
  BY <1>1, Apart DEF AfterSaying, ShiftFlag
<1> HIDE DEF v
<1>3. AfterSays(lies, down, x) = v
  BY DEF AfterSays, u, v
<1>4. \A c \in {LSHIFT, RSHIFT} \ lies : ShiftFlag(c) \in v <=> ShiftFlag(c) \in x
  BY <1>1, <1>2, Apart DEF ShiftFlag
<1> QED BY <1>1, <1>2, <1>3, <1>4

\* A key about which the fake shifts leave the driver right.
LEMMA MisledFacts ==
  ASSUME NEW reliable \in SUBSET HeldKeys, NEW lies \in SUBSET {LSHIFT, RSHIFT},
         NEW h \in reliable \ Misled(lies)
  PROVE  /\ h \in HeldKeys /\ h \in reliable
         /\ IsShift(h) => h.code \in {LSHIFT, RSHIFT} \ lies
         /\ ~IsShift(h) => lies = {}
<1>1. h \in HeldKeys
  OBVIOUS
<1>2. IsShift(h) => h.code \in {LSHIFT, RSHIFT}
  BY <1>1, FlagFacts
<1>3. lies # {} => ~(IsShift(h) => h.code \in lies)
  BY <1>1 DEF Misled, HeldKeys
<1> QED BY <1>1, <1>2, <1>3

\* A key that goes down, with the lies told before its code.
LEMMA MakeAgrees ==
  ASSUME NEW k \in Keys, NEW x, NEW lies \in SUBSET {LSHIFT, RSHIFT}, NEW told,
         NEW reliable \in SUBSET HeldKeys, NEW down,
         "break" \notin x, Agree(x, reliable, down)
  PROVE  /\ "break" \notin AfterMake(k, AfterSays(lies, told, x))
         /\ Agree(AfterMake(k, AfterSays(lies, told, x)), reliable \ Misled(lies), down \cup {k})
<1> DEFINE y == AfterSays(lies, told, x)
           z == AfterMake(k, y)
<1>1. /\ "break" \notin y
      /\ lies = {} => y = x
      /\ \A c \in {LSHIFT, RSHIFT} \ lies : ShiftFlag(c) \in y <=> ShiftFlag(c) \in x
      /\ "altgr" \in y <=> "altgr" \in x
  BY SaysKeeps
<1> HIDE DEF y
<1>0. k.ext \in BOOLEAN /\ k.code \in 0 .. 135 /\ (IsHeldKey(k) => k \in HeldKeys)
      /\ (IsShift(k) => k \in HeldKeys)
  BY KeyFacts DEF HeldKeys, IsHeldKey
<1>2. IsShift(k) => z = y \cup {FlagOf(k)} /\ FlagOf(k) \in {"shiftL", "shiftR"}
  BY <1>0, FlagFacts DEF AfterMake, ShiftFlag
<1>3. ~IsShift(k) => /\ "modifier" \notin z
                     /\ "shiftL" \in z <=> "shiftL" \in y
                     /\ "shiftR" \in z <=> "shiftR" \in y
                     /\ "break" \notin z
                     /\ "altgr" \in z <=>
                          \/ "altgr" \in y
                          \/ k.code = ALT /\ (k.ext \/ "modifier" \in y)
  BY <1>1 DEF AfterMake
<1>4. "break" \notin z
  BY <1>1, <1>2, <1>3
<1> HIDE DEF z
<1>5. ASSUME NEW h \in reliable \ Misled(lies)
      PROVE  /\ FlagOf(h) \in z <=> h \in down \cup {k}
             /\ ~IsShift(h) => "modifier" \notin z
  <2>0. h \in HeldKeys /\ h \in reliable
    BY MisledFacts
  <2>1. FlagOf(h) \in x <=> h \in down
    BY <2>0 DEF Agree
  <2>2. CASE IsShift(h)
    <3>1. h.code \in {LSHIFT, RSHIFT} \ lies /\ FlagOf(h) = ShiftFlag(h.code)
      BY <2>0, <2>2, MisledFacts, FlagFacts
    <3>2. FlagOf(h) \in y <=> FlagOf(h) \in x
      BY <1>1, <3>1
    <3>3. FlagOf(h) \in z <=> FlagOf(h) \in y \/ h = k
      <4>1. CASE IsShift(k)
        <5>1. FlagOf(k) = FlagOf(h) <=> k = h
          BY <1>0, <2>0, <4>1, FlagFacts
        <5> QED BY <1>2, <4>1, <5>1
      <4>2. CASE ~IsShift(k)
        <5>1. h # k
          BY <2>2, <4>2
        <5>2. FlagOf(h) \in {"shiftL", "shiftR"}
          BY <3>1 DEF ShiftFlag
        <5> QED BY <1>3, <4>2, <5>1, <5>2
      <4> QED BY <4>1, <4>2
    <3> QED BY <2>1, <2>2, <3>2, <3>3
  <2>3. CASE ~IsShift(h)
    <3>1. lies = {} /\ h.ext /\ h.code = ALT /\ FlagOf(h) = "altgr"
      BY <2>0, <2>3, MisledFacts, FlagFacts
    <3>2. "modifier" \notin x /\ y = x
      BY <1>1, <2>0, <2>3, <3>1 DEF Agree
    <3>3. "modifier" \notin z
      BY <1>2, <1>3, <3>2
    <3>4. k.code = ALT /\ k.ext <=> k = h
      <4>1. k.code = ALT /\ k.ext => k \in HeldKeys /\ FlagOf(k) = "altgr"
        BY Apart DEF HeldKeys, IsHeldKey, FlagOf
      <4> QED BY <2>0, <3>1, <4>1, FlagFacts
    <3>5. "altgr" \in z <=> "altgr" \in x \/ k = h
      <4>1. CASE IsShift(k)
        BY <1>2, <2>3, <3>2, <4>1
      <4>2. CASE ~IsShift(k)
        BY <1>3, <3>2, <3>4, <4>2
      <4> QED BY <4>1, <4>2
    <3> QED BY <2>1, <3>1, <3>3, <3>5
  <2> QED BY <2>2, <2>3
<1>6. Agree(z, reliable \ Misled(lies), down \cup {k})
  BY <1>4, <1>5 DEF Agree
<1> QED BY <1>4, <1>6 DEF y, z

\* A key that comes up, with the truths told after its code.
LEMMA BreakAgrees ==
  ASSUME NEW k \in Keys, NEW x, NEW lies \in SUBSET {LSHIFT, RSHIFT}, NEW told,
         NEW reliable \in SUBSET HeldKeys, NEW down,
         "break" \notin x, Agree(x, reliable, down)
  PROVE  /\ "break" \notin AfterSays(lies, told, AfterBreak(k, x))
         /\ Agree(AfterSays(lies, told, AfterBreak(k, x)), reliable \ Misled(lies), down \ {k})
<1> DEFINE y == AfterBreak(k, x)
           z == AfterSays(lies, told, y)
<1>0. k.ext \in BOOLEAN /\ k.code \in 0 .. 135 /\ (IsShift(k) => k \in HeldKeys)
  BY KeyFacts DEF HeldKeys, IsHeldKey
<1>1. "break" \notin y /\ "modifier" \notin y
  BY DEF AfterBreak
<1>2. IsShift(k) => y = x \ {"modifier", FlagOf(k)} /\ FlagOf(k) \in {"shiftL", "shiftR"}
  BY <1>0, FlagFacts DEF AfterBreak, ShiftFlag
<1>3. ~IsShift(k) => /\ "shiftL" \in y <=> "shiftL" \in x
                     /\ "shiftR" \in y <=> "shiftR" \in x
                     /\ "altgr" \in y <=>
                          /\ "altgr" \in x
                          /\ ~(k.code = ALT /\ (k.ext \/ "modifier" \in x))
  BY DEF AfterBreak
<1> HIDE DEF y
<1>4. /\ "break" \notin z
      /\ lies = {} => z = y
      /\ \A c \in {LSHIFT, RSHIFT} \ lies : ShiftFlag(c) \in z <=> ShiftFlag(c) \in y
      /\ "altgr" \in z <=> "altgr" \in y
  BY <1>1, SaysKeeps
<1> HIDE DEF z
<1>5. ASSUME NEW h \in reliable \ Misled(lies)
      PROVE  /\ FlagOf(h) \in z <=> h \in down \ {k}
             /\ ~IsShift(h) => "modifier" \notin z
  <2>0. h \in HeldKeys /\ h \in reliable
    BY MisledFacts
  <2>1. FlagOf(h) \in x <=> h \in down
    BY <2>0 DEF Agree
  <2>2. CASE IsShift(h)
    <3>1. h.code \in {LSHIFT, RSHIFT} \ lies /\ FlagOf(h) = ShiftFlag(h.code)
      BY <2>0, <2>2, MisledFacts, FlagFacts
    <3>2. FlagOf(h) \in z <=> FlagOf(h) \in y
      BY <1>4, <3>1
    <3>4. FlagOf(h) \in {"shiftL", "shiftR"}
      BY <3>1 DEF ShiftFlag
    <3>3. FlagOf(h) \in y <=> FlagOf(h) \in x /\ h # k
      <4>1. CASE IsShift(k)
        <5>1. FlagOf(k) = FlagOf(h) <=> k = h
          BY <1>0, <2>0, <4>1, FlagFacts
        <5> QED BY <1>2, <3>4, <4>1, <5>1
      <4>2. CASE ~IsShift(k)
        <5>1. h # k
          BY <2>2, <4>2
        <5> QED BY <1>3, <3>4, <4>2, <5>1
      <4> QED BY <4>1, <4>2
    <3> QED BY <2>1, <2>2, <3>2, <3>3
  <2>3. CASE ~IsShift(h)
    <3>1. lies = {} /\ h.ext /\ h.code = ALT /\ FlagOf(h) = "altgr"
      BY <2>0, <2>3, MisledFacts, FlagFacts
    <3>2. "modifier" \notin x /\ z = y
      BY <1>4, <2>0, <2>3, <3>1 DEF Agree
    <3>4. k.code = ALT /\ k.ext <=> k = h
      <4>1. k.code = ALT /\ k.ext => k \in HeldKeys /\ FlagOf(k) = "altgr"
        BY Apart DEF HeldKeys, IsHeldKey, FlagOf
      <4> QED BY <2>0, <3>1, <4>1, FlagFacts
    <3>5. "altgr" \in z <=> "altgr" \in x /\ k # h
      <4>1. CASE IsShift(k)
        BY <1>2, <2>3, <3>2, <4>1
      <4>2. CASE ~IsShift(k)
        BY <1>3, <3>2, <3>4, <4>2
      <4> QED BY <4>1, <4>2
    <3> QED BY <1>1, <2>1, <3>1, <3>2, <3>5
  <2> QED BY <2>2, <2>3
<1>6. Agree(z, reliable \ Misled(lies), down \ {k})
  BY <1>4, <1>5 DEF Agree
<1> QED BY <1>4, <1>6 DEF y, z

\* A byte that moves from the head of one sequence to the end of another.
LEMMA MoveOne ==
  ASSUME NEW u \in Seq(Bytes), NEW v \in Seq(Bytes), v # <<>>
  PROVE  Append(u, Head(v)) \o Tail(v) = u \o v
<1>1. /\ Len(u) \in Nat /\ Len(v) \in Nat /\ Len(v) > 0 /\ Head(v) = v[1] /\ Head(v) \in Bytes
      /\ Tail(v) \in Seq(Bytes) /\ Len(Tail(v)) = Len(v) - 1
      /\ \A i \in 1 .. Len(v) - 1 : Tail(v)[i] = v[i + 1]
  BY EmptySeq
<1> DEFINE a == Append(u, Head(v))
           l == a \o Tail(v)
<1>2. /\ a \in Seq(Bytes) /\ Len(a) = Len(u) + 1 /\ a[Len(u) + 1] = v[1]
      /\ \A i \in 1 .. Len(u) : a[i] = u[i]
  BY <1>1
<1> HIDE DEF a
<1>3. /\ l \in Seq(Bytes) /\ Len(l) = Len(u) + Len(v)
      /\ \A i \in 1 .. Len(a) : l[i] = a[i]
      /\ \A i \in 1 .. Len(Tail(v)) : l[i + Len(a)] = Tail(v)[i]
  BY <1>1, <1>2
<1>4. /\ u \o v \in Seq(Bytes) /\ Len(u \o v) = Len(u) + Len(v)
      /\ \A i \in 1 .. Len(u) : (u \o v)[i] = u[i]
      /\ \A i \in 1 .. Len(v) : (u \o v)[i + Len(u)] = v[i]
  BY <1>1
<1> HIDE DEF l
<1>5. ASSUME NEW i \in 1 .. Len(u) + Len(v) PROVE l[i] = (u \o v)[i]
  <2>1. CASE i \in 1 .. Len(u)
    <3>1. i \in 1 .. Len(a)
      BY <1>1, <1>2, <2>1
    <3> QED BY <1>2, <1>3, <1>4, <2>1, <3>1
  <2>2. CASE i = Len(u) + 1
    <3>1. i \in 1 .. Len(a) /\ 1 \in 1 .. Len(v) /\ i = 1 + Len(u)
      BY <1>1, <1>2, <2>2
    <3>2. l[i] = v[1]
      BY <1>2, <1>3, <2>2, <3>1
    <3>3. (u \o v)[1 + Len(u)] = v[1]
      BY <1>4, <3>1
    <3> QED BY <3>1, <3>2, <3>3
  <2>3. CASE i > Len(u) + 1
    <3> DEFINE j == i - Len(a)
    <3>1. /\ j \in 1 .. Len(Tail(v)) /\ j + Len(a) = i
          /\ j + 1 \in 1 .. Len(v) /\ (j + 1) + Len(u) = i
          /\ j \in 1 .. Len(v) - 1
      BY <1>1, <1>2, <2>3
    <3> HIDE DEF j
    <3>2. l[i] = Tail(v)[j] /\ Tail(v)[j] = v[j + 1]
      BY <1>1, <1>3, <3>1
    <3>3. (u \o v)[(j + 1) + Len(u)] = v[j + 1]
      BY <1>4, <3>1
    <3> QED BY <3>1, <3>2, <3>3
  <2> QED BY <1>1, <2>1, <2>2, <2>3
<1>6. l = u \o v
  BY <1>3, <1>4, <1>5, SeqEqual
<1> QED BY <1>6 DEF l, a

\* The first byte of the first of two sequences.
LEMMA TailOfTwo ==
  ASSUME NEW u \in Seq(Bytes), NEW v \in Seq(Bytes), u # <<>>
  PROVE  /\ u \o v # <<>> /\ Head(u \o v) = Head(u)
         /\ Tail(u \o v) = Tail(u) \o v
<1>1. /\ Len(u) \in Nat /\ Len(v) \in Nat /\ Len(u) > 0 /\ Head(u) = u[1]
      /\ Tail(u) \in Seq(Bytes) /\ Len(Tail(u)) = Len(u) - 1
      /\ \A i \in 1 .. Len(u) - 1 : Tail(u)[i] = u[i + 1]
  BY EmptySeq
<1>4. /\ u \o v \in Seq(Bytes) /\ Len(u \o v) = Len(u) + Len(v)
      /\ \A i \in 1 .. Len(u) : (u \o v)[i] = u[i]
      /\ \A i \in 1 .. Len(v) : (u \o v)[i + Len(u)] = v[i]
  BY <1>1
<1> DEFINE w == u \o v
           l == Tail(u) \o v
<1>5. /\ l \in Seq(Bytes) /\ Len(l) = Len(u) - 1 + Len(v)
      /\ \A i \in 1 .. Len(Tail(u)) : l[i] = Tail(u)[i]
      /\ \A i \in 1 .. Len(v) : l[i + Len(Tail(u))] = v[i]
  BY <1>1
<1> HIDE DEF w
<1>6. w \in Seq(Bytes) /\ Len(w) = Len(u) + Len(v) /\ w = u \o v
  BY <1>4 DEF w
<1>7. /\ w # <<>> /\ Head(w) = w[1] /\ Tail(w) \in Seq(Bytes) /\ Len(Tail(w)) = Len(w) - 1
      /\ \A i \in 1 .. Len(w) - 1 : Tail(w)[i] = w[i + 1]
  BY <1>1, <1>6
<1> HIDE DEF l
<1>8. ASSUME NEW i \in 1 .. Len(w) - 1 PROVE Tail(w)[i] = l[i]
  <2>1. Tail(w)[i] = w[i + 1]
    BY <1>7
  <2>2. CASE i \in 1 .. Len(u) - 1
    <3>1. i + 1 \in 1 .. Len(u) /\ i \in 1 .. Len(Tail(u))
      BY <1>1, <2>2
    <3>2. w[i + 1] = u[i + 1]
      BY <1>4, <1>6, <3>1
    <3>3. l[i] = u[i + 1]
      BY <1>1, <1>5, <2>2, <3>1
    <3> QED BY <2>1, <3>2, <3>3
  <2>3. CASE i > Len(u) - 1
    <3> DEFINE j == i + 1 - Len(u)
    <3>1. j \in 1 .. Len(v) /\ j + Len(u) = i + 1 /\ j + Len(Tail(u)) = i
      BY <1>1, <1>6, <2>3
    <3> HIDE DEF j
    <3>2. w[i + 1] = v[j]
      BY <1>4, <1>6, <3>1
    <3>3. l[i] = v[j]
      BY <1>5, <3>1
    <3> QED BY <2>1, <3>2, <3>3
  <2> QED BY <1>1, <1>6, <2>2, <2>3
<1>9. Tail(w) = l
  <2>1. Len(Tail(w)) = Len(l)
    BY <1>1, <1>5, <1>6, <1>7
  <2> QED BY <1>5, <1>7, <1>8, <2>1, SeqEqual
<1>10. Head(w) = Head(u)
  <2>1. 1 \in 1 .. Len(u)
    BY <1>1
  <2> QED BY <1>1, <1>4, <1>6, <1>7, <2>1
<1> QED BY <1>6, <1>7, <1>9, <1>10 DEF l

\* What is pending is a sequence of bytes.
LEMMA PendingType ==
  ASSUME KeyboardTypeOK
  PROVE  /\ Contents(scancodes) \in Seq(Bytes) /\ wire \in Seq(Bytes) /\ Pending \in Seq(Bytes)
         /\ Len(Contents(scancodes)) \in Nat
         /\ wire = <<>> => Pending = Contents(scancodes)
<1>1. Contents(scancodes) \in Seq(Bytes) /\ wire \in Seq(Bytes)
  BY CodeSizes, ContentsType DEF KeyboardTypeOK
<1> QED BY <1>1 DEF Pending

\* A key event puts its codes behind what is pending.
LEMMA EventDecodes ==
  ASSUME KeyboardTypeOK, wire = <<>>, NEW codes \in Seq(Bytes), NEW S,
         Follows(S, Contents(scancodes) \o codes)
  PROVE  LET T == From(S, Len(Pending)) IN
         /\ Follows(S, Pending) /\ Follows(T, codes)
         /\ T[0] = S[Len(Pending)]
         /\ S[Len(Contents(scancodes) \o codes)] = T[Len(codes)]
<1>1. /\ Pending \in Seq(Bytes) /\ Pending = Contents(scancodes) /\ Len(Pending) \in Nat
      /\ Len(codes) \in Nat
  BY PendingType
<1>2. Len(Pending \o codes) = Len(codes) + Len(Pending)
  BY <1>1
<1>3. Follows(S, Pending) /\ Follows(From(S, Len(Pending)), codes)
  BY <1>1, FollowsTwo
<1> QED BY <1>1, <1>2, <1>3 DEF From

\* The flags after the code of a key that goes down.
LEMMA MakeEnd ==
  ASSUME NEW k \in Keys, NEW lies, NEW told, NEW S,
         Follows(S, Says(lies, told) \o MakeCode(k)), "break" \notin S[0],
         "break" \notin AfterSays(lies, told, S[0])
  PROVE  S[Len(Says(lies, told) \o MakeCode(k))] = AfterMake(k, AfterSays(lies, told, S[0]))
<1> DEFINE u == Says(lies, told)
           v == MakeCode(k)
           T == From(S, Len(u))
<1>1. u \in Seq(Bytes) /\ v \in Seq(Bytes) /\ Len(u) \in Nat /\ Len(v) \in Nat
      /\ Len(u \o v) = Len(v) + Len(u)
  <2>1. u \in Seq(Bytes) /\ v \in Seq(Bytes)
    BY SaysType, KeyFacts
  <2> QED BY <2>1
<1>2. Follows(S, u) /\ Follows(T, v)
  BY <1>1, FollowsTwo
<1>3. S[Len(u)] = AfterSays(lies, told, S[0])
  BY <1>2, SaysFlags
<1>4. T[0] = S[Len(u)] /\ T[Len(v)] = S[Len(u \o v)]
  BY <1>1 DEF From
<1>5. T[Len(v)] = AfterMake(k, T[0])
  BY <1>2, <1>3, <1>4, MakeFlags
<1> QED BY <1>3, <1>4, <1>5

\* The flags after the code of a key that comes up.
LEMMA BreakEnd ==
  ASSUME NEW k \in Keys, NEW lies, NEW told, NEW S,
         Follows(S, BreakCode(k) \o Says(lies, told)), "break" \notin S[0]
  PROVE  S[Len(BreakCode(k) \o Says(lies, told))] = AfterSays(lies, told, AfterBreak(k, S[0]))
<1> DEFINE u == BreakCode(k)
           v == Says(lies, told)
           T == From(S, Len(u))
<1>1. u \in Seq(Bytes) /\ v \in Seq(Bytes) /\ Len(u) \in Nat /\ Len(v) \in Nat
      /\ Len(u \o v) = Len(v) + Len(u)
  <2>1. u \in Seq(Bytes) /\ v \in Seq(Bytes)
    BY SaysType, KeyFacts
  <2> QED BY <2>1
<1>2. Follows(S, u) /\ Follows(T, v)
  BY <1>1, FollowsTwo
<1>3. S[Len(u)] = AfterBreak(k, S[0])
  BY <1>2, BreakFlags
<1>4. T[0] = S[Len(u)] /\ T[Len(v)] = S[Len(u \o v)]
  BY <1>1 DEF From
<1>5. "break" \notin T[0]
  BY <1>3, <1>4 DEF AfterBreak
<1>6. T[Len(v)] = AfterSays(lies, told, T[0])
  BY <1>2, <1>5, SaysFlags
<1> QED BY <1>3, <1>4, <1>6

\* The parts of a key event that the flags see.
LEMMA MakeParts ==
  ASSUME KeyboardTypeOK, NEW k \in Keys, KeyMake(k)
  PROVE  LET told == ShiftCodes \ ShiftsDown(held)
             codes == Says(Lies(k), told) \o MakeCode(k)
         IN  /\ wire = <<>> /\ codes \in Seq(Bytes) /\ wire' = codes
             /\ Pending' = Contents(scancodes) \o codes
             /\ Lies(k) \in SUBSET {LSHIFT, RSHIFT}
             /\ held' = held \cup {k} /\ intact' = intact \ Misled(Lies(k))
             /\ releasing' = {h \in held \ held' : IsHeldKey(h)}
             /\ UNCHANGED <<scancodes, keypresses, state, mode, delivered, lost>>
<1> DEFINE told == ShiftCodes \ ShiftsDown(held)
           codes == Says(Lies(k), told) \o MakeCode(k)
<1>1. codes \in Seq(Bytes)
  BY SaysType, KeyFacts
<1>2. Lies(k) \in SUBSET {LSHIFT, RSHIFT}
  BY LieType
<1>3. /\ wire = <<>> /\ wire' = codes
      /\ held' = held \cup {k} /\ intact' = intact \ Misled(Lies(k))
      /\ releasing' = {h \in held \ held' : IsHeldKey(h)}
      /\ UNCHANGED <<scancodes, keypresses, state, mode, delivered, lost>>
  BY DEF KeyMake, KeyEvent, driver
<1> HIDE DEF codes
<1>4. Pending' = Contents(scancodes) \o codes
  BY <1>3 DEF Pending
<1> QED BY <1>1, <1>2, <1>3, <1>4 DEF codes

\* The same of a key that comes up.
LEMMA BreakParts ==
  ASSUME KeyboardTypeOK, NEW k \in Keys, KeyBreak(k)
  PROVE  LET truths == IF IsNavigation(k) THEN faked ELSE {}
             codes == BreakCode(k) \o Says(truths, ShiftsDown(held))
         IN  /\ wire = <<>> /\ codes \in Seq(Bytes) /\ wire' = codes
             /\ Pending' = Contents(scancodes) \o codes
             /\ truths \in SUBSET {LSHIFT, RSHIFT}
             /\ held' = held \ {k} /\ intact' = intact \ Misled(truths) /\ k \in held
             /\ releasing' = {h \in held \ held' : IsHeldKey(h)}
             /\ UNCHANGED <<scancodes, keypresses, state, mode, delivered, lost, typed, locked>>
<1> DEFINE truths == IF IsNavigation(k) THEN faked ELSE {}
           codes == BreakCode(k) \o Says(truths, ShiftsDown(held))
<1>1. codes \in Seq(Bytes)
  BY SaysType, KeyFacts
<1>2. truths \in SUBSET {LSHIFT, RSHIFT}
  BY DEF KeyboardTypeOK
<1>3. /\ wire = <<>> /\ wire' = codes
      /\ held' = held \ {k} /\ intact' = intact \ Misled(truths) /\ k \in held
      /\ releasing' = {h \in held \ held' : IsHeldKey(h)}
      /\ UNCHANGED <<scancodes, keypresses, state, mode, delivered, lost, typed, locked>>
  BY DEF KeyBreak, KeyEvent, driver
<1> HIDE DEF codes
<1>4. Pending' = Contents(scancodes) \o codes
  BY <1>3 DEF Pending
<1> QED BY <1>1, <1>2, <1>3, <1>4 DEF codes

ReliableInv == intact \subseteq HeldKeys

\* A key that goes down keeps the flags right.
LEMMA MakeFlagsStep ==
  ASSUME KeyboardTypeOK, ReliableInv, FlagsInv, NEW k \in Keys, KeyMake(k)
  PROVE  FlagsInv'
<1> DEFINE told == ShiftCodes \ ShiftsDown(held)
           codes == Says(Lies(k), told) \o MakeCode(k)
<1>1. /\ wire = <<>> /\ codes \in Seq(Bytes) /\ wire' = codes
      /\ Pending' = Contents(scancodes) \o codes
      /\ Lies(k) \in SUBSET {LSHIFT, RSHIFT}
      /\ held' = held \cup {k} /\ intact' = intact \ Misled(Lies(k))
      /\ state' = state /\ lost' = lost
  BY MakeParts
<1> SUFFICES ASSUME NEW S, S[0] = state', Follows(S, Pending')
             PROVE  /\ Agree(S[Len(Pending')], intact', held')
                    /\ lost' = {} => "break" \notin S[Len(Pending')]
  BY DEF FlagsInv
<1> DEFINE T == From(S, Len(Pending))
<1>2. /\ Follows(S, Pending) /\ Follows(T, codes) /\ T[0] = S[Len(Pending)]
      /\ S[Len(Pending')] = T[Len(codes)]
  BY <1>1, EventDecodes
<1>3. /\ Agree(T[0], intact, held) /\ (lost = {} => "break" \notin T[0])
  BY <1>1, <1>2 DEF FlagsInv
<1> HIDE DEF T
<1>4. CASE "break" \in T[0]
  <2>1. intact = {} /\ lost # {}
    BY <1>3, <1>4 DEF Agree
  <2> QED BY <1>1, <2>1 DEF Agree
<1>5. CASE "break" \notin T[0]
  <2>1. "break" \notin AfterSays(Lies(k), told, T[0])
    BY <1>1, <1>5, SaysKeeps
  <2>2. T[Len(codes)] = AfterMake(k, AfterSays(Lies(k), told, T[0]))
    BY <1>2, <1>5, <2>1, MakeEnd
  <2>3. /\ "break" \notin T[Len(codes)]
        /\ Agree(T[Len(codes)], intact \ Misled(Lies(k)), held \cup {k})
    <3> HIDE DEF told
    <3> DEFINE lies == Lies(k)
               y == T[0]
    <3>1. lies \in SUBSET {LSHIFT, RSHIFT} /\ intact \in SUBSET HeldKeys
      BY <1>1 DEF ReliableInv
    <3>2. "break" \notin y /\ Agree(y, intact, held)
      BY <1>3, <1>5
    <3> HIDE DEF lies, y
    <3>3. /\ "break" \notin AfterMake(k, AfterSays(lies, told, y))
          /\ Agree(AfterMake(k, AfterSays(lies, told, y)), intact \ Misled(lies), held \cup {k})
      BY <3>1, <3>2, MakeAgrees
    <3> QED BY <2>2, <3>3 DEF lies, y
  <2> QED BY <1>1, <1>2, <2>3
<1> QED BY <1>4, <1>5

\* A key that comes up keeps the flags right.
LEMMA BreakFlagsStep ==
  ASSUME KeyboardTypeOK, ReliableInv, FlagsInv, NEW k \in Keys, KeyBreak(k)
  PROVE  FlagsInv'
<1> DEFINE truths == IF IsNavigation(k) THEN faked ELSE {}
           told == ShiftsDown(held)
           codes == BreakCode(k) \o Says(truths, told)
<1>1. /\ wire = <<>> /\ codes \in Seq(Bytes) /\ wire' = codes
      /\ Pending' = Contents(scancodes) \o codes
      /\ truths \in SUBSET {LSHIFT, RSHIFT}
      /\ held' = held \ {k} /\ intact' = intact \ Misled(truths)
      /\ state' = state /\ lost' = lost
  BY BreakParts
<1> SUFFICES ASSUME NEW S, S[0] = state', Follows(S, Pending')
             PROVE  /\ Agree(S[Len(Pending')], intact', held')
                    /\ lost' = {} => "break" \notin S[Len(Pending')]
  BY DEF FlagsInv
<1> DEFINE T == From(S, Len(Pending))
<1>2. /\ Follows(S, Pending) /\ Follows(T, codes) /\ T[0] = S[Len(Pending)]
      /\ S[Len(Pending')] = T[Len(codes)]
  BY <1>1, EventDecodes
<1>3. /\ Agree(T[0], intact, held) /\ (lost = {} => "break" \notin T[0])
  BY <1>1, <1>2 DEF FlagsInv
<1> HIDE DEF T, truths
<1>4. CASE "break" \in T[0]
  <2>1. intact = {} /\ lost # {}
    BY <1>3, <1>4 DEF Agree
  <2> QED BY <1>1, <2>1 DEF Agree
<1>5. CASE "break" \notin T[0]
  <2>2. T[Len(codes)] = AfterSays(truths, told, AfterBreak(k, T[0]))
    BY <1>2, <1>5, BreakEnd
  <2>3. /\ "break" \notin T[Len(codes)]
        /\ Agree(T[Len(codes)], intact \ Misled(truths), held \ {k})
    <3> DEFINE y == T[0]
    <3>1. truths \in SUBSET {LSHIFT, RSHIFT} /\ intact \in SUBSET HeldKeys
      BY <1>1 DEF ReliableInv
    <3>2. "break" \notin y /\ Agree(y, intact, held)
      BY <1>3, <1>5
    <3> HIDE DEF y, told
    <3>3. /\ "break" \notin AfterSays(truths, told, AfterBreak(k, y))
          /\ Agree(AfterSays(truths, told, AfterBreak(k, y)), intact \ Misled(truths), held \ {k})
      BY ONLY k \in Keys, <3>1, <3>2, BreakAgrees
    <3> QED BY <2>2, <3>3 DEF y
  <2> QED BY <1>1, <1>2, <2>3
<1> QED BY <1>4, <1>5

-----------------------------------------------------------------------------
(* A shift or AltGr key on its way up.                                     *)

\* After the bytes w, from flags s, the break code of key k lacks its last byte.
Opened(k, s, w) ==
  \A S : S[0] = s /\ Follows(S, w) =>
           "break" \in S[Len(w)] /\ (k.ext => "modifier" \in S[Len(w)])

\* The same after the prefix alone.
Prefixed(s, w) == IF w = <<>> THEN "modifier" \in s ELSE w[Len(w)] = EXTENDED

ReleaseInv ==
  \A k \in releasing :
    /\ k \in HeldKeys \ held /\ releasing = {k}
    /\ \/ wire = BreakCode(k)
       \/ k.ext /\ wire = <<BREAK, k.code>> /\ Prefixed(state, Contents(scancodes))
       \/ wire = <<k.code>> /\ Opened(k, state, Contents(scancodes))

\* The three forms differ.
LEMMA ReleaseForms ==
  ASSUME NEW k \in Keys
  PROVE  /\ k.ext => BreakCode(k) = <<EXTENDED, BREAK, k.code>> /\ Len(BreakCode(k)) = 3
         /\ ~k.ext => BreakCode(k) = <<BREAK, k.code>> /\ Len(BreakCode(k)) = 2
         /\ Len(<<BREAK, k.code>>) = 2 /\ Len(<<k.code>>) = 1
         /\ Head(<<BREAK, k.code>>) = BREAK /\ Tail(<<BREAK, k.code>>) = <<k.code>>
         /\ Head(<<EXTENDED, BREAK, k.code>>) = EXTENDED
         /\ Tail(<<EXTENDED, BREAK, k.code>>) = <<BREAK, k.code>>
         /\ Head(<<k.code>>) = k.code /\ Tail(<<k.code>>) = <<>>
         /\ BreakCode(k) # <<>> /\ <<BREAK, k.code>> # <<>> /\ <<k.code>> # <<>>
         /\ k.ext \in BOOLEAN
         /\ \A w : w = BreakCode(k) \/ w = <<BREAK, k.code>> => Len(w) # 1
<1>1. k.ext \in BOOLEAN
  BY KeyFacts
<1> QED BY <1>1 DEF BreakCode

\* A release is noted only while its code is on the wire.
LEMMA NoWireNoRelease ==
  ASSUME ReleaseInv, wire = <<>> PROVE releasing = {}
<1> SUFFICES ASSUME NEW k \in releasing PROVE FALSE
  OBVIOUS
<1>1. k \in Keys
  BY DEF ReleaseInv, HeldKeys
<1>2. wire \in {BreakCode(k), <<BREAK, k.code>>, <<k.code>>}
  BY DEF ReleaseInv
<1> QED BY <1>1, <1>2, ReleaseForms

\* A key that goes down releases none.
LEMMA MakeReleaseStep ==
  ASSUME KeyboardTypeOK, NEW k \in Keys, KeyMake(k) PROVE ReleaseInv'
<1>1. held' = held \cup {k} /\ releasing' = {h \in held \ held' : IsHeldKey(h)}
  BY MakeParts
<1> QED BY <1>1 DEF ReleaseInv

\* A shift or AltGr key that comes up puts its break code on the wire, alone.
LEMMA BreakReleaseStep ==
  ASSUME KeyboardTypeOK, NEW k \in Keys, KeyBreak(k) PROVE ReleaseInv'
<1> DEFINE truths == IF IsNavigation(k) THEN faked ELSE {}
           codes == BreakCode(k) \o Says(truths, ShiftsDown(held))
<1>1. /\ wire' = codes /\ held' = held \ {k}
      /\ releasing' = {h \in held \ held' : IsHeldKey(h)}
  BY BreakParts
<1> SUFFICES ASSUME NEW h \in releasing'
             PROVE  /\ h \in HeldKeys \ held' /\ releasing' = {h} /\ wire' = BreakCode(h)
  BY DEF ReleaseInv
<1>2. h = k /\ IsHeldKey(k) /\ h \in HeldKeys \ held' /\ releasing' = {h}
  BY <1>1 DEF HeldKeys
<1>3. truths = {}
  BY <1>2 DEF IsHeldKey, IsShift, IsNavigation, ALT, KEY_8
<1>4. Says(truths, ShiftsDown(held)) = <<>>
  BY <1>3 DEF Says, Saying
<1>5. BreakCode(k) \in Seq(Bytes)
  BY KeyFacts
<1>6. codes = BreakCode(k)
  BY <1>4, <1>5
<1> QED BY <1>1, <1>2, <1>6

\* What the ring holds after a byte has come in.
LEMMA ReceiveContents ==
  ASSUME KeyboardTypeOK, NEW b \in Bytes, scancodes' = RingPut(scancodes, b)
  PROVE  LET kept == IF RingFull(scancodes) THEN Tail(Contents(scancodes)) ELSE Contents(scancodes)
         IN  /\ Contents(scancodes)' = Append(kept, b) /\ kept \in Seq(Bytes)
             /\ RingFull(scancodes) => /\ Contents(scancodes) # <<>> /\ kept # <<>>
                                       /\ Len(Contents(scancodes)) > 1
<1> DEFINE c == Contents(scancodes)
<1>1. /\ c \in Seq(Bytes) /\ Len(c) = Count(scancodes)
  BY CodeSizes, ContentsType DEF KeyboardTypeOK
<1>2. RingFull(scancodes) => Len(c) = ScanLength - 1
  BY <1>1, CodeSizes, CountType DEF KeyboardTypeOK
<1>3. Contents(scancodes)' = Append(IF RingFull(scancodes) THEN Tail(c) ELSE c, b)
  BY CodeSizes, PutContents DEF KeyboardTypeOK
<1>4. ScanLength \in Nat /\ ScanLength > 2
  BY RingAssumption
<1> HIDE DEF c
<1>5. RingFull(scancodes) => Len(c) > 1 /\ c # <<>> /\ Tail(c) \in Seq(Bytes) /\ Tail(c) # <<>>
  <2>1. SUFFICES ASSUME RingFull(scancodes)
                 PROVE  Len(c) > 1 /\ c # <<>> /\ Tail(c) \in Seq(Bytes) /\ Tail(c) # <<>>
    OBVIOUS
  <2>2. Len(c) > 1
    BY <1>2, <1>4, <2>1
  <2>3. c # <<>>
    BY <2>2
  <2>4. Tail(c) \in Seq(Bytes) /\ Len(Tail(c)) = Len(c) - 1
    BY <1>1, <2>3
  <2>5. Tail(c) # <<>>
    BY <1>1, <2>2, <2>4
  <2> QED BY <2>2, <2>3, <2>4, <2>5
<1> QED BY <1>1, <1>3, <1>5 DEF c

\* The last of the bytes decoded.
LEMMA LastStep ==
  ASSUME NEW w \in Seq(Bytes), NEW b \in Bytes, NEW S, Follows(S, Append(w, b))
  PROVE  /\ S[Len(Append(w, b))] = NextState(S[Len(w)], b) /\ Follows(S, w)
         /\ w # <<>> => S[Len(w)] = NextState(S[Len(w) - 1], w[Len(w)])
<1>1. /\ Len(w) \in Nat /\ Len(Append(w, b)) = Len(w) + 1 /\ Append(w, b)[Len(w) + 1] = b
      /\ \A i \in 1 .. Len(w) : Append(w, b)[i] = w[i]
  OBVIOUS
<1>2. Len(w) + 1 \in 1 .. Len(Append(w, b)) /\ (Len(w) + 1) - 1 = Len(w)
  BY <1>1
<1>3. S[Len(w) + 1] = NextState(S[Len(w)], b)
  <2>1. S[Len(w) + 1] = NextState(S[(Len(w) + 1) - 1], Append(w, b)[Len(w) + 1])
    BY <1>2 DEF Follows
  <2> QED BY <1>1, <1>2, <2>1
<1>4. Follows(S, w)
  <2> SUFFICES ASSUME NEW i \in 1 .. Len(w) PROVE S[i] = NextState(S[i - 1], w[i])
    BY DEF Follows
  <2>1. i \in 1 .. Len(Append(w, b))
    BY <1>1
  <2> QED BY <1>1, <2>1 DEF Follows
<1>5. w # <<>> => Len(w) \in 1 .. Len(w)
  BY <1>1, EmptySeq
<1> QED BY <1>1, <1>3, <1>4, <1>5 DEF Follows

\* What the two prefixes set.
LEMMA PrefixFlags == \A s : /\ NextState(s, EXTENDED) = s \cup {"modifier"}
                            /\ NextState(s, BREAK) = s \cup {"break"}
BY Apart DEF NextState

\* The bytes of a break code come in one by one, lost bytes before them or not.
LEMMA CodeReleaseStep ==
  ASSUME KeyboardTypeOK, ReleaseInv, ReceiveCode PROVE ReleaseInv'
<1>1. /\ wire # <<>> /\ scancodes' = RingPut(scancodes, Head(wire)) /\ wire' = Tail(wire)
      /\ state' = state /\ held' = held
      /\ releasing' = IF Len(wire) = 1 THEN {} ELSE releasing
  BY DEF ReceiveCode, Receive
<1> SUFFICES ASSUME NEW k \in releasing'
             PROVE  /\ k \in HeldKeys \ held' /\ releasing' = {k}
                    /\ \/ wire' = BreakCode(k)
                       \/ k.ext /\ wire' = <<BREAK, k.code>> /\ Prefixed(state', Contents(scancodes)')
                       \/ wire' = <<k.code>> /\ Opened(k, state', Contents(scancodes)')
  BY DEF ReleaseInv
<1>2. /\ k \in releasing /\ releasing' = releasing /\ Len(wire) # 1 /\ k \in Keys
      /\ k \in HeldKeys \ held /\ releasing = {k}
  BY <1>1 DEF ReleaseInv, HeldKeys
<1> DEFINE c == Contents(scancodes)
           kept == IF RingFull(scancodes) THEN Tail(c) ELSE c
<1>3. /\ k.ext \in BOOLEAN
      /\ \/ k.ext /\ wire = <<EXTENDED, BREAK, k.code>>
         \/ ~k.ext /\ wire = <<BREAK, k.code>>
         \/ k.ext /\ wire = <<BREAK, k.code>> /\ Prefixed(state, c)
  <2>1. k.ext \in BOOLEAN
    BY <1>2, ReleaseForms
  <2>2. wire # <<k.code>>
    BY <1>2, ReleaseForms
  <2>3. \/ wire = BreakCode(k)
        \/ k.ext /\ wire = <<BREAK, k.code>> /\ Prefixed(state, c)
    BY <1>2, <2>2 DEF ReleaseInv
  <2> QED BY <1>2, <2>1, <2>3, ReleaseForms
<1>4. Head(wire) \in Bytes /\ c \in Seq(Bytes)
  <2>1. wire \in Seq(Bytes)
    BY DEF KeyboardTypeOK
  <2> QED BY <1>1, <2>1, PendingType
<1>5. /\ Contents(scancodes)' = Append(kept, Head(wire)) /\ kept \in Seq(Bytes)
      /\ RingFull(scancodes) => c # <<>> /\ kept # <<>> /\ Len(c) > 1
  BY <1>1, <1>4, ReceiveContents
<1> HIDE DEF c, kept
<1>6. CASE k.ext /\ wire = <<EXTENDED, BREAK, k.code>>
  <2>1. Head(wire) = EXTENDED /\ wire' = <<BREAK, k.code>>
    BY <1>1, <1>2, <1>6, ReleaseForms
  <2>2. Prefixed(state', Append(kept, EXTENDED))
    <3>1. /\ Append(kept, EXTENDED)[Len(Append(kept, EXTENDED))] = EXTENDED
          /\ Append(kept, EXTENDED) # <<>>
      BY <1>4, <1>5, <2>1
    <3> QED BY <3>1 DEF Prefixed
  <2> QED BY <1>1, <1>2, <1>5, <1>6, <2>1, <2>2
<1>7. CASE wire = <<BREAK, k.code>>
  <2>1. Head(wire) = BREAK /\ wire' = <<k.code>> /\ BREAK \in Bytes
    BY <1>1, <1>2, <1>7, ReleaseForms, Apart
  <2>2. ASSUME NEW S, S[0] = state, Follows(S, Append(kept, BREAK))
        PROVE  /\ "break" \in S[Len(Append(kept, BREAK))]
               /\ k.ext => "modifier" \in S[Len(Append(kept, BREAK))]
    <3>1. /\ S[Len(Append(kept, BREAK))] = S[Len(kept)] \cup {"break"}
          /\ kept # <<>> => S[Len(kept)] = NextState(S[Len(kept) - 1], kept[Len(kept)])
      BY <1>5, <2>1, <2>2, LastStep, PrefixFlags
    <3>2. k.ext => "modifier" \in S[Len(kept)]
      <4> SUFFICES ASSUME k.ext PROVE "modifier" \in S[Len(kept)]
        OBVIOUS
      <4>1. Prefixed(state, c)
        BY <1>3, <1>7, ReleaseForms, <1>2
      <4>2. CASE c = <<>>
        <5>1. kept = <<>>
          BY <1>5, <4>2 DEF kept
        <5> QED BY <2>2, <4>1, <4>2, <5>1 DEF Prefixed
      <4>3. CASE c # <<>>
        <5>1. c[Len(c)] = EXTENDED
          BY <4>1, <4>3 DEF Prefixed
        <5>2. kept # <<>> /\ kept[Len(kept)] = EXTENDED
          <6>1. CASE RingFull(scancodes)
            <7>1. /\ Len(c) \in Nat /\ Len(c) > 1 /\ Len(Tail(c)) = Len(c) - 1
                  /\ \A i \in 1 .. Len(c) - 1 : Tail(c)[i] = c[i + 1]
              BY <1>4, <1>5, <4>3, <6>1
            <7>2. Len(c) - 1 \in 1 .. Len(c) - 1 /\ (Len(c) - 1) + 1 = Len(c)
              BY <7>1
            <7>3. Tail(c)[Len(c) - 1] = c[(Len(c) - 1) + 1]
              BY <7>1, <7>2
            <7> QED BY <1>5, <5>1, <6>1, <7>1, <7>2, <7>3 DEF kept
          <6>2. CASE ~RingFull(scancodes)
            BY <4>3, <5>1, <6>2 DEF kept
          <6> QED BY <6>1, <6>2
        <5> QED BY <3>1, <5>2, PrefixFlags
      <4> QED BY <4>2, <4>3
    <3> QED BY <3>1, <3>2
  <2>3. Opened(k, state, Append(kept, BREAK))
    BY <2>2 DEF Opened
  <2> QED BY <1>1, <1>2, <1>5, <2>1, <2>3
<1> QED BY <1>3, <1>6, <1>7

\* A reply comes in between two codes.
LEMMA ReplyReleaseStep ==
  ASSUME ReleaseInv, ReceiveReply PROVE ReleaseInv'
<1>1. releasing = {} /\ releasing' = releasing
  BY NoWireNoRelease DEF ReceiveReply
<1> QED BY <1>1 DEF ReleaseInv

\* What a poll does to the scancodes.
LEMMA PollParts ==
  ASSUME KeyboardTypeOK, HasKey \/ GetKey
  PROVE  /\ UNCHANGED <<held, wire, locked, typed, intact, releasing, fakes>>
         /\ \/ RingEmpty(scancodes) /\ UNCHANGED <<scancodes, state, mode, lost>>
               /\ Contents(scancodes) = <<>>
            \/ /\ Contents(scancodes) # <<>>
               /\ ~RingEmpty(scancodes) /\ RingFront(scancodes) = Head(Contents(scancodes))
               /\ Contents(scancodes)' = Tail(Contents(scancodes))
               /\ ProcessScancode(Head(Contents(scancodes)))
               /\ state' = NextState(state, Head(Contents(scancodes)))
<1>1. ProcessKeyboard
  BY DEF HasKey, GetKey
<1>2. scancodes \in Rings(ScanLength, Bytes)
  BY DEF KeyboardTypeOK
<1>3. CASE RingEmpty(scancodes)
  <2>1. Contents(scancodes) = <<>>
    BY <1>2, <1>3, CodeSizes, EmptyContents
  <2> QED BY <1>1, <1>3, <2>1 DEF ProcessKeyboard
<1>4. CASE ~RingEmpty(scancodes)
  <2>1. /\ Contents(scancodes) # <<>> /\ RingFront(scancodes) = Head(Contents(scancodes))
        /\ Contents(RingDrop(scancodes)) = Tail(Contents(scancodes))
    BY <1>2, <1>4, CodeSizes, DropContents
  <2>2. ProcessScancode(RingFront(scancodes)) /\ scancodes' = RingDrop(scancodes)
    BY <1>1, <1>4 DEF ProcessKeyboard
  <2>3. state' = NextState(state, RingFront(scancodes))
    BY <2>2 DEF ProcessScancode
  <2>4. Contents(scancodes)' = Tail(Contents(scancodes))
    BY <2>1, <2>2
  <2> QED BY <1>1, <1>4, <2>1, <2>2, <2>3, <2>4 DEF ProcessKeyboard
<1> QED BY <1>3, <1>4

\* A poll decodes a byte of the part that has come in.
LEMMA PollReleaseStep ==
  ASSUME KeyboardTypeOK, ReleaseInv, HasKey \/ GetKey PROVE ReleaseInv'
<1> DEFINE c == Contents(scancodes)
<1>1. UNCHANGED <<held, wire, releasing>>
  BY PollParts
<1>2. CASE UNCHANGED <<scancodes, state>>
  <2>1. UNCHANGED Contents(scancodes)
    BY <1>2
  <2> QED BY <1>1, <1>2, <2>1 DEF ReleaseInv, Prefixed, Opened
<1>3. CASE c # <<>> /\ Contents(scancodes)' = Tail(c) /\ state' = NextState(state, Head(c))
  <2>0. c \in Seq(Bytes)
    BY PendingType
  <2> HIDE DEF c
  <2>1. Prefixed(state, c) => Prefixed(state', Tail(c))
    <3> SUFFICES ASSUME Prefixed(state, c) PROVE Prefixed(state', Tail(c))
      OBVIOUS
    <3>1. c[Len(c)] = EXTENDED
      BY <1>3 DEF Prefixed
    <3>2. /\ Len(c) \in Nat /\ Len(c) > 0 /\ Head(c) = c[1] /\ Len(Tail(c)) = Len(c) - 1
          /\ \A i \in 1 .. Len(c) - 1 : Tail(c)[i] = c[i + 1]
          /\ Tail(c) \in Seq(Bytes)
      BY <1>3, <2>0, EmptySeq
    <3>3. CASE Len(c) = 1
      <4>1. Len(Tail(c)) = 0
        BY <3>2, <3>3
      <4>2. Tail(c) = <<>>
        BY <3>2, <4>1, EmptySeq
      <4>3. state' = NextState(state, EXTENDED)
        BY <1>3, <3>1, <3>2, <3>3
      <4> QED BY <4>2, <4>3, PrefixFlags DEF Prefixed
    <3>4. CASE Len(c) # 1
      <4>1. Len(c) - 1 \in 1 .. Len(c) - 1 /\ (Len(c) - 1) + 1 = Len(c)
        BY <3>2, <3>4
      <4>4. Tail(c) # <<>>
        <5> DEFINE t == Tail(c)
        <5>1. t \in Seq(Bytes) /\ Len(t) # 0
          BY <3>2, <3>4
        <5> HIDE DEF t
        <5>2. t # <<>>
          BY <5>1
        <5> QED BY <5>2 DEF t
      <4>2. Tail(c)[Len(c) - 1] = c[(Len(c) - 1) + 1]
        BY <3>2, <4>1
      <4>3. Tail(c)[Len(Tail(c))] = EXTENDED
        BY <3>1, <3>2, <4>1, <4>2
      <4> QED BY <4>3, <4>4 DEF Prefixed
    <3> QED BY <3>3, <3>4
  <2>2. ASSUME NEW k, Opened(k, state, c) PROVE Opened(k, state', Tail(c))
    <3> SUFFICES ASSUME NEW S, S[0] = state', Follows(S, Tail(c))
                 PROVE  "break" \in S[Len(Tail(c))] /\ (k.ext => "modifier" \in S[Len(Tail(c))])
      BY DEF Opened
    <3>1. /\ Follows(Before(S, state), c) /\ Before(S, state)[0] = state
          /\ Before(S, state)[Len(c)] = S[Len(Tail(c))]
      BY <1>3, <2>0, FollowsBefore
    <3>2. /\ "break" \in Before(S, state)[Len(c)]
          /\ k.ext => "modifier" \in Before(S, state)[Len(c)]
      BY <2>2, <3>1 DEF Opened
    <3> QED BY <3>1, <3>2
  <2> QED BY <1>1, <1>3, <2>1, <2>2 DEF ReleaseInv, c
<1> QED BY <1>2, <1>3, PollParts

\* A byte that comes in when the ring has room.
LEMMA RoomPending ==
  ASSUME KeyboardTypeOK, ReceiveCode, ~RingFull(scancodes)
  PROVE  Pending' = Pending
<1> DEFINE c == Contents(scancodes)
<1>1. /\ wire # <<>> /\ scancodes' = RingPut(scancodes, Head(wire)) /\ wire' = Tail(wire)
  BY DEF ReceiveCode, Receive
<1>2. wire \in Seq(Bytes) /\ Head(wire) \in Bytes /\ c \in Seq(Bytes)
  <2>1. wire \in Seq(Bytes)
    BY DEF KeyboardTypeOK
  <2> QED BY <1>1, <2>1, PendingType
<1>3. Contents(scancodes)' = Append(c, Head(wire))
  BY <1>1, <1>2, ReceiveContents
<1>4. Append(c, Head(wire)) \o Tail(wire) = c \o wire
  BY <1>1, <1>2, MoveOne
<1> HIDE DEF c
<1> QED BY <1>1, <1>3, <1>4 DEF Pending, c

\* The last byte of the break code of a shift or AltGr key.
LEMMA ReleasedNow ==
  ASSUME NEW k \in HeldKeys, NEW s, "break" \in s, k.ext => "modifier" \in s
  PROVE  /\ "break" \notin NextState(s, k.code) /\ "modifier" \notin NextState(s, k.code)
         /\ FlagOf(k) \notin NextState(s, k.code)
<1>1. k.code # BREAK /\ k.code # EXTENDED
  BY KeyFacts, FlagFacts
<1>2. NextState(s, k.code) = s \ ({"break", "modifier"} \cup Released(s, k.code))
  BY <1>1 DEF NextState
<1>3. FlagOf(k) \in Released(s, k.code)
  <2>1. CASE IsShift(k)
    <3>1. k.code \in {LSHIFT, RSHIFT} /\ FlagOf(k) = ShiftFlag(k.code)
      BY <2>1, FlagFacts
    <3> QED BY <3>1, Apart DEF Released, ShiftFlag
  <2>2. CASE ~IsShift(k)
    <3>1. k.ext /\ k.code = ALT /\ FlagOf(k) = "altgr"
      BY <2>2, FlagFacts
    <3> QED BY <3>1, Apart DEF Released
  <2> QED BY <2>1, <2>2
<1> QED BY <1>2, <1>3

\* A byte that comes in keeps the flags right, and with the last byte of its
\* break code a key that the driver may have been wrong about is right again.
LEMMA CodeFlagsStep ==
  ASSUME KeyboardTypeOK, ReliableInv, FlagsInv, ReleaseInv, ReceiveCode
  PROVE  FlagsInv'
<1>1. /\ wire # <<>> /\ scancodes' = RingPut(scancodes, Head(wire)) /\ wire' = Tail(wire)
      /\ state' = state /\ held' = held
      /\ lost' = IF RingFull(scancodes) THEN lost \cup {"code"} ELSE lost
      /\ intact' = IF RingFull(scancodes) THEN {}
                   ELSE IF Len(wire) = 1 THEN intact \cup releasing ELSE intact
  BY DEF ReceiveCode, Receive
<1>2. CASE RingFull(scancodes)
  <2>1. intact' = {} /\ lost' # {}
    BY <1>1, <1>2
  <2> QED BY <2>1 DEF FlagsInv, Agree
<1>3. CASE ~RingFull(scancodes)
  <2>1. Pending' = Pending /\ lost' = lost
    BY <1>1, <1>3, RoomPending
  <2>2. CASE intact' = intact
    BY <1>1, <2>1, <2>2 DEF FlagsInv
  <2>3. CASE intact' # intact
    <3>1. Len(wire) = 1 /\ intact' = intact \cup releasing /\ releasing # {}
      BY <1>1, <1>3, <2>3
    <3>2. PICK k \in releasing : TRUE
      BY <3>1
    <3>3. /\ k \in HeldKeys \ held /\ releasing = {k} /\ k \in Keys
      BY DEF ReleaseInv, HeldKeys
    <3>4. wire = <<k.code>> /\ Opened(k, state, Contents(scancodes)) /\ k.code \in Bytes
      <4>1. k.code \in Bytes
        BY <3>3, KeyFacts
      <4>2. wire # BreakCode(k) /\ wire # <<BREAK, k.code>>
        BY <3>1, <3>3, ReleaseForms
      <4> QED BY <4>1, <4>2 DEF ReleaseInv
    <3> SUFFICES ASSUME NEW S, S[0] = state, Follows(S, Pending)
                 PROVE  /\ Agree(S[Len(Pending)], intact \cup {k}, held)
                        /\ lost = {} => "break" \notin S[Len(Pending)]
      BY <1>1, <2>1, <3>1, <3>3 DEF FlagsInv
    <3> DEFINE c == Contents(scancodes)
               z == S[Len(Pending)]
    <3>5. c \in Seq(Bytes) /\ Pending = Append(c, k.code)
      <4>1. c \in Seq(Bytes)
        BY PendingType
      <4> HIDE DEF c
      <4>2. c \o <<k.code>> = Append(c, k.code)
        BY <3>4, <4>1
      <4> QED BY <3>4, <4>1, <4>2 DEF Pending, c
    <3>6. z = NextState(S[Len(c)], k.code) /\ Follows(S, c)
      BY <3>4, <3>5, LastStep
    <3>7. "break" \in S[Len(c)] /\ (k.ext => "modifier" \in S[Len(c)])
      BY <3>4, <3>6 DEF Opened
    <3>8. /\ "break" \notin z /\ "modifier" \notin z /\ FlagOf(k) \notin z
      BY <3>3, <3>6, <3>7, ReleasedNow
    <3>9. Agree(z, intact, held)
      BY DEF FlagsInv
    <3> HIDE DEF z
    <3>10. Agree(z, intact \cup {k}, held)
      BY <3>3, <3>8, <3>9 DEF Agree
    <3> QED BY <3>8, <3>10 DEF z
  <2> QED BY <2>2, <2>3
<1> QED BY <1>2, <1>3

\* The parts of a reply that the flags see.
LEMMA ReplyParts ==
  ASSUME KeyboardTypeOK, ReceiveReply
  PROVE  /\ wire = <<>> /\ wire' = <<>> /\ state' = state /\ held' = held
         /\ UNCHANGED <<keypresses, mode, locked, typed, delivered, fakes>>
         /\ RingFull(scancodes) => intact' = {} /\ lost' # {}
         /\ ~RingFull(scancodes) => /\ intact' = intact /\ lost' = lost
                                    /\ Pending' = Append(Pending, REPLY)
         /\ REPLY \in Bytes
<1>1. /\ wire = <<>> /\ wire' = <<>> /\ state' = state /\ held' = held
      /\ UNCHANGED <<keypresses, mode, locked, typed, delivered, fakes>>
      /\ scancodes' = RingPut(scancodes, REPLY)
      /\ lost' = IF RingFull(scancodes) THEN lost \cup {"code"} ELSE lost
      /\ intact' = IF RingFull(scancodes) THEN {} ELSE intact
  BY DEF ReceiveReply, Receive
<1>2. ASSUME ~RingFull(scancodes) PROVE Pending' = Append(Pending, REPLY)
  <2>1. Contents(scancodes)' = Append(Contents(scancodes), REPLY)
    BY <1>1, <1>2, CodeSizes, ReceiveContents
  <2>2. Pending = Contents(scancodes) /\ Contents(scancodes) \in Seq(Bytes)
    BY <1>1, PendingType
  <2>3. Append(Contents(scancodes), REPLY) \in Seq(Bytes)
    BY <2>2, CodeSizes
  <2>4. Pending' = Append(Contents(scancodes), REPLY) \o <<>>
    BY <1>1, <2>1 DEF Pending
  <2> QED BY <2>2, <2>3, <2>4
<1> QED BY <1>1, <1>2, CodeSizes

\* A reply is no code of a key.
LEMMA ReplyFlags == \A s : "break" \notin s => NextState(s, REPLY) = s \ {"modifier"}
BY DEF NextState, REPLY, BREAK, EXTENDED, LSHIFT, RSHIFT, ALT

\* A reply keeps the flags right.
LEMMA ReplyFlagsStep ==
  ASSUME KeyboardTypeOK, ReliableInv, FlagsInv, ReceiveReply PROVE FlagsInv'
<1>1. CASE RingFull(scancodes)
  <2>1. intact' = {} /\ lost' # {}
    BY <1>1, ReplyParts
  <2> QED BY <2>1 DEF FlagsInv, Agree
<1>2. CASE ~RingFull(scancodes)
  <2>1. /\ intact' = intact /\ lost' = lost /\ state' = state /\ held' = held
        /\ Pending' = Append(Pending, REPLY) /\ REPLY \in Bytes /\ Pending \in Seq(Bytes)
    BY <1>2, ReplyParts, PendingType
  <2> SUFFICES ASSUME NEW S, S[0] = state, Follows(S, Append(Pending, REPLY))
               PROVE  /\ Agree(S[Len(Append(Pending, REPLY))], intact, held)
                      /\ lost = {} => "break" \notin S[Len(Append(Pending, REPLY))]
    BY <2>1 DEF FlagsInv
  <2> DEFINE x == S[Len(Pending)]
             y == S[Len(Append(Pending, REPLY))]
  <2>2. y = NextState(x, REPLY) /\ Follows(S, Pending)
    BY <2>1, LastStep
  <2>3. Agree(x, intact, held) /\ (lost = {} => "break" \notin x)
    BY <2>2 DEF FlagsInv
  <2> HIDE DEF x, y
  <2>4. CASE "break" \in x
    <3>1. intact = {} /\ lost # {}
      BY <2>3, <2>4 DEF Agree
    <3> QED BY <3>1 DEF Agree, y
  <2>5. CASE "break" \notin x
    <3>1. y = x \ {"modifier"}
      BY <2>2, <2>5, ReplyFlags
    <3>2. \A h \in intact : FlagOf(h) # "modifier"
      BY FlagFacts DEF ReliableInv, ShiftFlag
    <3>3. Agree(y, intact, held)
      BY <2>3, <2>5, <3>1, <3>2 DEF Agree
    <3> QED BY <2>5, <3>1, <3>3 DEF y
  <2> QED BY <2>4, <2>5
<1> QED BY <1>1, <1>2

\* What a poll leaves pending.
LEMMA PollPending ==
  ASSUME KeyboardTypeOK, HasKey \/ GetKey, Contents(scancodes) # <<>>
  PROVE  /\ Pending \in Seq(Bytes) /\ Pending # <<>>
         /\ Head(Pending) = Head(Contents(scancodes)) /\ Pending' = Tail(Pending)
<1>1. Contents(scancodes)' = Tail(Contents(scancodes)) /\ wire' = wire
  BY PollParts
<1>2. Contents(scancodes) \in Seq(Bytes) /\ wire \in Seq(Bytes) /\ Pending \in Seq(Bytes)
  BY PendingType
<1>3. /\ Contents(scancodes) \o wire # <<>>
      /\ Head(Contents(scancodes) \o wire) = Head(Contents(scancodes))
      /\ Tail(Contents(scancodes) \o wire) = Tail(Contents(scancodes)) \o wire
  BY <1>2, TailOfTwo
<1> QED BY <1>1, <1>2, <1>3 DEF Pending

\* A poll keeps the flags right: it decodes the first of the pending bytes.
LEMMA PollFlagsStep ==
  ASSUME KeyboardTypeOK, FlagsInv, HasKey \/ GetKey PROVE FlagsInv'
<1>1. /\ intact' = intact /\ held' = held /\ wire' = wire
      /\ lost \subseteq lost'
  <2>1. UNCHANGED <<intact, held, wire>>
    BY PollParts
  <2>2. lost \subseteq lost'
    BY PollParts DEF ProcessScancode
  <2> QED BY <2>1, <2>2
<1>2. CASE UNCHANGED <<scancodes, state>>
  <2>1. Pending' = Pending
    BY <1>1, <1>2 DEF Pending
  <2> QED BY <1>1, <1>2, <2>1 DEF FlagsInv
<1>3. CASE Contents(scancodes) # <<>> /\ state' = NextState(state, Head(Contents(scancodes)))
  <2>1. /\ Pending \in Seq(Bytes) /\ Pending # <<>>
        /\ state' = NextState(state, Head(Pending)) /\ Pending' = Tail(Pending)
    BY <1>3, PollPending
  <2> SUFFICES ASSUME NEW S, S[0] = state', Follows(S, Tail(Pending))
               PROVE  /\ Agree(S[Len(Tail(Pending))], intact, held)
                      /\ lost = {} => "break" \notin S[Len(Tail(Pending))]
    BY <1>1, <2>1 DEF FlagsInv
  <2> DEFINE T == Before(S, state)
  <2>2. Follows(T, Pending) /\ T[0] = state /\ T[Len(Pending)] = S[Len(Tail(Pending))]
    BY <2>1, FollowsBefore
  <2> HIDE DEF T
  <2>3. /\ Agree(T[Len(Pending)], intact, held)
        /\ lost = {} => "break" \notin T[Len(Pending)]
    BY <2>2 DEF FlagsInv
  <2> QED BY <2>2, <2>3
<1> QED BY <1>2, <1>3, PollParts

-----------------------------------------------------------------------------
(* The characters.                                                         *)

\* What the program has had and what waits for it.
Got == delivered \o Contents(keypresses)

\* The shift flags in s are those of the shift keys in down.
ShiftsTold(s, down) ==
  \A c \in {LSHIFT, RSHIFT} : ShiftFlag(c) \in s <=> c \in ShiftsDown(down)

\* Flags s, locks m and characters d against the locks lk and the characters tp
\* of the key events, of which n were fake shifts.
Wrote(s, m, d, down, lk, tp, n) ==
  /\ "caps" \in m <=> "caps" \in lk
  /\ d \in Seq(Bytes)
  /\ n = 0 => d = tp /\ ShiftsTold(s, down)
  /\ Len(d) <= Len(tp) /\ Len(tp) <= Len(d) + n
  /\ "modifier" \in s => Len(tp) + 1 <= Len(d) + n

CharsInv ==
  lost = {} =>
    \A S, M, D :
      /\ S[0] = state /\ M[0] = mode /\ D[0] = Got
      /\ Follows(S, Pending) /\ Writes(S, M, D, Pending)
      => Wrote(S[Len(Pending)], M[Len(Pending)], D[Len(Pending)], held, locked, typed, fakes)

\* Both tables of plain keys have a character, or neither.
LEMMA TableFacts ==
  ASSUME NEW c
  PROVE  /\ Keymap(c) = NoChar <=> KeymapShift(c) = NoChar
         /\ KeymapExtended(c) # NoChar => Keymap(c) # NoChar
         /\ \A b : ToUpper(b) = NoChar <=> b = NoChar
<1>1. c = KEY_A => c # KEY_8 /\ c # SCROLLLOCK
  BY DEF KEY_A, KEY_8, SCROLLLOCK
<1>2. c = KEY_8 => c # SCROLLLOCK
  BY DEF KEY_8, SCROLLLOCK
<1>3. /\ SMALL_A # NoChar /\ LARGE_A # NoChar /\ DIGIT_8 # NoChar /\ PS2_SCROLL # NoChar
      /\ SMALL_A # NoChar
  BY DEF SMALL_A, LARGE_A, DIGIT_8, PS2_SCROLL, NoChar
<1>4. Keymap(c) = NoChar <=> KeymapShift(c) = NoChar
  BY <1>1, <1>2, <1>3 DEF Keymap, KeymapShift
<1>5. KeymapExtended(c) # NoChar => Keymap(c) # NoChar
  BY <1>1, <1>2, <1>3 DEF Keymap, KeymapExtended
<1>6. \A b : ToUpper(b) = NoChar <=> b = NoChar
  BY <1>3 DEF ToUpper
<1> QED BY <1>4, <1>5, <1>6

\* A character or none at the end of a sequence.
LEMMA ExtendedFacts ==
  ASSUME NEW d \in Seq(Bytes), NEW c \in Bytes
  PROVE  /\ Extended(d, c) \in Seq(Bytes)
         /\ Len(Extended(d, c)) = IF c = NoChar THEN Len(d) ELSE Len(d) + 1
         /\ Len(d) \in Nat
BY DEF Extended

\* What a make code writes is a byte.
LEMMA KeyCharType ==
  ASSUME NEW k, NEW x, NEW m PROVE KeyChar(k, x, m) \in Bytes
<1>1. \A b : /\ Keymap(b) \in Bytes /\ KeymapShift(b) \in Bytes /\ KeymapExtended(b) \in Bytes
             /\ NoChar \in Bytes /\ \A c \in Bytes : ToUpper(c) \in Bytes
  BY DEF Keymap, KeymapShift, KeymapExtended, ToUpper, NoChar, SMALL_A, LARGE_A, DIGIT_8,
         PS2_UPARROW, PS2_SCROLL, Bytes, KEY_A, KEY_8, SCROLLLOCK
<1> QED BY <1>1 DEF KeyChar

\* The codes of the shift keys that are down.
LEMMA ShiftsDownFacts ==
  ASSUME NEW k \in Keys, NEW down \in SUBSET Keys
  PROVE  /\ ShiftsDown(down) \subseteq {LSHIFT, RSHIFT}
         /\ (\E h \in down : IsShift(h)) <=> ShiftsDown(down) # {}
         /\ ShiftsDown(down \cup {k}) = ShiftsDown(down) \cup (IF IsShift(k) THEN {k.code} ELSE {})
         /\ ShiftsDown(down \ {k}) = ShiftsDown(down) \ (IF IsShift(k) THEN {k.code} ELSE {})
<1>1. \A h \in Keys : IsShift(h) => h \in HeldKeys
  BY DEF HeldKeys, IsHeldKey
<1>2. \A h \in Keys : IsShift(h) /\ IsShift(k) /\ h.code = k.code => h = k
  BY <1>1, FlagFacts
<1>3. ShiftsDown(down) \subseteq {LSHIFT, RSHIFT}
  BY DEF ShiftsDown, IsShift, ShiftCodes
<1>4. (\E h \in down : IsShift(h)) <=> ShiftsDown(down) # {}
  BY DEF ShiftsDown
<1>5. ShiftsDown(down \cup {k}) = ShiftsDown(down) \cup (IF IsShift(k) THEN {k.code} ELSE {})
  BY DEF ShiftsDown
<1>6. ShiftsDown(down \ {k}) = ShiftsDown(down) \ (IF IsShift(k) THEN {k.code} ELSE {})
  <2>1. ASSUME NEW c PROVE c \in ShiftsDown(down \ {k}) <=>
                c \in ShiftsDown(down) /\ ~(IsShift(k) /\ c = k.code)
    BY <1>2 DEF ShiftsDown
  <2> QED BY <2>1
<1> QED BY <1>3, <1>4, <1>5, <1>6

\* A key pressed, given the flags and locks before it.
LEMMA MakeWrote ==
  ASSUME NEW k \in Keys, NEW x, NEW m, NEW d, NEW down \in SUBSET Keys, NEW lk,
         NEW tp \in Seq(Bytes), NEW n \in Nat, NEW told,
         NEW lies \in SUBSET {LSHIFT, RSHIFT}, NEW fake \in Nat, fake = 0 <=> lies = {},
         lies # {} => k.ext,
         "break" \notin x, Wrote(x, m, d, down, lk, tp, n)
  PROVE  LET lk2 == IF k.ext \/ IsShift(k) THEN lk ELSE Toggled(lk, LockOf(k.code))
             y   == AfterSays(lies, told, x)
             m2  == KeyMode(k, m)
         IN  Wrote(AfterMake(k, y), m2, Extended(d, KeyChar(k, y, m2)), down \cup {k}, lk2,
                   Extended(tp, Meaning(k, down, lk2)), n + fake)
<1> DEFINE lk2 == IF k.ext \/ IsShift(k) THEN lk ELSE Toggled(lk, LockOf(k.code))
           y   == AfterSays(lies, told, x)
           m2  == KeyMode(k, m)
           z   == AfterMake(k, y)
           a   == KeyChar(k, y, m2)
           b   == Meaning(k, down, lk2)
<1>0. k.ext \in BOOLEAN /\ (k.ext => k.code # CAPSLOCK) /\ (IsShift(k) => ~k.ext)
      /\ (IsShift(k) => k \in HeldKeys)
  BY KeyFacts DEF IsShift, HeldKeys, IsHeldKey
<1>1. /\ "caps" \in m <=> "caps" \in lk
      /\ d \in Seq(Bytes) /\ Len(d) \in Nat /\ Len(tp) \in Nat
      /\ n = 0 => d = tp /\ ShiftsTold(x, down)
      /\ Len(d) <= Len(tp) /\ Len(tp) <= Len(d) + n
      /\ "modifier" \in x => Len(tp) + 1 <= Len(d) + n
  BY DEF Wrote
<1>2. "caps" \in m2 <=> "caps" \in lk2
  <2>1. k.ext => "caps" \notin LockOf(k.code)
    BY <1>0 DEF LockOf
  <2> QED BY <1>0, <1>1, <2>1 DEF KeyMode, Toggled
<1>3. a \in Bytes /\ b \in Bytes
  BY KeyCharType, MeaningType
<1>4. lies = {} => y = x
  BY SaysKeeps
<1> HIDE DEF y, m2, lk2
<1>5. "modifier" \in z => IsShift(k) /\ "modifier" \in y
  <2>1. IsShift(k) => FlagOf(k) \in {"shiftL", "shiftR"}
    BY <1>0, FlagFacts DEF ShiftFlag
  <2> QED BY <1>0, <2>1 DEF AfterMake
<1>6. IsShift(k) => a = NoChar /\ b = NoChar
  <2> SUFFICES ASSUME IsShift(k) PROVE a = NoChar /\ b = NoChar
    OBVIOUS
  <2>1. ToUpper(NoChar) = NoChar
    BY TableFacts
  <2>2. (CASE IsShift(k) -> NoChar
           [] k.ext -> KeymapExtended(k.code)
           [] OTHER -> IF \E h \in down : IsShift(h) THEN KeymapShift(k.code)
                       ELSE Keymap(k.code)) = NoChar
    BY <1>0
  <2>3. b = NoChar
    BY <2>1, <2>2 DEF Meaning
  <2> QED BY <2>3 DEF KeyChar
<1>7. ~IsShift(k) /\ k.ext => a = b
  <2> SUFFICES ASSUME ~IsShift(k), k.ext PROVE a = b
    OBVIOUS
  <2>1. b = IF "caps" \in lk2 THEN ToUpper(KeymapExtended(k.code)) ELSE KeymapExtended(k.code)
    <3>1. (CASE IsShift(k) -> NoChar
             [] k.ext -> KeymapExtended(k.code)
             [] OTHER -> IF \E h \in down : IsShift(h) THEN KeymapShift(k.code)
                         ELSE Keymap(k.code)) = KeymapExtended(k.code)
      BY <1>0
    <3> QED BY <3>1 DEF Meaning
  <2>2. a = IF "caps" \in m2 THEN ToUpper(KeymapExtended(k.code)) ELSE KeymapExtended(k.code)
    BY DEF KeyChar
  <2> QED BY <1>2, <2>1, <2>2
<1>8. ~IsShift(k) /\ ~k.ext => (b = NoChar <=> Keymap(k.code) = NoChar)
  <2>1. Keymap(k.code) = NoChar <=> KeymapShift(k.code) = NoChar
    BY TableFacts
  <2>2. \A e : ToUpper(e) = NoChar <=> e = NoChar
    BY TableFacts
  <2> QED BY <2>1, <2>2 DEF Meaning
<1>9. ~IsShift(k) /\ ~k.ext => /\ a # NoChar => Keymap(k.code) # NoChar
                               /\ "modifier" \notin y => (a = NoChar <=> Keymap(k.code) = NoChar)
  <2>1. /\ Keymap(k.code) = NoChar <=> KeymapShift(k.code) = NoChar
        /\ KeymapExtended(k.code) # NoChar => Keymap(k.code) # NoChar
    BY TableFacts
  <2>2. \A e : ToUpper(e) = NoChar <=> e = NoChar
    BY TableFacts
  <2> QED BY <2>1, <2>2 DEF KeyChar
<1>10. /\ a # NoChar => b # NoChar
       /\ b # NoChar /\ a = NoChar => ~IsShift(k) /\ ~k.ext /\ "modifier" \in y
  BY <1>0, <1>6, <1>7, <1>8, <1>9
<1>11. ASSUME n + fake = 0
       PROVE  Extended(d, a) = Extended(tp, b) /\ ShiftsTold(z, down \cup {k})
  <2>1. n = 0 /\ fake = 0 /\ lies = {}
    BY <1>11
  <2>2. d = tp /\ ShiftsTold(x, down) /\ y = x /\ "modifier" \notin x
    BY <1>1, <1>4, <2>1
  <2>3. (x \cap {"shiftL", "shiftR"} # {}) <=> \E h \in down : IsShift(h)
    <3>1. ("shiftL" \in x <=> LSHIFT \in ShiftsDown(down)) /\ ("shiftR" \in x <=> RSHIFT \in ShiftsDown(down))
      BY <2>2, Apart DEF ShiftsTold, ShiftFlag
    <3>2. /\ ShiftsDown(down) \subseteq {LSHIFT, RSHIFT}
          /\ (\E h \in down : IsShift(h)) <=> ShiftsDown(down) # {}
      BY ShiftsDownFacts
    <3>3. ShiftsDown(down) # {} <=> LSHIFT \in ShiftsDown(down) \/ RSHIFT \in ShiftsDown(down)
      BY <3>2
    <3> QED BY <3>1, <3>2, <3>3
  <2>4. a = b
    <3>1. CASE IsShift(k)
      BY <1>6, <3>1
    <3>2. CASE ~IsShift(k) /\ k.ext
      BY <1>7, <3>2
    <3>3. CASE ~IsShift(k) /\ ~k.ext
      BY <1>2, <2>2, <2>3, <3>3 DEF KeyChar, Meaning
    <3> QED BY <1>0, <3>1, <3>2, <3>3
  <2>5. ShiftsTold(z, down \cup {k})
    <3>1. IsShift(k) => /\ k.code \in {LSHIFT, RSHIFT} /\ FlagOf(k) = ShiftFlag(k.code)
                        /\ z = x \cup {FlagOf(k)}
      BY <1>0, <2>2, FlagFacts DEF AfterMake
    <3>2. ~IsShift(k) => \A c \in {LSHIFT, RSHIFT} : ShiftFlag(c) \in z <=> ShiftFlag(c) \in x
      BY <2>2 DEF AfterMake, ShiftFlag
    <3>3. ShiftsDown(down \cup {k}) = ShiftsDown(down) \cup (IF IsShift(k) THEN {k.code} ELSE {})
      BY ShiftsDownFacts
    <3>4. CASE IsShift(k)
      BY <2>2, <3>1, <3>3, <3>4, Apart DEF ShiftsTold, ShiftFlag
    <3>5. CASE ~IsShift(k)
      BY <2>2, <3>2, <3>3, <3>5 DEF ShiftsTold
    <3> QED BY <3>4, <3>5
  <2> QED BY <2>2, <2>4, <2>5
<1>12. /\ Extended(d, a) \in Seq(Bytes)
       /\ Len(Extended(d, a)) = IF a = NoChar THEN Len(d) ELSE Len(d) + 1
       /\ Len(Extended(tp, b)) = IF b = NoChar THEN Len(tp) ELSE Len(tp) + 1
  BY <1>1, <1>3, ExtendedFacts
<1>13. "modifier" \in y => k.ext \/ "modifier" \in x
  BY <1>4
<1> DEFINE d2 == Extended(d, a)
           t2 == Extended(tp, b)
<1>14. /\ Len(d2) <= Len(t2) /\ Len(t2) <= Len(d2) + (n + fake)
       /\ "modifier" \in z => Len(t2) + 1 <= Len(d2) + (n + fake)
  <2> HIDE DEF a, b, d2, t2, z
  <2>1. /\ Len(d2) = IF a = NoChar THEN Len(d) ELSE Len(d) + 1
        /\ Len(t2) = IF b = NoChar THEN Len(tp) ELSE Len(tp) + 1
    BY <1>12 DEF d2, t2
  <2>2. Len(d2) <= Len(t2)
    BY <1>1, <1>10, <2>1
  <2>3. CASE b # NoChar /\ a = NoChar
    <3>1. "modifier" \in x /\ "modifier" \notin z
      BY <1>5, <1>10, <1>13, <2>3
    <3>2. Len(t2) = Len(tp) + 1 /\ Len(d2) = Len(d) /\ Len(tp) + 1 <= Len(d) + n
      BY <1>1, <2>1, <2>3, <3>1
    <3> QED BY <1>1, <2>2, <3>1, <3>2
  <2>4. CASE ~(b # NoChar /\ a = NoChar)
    <3>1. Len(t2) <= Len(d2) + n
      BY <1>1, <1>10, <2>1, <2>4
    <3>2. "modifier" \in z => Len(t2) + 1 <= Len(d2) + n
      <4>1. SUFFICES ASSUME "modifier" \in z PROVE Len(t2) + 1 <= Len(d2) + n
        OBVIOUS
      <4>2. IsShift(k) /\ "modifier" \in x /\ a = NoChar /\ b = NoChar
        BY <1>0, <1>5, <1>6, <1>13, <4>1 
      <4> QED BY <1>1, <2>1, <4>2
    <3>3. Len(t2) \in Nat /\ Len(d2) \in Nat
      BY <1>1, <2>1
    <3> QED BY <2>2, <3>1, <3>2, <3>3
  <2> QED BY <2>3, <2>4
<1>15. Wrote(z, m2, d2, down \cup {k}, lk2, t2, n + fake)
  <2> HIDE DEF a, b, z
  <2>1. d2 \in Seq(Bytes)
    BY <1>12
  <2>2. n + fake = 0 => d2 = t2 /\ ShiftsTold(z, down \cup {k})
    BY <1>11
  <2> HIDE DEF d2, t2
  <2> QED BY <1>2, <1>14, <2>1, <2>2 DEF Wrote
<1> QED BY <1>15 DEF y, lk2, m2

\* A key released.
LEMMA BreakWrote ==
  ASSUME NEW k \in Keys, NEW x, NEW m, NEW d, NEW down \in SUBSET Keys, NEW lk,
         NEW tp \in Seq(Bytes), NEW n \in Nat, NEW told,
         NEW lies \in SUBSET {LSHIFT, RSHIFT}, NEW fake \in Nat, fake = 0 <=> lies = {},
         "break" \notin x, Wrote(x, m, d, down, lk, tp, n)
  PROVE  Wrote(AfterSays(lies, told, AfterBreak(k, x)), m, d, down \ {k}, lk, tp, n + fake)
<1> DEFINE y == AfterBreak(k, x)
           z == AfterSays(lies, told, y)
<1>1. /\ "caps" \in m <=> "caps" \in lk
      /\ d \in Seq(Bytes) /\ Len(d) \in Nat /\ Len(tp) \in Nat
      /\ n = 0 => d = tp /\ ShiftsTold(x, down)
      /\ Len(d) <= Len(tp) /\ Len(tp) <= Len(d) + n
  BY DEF Wrote
<1>2. "break" \notin y /\ "modifier" \notin y
  BY DEF AfterBreak
<1>3. lies = {} => z = y
  <2>1. "break" \notin y
    BY <1>2
  <2> HIDE DEF y
  <2> SUFFICES ASSUME lies = {} PROVE AfterSays(lies, told, y) = y
    OBVIOUS
  <2> QED BY ONLY <2>1, lies \in SUBSET {LSHIFT, RSHIFT}, lies = {}, SaysKeeps
<1>4. "modifier" \in z => fake > 0
  BY <1>2, <1>3
<1>5. ASSUME n + fake = 0 PROVE d = tp /\ ShiftsTold(z, down \ {k})
  <2>1. n = 0 /\ fake = 0 /\ lies = {}
    BY <1>5
  <2>2. d = tp /\ ShiftsTold(x, down) /\ z = y
    BY <1>1, <1>3, <2>1
  <2>3. IsShift(k) => /\ k.code \in {LSHIFT, RSHIFT} /\ FlagOf(k) = ShiftFlag(k.code)
                      /\ y = x \ {"modifier", FlagOf(k)}
    <3>1. IsShift(k) => k \in HeldKeys
      BY DEF HeldKeys, IsHeldKey
    <3> QED BY <3>1, FlagFacts DEF AfterBreak
  <2>4. ~IsShift(k) => \A c \in {LSHIFT, RSHIFT} : ShiftFlag(c) \in y <=> ShiftFlag(c) \in x
    BY DEF AfterBreak, ShiftFlag
  <2>5. ShiftsDown(down \ {k}) = ShiftsDown(down) \ (IF IsShift(k) THEN {k.code} ELSE {})
    BY ShiftsDownFacts
  <2> HIDE DEF y
  <2>6. CASE IsShift(k)
    BY <2>2, <2>3, <2>5, <2>6, Apart DEF ShiftsTold, ShiftFlag
  <2>7. CASE ~IsShift(k)
    BY <2>2, <2>4, <2>5, <2>7 DEF ShiftsTold
  <2> QED BY <2>2, <2>6, <2>7
<1> HIDE DEF z
<1>6. /\ Len(tp) <= Len(d) + (n + fake)
      /\ "modifier" \in z => Len(tp) + 1 <= Len(d) + (n + fake)
  BY <1>1, <1>4
<1>7. Wrote(z, m, d, down \ {k}, lk, tp, n + fake)
  BY <1>1, <1>5, <1>6 DEF Wrote
<1> QED BY <1>7 DEF z

\* The end of a decoding of two codes is the end of that of the second.
LEMMA FromEnds ==
  ASSUME NEW u \in Seq(Bytes), NEW v \in Seq(Bytes), NEW F
  PROVE  /\ Len(u) \in Nat /\ Len(v) \in Nat
         /\ From(F, Len(u))[0] = F[Len(u)]
         /\ From(F, Len(u))[Len(v)] = F[Len(u \o v)]
<1>1. Len(u) \in Nat /\ Len(v) \in Nat /\ Len(u \o v) = Len(v) + Len(u)
  OBVIOUS
<1> QED BY <1>1 DEF From

\* What a key that goes down turns and writes, after the lies before its code.
LEMMA MakeWritesEnd ==
  ASSUME NEW k \in Keys, NEW lies \in SUBSET {LSHIFT, RSHIFT}, NEW told, NEW S, NEW M, NEW D,
         Follows(S, Says(lies, told) \o MakeCode(k)),
         Writes(S, M, D, Says(lies, told) \o MakeCode(k)), "break" \notin S[0]
  PROVE  LET w == Says(lies, told) \o MakeCode(k)
             y == AfterSays(lies, told, S[0])
             m == KeyMode(k, M[0])
         IN  /\ S[Len(w)] = AfterMake(k, y) /\ M[Len(w)] = m
             /\ D[Len(w)] = Extended(D[0], KeyChar(k, y, m))
<1> DEFINE u == Says(lies, told)
           v == MakeCode(k)
           y == AfterSays(lies, told, S[0])
           n == Len(u)
<1>1. u \in Seq(Bytes) /\ v \in Seq(Bytes)
  BY SaysType, KeyFacts
<1>2. "break" \notin y
  BY SaysKeeps
<1>3. S[Len(u \o v)] = AfterMake(k, y)
  BY <1>2, MakeEnd
<1>4. Follows(S, u) /\ Follows(From(S, n), v)
  BY <1>1, FollowsTwo
<1>5. Writes(S, M, D, u) /\ Writes(From(S, n), From(M, n), From(D, n), v)
  BY <1>1, WritesTwo
<1>6. S[n] = y
  BY <1>4, SaysFlags
<1>7. M[n] = M[0] /\ D[n] = D[0]
  BY <1>5, SaysSilent
<1>8. \A F : From(F, n)[0] = F[n] /\ From(F, n)[Len(v)] = F[Len(u \o v)]
  BY <1>1, FromEnds
<1> HIDE DEF u, v, y, n
<1>9. "break" \notin From(S, n)[0]
  BY <1>2, <1>6, <1>8
<1>10. /\ From(M, n)[Len(v)] = KeyMode(k, From(M, n)[0])
       /\ From(D, n)[Len(v)] =
            Extended(From(D, n)[0], KeyChar(k, From(S, n)[0], KeyMode(k, From(M, n)[0])))
  BY <1>4, <1>5, <1>9, MakeWrites DEF v
<1>11. /\ M[Len(u \o v)] = KeyMode(k, M[0])
       /\ D[Len(u \o v)] = Extended(D[0], KeyChar(k, y, KeyMode(k, M[0])))
  BY <1>6, <1>7, <1>8, <1>10
<1> QED BY <1>3, <1>11 DEF u, v, y

\* A key that comes up turns and writes nothing.
LEMMA BreakWritesEnd ==
  ASSUME NEW k \in Keys, NEW lies, NEW told, NEW S, NEW M, NEW D,
         Follows(S, BreakCode(k) \o Says(lies, told)),
         Writes(S, M, D, BreakCode(k) \o Says(lies, told)), "break" \notin S[0]
  PROVE  LET w == BreakCode(k) \o Says(lies, told)
         IN  /\ S[Len(w)] = AfterSays(lies, told, AfterBreak(k, S[0]))
             /\ M[Len(w)] = M[0] /\ D[Len(w)] = D[0]
<1> DEFINE u == BreakCode(k)
           v == Says(lies, told)
           n == Len(u)
<1>1. u \in Seq(Bytes) /\ v \in Seq(Bytes)
  BY SaysType, KeyFacts
<1>2. S[Len(u \o v)] = AfterSays(lies, told, AfterBreak(k, S[0]))
  BY BreakEnd
<1>3. Follows(S, u)
  BY <1>1, FollowsTwo
<1>4. Writes(S, M, D, u) /\ Writes(From(S, n), From(M, n), From(D, n), v)
  BY <1>1, WritesTwo
<1>5. M[n] = M[0] /\ D[n] = D[0]
  BY <1>3, <1>4, BreakSilent
<1>6. /\ From(M, n)[Len(v)] = From(M, n)[0]
      /\ From(D, n)[Len(v)] = From(D, n)[0]
  BY <1>4, SaysSilent
<1>7. \A F : From(F, n)[0] = F[n] /\ From(F, n)[Len(v)] = F[Len(u \o v)]
  BY <1>1, FromEnds
<1> HIDE DEF u, v, n
<1>8. M[Len(u \o v)] = M[0] /\ D[Len(u \o v)] = D[0]
  BY <1>5, <1>6, <1>7
<1> QED BY <1>2, <1>8 DEF u, v

\* A key event writes behind what is pending.
LEMMA EventWrites ==
  ASSUME KeyboardTypeOK, wire = <<>>, NEW codes \in Seq(Bytes), NEW S, NEW M, NEW D,
         Follows(S, Contents(scancodes) \o codes), Writes(S, M, D, Contents(scancodes) \o codes)
  PROVE  LET n == Len(Pending)
             w == Contents(scancodes) \o codes
         IN  /\ Follows(S, Pending) /\ Writes(S, M, D, Pending)
             /\ Follows(From(S, n), codes)
             /\ Writes(From(S, n), From(M, n), From(D, n), codes)
             /\ \A F : From(F, n)[0] = F[n] /\ From(F, n)[Len(codes)] = F[Len(w)]
<1>1. Pending \in Seq(Bytes) /\ Pending = Contents(scancodes)
  BY PendingType
<1>2. Follows(S, Pending) /\ Follows(From(S, Len(Pending)), codes)
  BY <1>1, FollowsTwo
<1>3. /\ Writes(S, M, D, Pending)
      /\ Writes(From(S, Len(Pending)), From(M, Len(Pending)), From(D, Len(Pending)), codes)
  BY <1>1, WritesTwo
<1>4. \A F : /\ From(F, Len(Pending))[0] = F[Len(Pending)]
             /\ From(F, Len(Pending))[Len(codes)] = F[Len(Pending \o codes)]
  <2> HIDE DEF Pending
  <2>1. Pending \in Seq(Bytes)
    BY <1>1
  <2> QED BY ONLY <2>1, codes \in Seq(Bytes), FromEnds
<1> QED BY <1>1, <1>2, <1>3, <1>4

\* A key that goes down writes what it stands for, unless a fake shift cost it.
LEMMA MakeCharsStep ==
  ASSUME KeyboardTypeOK, FlagsInv, CharsInv, NEW k \in Keys, KeyMake(k)
  PROVE  CharsInv'
<1> DEFINE lies == Lies(k)
           told == ShiftCodes \ ShiftsDown(held)
           codes == Says(lies, told) \o MakeCode(k)
           lk == IF k.ext \/ IsShift(k) THEN locked ELSE Toggled(locked, LockOf(k.code))
           chr == Meaning(k, held, lk)
<1>1. /\ wire = <<>> /\ codes \in Seq(Bytes) /\ Pending' = Contents(scancodes) \o codes
      /\ lies \in SUBSET {LSHIFT, RSHIFT} /\ held' = held \cup {k}
      /\ UNCHANGED <<scancodes, keypresses, state, mode, delivered, lost>>
  BY MakeParts
<1>2. /\ locked' = lk /\ typed' = Extended(typed, chr)
      /\ fakes' = fakes + Cardinality(lies)
  BY DEF KeyMake, KeyEvent, Extended
<1>3. /\ Cardinality(lies) \in Nat /\ (Cardinality(lies) = 0 <=> lies = {})
      /\ lies # {} => k.ext
  BY <1>1, LieType DEF Lies, IsNavigation
<1>4. Got' = Got
  BY <1>1 DEF Got
<1> SUFFICES ASSUME lost = {}, NEW S, NEW M, NEW D,
                    S[0] = state, M[0] = mode, D[0] = Got,
                    Follows(S, Contents(scancodes) \o codes),
                    Writes(S, M, D, Contents(scancodes) \o codes)
             PROVE  LET n == Len(Contents(scancodes) \o codes)
                    IN  Wrote(S[n], M[n], D[n], held', locked', typed', fakes')
  BY <1>1, <1>4 DEF CharsInv
<1> DEFINE n == Len(Pending)
           w == Contents(scancodes) \o codes
           x == S[n]
           m == M[n]
           d == D[n]
           y == AfterSays(lies, told, x)
<1> HIDE DEF codes
<1>5. /\ Follows(S, Pending) /\ Writes(S, M, D, Pending)
      /\ Follows(From(S, n), codes) /\ Writes(From(S, n), From(M, n), From(D, n), codes)
      /\ \A F : From(F, n)[0] = F[n] /\ From(F, n)[Len(codes)] = F[Len(w)]
  BY <1>1, EventWrites
<1>6. Wrote(x, m, d, held, locked, typed, fakes)
  BY <1>5 DEF CharsInv
<1>7. "break" \notin x
  BY <1>5 DEF FlagsInv
<1> HIDE DEF n, w, lies, told
<1>8. /\ From(S, n)[Len(codes)] = AfterMake(k, y)
      /\ From(M, n)[Len(codes)] = KeyMode(k, m)
      /\ From(D, n)[Len(codes)] = Extended(d, KeyChar(k, y, KeyMode(k, m)))
  <2>1. "break" \notin From(S, n)[0]
    BY <1>5, <1>7
  <2>2. /\ From(S, n)[Len(codes)] = AfterMake(k, AfterSays(lies, told, From(S, n)[0]))
        /\ From(M, n)[Len(codes)] = KeyMode(k, From(M, n)[0])
        /\ From(D, n)[Len(codes)] =
             Extended(From(D, n)[0], KeyChar(k, AfterSays(lies, told, From(S, n)[0]),
                                             KeyMode(k, From(M, n)[0])))
    BY <1>1, <1>5, <2>1, MakeWritesEnd DEF codes
  <2> QED BY <1>5, <2>2
<1>9. Wrote(AfterMake(k, y), KeyMode(k, m), Extended(d, KeyChar(k, y, KeyMode(k, m))),
            held \cup {k}, lk, Extended(typed, chr), fakes + Cardinality(lies))
  <2> DEFINE fake == Cardinality(lies)
  <2>1. fake \in Nat /\ (fake = 0 <=> lies = {})
    BY <1>3
  <2>2. held \in SUBSET Keys /\ typed \in Seq(Bytes) /\ fakes \in Nat
    BY DEF KeyboardTypeOK
  <2> HIDE DEF fake, x, m, d
  <2>3. Wrote(AfterMake(k, y), KeyMode(k, m), Extended(d, KeyChar(k, y, KeyMode(k, m))),
              held \cup {k}, lk, Extended(typed, chr), fakes + fake)
    BY <1>1, <1>3, <1>6, <1>7, <2>1, <2>2, MakeWrote
  <2> QED BY <2>3 DEF fake
<1> HIDE DEF y, chr, lk
<1>10. /\ S[Len(w)] = AfterMake(k, y) /\ M[Len(w)] = KeyMode(k, m)
       /\ D[Len(w)] = Extended(d, KeyChar(k, y, KeyMode(k, m)))
  BY <1>5, <1>8
<1> QED BY <1>1, <1>2, <1>9, <1>10 DEF w

\* A key that comes up writes nothing.
LEMMA BreakCharsStep ==
  ASSUME KeyboardTypeOK, FlagsInv, CharsInv, NEW k \in Keys, KeyBreak(k)
  PROVE  CharsInv'
<1> DEFINE truths == IF IsNavigation(k) THEN faked ELSE {}
           told == ShiftsDown(held)
           codes == BreakCode(k) \o Says(truths, told)
<1>1. /\ wire = <<>> /\ codes \in Seq(Bytes) /\ Pending' = Contents(scancodes) \o codes
      /\ truths \in SUBSET {LSHIFT, RSHIFT} /\ held' = held \ {k}
      /\ UNCHANGED <<scancodes, keypresses, state, mode, delivered, lost, typed, locked>>
  BY BreakParts
<1>2. fakes' = fakes + Cardinality(truths)
  BY DEF KeyBreak, KeyEvent
<1> HIDE DEF truths
<1>3. /\ Cardinality(truths) \in Nat /\ (Cardinality(truths) = 0 <=> truths = {})
  BY <1>1, LieType
<1>4. Got' = Got
  BY <1>1 DEF Got
<1> SUFFICES ASSUME lost = {}, NEW S, NEW M, NEW D,
                    S[0] = state, M[0] = mode, D[0] = Got,
                    Follows(S, Contents(scancodes) \o codes),
                    Writes(S, M, D, Contents(scancodes) \o codes)
             PROVE  LET n == Len(Contents(scancodes) \o codes)
                    IN  Wrote(S[n], M[n], D[n], held', locked', typed', fakes')
  BY <1>1, <1>4 DEF CharsInv
<1> DEFINE n == Len(Pending)
           w == Contents(scancodes) \o codes
           x == S[n]
           m == M[n]
           d == D[n]
           y == AfterSays(truths, told, AfterBreak(k, x))
<1> HIDE DEF codes
<1>5. /\ Follows(S, Pending) /\ Writes(S, M, D, Pending)
      /\ Follows(From(S, n), codes) /\ Writes(From(S, n), From(M, n), From(D, n), codes)
      /\ \A F : From(F, n)[0] = F[n] /\ From(F, n)[Len(codes)] = F[Len(w)]
  BY <1>1, EventWrites
<1>6. Wrote(x, m, d, held, locked, typed, fakes)
  BY <1>5 DEF CharsInv
<1>7. "break" \notin x
  BY <1>5 DEF FlagsInv
<1> HIDE DEF n, w, told
<1>8. /\ From(S, n)[Len(codes)] = y /\ From(M, n)[Len(codes)] = m /\ From(D, n)[Len(codes)] = d
  <2>1. "break" \notin From(S, n)[0]
    BY <1>5, <1>7
  <2>2. /\ From(S, n)[Len(codes)] = AfterSays(truths, told, AfterBreak(k, From(S, n)[0]))
        /\ From(M, n)[Len(codes)] = From(M, n)[0]
        /\ From(D, n)[Len(codes)] = From(D, n)[0]
    BY <1>5, <2>1, BreakWritesEnd DEF codes
  <2> QED BY <1>5, <2>2
<1>9. Wrote(y, m, d, held \ {k}, locked, typed, fakes + Cardinality(truths))
  <2> DEFINE fake == Cardinality(truths)
  <2>1. fake \in Nat /\ (fake = 0 <=> truths = {})
    BY <1>3
  <2>2. held \in SUBSET Keys /\ typed \in Seq(Bytes) /\ fakes \in Nat
    BY DEF KeyboardTypeOK
  <2> HIDE DEF fake, x, m, d
  <2>3. Wrote(y, m, d, held \ {k}, locked, typed, fakes + fake)
    BY <1>1, <1>6, <1>7, <2>1, <2>2, BreakWrote
  <2> QED BY <2>3 DEF fake
<1> HIDE DEF y
<1>10. S[Len(w)] = y /\ M[Len(w)] = m /\ D[Len(w)] = d
  BY <1>5, <1>8
<1> QED BY <1>1, <1>2, <1>9, <1>10 DEF w

\* A byte that comes in changes nothing that is pending, while nothing is lost.
LEMMA CodeCharsStep ==
  ASSUME KeyboardTypeOK, CharsInv, ReceiveCode PROVE CharsInv'
<1>1. /\ UNCHANGED <<held, locked, typed, delivered, fakes, keypresses, state, mode>>
      /\ lost' = IF RingFull(scancodes) THEN lost \cup {"code"} ELSE lost
  BY DEF ReceiveCode, Receive
<1>2. CASE RingFull(scancodes)
  <2>1. lost' # {}
    BY <1>1, <1>2
  <2> QED BY <2>1 DEF CharsInv
<1>3. CASE ~RingFull(scancodes)
  <2>1. Pending' = Pending /\ lost' = lost /\ Got' = Got
    BY <1>1, <1>3, RoomPending DEF Got
  <2> QED BY <1>1, <2>1 DEF CharsInv
<1> QED BY <1>2, <1>3

\* The last of the bytes written.
LEMMA LastWrite ==
  ASSUME NEW w \in Seq(Bytes), NEW b \in Bytes, NEW S, NEW M, NEW D,
         Writes(S, M, D, Append(w, b))
  PROVE  /\ Writes(S, M, D, w)
         /\ M[Len(Append(w, b))] = NextMode(S[Len(w)], M[Len(w)], b)
         /\ D[Len(Append(w, b))] = Extended(D[Len(w)], CharOf(S[Len(w)], M[Len(w)], b))
<1>1. /\ Len(w) \in Nat /\ Len(Append(w, b)) = Len(w) + 1 /\ Append(w, b)[Len(w) + 1] = b
      /\ \A i \in 1 .. Len(w) : Append(w, b)[i] = w[i]
  OBVIOUS
<1>2. Len(w) + 1 \in 1 .. Len(Append(w, b)) /\ (Len(w) + 1) - 1 = Len(w)
  BY <1>1
<1>3. /\ M[Len(w) + 1] = NextMode(S[Len(w)], M[Len(w)], b)
      /\ D[Len(w) + 1] = Extended(D[Len(w)], CharOf(S[Len(w)], M[Len(w)], b))
  <2> DEFINE j == (Len(w) + 1) - 1
  <2>1. /\ M[Len(w) + 1] = NextMode(S[j], M[j], Append(w, b)[Len(w) + 1])
        /\ D[Len(w) + 1] = Extended(D[j], CharOf(S[j], M[j], Append(w, b)[Len(w) + 1]))
    BY <1>2 DEF Writes
  <2> QED BY <1>1, <1>2, <2>1
<1>4. Writes(S, M, D, w)
  <2> SUFFICES ASSUME NEW i \in 1 .. Len(w)
               PROVE  /\ M[i] = NextMode(S[i - 1], M[i - 1], w[i])
                      /\ D[i] = Extended(D[i - 1], CharOf(S[i - 1], M[i - 1], w[i]))
    BY DEF Writes
  <2>1. i \in 1 .. Len(Append(w, b))
    BY <1>1
  <2> QED BY <1>1, <2>1 DEF Writes
<1> QED BY <1>1, <1>3, <1>4

\* A reply turns and writes nothing.
LEMMA ReplyWrites ==
  ASSUME NEW s, NEW m, NEW d
  PROVE  NextMode(s, m, REPLY) = m /\ Extended(d, CharOf(s, m, REPLY)) = d
<1>1. LockOf(REPLY) = {}
  BY DEF LockOf, REPLY, CAPSLOCK, NUMLOCK, SCROLLLOCK
<1>2. Toggled(m, {}) = m
  BY DEF Toggled
<1>3. NextMode(s, m, REPLY) = m
  BY <1>1, <1>2 DEF NextMode
<1>4. /\ Keymap(REPLY) = NoChar /\ KeymapShift(REPLY) = NoChar /\ KeymapExtended(REPLY) = NoChar
  BY DEF Keymap, KeymapShift, KeymapExtended, REPLY, KEY_A, KEY_8, SCROLLLOCK
<1>5. ToUpper(NoChar) = NoChar
  BY TableFacts
<1>6. CharOf(s, m, REPLY) = NoChar
  BY <1>4, <1>5 DEF CharOf
<1> QED BY <1>3, <1>6 DEF Extended

\* A reply writes nothing.
LEMMA ReplyCharsStep ==
  ASSUME KeyboardTypeOK, FlagsInv, CharsInv, ReceiveReply PROVE CharsInv'
<1>1. CASE RingFull(scancodes)
  <2>1. lost' # {}
    BY <1>1, ReplyParts
  <2> QED BY <2>1 DEF CharsInv
<1>2. CASE ~RingFull(scancodes)
  <2>1. /\ state' = state /\ held' = held /\ lost' = lost
        /\ UNCHANGED <<keypresses, mode, locked, typed, delivered, fakes>>
        /\ Pending' = Append(Pending, REPLY) /\ REPLY \in Bytes /\ Pending \in Seq(Bytes)
    BY <1>2, ReplyParts, PendingType
  <2>2. Got' = Got
    BY <2>1 DEF Got
  <2> DEFINE w == Append(Pending, REPLY)
  <2> SUFFICES ASSUME lost = {}, NEW S, NEW M, NEW D, S[0] = state, M[0] = mode, D[0] = Got,
                      Follows(S, w), Writes(S, M, D, w)
               PROVE  Wrote(S[Len(w)], M[Len(w)], D[Len(w)], held, locked, typed, fakes)
    BY <2>1, <2>2 DEF CharsInv
  <2> DEFINE n == Len(Pending)
             x == S[n]
             m == M[n]
             d == D[n]
  <2>3. S[Len(w)] = NextState(x, REPLY) /\ Follows(S, Pending)
    BY <2>1, LastStep
  <2>4. /\ Writes(S, M, D, Pending) /\ M[Len(w)] = NextMode(x, m, REPLY)
        /\ D[Len(w)] = Extended(d, CharOf(x, m, REPLY))
    BY <2>1, LastWrite
  <2>5. Wrote(x, m, d, held, locked, typed, fakes) /\ "break" \notin x
    BY <2>3, <2>4 DEF CharsInv, FlagsInv
  <2> HIDE DEF w, n
  <2>6. M[Len(w)] = m /\ D[Len(w)] = d /\ S[Len(w)] = x \ {"modifier"}
    BY <2>3, <2>4, <2>5, ReplyWrites, ReplyFlags
  <2> HIDE DEF x, m, d
  <2>7. \A c \in {LSHIFT, RSHIFT} : ShiftFlag(c) \in x <=> ShiftFlag(c) \in x \ {"modifier"}
    BY DEF ShiftFlag
  <2>8. Wrote(x \ {"modifier"}, m, d, held, locked, typed, fakes)
    BY <2>5, <2>7 DEF Wrote, ShiftsTold
  <2> QED BY <2>6, <2>8
<1> QED BY <1>1, <1>2

\* What a poll does to the characters: it takes one out of the queue or none.
LEMMA PollGot ==
  ASSUME KeyboardTypeOK, HasKey \/ GetKey, lost' = {}
  PROVE  /\ RingEmpty(scancodes) => Got' = Got
         /\ ~RingEmpty(scancodes) =>
              Got' = Extended(Got, CharOf(state, mode, RingFront(scancodes)))
<1> DEFINE chr == CharOf(state, mode, RingFront(scancodes))
<1>1. /\ keypresses \in Rings(PressLength, Bytes) /\ delivered \in Seq(Bytes) /\ chr \in Bytes
  BY CharType DEF KeyboardTypeOK
<1>2. ~RingEmpty(scancodes) /\ chr # NoChar => ~RingFull(keypresses)
  BY DEF HasKey, GetKey, ProcessKeyboard, ProcessScancode
<1> HIDE DEF chr
<1>3. /\ Queued \in Rings(PressLength, Bytes)
      /\ Contents(Queued) = IF RingEmpty(scancodes) THEN Contents(keypresses)
                            ELSE Extended(Contents(keypresses), chr)
  <2>1. CASE RingEmpty(scancodes)
    BY <1>1, <2>1 DEF Queued
  <2>2. CASE ~RingEmpty(scancodes) /\ chr = NoChar
    BY <1>1, <2>2 DEF Queued, Extended, chr
  <2>3. CASE ~RingEmpty(scancodes) /\ chr # NoChar
    <3>1. Queued = RingPut(keypresses, chr)
      BY <2>3 DEF Queued, chr
    <3>2. RingPut(keypresses, chr) \in Rings(PressLength, Bytes)
      BY <1>1, CodeSizes, PutType
    <3>3. Contents(RingPut(keypresses, chr)) = Append(Contents(keypresses), chr)
      BY <1>1, <1>2, <2>3, CodeSizes, PutContents
    <3> QED BY <2>3, <3>1, <3>2, <3>3 DEF Extended
  <2> QED BY <2>1, <2>2, <2>3
<1>4. Contents(Queued) \in Seq(Bytes) /\ Contents(keypresses) \in Seq(Bytes)
  BY <1>1, <1>3, CodeSizes, ContentsType
<1>5. Got' = delivered \o Contents(Queued)
  <2>1. CASE HasKey
    BY <2>1 DEF HasKey, Got
  <2>2. CASE GetKey /\ RingEmpty(Queued)
    BY <2>2 DEF GetKey, Got
  <2>3. CASE GetKey /\ ~RingEmpty(Queued)
    <3>1. /\ Contents(Queued) # <<>> /\ RingFront(Queued) = Head(Contents(Queued))
          /\ Contents(RingDrop(Queued)) = Tail(Contents(Queued))
      BY <1>3, <2>3, CodeSizes, DropContents
    <3>2. keypresses' = RingDrop(Queued) /\ delivered' = Append(delivered, RingFront(Queued))
      BY <2>3 DEF GetKey
    <3>3. Append(delivered, Head(Contents(Queued))) \o Tail(Contents(Queued))
            = delivered \o Contents(Queued)
      BY <1>1, <1>4, <3>1, MoveOne
    <3> QED BY <3>1, <3>2, <3>3 DEF Got
  <2> QED BY <2>1, <2>2, <2>3
<1>6. CASE RingEmpty(scancodes)
  BY <1>3, <1>5, <1>6 DEF Got
<1>7. CASE ~RingEmpty(scancodes)
  <2>1. delivered \o Append(Contents(keypresses), chr) = Append(delivered \o Contents(keypresses), chr)
    BY <1>1, <1>4
  <2> QED BY <1>3, <1>5, <1>7, <2>1 DEF Got, Extended, chr
<1> QED BY <1>6, <1>7

\* A poll writes the character of the byte it decodes.
LEMMA PollCharsStep ==
  ASSUME KeyboardTypeOK, CharsInv, HasKey \/ GetKey PROVE CharsInv'
<1> SUFFICES ASSUME lost' = {} PROVE CharsInv'
  BY DEF CharsInv
<1>1. UNCHANGED <<held, wire, locked, typed, fakes>>
  BY PollParts
<1>2. CASE RingEmpty(scancodes)
  <2>1. UNCHANGED <<scancodes, state, mode, lost>>
    BY <1>2, PollParts
  <2>2. Got' = Got /\ Pending' = Pending
    BY <1>1, <1>2, <2>1, PollGot DEF Pending
  <2> QED BY <1>1, <2>1, <2>2 DEF CharsInv
<1>3. CASE ~RingEmpty(scancodes)
  <2> DEFINE b == Head(Contents(scancodes))
  <2>1. /\ Contents(scancodes) # <<>> /\ RingFront(scancodes) = b
        /\ ProcessScancode(b) /\ state' = NextState(state, b)
    BY <1>3, PollParts
  <2>2. Got' = Extended(Got, CharOf(state, mode, b))
    BY <1>3, <2>1, PollGot
  <2>3. mode' = NextMode(state, mode, b) /\ lost = {}
    BY <2>1 DEF ProcessScancode
  <2>4. /\ Pending \in Seq(Bytes) /\ Pending # <<>> /\ b = Head(Pending)
        /\ Pending' = Tail(Pending)
    BY <2>1, PollPending
  <2> HIDE DEF b
  <2> SUFFICES ASSUME NEW S, NEW M, NEW D, S[0] = state', M[0] = mode', D[0] = Got',
                      Follows(S, Tail(Pending)), Writes(S, M, D, Tail(Pending))
               PROVE  LET n == Len(Tail(Pending))
                      IN  Wrote(S[n], M[n], D[n], held, locked, typed, fakes)
    BY <1>1, <2>4 DEF CharsInv
  <2> DEFINE s1 == Before(S, state)
             m1 == Before(M, mode)
             d1 == Before(D, Got)
  <2>5. /\ Follows(s1, Pending) /\ s1[0] = state /\ s1[Len(Pending)] = S[Len(Tail(Pending))]
    BY <2>1, <2>4, FollowsBefore
  <2>6. /\ Writes(s1, m1, d1, Pending)
        /\ m1[Len(Pending)] = M[Len(Tail(Pending))] /\ d1[Len(Pending)] = D[Len(Tail(Pending))]
    <3>1. /\ S[0] = NextState(state, Head(Pending)) /\ M[0] = NextMode(state, mode, Head(Pending))
          /\ D[0] = Extended(Got, CharOf(state, mode, Head(Pending)))
      BY <2>1, <2>2, <2>3, <2>4
    <3> DEFINE p == Pending
               g == Got
    <3>2. p \in Seq(Bytes) /\ p # <<>> /\ Writes(S, M, D, Tail(p))
      BY <2>4
    <3>3. /\ S[0] = NextState(state, Head(p)) /\ M[0] = NextMode(state, mode, Head(p))
          /\ D[0] = Extended(g, CharOf(state, mode, Head(p)))
      BY <3>1
    <3> HIDE DEF p, g
    <3>4. /\ Writes(Before(S, state), Before(M, mode), Before(D, g), p)
          /\ Before(M, mode)[Len(p)] = M[Len(Tail(p))]
          /\ Before(D, g)[Len(p)] = D[Len(Tail(p))]
      BY ONLY <3>2, <3>3, WritesBefore
    <3> QED BY <3>4 DEF p, g
  <2>7. m1[0] = mode /\ d1[0] = Got
    BY DEF Before
  <2> HIDE DEF s1, m1, d1
  <2>8. Wrote(s1[Len(Pending)], m1[Len(Pending)], d1[Len(Pending)], held, locked, typed, fakes)
    BY <2>3, <2>5, <2>6, <2>7 DEF CharsInv
  <2> QED BY <2>5, <2>6, <2>8
<1> QED BY <1>2, <1>3

KeyboardInv ==
  /\ KeyboardTypeOK
  /\ ReliableInv
  /\ FlagsInv
  /\ ReleaseInv
  /\ CharsInv

\* Nothing is pending at the start.
LEMMA KeyboardInvInit == InitBuffers => KeyboardInv
<1> SUFFICES ASSUME InitBuffers PROVE KeyboardInv
  OBVIOUS
<1>1. KeyboardTypeOK
  BY KeyboardTypeInit
<1>2. /\ state = {} /\ mode = {} /\ held = {} /\ locked = {} /\ typed = <<>> /\ delivered = <<>>
      /\ fakes = 0 /\ releasing = {} /\ intact = HeldKeys /\ wire = <<>>
  BY DEF InitBuffers, HeldKeys
<1>3. Contents(scancodes) = <<>> /\ Contents(keypresses) = <<>>
  <2>1. scancodes = RingInit(ScanLength) /\ keypresses = RingInit(PressLength)
    BY DEF InitBuffers
  <2> QED BY <2>1, CodeSizes, EmptyRing
<1>4. Pending = <<>> /\ Got = <<>> /\ Len(Pending) = 0
  BY <1>2, <1>3 DEF Pending, Got
<1>5. ReliableInv /\ ReleaseInv
  BY <1>2 DEF ReliableInv, ReleaseInv
<1>6. FlagsInv
  <2>1. Agree({}, HeldKeys, {})
    BY DEF Agree
  <2> QED BY <1>2, <1>4, <2>1 DEF FlagsInv
<1>7. CharsInv
  <2>1. ShiftsTold({}, {})
    BY DEF ShiftsTold, ShiftsDown
  <2>2. Wrote({}, {}, <<>>, {}, {}, <<>>, 0)
    BY <2>1 DEF Wrote
  <2> QED BY <1>2, <1>4, <2>2 DEF CharsInv
<1> QED BY <1>1, <1>5, <1>6, <1>7 DEF KeyboardInv

\* The keys the driver is right about are shift and AltGr keys.
LEMMA ReliableStep ==
  ASSUME KeyboardTypeOK, ReliableInv, ReleaseInv, KeyboardNext PROVE ReliableInv'
<1>1. ASSUME NEW k \in Keys, KeyMake(k) \/ KeyBreak(k) PROVE intact' \subseteq intact
  BY <1>1 DEF KeyMake, KeyBreak, KeyEvent
<1>2. CASE ReceiveCode
  <2>1. intact' \subseteq intact \cup releasing
    BY <1>2 DEF ReceiveCode
  <2>2. releasing \subseteq HeldKeys
    BY DEF ReleaseInv
  <2> QED BY <2>1, <2>2 DEF ReliableInv
<1>3. CASE ReceiveReply
  BY <1>3 DEF ReceiveReply, ReliableInv
<1>4. CASE HasKey \/ GetKey
  BY <1>4, PollParts DEF ReliableInv
<1> QED BY <1>1, <1>2, <1>3, <1>4 DEF KeyboardNext, ReliableInv

\* Every step of the keyboard, the interrupt and the main program keeps the
\* invariant.
LEMMA KeyboardInvStep == KeyboardInv /\ [KeyboardNext]_keyboardVars => KeyboardInv'
<1> SUFFICES ASSUME KeyboardInv, [KeyboardNext]_keyboardVars PROVE KeyboardInv'
  OBVIOUS
<1>1. KeyboardTypeOK /\ ReliableInv /\ FlagsInv /\ ReleaseInv /\ CharsInv
  BY DEF KeyboardInv
<1>2. KeyboardTypeOK'
  BY <1>1, KeyboardTypeStep
<1>3. CASE KeyboardNext
  <2>1. ReliableInv'
    BY <1>1, <1>3, ReliableStep
  <2>2. ASSUME NEW k \in Keys, KeyMake(k) PROVE FlagsInv' /\ ReleaseInv' /\ CharsInv'
    BY <1>1, <2>2, MakeFlagsStep, MakeReleaseStep, MakeCharsStep
  <2>3. ASSUME NEW k \in Keys, KeyBreak(k) PROVE FlagsInv' /\ ReleaseInv' /\ CharsInv'
    BY <1>1, <2>3, BreakFlagsStep, BreakReleaseStep, BreakCharsStep
  <2>4. ASSUME ReceiveCode PROVE FlagsInv' /\ ReleaseInv' /\ CharsInv'
    BY <1>1, <2>4, CodeFlagsStep, CodeReleaseStep, CodeCharsStep
  <2>5. ASSUME ReceiveReply PROVE FlagsInv' /\ ReleaseInv' /\ CharsInv'
    BY <1>1, <2>5, ReplyFlagsStep, ReplyReleaseStep, ReplyCharsStep
  <2>6. ASSUME HasKey \/ GetKey PROVE FlagsInv' /\ ReleaseInv' /\ CharsInv'
    BY <1>1, <2>6, PollFlagsStep, PollReleaseStep, PollCharsStep
  <2>7. FlagsInv' /\ ReleaseInv' /\ CharsInv'
    BY <1>3, <2>2, <2>3, <2>4, <2>5, <2>6 DEF KeyboardNext
  <2> QED BY <1>2, <2>1, <2>7 DEF KeyboardInv
<1>4. CASE UNCHANGED keyboardVars
  <2>1. /\ UNCHANGED <<scancodes, keypresses, state, mode, held, wire, locked, typed>>
        /\ UNCHANGED <<delivered, lost, intact, releasing, fakes>>
    BY <1>4 DEF keyboardVars, driver, keyboard, history
  <2>2. Pending' = Pending /\ Got' = Got
    BY <2>1 DEF Pending, Got
  <2>3. ReliableInv' /\ FlagsInv' /\ CharsInv'
    BY <1>1, <2>1, <2>2 DEF ReliableInv, FlagsInv, CharsInv
  <2>4. ReleaseInv'
    BY <1>1, <2>1 DEF ReleaseInv, Prefixed, Opened
  <2> QED BY <1>2, <2>3, <2>4 DEF KeyboardInv
<1> QED BY <1>3, <1>4

\* The invariant of the decoding, for every size of the two rings, every set of
\* keys within KeysAssumption and every interleaving: decoding all that is
\* pending, from the flags and locks of now, leaves the flags of the keys that
\* are down, and the characters of the keys typed.
THEOREM KeyboardSound == KeyboardSpec => []KeyboardInv
<1>1. InitBuffers => KeyboardInv
  BY KeyboardInvInit
<1>2. KeyboardInv /\ [KeyboardNext]_keyboardVars => KeyboardInv'
  BY KeyboardInvStep
<1> QED BY <1>1, <1>2, PTL DEF KeyboardSpec

-----------------------------------------------------------------------------
(* Every code can be decoded, and what was written before stays in front.  *)

\* Induction over a set of numbers: its complement has no least element.
LEMMA SetInduction ==
  ASSUME NEW S, 0 \in S, \A n \in Nat : n \in S => n + 1 \in S
  PROVE  \A n \in Nat : n \in S
<1> DEFINE T == Nat \ S
           R == OpToRel(<, Nat)
<1>1. SUFFICES ASSUME T # {} PROVE FALSE
  OBVIOUS
<1>2. IsWellFoundedOn(R, Nat)
  BY NatLessThanWellFounded
<1>3. T \subseteq Nat
  OBVIOUS
<1>4. \A x, y \in Nat : <<y, x>> \in R <=> y < x
  BY DEF OpToRel
<1> HIDE DEF T, R
<1>5. PICK x \in T : \A y \in T : ~ (<<y, x>> \in R)
  BY <1>1, <1>2, <1>3, WFMin
<1>6. \A y \in T : ~ (y < x)
  BY <1>3, <1>4, <1>5
<1> USE DEF T
<1>7. CASE x = 0
  BY <1>7
<1>8. CASE x # 0
  <2>1. x - 1 \in Nat /\ x - 1 < x /\ (x - 1) + 1 = x /\ x \in Nat
    BY <1>8
  <2>2. x - 1 \notin T
    BY <2>1, <1>6
  <2>3. x - 1 \in S
    BY <2>1, <2>2
  <2> QED BY <2>1, <2>3
<1> QED BY <1>7, <1>8

\* e begins with d.
Starts(d, e) ==
  e \in Seq(Bytes) /\ Len(d) <= Len(e) /\ \A i \in 1 .. Len(d) : e[i] = d[i]

\* Bytes w can be decoded from flags s, locks m and characters d.
Decodes(w, s, m, d) ==
  \E S, M, D : /\ S[0] = s /\ M[0] = m /\ D[0] = d
               /\ Follows(S, w) /\ Writes(S, M, D, w)
               /\ Starts(d, D[Len(w)])

\* A sequence begins a longer one, and what begins with the longer one.
LEMMA ExtendedStarts ==
  ASSUME NEW d \in Seq(Bytes), NEW c \in Bytes
  PROVE  /\ Extended(d, c) \in Seq(Bytes) /\ Starts(d, d)
         /\ \A e : Starts(Extended(d, c), e) => Starts(d, e)
<1>1. /\ Extended(d, c) \in Seq(Bytes) /\ Len(d) \in Nat
      /\ Len(d) <= Len(Extended(d, c)) /\ Len(Extended(d, c)) \in Nat
      /\ \A i \in 1 .. Len(d) : Extended(d, c)[i] = d[i]
  BY DEF Extended
<1>2. Starts(d, d)
  BY <1>1 DEF Starts
<1>3. ASSUME NEW e, Starts(Extended(d, c), e) PROVE Starts(d, e)
  <2> DEFINE f == Extended(d, c)
  <2>1. /\ e \in Seq(Bytes) /\ Len(f) <= Len(e) /\ \A i \in 1 .. Len(f) : e[i] = f[i]
    BY <1>3 DEF Starts
  <2>2. Len(e) \in Nat
    BY <2>1
  <2>3. Len(d) \in Nat /\ Len(f) \in Nat /\ Len(d) <= Len(f) /\ \A i \in 1 .. Len(d) : f[i] = d[i]
    BY <1>1
  <2> HIDE DEF f
  <2>4. Len(d) <= Len(e)
    BY <2>1, <2>2, <2>3
  <2>5. \A i \in 1 .. Len(d) : i \in 1 .. Len(f)
    BY <2>3
  <2> QED BY <2>1, <2>3, <2>4, <2>5 DEF Starts
<1> QED BY <1>1, <1>2, <1>3

\* No byte: the decoding has no step.
LEMMA DecodesNone ==
  ASSUME NEW s, NEW m, NEW d \in Seq(Bytes) PROVE Decodes(<<>>, s, m, d)
<1> DEFINE S == [i \in Nat |-> s]
           M == [i \in Nat |-> m]
           D == [i \in Nat |-> d]
<1>1. S[0] = s /\ M[0] = m /\ D[0] = d /\ Len(<<>>) = 0
  OBVIOUS
<1>2. Follows(S, <<>>) /\ Writes(S, M, D, <<>>)
  BY DEF Follows, Writes
<1>3. Starts(d, D[Len(<<>>)])
  BY <1>1, ExtendedStarts, CodeSizes
<1> HIDE DEF S, M, D
<1> QED BY <1>1, <1>2, <1>3 DEF Decodes

\* One more byte in front.
LEMMA DecodesMore ==
  ASSUME NEW w \in Seq(Bytes), w # <<>>, NEW s, NEW m, NEW d \in Seq(Bytes),
         Decodes(Tail(w), NextState(s, Head(w)), NextMode(s, m, Head(w)),
                 Extended(d, CharOf(s, m, Head(w))))
  PROVE  Decodes(w, s, m, d)
<1> DEFINE c == CharOf(s, m, Head(w))
<1>1. PICK S, M, D : /\ S[0] = NextState(s, Head(w)) /\ M[0] = NextMode(s, m, Head(w))
                     /\ D[0] = Extended(d, c)
                     /\ Follows(S, Tail(w)) /\ Writes(S, M, D, Tail(w))
                     /\ Starts(Extended(d, c), D[Len(Tail(w))])
  BY DEF Decodes
<1> DEFINE s1 == Before(S, s)
           m1 == Before(M, m)
           d1 == Before(D, d)
<1>2. /\ Follows(s1, w) /\ s1[0] = s
  BY <1>1, FollowsBefore
<1>3. /\ Writes(s1, m1, d1, w) /\ d1[Len(w)] = D[Len(Tail(w))]
  BY <1>1, WritesBefore
<1>4. m1[0] = m /\ d1[0] = d
  BY DEF Before
<1>5. c \in Bytes
  BY CharType
<1> HIDE DEF c
<1>6. Starts(d, D[Len(Tail(w))])
  BY <1>1, <1>5, ExtendedStarts
<1> HIDE DEF s1, m1, d1
<1>7. Starts(d, d1[Len(w)])
  BY <1>3, <1>6
<1> QED BY <1>2, <1>3, <1>4, <1>7 DEF Decodes

\* Every sequence of bytes can be decoded, and keeps the characters before it.
LEMMA CanDecode ==
  ASSUME NEW w \in Seq(Bytes), NEW s, NEW m, NEW d \in Seq(Bytes)
  PROVE  Decodes(w, s, m, d)
<1> DEFINE G == {n \in Nat : \A u \in Seq(Bytes) : Len(u) = n =>
                   \A x, y : \A e \in Seq(Bytes) : Decodes(u, x, y, e)}
<1>1. 0 \in G
  <2>1. \A u \in Seq(Bytes) : Len(u) = 0 => u = <<>>
    BY EmptySeq
  <2> QED BY <2>1, DecodesNone
<1>2. ASSUME NEW n \in Nat, n \in G PROVE n + 1 \in G
  <2> SUFFICES ASSUME NEW u \in Seq(Bytes), Len(u) = n + 1, NEW x, NEW y, NEW e \in Seq(Bytes)
               PROVE  Decodes(u, x, y, e)
    OBVIOUS
  <2>1. u # <<>>
    BY <1>2, EmptySeq
  <2>2. Tail(u) \in Seq(Bytes) /\ Len(Tail(u)) = n
    BY <2>1
  <2>3. Extended(e, CharOf(x, y, Head(u))) \in Seq(Bytes)
    BY CharType, ExtendedStarts
  <2>4. Decodes(Tail(u), NextState(x, Head(u)), NextMode(x, y, Head(u)),
                Extended(e, CharOf(x, y, Head(u))))
    BY <1>2, <2>2, <2>3
  <2> QED BY <2>1, <2>4, DecodesMore
<1> HIDE DEF G
<1>3. Len(w) \in G
  <2>1. \A n \in Nat : n \in G
    BY <1>1, <1>2, SetInduction
  <2> QED BY <2>1
<1> QED BY <1>3 DEF G

-----------------------------------------------------------------------------
(* What the driver promises.                                               *)

\* At rest nothing is pending, and the decoding of nothing is the state itself.
LEMMA RestPending ==
  ASSUME KeyboardTypeOK, AtRest
  PROVE  Pending = <<>> /\ Len(Pending) = 0
<1>1. Contents(scancodes) = <<>> /\ wire = <<>>
  BY CodeSizes, EmptyContents DEF AtRest, KeyboardTypeOK
<1> QED BY <1>1 DEF Pending

\* The invariant when everything sent has been decoded.
LEMMA RestFlags ==
  ASSUME KeyboardInv, AtRest
  PROVE  /\ Agree(state, intact, held)
         /\ lost = {} => /\ "break" \notin state
                         /\ Wrote(state, mode, Got, held, locked, typed, fakes)
<1>1. Pending = <<>> /\ Len(Pending) = 0
  BY RestPending DEF KeyboardInv
<1> DEFINE S == [i \in Nat |-> state]
           M == [i \in Nat |-> mode]
           D == [i \in Nat |-> Got]
<1>2. S[0] = state /\ M[0] = mode /\ D[0] = Got
  OBVIOUS
<1>3. Follows(S, Pending) /\ Writes(S, M, D, Pending)
  BY <1>1 DEF Follows, Writes
<1> HIDE DEF S, M, D
<1>4. /\ Agree(S[0], intact, held)
      /\ lost = {} => "break" \notin S[0] /\ Wrote(S[0], M[0], D[0], held, locked, typed, fakes)
  BY <1>1, <1>2, <1>3 DEF KeyboardInv, FlagsInv, CharsInv
<1> QED BY <1>2, <1>4

\* Once everything sent has been decoded, the flag of each shift or AltGr key
\* released since the last lost scancode or fake shift is that of the key,
\* however many bytes were lost and wherever in a code.
THEOREM ShiftsRight == KeyboardSpec => []ShiftAgrees
<1>1. KeyboardInv => ShiftAgrees
  BY RestFlags DEF ShiftAgrees, Agree
<1> QED BY <1>1, KeyboardSound, PTL

\* With no byte lost, fake shifts cost at most one character each, and leave no
\* break prefix behind.
THEOREM FakesCostLittle == KeyboardSpec => []FakeShiftsCostOneKey
<1>1. KeyboardInv => FakeShiftsCostOneKey
  <2> SUFFICES ASSUME KeyboardInv, lost = {}, AtRest
               PROVE  /\ Len(Got) <= Len(typed) /\ Len(typed) <= Len(Got) + fakes
                      /\ "break" \notin state
                      /\ "modifier" \in state => fakes > 0
    BY DEF FakeShiftsCostOneKey, Got
  <2>1. /\ Wrote(state, mode, Got, held, locked, typed, fakes) /\ "break" \notin state
    BY RestFlags
  <2>2. typed \in Seq(Bytes) /\ fakes \in Nat /\ Got \in Seq(Bytes)
    BY <2>1 DEF KeyboardInv, KeyboardTypeOK, Wrote
  <2> DEFINE t == Len(typed)
             g == Len(Got)
  <2>3. t \in Nat /\ g \in Nat
    BY <2>2
  <2>4. /\ g <= t /\ t <= g + fakes
        /\ "modifier" \in state => t + 1 <= g + fakes
    BY <2>1 DEF Wrote
  <2> HIDE DEF t, g
  <2>5. "modifier" \in state => fakes > 0
    BY <2>2, <2>3, <2>4
  <2> QED BY <2>1, <2>4, <2>5 DEF t, g
<1> QED BY <1>1, KeyboardSound, PTL

\* The same with the operator of the library.
LEMMA StartsPrefix ==
  ASSUME NEW d \in Seq(Bytes), NEW e \in Seq(Bytes), Starts(d, e)
  PROVE  IsPrefix(d, e)
<1>1. Len(d) \in Nat /\ Len(e) \in Nat /\ Len(d) <= Len(e) /\ \A i \in 1 .. Len(d) : e[i] = d[i]
  BY DEF Starts
<1>2. /\ SubSeq(d, 1, Len(d)) \in Seq(Bytes) /\ SubSeq(e, 1, Len(d)) \in Seq(Bytes)
      /\ Len(SubSeq(d, 1, Len(d))) = Len(d) /\ Len(SubSeq(e, 1, Len(d))) = Len(d)
      /\ \A i \in 1 .. Len(d) : /\ SubSeq(d, 1, Len(d))[i] = d[i]
                                /\ SubSeq(e, 1, Len(d))[i] = e[i]
  BY <1>1
<1>3. SubSeq(d, 1, Len(d)) = SubSeq(e, 1, Len(d))
  BY <1>1, <1>2, SeqEqual
<1> QED BY <1>1, <1>3 DEF IsPrefix

\* While no ring overflows and no fake shift was sent, the program gets the
\* characters of the keys typed, in order, with the shift and caps lock of the
\* time of typing, and all of them once everything sent has been decoded.
THEOREM TypedArrives == KeyboardSpec => []TypedIsDelivered
<1>1. KeyboardInv => TypedIsDelivered
  <2> SUFFICES ASSUME KeyboardInv, lost = {}, fakes = 0
               PROVE  IsPrefix(Got, typed) /\ (AtRest => Got = typed)
    BY DEF TypedIsDelivered, Got
  <2>1. Got \in Seq(Bytes) /\ typed \in Seq(Bytes) /\ Pending \in Seq(Bytes)
    <3>1. delivered \in Seq(Bytes) /\ Contents(keypresses) \in Seq(Bytes)
      BY CodeSizes, ContentsType DEF KeyboardInv, KeyboardTypeOK
    <3> QED BY <3>1, PendingType DEF Got, KeyboardInv, KeyboardTypeOK
  <2>2. AtRest => Got = typed
    BY RestFlags DEF Wrote
  <2>3. Decodes(Pending, state, mode, Got)
    BY <2>1, CanDecode
  <2>4. PICK S, M, D : /\ S[0] = state /\ M[0] = mode /\ D[0] = Got
                       /\ Follows(S, Pending) /\ Writes(S, M, D, Pending)
                       /\ Starts(Got, D[Len(Pending)])
    BY <2>3 DEF Decodes
  <2>5. Wrote(S[Len(Pending)], M[Len(Pending)], D[Len(Pending)], held, locked, typed, fakes)
    BY <2>4 DEF KeyboardInv, CharsInv
  <2>6. Starts(Got, typed)
    BY <2>4, <2>5 DEF Wrote
  <2>7. IsPrefix(Got, typed)
    BY <2>1, <2>6, StartsPrefix
  <2> QED BY <2>2, <2>7
<1> QED BY <1>1, KeyboardSound, PTL
=============================================================================
