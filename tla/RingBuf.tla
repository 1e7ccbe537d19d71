------------------------------- MODULE RingBuf -------------------------------
(***************************************************************************)
(* The ring buffer of libraries/ringbuffer.c as operators on a record: the *)
(* fields are those of ringbuffer_t.  A ring is full with length - 1       *)
(* entries, and a put into a full ring overwrites the oldest entry by      *)
(* moving the tail.  One interrupt handler puts and the main program gets; *)
(* the modules that use these operators decide which accesses are atomic.  *)
(***************************************************************************)
EXTENDS Integers, Sequences

\* ring_buf_init, over the zeroed static array the drivers give it.
RingInit(size) ==
  [buffer |-> [i \in 0 .. size - 1 |-> 0], head |-> 0, tail |-> 0,
   length |-> size]

\* Defective variants, for the checks that the properties can fail: puts that leave the tail alone when the head reaches it,
\* that move it one slot too early, or that advance the head before storing.
RingPut_KeepsTail(rb, c) ==
  [rb EXCEPT !.buffer[rb.head] = c, !.head = (rb.head + 1) % rb.length]
RingPut_DropsEarly(rb, c) ==
  LET h == (rb.head + 1) % rb.length IN
  [rb EXCEPT !.buffer[rb.head] = c,
             !.head = h,
             !.tail = IF (h + 1) % rb.length = rb.tail
                      THEN (rb.tail + 1) % rb.length ELSE rb.tail]

RingPut_StoresLate(rb, c) ==
  LET h == (rb.head + 1) % rb.length IN
  [rb EXCEPT !.buffer[h] = c,
             !.head = h,
             !.tail = IF h = rb.tail THEN (rb.tail + 1) % rb.length ELSE rb.tail]

\* The index after i: (i + 1) % rb->length.
After(rb, i) == (i + 1) % rb.length

\* ring_buf_put: store, advance the head, and drop the oldest entry when the
\* head has caught up with the tail.
RingPut(rb, c) ==
  LET h == After(rb, rb.head) IN
  [buffer |-> [rb.buffer EXCEPT ![rb.head] = c],
   head   |-> h,
   tail   |-> IF h = rb.tail THEN After(rb, rb.tail) ELSE rb.tail,
   length |-> rb.length]

\* ring_buf_get, its result and its effect, when nothing interrupts it.
RingFront(rb) == rb.buffer[rb.tail]
RingDrop(rb)  == [rb EXCEPT !.tail = After(rb, rb.tail)]

\* is_ring_buf_empty and is_ring_buf_full.
RingEmpty(rb) == rb.head = rb.tail
RingFull(rb)  == After(rb, rb.head) = rb.tail

-----------------------------------------------------------------------------
(* What a ring stands for: the sequence of its entries, oldest first.      *)

Rings(size, Data) ==
  [buffer : [0 .. size - 1 -> Data], head : 0 .. size - 1,
   tail : 0 .. size - 1, length : {size}]

Count(rb) == IF rb.head >= rb.tail THEN rb.head - rb.tail
                                   ELSE rb.head - rb.tail + rb.length

\* The slot of the entry that k others precede.
SlotOf(rb, k) == IF rb.tail + k < rb.length THEN rb.tail + k
                                            ELSE rb.tail + k - rb.length

Contents(rb) == [k \in 1 .. Count(rb) |-> rb.buffer[SlotOf(rb, k - 1)]]
=============================================================================
