---------------------------- MODULE ScancodeRing ----------------------------
(***************************************************************************)
(* The scancode queue between the keyboard interrupt and the main program: *)
(* vt8242_keyboard_interrupt (drivers/sys/vt8242.c) puts a byte into       *)
(* g_buf_scancode, and process_keyboard (drivers/keyboard.c) takes one out *)
(* with interrupts enabled.  The handler runs to completion; the main      *)
(* program can be interrupted between any two accesses to the volatile     *)
(* head and tail, so each access is a step.                                *)
(*                                                                         *)
(* A byte is identified with its place in the stream of received bytes:    *)
(* the n-th interrupt stores n.  Slots never written hold 0.               *)
(***************************************************************************)
EXTENDS RingBuf

CONSTANTS
  Length,       \* SCANCODE_BUFFER_SIZE
  MaxArrivals   \* bound: interrupts in a behaviour

ASSUME LengthAssumption == Length \in Nat /\ Length > 2
ASSUME BoundAssumption  == MaxArrivals \in Nat

VARIABLES
  ring,      \* g_buf_scancode
  pc,        \* the next access of process_keyboard
  seenHead,  \* is_ring_buf_empty: its copy of rb->head
  slot,      \* ring_buf_get: the index it reads the byte from
  byte,      \* ring_buf_get: ret
  newTail,   \* ring_buf_get: the value it is about to store in rb->tail
  arrived,   \* history: bytes the interrupt handler has put
  taken,     \* history: bytes handed to vt8242_process_scancode
  overwrites,\* history: puts that found the ring full
  burst,     \* history: interrupts since the pass under way began
  rushed     \* history: some pass was interrupted more than once

reader == <<pc, seenHead, slot, byte, newTail>>
vars   == <<ring, reader, arrived, taken, overwrites, burst,
          rushed>>

Steps == {"head", "tail", "slot", "byte", "next", "store"}

TypeOK ==
  /\ ring \in Rings(Length, Nat)
  /\ pc \in Steps
  /\ seenHead \in 0 .. Length - 1
  /\ slot \in 0 .. Length - 1
  /\ byte \in Nat
  /\ newTail \in 0 .. Length - 1
  /\ arrived \in 0 .. MaxArrivals
  /\ taken \in Seq(Nat)
  /\ overwrites \in Nat
  /\ burst \in Nat /\ rushed \in BOOLEAN

Init ==
  /\ ring = RingInit(Length)
  /\ pc = "head"
  /\ seenHead = 0 /\ slot = 0 /\ byte = 0 /\ newTail = 0
  /\ arrived = 0 /\ taken = <<>> /\ overwrites = 0
  /\ burst = 0 /\ rushed = FALSE

\* vt8242_keyboard_interrupt: read the data port, put the byte.
KeyboardInterrupt ==
  /\ arrived < MaxArrivals
  /\ ring' = RingPut(ring, arrived + 1)
  /\ arrived' = arrived + 1
  /\ overwrites' = IF RingFull(ring) THEN overwrites + 1 ELSE overwrites
  /\ burst' = IF pc = "head" THEN burst ELSE burst + 1
  /\ rushed' = (rushed \/ burst' > 1)
  /\ UNCHANGED <<reader, taken>>

-----------------------------------------------------------------------------
(* process_keyboard, one access to the shared ring at a time.              *)

\* is_ring_buf_empty reads the head ...
LoadHead ==
  /\ pc = "head"
  /\ seenHead' = ring.head
  /\ pc' = "tail"
  /\ UNCHANGED <<ring, slot, byte, newTail, arrived, taken, overwrites,
                 burst, rushed>>

\* A defective variant: an emptiness test that forgets that the head wraps.
LoadTail_NoWrap ==
  /\ pc = "tail"
  /\ IF seenHead <= ring.tail
       THEN pc' = "head" /\ burst' = 0
       ELSE pc' = "slot" /\ burst' = burst
  /\ UNCHANGED <<ring, seenHead, slot, byte, newTail, arrived, taken,
                 overwrites, rushed>>

\* ... then the tail, and the pass ends when they are equal.
LoadTail ==
  /\ pc = "tail"
  /\ IF seenHead = ring.tail
       THEN pc' = "head" /\ burst' = 0
       ELSE pc' = "slot" /\ burst' = burst
  /\ UNCHANGED <<ring, seenHead, slot, byte, newTail, arrived, taken,
                 overwrites, rushed>>

\* ring_buf_get: the tail is the index of the byte to return ...
LoadSlot ==
  /\ pc = "slot"
  /\ slot' = ring.tail
  /\ pc' = "byte"
  /\ UNCHANGED <<ring, seenHead, byte, newTail, arrived, taken, overwrites,
                 burst, rushed>>

\* ... which is read from the array ...
ReadByte ==
  /\ pc = "byte"
  /\ byte' = ring.buffer[slot]
  /\ pc' = "next"
  /\ UNCHANGED <<ring, seenHead, slot, newTail, arrived, taken, overwrites,
                 burst, rushed>>

\* ... the tail is read a second time to compute its successor ...
LoadNext ==
  /\ pc = "next"
  /\ newTail' = After(ring, ring.tail)
  /\ pc' = "store"
  /\ UNCHANGED <<ring, seenHead, slot, byte, arrived, taken, overwrites,
                 burst, rushed>>

\* ... and stored; the byte goes to vt8242_process_scancode.
StoreTail ==
  /\ pc = "store"
  /\ ring' = [ring EXCEPT !.tail = newTail]
  /\ taken' = Append(taken, byte)
  /\ pc' = "head"
  /\ burst' = 0
  /\ UNCHANGED <<seenHead, slot, byte, newTail, arrived, overwrites, rushed>>

Access ==
  LoadHead \/ LoadTail \/ LoadSlot \/ ReadByte \/ LoadNext \/ StoreTail

Next == KeyboardInterrupt \/ Access

Spec == Init /\ [][Next]_vars

\* The main loop polls the keyboard for ever; interrupts owe nothing.
FairSpec == Spec /\ WF_vars(Access)

-----------------------------------------------------------------------------
(* Safety.                                                                 *)

\* However the handler and the main program interleave, a ring that has never
\* overflowed loses, repeats and reorders nothing: what was handed to the
\* decoder followed by what is queued is exactly what the handler received.
FifoUntilOverflow ==
  overwrites = 0 => taken \o Contents(ring) = [k \in 1 .. arrived |-> k]

\* The properties below hold also after an overflow, as long as no pass was
\* interrupted twice.
Calm == overwrites = 0 \/ ~rushed

\* The decoder sees received bytes only, each at most once and in the order
\* of their arrival, also when the handler overwrites entries while
\* process_keyboard is half way through ring_buf_get.
Ordered ==
  \A i \in 1 .. Len(taken) :
    taken[i] > (IF i = 1 THEN 0 ELSE taken[i - 1])
InOrder == Calm => Ordered

\* When the ring reads as empty between two passes nothing is waiting: the
\* last byte received is the last byte decoded.  The tail that
\* process_keyboard stores must not meet the head by accident.
EmptyMeansDrained ==
  Calm /\ pc = "head" /\ RingEmpty(ring) /\ arrived > 0 =>
    taken # <<>> /\ taken[Len(taken)] = arrived

\* An overwriting put costs at most one byte, also when it falls between the
\* two reads of the tail in ring_buf_get, where the entry that is skipped is
\* not the one that was overwritten; it never costs a whole ring.
LossBounded ==
  Calm /\ pc = "head" => arrived - Len(taken) - Count(ring) <= overwrites

(* Liveness.                                                               *)

\* Polling delivers every byte that was received, unless the ring overflows.
AllDelivered ==
  \A k \in 1 .. MaxArrivals :
    arrived >= k ~> Len(taken) >= k \/ overwrites > 0

-----------------------------------------------------------------------------
(* The inductive invariant behind FifoUntilOverflow, InOrder,              *)
(* EmptyMeansDrained and LossBounded.                                      *)

\* The arrival number of the oldest entry, and of the last byte decoded.
Oldest    == arrived - Count(ring) + 1
LastTaken == IF taken = <<>> THEN 0 ELSE taken[Len(taken)]

\* The entries are the last Count(ring) bytes received.
WindowInv ==
  /\ Count(ring) <= arrived
  /\ \A k \in 0 .. Count(ring) - 1 :
       ring.buffer[SlotOf(ring, k)] = Oldest + k

\* The entry a pass is about to return was overwritten under its hands.
Overtaken == /\ overwrites > 0
             /\ burst = 1
             /\ RingFull(ring)

\* What the local variables of a pass say about the ring.
ReaderInv ==
  /\ pc = "tail" => seenHead = ring.head \/ Count(ring) > 0
  /\ pc \in {"slot", "byte", "next", "store"} => Count(ring) > 0
  /\ pc = "byte" =>
       \/ slot = ring.tail
       \/ (Overtaken /\ slot = ring.head /\ ring.buffer[slot] = Oldest - 1)
  /\ pc = "next" => byte = Oldest \/ (Overtaken /\ byte = Oldest - 1)
  /\ pc = "store" =>
       \/ (newTail = After(ring, ring.tail) /\ byte = Oldest)
       \/ /\ Overtaken
          /\ newTail \in {ring.tail, After(ring, ring.tail)}
          /\ byte = Oldest - 1

\* What has been decoded lies before what the pass and the ring still hold.
TakenInv ==
  /\ Ordered
  /\ LastTaken < Oldest
  /\ pc = "byte" => LastTaken < ring.buffer[slot]
  /\ pc \in {"next", "store"} => LastTaken < byte
  /\ Count(ring) = 0 => LastTaken = arrived
  /\ Oldest - 1 - Len(taken) <= overwrites
  /\ overwrites = 0 => /\ Len(taken) = Oldest - 1
                       /\ \A i \in 1 .. Len(taken) : taken[i] = i

IInv == TypeOK /\ (Calm => WindowInv /\ ReaderInv /\ TakenInv)
=============================================================================
