----------------------------- MODULE Allocator -----------------------------
(***************************************************************************)
(* What a heap promises its callers: every request is answered with NULL   *)
(* or with memory of at least that size, inside the heap and apart from    *)
(* all memory handed out and not yet returned; giving memory back takes    *)
(* away exactly that memory.  Empty allocations hold no memory and do not  *)
(* appear.                                                                 *)
(***************************************************************************)
EXTENDS Integers

CONSTANTS Base, Limit   \* the first address of the pool and the first after it

VARIABLE live           \* memory in the hands of callers

Bytes(b) == b.addr .. (b.addr + b.size - 1)

Areas == [addr : Base .. Limit, size : 1 .. Limit - Base]

Init == live = {}

Allocate ==
  \E a \in Areas :
    /\ a.addr + a.size <= Limit
    /\ \A b \in live : Bytes(a) \cap Bytes(b) = {}
    /\ live' = live \cup {a}

Free == \E b \in live : live' = live \ {b}

Next == Allocate \/ Free

Spec == Init /\ [][Next]_live
=============================================================================
