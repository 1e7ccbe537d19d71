-------------------------------- MODULE Heap --------------------------------
(***************************************************************************)
(* The OS heap, HeapBlocks, with the requests its callers make: long-lived *)
(* ones (file objects, timers, display buffers) in any order, and the      *)
(* buffers of the cat, copy and load commands, which are as long as the    *)
(* file, may be empty, and are freed, or forgotten when the file cannot be *)
(* read, before the command returns.                                       *)
(***************************************************************************)
EXTENDS HeapBlocks

CONSTANTS
  Sizes,       \* sizes of the long-lived requests
  FileSizes,   \* sizes of the files the commands read
  MaxLive      \* bound: allocations that outlive a command, at one time

\* No file is so long that rounding its size up, or adding it to an address,
\* passes 2^32.
ASSUME SizesAssumption ==
  /\ Sizes \subseteq Nat \ {0} /\ FileSizes \subseteq Nat
  /\ \A n \in Sizes \cup FileSizes : n + Alignment + Limit < WordSize

VARIABLES
  live,    \* the callers' view: [addr, size] of what they hold
  scratch, \* the buffer of the running command: none, or one [addr, size]
  lost     \* buffers that no caller will free any more

vars == <<heap, live, scratch, lost>>

-----------------------------------------------------------------------------

\* malloc_init
Init ==
  /\ heap = EmptyHeap
  /\ live = {}
  /\ scratch = {}
  /\ lost = {}

\* A file object, a timer or a display buffer is allocated ...
Malloc(n) ==
  LET r == AllocBlock(heap, n)
  IN  /\ scratch = {}
      /\ Cardinality(live) + Cardinality(lost) < MaxLive
      /\ heap' = r.heap
      /\ live' = IF r.addr = NULL THEN live ELSE live \cup {Block(r.addr, n)}
      /\ UNCHANGED <<scratch, lost>>

\* ... and given back.
Free(b) ==
  /\ scratch = {}
  /\ b \in live
  /\ heap' = FreeBlock(heap, b.addr)
  /\ live' = live \ {b}
  /\ UNCHANGED <<scratch, lost>>

\* do_cat, do_copyfile, do_loadmem: a buffer for the whole file ...
CommandBuffer(n) ==
  LET r == AllocBlock(heap, n)
  IN  /\ scratch = {}
      /\ r.addr # NULL
      /\ heap' = r.heap
      /\ scratch' = {Block(r.addr, n)}
      /\ UNCHANGED <<live, lost>>

\* ... which is freed when the command ends ...
CommandEnds ==
  /\ \E b \in scratch : heap' = FreeBlock(heap, b.addr)
  /\ scratch' = {}
  /\ UNCHANGED <<live, lost>>

\* ... but not when f_read fails, which it does on a file with data only: the
\* command returns and the buffer is never given back.
CommandFails ==
  /\ \E b \in scratch : b.size > 0
  /\ Cardinality(live) + Cardinality(lost) < MaxLive
  /\ lost' = lost \cup scratch
  /\ scratch' = {}
  /\ UNCHANGED <<heap, live>>

\* free(NULL), at the end of a command whose file could not be opened.
FreeNull ==
  /\ scratch = {}
  /\ heap' = FreeBlock(heap, NULL)
  /\ UNCHANGED <<live, scratch, lost>>

Next ==
  \/ \E n \in Sizes : Malloc(n)
  \/ \E b \in live : Free(b)
  \/ \E n \in FileSizes : CommandBuffer(n)
  \/ CommandEnds \/ CommandFails \/ FreeNull

Spec == Init /\ [][Next]_vars

-----------------------------------------------------------------------------
(* Properties.                                                             *)

\* malloc_check: the descriptors of the free, used and blank lists add up.
BlocksConserved ==
  Len(heap.free) + Len(heap.used) + heap.fresh = MaxBlocks

\* The used and free blocks tile the pool up to the top, so no memory is lost
\* and none is handed out twice; the free list is in ascending order and no two
\* free blocks touch; and what callers hold lies inside blocks in use, so that
\* free takes no caller's memory but the one it is called for.
NoOverlap ==
  LET solid == Solid(heap.free) \cup Solid(heap.used)
  IN  /\ \A x \in Base .. heap.top - 1 : \E b \in solid : x \in Bytes(b)
      /\ \A b, c \in solid : b # c => Bytes(b) \cap Bytes(c) = {}
      /\ \A b \in solid : EndOf(b) <= heap.top
      /\ Cardinality(solid) = Cardinality(Solid(heap.free)) + Cardinality(Solid(heap.used))
Coalesced ==
  \A i \in 1 .. Len(heap.free) - 1 :
    EndOf(heap.free[i]) < heap.free[i + 1].addr
LiveBacked ==
  \A b \in live \cup scratch \cup lost :
    \E u \in ToSet(heap.used) : u.addr = b.addr /\ u.size >= b.size
Tiled == NoOverlap /\ Coalesced /\ LiveBacked

\* The heap is an allocator.
Promise == INSTANCE Allocator WITH live <- Solid(heap.used)
Implements == Promise!Spec
=============================================================================
