----------------------------- MODULE HeapBlocks -----------------------------
(***************************************************************************)
(* The functions of stdlib/src/malloc.c as operators on the heap record    *)
(*   [free, used : sequences of blocks, fresh : blank descriptors, top].   *)
(* The free list is kept sorted by address and the used list has the       *)
(* newest block first.  Of the blank block descriptors only the number     *)
(* matters.  Sizes and addresses are size_t: sums wrap at WordSize.        *)
(***************************************************************************)
EXTENDS Integers, SequencesExt, FiniteSetsExt

CONSTANTS
  Base,        \* first address of the pool
  Limit,       \* heap_limit
  Alignment,   \* heap_alignment, a power of two
  SplitThresh, \* heap_split_thresh, 16
  MaxBlocks,   \* heap_max_blocks
  WordSize     \* 2^32

ASSUME LayoutAssumption ==
  /\ Base \in Nat \ {0} /\ Limit \in Nat /\ WordSize \in Nat
  /\ Base < Limit /\ Limit < WordSize
  /\ Alignment \in Nat \ {0} /\ Base % Alignment = 0 /\ WordSize % Alignment = 0
  /\ SplitThresh \in Nat \ {0} /\ MaxBlocks \in Nat \ {0}

VARIABLE
  heap \* the record, in the static variables of malloc.c

NULL == 0

Block(a, n) == [addr |-> a, size |-> n]
EndOf(b) == b.addr + b.size

\* Defective variants, for the checks that the properties can fail: nothing is
\* merged; the descriptors of merged blocks are lost (below); the last
\* block is stretched but the top stays.
Compact_Never(list) == list
TakeFree_KeepsTop(h, i, num) ==
  [h EXCEPT !.free = RemoveAt(@, i), !.used = <<Block(h.free[i].addr, num)>> \o @]

\* insert_block: before the first block that does not lie below it.
InsertBlock(list, b) ==
  LET above == {i \in DOMAIN list : b.addr <= list[i].addr}
  IN  InsertAt(list, IF above = {} THEN Len(list) + 1 ELSE Min(above), b)

\* The numbers of S in ascending order.
Ascending(S) ==
  CHOOSE f \in [1 .. Cardinality(S) -> S] :
    \A i, j \in 1 .. Cardinality(S) : i < j => f[i] < f[j]

\* compact: every run of blocks that touch becomes one block.  The
\* descriptors of the others are released.
Compact(list) ==
  LET firsts == Ascending({i \in DOMAIN list :
                             i = 1 \/ EndOf(list[i - 1]) # list[i].addr})
      last(r) == IF r = Len(firsts) THEN Len(list) ELSE firsts[r + 1] - 1
  IN  [r \in DOMAIN firsts |->
         Block(list[firsts[r]].addr,
               EndOf(list[last(r)]) - list[firsts[r]].addr)]

Insert_LosesBlanks(h, list, b) == [h EXCEPT !.free = Compact(InsertBlock(list, b))]

\* insert_block and compact, and the descriptors compact releases.
Insert(h, list, b) ==
  LET new == Compact(InsertBlock(list, b))
  IN  [h EXCEPT !.free = new, !.fresh = @ + (Len(list) + 1 - Len(new))]

\* num = (num + heap_alignment - 1) & -heap_alignment
RoundUp(num) ==
  LET sum == (num + Alignment - 1) % WordSize IN sum - (sum % Alignment)

IsTop(h, b, num) ==
  EndOf(b) >= h.top /\ (b.addr + num) % WordSize <= Limit

\* A block of the free list is taken: the last one is cut or stretched to the
\* size wanted and the top moves; another is split when the rest is worth a
\* descriptor and there is one.
TakeFree(h, i, num) ==
  LET b == h.free[i]
      rest == RemoveAt(h.free, i)
      excess == b.size - num
      used(n) == <<Block(b.addr, n)>> \o h.used
  IN  IF IsTop(h, b, num)
        THEN [h EXCEPT !.free = rest, !.used = used(num), !.top = b.addr + num]
      ELSE IF h.fresh > 0 /\ excess >= SplitThresh
        THEN Insert([h EXCEPT !.used = used(num), !.fresh = @ - 1],
                    rest, Block(b.addr + num, excess))
      ELSE [h EXCEPT !.free = rest, !.used = used(b.size)]

TakeFresh(h, num) ==
  [h EXCEPT !.used = <<Block(h.top, num)>> \o h.used,
            !.fresh = @ - 1, !.top = @ + num]

\* alloc_block, first fit: the new heap and the address, or NULL.
AllocBlock(h, n) ==
  LET num == RoundUp(n)
      fits == {i \in DOMAIN h.free :
                 IsTop(h, h.free[i], num) \/ h.free[i].size >= num}
  IN  IF fits # {}
        THEN [heap |-> TakeFree(h, Min(fits), num), addr |-> h.free[Min(fits)].addr]
      ELSE IF h.fresh > 0 /\ (h.top + num) % WordSize <= Limit
        THEN [heap |-> TakeFresh(h, num), addr |-> h.top]
      ELSE [heap |-> h, addr |-> NULL]

\* free: the newest used block at that address; nothing when there is none.
FreeBlock(h, a) ==
  LET found == {i \in DOMAIN h.used : h.used[i].addr = a}
  IN  IF found = {} THEN h
      ELSE Insert([h EXCEPT !.used = RemoveAt(h.used, Min(found))],
                  h.free, h.used[Min(found)])

\* malloc_init
EmptyHeap == [free |-> <<>>, used |-> <<>>, fresh |-> MaxBlocks, top |-> Base]

Solid(list) == {b \in ToSet(list) : b.size > 0}
Bytes(b) == b.addr .. (EndOf(b) - 1)
=============================================================================
