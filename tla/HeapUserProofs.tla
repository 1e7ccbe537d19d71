--------------------------- MODULE HeapUserProofs ---------------------------
(***************************************************************************)
(* The theorems of those who use the heap, for any pool and sizes.  The    *)
(* callers of malloc (Heap): the descriptors of blocks add up, the blocks  *)
(* tile the pool, what callers hold is theirs, and the heap is an          *)
(* allocator.  The table of open files (FileSyscall): it agrees with the   *)
(* heap, and a program sees independent descriptors.                       *)
(***************************************************************************)
EXTENDS Heap, FileSyscall, HeapBlocksProofs

-----------------------------------------------------------------------------
(* The callers of malloc.                                                  *)

\* The buffer of the running command is the newest block in use, the only one
\* that may be empty.
ScratchSound ==
  \/ scratch = {} /\ AllSolid(heap.used)
  \/ \E s : /\ scratch = {s} /\ Buffer(s, heap.used)
            /\ \A b \in live \cup lost : b.addr # s.addr

IInv ==
  /\ SoundHeap(heap)
  /\ Held(live \cup lost, heap.used) /\ live \cap lost = {}
  /\ ScratchSound

-----------------------------------------------------------------------------
(* The inductive invariant.                                                *)

\* malloc_init makes a sound heap.
LEMMA InitSound == Init => IInv
<1> SUFFICES ASSUME Init PROVE IInv
  OBVIOUS
<1>1. heap = EmptyHeap /\ live \cup lost = {} /\ live \cap lost = {} /\ scratch = {}
  BY DEF Init
<1>2. Held({}, heap.used)
  BY DEF Held
<1> QED BY <1>1, <1>2, EmptyIs DEF IInv, ScratchSound

\* Every step keeps the heap sound.
LEMMA NextSound == IInv /\ [Next]_vars => IInv'
<1> SUFFICES ASSUME IInv, [Next]_vars PROVE IInv'
  OBVIOUS
<1>1. /\ SoundHeap(heap) /\ Held(live \cup lost, heap.used) /\ live \cap lost = {}
      /\ ScratchSound
  BY DEF IInv
<1>2. \A n \in Sizes \cup FileSizes : n \in Nat /\ n + Alignment + Limit < WordSize
  BY SizesAssumption
<1>3. ASSUME scratch = {}, scratch' = {}, heap' = heap, live' = live, lost' = lost
      PROVE  IInv'
  BY <1>1, <1>3 DEF IInv, ScratchSound, Held, Backed
<1>4. ASSUME NEW n \in Sizes, Malloc(n)
      PROVE  IInv'
  <2> DEFINE r == AllocBlock(heap, n)
             b == Block(r.addr, n)
  <2>1. /\ scratch = {} /\ scratch' = {} /\ heap' = r.heap /\ lost' = lost
        /\ live' = IF r.addr = NULL THEN live ELSE live \cup {b}
    BY <1>4 DEF Malloc
  <2>2. AllSolid(heap.used)
    BY <1>1, <2>1 DEF ScratchSound
  <2>3. \/ r.addr = NULL /\ r.heap = heap
        \/ r.addr # NULL /\ Given(heap, n, r.heap, r.addr)
    BY <1>1, <1>2, <2>2, AllocIs
  <2>4. CASE r.addr = NULL /\ r.heap = heap
    <3> HIDE DEF r, b
    <3> QED BY <1>3, <2>1, <2>4
  <2>5. CASE r.addr # NULL /\ Given(heap, n, r.heap, r.addr)
    <3>0. n \in Nat /\ n # 0
      BY <1>2, SizesAssumption
    <3>1. /\ SoundHeap(r.heap) /\ Held(live \cup lost, r.heap.used)
          /\ b \in Blocks /\ Buffer(b, r.heap.used)
          /\ \A c \in live \cup lost : c.addr # r.addr
          /\ b.addr = r.addr /\ b.size = n
      <4> HIDE DEF r
      <4> QED BY <1>1, <2>2, <2>5, <3>0, GivenIs
    <3> HIDE DEF r, b
    <3>2. Backed(b, r.heap.used) /\ AllSolid(r.heap.used)
      <4>1. /\ Len(r.heap.used) > 0 /\ r.heap.used[1].addr = b.addr /\ r.heap.used[1].size >= b.size
            /\ \A i \in 1 .. Len(r.heap.used) : i # 1 => r.heap.used[i].size > 0
        BY <3>1 DEF Buffer
      <4>2. Len(r.heap.used) \in Nat /\ 1 \in 1 .. Len(r.heap.used)
        BY <3>1, <4>1, HeapParts
      <4>3. r.heap.used[1].size > 0
        <5>1. r.heap.used[1].size \in Nat
          BY <3>1, <4>2, HeapParts, EntryIs
        <5> QED BY <3>0, <3>1, <4>1, <5>1
      <4> QED BY <4>1, <4>2, <4>3 DEF Backed, AllSolid
    <3>3. b.size > 0
      BY <3>0, <3>1
    <3>4. Held((live \cup lost) \cup {b}, r.heap.used)
      BY <3>1, <3>2, <3>3, HeldMore
    <3>5. live' \cup lost' = (live \cup lost) \cup {b} /\ live' \cap lost' = {}
      BY <1>1, <2>1, <2>5, <3>1
    <3> QED BY <2>1, <3>1, <3>2, <3>4, <3>5 DEF IInv, ScratchSound
  <2> HIDE DEF r, b
  <2> QED BY <2>3, <2>4, <2>5
<1>5. ASSUME NEW b \in live, Free(b)
      PROVE  IInv'
  <2>1. /\ scratch = {} /\ scratch' = {} /\ heap' = FreeBlock(heap, b.addr)
        /\ live' = live \ {b} /\ lost' = lost
    BY <1>5 DEF Free
  <2>2. AllSolid(heap.used)
    BY <1>1, <2>1 DEF ScratchSound
  <2>3. live' \cup lost' = (live \cup lost) \ {b} /\ live' \cap lost' = {}
    BY <1>1, <2>1
  <2>4. /\ Held((live \cup lost) \ {b}, heap.used)
        /\ \A c \in (live \cup lost) \ {b} : c.addr # b.addr
    BY <1>1 DEF Held
  <2>5. \E j \in 1 .. Len(heap.used) : heap.used[j].addr = b.addr
    BY <1>1 DEF Held, Backed
  <2>6. /\ SoundHeap(heap') /\ Held((live \cup lost) \ {b}, heap.used')
        /\ AllSolid(heap.used')
    <3>1. \A j \in 1 .. Len(heap.used) : heap.used[j].size > 0 /\ heap.used[j].size # 0
      BY <1>1, <2>2, HeapParts, EntryIs DEF AllSolid
    <3> QED BY ZenonT(40), <1>1, <2>1, <2>4, <2>5, <3>1, GivenBack
  <2> QED BY <2>1, <2>3, <2>6 DEF IInv, ScratchSound
<1>6. ASSUME NEW n \in FileSizes, CommandBuffer(n)
      PROVE  IInv'
  <2> DEFINE r == AllocBlock(heap, n)
             b == Block(r.addr, n)
  <2>1. /\ scratch = {} /\ scratch' = {b} /\ heap' = r.heap /\ r.addr # NULL
        /\ live' = live /\ lost' = lost
    BY <1>6 DEF CommandBuffer
  <2>2. AllSolid(heap.used)
    BY <1>1, <2>1 DEF ScratchSound
  <2>3. Given(heap, n, r.heap, r.addr)
    BY <1>1, <1>2, <2>1, <2>2, AllocIs
  <2>4. /\ SoundHeap(r.heap) /\ Held(live \cup lost, r.heap.used)
        /\ Buffer(b, r.heap.used)
        /\ \A c \in live \cup lost : c.addr # r.addr
        /\ b.addr = r.addr
    <3>1. n \in Nat
      BY <1>2
    <3> HIDE DEF r
    <3> QED BY <1>1, <2>2, <2>3, <3>1, GivenIs
  <2> HIDE DEF r, b
  <2> QED BY <1>1, <2>1, <2>4 DEF IInv, ScratchSound
<1>7. ASSUME CommandEnds
      PROVE  IInv'
  <2>1. PICK s : /\ scratch = {s} /\ Buffer(s, heap.used)
                 /\ \A b \in live \cup lost : b.addr # s.addr
    BY <1>1, <1>7 DEF CommandEnds, ScratchSound
  <2>2. heap' = FreeBlock(heap, s.addr) /\ scratch' = {} /\ live' = live /\ lost' = lost
    BY <1>7, <2>1 DEF CommandEnds
  <2>3. /\ Len(heap.used) > 0 /\ heap.used[1].addr = s.addr /\ Len(heap.used) \in Nat
        /\ \A j \in 1 .. Len(heap.used) :
             /\ j # 1 => heap.used[j].size > 0
             /\ heap.used[j].size \in Nat
    BY <1>1, <2>1, HeapParts, EntryIs DEF Buffer
  <2>4. 1 \in 1 .. Len(heap.used)
    BY <2>3
  <2>5. \A j \in 1 .. Len(heap.used) : heap.used[j].addr = s.addr \/ heap.used[j].size > 0
    BY <2>3
  <2>6. \A i, j \in 1 .. Len(heap.used) :
          heap.used[i].addr = s.addr /\ heap.used[j].addr = s.addr /\ heap.used[j].size = 0 => j <= i
    BY <2>3
  <2>7. /\ SoundHeap(heap') /\ Held(live \cup lost, heap.used') /\ AllSolid(heap.used')
    BY <1>1, <2>1, <2>2, <2>3, <2>4, <2>5, <2>6, GivenBack
  <2> QED BY <1>1, <2>2, <2>7 DEF IInv, ScratchSound
<1>8. ASSUME CommandFails
      PROVE  IInv'
  <2>1. PICK s : /\ scratch = {s} /\ Buffer(s, heap.used)
                 /\ \A b \in live \cup lost : b.addr # s.addr
    BY <1>1, <1>8 DEF CommandFails, ScratchSound
  <2>2. /\ s.size > 0 /\ lost' = lost \cup {s} /\ scratch' = {} /\ live' = live /\ heap' = heap
    BY <1>8, <2>1 DEF CommandFails
  <2>3. /\ Len(heap.used) > 0 /\ heap.used[1].addr = s.addr /\ heap.used[1].size >= s.size
        /\ s \in Blocks
        /\ \A j \in 1 .. Len(heap.used) : j # 1 => heap.used[j].size > 0
    BY <2>1 DEF Buffer
  <2>4. /\ Len(heap.used) \in Nat /\ 1 \in 1 .. Len(heap.used) /\ heap.used[1].size \in Nat
        /\ s.size \in Nat
    <3>1. heap.used \in Seq(Blocks) /\ Len(heap.used) \in Nat
      BY <1>1, HeapParts
    <3>2. 1 \in 1 .. Len(heap.used)
      BY <2>3, <3>1
    <3>3. heap.used[1].size \in Nat
      BY <3>1, <3>2, EntryIs
    <3> QED BY <2>3, <3>1, <3>2, <3>3, BlockIs
  <2>5. AllSolid(heap.used)
    BY <2>2, <2>3, <2>4 DEF AllSolid
  <2>6. Backed(s, heap.used)
    BY <2>3, <2>4 DEF Backed
  <2>7. Held((live \cup lost) \cup {s}, heap.used)
    BY <1>1, <2>1, <2>2, <2>3, <2>6, HeldMore
  <2>8. live' \cup lost' = (live \cup lost) \cup {s} /\ live' \cap lost' = {}
    BY <1>1, <2>1, <2>2
  <2> QED BY <1>1, <2>2, <2>5, <2>7, <2>8 DEF IInv, ScratchSound
<1>9. ASSUME FreeNull
      PROVE  IInv'
  <2>1. scratch = {} /\ heap' = FreeBlock(heap, NULL) /\ UNCHANGED <<live, scratch, lost>>
    BY <1>9 DEF FreeNull
  <2>2. \A j \in 1 .. Len(heap.used) : heap.used[j].addr # NULL
    <3> SUFFICES ASSUME NEW j \in 1 .. Len(heap.used) PROVE heap.used[j].addr # NULL
      OBVIOUS
    <3>1. Base \in Nat \ {0} /\ Base <= heap.used[j].addr /\ heap.used[j].addr \in Nat
      BY <1>1, HeapParts, ListEntries
    <3> QED BY <3>1 DEF NULL
  <2>3. heap' = heap
    <3> DEFINE a == NULL
               g == FreeBlock(heap, a)
    <3>1. heap' = g /\ \A j \in 1 .. Len(heap.used) : heap.used[j].addr # a
      BY <2>1, <2>2
    <3> HIDE DEF a
    <3>2. \/ g = heap /\ \A j \in 1 .. Len(heap.used) : heap.used[j].addr # a
          \/ \E k \in 1 .. Len(heap.used) :
               /\ heap.used[k].addr = a /\ \A j \in 1 .. Len(heap.used) : j < k => heap.used[j].addr # a
               /\ g = Insert([heap EXCEPT !.used = RemoveAt(heap.used, k)], heap.free, heap.used[k])
      BY <1>1, FreeIs
    <3> HIDE DEF g
    <3> QED BY <3>1, <3>2
  <2> QED BY <1>3, <2>1, <2>3
<1>10. ASSUME UNCHANGED vars
       PROVE  IInv'
  BY <1>1, <1>10 DEF IInv, ScratchSound, Held, Backed, vars
<1> QED BY <1>4, <1>5, <1>6, <1>7, <1>8, <1>9, <1>10 DEF Next

\* The heap is sound in every reachable state.
THEOREM Sound == Spec => []IInv
<1>1. Init => IInv
  BY InitSound
<1>2. IInv /\ [Next]_vars => IInv'
  BY NextSound
<1> QED BY <1>1, <1>2, PTL DEF Spec

-----------------------------------------------------------------------------
(* The properties.                                                         *)

\* malloc_check: no block descriptor is lost, whatever is split and merged.
THEOREM DescriptorsConserved == Spec => []BlocksConserved
<1>1. IInv => BlocksConserved
  BY DEF IInv, SoundHeap, Conserved, BlocksConserved
<1> QED BY <1>1, Sound, PTL

\* The blocks of a list, and those of them that hold bytes.
LEMMA SolidIs ==
  ASSUME NEW list \in Seq(Blocks)
  PROVE  /\ \A b : b \in Solid(list) <=> b.size > 0 /\ \E i \in 1 .. Len(list) : list[i] = b
         /\ ToSet(list) = {list[i] : i \in 1 .. Len(list)}
         /\ IsFiniteSet(Solid(list))
<1>1. DOMAIN list = 1 .. Len(list) /\ Len(list) \in Nat
  BY LenProperties
<1>2. ToSet(list) = {list[i] : i \in 1 .. Len(list)}
  BY <1>1 DEF ToSet
<1>3. IsFiniteSet(ToSet(list))
  <2>1. list \in [1 .. Len(list) -> ToSet(list)]
    BY <1>1, <1>2
  <2>2. list \in Surjection(1 .. Len(list), ToSet(list))
    BY <1>2, <2>1 DEF Surjection
  <2> QED BY <1>1, <2>2, FS_Interval, FS_Surjection
<1>4. IsFiniteSet(Solid(list))
  <2>1. Solid(list) \in SUBSET ToSet(list)
    BY DEF Solid
  <2> QED BY <1>3, <2>1, FS_Subset
<1>5. \A b : b \in Solid(list) <=> b.size > 0 /\ \E i \in 1 .. Len(list) : list[i] = b
  BY <1>2 DEF Solid
<1> QED BY <1>2, <1>4, <1>5

\* Blocks that are apart share no byte, and no block that holds bytes is apart
\* from itself.
LEMMA ApartIs ==
  ASSUME NEW b \in Blocks, NEW c \in Blocks, Apart(b, c)
  PROVE  /\ Bytes(b) \cap Bytes(c) = {}
         /\ b.size > 0 => b # c
<1>1. /\ b.addr \in Nat /\ EndOf(b) \in Nat /\ b.addr <= EndOf(b)
      /\ (b.size = 0 <=> EndOf(b) = b.addr) /\ b.size \in Nat
  BY BlockIs
<1>2. c.addr \in Nat /\ EndOf(c) \in Nat /\ c.addr <= EndOf(c)
  BY BlockIs
<1>3. EndOf(b) <= c.addr \/ EndOf(c) <= b.addr
  BY DEF Apart
<1>4. Bytes(b) \cap Bytes(c) = {}
  <2> SUFFICES ASSUME NEW x, x \in Bytes(b), x \in Bytes(c)
               PROVE  FALSE
    OBVIOUS
  <2>1. x \in Int /\ b.addr <= x /\ x < EndOf(b) /\ c.addr <= x /\ x < EndOf(c)
    BY <1>1, <1>2 DEF Bytes
  <2> QED BY <1>1, <1>2, <1>3, <2>1
<1>5. ASSUME b.size > 0, b = c
      PROVE  FALSE
  BY <1>1, <1>3, <1>5
<1> QED BY <1>4, <1>5

\* The blocks of a sound heap tile the pool up to its top.
LEMMA SoundTiles ==
  ASSUME SoundHeap(heap)
  PROVE  NoOverlap /\ Coalesced
<1> DEFINE free == heap.free
           used == heap.used
           top == heap.top
<1>1. /\ SoundLists(free, used, top) /\ free \in Seq(Blocks) /\ used \in Seq(Blocks)
      /\ top \in Nat /\ Len(free) \in Nat /\ Base \in Nat
  BY HeapParts, LayoutAssumption
<1> HIDE DEF free, used, top
<1>2. /\ \A b : b \in Solid(free) <=> b.size > 0 /\ \E i \in 1 .. Len(free) : free[i] = b
      /\ IsFiniteSet(Solid(free))
  BY <1>1, SolidIs
<1>3. /\ \A b : b \in Solid(used) <=> b.size > 0 /\ \E i \in 1 .. Len(used) : used[i] = b
      /\ IsFiniteSet(Solid(used))
  BY <1>1, SolidIs
<1>4. /\ \A i \in 1 .. Len(free) : free[i] \in Blocks /\ EndOf(free[i]) <= top
      /\ \A i \in 1 .. Len(used) : used[i] \in Blocks /\ EndOf(used[i]) <= top
  BY <1>1, ListEntries
<1>5. ASSUME NEW b \in Blocks, NEW x \in Bytes(b)
      PROVE  b.size > 0
  BY <1>5, BlockIs DEF Bytes
<1>6. \A x \in Base .. top - 1 : \E b \in Solid(free) \cup Solid(used) : x \in Bytes(b)
  <2> SUFFICES ASSUME NEW x \in Base .. top - 1
               PROVE  \E b \in Solid(free) \cup Solid(used) : x \in Bytes(b)
    OBVIOUS
  <2>1. x \in Nat /\ Base <= x /\ x < top
    BY <1>1
  <2>2. \/ \E i \in 1 .. Len(free) : x \in Bytes(free[i])
        \/ \E j \in 1 .. Len(used) : x \in Bytes(used[j])
    BY <1>1, <2>1 DEF SoundLists, Covered
  <2> QED BY <1>2, <1>3, <1>4, <1>5, <2>2
<1>7. \A b \in Solid(free), c \in Solid(used) : Apart(b, c) /\ b \in Blocks /\ c \in Blocks
  BY <1>1, <1>2, <1>3, <1>4 DEF SoundLists, FreeApart
<1>8. \A b, c \in Solid(free) : b # c => Apart(b, c) /\ b \in Blocks /\ c \in Blocks
  <2>1. Spaced(free)
    BY <1>1 DEF SoundLists, FreeSound
  <2> QED BY <1>1, <1>2, <1>4, <2>1, SpacedApart
<1>9. \A b, c \in Solid(used) : b # c => Apart(b, c) /\ b \in Blocks /\ c \in Blocks
  BY <1>1, <1>3, <1>4 DEF SoundLists, UsedApart
<1>10. \A b, c \in Solid(free) \cup Solid(used) : b # c => Bytes(b) \cap Bytes(c) = {}
  <2> SUFFICES ASSUME NEW b \in Solid(free) \cup Solid(used),
                      NEW c \in Solid(free) \cup Solid(used), b # c
               PROVE  Bytes(b) \cap Bytes(c) = {}
    OBVIOUS
  <2>1. Apart(b, c) \/ Apart(c, b)
    BY <1>7, <1>8, <1>9
  <2>2. b \in Blocks /\ c \in Blocks
    BY <1>7, <1>8, <1>9
  <2> QED BY <2>1, <2>2, ApartIs
<1>11. \A b \in Solid(free) \cup Solid(used) : EndOf(b) <= top
  BY <1>2, <1>3, <1>4
<1>12. Cardinality(Solid(free) \cup Solid(used)) = Cardinality(Solid(free)) + Cardinality(Solid(used))
  <2>1. Solid(free) \cap Solid(used) = {}
    <3> SUFFICES ASSUME NEW b \in Solid(free), b \in Solid(used)
                 PROVE  FALSE
      OBVIOUS
    <3>1. Apart(b, b) /\ b \in Blocks /\ b.size > 0
      BY <1>2, <1>7
    <3> QED BY <3>1, ApartIs
  <2>2. Cardinality(Solid(free)) \in Nat /\ Cardinality(Solid(used)) \in Nat
    BY <1>2, <1>3, FS_CardinalityType
  <2> DEFINE S == Solid(free)
             T == Solid(used)
  <2> HIDE DEF S, T
  <2>3. Cardinality(S \cup T) = Cardinality(S) + Cardinality(T) - Cardinality(S \cap T)
    BY <1>2, <1>3, FS_Union DEF S, T
  <2>4. Cardinality(S \cap T) = 0
    BY <2>1, FS_EmptySet DEF S, T
  <2> QED BY <2>2, <2>3, <2>4 DEF S, T
<1>13. NoOverlap
  BY <1>6, <1>10, <1>11, <1>12 DEF NoOverlap, free, used, top
<1>14. Coalesced
  <2> SUFFICES ASSUME NEW i \in 1 .. Len(free) - 1
               PROVE  EndOf(free[i]) < free[i + 1].addr
    BY DEF Coalesced, free
  <2>1. i \in 1 .. Len(free) /\ i + 1 \in 1 .. Len(free) /\ i < i + 1
    BY <1>1
  <2> QED BY <1>1, <2>1 DEF SoundLists, FreeSound, Spaced
<1> QED BY <1>13, <1>14

\* No memory is lost or handed out twice, the free list is in order and
\* coalesced, and what callers hold is in use.
THEOREM HeapTiled == Spec => []Tiled
<1>1. IInv => Tiled
  <2> SUFFICES ASSUME IInv PROVE Tiled
    OBVIOUS
  <2>1. SoundHeap(heap) /\ Held(live \cup lost, heap.used) /\ ScratchSound
    BY DEF IInv
  <2>2. heap.used \in Seq(Blocks) /\ Len(heap.used) \in Nat
    BY <2>1, HeapParts
  <2>3. \A i \in 1 .. Len(heap.used) : heap.used[i] \in ToSet(heap.used)
    BY <2>2, SolidIs
  <2>4. \A b \in live \cup lost : \E u \in ToSet(heap.used) : u.addr = b.addr /\ u.size >= b.size
    BY <2>1, <2>3 DEF Held, Backed
  <2>5. \A b \in scratch : \E u \in ToSet(heap.used) : u.addr = b.addr /\ u.size >= b.size
    <3> SUFFICES ASSUME NEW b \in scratch
                 PROVE  \E u \in ToSet(heap.used) : u.addr = b.addr /\ u.size >= b.size
      OBVIOUS
    <3>1. Buffer(b, heap.used)
      BY <2>1 DEF ScratchSound
    <3>2. 1 \in 1 .. Len(heap.used) /\ heap.used[1].addr = b.addr /\ heap.used[1].size >= b.size
      BY <2>2, <3>1 DEF Buffer
    <3> QED BY <2>3, <3>2
  <2>6. LiveBacked
    BY <2>4, <2>5 DEF LiveBacked
  <2> QED BY <2>1, <2>6, SoundTiles DEF Tiled
<1> QED BY <1>1, Sound, PTL

-----------------------------------------------------------------------------
(* The heap is an allocator.                                               *)

\* The bytes of a block are the same for the allocator.
LEMMA SameBytes ==
  ASSUME NEW b \in Blocks
  PROVE  Promise!Bytes(b) = Bytes(b)
<1>1. Promise!Bytes(b) = b.addr .. (b.addr + b.size - 1)
  BY DEF Promise!Bytes
<1>2. b.addr \in Nat /\ b.size \in Nat /\ EndOf(b) = b.addr + b.size
  BY BlockIs DEF EndOf
<1>3. b.addr + b.size - 1 = EndOf(b) - 1
  BY <1>2
<1> QED BY <1>1, <1>3 DEF Bytes

\* A successful request is a step of the allocator, or no step when the block
\* is empty.
LEMMA GivenPromised ==
  ASSUME NEW h, SoundHeap(h), NEW n \in Nat, NEW g, NEW a, Given(h, n, g, a)
  PROVE  \/ Solid(g.used) = Solid(h.used)
         \/ \E b \in Promise!Areas :
              /\ b.addr + b.size <= Limit
              /\ \A c \in Solid(h.used) : Promise!Bytes(b) \cap Promise!Bytes(c) = {}
              /\ Solid(g.used) = Solid(h.used) \cup {b}
<1>1. SoundHeap(g) /\ a \in Nat /\ Base <= a
  BY DEF Given
<1>2. PICK m \in Nat : m >= n /\ g.used = <<Block(a, m)>> \o h.used
  BY DEF Given
<1> DEFINE b == Block(a, m)
<1>3. b \in Blocks /\ b.addr = a /\ b.size = m /\ EndOf(b) = a + m
  BY <1>1, MadeBlockIs
<1>4. /\ h.used \in Seq(Blocks) /\ Len(h.used) \in Nat
      /\ g.used \in Seq(Blocks) /\ SoundLists(g.free, g.used, g.top)
  BY <1>1, HeapParts
<1> HIDE DEF b
<1>5. IsPushed(h.used, b, g.used)
  BY <1>2, <1>3, <1>4, UsedIs DEF b
<1>6. /\ 1 \in 1 .. Len(g.used) /\ g.used[1] = b
      /\ \A p \in 1 .. Len(g.used) : p # 1 => \E q \in 1 .. Len(h.used) : g.used[p] = h.used[q]
  BY <1>5 DEF IsPushed
<1>7. ASSUME NEW q \in 1 .. Len(h.used)
      PROVE  \E p \in 1 .. Len(g.used) : p # 1 /\ g.used[p] = h.used[q]
  <2>1. q + 1 \in 1 .. Len(h.used) + 1 /\ q + 1 # 1 /\ q + 1 - 1 = q
    BY <1>4
  <2>2. (<<b>> \o h.used)[q + 1] = h.used[q] /\ Len(<<b>> \o h.used) = Len(h.used) + 1
    BY <1>3, <1>4, <2>1, PushIs
  <2>3. g.used = <<b>> \o h.used
    BY <1>2 DEF b
  <2> QED BY <2>1, <2>2, <2>3
<1>8. /\ \A c : c \in Solid(h.used) <=> c.size > 0 /\ \E i \in 1 .. Len(h.used) : h.used[i] = c
      /\ \A c : c \in Solid(g.used) <=> c.size > 0 /\ \E i \in 1 .. Len(g.used) : g.used[i] = c
  BY <1>4, SolidIs
<1>9. /\ Solid(h.used) \subseteq Solid(g.used)
      /\ \A c \in Solid(g.used) : c \in Solid(h.used) \/ (c = b /\ b.size > 0)
      /\ b.size > 0 => b \in Solid(g.used)
  <2>1. ASSUME NEW c \in Solid(h.used)
        PROVE  c \in Solid(g.used)
    <3>1. c.size > 0 /\ \E i \in 1 .. Len(h.used) : h.used[i] = c
      BY <1>8
    <3>2. \E i \in 1 .. Len(g.used) : g.used[i] = c
      BY <1>7, <3>1
    <3> QED BY <1>8, <3>1, <3>2
  <2>2. ASSUME NEW c \in Solid(g.used)
        PROVE  c \in Solid(h.used) \/ (c = b /\ b.size > 0)
    <3>1. c.size > 0
      BY <1>8
    <3>2. PICK p \in 1 .. Len(g.used) : g.used[p] = c
      BY <1>8
    <3>3. CASE p = 1
      BY <1>6, <3>1, <3>2, <3>3
    <3>4. CASE p # 1
      <4>1. PICK q \in 1 .. Len(h.used) : g.used[p] = h.used[q]
        BY <1>6, <3>4
      <4> QED BY <1>8, <3>1, <3>2, <4>1
    <3> QED BY <3>3, <3>4
  <2>3. b.size > 0 => b \in Solid(g.used)
    BY <1>6, <1>8
  <2> QED BY <2>1, <2>2, <2>3
<1>10. CASE m = 0
  <2>1. ~(b.size > 0)
    BY <1>3, <1>10
  <2>2. Solid(g.used) = Solid(h.used)
    BY <1>9, <2>1
  <2> QED BY <2>2
<1>11. CASE m > 0
  <2>0. b.size > 0
    BY <1>3, <1>11
  <2>1. Solid(g.used) = Solid(h.used) \cup {b}
    BY <1>9, <2>0
  <2>2. a + m <= Limit
    <3>1. EndOf(b) <= g.top /\ g.top <= Limit /\ g.top \in Nat /\ Limit \in Nat
      BY <1>4, <1>6, ListEntries DEF SoundLists
    <3> QED BY <1>1, <1>3, <3>1
  <2>3. b \in Promise!Areas
    <3>1. a \in Base .. Limit /\ m \in 1 .. Limit - Base /\ Base \in Nat
      BY <1>1, <1>11, <2>2, LayoutAssumption
    <3> QED BY <3>1 DEF Promise!Areas, b, Block
  <2>4. ASSUME NEW c \in Solid(h.used)
        PROVE  Promise!Bytes(b) \cap Promise!Bytes(c) = {}
    <3>1. PICK q \in 1 .. Len(h.used) : h.used[q] = c
      BY <1>8
    <3>2. PICK p \in 1 .. Len(g.used) : p # 1 /\ g.used[p] = c
      BY <1>7, <3>1
    <3>3. Apart(b, c) /\ c \in Blocks
      BY <1>4, <1>6, <3>2, EntryIs DEF SoundLists, UsedApart
    <3>4. Bytes(b) \cap Bytes(c) = {}
      BY <1>3, <3>3, ApartIs
    <3>5. Promise!Bytes(b) = Bytes(b) /\ Promise!Bytes(c) = Bytes(c)
      BY <1>3, <3>3, SameBytes
    <3> QED BY <3>4, <3>5
  <2> QED BY <1>3, <2>1, <2>2, <2>3, <2>4
<1> QED BY <1>10, <1>11

\* Giving a block back takes that block away and no other.
LEMMA FreePromised ==
  ASSUME NEW h, SoundHeap(h), NEW a,
         NEW g, g = FreeBlock(h, a), SoundHeap(g)
  PROVE  \/ Solid(g.used) = Solid(h.used)
         \/ \E b \in Solid(h.used) : Solid(g.used) = Solid(h.used) \ {b}
<1>1. h.used \in Seq(Blocks) /\ SoundLists(h.free, h.used, h.top) /\ g.used \in Seq(Blocks)
  BY HeapParts
<1>2. CASE g = h
  BY <1>2
<1>3. ASSUME NEW k \in 1 .. Len(h.used),
             g = Insert([h EXCEPT !.used = RemoveAt(h.used, k)], h.free, h.used[k])
      PROVE  \/ Solid(g.used) = Solid(h.used)
             \/ \E b \in Solid(h.used) : Solid(g.used) = Solid(h.used) \ {b}
  <2>1. g.used = RemoveAt(h.used, k)
    BY <1>1, <1>3, HeapParts DEF Insert, HeapRecord
  <2>2. IsRest(h.used, k, g.used)
    BY <1>1, <2>1, RestIs
  <2>3. /\ \A p \in 1 .. Len(g.used) : \E q \in 1 .. Len(h.used) : q # k /\ g.used[p] = h.used[q]
        /\ \A q \in 1 .. Len(h.used) : q # k => \E p \in 1 .. Len(g.used) : g.used[p] = h.used[q]
    BY <2>2 DEF IsRest
  <2>4. /\ \A c : c \in Solid(h.used) <=> c.size > 0 /\ \E i \in 1 .. Len(h.used) : h.used[i] = c
        /\ \A c : c \in Solid(g.used) <=> c.size > 0 /\ \E i \in 1 .. Len(g.used) : g.used[i] = c
    BY <1>1, SolidIs
  <2>5. CASE h.used[k].size > 0
    <3>1. \A q \in 1 .. Len(h.used) : q # k => h.used[q] # h.used[k]
      <4> SUFFICES ASSUME NEW q \in 1 .. Len(h.used), q # k PROVE h.used[q] # h.used[k]
        OBVIOUS
      <4>1. h.used[q].addr # h.used[k].addr
        BY <2>5, OwnAddress
      <4> QED BY <4>1
    <3>2. Solid(g.used) \subseteq Solid(h.used) \ {h.used[k]}
      <4> SUFFICES ASSUME NEW c \in Solid(g.used) PROVE c \in Solid(h.used) /\ c # h.used[k]
        OBVIOUS
      <4>0. PICK p \in 1 .. Len(g.used) : c.size > 0 /\ g.used[p] = c
        BY <2>4
      <4>1. c.size > 0 /\ \E q \in 1 .. Len(h.used) : q # k /\ h.used[q] = c
        BY <2>3, <4>0
      <4> QED BY <2>4, <3>1, <4>1
    <3>3. Solid(h.used) \ {h.used[k]} \subseteq Solid(g.used)
      <4> SUFFICES ASSUME NEW c \in Solid(h.used), c # h.used[k] PROVE c \in Solid(g.used)
        OBVIOUS
      <4>1. PICK q \in 1 .. Len(h.used) : c.size > 0 /\ q # k /\ h.used[q] = c
        BY <2>4
      <4>2. PICK p \in 1 .. Len(g.used) : g.used[p] = h.used[q]
        BY <2>3, <4>1
      <4> QED BY <2>4, <4>1, <4>2
    <3>4. h.used[k] \in Solid(h.used)
      BY <2>4, <2>5
    <3>5. Solid(g.used) = Solid(h.used) \ {h.used[k]}
      BY <3>2, <3>3
    <3> QED BY <3>4, <3>5
  <2>6. CASE ~(h.used[k].size > 0)
    <3>1. ASSUME NEW c \in Solid(g.used)
          PROVE  c \in Solid(h.used)
      <4>0. PICK p \in 1 .. Len(g.used) : c.size > 0 /\ g.used[p] = c
        BY <2>4
      <4>1. c.size > 0 /\ \E q \in 1 .. Len(h.used) : h.used[q] = c
        BY <2>3, <4>0
      <4> QED BY <2>4, <4>1
    <3>2. ASSUME NEW c \in Solid(h.used)
          PROVE  c \in Solid(g.used)
      <4>1. c.size > 0 /\ \E q \in 1 .. Len(h.used) : h.used[q] = c
        BY <2>4
      <4>2. \E q \in 1 .. Len(h.used) : q # k /\ h.used[q] = c
        BY <2>6, <4>1
      <4>3. \E p \in 1 .. Len(g.used) : g.used[p] = c
        <5>1. PICK q \in 1 .. Len(h.used) : q # k /\ h.used[q] = c
          BY <4>2
        <5> QED BY <2>3, <5>1
      <4> QED BY <2>4, <4>1, <4>3
    <3>3. Solid(g.used) = Solid(h.used)
      BY <3>1, <3>2
    <3> QED BY <3>3
  <2> QED BY <2>5, <2>6
<1>4. \/ g = h
      \/ \E k \in 1 .. Len(h.used) :
           g = Insert([h EXCEPT !.used = RemoveAt(h.used, k)], h.free, h.used[k])
  BY FreeIs
<1> QED BY <1>2, <1>3, <1>4

\* The two kinds of steps of the allocator, and none.
LEMMA PromiseStep ==
  ASSUME \/ Solid(heap'.used) = Solid(heap.used)
         \/ \E b \in Promise!Areas :
              /\ b.addr + b.size <= Limit
              /\ \A c \in Solid(heap.used) : Promise!Bytes(b) \cap Promise!Bytes(c) = {}
              /\ Solid(heap'.used) = Solid(heap.used) \cup {b}
         \/ \E b \in Solid(heap.used) : Solid(heap'.used) = Solid(heap.used) \ {b}
  PROVE  [Promise!Next]_(Solid(heap.used))
BY DEF Promise!Next, Promise!Allocate, Promise!Free

\* Every step of the heap is a step of the allocator.
LEMMA NextPromised == IInv /\ IInv' /\ [Next]_vars => [Promise!Next]_(Solid(heap.used))
<1> SUFFICES ASSUME IInv, IInv', [Next]_vars PROVE [Promise!Next]_(Solid(heap.used))
  OBVIOUS
<1>1. SoundHeap(heap) /\ SoundHeap(heap') /\ ScratchSound
  BY DEF IInv
<1>2. ASSUME heap' = heap
      PROVE  [Promise!Next]_(Solid(heap.used))
  BY <1>2, PromiseStep
<1>3. ASSUME NEW n \in Sizes \cup FileSizes, scratch = {}, heap' = AllocBlock(heap, n).heap
      PROVE  [Promise!Next]_(Solid(heap.used))
  <2> DEFINE r == AllocBlock(heap, n)
  <2>1. AllSolid(heap.used)
    BY <1>1, <1>3 DEF ScratchSound
  <2>2. n \in Nat /\ n + Alignment + Limit < WordSize
    BY SizesAssumption
  <2>3. r.heap = heap \/ Given(heap, n, r.heap, r.addr)
    BY <1>1, <2>1, <2>2, AllocIs
  <2>4. heap' = r.heap
    BY <1>3
  <2> HIDE DEF r
  <2>5. ASSUME Given(heap, n, heap', r.addr)
        PROVE  [Promise!Next]_(Solid(heap.used))
    BY <1>1, <2>2, <2>5, GivenPromised, PromiseStep
  <2> QED BY <1>2, <2>3, <2>4, <2>5
<1>4. ASSUME NEW a, heap' = FreeBlock(heap, a)
      PROVE  [Promise!Next]_(Solid(heap.used))
  BY <1>1, <1>4, FreePromised, PromiseStep
<1>5. CASE \E n \in Sizes : Malloc(n)
  BY <1>3, <1>5 DEF Malloc
<1>6. CASE \E b \in live : Free(b)
  BY <1>4, <1>6 DEF Free
<1>7. CASE \E n \in FileSizes : CommandBuffer(n)
  BY <1>3, <1>7 DEF CommandBuffer
<1>8. CASE CommandEnds
  BY <1>4, <1>8 DEF CommandEnds
<1>9. CASE CommandFails
  BY <1>2, <1>9 DEF CommandFails
<1>10. CASE FreeNull
  BY <1>4, <1>10 DEF FreeNull
<1>11. CASE UNCHANGED vars
  BY <1>2, <1>11 DEF vars
<1> QED BY <1>5, <1>6, <1>7, <1>8, <1>9, <1>10, <1>11 DEF Next

\* The heap implements the allocator: a request is answered with NULL or with
\* memory in the pool that nobody holds, and free takes that memory back.
THEOREM HeapImplements == Spec => Implements
<1>1. Init => Promise!Init
  <2> SUFFICES ASSUME Init PROVE Solid(heap.used) = {}
    BY DEF Promise!Init
  <2>1. heap.used = <<>>
    BY EmptyIs DEF Init
  <2> QED BY <2>1 DEF Solid, ToSet
<1>2. IInv /\ IInv' /\ [Next]_vars => [Promise!Next]_(Solid(heap.used))
  BY NextPromised
<1> QED BY <1>1, <1>2, Sound, PTL DEF Spec, Implements, Promise!Spec

-----------------------------------------------------------------------------
(* The table of open files.                                                *)

\* The objects in a table.
InUse(table) == {i \in Entries : table[i] # NULL}
Addrs(table) == {table[i] : i \in InUse(table)}
Objects(addrs) == {Block(a, FilSize) : a \in addrs}

\* Of the blocks in use outside the table there is only one.
OneOther(used, addrs) ==
  \A p, q \in 1 .. Len(used) :
    used[p].addr \in addrs \/ used[q].addr \in addrs \/ used[p].addr = used[q].addr

\* The heap holds an object at each of the addresses, and one block more at most.
Backing(addrs, h) ==
  /\ SoundHeap(h) /\ AllSolid(h.used)
  /\ addrs \subseteq Nat /\ Held(Objects(addrs), h.used)
  /\ OneOther(h.used, addrs)

TableSound(table) ==
  /\ table \in [Entries -> Nat]
  /\ \A i, j \in InUse(table) : table[i] = table[j] => i = j

FilesInv ==
  /\ TableSound(file_handles)
  /\ Backing(Addrs(file_handles), heap)
  /\ memory \in [Addrs(file_handles) -> Files]

-----------------------------------------------------------------------------
(* Objects come and go.                                                    *)

\* An object stands for its address.
LEMMA ObjectIs ==
  ASSUME NEW a \in Nat
  PROVE  /\ Block(a, FilSize) \in Blocks /\ Block(a, FilSize).addr = a
         /\ Block(a, FilSize).size = FilSize /\ FilSize > 0 /\ FilSize \in Nat
<1>1. FilSize \in Nat /\ FilSize > 0
  BY TableAssumption
<1> QED BY <1>1, MadeBlockIs

\* What Held says of the objects.
LEMMA ObjectsHeld ==
  ASSUME NEW addrs \in SUBSET Nat, NEW used
  PROVE  Held(Objects(addrs), used) <=>
           \A a \in addrs : \E i \in 1 .. Len(used) : used[i].addr = a /\ used[i].size >= FilSize
<1>1. ASSUME Held(Objects(addrs), used), NEW a \in addrs
      PROVE  \E i \in 1 .. Len(used) : used[i].addr = a /\ used[i].size >= FilSize
  <2>1. Block(a, FilSize) \in Objects(addrs)
    BY DEF Objects
  <2> QED BY <1>1, <2>1, ObjectIs DEF Held, Backed
<1>2. ASSUME \A a \in addrs :
               \E i \in 1 .. Len(used) : used[i].addr = a /\ used[i].size >= FilSize
      PROVE  Held(Objects(addrs), used)
  <2>1. ASSUME NEW b \in Objects(addrs)
        PROVE  b \in Blocks /\ b.size > 0 /\ Backed(b, used)
    <3>1. PICK a \in addrs : b = Block(a, FilSize)
      BY DEF Objects
    <3> QED BY <1>2, <3>1, ObjectIs DEF Backed
  <2>2. ASSUME NEW b \in Objects(addrs), NEW c \in Objects(addrs), b # c
        PROVE  b.addr # c.addr
    <3>1. PICK a \in addrs : b = Block(a, FilSize)
      BY DEF Objects
    <3>2. PICK d \in addrs : c = Block(d, FilSize)
      BY DEF Objects
    <3> QED BY <2>2, <3>1, <3>2, ObjectIs
  <2> QED BY <2>1, <2>2 DEF Held
<1> QED BY <1>1, <1>2

\* malloc for a FIL: one object more, at an address of its own.
LEMMA ObjectGiven ==
  ASSUME NEW addrs, NEW h, Backing(addrs, h), NEW g, NEW a, Given(h, FilSize, g, a)
  PROVE  a \in Nat /\ a \notin addrs /\ Backing(addrs \cup {a}, g)
<1>1. /\ SoundHeap(h) /\ AllSolid(h.used) /\ addrs \in SUBSET Nat
      /\ Held(Objects(addrs), h.used) /\ OneOther(h.used, addrs)
  BY DEF Backing
<1>2. a \in Nat
  BY DEF Given
<1>3. FilSize \in Nat /\ FilSize > 0
  BY TableAssumption
<1>4. /\ SoundHeap(g) /\ Held(Objects(addrs), g.used)
      /\ Block(a, FilSize) \in Blocks /\ Buffer(Block(a, FilSize), g.used)
      /\ \A b \in Objects(addrs) : b.addr # a
      /\ Block(a, FilSize).addr = a /\ Block(a, FilSize).size = FilSize
  BY <1>1, <1>3, GivenIs
<1>5. a \notin addrs
  BY <1>1, <1>4, ObjectIs DEF Objects
<1>6. PICK m \in Nat : m >= FilSize /\ g.used = <<Block(a, m)>> \o h.used
  BY DEF Given
<1>7. /\ Block(a, m) \in Blocks /\ Block(a, m).addr = a /\ Block(a, m).size = m
  BY <1>2, MadeBlockIs
<1>8. IsPushed(h.used, Block(a, m), g.used)
  BY <1>1, <1>6, <1>7, HeapParts, UsedIs
<1>9. /\ 1 \in 1 .. Len(g.used) /\ g.used[1] = Block(a, m)
      /\ \A p \in 1 .. Len(g.used) : p # 1 => \E q \in 1 .. Len(h.used) : g.used[p] = h.used[q]
  BY <1>8 DEF IsPushed
<1>10. AllSolid(g.used)
  <2>1. ASSUME NEW p \in 1 .. Len(g.used)
        PROVE  g.used[p].size > 0
    <3>1. CASE p = 1
      BY <1>3, <1>6, <1>7, <1>9, <3>1
    <3>2. CASE p # 1
      BY <1>1, <1>9, <3>2 DEF AllSolid
    <3> QED BY <3>1, <3>2
  <2> QED BY <2>1 DEF AllSolid
<1>11. OneOther(g.used, addrs \cup {a})
  <2>1. ASSUME NEW p \in 1 .. Len(g.used), NEW q \in 1 .. Len(g.used),
               g.used[p].addr \notin addrs \cup {a}, g.used[q].addr \notin addrs \cup {a}
        PROVE  g.used[p].addr = g.used[q].addr
    <3>1. p # 1 /\ q # 1
      BY <1>7, <1>9, <2>1
    <3>2. PICK s \in 1 .. Len(h.used) : g.used[p] = h.used[s]
      BY <1>9, <3>1
    <3>3. PICK t \in 1 .. Len(h.used) : g.used[q] = h.used[t]
      BY <1>9, <3>1
    <3> QED BY <1>1, <2>1, <3>2, <3>3 DEF OneOther
  <2> QED BY <2>1 DEF OneOther
<1>12. Held(Objects(addrs \cup {a}), g.used)
  <2>1. addrs \cup {a} \in SUBSET Nat
    BY <1>1, <1>2
  <2>2. ASSUME NEW c \in addrs \cup {a}
        PROVE  \E i \in 1 .. Len(g.used) : g.used[i].addr = c /\ g.used[i].size >= FilSize
    <3>1. CASE c = a
      BY <1>6, <1>7, <1>9, <3>1
    <3>2. CASE c \in addrs
      BY <1>1, <1>4, <3>2, ObjectsHeld
    <3> QED BY <3>1, <3>2
  <2> QED BY <2>1, <2>2, ObjectsHeld
<1>13. addrs \cup {a} \subseteq Nat
  BY <1>1, <1>2
<1> QED BY <1>2, <1>4, <1>5, <1>10, <1>11, <1>12, <1>13 DEF Backing

\* free takes one object and no other block.
LEMMA ObjectFreed ==
  ASSUME NEW addrs, NEW h, Backing(addrs, h), NEW a \in addrs, NEW g, g = FreeBlock(h, a)
  PROVE  Backing(addrs \ {a}, g)
<1>1. /\ SoundHeap(h) /\ AllSolid(h.used) /\ addrs \in SUBSET Nat /\ addrs \ {a} \in SUBSET Nat
      /\ Held(Objects(addrs), h.used) /\ OneOther(h.used, addrs)
  BY DEF Backing
<1>2. /\ h.used \in Seq(Blocks)
      /\ \A j \in 1 .. Len(h.used) : h.used[j].size > 0 /\ h.used[j].size # 0
  <2>1. h.used \in Seq(Blocks)
    BY <1>1, HeapParts
  <2>2. ASSUME NEW j \in 1 .. Len(h.used)
        PROVE  h.used[j].size > 0 /\ h.used[j].size # 0
    <3>1. h.used[j].size \in Nat
      BY <2>1, EntryIs
    <3> QED BY <1>1, <3>1 DEF AllSolid
  <2> QED BY <2>1, <2>2
<1>3. \A c \in addrs :
        \E i \in 1 .. Len(h.used) : h.used[i].addr = c /\ h.used[i].size >= FilSize
  BY <1>1, ObjectsHeld
<1>4. Held(Objects(addrs \ {a}), h.used)
  BY <1>1, <1>3, ObjectsHeld
<1>5. \A b \in Objects(addrs \ {a}) : b.addr # a
  BY <1>1, ObjectIs DEF Objects
<1>6. \E j \in 1 .. Len(h.used) : h.used[j].addr = a
  BY <1>3
<1>7. SoundHeap(g) /\ Held(Objects(addrs \ {a}), g.used) /\ AllSolid(g.used)
  BY <1>1, <1>2, <1>4, <1>5, <1>6, GivenBack
<1>8. PICK k \in 1 .. Len(h.used) :
        /\ h.used[k].addr = a
        /\ g = Insert([h EXCEPT !.used = RemoveAt(h.used, k)], h.free, h.used[k])
  BY <1>1, <1>6, FreeIs
<1>9. g.used = RemoveAt(h.used, k)
  BY <1>1, <1>2, <1>8, ReleaseHeap
<1>10. \A p \in 1 .. Len(g.used) : \E q \in 1 .. Len(h.used) : q # k /\ g.used[p] = h.used[q]
  <2>1. IsRest(h.used, k, g.used)
    BY <1>2, <1>9, RestIs
  <2> QED BY <2>1 DEF IsRest
<1>11. ASSUME NEW p \in 1 .. Len(g.used)
       PROVE  \E q \in 1 .. Len(h.used) : g.used[p] = h.used[q] /\ h.used[q].addr # a
  <2>1. PICK q \in 1 .. Len(h.used) : q # k /\ g.used[p] = h.used[q]
    BY <1>10
  <2>2. h.used[q].addr # h.used[k].addr
    BY <1>1, <1>2, <2>1, OwnAddress
  <2> QED BY <1>8, <2>1, <2>2
<1>12. OneOther(g.used, addrs \ {a})
  <2>1. ASSUME NEW p \in 1 .. Len(g.used), NEW q \in 1 .. Len(g.used),
               g.used[p].addr \notin addrs \ {a}, g.used[q].addr \notin addrs \ {a}
        PROVE  g.used[p].addr = g.used[q].addr
    <3>1. PICK s \in 1 .. Len(h.used) : g.used[p] = h.used[s] /\ h.used[s].addr # a
      BY <1>11
    <3>2. PICK t \in 1 .. Len(h.used) : g.used[q] = h.used[t] /\ h.used[t].addr # a
      BY <1>11
    <3> QED BY <1>1, <2>1, <3>1, <3>2 DEF OneOther
  <2> QED BY <2>1 DEF OneOther
<1> QED BY <1>1, <1>7, <1>12 DEF Backing

\* An entry is filled, and an entry is cleared: what the tables have in common.
Filled(table, i, a, new) ==
  /\ TableSound(new) /\ i \in Entries /\ i \notin InUse(table)
  /\ Addrs(new) = Addrs(table) \cup {a} /\ InUse(new) = InUse(table) \cup {i}
  /\ new[i] = a /\ \A j \in InUse(table) : new[j] = table[j] /\ table[j] \in Addrs(table)

Cleared(table, i, new) ==
  /\ TableSound(new) /\ i \in InUse(table)
  /\ Addrs(new) = Addrs(table) \ {table[i]} /\ InUse(new) = InUse(table) \ {i}
  /\ \A j \in InUse(new) : new[j] = table[j] /\ new[j] \in Addrs(new)

\* Filling an empty entry adds its address and no other.
LEMMA EntryFilled ==
  ASSUME NEW table, TableSound(table), NEW i \in Entries, table[i] = NULL,
         NEW a \in Nat, a # NULL, a \notin Addrs(table),
         NEW new, new = [table EXCEPT ![i] = a]
  PROVE  Filled(table, i, a, new)
<1>1. table \in [Entries -> Nat] /\ new \in [Entries -> Nat]
  BY DEF TableSound
<1>2. new[i] = a /\ \A j \in Entries : j # i => new[j] = table[j]
  BY <1>1
<1>3. InUse(new) = InUse(table) \cup {i}
  BY <1>2 DEF InUse
<1>4. i \notin InUse(table) /\ InUse(table) \subseteq Entries
  BY DEF InUse
<1>5. \A j \in InUse(table) : new[j] = table[j] /\ new[j] # a /\ table[j] \in Addrs(table)
  BY <1>2, <1>4 DEF Addrs
<1>6. Addrs(new) = Addrs(table) \cup {a}
  BY ZenonT(40), <1>2, <1>3, <1>5 DEF Addrs
<1>7. \A j, k \in InUse(new) : new[j] = new[k] => j = k
  BY <1>2, <1>3, <1>5 DEF TableSound
<1> QED BY <1>1, <1>2, <1>3, <1>4, <1>5, <1>6, <1>7 DEF TableSound, Filled

\* Clearing an entry in use takes its address away and no other.
LEMMA EntryCleared ==
  ASSUME NEW table, TableSound(table), NEW i \in Entries, table[i] # NULL,
         NEW new, new = [table EXCEPT ![i] = NULL]
  PROVE  Cleared(table, i, new)
<1>1. table \in [Entries -> Nat] /\ new \in [Entries -> Nat]
  BY DEF TableSound, NULL
<1>2. new[i] = NULL /\ \A j \in Entries : j # i => new[j] = table[j]
  BY <1>1
<1>3. InUse(new) = InUse(table) \ {i} /\ i \in InUse(table)
  BY <1>2 DEF InUse
<1>4. \A j \in InUse(new) : new[j] = table[j] /\ new[j] # table[i] /\ new[j] \in Addrs(new)
  BY <1>2, <1>3 DEF TableSound, InUse, Addrs
<1>5. Addrs(new) = Addrs(table) \ {table[i]}
  BY ZenonT(40), <1>3, <1>4 DEF Addrs
<1>6. \A j, k \in InUse(new) : new[j] = new[k] => j = k
  BY <1>3, <1>4 DEF TableSound
<1> QED BY <1>1, <1>3, <1>4, <1>5, <1>6 DEF TableSound, Cleared

-----------------------------------------------------------------------------
(* What a program sees.                                                    *)

\* The open file of each descriptor.
Opened(table, mem) ==
  [d \in {i + FirstFileNumber : i \in {j \in Entries : table[j] # NULL}} |->
     mem[table[d - FirstFileNumber]]]

\* The descriptor of an entry.
Number(i) == i + FirstFileNumber

\* The descriptors in use are those of the entries in use.
ByEntry(open, table, mem) ==
  /\ open = [d \in DOMAIN open |-> open[d]]
  /\ \A d \in DOMAIN open : \E i \in InUse(table) : d = Number(i)
  /\ \A i \in InUse(table) :
       Number(i) \in DOMAIN open /\ open[Number(i)] = mem[table[i]]

\* An entry has one descriptor and a descriptor one entry.
LEMMA NumberIs ==
  /\ \A i \in Entries : Number(i) = i + FirstFileNumber /\ Number(i) - FirstFileNumber = i
  /\ \A i, j \in Entries : Number(i) = Number(j) => i = j
<1>1. FirstFileNumber \in Int /\ \A i \in Entries : i \in Int
  BY TableAssumption DEF Entries
<1>2. ASSUME NEW i \in Entries
      PROVE  Number(i) = i + FirstFileNumber /\ Number(i) - FirstFileNumber = i
  BY <1>1 DEF Number
<1>3. ASSUME NEW i \in Entries, NEW j \in Entries, Number(i) = Number(j)
      PROVE  i = j
  <2>1. i = Number(i) - FirstFileNumber /\ j = Number(j) - FirstFileNumber
    BY <1>2
  <2> QED BY <1>3, <2>1
<1> QED BY <1>2, <1>3

\* Each descriptor has the file of its entry.
LEMMA OpenedIs ==
  ASSUME NEW table, NEW mem, NEW open, open = Opened(table, mem)
  PROVE  ByEntry(open, table, mem)
<1>1. DOMAIN open = {Number(i) : i \in InUse(table)}
  BY DEF Opened, InUse, Number
<1>2. ASSUME NEW i \in InUse(table)
      PROVE  Number(i) \in DOMAIN open /\ open[Number(i)] = mem[table[i]]
  <2>1. (Number(i)) - FirstFileNumber = i
    BY NumberIs DEF InUse
  <2>2. Number(i) \in {Number(j) : j \in InUse(table)}
    OBVIOUS
  <2> QED BY <1>1, <2>1, <2>2 DEF Opened, InUse
<1>3. open = [d \in DOMAIN open |-> open[d]]
  BY DEF Opened
<1>4. \A d \in DOMAIN open : \E i \in InUse(table) : d = Number(i)
  BY <1>1
<1> QED BY <1>2, <1>3, <1>4 DEF ByEntry

\* A file more, and a file fewer.
Added(table, mem, i, f, new, more) ==
  /\ more \in [Addrs(new) -> Files]
  /\ Number(i) \notin DOMAIN Opened(table, mem)
  /\ Opened(new, more) =
       [e \in DOMAIN Opened(table, mem) \cup {Number(i)} |->
          IF e = Number(i) THEN f ELSE Opened(table, mem)[e]]

Removed(table, mem, i, new, less) ==
  /\ less \in [Addrs(new) -> Files]
  /\ Number(i) \in DOMAIN Opened(table, mem)
  /\ Opened(new, less) = Restrict(Opened(table, mem), DOMAIN Opened(table, mem) \ {Number(i)})

\* Filling an entry adds its descriptor and leaves the files of the others.
LEMMA OpenedMore ==
  ASSUME NEW table, NEW i, NEW a, NEW new, Filled(table, i, a, new),
         a \notin Addrs(table), NEW mem \in [Addrs(table) -> Files], NEW f \in Files,
         NEW more, more = [x \in DOMAIN mem \cup {a} |-> IF x = a THEN f ELSE mem[x]]
  PROVE  Added(table, mem, i, f, new, more)
<1>1. /\ i \in Entries /\ i \notin InUse(table) /\ InUse(table) \subseteq Entries
      /\ Addrs(new) = Addrs(table) \cup {a} /\ InUse(new) = InUse(table) \cup {i}
      /\ new[i] = a /\ \A j \in InUse(table) : new[j] = table[j] /\ table[j] \in Addrs(table)
  BY DEF Filled, InUse
<1>2. more \in [Addrs(new) -> Files] /\ more[a] = f /\ \A x \in Addrs(table) : more[x] = mem[x]
  BY <1>1
<1>3. PICK O, N : /\ O = Opened(table, mem) /\ ByEntry(O, table, mem)
                  /\ N = Opened(new, more) /\ ByEntry(N, new, more)
  BY OpenedIs
<1>4. /\ \A e \in DOMAIN O : \E j \in InUse(table) : e = Number(j)
      /\ \A j \in InUse(table) : Number(j) \in DOMAIN O /\ O[Number(j)] = mem[table[j]]
  BY <1>3 DEF ByEntry
<1>5. /\ \A e \in DOMAIN N : \E j \in InUse(new) : e = Number(j)
      /\ \A j \in InUse(new) : Number(j) \in DOMAIN N /\ N[Number(j)] = more[new[j]]
  BY <1>3 DEF ByEntry
<1>6. N = [e \in DOMAIN N |-> N[e]]
  BY <1>3 DEF ByEntry
<1>7. \A j \in InUse(table) : Number(j) # Number(i)
  BY <1>1, NumberIs
<1>8. Number(i) \notin DOMAIN O
  BY <1>4, <1>7
<1>9. ASSUME NEW e \in DOMAIN N
      PROVE  /\ e \in DOMAIN O \cup {Number(i)}
             /\ N[e] = IF e = Number(i) THEN f ELSE O[e]
  <2>1. PICK j \in InUse(new) : e = Number(j)
    BY <1>5
  <2>2. CASE j = i
    BY <1>1, <1>2, <1>5, <2>1, <2>2
  <2>3. CASE j # i
    <3>1. j \in InUse(table)
      BY <1>1, <2>3
    <3>2. N[e] = more[table[j]] /\ O[e] = mem[table[j]] /\ e \in DOMAIN O
      BY <1>1, <1>4, <1>5, <2>1, <3>1
    <3> QED BY <1>1, <1>2, <1>7, <2>1, <3>1, <3>2
  <2> QED BY <2>2, <2>3
<1>10. ASSUME NEW e \in DOMAIN O \cup {Number(i)}
       PROVE  e \in DOMAIN N
  <2>1. CASE e = Number(i)
    BY <1>1, <1>5, <2>1
  <2>2. CASE e \in DOMAIN O
    BY <1>1, <1>4, <1>5, <2>2
  <2> QED BY <2>1, <2>2
<1>11. DOMAIN N = DOMAIN O \cup {Number(i)}
  BY <1>9, <1>10
<1>12. N = [e \in DOMAIN O \cup {Number(i)} |-> IF e = Number(i) THEN f ELSE O[e]]
  BY <1>6, <1>9, <1>11
<1> QED BY <1>2, <1>3, <1>8, <1>12 DEF Added

\* Clearing an entry ends its descriptor and leaves the files of the others.
LEMMA OpenedFewer ==
  ASSUME NEW table, NEW i, NEW new, Cleared(table, i, new),
         NEW mem \in [Addrs(table) -> Files],
         NEW less, less = Restrict(mem, DOMAIN mem \ {table[i]})
  PROVE  Removed(table, mem, i, new, less)
<1>1. /\ i \in InUse(table) /\ InUse(table) \subseteq Entries
      /\ Addrs(new) = Addrs(table) \ {table[i]} /\ InUse(new) = InUse(table) \ {i}
      /\ \A j \in InUse(new) : new[j] = table[j] /\ new[j] \in Addrs(new)
  BY DEF Cleared, InUse
<1>2. less \in [Addrs(new) -> Files] /\ \A x \in Addrs(new) : less[x] = mem[x]
  BY <1>1 DEF Restrict
<1>3. PICK O, N : /\ O = Opened(table, mem) /\ ByEntry(O, table, mem)
                  /\ N = Opened(new, less) /\ ByEntry(N, new, less)
  BY OpenedIs
<1>4. /\ \A e \in DOMAIN O : \E j \in InUse(table) : e = Number(j)
      /\ \A j \in InUse(table) : Number(j) \in DOMAIN O /\ O[Number(j)] = mem[table[j]]
  BY <1>3 DEF ByEntry
<1>5. /\ \A e \in DOMAIN N : \E j \in InUse(new) : e = Number(j)
      /\ \A j \in InUse(new) : Number(j) \in DOMAIN N /\ N[Number(j)] = less[new[j]]
  BY <1>3 DEF ByEntry
<1>6. N = [e \in DOMAIN N |-> N[e]]
  BY <1>3 DEF ByEntry
<1>7. \A j \in InUse(new) : Number(j) # Number(i)
  BY <1>1, NumberIs
<1>8. ASSUME NEW e \in DOMAIN N
      PROVE  e \in DOMAIN O /\ e # Number(i) /\ N[e] = O[e]
  <2>1. PICK j \in InUse(new) : e = Number(j)
    BY <1>5
  <2>2. N[e] = less[new[j]] /\ new[j] = table[j] /\ new[j] \in Addrs(new) /\ j \in InUse(table)
    BY <1>1, <1>5, <2>1
  <2> QED BY <1>2, <1>4, <1>7, <2>1, <2>2
<1>9. ASSUME NEW e \in DOMAIN O, e # Number(i)
      PROVE  e \in DOMAIN N
  <2>1. PICK j \in InUse(table) : e = Number(j)
    BY <1>4
  <2> QED BY <1>1, <1>5, <1>9, <2>1
<1>10. DOMAIN N = DOMAIN O \ {Number(i)}
  BY <1>8, <1>9
<1>11. N = Restrict(O, DOMAIN O \ {Number(i)})
  BY <1>6, <1>8, <1>10 DEF Restrict
<1>12. Number(i) \in DOMAIN O
  BY <1>1, <1>4
<1> QED BY <1>2, <1>3, <1>11, <1>12 DEF Removed

\* A file in place of another.
Changed(table, mem, i, f, new) ==
  /\ new \in [Addrs(table) -> Files]
  /\ Number(i) \in DOMAIN Opened(table, mem)
  /\ Opened(table, mem)[Number(i)] = mem[table[i]]
  /\ Opened(table, new) = [Opened(table, mem) EXCEPT ![Number(i)] = f]

\* Changing the object of one descriptor changes the file of no other.
LEMMA OpenedChanged ==
  ASSUME NEW table, TableSound(table), NEW mem \in [Addrs(table) -> Files],
         NEW i \in InUse(table), NEW f \in Files,
         NEW new, new = [mem EXCEPT ![table[i]] = f]
  PROVE  Changed(table, mem, i, f, new)
<1>1. InUse(table) \subseteq Entries /\ \A j \in InUse(table) : table[j] \in Addrs(table)
  BY DEF InUse, Addrs
<1>2. /\ new \in [Addrs(table) -> Files] /\ new[table[i]] = f /\ mem[table[i]] \in Files
      /\ \A j \in InUse(table) : j # i => new[table[j]] = mem[table[j]]
  BY <1>1 DEF TableSound
<1>3. PICK O, N : /\ O = Opened(table, mem) /\ ByEntry(O, table, mem)
                  /\ N = Opened(table, new) /\ ByEntry(N, table, new)
  BY OpenedIs
<1>4. /\ \A e \in DOMAIN O : \E j \in InUse(table) : e = Number(j)
      /\ \A j \in InUse(table) : Number(j) \in DOMAIN O /\ O[Number(j)] = mem[table[j]]
  BY <1>3 DEF ByEntry
<1>5. /\ \A e \in DOMAIN N : \E j \in InUse(table) : e = Number(j)
      /\ \A j \in InUse(table) : Number(j) \in DOMAIN N /\ N[Number(j)] = new[table[j]]
  BY <1>3 DEF ByEntry
<1>6. N = [e \in DOMAIN N |-> N[e]] /\ O = [e \in DOMAIN O |-> O[e]]
  BY <1>3 DEF ByEntry
<1>7. DOMAIN N = DOMAIN O
  <2>1. \A e \in DOMAIN O : e \in DOMAIN N
    BY <1>4, <1>5
  <2>2. \A e \in DOMAIN N : e \in DOMAIN O
    BY <1>4, <1>5
  <2> QED BY <2>1, <2>2
<1>8. ASSUME NEW e \in DOMAIN O
      PROVE  N[e] = IF e = Number(i) THEN f ELSE O[e]
  <2>1. PICK j \in InUse(table) : e = Number(j)
    BY <1>4
  <2>2. N[e] = new[table[j]] /\ O[e] = mem[table[j]]
    BY <1>4, <1>5, <2>1
  <2>3. e = Number(i) <=> j = i
    BY <1>1, <2>1, NumberIs
  <2> QED BY <1>2, <2>2, <2>3
<1>9. N = [O EXCEPT ![Number(i)] = f]
  BY <1>6, <1>7, <1>8
<1>10. Number(i) \in DOMAIN O /\ O[Number(i)] = mem[table[i]]
  BY <1>4
<1> QED BY <1>2, <1>3, <1>9, <1>10 DEF Changed

-----------------------------------------------------------------------------
(* What FatFs does to a file.                                              *)

\* The same file, read, written or sought.
SameFile(f, g) ==
  /\ g \in Files /\ g.name = f.name /\ g.writable = f.writable /\ g.size >= f.size

\* A file with its position and its size changed.
LEMMA FileMoved ==
  ASSUME NEW f \in Files, NEW p \in 0 .. Room, NEW s \in 0 .. Room, s >= f.size
  PROVE  SameFile(f, [f EXCEPT !.pos = p, !.size = s])
BY DEF Files, SameFile

\* f_read stops at the end of the file.
LEMMA FileIsRead ==
  ASSUME NEW f \in Files, NEW n \in Nat
  PROVE  SameFile(f, [f EXCEPT !.pos = @ + ReadUpTo(f, n)])
<1>1. f.pos \in 0 .. Room /\ f.size \in 0 .. Room /\ Room \in Nat
  BY TableAssumption DEF Files
<1> DEFINE p == f.pos + ReadUpTo(f, n)
<1>2. p \in 0 .. Room
  BY <1>1 DEF ReadUpTo
<1> HIDE DEF p
<1>3. SameFile(f, [f EXCEPT !.pos = p])
  BY <1>1, <1>2 DEF Files, SameFile
<1> QED BY <1>3 DEF p

\* f_write stops at the end of the disk and lets the file grow.
LEMMA FileIsWritten ==
  ASSUME NEW f \in Files, NEW n \in Nat
  PROVE  LET put == WriteUpTo(f, n)
         IN  SameFile(f, [f EXCEPT !.pos = @ + put,
                                   !.size = IF f.pos + put > @ THEN f.pos + put ELSE @])
<1>1. f.pos \in 0 .. Room /\ f.size \in 0 .. Room /\ Room \in Nat
  BY TableAssumption DEF Files
<1> DEFINE p == f.pos + WriteUpTo(f, n)
           s == IF p > f.size THEN p ELSE f.size
<1>2. p \in 0 .. Room
  BY <1>1 DEF WriteUpTo
<1>3. s \in 0 .. Room /\ s >= f.size
  BY <1>1, <1>2
<1> HIDE DEF p, s
<1>4. SameFile(f, [f EXCEPT !.pos = p, !.size = s])
  BY <1>2, <1>3, FileMoved
<1> QED BY <1>4 DEF p, s

\* f_lseek stops at the end of the file or of the disk.
LEMMA FileIsSought ==
  ASSUME NEW f \in Files, NEW ofs \in Nat
  PROVE  SameFile(f, Seeked(f, ofs))
<1>1. f.pos \in 0 .. Room /\ f.size \in 0 .. Room /\ Room \in Nat
  BY TableAssumption DEF Files
<1> DEFINE to == IF ofs <= f.size THEN ofs
                 ELSE IF ~f.writable THEN f.size
                 ELSE IF ofs > Room THEN Room ELSE ofs
           s == IF to > f.size THEN to ELSE f.size
<1>2. to \in 0 .. Room
  BY <1>1
<1>3. s \in 0 .. Room /\ s >= f.size
  BY <1>1, <1>2
<1>4. Seeked(f, ofs) = [f EXCEPT !.pos = to, !.size = s]
  BY DEF Seeked
<1> HIDE DEF to, s
<1> QED BY <1>2, <1>3, <1>4, FileMoved

-----------------------------------------------------------------------------
(* Every call keeps the table sound, and does what a descriptor promises.  *)

Sees ==
  [d \in {i + FirstFileNumber : i \in {j \in Entries : file_handles[j] # NULL}} |-> Fil(d)]

StepSound == FilesInv' /\ [Table!Next]_Sees

\* What a program sees, in terms of the table and the memory.
LEMMA SeesIs ==
  Sees = Opened(file_handles, memory) /\ Sees' = Opened(file_handles', memory')
BY DEF Sees, Opened, Fil, Handle

\* A step of the descriptors, in terms of what a program sees.
LEMMA TableStep ==
  ASSUME \/ \E d \in Table!Numbers \ DOMAIN Sees, f \in Files :
              Sees' = [e \in DOMAIN Sees \cup {d} |-> IF e = d THEN f ELSE Sees[e]]
         \/ \E d \in DOMAIN Sees : Sees' = Restrict(Sees, DOMAIN Sees \ {d})
         \/ \E d \in DOMAIN Sees, f \in Files :
              /\ f.name = Sees[d].name /\ f.writable = Sees[d].writable
              /\ f.size >= Sees[d].size
              /\ Sees' = [Sees EXCEPT ![d] = f]
         \/ Sees' = Sees
  PROVE  [Table!Next]_Sees
<1>1. CASE \E d \in Table!Numbers \ DOMAIN Sees, f \in Files :
             Sees' = [e \in DOMAIN Sees \cup {d} |-> IF e = d THEN f ELSE Sees[e]]
  <2>1. Table!Open
    BY <1>1 DEF Table!Open, Sees
  <2> QED BY <2>1 DEF Table!Next
<1>2. CASE \E d \in DOMAIN Sees : Sees' = Restrict(Sees, DOMAIN Sees \ {d})
  <2>1. Table!Close
    BY <1>2 DEF Table!Close, Sees, Restrict, Table!Restrict
  <2> QED BY <2>1 DEF Table!Next
<1>3. CASE \E d \in DOMAIN Sees, f \in Files :
             /\ f.name = Sees[d].name /\ f.writable = Sees[d].writable
             /\ f.size >= Sees[d].size
             /\ Sees' = [Sees EXCEPT ![d] = f]
  <2>1. Table!Use
    BY <1>3 DEF Table!Use, Sees
  <2> QED BY <2>1 DEF Table!Next
<1> QED BY <1>1, <1>2, <1>3

\* A boot buffer may be there, and no file is.
LEMMA FilesBegin == FilesInit => FilesInv /\ Sees = [d \in {} |-> 0]
<1> SUFFICES ASSUME FilesInit PROVE FilesInv /\ Sees = [d \in {} |-> 0]
  OBVIOUS
<1>1. InUse(file_handles) = {} /\ Addrs(file_handles) = {}
  BY DEF FilesInit, InUse, Addrs
<1>2. TableSound(file_handles)
  BY <1>1 DEF FilesInit, TableSound, NULL
<1>3. memory \in [Addrs(file_handles) -> Files]
  BY <1>1 DEF FilesInit
<1>4. Sees = [d \in {} |-> 0]
  <2>1. {i + FirstFileNumber : i \in InUse(file_handles)} = {}
    BY <1>1
  <2> QED BY <2>1, SeesIs DEF Opened, InUse
<1>5. PICK n \in BootSizes :
        heap = IF n = 0 THEN EmptyHeap ELSE AllocBlock(EmptyHeap, n).heap
  BY DEF FilesInit
<1>6. /\ SoundHeap(EmptyHeap) /\ AllSolid(EmptyHeap.used) /\ EmptyHeap.used = <<>>
      /\ n \in Nat /\ n + Alignment + Limit < WordSize
  BY EmptyIs, TableAssumption
<1>7. Objects({}) = {} /\ \A used : Held({}, used)
  BY DEF Objects, Held
<1>8. CASE heap = EmptyHeap
  <2>1. Addrs(file_handles) = {} /\ heap.used = <<>>
    BY <1>1, <1>6, <1>8
  <2>2. OneOther(heap.used, {})
    BY <2>1 DEF OneOther
  <2>3. Backing({}, heap)
    BY <1>6, <1>7, <1>8, <2>2 DEF Backing
  <2>4. FilesInv
    BY <1>2, <1>3, <2>1, <2>3 DEF FilesInv
  <2> QED BY <1>4, <2>4
<1>9. CASE n # 0
  <2> DEFINE r == AllocBlock(EmptyHeap, n)
  <2>1. heap = r.heap
    BY <1>5, <1>9
  <2>2. r.heap = EmptyHeap \/ Given(EmptyHeap, n, r.heap, r.addr)
    BY <1>6, AllocIs
  <2>3. ASSUME NEW a, Given(EmptyHeap, n, heap, a)
        PROVE  Backing({}, heap)
    <3>1. PICK m \in Nat : m >= n /\ heap.used = <<Block(a, m)>> \o EmptyHeap.used
      BY <2>3 DEF Given
    <3>2. SoundHeap(heap) /\ a \in Nat
      BY <2>3 DEF Given
    <3>3. Block(a, m) \in Blocks /\ Block(a, m).size = m
      BY <3>2, MadeBlockIs
    <3>4. <<>> \in Seq(Blocks) /\ Len(<<>>) = 0
      OBVIOUS
    <3>5. IsPushed(<<>>, Block(a, m), heap.used)
      BY <1>6, <3>1, <3>3, <3>4, UsedIs
    <3>6. Len(heap.used) = 1 /\ heap.used[1] = Block(a, m)
      BY <3>4, <3>5 DEF IsPushed
    <3>7. \A p \in 1 .. Len(heap.used) : p = 1
      BY <3>6
    <3>8. AllSolid(heap.used) /\ OneOther(heap.used, {})
      BY <1>6, <1>9, <3>1, <3>3, <3>6, <3>7 DEF AllSolid, OneOther
    <3> QED BY <1>7, <3>2, <3>8 DEF Backing
  <2> HIDE DEF r
  <2> QED BY <1>1, <1>2, <1>3, <1>4, <1>8, <2>1, <2>2, <2>3 DEF FilesInv
<1> QED BY <1>5, <1>8, <1>9

\* A call that leaves the table, the heap and the files alone.
LEMMA NothingDone ==
  ASSUME FilesInv, UNCHANGED <<file_handles, heap, memory>>
  PROVE  StepSound
<1>1. FilesInv'
  BY DEF FilesInv
<1>2. Sees' = Sees
  BY SeesIs
<1> QED BY <1>1, <1>2, TableStep DEF StepSound

\* A call on one open file.
LEMMA FileUsed ==
  ASSUME FilesInv, NEW d \in Numbers, IsOpen(d), NEW f, SameFile(Fil(d), f), NEW n,
         Succeeds(d, f, n)
  PROVE  StepSound
<1> DEFINE i == Handle(d)
<1>1. /\ i \in InUse(file_handles) /\ TableSound(file_handles)
      /\ memory \in [Addrs(file_handles) -> Files] /\ f \in Files
  BY DEF IsOpen, InUse, FilesInv, SameFile
<1>2. /\ memory' = [memory EXCEPT ![file_handles[i]] = f]
      /\ file_handles' = file_handles /\ heap' = heap
  BY DEF Succeeds
<1> HIDE DEF i
<1>3. /\ memory' \in [Addrs(file_handles) -> Files]
      /\ Number(i) \in DOMAIN Sees /\ Sees[Number(i)] = memory[file_handles[i]]
      /\ Sees' = [Sees EXCEPT ![Number(i)] = f]
  <2>1. Sees = Opened(file_handles, memory) /\ Sees' = Opened(file_handles, memory')
    BY <1>2, SeesIs
  <2>2. Changed(file_handles, memory, i, f, memory')
    BY <1>1, <1>2, OpenedChanged
  <2> QED BY <2>1, <2>2 DEF Changed
<1>4. [Table!Next]_Sees
  <2>1. Fil(d) = Sees[Number(i)]
    BY <1>3 DEF i, Fil
  <2>2. /\ f.name = Sees[Number(i)].name /\ f.writable = Sees[Number(i)].writable
        /\ f.size >= Sees[Number(i)].size
    BY <2>1 DEF SameFile
  <2> QED BY <1>1, <1>3, <2>2, TableStep
<1>5. FilesInv'
  BY <1>2, <1>3 DEF FilesInv
<1> QED BY <1>4, <1>5 DEF StepSound

\* Opening a file fills an entry with an object of its own, or does nothing.
LEMMA OpenSound ==
  ASSUME FilesInv, NEW name \in Names, NEW mode \in Modes, FileOpen(name, mode)
  PROVE  StepSound
<1> DEFINE a == NewFil.addr
           g == NewFil.heap
           i == Min(Empty)
<1>1. CASE UNCHANGED <<file_handles, heap, memory>>
  BY <1>1, NothingDone
<1>2. ASSUME CanAllocate
      PROVE  StepSound
  <2>1. /\ TableSound(file_handles) /\ memory \in [Addrs(file_handles) -> Files]
        /\ Backing(Addrs(file_handles), heap) /\ SoundHeap(heap) /\ AllSolid(heap.used)
    BY DEF FilesInv, Backing
  <2>2. i \in Entries /\ file_handles[i] = NULL
    <3>1. Empty \in SUBSET Nat /\ Empty # {}
      BY <1>2 DEF Empty, Entries, CanAllocate
    <3> QED BY <3>1, LeastNat DEF Empty
  <2>3. a # NULL /\ Given(heap, FilSize, g, a)
    <3>1. FilSize \in Nat /\ FilSize + Alignment + Limit < WordSize
      BY TableAssumption
    <3> QED BY <1>2, <2>1, <3>1, AllocIs DEF CanAllocate, NewFil
  <2> HIDE DEF a, g, i
  <2>4. /\ a \in Nat /\ a \notin Addrs(file_handles)
        /\ Backing(Addrs(file_handles) \cup {a}, g)
    BY <2>1, <2>3, ObjectGiven
  <2>5. ASSUME NEW size \in 0 .. Room, NEW f, f = OpenedAs(name, size, mode > 1),
               Store(a, f), heap' = g, file_handles' = [file_handles EXCEPT ![i] = a]
        PROVE  StepSound
    <3>1. f \in Files
      BY <2>5, TableAssumption DEF OpenedAs, Files
    <3>2. Filled(file_handles, i, a, file_handles')
      BY <2>1, <2>2, <2>3, <2>4, <2>5, EntryFilled
    <3>3. memory' = [x \in DOMAIN memory \cup {a} |-> IF x = a THEN f ELSE memory[x]]
      BY <2>5 DEF Store
    <3>4. /\ memory' \in [Addrs(file_handles') -> Files]
          /\ Number(i) \notin DOMAIN Opened(file_handles, memory)
          /\ Opened(file_handles', memory') =
               [e \in DOMAIN Opened(file_handles, memory) \cup {Number(i)} |->
                  IF e = Number(i) THEN f ELSE Opened(file_handles, memory)[e]]
      <4>1. Added(file_handles, memory, i, f, file_handles', memory')
        BY <2>1, <2>4, <3>1, <3>2, <3>3, OpenedMore
      <4> QED BY <4>1 DEF Added
    <3>5. Number(i) \in Table!Numbers
      BY <2>2, TableAssumption DEF Table!Numbers, Number, Entries
    <3>6. [Table!Next]_Sees
      BY <3>1, <3>4, <3>5, SeesIs, TableStep
    <3>7. FilesInv'
      BY <2>4, <2>5, <3>2, <3>4 DEF FilesInv, Filled
    <3> QED BY <3>6, <3>7 DEF StepSound
  <2>6. ASSUME heap' = FreeBlock(g, a), UNCHANGED <<file_handles, memory>>
        PROVE  StepSound
    <3>1. Backing((Addrs(file_handles) \cup {a}) \ {a}, heap')
      BY <2>4, <2>6, ObjectFreed
    <3>2. (Addrs(file_handles) \cup {a}) \ {a} = Addrs(file_handles)
      BY <2>4
    <3>3. Backing(Addrs(file_handles'), heap')
      BY <2>6, <3>1, <3>2
    <3>4. FilesInv'
      BY <2>1, <2>6, <3>3 DEF FilesInv
    <3>5. Sees' = Sees
      BY <2>6, SeesIs
    <3> QED BY <3>4, <3>5, TableStep DEF StepSound
  <2> QED BY <1>2, <2>5, <2>6 DEF FileOpen, a, g, i
<1> QED BY <1>1, <1>2 DEF FileOpen

\* Closing a file clears its entry and frees its object.
LEMMA CloseSound ==
  ASSUME FilesInv, NEW d \in Numbers, FileClose(d)
  PROVE  StepSound
<1> DEFINE i == Handle(d)
<1>1. /\ TableSound(file_handles) /\ memory \in [Addrs(file_handles) -> Files]
      /\ Backing(Addrs(file_handles), heap)
  BY DEF FilesInv
<1>2. d \in Int /\ FirstFileNumber \in Int /\ MaxOpenFiles \in Int
  BY TableAssumption DEF Numbers
<1>3. CASE d < FirstFileNumber \/ i >= MaxOpenFiles
  <2>1. i \notin Entries
    BY <1>2, <1>3 DEF Entries, Handle
  <2>2. UNCHANGED <<file_handles, heap, memory>>
    BY <1>2, <1>3, <2>1 DEF FileClose, IsOpen
  <2> QED BY <2>2, NothingDone
<1>4. CASE i \in Entries /\ file_handles[i] = NULL
  <2>1. ~(d < FirstFileNumber)
    BY <1>2, <1>4 DEF Entries, Handle
  <2>2. UNCHANGED <<file_handles, heap, memory>>
    BY <1>4, <2>1 DEF FileClose, IsOpen, FreeFileHandle
  <2> QED BY <2>2, NothingDone
<1>5. CASE i \in Entries /\ file_handles[i] # NULL
  <2>1. ~(d < FirstFileNumber) /\ ~(i >= MaxOpenFiles)
    BY <1>2, <1>5 DEF Entries, Handle
  <2>2. /\ heap' = FreeBlock(heap, file_handles[i])
        /\ file_handles' = [file_handles EXCEPT ![i] = NULL]
        /\ memory' = Restrict(memory, DOMAIN memory \ {file_handles[i]})
    BY <1>5, <2>1 DEF FileClose, IsOpen, FreeFileHandle
  <2> HIDE DEF i
  <2>3. Cleared(file_handles, i, file_handles')
    BY <1>1, <1>5, <2>2, EntryCleared
  <2>4. file_handles[i] \in Addrs(file_handles)
    BY <1>5 DEF Addrs, InUse
  <2>5. Backing(Addrs(file_handles) \ {file_handles[i]}, heap')
    BY <1>1, <2>2, <2>4, ObjectFreed
  <2>6. /\ memory' \in [Addrs(file_handles') -> Files]
        /\ Number(i) \in DOMAIN Opened(file_handles, memory)
        /\ Opened(file_handles', memory') =
             Restrict(Opened(file_handles, memory),
                      DOMAIN Opened(file_handles, memory) \ {Number(i)})
    <3>1. Removed(file_handles, memory, i, file_handles', memory')
      BY <1>1, <2>2, <2>3, OpenedFewer
    <3> QED BY <3>1 DEF Removed
  <2>7. [Table!Next]_Sees
    BY <2>6, SeesIs, TableStep
  <2>8. FilesInv'
    BY <2>3, <2>5, <2>6 DEF FilesInv, Cleared
  <2> QED BY <2>7, <2>8 DEF StepSound
<1> QED BY <1>2, <1>3, <1>4, <1>5 DEF FileClose

\* The file of an open descriptor.
LEMMA FilIs ==
  ASSUME FilesInv, NEW d, IsOpen(d)
  PROVE  Fil(d) \in Files
BY DEF FilesInv, IsOpen, Fil, Addrs, InUse

\* Reading.
LEMMA ReadSound ==
  ASSUME FilesInv, NEW d \in Numbers, NEW n \in Lengths, FileRead(d, n)
  PROVE  StepSound
<1>1. CASE UNCHANGED <<file_handles, heap, memory>>
  BY <1>1, NothingDone
<1>2. CASE IsOpen(d) /\ Succeeds(d, [Fil(d) EXCEPT !.pos = @ + ReadUpTo(Fil(d), n)],
                                 ReadUpTo(Fil(d), n))
  <2>1. SameFile(Fil(d), [Fil(d) EXCEPT !.pos = @ + ReadUpTo(Fil(d), n)])
    BY <1>2, FilIs, FileIsRead, TableAssumption
  <2> QED BY <1>2, <2>1, FileUsed
<1> QED BY <1>1, <1>2 DEF FileRead, NoFile, Fails

\* Writing.
LEMMA WriteSound ==
  ASSUME FilesInv, NEW d \in Numbers, NEW n \in Lengths, FileWrite(d, n)
  PROVE  StepSound
<1> DEFINE put == WriteUpTo(Fil(d), n)
           f == [Fil(d) EXCEPT !.pos = @ + put,
                               !.size = IF Fil(d).pos + put > @ THEN Fil(d).pos + put ELSE @]
<1>1. CASE UNCHANGED <<file_handles, heap, memory>>
  BY <1>1, NothingDone
<1>2. CASE IsOpen(d) /\ Succeeds(d, f, put)
  <2>1. SameFile(Fil(d), f)
    BY <1>2, FilIs, FileIsWritten, TableAssumption
  <2> HIDE DEF f
  <2> QED BY <1>2, <2>1, FileUsed
<1> QED BY <1>1, <1>2 DEF FileWrite, NoFile, Fails

\* Seeking, from anywhere and by any distance.
LEMMA SeekSound ==
  ASSUME FilesInv, NEW d \in Numbers, NEW o \in Offsets, NEW w \in {"set", "cur", "end"},
         FileSeek(d, o, w)
  PROVE  StepSound
<1> DEFINE from == CASE w = "cur" -> Fil(d).pos [] w = "end" -> Fil(d).size [] OTHER -> 0
           f == Seeked(Fil(d), (from + o) % WordSize)
<1>1. CASE UNCHANGED <<file_handles, heap, memory>>
  BY <1>1, NothingDone
<1>2. CASE IsOpen(d) /\ Succeeds(d, f, f.pos)
  <2>1. Fil(d) \in Files
    BY <1>2, FilIs
  <2>2. from \in Int /\ o \in Int /\ WordSize \in Nat /\ WordSize > 0
    BY <2>1, TableAssumption, LayoutAssumption DEF Files
  <2>3. (from + o) % WordSize \in Nat
    <3> HIDE DEF from
    <3> QED BY <2>2
  <2>4. SameFile(Fil(d), f)
    <3> HIDE DEF from
    <3> QED BY <2>1, <2>3, FileIsSought
  <2> HIDE DEF f
  <2> QED BY <1>2, <2>4, FileUsed
<1> QED BY <1>1, <1>2 DEF FileSeek, NoFile, Fails

\* Every call keeps the invariant and is a step of the descriptors.
LEMMA FilesStep == FilesInv /\ [FilesNext]_fileVars => StepSound
<1> SUFFICES ASSUME FilesInv, [FilesNext]_fileVars PROVE StepSound
  OBVIOUS
<1>1. CASE UNCHANGED fileVars
  BY <1>1, NothingDone DEF fileVars
<1>2. CASE \E name \in Names, mode \in Modes : FileOpen(name, mode)
  BY <1>2, OpenSound
<1>3. CASE \E d \in Numbers : FileClose(d)
  BY <1>3, CloseSound
<1>4. CASE \E d \in Numbers, n \in Lengths : FileRead(d, n) \/ FileWrite(d, n)
  BY <1>4, ReadSound, WriteSound
<1>5. CASE \E d \in Numbers, o \in Offsets, w \in {"set", "cur", "end"} : FileSeek(d, o, w)
  BY <1>5, SeekSound
<1> QED BY <1>1, <1>2, <1>3, <1>4, <1>5 DEF FilesNext

\* The table, the heap and the files of memory agree after any calls.
THEOREM FilesSound == FilesSpec => []FilesInv
<1>1. FilesInv /\ [FilesNext]_fileVars => FilesInv'
  BY FilesStep DEF StepSound
<1> QED BY <1>1, FilesBegin, PTL DEF FilesSpec

\* A program sees a set of independent descriptors: opening adds one, closing
\* takes it away, and a call on one leaves the files of all the others alone.
THEOREM FilesImplement == FilesSpec => ActsAsTable
<1>1. FilesInit => Table!Init
  BY FilesBegin DEF Table!Init, Sees
<1>2. FilesInv /\ [FilesNext]_fileVars => [Table!Next]_Sees
  BY FilesStep DEF StepSound
<1> QED BY <1>1, <1>2, FilesSound, PTL DEF FilesSpec, ActsAsTable, Table!Spec, Sees

-----------------------------------------------------------------------------
(* The blocks of the table, counted.                                       *)

\* A one-to-one correspondence of finite sets.
LEMMA SameNumber ==
  ASSUME NEW S, IsFiniteSet(S), NEW T, NEW f \in [S -> T],
         \A x, y \in S : f[x] = f[y] => x = y, \A t \in T : \E x \in S : f[x] = t
  PROVE  IsFiniteSet(T) /\ Cardinality(T) = Cardinality(S) /\ Cardinality(S) \in Nat
<1>1. f \in Bijection(S, T)
  BY DEF Bijection, Injection, Surjection, IsInjective
<1>2. ExistsBijection(S, T)
  BY <1>1 DEF ExistsBijection
<1> QED BY <1>2, FS_Bijection, FS_CardinalityType

\* As many objects as entries in use, and one block in use besides at most.
LEMMA CountedBacking ==
  ASSUME FilesInv,
         NEW used, used = heap.used, NEW held, held = InUse(file_handles),
         NEW backing, backing = {b \in ToSet(used) :
                b.size >= FilSize /\ \E i \in held : b.addr = file_handles[i]}
  PROVE  Cardinality(backing) = Cardinality(held) /\ Len(used) - Cardinality(backing) <= 1
<1> DEFINE Of == {p \in 1 .. Len(used) : used[p].addr \in Addrs(file_handles)}
<1>1. /\ SoundHeap(heap) /\ AllSolid(used) /\ Addrs(file_handles) \in SUBSET Nat
      /\ Held(Objects(Addrs(file_handles)), used) /\ OneOther(used, Addrs(file_handles))
      /\ \A i, j \in held : file_handles[i] = file_handles[j] => i = j
  BY DEF FilesInv, Backing, TableSound
<1>2. Len(used) \in Nat /\ used \in Seq(Blocks) /\ ToSet(used) = {used[p] : p \in 1 .. Len(used)}
  BY <1>1, HeapParts, LenProperties DEF ToSet
<1>3. \A a \in Addrs(file_handles) :
        \E p \in 1 .. Len(used) : used[p].addr = a /\ used[p].size >= FilSize
  BY <1>1, ObjectsHeld
<1>4. \A p, q \in 1 .. Len(used) : used[p].addr = used[q].addr => p = q
  BY <1>1, OwnAddress DEF AllSolid
<1>5. \A i \in held : file_handles[i] \in Addrs(file_handles)
  BY DEF Addrs
<1>6. \A a \in Addrs(file_handles) : \E i \in held : file_handles[i] = a
  BY DEF Addrs
<1>7. \A p \in Of : used[p] \in backing
  <2> SUFFICES ASSUME NEW p \in Of PROVE used[p] \in backing
    OBVIOUS
  <2>1. PICK q \in 1 .. Len(used) : used[q].addr = used[p].addr /\ used[q].size >= FilSize
    BY <1>3
  <2>2. q = p
    BY <1>4, <2>1
  <2>3. \E i \in held : used[p].addr = file_handles[i]
    BY <1>6
  <2> QED BY <1>2, <2>1, <2>2, <2>3
<1>8. \A b \in backing : \E p \in Of : used[p] = b
  BY <1>2, <1>5
<1>9. IsFiniteSet(1 .. Len(used)) /\ Cardinality(1 .. Len(used)) = Len(used)
  BY <1>2, FS_Interval
<1>10. IsFiniteSet(Of)
  BY <1>9, FS_Subset
<1> HIDE DEF Of
<1>11. IsFiniteSet(backing) /\ Cardinality(backing) = Cardinality(Of) /\ Cardinality(Of) \in Nat
  <2> DEFINE f == [p \in Of |-> used[p]]
  <2>1. f \in [Of -> backing]
    BY <1>7
  <2>2. \A x, y \in Of : f[x] = f[y] => x = y
    BY <1>4 DEF Of
  <2>3. \A t \in backing : \E x \in Of : f[x] = t
    BY <1>8
  <2> HIDE DEF f
  <2> QED BY <1>10, <2>1, <2>2, <2>3, SameNumber
<1>12. Cardinality(backing) = Cardinality(held)
  <2>1. IsFiniteSet(held)
    <3>1. IsFiniteSet(Entries)
      BY TableAssumption, FS_Interval DEF Entries
    <3> QED BY <3>1, FS_Subset DEF InUse
  <2> DEFINE f == [i \in held |-> CHOOSE b \in backing : b.addr = file_handles[i]]
  <2>2. \A i \in held : f[i] \in backing /\ f[i].addr = file_handles[i]
    <3> SUFFICES ASSUME NEW i \in held
                 PROVE  \E b \in backing : b.addr = file_handles[i]
      OBVIOUS
    <3>1. PICK p \in 1 .. Len(used) : used[p].addr = file_handles[i]
      BY <1>3, <1>5
    <3>2. p \in Of
      BY <1>5, <3>1 DEF Of
    <3> QED BY <1>7, <3>1, <3>2
  <2>3. f \in [held -> backing]
    BY <2>2
  <2> HIDE DEF f
  <2>4. \A x, y \in held : f[x] = f[y] => x = y
    <3> SUFFICES ASSUME NEW x \in held, NEW y \in held, f[x] = f[y] PROVE x = y
      OBVIOUS
    <3>1. file_handles[x] = file_handles[y]
      BY <2>2
    <3> QED BY <1>1, <3>1
  <2>5. ASSUME NEW t \in backing
        PROVE  \E x \in held : f[x] = t
    <3>1. PICK x \in held : t.addr = file_handles[x]
      OBVIOUS
    <3>2. PICK p \in Of : used[p] = t
      BY <1>8
    <3>3. PICK q \in Of : used[q] = f[x]
      BY <1>8, <2>2
    <3>4. p = q
      BY <1>4, <2>2, <3>1, <3>2, <3>3 DEF Of
    <3> QED BY <3>2, <3>3, <3>4
  <2> QED BY <2>1, <2>3, <2>4, <2>5, SameNumber
<1>13. Len(used) <= Cardinality(Of) + 1
  <2>1. CASE Of = 1 .. Len(used)
    <3>1. Cardinality(Of) = Len(used)
      BY <1>9, <2>1
    <3> QED BY <1>2, <3>1
  <2>2. CASE Of # 1 .. Len(used)
    <3>1. PICK x \in 1 .. Len(used) : x \notin Of
      BY <2>2 DEF Of
    <3>2. \A y \in 1 .. Len(used) : y \in Of \/ y = x
      BY <1>1, <1>4, <3>1 DEF Of, OneOther
    <3>3. 1 .. Len(used) = Of \cup {x}
      BY <3>1, <3>2 DEF Of
    <3>4. Cardinality(Of \cup {x}) = Cardinality(Of) + 1
      BY <1>10, <3>1, FS_AddElement
    <3>5. Cardinality(1 .. Len(used)) = Cardinality(Of) + 1
      BY <3>3, <3>4
    <3>6. Len(used) = Cardinality(Of) + 1
      BY <1>9, <3>5
    <3> QED BY <1>2, <1>11, <3>6
  <2> QED BY <2>1, <2>2
<1> QED BY <1>2, <1>11, <1>12, <1>13

\* Every object in the table is a block of its own, long enough, and every block
\* in use but the boot buffer is in the table: nothing is leaked, whatever fails.
THEOREM ObjectsBacked == FilesSpec => []HandlesBacked
<1>1. ASSUME FilesInv
      PROVE  HandlesBacked
  <2> DEFINE held == {i \in Entries : file_handles[i] # NULL}
             backing == {b \in ToSet(heap.used) :
                b.size >= FilSize /\ \E i \in held : b.addr = file_handles[i]}
  <2>1. held = InUse(file_handles)
    BY DEF InUse
  <2>2. \A i, j \in held : file_handles[i] = file_handles[j] => i = j
    BY <1>1, <2>1 DEF FilesInv, TableSound
  <2>3. IsInjective([i \in held |-> file_handles[i]])
    BY <2>2 DEF IsInjective
  <2>4. Cardinality(backing) = Cardinality(held) /\ Len(heap.used) - Cardinality(backing) <= 1
    BY <1>1, <2>1, CountedBacking
  <2> QED BY <2>3, <2>4 DEF HandlesBacked
<1> QED BY <1>1, FilesSound, PTL

=============================================================================
