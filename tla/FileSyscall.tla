---------------------------- MODULE FileSyscall -----------------------------
(***************************************************************************)
(* The file system calls, system/syscall_file.c: a table of pointers to    *)
(* file objects allocated from the OS heap (HeapBlocks).  The calls come   *)
(* from the running program through trap 15, one at a time.                *)
(*                                                                         *)
(* FatFs is external: an open file is a name, a position, a size and       *)
(* whether it was opened for writing; f_open, f_read, f_write and f_lseek  *)
(* fail or succeed as the disk decides.  A position that passes the end of *)
(* the file extends it, up to the room on the disk.                        *)
(***************************************************************************)
EXTENDS HeapBlocks, Functions

CONSTANTS
  MaxOpenFiles,    \* MAX_OPEN_FILES
  FirstFileNumber, \* FIRST_FILE_NUMBER
  FilSize,         \* sizeof(FIL)
  BootSizes,       \* sizes of the buffer the display driver allocates at boot
  Names,           \* names of files
  Room,            \* bound: size a file can grow to
  Lengths,         \* bound: lengths to read or write
  Offsets          \* bound: distances to seek, as int

ASSUME TableAssumption ==
  /\ MaxOpenFiles \in Nat \ {0} /\ FirstFileNumber \in Nat
  /\ FilSize \in Nat \ {0} /\ FilSize + Alignment + Limit < WordSize
  /\ \A n \in BootSizes : n \in Nat /\ n + Alignment + Limit < WordSize
  /\ Room \in Nat /\ Room < WordSize
  /\ Lengths \subseteq Nat /\ Offsets \subseteq Int

VARIABLES
  file_handles, \* address of a FIL or NULL, for each entry
  memory,       \* the valid FIL at each address where there is one
  sys           \* [d0, d1] of the caller after the last call

fileVars == <<file_handles, heap, memory, sys>>

Entries == 0 .. MaxOpenFiles - 1
Handle(h) == h - FirstFileNumber

Files == [name : Names, pos : 0 .. Room, size : 0 .. Room, writable : BOOLEAN]

FR_OK == 0
FR_ERROR == 1                   \* any error of FatFs
FR_NO_FILE == 4
FR_TOO_MANY_OPEN_FILES == 18

-----------------------------------------------------------------------------
(* FatFs (external).                                                       *)

OpenedAs(name, size, writable) ==
  [name |-> name, pos |-> 0, size |-> size, writable |-> writable]

\* f_lseek: past the end, the position is cut to the size or the size grows.
Seeked(f, ofs) ==
  LET to == IF ofs <= f.size THEN ofs
            ELSE IF ~f.writable THEN f.size
            ELSE IF ofs > Room THEN Room ELSE ofs
  IN  [f EXCEPT !.pos = to, !.size = IF to > @ THEN to ELSE @]

\* f_read and f_write move at most to the end, of the file or of the disk.
ReadUpTo(f, n) == IF f.pos + n > f.size THEN f.size - f.pos ELSE n
WriteUpTo(f, n) == IF f.pos + n > Room THEN Room - f.pos ELSE n

-----------------------------------------------------------------------------
(* The table.                                                              *)

\* A defective variant: the first entry, whether or not it is empty.
Empty_Any == Entries

\* allocate_file_handle: the first empty entry, when malloc has memory for it.
Empty == {i \in Entries : file_handles[i] = NULL}
NewFil == AllocBlock(heap, FilSize)
CanAllocate == Empty # {} /\ NewFil.addr # NULL

\* A defective variant: the object is not freed.
FreeFileHandle_NoFree(i) ==
  /\ file_handles' = [file_handles EXCEPT ![i] = NULL]
  /\ UNCHANGED heap

\* free_file_handle
FreeFileHandle(i) ==
  IF file_handles[i] # NULL
    THEN /\ heap' = FreeBlock(heap, file_handles[i])
         /\ file_handles' = [file_handles EXCEPT ![i] = NULL]
    ELSE UNCHANGED <<heap, file_handles>>

\* A display buffer may have been allocated before the first call.
FilesInit ==
  /\ file_handles = [i \in Entries |-> NULL]
  /\ \E n \in BootSizes :
       heap = IF n = 0 THEN EmptyHeap ELSE AllocBlock(EmptyHeap, n).heap
  /\ memory = [a \in {} |-> 0]
  /\ sys = [d0 |-> 0, d1 |-> 0]

\* A FIL is written at address a.
Store(a, f) == memory' = [x \in DOMAIN memory \cup {a} |-> IF x = a THEN f ELSE memory[x]]

-----------------------------------------------------------------------------

\* bios_file_open with mode in d0: on success d0 is the descriptor.  When f_open
\* fails, d0 and d1 are left as the caller set them.
FileOpen(name, mode) ==
  IF ~CanAllocate
    THEN /\ sys' = [d0 |-> mode, d1 |-> FR_TOO_MANY_OPEN_FILES]
         /\ UNCHANGED <<file_handles, heap, memory>>
    ELSE \/ /\ \E size \in 0 .. Room : Store(NewFil.addr, OpenedAs(name, size, mode > 1))
            /\ heap' = NewFil.heap
            /\ file_handles' = [file_handles EXCEPT ![Min(Empty)] = NewFil.addr]
            /\ sys' = [d0 |-> Min(Empty) + FirstFileNumber, d1 |-> FR_OK]
         \/ \* f_open fails: the object is allocated and freed again
            /\ heap' = FreeBlock(NewFil.heap, NewFil.addr)
            /\ sys' = [d0 |-> mode, d1 |-> 0]
            /\ UNCHANGED <<file_handles, memory>>

\* The file of descriptor d, for the calls that use it.
Fil(d) == memory[file_handles[Handle(d)]]
IsOpen(d) == Handle(d) \in Entries /\ file_handles[Handle(d)] # NULL

\* bios_file_close.  The result of f_close is not looked at.
FileClose(d) ==
  /\ memory' = IF IsOpen(d) THEN Restrict(memory, DOMAIN memory \ {file_handles[Handle(d)]})
               ELSE memory
  /\ \/ /\ d < FirstFileNumber
        /\ UNCHANGED <<file_handles, heap, sys>>
     \/ /\ Handle(d) >= MaxOpenFiles
        /\ sys' = [d0 |-> 0, d1 |-> FR_NO_FILE]
        /\ UNCHANGED <<file_handles, heap>>
     \/ /\ Handle(d) \in Entries
        /\ FreeFileHandle(Handle(d))
        /\ sys' = [d0 |-> FR_OK, d1 |-> FR_OK]

\* A call on a descriptor without a file.
NoFile ==
  /\ sys' = [d0 |-> 0, d1 |-> FR_NO_FILE]
  /\ UNCHANGED <<file_handles, heap, memory>>

\* A call on a file that FatFs fails.
Fails ==
  /\ sys' = [d0 |-> 0, d1 |-> FR_ERROR]
  /\ UNCHANGED <<file_handles, heap, memory>>

\* A call on a file that leaves it as f and returns n.
Succeeds(d, f, n) ==
  /\ memory' = [memory EXCEPT ![file_handles[Handle(d)]] = f]
  /\ sys' = [d0 |-> n, d1 |-> FR_OK]
  /\ UNCHANGED <<file_handles, heap>>

\* bios_file_read; reading the terminal returns no bytes.
FileRead(d, n) ==
  IF d < FirstFileNumber
    THEN sys' = [d0 |-> 0, d1 |-> FR_OK] /\ UNCHANGED <<file_handles, heap, memory>>
  ELSE IF ~IsOpen(d) THEN NoFile
  ELSE LET got == ReadUpTo(Fil(d), n)
       IN  Fails \/ Succeeds(d, [Fil(d) EXCEPT !.pos = @ + got], got)

\* bios_file_write; a descriptor below the first file writes to the terminal.
FileWrite(d, n) ==
  IF d < FirstFileNumber
    THEN sys' = [d0 |-> n, d1 |-> n] /\ UNCHANGED <<file_handles, heap, memory>>
  ELSE IF ~IsOpen(d) THEN NoFile
  ELSE LET put == WriteUpTo(Fil(d), n)
       IN  \/ Fails
           \/ /\ Fil(d).writable
              /\ Succeeds(d, [Fil(d) EXCEPT !.pos = @ + put,
                                            !.size = IF Fil(d).pos + put > @
                                                     THEN Fil(d).pos + put ELSE @], put)

\* bios_file_seek: the distance is added to an unsigned position.
FileSeek(d, seek, whence) ==
  IF d < FirstFileNumber
    THEN sys' = [d0 |-> 0, d1 |-> FR_OK] /\ UNCHANGED <<file_handles, heap, memory>>
  ELSE IF ~IsOpen(d) THEN NoFile
  ELSE LET from == CASE whence = "cur" -> Fil(d).pos [] whence = "end" -> Fil(d).size
                     [] OTHER -> 0
           f == Seeked(Fil(d), (from + seek) % WordSize)
       IN  Fails \/ Succeeds(d, f, f.pos)

\* Descriptors a program may pass: its own, stale ones and the first too high.
Numbers == 0 .. FirstFileNumber + MaxOpenFiles

\* FA_READ, and FA_READ | FA_WRITE
Modes == {1, 3}

FilesNext ==
  \/ \E name \in Names, mode \in Modes : FileOpen(name, mode)
  \/ \E d \in Numbers : FileClose(d)
  \/ \E d \in Numbers, n \in Lengths : FileRead(d, n) \/ FileWrite(d, n)
  \/ \E d \in Numbers, o \in Offsets, w \in {"set", "cur", "end"} : FileSeek(d, o, w)

FilesSpec == FilesInit /\ [][FilesNext]_fileVars

-----------------------------------------------------------------------------
(* Properties.                                                             *)

\* Every object in the table is a block of its own, as long as a FIL, and every
\* block in use but the boot buffer belongs to an entry: an object that could
\* not be opened is not leaked, one that was closed is not referred to.
HandlesBacked ==
  LET held == {i \in Entries : file_handles[i] # NULL}
      backing == {b \in ToSet(heap.used) :
                    b.size >= FilSize /\ \E i \in held : b.addr = file_handles[i]}
  IN  /\ IsInjective([i \in held |-> file_handles[i]])
      /\ Cardinality(backing) = Cardinality(held)
      /\ Len(heap.used) - Cardinality(backing) <= 1

\* The table behaves as a set of independent descriptors.
Table == INSTANCE Descriptors
             WITH MaxFiles <- MaxOpenFiles,
                  open <- [d \in {i + FirstFileNumber : i \in
                                    {j \in Entries : file_handles[j] # NULL}} |-> Fil(d)]
ActsAsTable == Table!Spec
=============================================================================
