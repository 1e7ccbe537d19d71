------------------------------- MODULE SRecord -------------------------------
(***************************************************************************)
(* The srec command: do_srecord of shell/commands.c receives a file into a *)
(* buffer, and read_srecord of libraries/srecord.c stores what its records *)
(* say, line by line.  The loader is not told how long the file is: what   *)
(* an earlier download left behind it follows in the buffer.               *)
(*                                                                         *)
(* A line is the type, count, address and data of its record, an empty     *)
(* line, or text that is no record.                                        *)
(***************************************************************************)
EXTENDS Integers, SequencesExt

CONSTANTS
  MaxLines,  \* bound on the lines received
  Memory     \* addresses that records store to

ASSUME SrecordAssumption == MaxLines \in Nat /\ Memory \subseteq Nat

EmptyLine == [type |-> -1]
NotARecord == [type |-> -2]
Nothing == 0    CHECKSUM == 255

\* The count covers the address, the data and the checksum.
AddressBytes(type) ==
  CASE type \in {0, 1, 5, 9} -> 2 [] type \in {2, 8} -> 3 [] type \in {3, 7} -> 4
Record(type, address, data) ==
  [type |-> type, count |-> AddressBytes(type) + Len(data) + 1, address |-> address, data |-> data]

\* A comment, data of all three widths, of one or two bytes, a count of
\* records, both kinds of end and the end that is not taken for one.
Lines ==
  {EmptyLine, NotARecord, Record(0, 0, <<7>>), Record(1, 0, <<5>>), Record(2, 1, <<6, 5>>),
   Record(3, 1, <<>>), Record(7, 0, <<>>), Record(8, 0, <<>>), Record(9, 0, <<>>)}
Files(max) == UNION {[1 .. n -> Lines] : n \in 1 .. max}

VARIABLES
  buffer,          \* the lines from 0x300000 on
  lineno,          \* the next of them
  memory,          \* what is stored at each address
  data_len, index, \* the loop over the bytes of a record
  loader,          \* "idle", "line", "data", or "failed"
  file,            \* history: the file of this download
  before,          \* history: the memory before it
  received         \* history: lines received

srecVars == <<buffer, lineno, memory, data_len, index, loader, file, before, received>>
history == <<file, before, received>>

SrecInit ==
  /\ buffer = <<>> /\ lineno = 1
  /\ memory = [a \in Memory |-> Nothing]
  /\ data_len = 0 /\ index = 0
  /\ loader = "idle"
  /\ file = <<>> /\ before = memory /\ received = 0

Loading == loader \in {"line", "data"}

\* What may be left of the old buffer behind a new file: its last lines, and
\* the end of the line in which the new file ends.
Leftovers == {SubSeq(buffer, n, Len(buffer)) : n \in 1 .. Len(buffer) + 1}
OrCut(rest) == {rest} \cup (IF rest = buffer THEN {} ELSE {<<NotARecord>> \o rest})

\* do_srecord receives a file, until the sender has been silent for a while.
Download(f) ==
  /\ ~Loading
  /\ \E rest \in UNION {OrCut(r) : r \in Leftovers} : buffer' = f \o rest
  /\ lineno' = 1 /\ loader' = "line"
  /\ file' = f /\ before' = memory /\ received' = received + Len(f)
  /\ UNCHANGED <<memory, data_len, index>>

\* Behind everything ever received the buffer reads as empty lines here.
Current == IF lineno <= Len(buffer) THEN buffer[lineno] ELSE EmptyLine
NextLine == lineno' = IF lineno <= Len(buffer) THEN lineno + 1 ELSE lineno

\* continue goes to the test of srec_end, which an empty line does not set,
\* and past the test of the length of the buffer.
SkipEmpty ==
  /\ loader = "line" /\ Current = EmptyLine
  /\ NextLine
  /\ UNCHANGED <<buffer, memory, data_len, index, loader, history>>

Reject ==
  /\ loader = "line" /\ Current = NotARecord
  /\ loader' = "failed"
  /\ UNCHANGED <<buffer, lineno, memory, data_len, index, history>>

\* A defective variant: files end with S9 only.
Ends_OnlyS9(type) == type = 9
Ends(type) == type \in {8, 9}

\* The head of a record.  The checksum is reported and changes nothing.
ReadRecord ==
  /\ loader = "line" /\ Current \notin {EmptyLine, NotARecord}
  /\ data_len' = (Current.count - AddressBytes(Current.type)) % 256
  /\ index' = 0
  /\ IF Current.type \in 0 .. 3
       THEN loader' = "data" /\ UNCHANGED lineno
       ELSE loader' = (IF Ends(Current.type) THEN "idle" ELSE "line") /\ NextLine
  /\ UNCHANGED <<buffer, memory, history>>

\* A defective variant: while (data_len--).
NoData_Post(n) == n = 0
\* while (--data_len) ends.
NoData(n) == n = 1

\* A byte of data: stored, or printed if it is part of a comment.
ReadData ==
  /\ loader = "data" /\ ~NoData(data_len)
  /\ data_len' = (data_len - 1) % 256
  /\ index' = index + 1
  /\ memory' =
       IF Current.type = 0 THEN memory
       ELSE [memory EXCEPT ![Current.address + index] =
               IF index < Len(Current.data) THEN Current.data[index + 1] ELSE CHECKSUM]
  /\ UNCHANGED <<buffer, lineno, loader, history>>

RecordEnds ==
  /\ loader = "data" /\ NoData(data_len)
  /\ data_len' = (data_len - 1) % 256
  /\ loader' = "line" /\ NextLine
  /\ UNCHANGED <<buffer, memory, index, history>>

Load == SkipEmpty \/ Reject \/ ReadRecord \/ ReadData \/ RecordEnds

SrecNext == Load \/ \E f \in Files(MaxLines - received) : Download(f)
SrecSpec == SrecInit /\ [][SrecNext]_srecVars

-----------------------------------------------------------------------------
(* Properties.                                                             *)

EndOf(f) == SelectInSeq(f, LAMBDA r : r.type \in {8, 9})
IsComplete(f) == EndOf(f) > 0 /\ NotARecord \notin ToSet(SubSeq(f, 1, EndOf(f)))

\* What the records of a file store: the last that names an address wins.
Stored(f, a) ==
  LET n == SelectLastInSeq(f, LAMBDA r : r.type \in 1 .. 3 /\ a - r.address \in 0 .. Len(r.data) - 1)
  IN  IF n = 0 THEN before[a] ELSE f[n].data[a - f[n].address + 1]

\* A complete file, once loaded, has stored its data and nothing else, and
\* nothing of what an earlier download left in the buffer.
LoadIsFaithful ==
  loader = "idle" /\ IsComplete(file) =>
    memory = [a \in Memory |-> Stored(SubSeq(file, 1, EndOf(file)), a)]

\* The loader returns for a file with an end record.  It need not for one
\* without: behind the lines of the buffer it reads empty lines for ever.
LoadEnds == (Loading /\ IsComplete(file)) ~> ~Loading
=============================================================================
