------------------------------ MODULE FatNames -------------------------------
(***************************************************************************)
(* Names in a FAT directory: libraries/fatfs/ff.c keeps a long name in     *)
(* entries of its own in front of the short one, ties them to it by a      *)
(* checksum, and makes up the short name of a name that is not in 8.3      *)
(* format.  FatFile has one entry for each name; this module is about what *)
(* FatFile leaves out, in one directory of a fixed size.                   *)
(*                                                                         *)
(* Characters are numbers: small letters are less than 10, the capital of  *)
(* c is c + 10, and 20 + n is the suffix ~n.                               *)
(***************************************************************************)
EXTENDS Integers, SequencesExt

CONSTANTS
  NameSet,    \* the names that programs use, sequences of letters and suffixes
  MaxName,    \* FF_MAX_LFN
  PartLen,    \* characters in an entry: 13
  BodyLen,    \* characters in a short name: 8 and 3
  MaxNumber,  \* 99, the most suffixes tried
  PerSector,  \* entries in a sector
  SlotCount,  \* entries in the directory
  MaxOps      \* bound: calls

\* Letters and suffixes, as a name holds them.
Characters == (1 .. 9) \cup (11 .. 19) \cup (21 .. 98)

\* A name fits in the buffer with its end and in at most 254 entries, as the 255
\* characters of a name do.
ASSUME NamesAssumption ==
  /\ {PartLen, BodyLen, PerSector, SlotCount} \subseteq Nat \ {0}
  /\ {MaxName, MaxNumber} \subseteq Nat /\ MaxName <= 254 * PartLen
  /\ NameSet \subseteq Seq(Characters)
  /\ \A name \in NameSet : Len(name) \in 1 .. MaxName

Term == 0           \* the end of a name
Filler == 99        \* 0xFFFF
None == 255         \* 0xFF: no long entries are being followed
Nowhere == 0 - 1    \* 0xFFFFFFFF

End == [kind |-> "end"]           \* the first byte is 0
Deleted == [kind |-> "deleted"]   \* DDEM
Short(fn, file) == [kind |-> "short", fn |-> fn, file |-> file]

VARIABLES
  dir,        \* the directory on the disk
  unwritten,  \* the sectors that the call in progress still writes, in order
  LfnBuf,     \* the working buffer; it keeps the end of earlier names
  checksums,  \* how many values sum_sfn has, 256 or, to force collisions, 1
  files,      \* history: the files that are there for sure, [name, file]
  outcome,    \* history: what the call in progress adds to them
  doubtful,   \* history: files whose renaming a power failure cut short
  crashed,    \* history: the power has failed during a call
  ops         \* bound

nameVars == <<dir, unwritten, LfnBuf, checksums, files, outcome, doubtful, crashed, ops>>

Upper(name) == [i \in DOMAIN name |-> IF name[i] < 10 THEN name[i] + 10 ELSE name[i]]

-----------------------------------------------------------------------------
(* Names.                                                                  *)

\* create_name: the long name goes into the buffer, in front of what is left
\* there, and a short one is made of it.
InBuffer(buf, name) ==
  [i \in 0 .. MaxName |->
    IF i < Len(name) THEN name[i + 1] ELSE IF i = Len(name) THEN Term ELSE buf[i]]
Fits(name) == Len(name) <= BodyLen                          \* ~NS_LOSS
ShortName(name) == Upper(SubSeq(name, 1, Min({BodyLen, Len(name)})))
MixedCase(name) == \E i, j \in DOMAIN name : name[i] < 10 /\ name[j] \in 10 .. 19
NeedsLfn(name) == ~Fits(name) \/ MixedCase(name)            \* NS_LFN

\* gen_numname, up to the number from which it hashes the long name.
gen_numname(fn, n) == Append(SubSeq(fn, 1, BodyLen - 1), 20 + n)

sum_sfn(fn) == FoldLeft(LAMBDA sum, c : (2 * sum + c) % checksums, 0, fn)

\* Every entry holds characters s of the long name from place i on.
Place(ord, s) == (ord - 1) * PartLen + s - 1
\* put_lfn: the part number ord of a name, its terminator and fillers.
Parts(name) == (Len(name) + PartLen - 1) \div PartLen
put_lfn(name, ord, sum) ==
  [kind |-> "lfn", ord |-> ord, sum |-> sum, last |-> ord = Parts(name),
   chars |-> [s \in 1 .. PartLen |->
     IF Place(ord, s) < Len(name) THEN name[Place(ord, s) + 1]
     ELSE IF Place(ord, s) = Len(name) THEN Term ELSE Filler]]

Used(e) == {s \in 1 .. PartLen : e.chars[s] # Filler}
\* A defective variant: a name is not compared beyond the entry.
cmp_lfn_Prefix(buf, e) ==
  /\ \A s \in Used(e) :
       /\ Place(e.ord, s) <= MaxName
       /\ e.chars[s] = Term \/ Upper(<<e.chars[s]>>) = Upper(<<buf[Place(e.ord, s)]>>)
\* cmp_lfn: is the entry a part of the name in the buffer, and not shorter?
cmp_lfn(buf, e) ==
  /\ \A s \in Used(e) :
       /\ Place(e.ord, s) <= MaxName
       /\ Upper(<<e.chars[s]>>) = Upper(<<buf[Place(e.ord, s)]>>)
  /\ e.last /\ Term \notin ToSet(e.chars) => buf[Place(e.ord, PartLen) + 1] = Term

\* pick_lfn: the buffer with the part in it.
pick_lfn(buf, e) ==
  [i \in 0 .. MaxName |->
    LET s == i - Place(e.ord, 1) + 1
    IN  IF s \in Used(e) THEN e.chars[s]
        ELSE IF s = PartLen + 1 /\ e.last /\ Term \notin ToSet(e.chars) THEN Term ELSE buf[i]]

-----------------------------------------------------------------------------
(* Searching: a fold over the entries, in which a sequence of long entries *)
(* counts down ord and keeps the checksum it began with.                   *)

Start == [i |-> 0, stop |-> FALSE, at |-> Nowhere, ord |-> None, sum |-> None, blk |-> Nowhere]
Begun(a, e) ==
  IF e.last THEN [a EXCEPT !.ord = e.ord, !.sum = e.sum, !.blk = a.i] ELSE a
CountDown(a, e, matches) ==
  [a EXCEPT !.ord = IF e.ord = a.ord /\ e.sum = a.sum /\ matches THEN @ - 1 ELSE None]
Complete(a, e) == a.ord = 0 /\ a.sum = sum_sfn(e.fn)

\* dir_find for the name in buf, or only for the short name fn.
Visit(buf, fn, by, a, e) ==
  LET next == [a EXCEPT !.i = @ + 1]
      reset == [next EXCEPT !.ord = None, !.blk = Nowhere]
  IN  IF a.stop THEN a
      ELSE CASE e.kind = "end" -> [a EXCEPT !.stop = TRUE]
             [] e.kind = "deleted" -> reset
             [] e.kind = "lfn" ->
                  IF "long" \notin by THEN next
                  ELSE [CountDown(Begun(a, e), e, cmp_lfn(buf, e)) EXCEPT !.i = @ + 1]
             [] e.kind = "short" ->
                  IF Complete(a, e) \/ ("short" \in by /\ e.fn = fn)
                  THEN [a EXCEPT !.stop = TRUE, !.at = a.i] ELSE reset
dir_find(d, buf, fn, by) == FoldLeft(LAMBDA a, e : Visit(buf, fn, by, a, e), Start, d)

\* follow_path, with the name in buf: a name that is not in 8.3 format is
\* found by its long name only.
FindIn(buf, name) ==
  dir_find(dir, buf, ShortName(name), {"long"} \cup (IF Fits(name) THEN {"short"} ELSE {}))
Find(name) == FindIn(InBuffer(LfnBuf, name), name)
Found(a) == a.at # Nowhere

\* dir_read and get_fileinfo: the entries with their names, as f_readdir
\* returns them, and the buffer that they leave.
Name(buf) == [i \in 1 .. Min({j \in DOMAIN buf : buf[j] = Term}) |-> buf[i - 1]]
Read(l, e) ==
  LET next == [l EXCEPT !.i = @ + 1]
      a == Begun(l, e)
  IN  IF l.stop THEN l
      ELSE CASE e.kind = "end" -> [l EXCEPT !.stop = TRUE]
             [] e.kind = "deleted" -> [next EXCEPT !.ord = None]
             [] e.kind = "lfn" ->
                  [CountDown(a, e, TRUE) EXCEPT
                    !.i = @ + 1,
                    !.buf = IF e.ord = a.ord /\ e.sum = a.sum THEN pick_lfn(@, e) ELSE @]
             [] e.kind = "short" ->
                  [next EXCEPT
                    !.list = Append(@, [name |-> IF Complete(l, e) THEN Name(l.buf) ELSE e.fn,
                                        file |-> e.file]),
                    !.ord = None, !.sum = None]
Listing ==
  FoldLeft(Read, [i |-> 0, stop |-> FALSE, ord |-> None, sum |-> None, blk |-> Nowhere,
                  buf |-> LfnBuf, list |-> <<>>], dir)

-----------------------------------------------------------------------------
(* Changing a directory.                                                   *)

\* dir_alloc: the place of the first n free entries in a row, if there are any.
IsFree(e) == e.kind \in {"end", "deleted"}
Gaps(d, n) == {p \in 0 .. SlotCount - n : \A i \in 1 .. n : IsFree(d[p + i])}
Gap(d, n) == CHOOSE p \in Gaps(d, n) : \A q \in Gaps(d, n) : p <= q

\* A defective variant: the short names in use are not looked at.
Number_First(fn) == IF MaxNumber > 0 THEN {1} ELSE {}
\* The suffix: the first that no short name has, or none.
Number(fn) ==
  LET free == {n \in 1 .. MaxNumber : dir_find(dir, LfnBuf, gen_numname(fn, n), {"short"}).at = Nowhere}
  IN  {n \in free : \A m \in free : n <= m}

\* dir_register: the names of the new entry, and all its entries.
NewShort(name) ==
  IF Fits(name) THEN {ShortName(name)} ELSE {gen_numname(ShortName(name), n) : n \in Number(ShortName(name))}
NewEntries(name, fn, file) ==
  (IF NeedsLfn(name)
   THEN [i \in 1 .. Parts(name) |-> put_lfn(name, Parts(name) + 1 - i, sum_sfn(fn))] ELSE <<>>)
  \o <<Short(fn, file)>>
Put(d, p, entries) ==
  [i \in DOMAIN d |-> IF i - p \in DOMAIN entries THEN entries[i - p] ELSE d[i]]

\* dir_remove: everything from the start of the long name on.
Removed(d, at, blk) ==
  [i \in DOMAIN d |->
    IF i - 1 \in (IF blk = Nowhere THEN at ELSE blk) .. at THEN Deleted ELSE d[i]]

Sector(i) == (i - 1) \div PerSector
\* The writes that turn d into e, in the order of the disk.
SectorWrites(d, e) ==
  LET changed == {Sector(i) : i \in {j \in DOMAIN d : d[j] # e[j]}}
      order == CHOOSE f \in [1 .. Cardinality(changed) -> changed] :
                 \A j, k \in DOMAIN f : j < k => f[j] < f[k]
  IN  [k \in DOMAIN order |-> [sector |-> order[k], to |-> e]]
\* The window holds one sector: two changes of it in a row are one write.
Then(first, second) ==
  IF first # <<>> /\ second # <<>> /\ Last(first).sector = Head(second).sector
  THEN Front(first) \o second ELSE first \o second

NamesInit ==
  /\ dir = [i \in 1 .. SlotCount |-> End] /\ unwritten = <<>>
  /\ LfnBuf = [i \in 0 .. MaxName |-> Term]
  /\ checksums \in {1, 256}
  /\ files = {} /\ outcome = {} /\ doubtful = {} /\ crashed = FALSE /\ ops = 0

AtRest == unwritten = <<>>
Call ==
  /\ AtRest /\ ops < MaxOps
  /\ ops' = ops + 1
  /\ UNCHANGED <<dir, checksums, doubtful, crashed>>
Settled(file) == {f \in files : f.file = file}
NothingWritten == UNCHANGED <<unwritten, files, outcome>>

\* dir_register(name) for a file, to be followed by after(d).
Register(name, file, After(_)) ==
  LET n == IF NeedsLfn(name) THEN Parts(name) + 1 ELSE 1
      fns == NewShort(name)
  IN  IF fns = {} \/ Gaps(dir, n) = {} THEN NothingWritten
      ELSE LET fn == CHOOSE x \in fns : TRUE
               d == Put(dir, Gap(dir, n), NewEntries(name, fn, file))
           IN  /\ unwritten' = Then(SectorWrites(dir, d), SectorWrites(d, After(d)))
               /\ outcome' = IF file \in doubtful THEN {} ELSE {[name |-> name, file |-> file]}
               /\ files' = files \ Settled(file)

\* f_open with FA_CREATE_NEW.
Create(name) ==
  /\ Call
  /\ LfnBuf' = InBuffer(LfnBuf, name)
  /\ IF Found(Find(name)) THEN NothingWritten ELSE Register(name, ops', LAMBDA d : d)

\* f_unlink.
Unlink(name) ==
  LET it == Find(name)
      d == Removed(dir, it.at, it.blk)
  IN  /\ Call
      /\ LfnBuf' = InBuffer(LfnBuf, name)
      /\ IF ~Found(it) THEN NothingWritten
         ELSE /\ unwritten' = SectorWrites(dir, d)
              /\ files' = files \ Settled(dir[it.at + 1].file)
              /\ outcome' = {}

\* f_rename, also to the same name in other letters.
Rename(old, new) ==
  LET it == Find(old)
      buf == InBuffer(InBuffer(LfnBuf, old), new)
      other == FindIn(buf, new)
  IN  /\ Call
      /\ LfnBuf' = IF Found(it) THEN buf ELSE InBuffer(LfnBuf, old)
      /\ IF ~Found(it) \/ (Found(other) /\ other.at # it.at) THEN NothingWritten
         ELSE Register(new, dir[it.at + 1].file, LAMBDA d : Removed(d, it.at, it.blk))

\* Calls that change nothing but the buffer: f_stat and f_readdir.
Lookup(name) ==
  /\ Call /\ NothingWritten
  /\ LfnBuf' = InBuffer(LfnBuf, name)
List == Call /\ NothingWritten /\ LfnBuf' = Listing.buf

\* A sector is written; with the last one the call is done.
WriteSector ==
  /\ ~AtRest
  /\ dir' = [i \in DOMAIN dir |->
               IF Sector(i) = Head(unwritten).sector THEN Head(unwritten).to[i] ELSE dir[i]]
  /\ unwritten' = Tail(unwritten)
  /\ IF unwritten' = <<>> THEN files' = files \cup outcome /\ outcome' = {}
     ELSE UNCHANGED <<files, outcome>>
  /\ UNCHANGED <<LfnBuf, checksums, doubtful, crashed, ops>>

\* The power fails before the rest is written.
Crash ==
  /\ ~AtRest
  /\ unwritten' = <<>> /\ outcome' = {} /\ crashed' = TRUE
  /\ doubtful' = doubtful \cup {f.file : f \in outcome}
  /\ LfnBuf' = [i \in 0 .. MaxName |-> Term]
  /\ UNCHANGED <<dir, checksums, files, ops>>

NamesNext ==
  \/ \E n \in NameSet : Create(n) \/ Unlink(n) \/ Lookup(n) \/ \E m \in NameSet : Rename(n, m)
  \/ List \/ WriteSector \/ Crash
NamesSpec == NamesInit /\ [][NamesNext]_nameVars

-----------------------------------------------------------------------------
(* Properties.                                                             *)

SameName(a, b) == Upper(a) = Upper(b)

\* Every file that no call was at work on when the power failed, wherever and
\* however often it did, is listed once, and its name, in any letters, is found;
\* without a power failure what is found is the file, also when checksums
\* collide.  (After one, an entry may stand behind what is left of a long name
\* whose short name it has taken, and is then found by both.)
FilesKeepNames ==
  AtRest =>
    \A f \in files :
      /\ \A n \in NameSet :
           SameName(n, f.name) =>
             Found(Find(n)) /\ (crashed \/ dir[Find(n).at + 1].file = f.file)
      /\ Cardinality({i \in DOMAIN Listing.list : Listing.list[i].file = f.file}) = 1

\* Without a power failure, checksums that collide or not: no name leads to
\* the file of another unless it is its short name; a file is listed with the
\* long name it was given; and nothing but the files takes up entries.  (After
\* a power failure the long name of a file that was never made may be left in
\* front of one that takes the same short name.)
NamesAreTold ==
  AtRest /\ ~crashed =>
    /\ \A n \in NameSet :
         LET entry == dir[Find(n).at + 1]
         IN  Found(Find(n)) => \A f \in Settled(entry.file) :
               SameName(n, f.name) \/ (Fits(n) /\ ShortName(n) = entry.fn)
    /\ {l.name : l \in ToSet(Listing.list)} =
         {IF NeedsLfn(f.name) THEN f.name ELSE Upper(f.name) : f \in files}
    /\ Cardinality({i \in DOMAIN dir : ~IsFree(dir[i])}) =
         MapThenSumSet(LAMBDA f : Len(NewEntries(f.name, <<>>, f.file)), files)
=============================================================================
