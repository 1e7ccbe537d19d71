-------------------------------- MODULE Loader --------------------------------
(***************************************************************************)
(* A command of the shell: process_command of shell/decodecmd.c changes    *)
(* the drive, calls a function of the command table, or looks for an ELF   *)
(* file, loads its segments and calls it.  Files may be cut short, as      *)
(* f_write leaves them on a full volume, and transfers may fail.           *)
(*                                                                         *)
(* A file is measured in units: the magic number, the rest of the header,  *)
(* one unit for each program header, and those of the segments.            *)
(***************************************************************************)
EXTENDS Integers, Sequences, FiniteSetsExt

CONSTANTS
  Commands,             \* what is typed: drive or NoDrive, name, number of arguments
  Builtins,             \* names in g_cmd_table
  Drives,
  Volumes,              \* what may be on the drives: files, each at its place
  Addresses,            \* where segments are loaded
  NUM_FILE_EXTENSIONS,
  MaxCommands,          \* bound on the commands typed
  MaxFailures           \* bound on the transfers that fail

NoDrive == -1
MAGIC == 1
HEADER == 2
JUNK == <<"junk">>
ZERO_UNIT == <<"zero">>

\* A file is where its drive, its name and its extension say; 0 is none.
At(drive, name, ext) == [drive |-> drive, name |-> name, ext |-> ext]
Segment(type, offset, paddr, filesz, memsz) ==
  [type |-> type, offset |-> offset, paddr |-> paddr, filesz |-> filesz, memsz |-> memsz]

Segments == [type : STRING, offset : Nat, paddr : Nat, filesz : Nat, memsz : Nat]

ASSUME LoaderAssumption ==
  /\ Addresses \subseteq Int /\ NUM_FILE_EXTENSIONS \in Nat
  /\ \A v \in Volumes : \A p \in DOMAIN v :
       /\ v[p].elf \in BOOLEAN /\ v[p].executable \in BOOLEAN
       /\ v[p].table \in Seq(Segments)

VARIABLES
  volume, drive, \* what is on the drives, and the current one
  command,       \* what was typed last
  stage,         \* "idle", "open", "sniff", "header", "table", "load" or "running"
  ext,           \* the extension to be tried, or that of the open file
  progIndex,
  ram,           \* at each address a unit of a file, a zero, or what was there
  entered,       \* history: commands typed
  failures,      \* history: transfers that failed
  clean          \* history: none of them in the present command

loaderVars == <<volume, drive, command, stage, ext, progIndex, ram, entered, failures, clean>>

LoaderInit ==
  /\ volume \in Volumes /\ drive = 0
  /\ command = CHOOSE c \in Commands : TRUE
  /\ stage = "idle"
  /\ ext = 0 /\ progIndex = 0
  /\ ram = [a \in Addresses |-> JUNK]
  /\ entered = 0 /\ failures = 0 /\ clean = TRUE

OnDrive == IF command.drive = NoDrive THEN drive ELSE command.drive
Candidate(e) == At(OnDrive, command.name, e)
Exists(e) == Candidate(e) \in DOMAIN volume
File == volume[Candidate(ext)]
Header == File.table[progIndex + 1]

Exit(s) == stage' = s /\ UNCHANGED progIndex
Fails == failures < MaxFailures /\ failures' = failures + 1 /\ clean' = FALSE
Works == UNCHANGED <<failures, clean>>

\* process_command.  A drive without arguments is a change of the drive, also
\* with a name behind it; a name of the table is never looked for on the disk.
Type(c) ==
  /\ stage = "idle" /\ entered < MaxCommands
  /\ entered' = entered + 1 /\ command' = c /\ clean' = TRUE
  /\ ext' = 0
  /\ IF c.drive # NoDrive /\ c.args = 0
       THEN drive' = (IF c.drive \in Drives THEN c.drive ELSE drive) /\ Exit("idle")
       ELSE /\ Exit(IF c.drive = NoDrive /\ c.name \in Builtins THEN "idle" ELSE "open")
            /\ UNCHANGED drive
  /\ UNCHANGED <<volume, ram, failures>>

\* open_executable_file: an f_open that fails, for whatever reason, is taken
\* for a file that does not exist.
Open ==
  /\ stage = "open"
  /\ \/ Exists(ext) /\ Works /\ Exit("sniff") /\ UNCHANGED ext
     \/ /\ (~Exists(ext) /\ Works) \/ Fails
        /\ IF ext < NUM_FILE_EXTENSIONS THEN ext' = ext + 1 /\ Exit("open")
           ELSE Exit("idle") /\ UNCHANGED ext
  /\ UNCHANGED <<volume, drive, command, ram, entered>>

\* f_lseek and f_read.  The results of f_lseek are ignored, but a seek that
\* fails marks the file, and the read fails too; behind the end nothing is read.
Left(offset, n) == Max({0, Min({n, File.size - offset})})
Reads(offset, n) ==
  {[ok |-> TRUE, got |-> Left(offset, n)]} \cup [ok : {FALSE}, got : 0 .. Left(offset, n)]
Outcome(r) == IF r.ok THEN Works ELSE Fails

\* A defective variant: a short read is not noticed.
Whole_Short(r, n) == r.ok
Whole(r, n) == r.ok /\ r.got = n

\* process_command_executable: the magic number, which may be short.
Sniff ==
  /\ stage = "sniff"
  /\ \E r \in Reads(0, MAGIC) :
       Outcome(r) /\ Exit(IF Whole(r, MAGIC) /\ File.elf THEN "header" ELSE "idle")
  /\ UNCHANGED <<volume, drive, command, ext, ram, entered>>

ReadHeader ==
  /\ stage = "header"
  /\ \E r \in Reads(0, HEADER) :
       /\ Outcome(r)
       /\ stage' = IF Whole(r, HEADER) /\ File.executable THEN "table" ELSE "idle"
  /\ progIndex' = 0
  /\ UNCHANGED <<volume, drive, command, ext, ram, entered>>

\* The next program header; behind the last one the program is called.
ReadProgHeader ==
  /\ stage = "table" /\ progIndex < Len(File.table)
  /\ \E r \in Reads(HEADER + progIndex, 1) :
       /\ Outcome(r)
       /\ IF ~Whole(r, 1) \/ Header.type \in {"dynamic", "interp"} THEN Exit("idle")
          ELSE IF Header.type = "load" THEN Exit("load")
          ELSE progIndex' = progIndex + 1 /\ UNCHANGED stage
  /\ UNCHANGED <<volume, drive, command, ext, ram, entered>>

Enter ==
  /\ stage = "table" /\ progIndex = Len(File.table)
  /\ Exit("running")
  /\ UNCHANGED <<volume, drive, command, ext, ram, entered, failures, clean>>

\* The got first units of a segment in m, and zeros up to its memsz.
Filled(m, h, got) ==
  [a \in Addresses |->
     IF a - h.paddr \in 0 .. got - 1 THEN <<Candidate(ext), h.offset + a - h.paddr>> ELSE m[a]]
Cleared(m, h) ==
  [a \in Addresses |-> IF a - h.paddr \in h.filesz .. h.memsz - 1 THEN ZERO_UNIT ELSE m[a]]

LoadSegment ==
  /\ stage = "load"
  /\ \E r \in Reads(Header.offset, Header.filesz) :
       /\ Outcome(r)
       /\ IF Whole(r, Header.filesz)
            THEN /\ ram' = Cleared(Filled(ram, Header, r.got), Header)
                 /\ stage' = "table" /\ progIndex' = progIndex + 1
            ELSE ram' = Filled(ram, Header, r.got) /\ Exit("idle")
  /\ UNCHANGED <<volume, drive, command, ext, entered>>

\* The program ends; what it leaves in memory is as good as anything.
Return ==
  /\ stage = "running" /\ Exit("idle")
  /\ UNCHANGED <<volume, drive, command, ext, ram, entered, failures, clean>>

LoaderNext ==
  \/ \E c \in Commands : Type(c)
  \/ Open \/ Sniff \/ ReadHeader \/ ReadProgHeader \/ LoadSegment \/ Enter \/ Return

LoaderSpec == LoaderInit /\ [][LoaderNext]_loaderVars

-----------------------------------------------------------------------------
(* Properties.                                                             *)

\* What a program expects in memory: of the last segment at an address its unit
\* of the file or, behind those, zero.
Covers(h, a) == h.type = "load" /\ a - h.paddr \in 0 .. Max({h.filesz, h.memsz}) - 1
Expected(a) ==
  LET n == Max({i \in DOMAIN File.table : Covers(File.table[i], a)})
      h == File.table[n]
  IN  IF a - h.paddr < h.filesz THEN <<Candidate(ext), h.offset + a - h.paddr>> ELSE ZERO_UNIT

WholeProgram ==
  /\ File.elf /\ File.executable
  /\ \A a \in Addresses :
       (\E h \in {File.table[i] : i \in DOMAIN File.table} : Covers(h, a)) => ram[a] = Expected(a)

\* A program runs only when all of it is in memory, whatever is missing from its
\* file, whichever transfer failed and whatever other program was there before;
\* and, unless a transfer failed, it is the first file with the name typed.
RunsWhatWasTyped ==
  stage = "running" =>
    /\ WholeProgram
    /\ clean => \A e \in 0 .. ext - 1 : ~Exists(e)
=============================================================================
