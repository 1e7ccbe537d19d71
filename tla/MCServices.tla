----------------------------- MODULE MCServices ------------------------------
(***************************************************************************)
(* The parts of the system that share no state with the others, for TLC:   *)
(* the scan of the slots and the search for a keyboard at boot, the clock, *)
(* the S-record command, the names in a FAT directory, the start of        *)
(* programs, and two algorithms against their references.  A behaviour is  *)
(* about one of them, its subject; the others stand still in one initial   *)
(* state.                                                                  *)
(***************************************************************************)
EXTENDS CommandLine, Rtc, KeyboardInit, Expansion, SRecord, FatNames, Loader

CONSTANTS
  MaxLength, \* bound on a command line
  LastYear   \* bound on the dates

VARIABLES subject, line, date

vars == <<subject, line, date, rtcVars, bootVars, busVars, srecVars, nameVars, loaderVars>>

Time(hour, min, sec, day, month, year, dow) ==
  [hour |-> hour, min |-> min, sec |-> sec, day |-> day, month |-> month, year |-> year,
   dow |-> dow]
\* The end of a leap day, of a day and hour, and of nothing.
MCTimes == {Time(23, 59, 58, 31, 12, 29, 1), Time(10, 58, 57, 28, 2, 24, 3), Time(9, 5, 0, 1, 3, 25, 6)}
\* Command bytes: cleared, as a BIOS leaves it, everything on and off.
MCPowerUp == {{}, {KBD_INT, 4, TRANS}, {KBD_INT, AUX_INT, 4, KBD_OFF, AUX_OFF, TRANS}}
\* The code of a key, and one that reads as a command byte with TRANS set.
MCScancodes == {{16, 4, 1}, {TRANS, 2}}
MCDevices == [type : {"video"}, starts : BOOLEAN] \cup [type : {"audio", "other"}, starts : {FALSE}]

\* With letters a, b, c, d and two letters in a short name: abc and abd, which
\* lose letters to the same A~1; A~1 itself; aB and AB; and abcd, which fills
\* two long entries.
MCNames == {<<1, 2, 3>>, <<1, 2, 4>>, <<11, 21>>, <<1, 12>>, <<11, 12>>, <<1, 2, 3, 4>>}

\* Programs, cut short at several places: a segment with zeros behind it and a
\* header to be skipped; three segments that overlap, one of zeros only; no
\* segment; one that wants to be linked; other kinds of file.
Elf(table, size) == [elf |-> TRUE, executable |-> TRUE, table |-> table, size |-> size]
Note == Segment("note", 0, 0, 0, 0)
Overlaid ==
  <<Segment("load", 5, 1, 2, 2), Segment("load", 6, 2, 1, 2), Segment("load", 5, 0, 0, 1)>>
MCPrograms ==
  {Elf(<<Segment("load", 4, 0, 2, 3), Note>>, n) : n \in {1, 3, 5, 6}}
  \cup {Elf(Overlaid, n) : n \in {6, 7}}
  \cup {Elf(<<>>, 2), Elf(<<Segment("load", 4, 0, 1, 1), Segment("dynamic", 0, 0, 0, 0)>>, 5)}
  \cup {[Elf(<<Note>>, 3) EXCEPT !.executable = FALSE]}
  \cup {[Elf(<<>>, n) EXCEPT !.elf = FALSE] : n \in {0, 4}}
Large == Elf(<<Segment("load", 3, 0, 3, 4)>>, 6)
Maybe(place, contents) == {<<>>} \cup {place :> f : f \in contents}
MCVolumes ==
  {<<>>} \cup
  {a @@ b @@ c @@ (At(1, "prog", 0) :> Large) :
     a \in Maybe(At(0, "prog", 0), MCPrograms), b \in Maybe(At(0, "prog", 1), MCPrograms),
     c \in Maybe(At(0, "prog", 2), {Large})}
\* The drives 0 and 1 exist, drive 2 does not.
MCCommands == [drive : {NoDrive, 1, 2}, name : {"prog", "dir"}, args : {0, 1}]

Only(s, part) == subject = s \/ part

Init ==
  /\ subject \in {"clock", "keyboard", "slots", "srecord", "names", "programs", "command line", "calendar"}
  /\ line = <<>> /\ date = FirstDay
  /\ RtcInit /\ Only("clock", clock.hour = 9)
  /\ BootInit /\ Only("keyboard", config = {} /\ ~present)
  /\ BusInit /\ Only("slots", g_exp_devicemap = {})
  /\ SrecInit
  /\ NamesInit /\ Only("names", checksums = 256)
  /\ LoaderInit /\ Only("programs", volume = <<>>)

Clock ==
  /\ subject = "clock" /\ RtcNext
  /\ UNCHANGED <<subject, line, date, bootVars, busVars, srecVars, nameVars, loaderVars>>
KeyboardBoot ==
  /\ subject = "keyboard" /\ BootNext
  /\ UNCHANGED <<subject, line, date, rtcVars, busVars, srecVars, nameVars, loaderVars>>
ExpansionSlots ==
  /\ subject = "slots" /\ BusNext
  /\ UNCHANGED <<subject, line, date, rtcVars, bootVars, srecVars, nameVars, loaderVars>>
SRecordFiles ==
  /\ subject = "srecord" /\ SrecNext
  /\ UNCHANGED <<subject, line, date, rtcVars, bootVars, busVars, nameVars, loaderVars>>

Directory ==
  /\ subject = "names" /\ NamesNext
  /\ UNCHANGED <<subject, line, date, rtcVars, bootVars, busVars, srecVars, loaderVars>>

Programs ==
  /\ subject = "programs" /\ LoaderNext
  /\ UNCHANGED <<subject, line, date, rtcVars, bootVars, busVars, srecVars, nameVars>>

\* Every line, each from the one before it.
TypeNext ==
  /\ subject = "command line" /\ Len(line) < MaxLength
  /\ \E ch \in {LETTER, SPACE} : line' = Append(line, ch)
  /\ UNCHANGED <<subject, date, rtcVars, bootVars, busVars, srecVars, nameVars, loaderVars>>
\* Every day that the clock can hold, counted one by one.
Tomorrow ==
  /\ subject = "calendar" /\ DayAfter(date).year <= LastYear
  /\ date' = DayAfter(date)
  /\ UNCHANGED <<subject, line, rtcVars, bootVars, busVars, srecVars, nameVars, loaderVars>>

Next == Clock \/ KeyboardBoot \/ ExpansionSlots \/ SRecordFiles \/ Directory \/ Programs \/ TypeNext
        \/ Tomorrow

Spec == Init /\ [][Next]_vars

\* The processor, the controller and the keyboard run; the sender and whoever
\* types may stop.
Fairness ==
  /\ WF_vars(subject = "keyboard" /\ Driver /\ KeyboardBoot)
  /\ WF_vars(subject = "keyboard" /\ Device /\ KeyboardBoot)
  /\ WF_vars(subject = "srecord" /\ Load /\ SRecordFiles)

FairSpec == Spec /\ Fairness

\* A command gets the words of its line as arguments, whatever the spaces
\* around them, and of a line with too many words the first ones.
ArgsAreWords == CutsIntoWords(line)

\* A clock that was set shows the time that was asked for, and the right day of
\* the week for every date that it can hold.
ClockIsRight ==
  /\ SetTakesEffect
  /\ DayOfWeek(date.day, date.month, date.year) = date.dow

\* The boot goes on, with a keyboard or without one, whatever it sends while
\* it is looked for.
BootGoesOn == subject = "keyboard" ~> Done
=============================================================================
