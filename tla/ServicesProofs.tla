--------------------------- MODULE ServicesProofs ---------------------------
(***************************************************************************)
(* The theorems of the parts of the system that share no state with the    *)
(* others: the scan of the slots, the start of programs, the download of   *)
(* S-records, the clock with its days of the week, the search for a        *)
(* keyboard, and the arguments of a command.                               *)
(***************************************************************************)
EXTENDS MCServices, FiniteSetTheorems, SequenceTheorems, WellFoundedInduction, TLAPS

-----------------------------------------------------------------------------
(* The scan of the slots.                                                  *)

\* Only slots that the scan has passed have entries, each that of its card.
BusTypeOK ==
  /\ cards \in [Slots -> Devices \cup {NoCard}]
  /\ ready \subseteq g_exp_devicemap
  /\ slot \in 0 .. MAX_EXP_DEVICES /\ retries \in Nat
  /\ g_expansion_slots \in [Slots -> Devices \cup {Blank}]
  /\ display \in Slots \cup {NoSlot}

EntriesSound ==
  \A s \in Slots : g_expansion_slots[s] # Blank => s < slot /\ g_expansion_slots[s] = cards[s]

Usable == {s \in Entered : cards[s].type = "video" /\ cards[s].starts}

BusInv ==
  /\ BusTypeOK /\ EntriesSound
  /\ g_exp_num_devices = Cardinality(Entered)
  /\ FirstVideoCard

\* The first video card, without the name that FirstVideoCard gives the usable ones.
LEMMA FirstVideoCardIs ==
  FirstVideoCard <=> IF Usable = {} THEN display = NoSlot
                     ELSE display \in Usable /\ \A s \in Usable : display <= s
BY DEF FirstVideoCard, Usable

\* Nothing is entered when the scan begins.
LEMMA BusInitSound == BusInit => BusInv
<1> SUFFICES ASSUME BusInit PROVE BusInv
  OBVIOUS
<1>1. BusTypeOK
  BY BusAssumption DEF BusInit, BusTypeOK, g_exp_devicemap, Blank
<1>2. EntriesSound
  BY DEF BusInit, EntriesSound
<1>3. Entered = {}
  BY DEF BusInit, Entered
<1>4. g_exp_num_devices = Cardinality(Entered)
  BY <1>3, FS_EmptySet DEF BusInit
<1>5. FirstVideoCard
  BY <1>3, FirstVideoCardIs DEF BusInit, Usable
<1> QED BY <1>1, <1>2, <1>4, <1>5 DEF BusInv

\* A slot is passed, a card becomes ready, or one that is not is asked again.
LEMMA ScanGoesOn ==
  BusInv /\ (SkipSlot \/ ReadZero \/ \E s \in Slots : CardReady(s)) => BusInv'
<1> SUFFICES ASSUME BusInv, SkipSlot \/ ReadZero \/ \E s \in Slots : CardReady(s)
             PROVE  BusInv'
  OBVIOUS
<1>1. UNCHANGED <<cards, g_expansion_slots, g_exp_num_devices, display>>
  BY DEF SkipSlot, ReadZero, CardReady
<1>2. slot' \in {slot, slot + 1} /\ slot' \in 0 .. MAX_EXP_DEVICES /\ retries' \in Nat
  BY BusAssumption DEF SkipSlot, ReadZero, CardReady, NextSlot, Scanned, BusInv, BusTypeOK
<1>3. ready' \subseteq g_exp_devicemap'
  BY <1>1 DEF SkipSlot, ReadZero, CardReady, BusInv, BusTypeOK, g_exp_devicemap
<1>4. BusTypeOK'
  BY <1>1, <1>2, <1>3 DEF BusInv, BusTypeOK
<1>5. EntriesSound'
  <2>1. ASSUME NEW s \in Slots, s < slot PROVE s < slot'
    BY <1>2, <2>1, BusAssumption DEF Slots, BusInv, BusTypeOK
  <2> QED BY <1>1, <2>1 DEF EntriesSound, BusInv
<1>6. Entered' = Entered /\ FirstVideoCard'
  BY <1>1 DEF Entered, FirstVideoCard, BusInv, NoSlot
<1> QED BY <1>1, <1>4, <1>5, <1>6 DEF BusInv

\* A card that answers is entered, and used if it is the first one that can be.
LEMMA CardEntered == BusInv /\ ReadId => BusInv'
<1> SUFFICES ASSUME BusInv, ReadId PROVE BusInv'
  OBVIOUS
<1>1. /\ UNCHANGED <<cards, ready>> /\ slot' = slot + 1 /\ retries' = MaxRetries
      /\ slot \in ready /\ display' = Chosen(slot)
      /\ g_exp_num_devices' = g_exp_num_devices + 1
      /\ g_expansion_slots' = [g_expansion_slots EXCEPT ![slot] = cards[slot]]
  BY DEF ReadId, NextSlot
<1>2. slot \in Slots /\ cards[slot] \in Devices /\ cards[slot] # Blank
  BY <1>1, BusAssumption DEF BusInv, BusTypeOK, g_exp_devicemap
<1>3. g_expansion_slots \in [Slots -> Devices \cup {Blank}]
  BY DEF BusInv, BusTypeOK
<1>4. BusTypeOK'
  <2>1. slot' \in 0 .. MAX_EXP_DEVICES /\ retries' \in Nat
    BY <1>1, <1>2, BusAssumption DEF Slots
  <2>2. display' \in Slots \cup {NoSlot}
    BY <1>1, <1>2 DEF Chosen, BusInv, BusTypeOK
  <2>3. g_expansion_slots' \in [Slots -> Devices \cup {Blank}]
    BY <1>1, <1>2, <1>3
  <2> QED BY <1>1, <2>1, <2>2, <2>3 DEF BusInv, BusTypeOK, g_exp_devicemap, NoSlot
<1>5. slot \notin Entered /\ \A s \in Entered : s < slot
  BY <1>2, BusAssumption DEF BusInv, EntriesSound, Entered, Slots
<1>6. EntriesSound'
  <2> SUFFICES ASSUME NEW s \in Slots, g_expansion_slots'[s] # Blank
               PROVE  s < slot' /\ g_expansion_slots'[s] = cards'[s]
    BY DEF EntriesSound
  <2>1. CASE s = slot
    BY <1>1, <1>2, <1>3, <2>1, BusAssumption DEF Slots
  <2>2. CASE s # slot
    <3>1. g_expansion_slots'[s] = g_expansion_slots[s]
      BY <1>1, <1>3, <2>2
    <3>2. s < slot /\ g_expansion_slots[s] = cards[s]
      BY <3>1 DEF BusInv, EntriesSound
    <3> QED BY <1>1, <1>2, <3>1, <3>2, BusAssumption DEF Slots
  <2> QED BY <2>1, <2>2
<1>7. Entered' = Entered \cup {slot}
  <2>1. ASSUME NEW s \in Slots
        PROVE  g_expansion_slots'[s] # Blank <=> g_expansion_slots[s] # Blank \/ s = slot
    BY <1>1, <1>2, <1>3
  <2> QED BY <2>1, <1>2 DEF Entered
<1>8. g_exp_num_devices' = Cardinality(Entered')
  <2>1. IsFiniteSet(Slots)
    BY FS_Interval, BusAssumption DEF Slots
  <2>2. IsFiniteSet(Entered)
    BY <2>1, FS_Subset DEF Entered
  <2>3. Cardinality(Entered \cup {slot}) = Cardinality(Entered) + 1
    BY <1>5, <2>2, FS_AddElement
  <2> QED BY <1>1, <1>7, <2>3 DEF BusInv
<1>9. FirstVideoCard'
  <2> DEFINE u == cards[slot].type = "video" /\ cards[slot].starts
  <2>1. Usable' = IF u THEN Usable \cup {slot} ELSE Usable
    BY <1>1, <1>7 DEF Usable
  <2>2. IF Usable = {} THEN display = NoSlot
        ELSE display \in Usable /\ \A s \in Usable : display <= s
    BY FirstVideoCardIs DEF BusInv
  <2>3. Usable \subseteq Slots /\ NoSlot \notin Slots /\ \A s \in Usable : s < slot
    BY <1>5, BusAssumption DEF Usable, Entered, NoSlot, Slots
  <2>4. display' = IF u /\ display = NoSlot THEN slot ELSE display
    BY <1>1 DEF Chosen
  <2>5. display = NoSlot <=> Usable = {}
    BY <2>2, <2>3
  <2> HIDE DEF u
  <2>6. CASE u /\ Usable = {}
    <3>1. Usable' = {slot} /\ display' = slot
      BY <2>1, <2>4, <2>5, <2>6
    <3>2. display' \in Usable' /\ \A s \in Usable' : display' <= s
      BY <3>1, <1>2, BusAssumption DEF Slots
    <3> QED BY <3>2 DEF FirstVideoCard, Usable
  <2>7. CASE u /\ Usable # {}
    <3>1. Usable' = Usable \cup {slot} /\ display' = display
      BY <2>1, <2>4, <2>5, <2>7
    <3>2. display \in Usable /\ \A s \in Usable : display <= s
      BY <2>2, <2>7
    <3>3. display <= slot
      BY <1>2, <2>3, <3>2, BusAssumption DEF Slots
    <3>4. display' \in Usable' /\ \A s \in Usable' : display' <= s
      BY <3>1, <3>2, <3>3
    <3> QED BY <3>4 DEF FirstVideoCard, Usable
  <2>8. CASE ~u
    <3>1. Usable' = Usable /\ display' = display
      BY <2>1, <2>4, <2>8
    <3>2. IF Usable' = {} THEN display' = NoSlot
          ELSE display' \in Usable' /\ \A s \in Usable' : display' <= s
      BY <3>1, <2>2
    <3> QED BY <3>2 DEF FirstVideoCard, Usable, NoSlot
  <2> QED BY <2>6, <2>7, <2>8
<1> QED BY <1>4, <1>6, <1>8, <1>9 DEF BusInv

(* At every moment of the scan the number of boards is that of the entries, *)
(* each entry is the card in its slot, and the display is the first video   *)
(* card whose driver started, for any number of slots and any cards that    *)
(* answer whenever they like (drivers/expansion.c).                         *)
THEOREM BoardsRight == BusSpec => []BoardsAgree
<1>1. BusInv /\ [BusNext]_busVars => BusInv'
  <2> SUFFICES ASSUME BusInv, [BusNext]_busVars PROVE BusInv'
    OBVIOUS
  <2>1. CASE UNCHANGED busVars
    BY <2>1 DEF busVars, BusInv, BusTypeOK, EntriesSound, Entered, FirstVideoCard,
       g_exp_devicemap, NoSlot
  <2> QED BY <2>1, ScanGoesOn, CardEntered DEF BusNext
<1>2. BusInv => BoardsAgree
  BY DEF BusInv, BoardsAgree, EntriesSound, Entered
<1> QED BY <1>1, <1>2, BusInitSound, PTL DEF BusSpec

-----------------------------------------------------------------------------
(* The start of programs.                                                  *)

\* A nonempty set of natural numbers has a smallest one.
LEMMA LeastIs ==
  ASSUME NEW S \in SUBSET Nat, S # {}
  PROVE  Min(S) \in S /\ \A y \in S : Min(S) <= y
<1>1. IsWellFoundedOn(OpToRel(<, Nat), Nat)
  BY NatLessThanWellFounded
<1>2. PICK x \in S : \A y \in S : ~(<<y, x>> \in OpToRel(<, Nat))
  BY <1>1, WFMin
<1>3. \A y \in S : ~(y < x)
  BY <1>2 DEF OpToRel
<1>4. \E n \in S : \A m \in S : n <= m
  BY <1>3
<1> QED BY <1>4 DEF Min

\* A nonempty set of indices has a largest one.
LEMMA GreatestIs ==
  ASSUME NEW n \in Nat, NEW S \in SUBSET (1 .. n), S # {}
  PROVE  Max(S) \in S /\ \A y \in S : Max(S) >= y
<1> DEFINE T == {n - x : x \in S}
<1>1. T \in SUBSET Nat /\ T # {}
  <2>1. ASSUME NEW x \in S PROVE n - x \in Nat
    <3>1. x \in 1 .. n
      OBVIOUS
    <3> QED BY <3>1
  <2> QED BY <2>1
<1>2. PICK x \in S : Min(T) = n - x
  BY <1>1, LeastIs
<1>3. \A y \in S : x >= y
  <2> SUFFICES ASSUME NEW y \in S PROVE x >= y
    OBVIOUS
  <2>1. n - x <= n - y
    BY <1>1, <1>2, LeastIs
  <2> QED BY <2>1
<1> QED BY <1>3 DEF Max

\* The larger of two numbers.
LEMMA LargerIs ==
  ASSUME NEW x \in Nat, NEW y \in Nat
  PROVE  Max({x, y}) = IF x >= y THEN x ELSE y
<1>1. CASE x >= y
  <2>1. \A z \in {x, y} : (\A w \in {x, y} : z >= w) => z = x
    BY <1>1
  <2>2. \A w \in {x, y} : x >= w
    BY <1>1
  <2> QED BY <1>1, <2>1, <2>2 DEF Max
<1>2. CASE ~(x >= y)
  <2>1. \A z \in {x, y} : (\A w \in {x, y} : z >= w) => z = y
    BY <1>2
  <2>2. \A w \in {x, y} : y >= w
    BY <1>2
  <2> QED BY <1>2, <2>1, <2>2 DEF Max
<1> QED BY <1>1, <1>2

\* The unit of a segment at an address that it covers.
Unit(h, a) ==
  IF a - h.paddr < h.filesz THEN <<Candidate(ext), h.offset + a - h.paddr>> ELSE ZERO_UNIT

\* Of the first k segments, n is the last one at an address.
Latest(n, a, k) ==
  /\ n \in 1 .. k /\ Covers(File.table[n], a)
  /\ \A i \in 1 .. k : i > n => ~Covers(File.table[i], a)

Loaded(k) ==
  \A a \in Addresses : \A n \in 1 .. k : Latest(n, a, k) => ram[a] = Unit(File.table[n], a)

\* What each stage has found out about the file.
StageSound ==
  /\ stage \in {"idle", "open", "sniff", "header", "table", "load", "running"}
  /\ stage \in {"sniff", "header", "table", "load", "running"} => Exists(ext)
  /\ stage \in {"header", "table", "load", "running"} => File.elf
  /\ stage \in {"table", "load", "running"} =>
       /\ File.executable
       /\ progIndex \in 0 .. Len(File.table)
       /\ Loaded(progIndex)
  /\ stage = "load" => progIndex < Len(File.table) /\ Header.type = "load"
  /\ stage = "running" => progIndex = Len(File.table)

\* Unless a transfer failed, the extensions before the present one have no file.
Tried == stage # "idle" /\ clean => \A e \in 0 .. ext - 1 : ~Exists(e)

LoaderInv == volume \in Volumes /\ ext \in Nat /\ StageSound /\ Tried

\* The program headers of the open file.
LEMMA TableIs ==
  LoaderInv /\ Exists(ext) => File.table \in Seq(Segments) 
                              /\ File.elf \in BOOLEAN /\ File.executable \in BOOLEAN
<1> SUFFICES ASSUME LoaderInv, Exists(ext)
             PROVE  /\ File.table \in Seq(Segments)
                    /\ File.elf \in BOOLEAN /\ File.executable \in BOOLEAN
  OBVIOUS
<1>1. volume \in Volumes /\ Candidate(ext) \in DOMAIN volume
  BY DEF LoaderInv, Exists
<1> QED BY <1>1, LoaderAssumption DEF File

\* A segment that was read whole covers what came before it at its addresses.
LEMMA SegmentLoaded ==
  ASSUME File.table \in Seq(Segments), progIndex \in 0 .. Len(File.table) - 1,
         Header.type = "load", Loaded(progIndex),
         UNCHANGED <<volume, drive, command, ext>>,
         ram' = Cleared(Filled(ram, Header, Header.filesz), Header),
         progIndex' = progIndex + 1
  PROVE  Loaded(progIndex)'
<1> DEFINE k == progIndex + 1
           h == File.table[k]
<1>1. File' = File /\ Candidate(ext)' = Candidate(ext)
  BY DEF File, Candidate, OnDrive
<1>2. h \in Segments /\ k \in 1 .. Len(File.table) /\ progIndex \in Nat /\ Header = h
  BY DEF Header
<1> HIDE DEF h
<1>3. h.paddr \in Nat /\ h.filesz \in Nat /\ h.memsz \in Nat
  BY <1>2 DEF Segments
<1>4. \A a \in Addresses :
        ram'[a] = IF a - h.paddr \in h.filesz .. h.memsz - 1 THEN ZERO_UNIT
                  ELSE IF a - h.paddr \in 0 .. h.filesz - 1
                  THEN <<Candidate(ext), h.offset + a - h.paddr>> ELSE ram[a]
  BY <1>2 DEF Cleared, Filled
<1>5. ASSUME NEW a \in Addresses
      PROVE  Covers(h, a) <=> \/ a - h.paddr \in 0 .. h.filesz - 1
                              \/ a - h.paddr \in h.filesz .. h.memsz - 1
  <2>1. Max({h.filesz, h.memsz}) = IF h.filesz >= h.memsz THEN h.filesz ELSE h.memsz
    BY <1>3, LargerIs
  <2>2. h.type = "load" /\ a \in Int
    BY <1>2, LoaderAssumption
  <2>3. Covers(h, a) <=> a - h.paddr \in 0 .. (IF h.filesz >= h.memsz THEN h.filesz ELSE h.memsz) - 1
    BY <2>1, <2>2 DEF Covers
  <2> QED BY <1>3, <2>2, <2>3
<1>6. ASSUME NEW a \in Addresses, NEW n \in 1 .. k, Latest(n, a, k)
      PROVE  ram'[a] = Unit(File.table[n], a)
  <2>0. a \in Int
    BY LoaderAssumption
  <2>1. CASE n = k
    <3>1. Covers(h, a)
      BY <1>6, <2>1 DEF Latest, h
    <3>2. ram'[a] = IF a - h.paddr < h.filesz THEN <<Candidate(ext), h.offset + a - h.paddr>>
                    ELSE ZERO_UNIT
      BY <3>1, <1>3, <1>4, <1>5, <2>0
    <3> QED BY <2>1, <3>2 DEF Unit, h
  <2>2. CASE n # k
    <3>1. n \in 1 .. progIndex /\ k > n /\ k \in 1 .. k
      BY <1>2, <2>2
    <3>2. ~Covers(h, a)
      BY <1>6, <3>1 DEF Latest, h
    <3>3. ram'[a] = ram[a]
      BY <3>2, <1>4, <1>5
    <3>4. Latest(n, a, progIndex)
      BY <1>2, <1>6, <3>1 DEF Latest
    <3> QED BY <3>1, <3>3, <3>4 DEF Loaded
  <2> QED BY <2>1, <2>2
<1> QED BY <1>1, <1>2, <1>6 DEF Loaded, Latest, Unit

\* A step that opens nothing and loads nothing leaves the file and what is loaded of it.
LEMMA FileStays ==
  ASSUME UNCHANGED <<volume, drive, command, ext>>
  PROVE  /\ File' = File /\ Candidate(ext)' = Candidate(ext)
         /\ Exists(ext)' = Exists(ext)
         /\ \A e \in 0 .. ext - 1 : Exists(e)' = Exists(e)
BY DEF File, Candidate, OnDrive, Exists

\* What is typed: nothing is open yet.
LEMMA TypeSound == ASSUME NEW c \in Commands PROVE LoaderInv /\ Type(c) => LoaderInv'
<1> SUFFICES ASSUME LoaderInv, Type(c) PROVE LoaderInv'
  OBVIOUS
<1>1. volume' = volume /\ ext' = 0 /\ stage' \in {"idle", "open"}
  BY DEF Type, Exit
<1> QED BY <1>1 DEF LoaderInv, StageSound, Tried

\* The stages in which a file is open.
Opened == {"sniff", "header", "table", "load", "running"}

\* A step that changes neither the file nor memory and moves to a stage that asks
\* for no more than it has found out.
LEMMA StageMoves ==
  ASSUME LoaderInv, UNCHANGED <<volume, drive, command, ext, ram>>,
         stage # "idle", clean' => clean,
         \/ stage' = "idle"
         \/ /\ stage \in Opened /\ stage' \in {"header", "table", "load", "running"} /\ File.elf
            /\ stage' \in {"table", "load", "running"} =>
                 /\ File.executable /\ progIndex' \in 0 .. Len(File.table)
                 /\ Loaded(progIndex')
            /\ stage' = "load" =>
                 progIndex' < Len(File.table) /\ File.table[progIndex' + 1].type = "load"
            /\ stage' = "running" => progIndex' = Len(File.table)
  PROVE  LoaderInv'
<1>1. File' = File /\ Exists(ext)' = Exists(ext)
      /\ \A e \in 0 .. ext - 1 : Exists(e)' = Exists(e)
  BY FileStays
<1>2. Loaded(progIndex)' <=> Loaded(progIndex')
  <2>1. ASSUME NEW h, NEW a PROVE Unit(h, a)' = Unit(h, a)
    BY FileStays DEF Unit
  <2>2. ASSUME NEW n, NEW a, NEW k PROVE Latest(n, a, k)' <=> Latest(n, a, k)
    BY <1>1 DEF Latest, Covers
  <2> QED BY <1>1, <2>1, <2>2 DEF Loaded
<1>3. volume' \in Volumes /\ ext' \in Nat
  BY DEF LoaderInv
<1>4. Tried'
  BY <1>1 DEF LoaderInv, Tried, Opened
<1>5. StageSound'
  BY <1>1, <1>2 DEF LoaderInv, StageSound, Header, Opened
<1> QED BY <1>3, <1>4, <1>5 DEF LoaderInv

\* The extensions are tried in their order.
LEMMA OpenSound == LoaderInv /\ Open => LoaderInv'
<1> SUFFICES ASSUME LoaderInv, Open PROVE LoaderInv'
  OBVIOUS
<1>1. UNCHANGED <<volume, drive, command>> /\ stage = "open" /\ ext \in Nat /\ volume' \in Volumes
  BY DEF Open, LoaderInv
<1>2. ASSUME NEW e \in Nat PROVE Exists(e)' <=> Exists(e)
  BY <1>1 DEF Exists, Candidate, OnDrive
<1>3. CASE Exists(ext) /\ Works /\ Exit("sniff") /\ UNCHANGED ext
  <2>1. stage' = "sniff" /\ ext' = ext /\ clean' = clean
    BY <1>3 DEF Exit, Works
  <2>2. Exists(ext)'
    BY <1>1, <1>3, <2>1 DEF Exists, Candidate, OnDrive
  <2>3. StageSound'
    BY <2>1, <2>2 DEF StageSound
  <2>4. Tried'
    BY <1>1, <1>2, <2>1 DEF Tried, LoaderInv
  <2> QED BY <1>1, <2>1, <2>3, <2>4 DEF LoaderInv
<1>4. CASE /\ (~Exists(ext) /\ Works) \/ Fails
           /\ IF ext < NUM_FILE_EXTENSIONS THEN ext' = ext + 1 /\ Exit("open")
              ELSE Exit("idle") /\ UNCHANGED ext
  <2>1. clean' => clean /\ ~Exists(ext)
    BY <1>4 DEF Works, Fails
  <2>2. (stage' = "open" /\ ext' = ext + 1) \/ (stage' = "idle" /\ ext' = ext)
    BY <1>4 DEF Exit
  <2>3. StageSound'
    BY <2>2 DEF StageSound
  <2>4. ASSUME clean', NEW e \in 0 .. ext PROVE ~Exists(e)
    <3>1. e = ext \/ e \in 0 .. ext - 1
      BY <1>1
    <3> QED BY <1>1, <2>1, <2>4, <3>1 DEF LoaderInv, Tried
  <2>5. Tried'
    <3>1. stage' # "idle" => ext' - 1 = ext
      BY <1>1, <2>2
    <3>2. \A e \in 0 .. ext : e \in Nat
      BY <1>1
    <3> QED BY <1>2, <2>4, <3>1, <3>2 DEF Tried
  <2> QED BY <1>1, <2>2, <2>3, <2>5 DEF LoaderInv
<1> QED BY <1>3, <1>4 DEF Open

\* The magic number, the header and the program headers are read.
LEMMA ReadsHeaders == LoaderInv /\ (Sniff \/ ReadHeader \/ ReadProgHeader) => LoaderInv'
<1> SUFFICES ASSUME LoaderInv, Sniff \/ ReadHeader \/ ReadProgHeader PROVE LoaderInv'
  OBVIOUS
<1>1. UNCHANGED <<volume, drive, command, ext, ram>> /\ stage \in {"sniff", "header", "table"}
  BY DEF Sniff, ReadHeader, ReadProgHeader
<1>2. clean' => clean
  BY DEF Sniff, ReadHeader, ReadProgHeader, Outcome, Works, Fails
<1>3. /\ File.table \in Seq(Segments)
      /\ File.elf \in BOOLEAN /\ File.executable \in BOOLEAN
  BY <1>1, TableIs DEF LoaderInv, StageSound
<1>4. CASE Sniff
  <2>1. stage = "sniff" /\ (stage' = "idle" \/ (stage' = "header" /\ File.elf))
    BY <1>4 DEF Sniff, Exit
  <2> QED BY <1>1, <1>2, <2>1, StageMoves DEF Opened
<1>5. CASE ReadHeader
  <2>1. /\ stage = "header" /\ progIndex' = 0
        /\ stage' = "idle" \/ (stage' = "table" /\ File.executable)
    BY <1>5 DEF ReadHeader
  <2>2. File.elf /\ 0 \in 0 .. Len(File.table)
    BY <1>3, <2>1 DEF LoaderInv, StageSound
  <2>3. Loaded(0)
    BY DEF Loaded
  <2> QED BY <1>1, <1>2, <2>1, <2>2, <2>3, StageMoves DEF Opened
<1>6. CASE ReadProgHeader
  <2>1. /\ stage = "table" /\ progIndex < Len(File.table)
        /\ \/ stage' = "idle"
           \/ stage' = "load" /\ progIndex' = progIndex /\ Header.type = "load"
           \/ stage' = "table" /\ progIndex' = progIndex + 1 /\ Header.type # "load"
    BY <1>6 DEF ReadProgHeader, Exit
  <2>2. /\ File.elf /\ File.executable /\ progIndex \in 0 .. Len(File.table)
        /\ Loaded(progIndex)
    BY <2>1 DEF LoaderInv, StageSound
  <2>3. Len(File.table) \in Nat
    BY <1>3
  <2>4. CASE stage' = "idle"
    BY <1>1, <1>2, <2>4, StageMoves
  <2>5. CASE stage' = "load" /\ progIndex' = progIndex /\ Header.type = "load"
    BY <1>1, <1>2, <2>1, <2>2, <2>5, StageMoves DEF Opened, Header
  <2>6. CASE stage' = "table" /\ progIndex' = progIndex + 1 /\ Header.type # "load"
    <3>1. progIndex + 1 \in 0 .. Len(File.table)
      BY <2>1, <2>2, <2>3
    <3>2. ASSUME NEW a PROVE ~Covers(File.table[progIndex + 1], a)
      BY <2>6 DEF Covers, Header
    <3>3. Loaded(progIndex + 1)
      <4> SUFFICES ASSUME NEW a \in Addresses, NEW n \in 1 .. progIndex + 1,
                          Latest(n, a, progIndex + 1)
                   PROVE  ram[a] = Unit(File.table[n], a)
        BY DEF Loaded
      <4>1. n # progIndex + 1
        BY <3>2 DEF Latest
      <4>2. n \in 1 .. progIndex
        BY <2>2, <4>1
      <4>3. Latest(n, a, progIndex)
        BY <2>2, <4>2 DEF Latest
      <4> QED BY <2>2, <4>2, <4>3 DEF Loaded
    <3> QED BY <1>1, <1>2, <2>1, <2>2, <2>6, <3>1, <3>3, StageMoves DEF Opened
  <2> QED BY <2>1, <2>4, <2>5, <2>6
<1> QED BY <1>4, <1>5, <1>6

\* The program is entered behind its last header, and ends.
LEMMA EnterSound == LoaderInv /\ (Enter \/ Return) => LoaderInv'
<1> SUFFICES ASSUME LoaderInv, Enter \/ Return PROVE LoaderInv'
  OBVIOUS
<1>1. UNCHANGED <<volume, drive, command, ext, ram, clean>>
  BY DEF Enter, Return
<1>2. CASE Enter
  <2>1. /\ stage = "table" /\ stage' = "running" /\ progIndex' = progIndex
        /\ progIndex = Len(File.table)
    BY <1>2 DEF Enter, Exit
  <2>2. /\ File.elf /\ File.executable /\ progIndex \in 0 .. Len(File.table)
        /\ Loaded(progIndex)
    BY <2>1 DEF LoaderInv, StageSound
  <2> QED BY <1>1, <2>1, <2>2, StageMoves DEF Opened
<1>3. CASE Return
  BY <1>1, <1>3, StageMoves DEF Return, Exit
<1> QED BY <1>2, <1>3

\* A segment is loaded, or the command ends.
LEMMA LoadSegmentSound == LoaderInv /\ LoadSegment => LoaderInv'
<1> SUFFICES ASSUME LoaderInv, LoadSegment PROVE LoaderInv'
  OBVIOUS
<1>1. UNCHANGED <<volume, drive, command, ext>> /\ stage = "load"
  BY DEF LoadSegment
<1>2. clean' => clean
  BY DEF LoadSegment, Outcome, Works, Fails
<1>3. /\ File.table \in Seq(Segments) /\ File.elf /\ File.executable /\ Exists(ext)
      /\ progIndex \in 0 .. Len(File.table) - 1 /\ Header.type = "load"
      /\ Loaded(progIndex)
  BY <1>1, TableIs DEF LoaderInv, StageSound
<1>4. \/ stage' = "idle"
      \/ /\ stage' = "table" /\ progIndex' = progIndex + 1
         /\ ram' = Cleared(Filled(ram, Header, Header.filesz), Header)
  BY DEF LoadSegment, Whole, Exit
<1>5. volume' \in Volumes /\ ext' \in Nat /\ File' = File /\ Exists(ext)'
      /\ \A e \in 0 .. ext - 1 : Exists(e)' = Exists(e)
  BY <1>1, <1>3, FileStays DEF LoaderInv
<1>6. Tried'
  BY <1>1, <1>2, <1>5 DEF LoaderInv, Tried
<1>7. StageSound'
  <2>1. CASE stage' = "idle"
    BY <2>1 DEF StageSound
  <2>2. CASE stage' # "idle"
    <3>1. stage' = "table" /\ progIndex' = progIndex + 1
          /\ ram' = Cleared(Filled(ram, Header, Header.filesz), Header)
      BY <1>4, <2>2
    <3>2. Loaded(progIndex)'
      BY <1>1, <1>3, <3>1, SegmentLoaded
    <3>3. progIndex' \in 0 .. Len(File.table)
      BY <1>3, <3>1
    <3> QED BY <1>3, <1>5, <3>1, <3>2, <3>3 DEF StageSound
  <2> QED BY <2>1, <2>2
<1> QED BY <1>5, <1>6, <1>7 DEF LoaderInv

(* A program runs only when all of it is in memory, whatever is missing from *)
(* its file, whichever transfer failed and whatever was loaded before, and   *)
(* then it is the first file with the name typed unless a transfer failed:   *)
(* for every content of the drives and any number of commands                *)
(* (shell/decodecmd.c).                                                      *)
THEOREM ProgramsWhole == LoaderSpec => []RunsWhatWasTyped
<1>1. LoaderInit => LoaderInv
  BY DEF LoaderInit, LoaderInv, StageSound, Tried
<1>2. LoaderInv /\ [LoaderNext]_loaderVars => LoaderInv'
  <2> SUFFICES ASSUME LoaderInv, [LoaderNext]_loaderVars PROVE LoaderInv'
    OBVIOUS
  <2>1. CASE UNCHANGED loaderVars
    BY ZenonT(40), <2>1 DEF loaderVars, LoaderInv, StageSound, Tried, Exists, Candidate, OnDrive, File,
       Header, Loaded, Latest, Unit
  <2> QED BY <2>1, TypeSound, OpenSound, ReadsHeaders, EnterSound, LoadSegmentSound DEF LoaderNext
<1>3. LoaderInv => RunsWhatWasTyped
  <2> SUFFICES ASSUME LoaderInv, stage = "running"
               PROVE  WholeProgram /\ (clean => \A e \in 0 .. ext - 1 : ~Exists(e))
    BY DEF RunsWhatWasTyped
  <2>1. /\ Exists(ext) /\ File.elf /\ File.executable /\ Loaded(Len(File.table))
        /\ clean => \A e \in 0 .. ext - 1 : ~Exists(e)
    BY DEF LoaderInv, StageSound, Tried
  <2>2. File.table \in Seq(Segments)
    BY <2>1, TableIs
  <2>3. ASSUME NEW a \in Addresses, \E h \in {File.table[i] : i \in DOMAIN File.table} : Covers(h, a)
        PROVE  ram[a] = Expected(a)
    <3> DEFINE S == {i \in DOMAIN File.table : Covers(File.table[i], a)}
               n == Max(S)
    <3>1. Len(File.table) \in Nat /\ DOMAIN File.table = 1 .. Len(File.table)
      BY <2>2
    <3>2. S \in SUBSET (1 .. Len(File.table)) /\ S # {}
      BY <2>3, <3>1
    <3>3. n \in S /\ \A y \in S : n >= y
      BY <3>1, <3>2, GreatestIs
    <3> HIDE DEF n
    <3>4. Latest(n, a, Len(File.table))
      <4>1. n \in 1 .. Len(File.table) /\ Covers(File.table[n], a)
        BY <3>1, <3>3
      <4>2. ASSUME NEW i \in 1 .. Len(File.table), i > n, Covers(File.table[i], a) PROVE FALSE
        <5>1. i \in S
          BY <3>1, <4>2
        <5> QED BY <3>1, <3>3, <4>1, <4>2, <5>1
      <4> QED BY <4>1, <4>2 DEF Latest
    <3>5. ram[a] = Unit(File.table[n], a)
      BY <2>1, <3>1, <3>3, <3>4 DEF Loaded
    <3>6. Expected(a) = Unit(File.table[n], a)
      BY DEF Expected, Unit, n
    <3> QED BY <3>5, <3>6
  <2> QED BY <2>1, <2>3 DEF WholeProgram
<1> QED BY <1>1, <1>2, <1>3, PTL DEF LoaderSpec

-----------------------------------------------------------------------------
(* The S-record command.                                                   *)

\* What is known of the lines, whatever is in them.
LineIs(r) ==
  /\ r.type \in -2 .. 9
  /\ r.type = -1 <=> r = EmptyLine
  /\ r.type = -2 <=> r = NotARecord
  /\ r.type \in 0 .. 9 => (r.count - AddressBytes(r.type)) % 256 \in 0 .. 255
  /\ r.type \in 0 .. 3 =>
       /\ r.data \in Seq(Nat) /\ r.address \in Nat /\ Len(r.data) \in 0 .. 2
       /\ (r.count - AddressBytes(r.type)) % 256 = Len(r.data) + 1

\* That is so of every line.
LEMMA LinesAre == ASSUME NEW r \in Lines PROVE LineIs(r)
<1>1. ASSUME NEW t \in {0, 1, 2, 3, 7, 8, 9}, NEW a \in Nat, NEW d \in Seq(Nat), Len(d) \in 0 .. 2,
             r = Record(t, a, d)
      PROVE  LineIs(r)
  <2>1. r.type = t /\ r.data = d /\ r.address = a /\ r.count = AddressBytes(t) + Len(d) + 1
    BY <1>1 DEF Record
  <2>2. AddressBytes(t) \in Nat
    BY DEF AddressBytes
  <2>3. r # EmptyLine /\ r # NotARecord
    BY <2>1 DEF EmptyLine, NotARecord
  <2>4. (r.count - AddressBytes(r.type)) % 256 = Len(d) + 1
    <3>1. PICK n \in 0 .. 2, m \in Nat : n = Len(d) /\ m = AddressBytes(t)
      BY <1>1, <2>2
    <3>2. r.count - AddressBytes(r.type) = n + 1
      BY <2>1, <3>1
    <3>3. (n + 1) % 256 = n + 1
      OBVIOUS
    <3> QED BY <3>1, <3>2, <3>3
  <2>5. Len(d) + 1 \in 0 .. 255
    <3>1. \A n \in 0 .. 2 : n + 1 \in 0 .. 255
      OBVIOUS
    <3> QED BY <1>1, <3>1
  <2>6. /\ r.type \in -2 .. 9 /\ r.type # -1 /\ r.type # -2
        /\ r.data \in Seq(Nat) /\ r.address \in Nat /\ Len(r.data) \in 0 .. 2
        /\ (r.count - AddressBytes(r.type)) % 256 = Len(r.data) + 1
        /\ (r.count - AddressBytes(r.type)) % 256 \in 0 .. 255
    BY <1>1, <2>1, <2>4, <2>5
  <2> QED BY <2>3, <2>6 DEF LineIs
<1>2. CASE r = EmptyLine \/ r = NotARecord
  <2>1. EmptyLine.type = -1 /\ NotARecord.type = -2
    BY DEF EmptyLine, NotARecord
  <2>2. r.type \in {-1, -2} /\ r.type \notin 0 .. 9 /\ r.type \notin 0 .. 3
    BY <1>2, <2>1
  <2> QED BY <1>2, <2>1, <2>2 DEF LineIs
<1>3. /\ <<>> \in Seq(Nat) /\ Len(<<>>) \in 0 .. 2
      /\ <<7>> \in Seq(Nat) /\ Len(<<7>>) \in 0 .. 2
      /\ <<5>> \in Seq(Nat) /\ Len(<<5>>) \in 0 .. 2
      /\ <<6, 5>> \in Seq(Nat) /\ Len(<<6, 5>>) \in 0 .. 2
  OBVIOUS
<1>4. \/ r = EmptyLine \/ r = NotARecord
      \/ r = Record(0, 0, <<7>>) \/ r = Record(1, 0, <<5>>) \/ r = Record(2, 1, <<6, 5>>)
      \/ r = Record(3, 1, <<>>)
      \/ r = Record(7, 0, <<>>) \/ r = Record(8, 0, <<>>) \/ r = Record(9, 0, <<>>)
  BY DEF Lines
<1> QED BY ONLY <1>1, <1>2, <1>3, <1>4

\* A record that stores something at an address.
StoresAt(r, a) == r.type \in 1 .. 3 /\ a - r.address \in 0 .. Len(r.data) - 1
ByteAt(r, a) == r.data[a - r.address + 1]

\* The last of the first k lines of a file that store at a, if there is one.
LastAt(f, a, k, n) ==
  /\ n \in 1 .. k /\ StoresAt(f[n], a)
  /\ \A i \in 1 .. k : StoresAt(f[i], a) => i <= n

\* Value v is what the first k lines of the file leave at a.
LeftBy(k, a, v) ==
  /\ \A n \in 1 .. k : LastAt(file, a, k, n) => v = ByteAt(file[n], a)
  /\ (\A n \in 1 .. k : ~StoresAt(file[n], a)) => v = before[a]

\* That is what Stored says.
LEMMA StoredIs ==
  ASSUME file \in Seq(Lines), NEW k \in 0 .. Len(file), NEW a \in Memory, NEW v, LeftBy(k, a, v)
  PROVE  v = Stored(SubSeq(file, 1, k), a)
<1> DEFINE f == SubSeq(file, 1, k)
           I == {i \in 1 .. Len(f) : StoresAt(f[i], a)}
           n == IF I # {} THEN Max(I) ELSE 0
<1>1. Stored(f, a) = IF n = 0 THEN before[a] ELSE f[n].data[a - f[n].address + 1]
  BY DEF Stored, SelectLastInSeq, StoresAt
<1>2. Len(f) = k /\ \A i \in 1 .. k : f[i] = file[i]
  OBVIOUS
<1> SUFFICES v = Stored(f, a)
  OBVIOUS
<1> HIDE DEF f
<1>3. CASE I = {}
  <2>1. \A i \in 1 .. k : ~StoresAt(file[i], a)
    BY <1>2, <1>3
  <2>2. v = before[a]
    BY <2>1 DEF LeftBy
  <2> QED BY <1>1, <1>3, <2>2
<1>4. CASE I # {}
  <2>1. I \in SUBSET (1 .. k) /\ k \in Nat
    BY <1>2
  <2>2. Max(I) \in I /\ \A i \in I : Max(I) >= i
    BY <1>4, <2>1, GreatestIs
  <2> DEFINE m == Max(I)
  <2> HIDE DEF m
  <2>3. m \in 1 .. k /\ StoresAt(f[m], a) /\ \A i \in 1 .. k : StoresAt(f[i], a) => i <= m
    BY <1>2, <2>2 DEF m
  <2>4. LastAt(file, a, k, m)
    BY <1>2, <2>3 DEF LastAt
  <2>5. v = ByteAt(f[m], a)
    BY <1>2, <2>3, <2>4 DEF LeftBy
  <2>6. n = m /\ n # 0
    BY <1>4, <2>3 DEF m
  <2> QED BY <1>1, <2>5, <2>6 DEF ByteAt
<1> QED BY <1>3, <1>4

\* Where a complete file ends, and what comes before that.
LEMMA EndIs ==
  ASSUME NEW f \in Seq(Lines), IsComplete(f)
  PROVE  /\ EndOf(f) \in 1 .. Len(f) /\ f[EndOf(f)].type \in {8, 9}
         /\ \A i \in 1 .. Len(f) : f[i].type \in {8, 9} => EndOf(f) <= i
         /\ \A i \in 1 .. EndOf(f) : f[i] # NotARecord
<1> DEFINE I == {i \in 1 .. Len(f) : f[i].type \in {8, 9}}
<1>1. EndOf(f) = IF I # {} THEN Min(I) ELSE 0
  BY DEF EndOf, SelectInSeq
<1>2. I # {} /\ EndOf(f) = Min(I) /\ NotARecord \notin ToSet(SubSeq(f, 1, EndOf(f)))
  BY <1>1 DEF IsComplete
<1>3. Min(I) \in I /\ \A i \in I : Min(I) <= i
  BY <1>2, LeastIs, I \in SUBSET Nat
<1>4. EndOf(f) \in 1 .. Len(f)
  BY <1>2, <1>3
<1>5. ASSUME NEW i \in 1 .. EndOf(f) PROVE f[i] # NotARecord
  <2>1. i \in DOMAIN SubSeq(f, 1, EndOf(f)) /\ SubSeq(f, 1, EndOf(f))[i] = f[i]
    BY <1>4
  <2> QED BY <1>2, <2>1 DEF ToSet
<1> QED BY <1>2, <1>3, <1>4, <1>5

\* A line that stores nothing at an address changes nothing there, and one that
\* does leaves its byte.
LEMMA NextLineLeaves ==
  ASSUME NEW k \in Nat \ {0}, NEW a, NEW v,
         \/ ~StoresAt(file[k], a) /\ LeftBy(k - 1, a, v)
         \/ StoresAt(file[k], a) /\ v = ByteAt(file[k], a)
  PROVE  LeftBy(k, a, v)
<1>1. CASE ~StoresAt(file[k], a) /\ LeftBy(k - 1, a, v)
  <2>1. ASSUME NEW n \in 1 .. k, LastAt(file, a, k, n) PROVE v = ByteAt(file[n], a)
    <3>1. n # k
      BY <1>1, <2>1 DEF LastAt
    <3>2. n \in 1 .. k - 1
      BY <3>1
    <3>3. LastAt(file, a, k - 1, n)
      BY <2>1, <3>2 DEF LastAt
    <3> QED BY <1>1, <3>2, <3>3 DEF LeftBy
  <2>2. ASSUME \A n \in 1 .. k : ~StoresAt(file[n], a) PROVE v = before[a]
    BY <1>1, <2>2 DEF LeftBy
  <2> QED BY <2>1, <2>2 DEF LeftBy
<1>2. CASE StoresAt(file[k], a) /\ v = ByteAt(file[k], a)
  <2>1. ASSUME NEW n \in 1 .. k, LastAt(file, a, k, n) PROVE n = k
    BY <1>2, <2>1 DEF LastAt
  <2> QED BY <1>2, <2>1 DEF LeftBy
<1> QED BY <1>1, <1>2

\* The loader is in the buffer, which begins with the file, and in a record it
\* has as many bytes to read as the record has data and a checksum.
SrecTypeOK ==
  /\ buffer \in Seq(Lines) /\ file \in Seq(Lines)
  /\ lineno \in Nat \ {0}
  /\ memory \in [Memory -> Nat] /\ before \in [Memory -> Nat]
  /\ data_len \in 0 .. 255 /\ index \in Nat
  /\ loader \in {"idle", "line", "data", "failed"}
  /\ received \in Nat

FileBuffered ==
  Len(file) <= Len(buffer) /\ \A i \in 1 .. Len(file) : buffer[i] = file[i]

InRecord ==
  loader = "data" =>
    /\ lineno <= Len(buffer) /\ Current.type \in 0 .. 3
    /\ data_len \in 1 .. 3 /\ index + data_len = Len(Current.data) + 1

\* What is at an address while a record is being read.
PartLeft(a) ==
  IF Current.type \in 1 .. 3 /\ a - Current.address \in 0 .. index - 1
    THEN memory[a] = ByteAt(Current, a)
    ELSE LeftBy(lineno - 1, a, memory[a])

\* What has been stored of a complete file.
Progress ==
  IsComplete(file) =>
    /\ loader = "line" => lineno <= EndOf(file)
                          /\ \A a \in Memory : LeftBy(lineno - 1, a, memory[a])
    /\ loader = "data" => lineno < EndOf(file) /\ \A a \in Memory : PartLeft(a)
    /\ loader = "idle" => \A a \in Memory : LeftBy(EndOf(file), a, memory[a])

SrecInv == SrecTypeOK /\ FileBuffered /\ InRecord /\ Progress

\* The line read_srecord is at, which a whole file has until its last record.
LEMMA CurrentIs ==
  ASSUME SrecInv
  PROVE  /\ Current \in Lines
         /\ lineno <= Len(buffer) => Current = buffer[lineno]
         /\ Current # EmptyLine => lineno <= Len(buffer)
         /\ IsComplete(file) /\ Loading =>
              /\ lineno <= EndOf(file) /\ EndOf(file) \in 1 .. Len(file)
              /\ lineno \in 1 .. Len(file) /\ lineno <= Len(buffer)
              /\ Current = file[lineno] /\ Current # NotARecord
              /\ Current.type \in {8, 9} <=> lineno = EndOf(file)
<1>1. lineno <= Len(buffer) => Current = buffer[lineno] /\ Current \in Lines
  BY DEF SrecInv, SrecTypeOK, Current
<1>2. ~(lineno <= Len(buffer)) => Current = EmptyLine /\ Current \in Lines
  BY DEF SrecInv, SrecTypeOK, Current, Lines
<1>3. ASSUME IsComplete(file), Loading
      PROVE  /\ lineno <= EndOf(file) /\ EndOf(file) \in 1 .. Len(file)
             /\ lineno \in 1 .. Len(file) /\ lineno <= Len(buffer)
             /\ Current = file[lineno] /\ Current # NotARecord
             /\ Current.type \in {8, 9} <=> lineno = EndOf(file)
  <2>1. file \in Seq(Lines) /\ buffer \in Seq(Lines) /\ lineno \in Nat \ {0}
    BY DEF SrecInv, SrecTypeOK
  <2>2. EndOf(file) \in 1 .. Len(file) /\ file[EndOf(file)].type \in {8, 9}
        /\ (\A i \in 1 .. Len(file) : file[i].type \in {8, 9} => EndOf(file) <= i)
        /\ (\A i \in 1 .. EndOf(file) : file[i] # NotARecord)
    BY <1>3, <2>1, EndIs
  <2>3. PICK e \in 1 .. Len(file) : e = EndOf(file)
    BY <2>2
  <2>4. lineno <= e
    BY <1>3, <2>1, <2>3 DEF SrecInv, Progress, Loading
  <2>5. lineno \in 1 .. Len(file) /\ lineno <= Len(buffer) /\ buffer[lineno] = file[lineno]
    BY <2>1, <2>3, <2>4 DEF SrecInv, FileBuffered
  <2>6. Current = file[lineno]
    BY <1>1, <2>5
  <2>7. Current # NotARecord
    BY <2>1, <2>2, <2>3, <2>4, <2>6
  <2>8. Current.type \in {8, 9} <=> lineno = e
    BY <2>1, <2>2, <2>3, <2>4, <2>5, <2>6
  <2> QED BY <2>3, <2>4, <2>5, <2>6, <2>7, <2>8
<1> QED BY <1>1, <1>2, <1>3
\* What a step that reads no data of a record keeps.
LEMMA LinePassed ==
  ASSUME SrecInv, Loading, NextLine,
         UNCHANGED <<buffer, memory, file, before, received>>,
         loader' \in {"line", "idle"}, data_len' \in 0 .. 255, index' \in Nat,
         IsComplete(file) => \A a \in Memory : LeftBy(lineno, a, memory[a]),
         IsComplete(file) => (loader' = "idle" <=> lineno = EndOf(file))
  PROVE  SrecInv'
<1>1. SrecTypeOK'
  BY DEF SrecInv, SrecTypeOK, NextLine
<1>2. FileBuffered'
  BY DEF SrecInv, FileBuffered
<1>3. InRecord'
  BY DEF InRecord
<1>4. ASSUME IsComplete(file)
      PROVE  /\ loader' = "line" => lineno' <= EndOf(file)
                                    /\ \A a \in Memory : LeftBy(lineno' - 1, a, memory[a])
             /\ loader' = "idle" => \A a \in Memory : LeftBy(EndOf(file), a, memory[a])
  <2>1. lineno <= EndOf(file) /\ EndOf(file) \in 1 .. Len(file) /\ lineno <= Len(buffer)
    BY <1>4, CurrentIs
  <2>2. lineno' = lineno + 1 /\ lineno \in Nat /\ lineno' - 1 = lineno
    BY <2>1 DEF NextLine, SrecInv, SrecTypeOK
  <2>3. PICK e \in Nat, n \in Nat : e = EndOf(file) /\ n = lineno
    BY <2>1, <2>2
  <2>4. loader' = "line" => lineno' <= EndOf(file)
    BY <1>4, <2>1, <2>2, <2>3
  <2> QED BY <1>4, <2>2, <2>3, <2>4
<1>5. Progress'
  BY <1>4 DEF Progress, LeftBy, LastAt
<1> QED BY <1>1, <1>2, <1>3, <1>5 DEF SrecInv

\* A line passed, rejected or begun keeps the invariant.
LEMMA LinesRead == SrecInv /\ (SkipEmpty \/ Reject \/ ReadRecord) => SrecInv'
<1>1. ASSUME SrecInv, loader = "line", IsComplete(file), NEW a \in Memory,
             ~(Current.type \in 1 .. 3)
      PROVE  LeftBy(lineno, a, memory[a])
  <2>1. Current = file[lineno] /\ lineno \in Nat \ {0}
    BY <1>1, CurrentIs DEF Loading, SrecInv, SrecTypeOK
  <2>2. ~StoresAt(file[lineno], a)
    BY <1>1, <2>1 DEF StoresAt
  <2>3. LeftBy(lineno - 1, a, memory[a])
    BY <1>1 DEF SrecInv, Progress
  <2> QED BY <2>1, <2>2, <2>3, NextLineLeaves
<1>2. SrecInv /\ SkipEmpty => SrecInv'
  <2> SUFFICES ASSUME SrecInv, SkipEmpty PROVE SrecInv'
    OBVIOUS
  <2>1. Current.type = -1
    BY DEF SkipEmpty, EmptyLine
  <2>2. IsComplete(file) => lineno # EndOf(file)
    BY <2>1, CurrentIs DEF SkipEmpty, Loading
  <2>3. IsComplete(file) => \A a \in Memory : LeftBy(lineno, a, memory[a])
    BY <1>1, <2>1 DEF SkipEmpty
  <2>4. data_len \in 0 .. 255 /\ index \in Nat
    BY DEF SrecInv, SrecTypeOK
  <2> QED BY <2>2, <2>3, <2>4, LinePassed DEF SkipEmpty, Loading, history
<1>3. SrecInv /\ Reject => SrecInv'
  <2> SUFFICES ASSUME SrecInv, Reject PROVE SrecInv'
    OBVIOUS
  <2>1. ~IsComplete(file)
    BY CurrentIs DEF Reject, Loading
  <2> QED BY <2>1 DEF Reject, history, SrecInv, SrecTypeOK, FileBuffered, InRecord, Progress
<1>4. SrecInv /\ ReadRecord => SrecInv'
  <2> SUFFICES ASSUME SrecInv, ReadRecord PROVE SrecInv'
    OBVIOUS
  <2>1. /\ loader = "line" /\ Current # EmptyLine /\ Current # NotARecord
        /\ data_len' = (Current.count - AddressBytes(Current.type)) % 256 /\ index' = 0
        /\ UNCHANGED <<buffer, memory, file, before, received>>
    BY DEF ReadRecord, history
  <2>2. LineIs(Current) /\ Current.type \in 0 .. 9 /\ lineno <= Len(buffer)
    <3>1. LineIs(Current) /\ lineno <= Len(buffer)
      BY <2>1, LinesAre, CurrentIs
    <3>2. Current.type # -1 /\ Current.type # -2 /\ Current.type \in -2 .. 9
      BY <2>1, <3>1 DEF LineIs
    <3> QED BY <3>1, <3>2
  <2>3. CASE Current.type \in 0 .. 3
    <3>1. loader' = "data" /\ lineno' = lineno /\ Current' = Current
      BY <2>1, <2>3 DEF ReadRecord, Current
    <3>2. PICK d \in 0 .. 2 : d = Len(Current.data)
      BY <2>2, <2>3 DEF LineIs
    <3>3. data_len' = d + 1
      BY <2>1, <2>2, <2>3, <3>2 DEF LineIs
    <3>4. data_len' \in 1 .. 3 /\ index' + data_len' = d + 1
      BY <2>1, <3>3
    <3>5. SrecTypeOK' /\ FileBuffered' /\ InRecord'
      <4>1. SrecTypeOK'
        BY <2>1, <3>1, <3>4 DEF SrecInv, SrecTypeOK
      <4>2. FileBuffered'
        BY <2>1 DEF SrecInv, FileBuffered
      <4>3. Current'.type \in 0 .. 3 /\ Len(Current'.data) = d
        BY <2>3, <3>1, <3>2
      <4>4. lineno' <= Len(buffer') /\ index' + data_len' = Len(Current'.data) + 1
        BY <2>1, <2>2, <3>1, <3>4, <4>3
      <4> QED BY <3>4, <4>1, <4>2, <4>3, <4>4 DEF InRecord
    <3>6. ASSUME IsComplete(file)
          PROVE  lineno < EndOf(file) /\ \A a \in Memory : PartLeft(a)'
      <4>1. lineno <= EndOf(file) /\ lineno # EndOf(file) /\ EndOf(file) \in 1 .. Len(file)
            /\ lineno \in 1 .. Len(file)
        BY <2>1, <2>3, <3>6, CurrentIs DEF Loading
      <4>2. lineno < EndOf(file)
        BY <4>1
      <4>3. ASSUME NEW a \in Memory PROVE PartLeft(a)'
        <5>1. LeftBy(lineno - 1, a, memory[a])
          BY <2>1, <3>6 DEF SrecInv, Progress
        <5>2. LeftBy(lineno - 1, a, memory[a])'
          BY <2>1, <3>1, <5>1 DEF LeftBy, LastAt
        <5>3. 0 .. index' - 1 = {}
          BY <2>1
        <5> QED BY <5>2, <5>3 DEF PartLeft
      <4> QED BY <4>2, <4>3
    <3> QED BY <2>1, <3>1, <3>5, <3>6 DEF SrecInv, Progress
  <2>4. CASE ~(Current.type \in 0 .. 3)
    <3>1. loader' = (IF Ends(Current.type) THEN "idle" ELSE "line") /\ NextLine
      BY <2>4 DEF ReadRecord
    <3>2. IsComplete(file) => (loader' = "idle" <=> lineno = EndOf(file))
      BY <2>1, <3>1, CurrentIs DEF Loading, Ends
    <3>3. IsComplete(file) => \A a \in Memory : LeftBy(lineno, a, memory[a])
      BY <1>1, <2>1, <2>4
    <3>4. data_len' \in 0 .. 255
      BY <2>1, <2>2 DEF LineIs
    <3> QED BY <2>1, <3>1, <3>2, <3>3, <3>4, LinePassed DEF Loading
  <2> QED BY <2>3, <2>4
<1> QED BY <1>2, <1>3, <1>4

\* A byte of a record is stored where the record says.
LEMMA DataRead == SrecInv /\ ReadData => SrecInv'
<1> SUFFICES ASSUME SrecInv, ReadData PROVE SrecInv'
  OBVIOUS
<1>1. /\ loader = "data" /\ data_len # 1
      /\ data_len' = (data_len - 1) % 256 /\ index' = index + 1
      /\ UNCHANGED <<buffer, lineno, loader, file, before, received>>
      /\ Current' = Current
  BY DEF ReadData, NoData, history, Current
<1>2. /\ LineIs(Current) /\ lineno <= Len(buffer) /\ Current.type \in 0 .. 3
      /\ index \in Nat /\ data_len \in 1 .. 3 /\ index + data_len = Len(Current.data) + 1
      /\ Current.data \in Seq(Nat) /\ Len(Current.data) \in Nat /\ Current.address \in Nat
  <2>1. lineno <= Len(buffer) /\ Current.type \in 0 .. 3 /\ data_len \in 1 .. 3
        /\ index + data_len = Len(Current.data) + 1 /\ index \in Nat
    BY <1>1 DEF SrecInv, SrecTypeOK, InRecord
  <2>2. LineIs(Current)
    BY CurrentIs, LinesAre
  <2>3. Current.data \in Seq(Nat) /\ Current.address \in Nat /\ Len(Current.data) \in Nat
    BY <2>1, <2>2 DEF LineIs
  <2> QED BY <2>1, <2>2, <2>3
<1>3. PICK i \in Nat, n \in 2 .. 3, d \in Nat, x \in Nat :
        i = index /\ n = data_len /\ d = Len(Current.data) /\ x = Current.address
  <2>1. data_len \in 2 .. 3
    BY <1>1, <1>2
  <2> QED BY <1>2, <2>1
<1>4. data_len' = n - 1 /\ index' = i + 1 /\ i + n = d + 1 /\ i < d
  BY <1>1, <1>2, <1>3
<1>5. memory' = IF Current.type = 0 THEN memory
                ELSE [memory EXCEPT ![x + i] = Current.data[i + 1]]
  BY <1>3, <1>4 DEF ReadData
<1>6. Current.data[i + 1] \in Nat
  <2>1. i + 1 \in 1 .. d
    BY <1>4
  <2> QED BY <1>2, <1>3, <2>1
<1>7. memory \in [Memory -> Nat]
  BY DEF SrecInv, SrecTypeOK
<1>8. memory' \in [Memory -> Nat]
  BY <1>5, <1>6, <1>7
<1>9. ASSUME NEW a \in Memory
      PROVE  memory'[a] = IF Current.type # 0 /\ a = x + i THEN Current.data[i + 1] ELSE memory[a]
  BY <1>5, <1>7
<1>10. SrecTypeOK'
  BY <1>1, <1>3, <1>4, <1>8 DEF SrecInv, SrecTypeOK
<1>11. FileBuffered' /\ InRecord'
  BY <1>1, <1>2, <1>3, <1>4 DEF SrecInv, FileBuffered, InRecord
<1>12. ASSUME IsComplete(file), NEW a \in Memory PROVE PartLeft(a)'
  <2>1. a \in Nat
    BY SrecordAssumption
  <2>2. PartLeft(a)
    BY <1>1, <1>12 DEF SrecInv, Progress
  <2>3. CASE Current.type \in 1 .. 3 /\ a - x \in 0 .. i
    <3>1. memory'[a] = ByteAt(Current, a)
      <4>1. CASE a = x + i
        <5>1. a - x + 1 = i + 1
          BY <2>1, <4>1
        <5>2. memory'[a] = Current.data[i + 1]
          BY <1>9, <2>3, <4>1
        <5>3. ByteAt(Current, a) = Current.data[a - x + 1]
          BY <1>3 DEF ByteAt
        <5> QED BY <5>1, <5>2, <5>3
      <4>2. CASE a # x + i
        <5>1. a - x \in 0 .. i - 1
          BY <2>1, <2>3, <4>2
        <5> QED BY <1>3, <1>9, <2>2, <2>3, <4>2, <5>1 DEF PartLeft
      <4> QED BY <4>1, <4>2
    <3>2. index' - 1 = i
      BY <1>4
    <3> QED BY <1>1, <1>3, <2>3, <3>1, <3>2 DEF PartLeft, ByteAt
  <2>4. CASE ~(Current.type \in 1 .. 3 /\ a - x \in 0 .. i)
    <3>1. ~(Current.type # 0 /\ a = x + i)
      BY <1>2, <2>1, <2>4
    <3>2. ~(Current.type \in 1 .. 3 /\ a - x \in 0 .. i - 1)
      BY <2>1, <2>4
    <3>3. LeftBy(lineno - 1, a, memory[a]) /\ memory'[a] = memory[a]
      BY <1>3, <1>9, <2>2, <3>1, <3>2 DEF PartLeft
    <3>4. LeftBy(lineno - 1, a, memory[a])'
      BY <1>1, <3>3 DEF LeftBy, LastAt
    <3>5. index' - 1 = i
      BY <1>4
    <3> QED BY <1>1, <1>3, <2>4, <3>4, <3>5 DEF PartLeft
  <2> QED BY <2>3, <2>4
<1>13. Progress'
  BY <1>1, <1>12 DEF SrecInv, Progress
<1> QED BY <1>10, <1>11, <1>13 DEF SrecInv

\* The end of a record leaves all its bytes in memory.
LEMMA DataEnds == SrecInv /\ RecordEnds => SrecInv'
<1> SUFFICES ASSUME SrecInv, RecordEnds PROVE SrecInv'
  OBVIOUS
<1>1. loader = "data" /\ data_len = 1 /\ data_len' = 0 /\ loader' = "line" /\ NextLine
      /\ UNCHANGED <<buffer, memory, index, file, before, received>>
  BY DEF RecordEnds, NoData, history
<1>2. /\ LineIs(Current) /\ Current.type \in 0 .. 3 /\ index \in Nat
      /\ index = Len(Current.data) /\ lineno \in Nat \ {0} /\ Current.address \in Nat
  <2>1. Current.type \in 0 .. 3 /\ index + 1 = Len(Current.data) + 1 /\ index \in Nat
        /\ lineno \in Nat \ {0}
    BY <1>1 DEF SrecInv, SrecTypeOK, InRecord
  <2>2. LineIs(Current)
    BY CurrentIs, LinesAre
  <2>3. Len(Current.data) \in Nat /\ Current.address \in Nat
    BY <2>1, <2>2 DEF LineIs
  <2> QED BY <2>1, <2>2, <2>3
<1>3. ASSUME IsComplete(file), NEW a \in Memory PROVE LeftBy(lineno, a, memory[a])
  <2>1. Current = file[lineno] /\ PartLeft(a)
    BY <1>1, <1>3, CurrentIs DEF SrecInv, Progress, Loading
  <2>2. CASE StoresAt(Current, a)
    <3>1. memory[a] = ByteAt(Current, a)
      BY <1>2, <2>1, <2>2 DEF PartLeft, StoresAt
    <3> QED BY <1>2, <2>1, <2>2, <3>1, NextLineLeaves
  <2>3. CASE ~StoresAt(Current, a)
    <3>1. LeftBy(lineno - 1, a, memory[a])
      BY <1>2, <2>1, <2>3 DEF PartLeft, StoresAt
    <3> QED BY <1>2, <2>1, <2>3, <3>1, NextLineLeaves
  <2> QED BY <2>2, <2>3
<1>4. IsComplete(file) => lineno # EndOf(file)
  BY <1>1, <1>2, CurrentIs DEF Loading
<1> QED BY <1>1, <1>2, <1>3, <1>4, LinePassed DEF Loading

\* A new file begins with nothing of it stored.
LEMMA DownloadSound ==
  ASSUME SrecInv, NEW f \in Files(MaxLines - received), Download(f)
  PROVE  SrecInv'
<1>1. received \in Nat /\ MaxLines \in Nat /\ buffer \in Seq(Lines)
  BY SrecordAssumption DEF SrecInv, SrecTypeOK
<1>2. PICK n \in 1 .. MaxLines - received : f \in [1 .. n -> Lines]
  BY DEF Files
<1>3. f \in Seq(Lines) /\ Len(f) = n /\ n \in Nat
  BY <1>1, <1>2
<1>4. PICK rest \in UNION {OrCut(r) : r \in Leftovers} : buffer' = f \o rest
  BY DEF Download
<1>5. rest \in Seq(Lines)
  <2>1. PICK r \in Leftovers : rest \in OrCut(r)
    BY <1>4
  <2>2. r \in Seq(Lines)
    <3>1. PICK m \in 1 .. Len(buffer) + 1 : r = SubSeq(buffer, m, Len(buffer))
      BY <2>1 DEF Leftovers
    <3>2. Len(buffer) \in Nat
      BY <1>1
    <3> QED BY <1>1, <3>1, <3>2
  <2>3. NotARecord \in Lines
    BY DEF Lines
  <2>4. <<NotARecord>> \o r \in Seq(Lines)
    BY <2>2, <2>3
  <2> QED BY <2>1, <2>2, <2>4 DEF OrCut
<1>6. /\ lineno' = 1 /\ loader' = "line" /\ file' = f /\ before' = memory
      /\ received' = received + Len(f) /\ UNCHANGED <<memory, data_len, index>>
  BY DEF Download
<1>7. SrecTypeOK'
  BY <1>1, <1>3, <1>4, <1>5, <1>6 DEF SrecInv, SrecTypeOK
<1>8. FileBuffered'
  BY <1>3, <1>4, <1>5, <1>6 DEF FileBuffered
<1>9. InRecord'
  BY <1>6 DEF InRecord
<1>10. ASSUME IsComplete(f), NEW a \in Memory PROVE 1 <= EndOf(f) /\ LeftBy(lineno - 1, a, memory[a])'
  <2>1. 1 <= EndOf(f)
    BY <1>3, <1>10, EndIs
  <2>2. LeftBy(lineno - 1, a, memory[a])'
    BY <1>6 DEF LeftBy
  <2> QED BY <2>1, <2>2
<1>11. IsComplete(f) => 1 <= EndOf(f)
  BY <1>3, EndIs
<1>12. Progress'
  BY <1>6, <1>10, <1>11 DEF Progress
<1> QED BY <1>7, <1>8, <1>9, <1>12 DEF SrecInv

\* The invariant holds at first and is kept by the command.
LEMMA SrecSound ==
  /\ SrecInit => SrecInv
  /\ SrecInv /\ [SrecNext]_srecVars => SrecInv'
<1>1. SrecInit => SrecInv
  <2> SUFFICES ASSUME SrecInit PROVE SrecInv
    OBVIOUS
  <2>1. ~IsComplete(<<>>)
    <3>1. EndOf(<<>>) = 0
      BY DEF EndOf, SelectInSeq
    <3> QED BY <3>1 DEF IsComplete
  <2> QED BY <2>1 DEF SrecInit, Nothing, SrecInv, SrecTypeOK, FileBuffered, InRecord, Progress
<1>2. SrecInv /\ [SrecNext]_srecVars => SrecInv'
  <2> SUFFICES ASSUME SrecInv, [SrecNext]_srecVars PROVE SrecInv'
    OBVIOUS
  <2>1. CASE UNCHANGED srecVars
    BY <2>1 DEF srecVars, SrecInv, SrecTypeOK, FileBuffered, InRecord, Progress, PartLeft, LeftBy, LastAt, Current
  <2> QED BY <2>1, LinesRead, DataRead, DataEnds, DownloadSound DEF SrecNext, Load
<1> QED BY <1>1, <1>2

(* Once it has loaded a file with an end, the srec command has stored what the *)
(* records say, the last one at each address, and nothing else: whatever an    *)
(* earlier download left in the buffer, and for any number of downloads        *)
(* (libraries/srecord.c, shell/commands.c:71).                                 *)
THEOREM LoadFaithful == SrecSpec => []LoadIsFaithful
<1>1. SrecInv => LoadIsFaithful
  <2> SUFFICES ASSUME SrecInv, loader = "idle", IsComplete(file)
               PROVE  memory = [a \in Memory |-> Stored(SubSeq(file, 1, EndOf(file)), a)]
    BY DEF LoadIsFaithful
  <2>1. file \in Seq(Lines) /\ memory \in [Memory -> Nat]
    BY DEF SrecInv, SrecTypeOK
  <2>2. EndOf(file) \in 0 .. Len(file)
    BY <2>1, EndIs
  <2>3. ASSUME NEW a \in Memory PROVE memory[a] = Stored(SubSeq(file, 1, EndOf(file)), a)
    <3>1. LeftBy(EndOf(file), a, memory[a])
      BY DEF SrecInv, Progress
    <3> QED BY <2>1, <2>2, <3>1, StoredIs
  <2> QED BY <2>1, <2>3
<1> QED BY <1>1, SrecSound, PTL DEF SrecSpec

-----------------------------------------------------------------------------
(* The clock.                                                              *)

\* The first of the accesses to a field, the units first in a read and the tens
\* first in a write; the day of the week has one digit.
ReadPlace(f) ==
  CASE f = "hour" -> 1 [] f = "min" -> 3 [] f = "sec" -> 5 [] f = "day" -> 7
    [] f = "month" -> 9 [] f = "year" -> 11 [] f = "dow" -> 13
WritePlace(f) ==
  CASE f = "year" -> 1 [] f = "month" -> 3 [] f = "day" -> 5 [] f = "hour" -> 7
    [] f = "min" -> 9 [] f = "sec" -> 11 [] f = "dow" -> 13

\* The accesses of a read, in their order.
LEMMA ReadOrderIs ==
  /\ Len(ReadOrder) = 13
  /\ \A n \in 1 .. 13 : \E f \in Fields, w \in {1, 10} :
       /\ ReadOrder[n] = <<f, w>> /\ (f = "dow" => w = 1)
       /\ n = ReadPlace(f) + (IF w = 10 THEN 1 ELSE 0)
<1>1. /\ Len(ReadOrder) = 13
      /\ ReadOrder[1] = <<"hour", 1>> /\ ReadOrder[2] = <<"hour", 10>>
      /\ ReadOrder[3] = <<"min", 1>> /\ ReadOrder[4] = <<"min", 10>>
      /\ ReadOrder[5] = <<"sec", 1>> /\ ReadOrder[6] = <<"sec", 10>>
      /\ ReadOrder[7] = <<"day", 1>> /\ ReadOrder[8] = <<"day", 10>>
      /\ ReadOrder[9] = <<"month", 1>> /\ ReadOrder[10] = <<"month", 10>>
      /\ ReadOrder[11] = <<"year", 1>> /\ ReadOrder[12] = <<"year", 10>>
      /\ ReadOrder[13] = <<"dow", 1>>
  BY DEF ReadOrder, Weekday
<1>2. /\ ReadPlace("hour") = 1 /\ ReadPlace("min") = 3 /\ ReadPlace("sec") = 5
      /\ ReadPlace("day") = 7 /\ ReadPlace("month") = 9 /\ ReadPlace("year") = 11
      /\ ReadPlace("dow") = 13
  BY DEF ReadPlace
<1>3. ASSUME NEW n \in 1 .. 13
      PROVE  \E f \in Fields, w \in {1, 10} :
               /\ ReadOrder[n] = <<f, w>> /\ (f = "dow" => w = 1)
               /\ n = ReadPlace(f) + (IF w = 10 THEN 1 ELSE 0)
  <2>1. n \in {1, 2, 3, 4, 5, 6, 7, 8, 9, 10, 11, 12, 13}
    OBVIOUS
  <2> QED BY <1>1, <1>2, <2>1 DEF Fields
<1> QED BY <1>1, <1>3

\* The accesses of a write, in their order.
LEMMA WriteOrderIs ==
  /\ Len(WriteOrder) = 13
  /\ \A n \in 1 .. 13 : \E f \in Fields, w \in {1, 10} :
       /\ WriteOrder[n] = <<f, w>> /\ (f = "dow" => w = 1)
       /\ n = WritePlace(f) + (IF w = 1 /\ f # "dow" THEN 1 ELSE 0)
<1>1. /\ Len(WriteOrder) = 13
      /\ WriteOrder[1] = <<"year", 10>> /\ WriteOrder[2] = <<"year", 1>>
      /\ WriteOrder[3] = <<"month", 10>> /\ WriteOrder[4] = <<"month", 1>>
      /\ WriteOrder[5] = <<"day", 10>> /\ WriteOrder[6] = <<"day", 1>>
      /\ WriteOrder[7] = <<"hour", 10>> /\ WriteOrder[8] = <<"hour", 1>>
      /\ WriteOrder[9] = <<"min", 10>> /\ WriteOrder[10] = <<"min", 1>>
      /\ WriteOrder[11] = <<"sec", 10>> /\ WriteOrder[12] = <<"sec", 1>>
      /\ WriteOrder[13] = <<"dow", 1>>
  BY DEF WriteOrder, Weekday
<1>2. /\ WritePlace("year") = 1 /\ WritePlace("month") = 3 /\ WritePlace("day") = 5
      /\ WritePlace("hour") = 7 /\ WritePlace("min") = 9 /\ WritePlace("sec") = 11
      /\ WritePlace("dow") = 13
  BY DEF WritePlace
<1>3. ASSUME NEW n \in 1 .. 13
      PROVE  \E f \in Fields, w \in {1, 10} :
               /\ WriteOrder[n] = <<f, w>> /\ (f = "dow" => w = 1)
               /\ n = WritePlace(f) + (IF w = 1 /\ f # "dow" THEN 1 ELSE 0)
  <2>1. n \in {1, 2, 3, 4, 5, 6, 7, 8, 9, 10, 11, 12, 13}
    OBVIOUS
  <2> QED BY <1>1, <1>2, <2>1 DEF Fields
<1> QED BY <1>1, <1>3

\* The accesses to different fields are different.
LEMMA PlacesApart ==
  ASSUME NEW f \in Fields, NEW g \in Fields, f # g
  PROVE  /\ ReadPlace(f) \in 1 .. 13 /\ WritePlace(f) \in 1 .. 13
         /\ ReadPlace(g) \notin {ReadPlace(f), ReadPlace(f) + 1}
         /\ ReadPlace(g) + 1 \notin {ReadPlace(f), ReadPlace(f) + 1}
         /\ WritePlace(g) \notin {WritePlace(f), WritePlace(f) + 1}
         /\ WritePlace(g) + 1 \notin {WritePlace(f), WritePlace(f) + 1}
BY DEF Fields, ReadPlace, WritePlace

\* Units, tens and what becomes of a digit that is put in their place.
LEMMA DigitsIs ==
  ASSUME NEW v \in Nat, NEW w \in Nat
  PROVE  /\ v % 10 \in 0 .. 9 /\ v \div 10 \in Nat /\ v = 10 * (v \div 10) + (v % 10)
         /\ PutDigit(v, 1, Digit(w, 1)) = 10 * (v \div 10) + (w % 10)
         /\ PutDigit(v, 10, Digit(w, 10)) = 10 * (w \div 10) + (v % 10)
<1>1. /\ v % 10 \in 0 .. 9 /\ v \div 10 \in Nat /\ v = 10 * (v \div 10) + (v % 10)
      /\ w % 10 \in 0 .. 9 /\ w \div 10 \in Nat
  OBVIOUS
<1> QED BY <1>1 DEF PutDigit, Digit

\* What the registers may hold, also in the middle of a call that sets them.
IsClock(t) == t \in [Fields -> Nat] /\ t.sec < 60 /\ t.dow < 10

\* Two times between which only the last digit of the seconds changes.
Agrees(t, u) ==
  /\ \A f \in Fields \ {"sec"} : t[f] = u[f]
  /\ t["sec"] \div 10 = u["sec"] \div 10

\* The date of a read after n accesses, if they were all made at time t.
PartRead(t, n) ==
  [f \in Fields |-> IF ReadPlace(f) + 1 <= n THEN t[f]
                    ELSE IF ReadPlace(f) <= n THEN t[f] % 10 ELSE 0]

RtcTypeOK ==
  /\ IsClock(clock) /\ \A t \in seen : IsClock(t)
  /\ carried \in BOOLEAN /\ fresh \in Nat
  /\ rtc.does \in {"nothing", "get", "set"}
  /\ rtc.does # "nothing" =>
       rtc \in [does : {"get", "set"}, next : 1 .. 14, date : [Fields -> Nat], asked : [Fields -> Nat]]
  /\ rtc.does = "set" => IsClock(rtc.date) /\ rtc.date = rtc.asked

\* All that was read so far was shown at one time of the call.
GetSound ==
  rtc.does = "get" /\ ~carried =>
    IF Idle THEN rtc.date \in seen
    ELSE /\ clock \in seen /\ \A t \in seen : Agrees(t, clock)
         /\ \E t \in seen : rtc.date = PartRead(t, rtc.next - 1)

\* The digits that were written so far are there, and the seconds go on from them.
SetSound ==
  rtc.does = "set" /\ ~carried =>
    /\ \A f \in Fields \ {"dow"} :
         rtc.next > WritePlace(f) => clock[f] \div 10 = rtc.date[f] \div 10
    /\ \A f \in Fields \ {"dow", "sec"} :
         rtc.next > WritePlace(f) + 1 => clock[f] = rtc.date[f]
    /\ rtc.next > 12 => clock["sec"] = rtc.date["sec"] + fresh
    /\ rtc.next > 13 => clock["dow"] = rtc.date["dow"]

RtcInv == RtcTypeOK /\ GetSound /\ SetSound

\* A time with one field changed.
LEMMA PutField ==
  ASSUME NEW t \in [Fields -> Nat], NEW f \in Fields, NEW v \in Nat
  PROVE  /\ [t EXCEPT ![f] = v] \in [Fields -> Nat] /\ [t EXCEPT ![f] = v][f] = v
         /\ \A g \in Fields \ {f} : [t EXCEPT ![f] = v][g] = t[g]
OBVIOUS

\* What a date is, and what the day after one is.
Dates == [day : Nat, month : Nat, year : Nat, dow : Nat]

\* The fields of the day after.
LEMMA DayAfterIs ==
  ASSUME NEW d \in Dates
  PROVE  LET n == DaysIn(d.month, d.year)
             e == DayAfter(d)
         IN  /\ e.day = IF d.day = n THEN 1 ELSE d.day + 1
             /\ e.month = IF d.day < n THEN d.month ELSE IF d.month = 12 THEN 1 ELSE d.month + 1
             /\ e.year = IF d.day = 31 /\ d.month = 12 THEN d.year + 1 ELSE d.year
             /\ e.dow = (d.dow + 1) % 7
<1> DEFINE n == DaysIn(d.month, d.year)
           a == (d.dow + 1) % 7
           b == IF d.day = n THEN 1 ELSE d.day + 1
           c == IF d.day < n THEN d.month ELSE IF d.month = 12 THEN 1 ELSE d.month + 1
           y == IF d.day = 31 /\ d.month = 12 THEN d.year + 1 ELSE d.year
<1>1. DayAfter(d) = [d EXCEPT !.dow = a, !.day = b, !.month = c, !.year = y]
  BY DEF DayAfter
<1>2. d = [day |-> d.day, month |-> d.month, year |-> d.year, dow |-> d.dow]
  BY DEF Dates
<1> HIDE DEF a, b, c, y
<1>3. DayAfter(d).dow = a
  BY <1>1, <1>2
<1>4. DayAfter(d).day = b
  BY <1>1, <1>2
<1>5. DayAfter(d).month = c
  BY <1>1, <1>2
<1>6. DayAfter(d).year = y
  BY <1>1, <1>2
<1> QED BY <1>3, <1>4, <1>5, <1>6 DEF a, b, c, y

\* The day after a date is a date.
LEMMA DayAfterDate ==
  ASSUME NEW d \in Dates
  PROVE  /\ DayAfter(d).day \in Nat /\ DayAfter(d).month \in Nat
         /\ DayAfter(d).year \in {d.year, d.year + 1} /\ DayAfter(d).dow \in 0 .. 6
<1>1. d.day \in Nat /\ d.month \in Nat /\ d.year \in Nat /\ d.dow \in Nat
  BY DEF Dates
<1>2. (d.dow + 1) % 7 \in 0 .. 6
  BY <1>1
<1> QED BY <1>1, <1>2, DayAfterIs

\* A second later the registers still hold what they may hold, and unless a digit
\* rolls over only the seconds are one more.
LEMMA SecondIs ==
  ASSUME NEW t, IsClock(t)
  PROVE  /\ IsClock(SecondAfter(t))
         /\ t["sec"] % 10 # 9 =>
              /\ \A f \in Fields \ {"sec"} : SecondAfter(t)[f] = t[f]
              /\ SecondAfter(t)["sec"] = t["sec"] + 1
              /\ (t["sec"] + 1) \div 10 = t["sec"] \div 10
<1> DEFINE later == [t EXCEPT
                  !.sec = (@ + 1) % 60,
                  !.min = IF t.sec = 59 THEN (@ + 1) % 60 ELSE @,
                  !.hour = IF t.sec = 59 /\ t.min = 59 THEN (@ + 1) % 24 ELSE @]
<1>0. t \in [Fields -> Nat] /\ t["sec"] \in 0 .. 59 /\ t["min"] \in Nat /\ t["hour"] \in Nat
      /\ t["dow"] \in 0 .. 9 /\ t["year"] \in Nat /\ t["month"] \in Nat /\ t["day"] \in Nat
  BY DEF IsClock, Fields
<1>1. /\ (t["sec"] + 1) % 60 \in 0 .. 59 /\ (t["min"] + 1) % 60 \in Nat
      /\ (t["hour"] + 1) % 24 \in Nat
  BY <1>0
<1>2. later \in [Fields -> Nat] /\ later["sec"] = (t["sec"] + 1) % 60 /\ later["dow"] = t["dow"]
  <2> DEFINE a == (t.sec + 1) % 60
             b == IF t.sec = 59 THEN (t.min + 1) % 60 ELSE t.min
             c == IF t.sec = 59 /\ t.min = 59 THEN (t.hour + 1) % 24 ELSE t.hour
  <2>1. a \in Nat /\ b \in Nat /\ c \in Nat /\ a = (t["sec"] + 1) % 60
    BY <1>0, <1>1
  <2>2. later = [t EXCEPT !.sec = a, !.min = b, !.hour = c]
    OBVIOUS
  <2> HIDE DEF later, a, b, c
  <2> QED BY <1>0, <2>1, <2>2 DEF Fields
<1>3. IsClock(later)
  BY <1>0, <1>1, <1>2 DEF IsClock
<1>4. t["sec"] % 10 # 9 =>
        /\ \A f \in Fields \ {"sec"} : later[f] = t[f]
        /\ later["sec"] = t["sec"] + 1
        /\ (t["sec"] + 1) \div 10 = t["sec"] \div 10
  <2> SUFFICES ASSUME t["sec"] % 10 # 9
               PROVE  /\ \A f \in Fields \ {"sec"} : later[f] = t[f]
                      /\ later["sec"] = t["sec"] + 1
                      /\ (t["sec"] + 1) \div 10 = t["sec"] \div 10
    OBVIOUS
  <2>1. t["sec"] # 59 /\ (t["sec"] + 1) % 60 = t["sec"] + 1
        /\ (t["sec"] + 1) \div 10 = t["sec"] \div 10
    BY <1>0
  <2>2. \A f \in Fields \ {"sec"} : later[f] = t[f]
    BY <1>0, <2>1 DEF Fields
  <2> QED BY <1>2, <2>1, <2>2
<1> HIDE DEF later
<1>5. IsClock(Midnight(later))
  <2> DEFINE d0 == [day |-> later.day, month |-> later.month, year |-> 2000 + later.year,
                    dow |-> later.dow]
             d == DayAfter(d0)
  <2>0. later["day"] \in Nat /\ later["month"] \in Nat /\ later["year"] \in Nat /\ later["dow"] \in Nat
    BY <1>2 DEF Fields
  <2>1. d0 \in Dates /\ d0.year = 2000 + later["year"]
    BY <2>0 DEF Dates
  <2>2. d.day \in Nat /\ d.month \in Nat /\ d.year \in {d0.year, d0.year + 1} /\ d.dow \in 0 .. 6
    BY <2>1, DayAfterDate
  <2>3. Midnight(later) = [later EXCEPT !.day = d.day, !.month = d.month,
                                        !.year = (d.year - 2000) % 100, !.dow = d.dow]
    BY DEF Midnight
  <2> HIDE DEF d, d0
  <2>4. d.year - 2000 \in Nat /\ (d.year - 2000) % 100 \in Nat
    BY <2>0, <2>1, <2>2
  <2> DEFINE x == [later EXCEPT !.day = d.day]
             y == [x EXCEPT !.month = d.month]
             z == [y EXCEPT !.year = (d.year - 2000) % 100]
             w == [z EXCEPT !.dow = d.dow]
  <2>5. Midnight(later) = w
    BY <2>3
  <2>6. {"day", "month", "year", "dow", "sec"} \subseteq Fields
    BY DEF Fields
  <2>7. x \in [Fields -> Nat] /\ x["sec"] = later["sec"]
    BY <1>2, <2>2, <2>6, PutField
  <2> HIDE DEF x
  <2>8. y \in [Fields -> Nat] /\ y["sec"] = later["sec"]
    BY <2>2, <2>6, <2>7, PutField
  <2> HIDE DEF y
  <2>9. z \in [Fields -> Nat] /\ z["sec"] = later["sec"]
    BY <2>4, <2>6, <2>8, PutField
  <2> HIDE DEF z
  <2>10. w \in [Fields -> Nat] /\ w["sec"] = later["sec"] /\ w["dow"] = d.dow
    BY <2>2, <2>6, <2>9, PutField
  <2> HIDE DEF w
  <2> QED BY <1>3, <2>2, <2>5, <2>10 DEF IsClock
<1>6. SecondAfter(t) = IF t.sec = 59 /\ t.min = 59 /\ t.hour = 23 THEN Midnight(later) ELSE later
  BY DEF SecondAfter, later
<1>7. t["sec"] % 10 # 9 => SecondAfter(t) = later
  BY <1>0, <1>6
<1> QED BY <1>3, <1>4, <1>5, <1>6, <1>7

\* A second goes by during a call or outside of one.
LEMMA SecondSound == RtcInv /\ SecondGoesBy => RtcInv'
<1> SUFFICES ASSUME RtcInv, SecondGoesBy PROVE RtcInv'
  OBVIOUS
<1>1. /\ clock' = SecondAfter(clock) /\ fresh' = fresh + 1 /\ rtc' = rtc
      /\ seen' = IF Idle THEN seen ELSE seen \cup {clock'}
      /\ carried' = (carried \/ clock["sec"] % 10 = 9)
  BY DEF SecondGoesBy
<1>2. IsClock(clock) /\ IsClock(clock') /\ fresh \in Nat
  BY <1>1, SecondIs DEF RtcInv, RtcTypeOK
<1>3. RtcTypeOK'
  BY <1>1, <1>2 DEF RtcInv, RtcTypeOK
<1>4. ASSUME ~carried'
      PROVE  /\ ~carried /\ Agrees(clock, clock') /\ clock'["sec"] = clock["sec"] + 1
             /\ \A t : Agrees(t, clock) => Agrees(t, clock')
  <2>1. /\ \A f \in Fields \ {"sec"} : clock'[f] = clock[f]
        /\ clock'["sec"] = clock["sec"] + 1
        /\ (clock["sec"] + 1) \div 10 = clock["sec"] \div 10
    BY <1>1, <1>2, <1>4, SecondIs
  <2> QED BY <1>1, <1>4, <2>1 DEF Agrees
<1>5. GetSound'
  <2> SUFFICES ASSUME rtc.does = "get", ~carried'
               PROVE  IF Idle THEN rtc.date \in seen'
                      ELSE /\ clock' \in seen' /\ \A t \in seen' : Agrees(t, clock')
                           /\ \E t \in seen' : rtc.date = PartRead(t, rtc.next - 1)
    BY <1>1 DEF GetSound, Idle
  <2>1. IF Idle THEN rtc.date \in seen
        ELSE /\ clock \in seen /\ \A t \in seen : Agrees(t, clock)
             /\ \E t \in seen : rtc.date = PartRead(t, rtc.next - 1)
    BY <1>4 DEF RtcInv, GetSound
  <2>2. Agrees(clock', clock')
    BY DEF Agrees
  <2> QED BY <1>1, <1>4, <2>1, <2>2
<1>6. SetSound'
  <2> SUFFICES ASSUME rtc.does = "set", ~carried' PROVE SetSound'
    BY <1>1 DEF SetSound
  <2>1. SetSound /\ ~carried
    BY <1>4 DEF RtcInv
  <2>2. rtc.date["sec"] \in Nat /\ clock["sec"] \in Nat
    BY <1>2 DEF RtcInv, RtcTypeOK, IsClock, Fields
  <2>3. /\ \A f \in Fields \ {"sec"} : clock'[f] = clock[f]
        /\ clock'["sec"] \div 10 = clock["sec"] \div 10
        /\ clock'["sec"] = clock["sec"] + 1
    BY <1>4 DEF Agrees
  <2>4. \A f \in Fields : clock'[f] \div 10 = clock[f] \div 10
    BY <2>3
  <2>5. /\ \A f \in Fields \ {"dow"} :
             rtc.next > WritePlace(f) => clock[f] \div 10 = rtc.date[f] \div 10
        /\ \A f \in Fields \ {"dow", "sec"} :
             rtc.next > WritePlace(f) + 1 => clock[f] = rtc.date[f]
        /\ rtc.next > 12 => clock["sec"] = rtc.date["sec"] + fresh
        /\ rtc.next > 13 => clock["dow"] = rtc.date["dow"]
    BY <2>1 DEF SetSound
  <2>6. rtc.next > 12 => clock'["sec"] = rtc.date["sec"] + fresh'
    BY <1>1, <1>2, <2>2, <2>3, <2>5
  <2>7. rtc.next > 13 => clock'["dow"] = rtc.date["dow"]
    BY <2>3, <2>5 DEF Fields
  <2>8. \A f \in Fields \ {"dow"} :
          rtc.next > WritePlace(f) => clock'[f] \div 10 = rtc.date[f] \div 10
    BY <2>4, <2>5
  <2>9. \A f \in Fields \ {"dow", "sec"} :
          rtc.next > WritePlace(f) + 1 => clock'[f] = rtc.date[f]
    BY <2>3, <2>5
  <2> QED BY <1>1, <2>6, <2>7, <2>8, <2>9 DEF SetSound
<1> QED BY <1>3, <1>5, <1>6 DEF RtcInv

\* The days of the years before, and those of the months from March on.
YearDays(y) == y + y \div 4 - y \div 100 + y \div 400
MonthDays(m) == (13 * (m + 12 * Adjustment(m) - 2) - 1) \div 5

\* What dayofweek adds up.
LEMMA DayOfWeekSum ==
  ASSUME NEW day \in Int, NEW month \in 1 .. 12, NEW year \in Int
  PROVE  DayOfWeek(day, month, year) =
           (day + MonthDays(month) + YearDays(year - Adjustment(month))) % 7
<1> DEFINE a == Adjustment(month)
           m == (13 * (month + 12 * a - 2) - 1) \div 5
           y == year - a
<1>1. a \in Int /\ m \in Int
  BY DEF Adjustment
<1>2. y \in Int
  BY <1>1
<1>3. /\ DayOfWeek(day, month, year) = (day + m + y + y \div 4 - y \div 100 + y \div 400) % 7
      /\ m = MonthDays(month) /\ YearDays(year - Adjustment(month)) = y + y \div 4 - y \div 100 + y \div 400
  BY DEF DayOfWeek, MonthDays, YearDays
<1> HIDE DEF a, m, y
<1>4. y \div 4 \in Int /\ y \div 100 \in Int /\ y \div 400 \in Int
  BY <1>2
<1>5. day + m + y + y \div 4 - y \div 100 + y \div 400
        = day + m + (y + y \div 4 - y \div 100 + y \div 400)
  BY <1>1, <1>2, <1>4
<1> QED BY <1>3, <1>5

\* A year is a day longer than 52 weeks, a leap year another one.
LEMMA YearDaysIs ==
  ASSUME NEW y \in Nat, y > 0
  PROVE  /\ YearDays(y) \in Int /\ YearDays(y - 1) \in Int
         /\ YearDays(y) = YearDays(y - 1) + (IF Leap(y) THEN 2 ELSE 1)
<1>1. y \div 4 \in Int /\ y \div 4 - (y - 1) \div 4 = IF y % 4 = 0 THEN 1 ELSE 0
  OBVIOUS
<1>2. y \div 100 \in Int /\ y \div 100 - (y - 1) \div 100 = IF y % 100 = 0 THEN 1 ELSE 0
  OBVIOUS
<1>3. y \div 400 \in Int /\ y \div 400 - (y - 1) \div 400 = IF y % 400 = 0 THEN 1 ELSE 0
  OBVIOUS
<1>4. (y - 1) \div 4 \in Int /\ (y - 1) \div 100 \in Int /\ (y - 1) \div 400 \in Int
  OBVIOUS
<1>5. (y % 400 = 0 => y % 100 = 0) /\ (y % 100 = 0 => y % 4 = 0)
  OBVIOUS
<1> QED BY <1>1, <1>2, <1>3, <1>4, <1>5 DEF YearDays, Leap

\* The days from March to the beginning of each month, plus two.
LEMMA MonthDaysIs ==
  /\ MonthDays(3) = 2 /\ MonthDays(4) = 5 /\ MonthDays(5) = 7 /\ MonthDays(6) = 10
  /\ MonthDays(7) = 12 /\ MonthDays(8) = 15 /\ MonthDays(9) = 18 /\ MonthDays(10) = 20
  /\ MonthDays(11) = 23 /\ MonthDays(12) = 25 /\ MonthDays(1) = 28 /\ MonthDays(2) = 31
  /\ Adjustment(1) = 1 /\ Adjustment(2) = 1 /\ \A m \in 3 .. 12 : Adjustment(m) = 0
BY DEF MonthDays, Adjustment

\* The times of the clock have the day of the week that dayofweek gives.
LEMMA TimesAre ==
  ASSUME NEW t \in Times
  PROVE  /\ t \in [Fields -> Nat] /\ t.sec < 60 /\ t.dow \in 0 .. 6
         /\ t.dow = DayOfWeek(t.day, t.month, 2000 + t.year)
<1>1. /\ t \in [Fields -> Nat] /\ t.sec < 60 /\ t.month \in 1 .. 12 /\ t.year < 100
      /\ t.dow = CountedWeekday(t.day, t.month, t.year)
  BY RtcAssumption
<1>2. PICK d \in Nat, m \in 1 .. 12, y \in 0 .. 99 : d = t.day /\ m = t.month /\ y = t.year
  <2>1. t.day \in Nat /\ t.year \in 0 .. 99
    BY <1>1 DEF Fields
  <2> QED BY <1>1, <2>1
<1> DEFINE S == d + MonthDays(m) + YearDays((2000 + y) - Adjustment(m))
           D == DaysBefore[m]
           C == 6 + 365 * y + (y + 3) \div 4 + D + (IF m > 2 /\ y % 4 = 0 THEN 1 ELSE 0) + d - 1
<1>3. DayOfWeek(d, m, 2000 + y) = S % 7
  <2>1. d \in Int /\ 2000 + y \in Int
    OBVIOUS
  <2> QED BY <2>1, DayOfWeekSum
<1>4. t.dow = C % 7
  <2>1. t.dow = CountedWeekday(d, m, y)
    BY <1>1, <1>2
  <2> QED BY <2>1 DEF CountedWeekday
<1>5. C \in Int /\ \E k \in Int : S = C + 7 * k
  <2>1. CASE m \in {1, 2}
    <3>1. PICK q \in Int : q = (y + 3) \div 4
      OBVIOUS
    <3>2. YearDays(1999 + y) = 2483 + y + q
      <4>1. (1999 + y) \div 4 = 499 + q
        BY <3>1
      <4>2. (1999 + y) \div 100 - (1999 + y) \div 400 = 15
        OBVIOUS
      <4> QED BY <4>1, <4>2 DEF YearDays
    <3>3. Adjustment(m) = 1 /\ (2000 + y) - 1 = 1999 + y
      BY <2>1, MonthDaysIs
    <3>5. D \in Int /\ MonthDays(m) = D + 28 + 7 * (4 - 4 * m)
      <4>1. MonthDays(1) = 28 /\ MonthDays(2) = 31 /\ DaysBefore[1] = 0 /\ DaysBefore[2] = 31
        BY MonthDaysIs DEF DaysBefore
      <4> QED BY <2>1, <4>1
    <3>4. PICK i \in Int : i = 4 - 4 * m
      OBVIOUS
    <3>6. S = d + (D + 28 + 7 * i) + (2483 + y + q)
      BY <3>2, <3>3, <3>4, <3>5
    <3>7. C = 5 + 365 * y + q + D + d
      BY <2>1, <3>1, <3>5
    <3> HIDE DEF S, C, D
    <3>10. PICK k \in Int : k = i + 358 - 52 * y
      OBVIOUS
    <3>11. S = C + 7 * k /\ C \in Int
      BY <3>5, <3>6, <3>7, <3>10
    <3> QED BY <3>11
  <2>2. CASE m \in 3 .. 12
    <3>1. PICK q \in Int : q = y \div 4
      OBVIOUS
    <3>2. YearDays(2000 + y) = 2485 + y + q
      <4>1. (2000 + y) \div 4 = 500 + q
        BY <3>1
      <4>2. (2000 + y) \div 100 = 20 /\ (2000 + y) \div 400 = 5
        OBVIOUS
      <4> QED BY <4>1, <4>2 DEF YearDays
    <3>3. Adjustment(m) = 0 /\ (2000 + y) - 0 = 2000 + y
      BY <2>2, MonthDaysIs
    <3>4. (y + 3) \div 4 + (IF m > 2 /\ y % 4 = 0 THEN 1 ELSE 0) = q + 1
      BY <2>2, <3>1
    <3>5. D \in Int /\ MonthDays(m) = D + 6 + 7 * (3 - 4 * m)
      <4>1. /\ DaysBefore[3] = 59 /\ DaysBefore[4] = 90 /\ DaysBefore[5] = 120
            /\ DaysBefore[6] = 151 /\ DaysBefore[7] = 181 /\ DaysBefore[8] = 212
            /\ DaysBefore[9] = 243 /\ DaysBefore[10] = 273 /\ DaysBefore[11] = 304
            /\ DaysBefore[12] = 334
        BY DEF DaysBefore
      <4>2. m \in {3, 4, 5, 6, 7, 8, 9, 10, 11, 12}
        BY <2>2
      <4> QED BY <4>1, <4>2, MonthDaysIs
    <3>9. PICK i \in Int : i = 3 - 4 * m
      OBVIOUS
    <3>6. S = d + (D + 6 + 7 * i) + (2485 + y + q)
      BY <3>2, <3>3, <3>5, <3>9
    <3>7. C = 5 + 365 * y + (q + 1) + D + d
      BY <3>1, <3>4, <3>5
    <3> HIDE DEF S, C, D
    <3>10. PICK k \in Int : k = i + 355 - 52 * y
      OBVIOUS
    <3>11. S = C + 7 * k /\ C \in Int
      BY <3>5, <3>6, <3>7, <3>10
    <3> QED BY <3>11
  <2> QED BY <2>1, <2>2
<1> HIDE DEF S, C
<1>6. S % 7 = C % 7 /\ C % 7 \in 0 .. 6
  <2>1. PICK k \in Int : S = C + 7 * k
    BY <1>5
  <2>2. (C + 7 * k) % 7 = C % 7 /\ C % 7 \in 0 .. 6
    BY <1>5
  <2> QED BY <2>1, <2>2
<1> QED BY <1>1, <1>2, <1>3, <1>4, <1>6

\* A call begins: nothing is read or written yet.
LEMMA BeginsSound ==
  RtcInv /\ (GetTime \/ \E t \in Times : SetTime(t)) => RtcInv'
<1> SUFFICES ASSUME RtcInv, GetTime \/ \E t \in Times : SetTime(t) PROVE RtcInv'
  OBVIOUS
<1>1. UNCHANGED <<clock, fresh>> /\ seen' = {clock} /\ carried' = FALSE
  BY DEF GetTime, SetTime, Begins
<1>2. \/ rtc' = [does |-> "get", next |-> 1, date |-> NoTime, asked |-> NoTime]
      \/ \E t \in Times : /\ rtc' = [does |-> "set", next |-> 1, date |-> t, asked |-> t]
                          /\ IsClock(t)
  <2>1. CASE GetTime
    BY <2>1 DEF GetTime, Begins
  <2>2. ASSUME NEW t \in Times, SetTime(t)
        PROVE  /\ rtc' = [does |-> "set", next |-> 1, date |-> t, asked |-> t]
               /\ IsClock(t)
    <3>1. /\ t \in [Fields -> Nat] /\ t.sec < 60 /\ t.dow \in 0 .. 6
          /\ t.dow = DayOfWeek(t.day, t.month, 2000 + t.year)
      BY TimesAre
    <3>2. [t EXCEPT !.dow = DayOfWeek(t.day, t.month, 2000 + t.year)] = t
      BY <3>1 DEF Fields
    <3>3. t.dow < 10
      BY <3>1
    <3> QED BY <2>2, <3>1, <3>2, <3>3 DEF SetTime, Begins, IsClock
  <2> QED BY <2>1, <2>2
<1>3. NoTime \in [Fields -> Nat] /\ IsClock(clock) /\ fresh \in Nat
  BY DEF NoTime, RtcInv, RtcTypeOK
<1>4. RtcTypeOK'
  <2>1. CASE rtc' = [does |-> "get", next |-> 1, date |-> NoTime, asked |-> NoTime]
    <3>1. rtc' \in [does : {"get", "set"}, next : 1 .. 14, date : [Fields -> Nat], asked : [Fields -> Nat]]
      BY <1>3, <2>1
    <3>2. rtc'.does = "get"
      BY <2>1
    <3> QED BY <1>1, <1>3, <3>1, <3>2 DEF RtcTypeOK
  <2>2. ASSUME NEW t \in Times, IsClock(t),
               rtc' = [does |-> "set", next |-> 1, date |-> t, asked |-> t]
        PROVE  RtcTypeOK'
    <3>1. rtc' \in [does : {"get", "set"}, next : 1 .. 14, date : [Fields -> Nat], asked : [Fields -> Nat]]
      BY <2>2 DEF IsClock
    <3>2. rtc'.does = "set" /\ rtc'.date = t /\ rtc'.asked = t
      BY <2>2
    <3> QED BY <1>1, <1>3, <2>2, <3>1, <3>2 DEF RtcTypeOK
  <2> QED BY <1>2, <2>1, <2>2
<1>5. rtc'.next = 1 /\ ~Idle'
  BY <1>2, ReadOrderIs DEF Idle
<1>6. GetSound'
  <2>1. CASE rtc' = [does |-> "get", next |-> 1, date |-> NoTime, asked |-> NoTime]
    <3>1. ASSUME NEW f \in Fields PROVE ReadPlace(f) > 0
      BY DEF Fields, ReadPlace
    <3>2. ASSUME NEW f \in Fields PROVE ~(ReadPlace(f) + 1 <= 0) /\ ~(ReadPlace(f) <= 0)
      BY DEF Fields, ReadPlace
    <3>3. PartRead(clock, 0) = NoTime
      BY <3>2 DEF PartRead, NoTime
    <3>4. rtc'.date = PartRead(clock, rtc'.next - 1)
      BY <2>1, <3>3
    <3>5. Agrees(clock, clock)
      BY DEF Agrees
    <3> QED BY <1>1, <1>5, <3>4, <3>5 DEF GetSound
  <2>2. CASE rtc'.does = "set"
    BY <2>2 DEF GetSound
  <2> QED BY <1>2, <2>1, <2>2
<1>7. SetSound'
  <2>1. ASSUME NEW f \in Fields PROVE ~(1 > WritePlace(f)) /\ ~(1 > WritePlace(f) + 1)
    BY DEF Fields, WritePlace
  <2> QED BY <1>5, <2>1 DEF SetSound
<1> QED BY <1>4, <1>6, <1>7 DEF RtcInv

\* A digit is read.
LEMMA ReadSound == RtcInv /\ ReadRegister => RtcInv'
<1> SUFFICES ASSUME RtcInv, ReadRegister PROVE RtcInv'
  OBVIOUS
<1> DEFINE n == rtc.next
<1>1. /\ rtc.does = "get" /\ ~Idle /\ UNCHANGED <<clock, seen, carried, ticks, fresh>>
      /\ rtc' = [rtc EXCEPT !.next = n + 1,
                   !.date[ReadOrder[n][1]] =
                     PutDigit(rtc.date[ReadOrder[n][1]], ReadOrder[n][2],
                              Digit(clock[ReadOrder[n][1]], ReadOrder[n][2]))]
  BY DEF ReadRegister
<1>2. rtc \in [does : {"get", "set"}, next : 1 .. 14, date : [Fields -> Nat], asked : [Fields -> Nat]]
      /\ n \in 1 .. 13 /\ clock \in [Fields -> Nat] /\ clock["dow"] < 10
  BY <1>1, ReadOrderIs DEF RtcInv, RtcTypeOK, Idle, IsClock
<1>3. PICK f \in Fields, w \in {1, 10} :
        /\ ReadOrder[n] = <<f, w>> /\ (f = "dow" => w = 1)
        /\ n = ReadPlace(f) + (IF w = 10 THEN 1 ELSE 0)
  BY <1>2, ReadOrderIs
<1> DEFINE v == PutDigit(rtc.date[f], w, Digit(clock[f], w))
           answer == [rtc.date EXCEPT ![f] = v]
<1>4. rtc' = [rtc EXCEPT !.next = n + 1, !.date = answer]
  BY <1>1, <1>3
<1>5. rtc.date \in [Fields -> Nat] /\ rtc.date[f] \in Nat /\ clock[f] \in Nat
  BY <1>2
<1>6. v = IF w = 10 THEN 10 * (clock[f] \div 10) + (rtc.date[f] % 10)
          ELSE 10 * (rtc.date[f] \div 10) + (clock[f] % 10)
  <2>1. CASE w = 1
    BY <1>5, <2>1, DigitsIs
  <2>2. CASE w = 10
    BY <1>5, <2>2, DigitsIs
  <2> QED BY <2>1, <2>2
<1>7. v \in Nat
  <2>1. PICK a, b \in Nat : a = clock[f] /\ b = rtc.date[f]
    BY <1>5
  <2>2. a \div 10 \in Nat /\ b % 10 \in Nat /\ b \div 10 \in Nat /\ a % 10 \in Nat
    OBVIOUS
  <2>3. v = IF w = 10 THEN 10 * (a \div 10) + (b % 10) ELSE 10 * (b \div 10) + (a % 10)
    BY <1>6, <2>1
  <2> HIDE DEF v
  <2> QED BY <2>2, <2>3
<1> HIDE DEF v
<1>8. answer \in [Fields -> Nat] /\ answer[f] = v
      /\ \A g \in Fields \ {f} : answer[g] = rtc.date[g]
  BY <1>5, <1>7, PutField
<1> HIDE DEF answer
<1>9. rtc' \in [does : {"get", "set"}, next : 1 .. 14, date : [Fields -> Nat], asked : [Fields -> Nat]]
      /\ rtc'.next = n + 1 /\ rtc'.date = answer /\ rtc'.does = "get"
  <2>1. n + 1 \in 1 .. 14 /\ rtc.does = "get"
    BY <1>1, <1>2
  <2>2. PICK m \in 1 .. 14 : m = n + 1
    BY <2>1
  <2>3. rtc' = [rtc EXCEPT !.next = m, !.date = answer]
    BY <1>4, <2>2
  <2> HIDE DEF n
  <2>4. rtc'.next = m /\ rtc'.date = answer /\ rtc'.does = rtc.does
    BY <1>2, <2>3
  <2>5. rtc' \in [does : {"get", "set"}, next : 1 .. 14, date : [Fields -> Nat], asked : [Fields -> Nat]]
    BY <1>2, <1>8, <2>3
  <2> QED BY <2>1, <2>2, <2>4, <2>5
<1>10. RtcTypeOK'
  BY <1>1, <1>9 DEF RtcInv, RtcTypeOK
<1>11. SetSound'
  BY <1>9 DEF SetSound
<1>12. GetSound'
  <2> SUFFICES ASSUME ~carried PROVE GetSound'
    BY <1>1 DEF GetSound
  <2>1. clock \in seen /\ \A u \in seen : Agrees(u, clock) /\ IsClock(u)
    BY <1>1 DEF RtcInv, GetSound, RtcTypeOK
  <2>2. PICK u \in seen : rtc.date = PartRead(u, n - 1)
    BY <1>1 DEF RtcInv, GetSound
  \* The time that the digits read so far and this one were shown at.
  <2>3. PICK t \in seen : rtc.date = PartRead(t, n - 1) /\ Digit(t[f], w) = Digit(clock[f], w)
    <3>1. CASE f = "sec" /\ w = 1
      <4>1. n = 5
        BY <1>3, <3>1 DEF ReadPlace
      <4>2. ASSUME NEW g \in Fields
            PROVE  /\ ReadPlace(g) + 1 <= 4 => g # "sec"
                   /\ ReadPlace(g) <= 4 => g # "sec"
        BY DEF ReadPlace
      <4>3. \A g \in Fields \ {"sec"} : u[g] = clock[g]
        BY <2>1 DEF Agrees
      <4>4. PartRead(u, 4) = PartRead(clock, 4)
        BY <4>2, <4>3 DEF PartRead
      <4> QED BY <2>1, <2>2, <4>1, <4>4
    <3>2. CASE ~(f = "sec" /\ w = 1)
      <4>1. f = "sec" => w = 10 /\ u["sec"] \div 10 = clock["sec"] \div 10
        BY <2>1, <3>2 DEF Agrees
      <4>2. f # "sec" => u[f] = clock[f]
        BY <2>1 DEF Agrees
      <4> QED BY <2>2, <4>1, <4>2 DEF Digit
    <3> QED BY <3>1, <3>2
  <2>4. t \in [Fields -> Nat] /\ t[f] \in Nat /\ t["dow"] \in 0 .. 9
    BY <2>1 DEF IsClock, Fields
  <2>5. ReadPlace(f) \in Nat
    BY DEF Fields, ReadPlace
  <2>6. ASSUME NEW g \in Fields PROVE answer[g] = PartRead(t, n)[g]
    <3>0. ReadPlace(g) \in Nat
      BY DEF Fields, ReadPlace
    <3>1. PartRead(t, n)[g] = IF ReadPlace(g) + 1 <= n THEN t[g]
                              ELSE IF ReadPlace(g) <= n THEN t[g] % 10 ELSE 0
      BY DEF PartRead
    <3>2. rtc.date[g] = IF ReadPlace(g) + 1 <= n - 1 THEN t[g]
                        ELSE IF ReadPlace(g) <= n - 1 THEN t[g] % 10 ELSE 0
      BY <2>3 DEF PartRead
    <3>3. CASE g # f
      <4>1. n \notin {ReadPlace(g), ReadPlace(g) + 1}
        BY <1>3, <2>5, <3>3, PlacesApart
      <4>2. (ReadPlace(g) + 1 <= n <=> ReadPlace(g) + 1 <= n - 1)
            /\ (ReadPlace(g) <= n <=> ReadPlace(g) <= n - 1)
        BY <1>2, <3>0, <4>1
      <4> QED BY <1>8, <3>1, <3>2, <3>3, <4>2
    <3>4. CASE g = f /\ w = 1
      <4>1. n = ReadPlace(g)
        BY <1>3, <2>5, <3>4
      <4>2. rtc.date[g] = 0 /\ PartRead(t, n)[g] = t[g] % 10
        BY <3>0, <3>1, <3>2, <4>1
      <4>3. t[f] % 10 = clock[f] % 10
        BY <2>3, <3>4 DEF Digit
      <4>4. v = clock[f] % 10
        <5>1. 10 * (0 \div 10) = 0 /\ clock[f] % 10 \in Nat
          BY <1>5
        <5> QED BY <1>6, <3>4, <4>2, <5>1
      <4> QED BY <1>8, <3>4, <4>2, <4>3, <4>4
    <3>5. CASE g = f /\ w = 10
      <4>1. n = ReadPlace(g) + 1
        BY <1>3, <2>5, <3>5
      <4>2. rtc.date[g] = t[g] % 10 /\ PartRead(t, n)[g] = t[g]
        BY <3>0, <3>1, <3>2, <4>1
      <4>3. t[f] \div 10 = clock[f] \div 10
        BY <2>3, <3>5 DEF Digit
      <4>4. v = 10 * (t[f] \div 10) + ((t[f] % 10) % 10)
        BY <1>6, <3>5, <4>2, <4>3
      <4>5. (t[f] % 10) % 10 = t[f] % 10 /\ t[f] = 10 * (t[f] \div 10) + (t[f] % 10)
        BY <2>4
      <4> QED BY <1>8, <3>5, <4>2, <4>4, <4>5
    <3> QED BY <3>3, <3>4, <3>5
  <2>7. answer = PartRead(t, n)
    <3>1. DOMAIN PartRead(t, n) = Fields /\ PartRead(t, n) = [g \in Fields |-> PartRead(t, n)[g]]
      BY DEF PartRead
    <3>2. answer = [g \in Fields |-> answer[g]]
      BY <1>8
    <3> QED BY <2>6, <3>1, <3>2
  <2>8. CASE n = 13
    <3>1. Idle'
      BY <1>9, <2>8, ReadOrderIs DEF Idle
    <3>2. ASSUME NEW g \in Fields PROVE PartRead(t, 13)[g] = t[g]
      <4>1. g # "dow" => ReadPlace(g) + 1 <= 13
        BY DEF Fields, ReadPlace
      <4>2. t["dow"] % 10 = t["dow"]
        BY <2>4
      <4>3. ReadPlace("dow") = 13
        BY DEF ReadPlace
      <4>4. PartRead(t, 13)[g] = IF ReadPlace(g) + 1 <= 13 THEN t[g]
                                 ELSE IF ReadPlace(g) <= 13 THEN t[g] % 10 ELSE 0
        BY DEF PartRead
      <4> QED BY <4>1, <4>2, <4>3, <4>4
    <3>3. answer = t
      <4>1. answer = [g \in Fields |-> answer[g]]
        BY <1>8
      <4>2. t = [g \in Fields |-> t[g]]
        BY <2>4
      <4> QED BY <2>7, <2>8, <3>2, <4>1, <4>2
    <3> QED BY <1>1, <1>9, <3>1, <3>3 DEF GetSound
  <2>9. CASE n # 13
    <3>1. ~Idle'
      BY <1>2, <1>9, <2>9, ReadOrderIs DEF Idle
    <3>2. rtc'.date = PartRead(t, rtc'.next - 1)
      <4>1. rtc'.next - 1 = n
        BY <1>2, <1>9
      <4> QED BY <1>9, <2>7, <4>1
    <3> QED BY <1>1, <2>1, <3>1, <3>2 DEF GetSound
  <2> QED BY <2>8, <2>9
<1> QED BY <1>10, <1>11, <1>12 DEF RtcInv

\* What becomes of x when a digit of y is put in its place: the other one stays.
PutIs(x, y, w, z) ==
  /\ z \in Nat
  /\ w = 10 => z \div 10 = y \div 10
  /\ w = 1 => z \div 10 = x \div 10 /\ z % 10 = y % 10
  /\ x < 60 /\ y < 60 => z < 60
  /\ w = 1 /\ x < 10 /\ y < 10 => z = y

\* PutDigit does that.
LEMMA DigitPut ==
  ASSUME NEW x \in Nat, NEW y \in Nat, NEW w \in {1, 10},
         NEW z, z = PutDigit(x, w, Digit(y, w))
  PROVE  PutIs(x, y, w, z)
<1>1. CASE w = 1
  <2>1. z = 10 * (x \div 10) + (y % 10)
    BY <1>1, DigitsIs
  <2>2. /\ z \in Nat /\ z \div 10 = x \div 10 /\ z % 10 = y % 10
        /\ x < 60 /\ y < 60 => z < 60
        /\ x < 10 /\ y < 10 => z = y
    BY <2>1
  <2> QED BY <1>1, <2>2 DEF PutIs
<1>2. CASE w = 10
  <2>1. z = 10 * (y \div 10) + (x % 10)
    BY <1>2, DigitsIs
  <2>2. z \in Nat /\ z \div 10 = y \div 10 /\ (x < 60 /\ y < 60 => z < 60)
    BY <2>1
  <2> QED BY <1>2, <2>2 DEF PutIs
<1> QED BY <1>1, <1>2

\* Both digits are the number.
LEMMA SameDigits ==
  ASSUME NEW x \in Nat, NEW y \in Nat, x \div 10 = y \div 10, x % 10 = y % 10
  PROVE  x = y
<1>1. x = 10 * (x \div 10) + (x % 10) /\ y = 10 * (y \div 10) + (y % 10)
  OBVIOUS
<1> QED BY <1>1

\* A digit is written.
LEMMA WriteSound == RtcInv /\ WriteRegister => RtcInv'
<1> SUFFICES ASSUME RtcInv, WriteRegister PROVE RtcInv'
  OBVIOUS
<1> DEFINE n == rtc.next
           D == rtc.date
<1>1. /\ rtc.does = "set" /\ ~Idle /\ UNCHANGED <<seen, carried, ticks>>
      /\ rtc' = [rtc EXCEPT !.next = n + 1]
      /\ fresh' = IF WriteOrder[n] = <<"sec", 1>> THEN 0 ELSE fresh
      /\ clock' = [clock EXCEPT ![WriteOrder[n][1]] =
                     PutDigit(clock[WriteOrder[n][1]], WriteOrder[n][2],
                              Digit(D[WriteOrder[n][1]], WriteOrder[n][2]))]
  BY DEF WriteRegister
<1>2. rtc \in [does : {"get", "set"}, next : 1 .. 14, date : [Fields -> Nat], asked : [Fields -> Nat]]
      /\ n \in 1 .. 13 /\ IsClock(clock) /\ IsClock(D) /\ fresh \in Nat
  BY <1>1, ReadOrderIs DEF RtcInv, RtcTypeOK, Idle
<1>3. PICK f \in Fields, w \in {1, 10} :
        /\ WriteOrder[n] = <<f, w>> /\ (f = "dow" => w = 1)
        /\ n = WritePlace(f) + (IF w = 1 /\ f # "dow" THEN 1 ELSE 0)
  BY <1>2, WriteOrderIs
<1>4. PICK z : z = PutDigit(clock[f], w, Digit(D[f], w))
  OBVIOUS
<1>5. clock' = [clock EXCEPT ![f] = z] /\ fresh' = IF f = "sec" /\ w = 1 THEN 0 ELSE fresh
  BY <1>1, <1>3, <1>4
<1>6. rtc'.next = n + 1 /\ rtc'.date = D /\ rtc'.does = "set" /\ rtc'.asked = rtc.asked
      /\ rtc' \in [does : {"get", "set"}, next : 1 .. 14, date : [Fields -> Nat], asked : [Fields -> Nat]]
  <2>1. n + 1 \in 1 .. 14
    BY <1>2
  <2>2. PICK m \in 1 .. 14 : m = n + 1
    BY <2>1
  <2>3. rtc' = [rtc EXCEPT !.next = m]
    BY <1>1, <2>2
  <2> HIDE DEF n
  <2>4. rtc'.next = m /\ rtc'.date = D /\ rtc'.does = rtc.does /\ rtc'.asked = rtc.asked
        /\ rtc' \in [does : {"get", "set"}, next : 1 .. 14, date : [Fields -> Nat], asked : [Fields -> Nat]]
    BY <1>2, <2>3
  <2> QED BY <1>1, <2>2, <2>4
<1> HIDE DEF n, D
<1>7. clock[f] \in Nat /\ D[f] \in Nat /\ clock["sec"] < 60 /\ D["sec"] < 60
      /\ clock["dow"] < 10 /\ D["dow"] < 10 /\ clock \in [Fields -> Nat] /\ D \in [Fields -> Nat]
  BY <1>2 DEF IsClock, Fields
<1>8. /\ z \in Nat
      /\ w = 10 => z \div 10 = D[f] \div 10
      /\ w = 1 => z \div 10 = clock[f] \div 10 /\ z % 10 = D[f] % 10
      /\ f = "sec" => z < 60
      /\ f = "dow" => z = D[f]
  <2>1. PICK x, y \in Nat : x = clock[f] /\ y = D[f]
    BY <1>7
  <2>2. z = PutDigit(x, w, Digit(y, w))
    BY <1>4, <2>1
  <2>3. PutIs(x, y, w, z)
    BY <2>2, DigitPut
  <2> QED BY <1>3, <1>7, <2>1, <2>3 DEF PutIs
<1>9. clock' \in [Fields -> Nat] /\ clock'[f] = z /\ \A g \in Fields \ {f} : clock'[g] = clock[g]
  BY <1>5, <1>7, <1>8, PutField
<1>10. RtcTypeOK'
  <2>1. clock'["sec"] < 60
    <3>1. "sec" \in Fields
      BY DEF Fields
    <3> QED BY <1>7, <1>8, <1>9, <3>1
  <2>2. clock'["dow"] < 10
    <3>1. "dow" \in Fields
      BY DEF Fields
    <3> QED BY <1>7, <1>8, <1>9, <3>1
  <2>3. IsClock(clock')
    BY <1>9, <2>1, <2>2 DEF IsClock
  <2>4. fresh' \in Nat
    BY <1>2, <1>5
  <2> QED BY <1>1, <1>6, <2>3, <2>4 DEF RtcInv, RtcTypeOK, D
<1>11. GetSound'
  BY <1>6 DEF GetSound
<1>12. SetSound'
  <2> SUFFICES ASSUME ~carried
               PROVE  /\ \A g \in Fields \ {"dow"} :
                           n + 1 > WritePlace(g) => clock'[g] \div 10 = D[g] \div 10
                      /\ \A g \in Fields \ {"dow", "sec"} :
                           n + 1 > WritePlace(g) + 1 => clock'[g] = D[g]
                      /\ n + 1 > 12 => clock'["sec"] = D["sec"] + fresh'
                      /\ n + 1 > 13 => clock'["dow"] = D["dow"]
    BY <1>1, <1>6 DEF SetSound
  <2>1. /\ \A g \in Fields \ {"dow"} :
             n > WritePlace(g) => clock[g] \div 10 = D[g] \div 10
        /\ \A g \in Fields \ {"dow", "sec"} : n > WritePlace(g) + 1 => clock[g] = D[g]
        /\ n > 12 => clock["sec"] = D["sec"] + fresh
        /\ n > 13 => clock["dow"] = D["dow"]
    BY <1>1 DEF RtcInv, SetSound, n, D
  <2>2. WritePlace(f) \in Nat /\ "sec" \in Fields /\ "dow" \in Fields
        /\ WritePlace("sec") = 11 /\ WritePlace("dow") = 13
    BY DEF Fields, WritePlace
  <2>3. ASSUME NEW g \in Fields, g # f
        PROVE  n \notin {WritePlace(g), WritePlace(g) + 1} /\ WritePlace(g) \in Nat
    <3>1. n \in {WritePlace(f), WritePlace(f) + 1}
      BY <1>3, <2>2
    <3>2. WritePlace(g) \in Nat
      BY DEF Fields, WritePlace
    <3> QED BY <2>3, <3>1, <3>2, PlacesApart
  \* The other digit of the field was written before this one.
  <2>4. w = 1 /\ f # "dow" => clock[f] \div 10 = D[f] \div 10
    BY <1>2, <1>3, <2>1, <2>2
  <2>5. f # "dow" => z \div 10 = D[f] \div 10 /\ (w = 1 => z = D[f])
    <3>1. f # "dow" => z \div 10 = D[f] \div 10
      BY <1>8, <2>4
    <3> QED BY <1>7, <1>8, <3>1, SameDigits
  <2>6. ASSUME NEW g \in Fields \ {"dow"}, n + 1 > WritePlace(g)
        PROVE  clock'[g] \div 10 = D[g] \div 10
    <3>1. CASE g = f
      BY <1>9, <2>5, <3>1
    <3>2. CASE g # f
      <4>1. n > WritePlace(g)
        BY <1>2, <2>3, <2>6, <3>2
      <4> QED BY <1>9, <2>1, <3>2, <4>1
    <3> QED BY <3>1, <3>2
  <2>7. ASSUME NEW g \in Fields \ {"dow", "sec"}, n + 1 > WritePlace(g) + 1
        PROVE  clock'[g] = D[g]
    <3>1. CASE g = f
      <4>1. w = 1
        BY <1>2, <1>3, <2>2, <2>7, <3>1
      <4> QED BY <1>9, <2>5, <3>1, <4>1
    <3>2. CASE g # f
      <4>1. n > WritePlace(g) + 1
        BY <1>2, <2>3, <2>7, <3>2
      <4> QED BY <1>9, <2>1, <3>2, <4>1
    <3> QED BY <3>1, <3>2
  <2>8. ASSUME n + 1 > 12 PROVE clock'["sec"] = D["sec"] + fresh'
    <3>1. CASE f = "sec"
      <4>1. w = 1
        BY <1>2, <1>3, <2>2, <2>8, <3>1
      <4>2. clock'["sec"] = D["sec"] /\ fresh' = 0
        BY <1>5, <1>9, <2>5, <3>1, <4>1
      <4> QED BY <1>7, <3>1, <4>2
    <3>2. CASE f # "sec"
      <4>1. n > 12
        BY <1>2, <2>2, <2>3, <2>8, <3>2
      <4> QED BY <1>5, <1>9, <2>1, <2>2, <3>2, <4>1
    <3> QED BY <3>1, <3>2
  <2>9. ASSUME n + 1 > 13 PROVE clock'["dow"] = D["dow"]
    <3>1. f = "dow"
      <4>1. n = 13
        BY <1>2, <2>9
      <4> QED BY <2>2, <2>3, <4>1
    <3> QED BY <1>8, <1>9, <3>1
  <2> QED BY <2>6, <2>7, <2>8, <2>9
<1> QED BY <1>10, <1>11, <1>12 DEF RtcInv

\* Every access and every second keeps the invariant.
LEMMA RtcSound ==
  /\ RtcInit => RtcInv
  /\ RtcInv /\ [RtcNext]_rtcVars => RtcInv'
<1>1. ASSUME RtcInit PROVE RtcInv
  <2>1. clock \in [Fields -> Nat] /\ clock.sec < 60 /\ clock.dow \in 0 .. 6
    BY <1>1, TimesAre DEF RtcInit
  <2>4. IsClock(clock)
    BY <2>1 DEF IsClock
  <2>5. rtc.does = "nothing" /\ seen = {} /\ carried = FALSE /\ fresh = 0
    BY <1>1 DEF RtcInit, Nobody
  <2> QED BY <2>4, <2>5 DEF RtcInv, RtcTypeOK, GetSound, SetSound
<1>2. ASSUME RtcInv, [RtcNext]_rtcVars PROVE RtcInv'
  <2>1. CASE UNCHANGED rtcVars
    BY <1>2, <2>1 DEF rtcVars, RtcInv, RtcTypeOK, GetSound, SetSound, Idle
  <2> QED BY <1>2, <2>1, SecondSound, BeginsSound, ReadSound, WriteSound DEF RtcNext
<1> QED BY <1>1, <1>2

(* What rtc_get_time returns is a time that the clock showed during the call, *)
(* unless a digit rolled over meanwhile, wherever between its thirteen        *)
(* accesses the seconds go by (drivers/sys/rtc.c).                            *)
THEOREM ReadIsShown == RtcSpec => []ReadIsATime
<1>1. RtcInv => ReadIsATime
  BY DEF RtcInv, GetSound, ReadIsATime, Finished
<1> QED BY <1>1, RtcSound, PTL DEF RtcSpec

\* The call that has set the clock left in it what was asked for.
LEMMA SetSoundShows == RtcInv => SetTakesEffect
<1> SUFFICES ASSUME RtcInv, rtc.does = "set", Idle, ~carried
             PROVE  clock = [rtc.asked EXCEPT !.sec = rtc.asked.sec + fresh]
  BY DEF SetTakesEffect, Finished
<1>1. /\ clock \in [Fields -> Nat] /\ fresh \in Nat /\ rtc.date = rtc.asked
      /\ rtc.asked \in [Fields -> Nat] /\ rtc.next \in 1 .. 14
  BY DEF RtcInv, RtcTypeOK, IsClock
<1>2. rtc.next = 14
  BY <1>1, ReadOrderIs DEF Idle
<1>3. /\ \A f \in Fields \ {"dow", "sec"} : clock[f] = rtc.asked[f]
      /\ clock["sec"] = rtc.asked["sec"] + fresh /\ clock["dow"] = rtc.asked["dow"]
  <2>1. ASSUME NEW f \in Fields \ {"dow", "sec"} PROVE 14 > WritePlace(f) + 1
    BY DEF Fields, WritePlace
  <2> QED BY <1>1, <1>2, <2>1 DEF RtcInv, SetSound
<1> DEFINE b == rtc.asked.sec + fresh
           a == [rtc.asked EXCEPT !.sec = b]
<1>4. b \in Nat /\ b = rtc.asked["sec"] + fresh /\ "sec" \in Fields
  BY <1>1 DEF Fields
<1> HIDE DEF b
<1>5. a \in [Fields -> Nat] /\ a["sec"] = b
      /\ \A f \in Fields \ {"sec"} : a[f] = rtc.asked[f]
  BY <1>1, <1>4, PutField
<1> HIDE DEF a
<1>6. ASSUME NEW f \in Fields PROVE clock[f] = a[f]
  BY <1>3, <1>4, <1>5
<1>7. clock = [f \in Fields |-> clock[f]] /\ a = [f \in Fields |-> a[f]]
  BY <1>1, <1>5
<1>8. clock = a
  BY <1>6, <1>7
<1> QED BY <1>8 DEF a, b

(* After rtc_set_time the clock shows the date that was asked for, with its    *)
(* day of the week, and the seconds gone by since, unless a digit rolled over  *)
(* during the call (drivers/sys/rtc.c).                                        *)
THEOREM SetShown == RtcSpec => []SetTakesEffect
BY SetSoundShows, RtcSound, PTL DEF RtcSpec

-----------------------------------------------------------------------------
(* The days of the week.                                                   *)

RealDate(d) ==
  /\ d \in Dates /\ d.year > 0
  /\ d.month \in 1 .. 12 /\ d.day \in 1 .. DaysIn(d.month, d.year)

\* Whole weeks do not change the day of the week.
LEMMA WeeksPass ==
  ASSUME NEW x \in Int, NEW k \in Int
  PROVE  (x + 1 + 7 * k) % 7 = ((x % 7) + 1) % 7
OBVIOUS

\* The sum of the day after a date is one more, but for whole weeks.
LEMMA SumFollows ==
  ASSUME NEW d, RealDate(d)
  PROVE  LET e == DayAfter(d)
         IN  /\ e.day \in Nat /\ e.month \in 1 .. 12 /\ e.year \in Nat \ {0}
             /\ e.day \in 1 .. DaysIn(e.month, e.year)
             /\ \E k \in Int :
                  e.day + MonthDays(e.month) + YearDays(e.year - Adjustment(e.month)) =
                  d.day + MonthDays(d.month) + YearDays(d.year - Adjustment(d.month)) + 1 + 7 * k
<1> DEFINE e == DayAfter(d)
           day == d.day
           m == d.month
           y == d.year
           n == DaysIn(m, y)
<1>1. /\ e.day = IF day = n THEN 1 ELSE day + 1
      /\ e.month = IF day < n THEN m ELSE IF m = 12 THEN 1 ELSE m + 1
      /\ e.year = IF day = 31 /\ m = 12 THEN y + 1 ELSE y
  BY DayAfterIs DEF RealDate
<1>2. /\ y \in Nat /\ y > 0 /\ m \in 1 .. 12 /\ n \in {28, 29, 30, 31} /\ day \in 1 .. n
      /\ m = 2 => n = IF Leap(y) THEN 29 ELSE 28
      /\ m \in {4, 6, 9, 11} => n = 30
      /\ m \notin {2, 4, 6, 9, 11} => n = 31
  BY DEF RealDate, Dates, DaysIn
<1>3. \A a, b : DaysIn(a, b) \in {28, 29, 30, 31}
  BY DEF DaysIn
<1> DEFINE E == e.day + MonthDays(e.month) + YearDays(e.year - Adjustment(e.month))
           S == day + MonthDays(m) + YearDays(y - Adjustment(m))
<1>4. YearDays(y) \in Int /\ YearDays(y - 1) \in Int
      /\ YearDays(y) = YearDays(y - 1) + (IF Leap(y) THEN 2 ELSE 1)
  BY <1>2, YearDaysIs
<1>5. MonthDays(m) \in Int /\ Adjustment(m) \in {0, 1} /\ y - 0 = y /\ (y + 1) - 1 = y
  <2>1. m \in {1, 2, 3, 4, 5, 6, 7, 8, 9, 10, 11, 12}
    BY <1>2
  <2> QED BY <1>2, <2>1, MonthDaysIs
<1>6. YearDays(y - Adjustment(m)) \in Int
  BY <1>4, <1>5
<1> HIDE DEF e, day, m, y, n
<1>7. CASE day < n
  <2>1. e.day = day + 1 /\ e.month = m /\ e.year = y
    BY <1>1, <1>2, <1>7
  <2>2. E = S + 1 + 7 * 0
    BY <1>2, <1>5, <1>6, <2>1
  <2>3. e.day \in 1 .. DaysIn(e.month, e.year)
    BY <1>2, <1>7, <2>1 DEF n
  <2> HIDE DEF E, S
  <2>4. \E k \in Int : E = S + 1 + 7 * k
    BY <2>2
  <2>5. e.day \in Nat /\ e.month \in 1 .. 12 /\ e.year \in Nat \ {0}
    BY <1>2, <2>1
  <2> QED BY <2>3, <2>4, <2>5 DEF E, S, e, day, m, y
<1>8. CASE day = n
  <2>1. /\ e.day = 1 /\ e.month = (IF m = 12 THEN 1 ELSE m + 1)
        /\ e.year = IF m = 12 THEN y + 1 ELSE y
    BY <1>1, <1>2, <1>8
  <2>2. e.day \in 1 .. DaysIn(e.month, e.year)
    <3>1. DaysIn(e.month, e.year) \in {28, 29, 30, 31}
      BY <1>3
    <3> QED BY <2>1, <3>1
  <2>3. \E k \in Int : E = S + 1 + 7 * k
    <3>1. CASE m = 1
      <4>1. E = 1 + 31 + YearDays(y - 1) /\ S = 31 + 28 + YearDays(y - 1)
        BY <1>2, <1>8, <2>1, <3>1, MonthDaysIs
      <4>2. E = S + 1 + 7 * (-4)
        BY <1>4, <4>1
      <4> HIDE DEF E, S
      <4> QED BY <4>2
    <3>2. CASE m = 2
      <4>1. Adjustment(3) = 0 /\ y - 0 = y
        BY <1>5, MonthDaysIs
      <4>2. E = 1 + 2 + YearDays(y) /\ S = n + 31 + YearDays(y - 1)
        BY <1>8, <2>1, <3>2, <4>1, MonthDaysIs
      <4>3. E = S + 1 + 7 * (-8)
        BY <1>2, <1>4, <3>2, <4>2
      <4> HIDE DEF E, S
      <4> QED BY <4>3
    <3>3. CASE m \in 3 .. 11
      <4>1. m \in {3, 4, 5, 6, 7, 8, 9, 10, 11} /\ Adjustment(m) = 0 /\ Adjustment(m + 1) = 0
        <5>1. m \in 3 .. 12 /\ m + 1 \in 3 .. 12
          BY <3>3
        <5> QED BY <3>3, <5>1, MonthDaysIs
      <4>2. e.month = m + 1 /\ e.year = y
        BY <2>1, <4>1
      <4>3. E = 1 + MonthDays(m + 1) + YearDays(y) /\ S = n + MonthDays(m) + YearDays(y)
        BY <1>5, <1>8, <2>1, <4>1, <4>2
      <4>4. MonthDays(m) \in Int /\ MonthDays(m + 1) = MonthDays(m) + n - 28
        <5>1. CASE m = 3
          BY <1>2, <5>1, MonthDaysIs
        <5>2. CASE m = 4
          BY <1>2, <5>2, MonthDaysIs
        <5>3. CASE m = 5
          BY <1>2, <5>3, MonthDaysIs
        <5>4. CASE m = 6
          BY <1>2, <5>4, MonthDaysIs
        <5>5. CASE m = 7
          BY <1>2, <5>5, MonthDaysIs
        <5>6. CASE m = 8
          BY <1>2, <5>6, MonthDaysIs
        <5>7. CASE m = 9
          BY <1>2, <5>7, MonthDaysIs
        <5>8. CASE m = 10
          BY <1>2, <5>8, MonthDaysIs
        <5>9. CASE m = 11
          BY <1>2, <5>9, MonthDaysIs
        <5> QED BY <4>1, <5>1, <5>2, <5>3, <5>4, <5>5, <5>6, <5>7, <5>8, <5>9
      <4>5. E = S + 1 + 7 * (-4)
        BY <1>2, <1>4, <4>3, <4>4
      <4> HIDE DEF E, S
      <4> QED BY <4>5
    <3>4. CASE m = 12
      <4>1. Adjustment(12) = 0 /\ e.year - 1 = y
        BY <1>5, <2>1, <3>4, MonthDaysIs
      <4>2. E = 1 + 28 + YearDays(y) /\ S = 31 + 25 + YearDays(y)
        BY <1>2, <1>5, <1>8, <2>1, <3>4, <4>1, MonthDaysIs
      <4>3. E = S + 1 + 7 * (-4)
        BY <1>4, <4>2
      <4> HIDE DEF E, S
      <4> QED BY <4>3
    <3>5. m = 1 \/ m = 2 \/ m \in 3 .. 11 \/ m = 12
      BY <1>2
    <3> QED BY <3>1, <3>2, <3>3, <3>4, <3>5
  <2>4. e.day \in Nat /\ e.month \in 1 .. 12 /\ e.year \in Nat \ {0}
    BY <1>2, <2>1
  <2> QED BY <2>2, <2>3, <2>4 DEF e, day, m, y
<1> QED BY <1>2, <1>7, <1>8

\* The day of the week of the day after is the next one.
LEMMA WeekdayFollows ==
  ASSUME NEW d, RealDate(d), d.dow = DayOfWeek(d.day, d.month, d.year)
  PROVE  LET e == DayAfter(d)
         IN  RealDate(e) /\ e.dow = DayOfWeek(e.day, e.month, e.year)
<1> DEFINE e == DayAfter(d)
           S == d.day + MonthDays(d.month) + YearDays(d.year - Adjustment(d.month))
           E == e.day + MonthDays(e.month) + YearDays(e.year - Adjustment(e.month))
<1>1. /\ e.day \in Nat /\ e.month \in 1 .. 12 /\ e.year \in Nat \ {0}
      /\ e.day \in 1 .. DaysIn(e.month, e.year) /\ \E k \in Int : E = S + 1 + 7 * k
  BY SumFollows
<1>2. PICK k \in Int : E = S + 1 + 7 * k
  BY <1>1
<1>3. d.day \in Int /\ d.month \in 1 .. 12 /\ d.year \in Int /\ d \in Dates /\ d.year \in Nat \ {0}
      /\ d.dow \in Nat
  BY DEF RealDate, Dates, DaysIn
<1>4. DayOfWeek(d.day, d.month, d.year) = S % 7
  BY <1>3, DayOfWeekSum
<1>5. DayOfWeek(e.day, e.month, e.year) = E % 7
  BY <1>1, DayOfWeekSum
<1>6. S \in Int
  <2>1. MonthDays(d.month) \in Int /\ Adjustment(d.month) \in {0, 1}
    <3>1. d.month \in {1, 2, 3, 4, 5, 6, 7, 8, 9, 10, 11, 12}
      BY <1>3
    <3> QED BY <3>1, MonthDaysIs
  <2>2. YearDays(d.year) \in Int /\ YearDays(d.year - 1) \in Int /\ d.year - 0 = d.year
    BY <1>3, YearDaysIs
  <2> QED BY <1>3, <2>1, <2>2
<1>7. e.dow = (d.dow + 1) % 7
  BY <1>3, DayAfterIs
<1> HIDE DEF S, E
<1>8. e.dow = E % 7
  BY <1>2, <1>4, <1>6, <1>7, WeeksPass
<1>9. e \in Dates
  <2>1. d = [day |-> d.day, month |-> d.month, year |-> d.year, dow |-> d.dow]
    BY <1>3 DEF Dates
  <2>2. PICK a, b, c, w : e = [d EXCEPT !.dow = w, !.day = a, !.month = b, !.year = c]
    BY ZenonT(40) DEF DayAfter
  <2>3. e = [day |-> a, month |-> b, year |-> c, dow |-> w]
    BY <2>1, <2>2
  <2>4. a = e.day /\ b = e.month /\ c = e.year /\ w = e.dow
    BY <2>3
  <2>5. e.dow \in Nat
    BY <1>3, <1>7
  <2> HIDE DEF e
  <2>6. a \in Nat /\ b \in Nat /\ c \in Nat /\ w \in Nat
    BY <1>1, <2>4, <2>5
  <2> QED BY <2>3, <2>6 DEF Dates
<1> QED BY <1>1, <1>5, <1>8, <1>9 DEF RealDate

(* Through all that the run counts, the clock shows what it was set to, and    *)
(* dayofweek, with which rtc_set_time finds the day of the week, gives the     *)
(* day that counting one by one from the first of January 2000 gives, for      *)
(* every date after that one (drivers/sys/rtc.c).                              *)
THEOREM ClockRight == Spec => []ClockIsRight
<1> DEFINE Right == /\ RtcInv /\ RealDate(date)
                    /\ date.dow = DayOfWeek(date.day, date.month, date.year)
<1>1. Init => Right
  <2> SUFFICES ASSUME Init PROVE Right
    OBVIOUS
  <2>1. RtcInv
    BY RtcSound DEF Init
  <2>2. date = [day |-> 1, month |-> 1, year |-> 2000, dow |-> 6]
    BY DEF Init, FirstDay
  <2>3. date.day = 1 /\ date.month = 1 /\ date.year = 2000 /\ date.dow = 6 /\ date \in Dates
    BY <2>2 DEF Dates
  <2>4. RealDate(date)
    BY <2>3 DEF RealDate, DaysIn
  <2>5. DayOfWeek(1, 1, 2000) = 6
    <3>1. YearDays(1999) = 2483
      BY DEF YearDays
    <3>2. DayOfWeek(1, 1, 2000) = (1 + MonthDays(1) + YearDays(2000 - Adjustment(1))) % 7
      BY DayOfWeekSum
    <3> QED BY <3>1, <3>2, MonthDaysIs
  <2> QED BY <2>1, <2>3, <2>4, <2>5
<1>2. Right /\ [Next]_vars => Right'
  <2> SUFFICES ASSUME Right, [Next]_vars PROVE Right'
    OBVIOUS
  <2>1. [RtcNext]_rtcVars
    BY DEF Next, Clock, KeyboardBoot, ExpansionSlots, SRecordFiles, Directory, Programs, TypeNext,
       Tomorrow, vars
  <2>2. RtcInv'
    BY <2>1, RtcSound
  <2>3. date' = date \/ date' = DayAfter(date)
    BY DEF Next, Clock, KeyboardBoot, ExpansionSlots, SRecordFiles, Directory, Programs, TypeNext,
       Tomorrow, vars
  <2> QED BY <2>2, <2>3, WeekdayFollows
<1>3. RtcInv => SetTakesEffect
  BY SetSoundShows
<1>4. Right => ClockIsRight
  BY <1>3 DEF ClockIsRight
<1> QED BY <1>1, <1>2, <1>4, PTL DEF Spec

-----------------------------------------------------------------------------
(* The search for a keyboard: what the driver does at each place.          *)

\* The place of the last step of vt8242_init.
LastPlace == 2 * RESETS + 29

Places == 1 .. LastPlace

\* What the command byte loses at a place.
Off(p) == IF p = 4 THEN {KBD_INT} ELSE IF p = 8 THEN {AUX_INT} ELSE {KBD_INT, AUX_INT, TRANS}

\* The step x stands at place p of vt8242_init.
StandsAt(x, p) ==
  /\ p \in {1, 5, 11, 20} => x = Command("read_config")
  /\ p \in {3, 7, 13} => x = Command("write_config")
  /\ p = 9 => x = Command("keyboard_off")
  /\ p \in {10, 23} => x = Command("aux_off")
  /\ p = 16 => x = Command("diagnose")
  /\ p = 19 => x = Command("aux_on")
  /\ p = 24 => x = Command("test_keyboard")
  /\ p = 26 => x = Command("keyboard_on")
  /\ p \in {2, 6, 12, 17, 21, 25} => x = Receive
  /\ p \in {4, 8, 14} => x = SendConfig(Off(p), {})
  /\ p \in {15, 27} => x = Flush
  /\ p = 18 => x = Test("diagnosis")
  /\ p = 22 => x = Test("second_channel")
  /\ p > 27 /\ p < LastPlace => x \in {SendReset, Peek}
  /\ p = LastPlace - 1 => x = Peek
  /\ p = LastPlace => x = Test("answer")

\* The steps that the driver takes.
Steps ==
  {Command("read_config"), Command("write_config"), Command("keyboard_off"), Command("aux_off"),
   Command("aux_on"), Command("diagnose"), Command("test_keyboard"), Command("keyboard_on"),
   Receive, Peek, Flush, SendReset, Test("diagnosis"), Test("second_channel"), Test("answer"),
   SendConfig({KBD_INT}, {}), SendConfig({AUX_INT}, {}),
   SendConfig({KBD_INT, AUX_INT, TRANS}, {}), SendConfig({}, {KBD_INT})}

\* Of the places of vt8242_init there are two for each reset and 29 more.
LEMMA LastIs == LastPlace \in Nat /\ LastPlace = 2 * RESETS + 29 /\ LastPlace >= 29
BY BootAssumption DEF LastPlace

\* Pairs and quadruples, element by element.
LEMMA TupleIs ==
  ASSUME NEW S, NEW a \in S, NEW b \in S, NEW c \in S, NEW d \in S
  PROVE  /\ <<a, b>> \in Seq(S) /\ Len(<<a, b>>) = 2
         /\ \A i \in 1 .. 2 : <<a, b>>[i] = IF i = 1 THEN a ELSE b
         /\ <<a, b, c, d>> \in Seq(S) /\ Len(<<a, b, c, d>>) = 4
         /\ \A i \in 1 .. 4 : <<a, b, c, d>>[i] =
                        IF i = 1 THEN a ELSE IF i = 2 THEN b ELSE IF i = 3 THEN c ELSE d
OBVIOUS

\* Two sequences, one after the other.
LEMMA JoinedIs ==
  ASSUME NEW S, NEW s \in Seq(S), NEW t \in Seq(S), NEW m \in Nat, m = Len(s),
         NEW n \in Nat, n = Len(t)
  PROVE  /\ s \o t \in Seq(S) /\ Len(s \o t) = m + n
         /\ \A i \in 1 .. m + n : (s \o t)[i] = IF i <= m THEN s[i] ELSE t[i - m]
<1>1. s \o t \in Seq(S) /\ Len(s \o t) = m + n
  BY ConcatProperties
<1>2. \A i \in 1 .. m + n : (s \o t)[i] = IF i <= m THEN s[i] ELSE t[i - m]
  BY ConcatProperties
<1> QED BY <1>1, <1>2

\* The n elements of s are what stands in vt8242_init behind place from.
Holds(s, n, from) ==
  /\ s \in Seq(Steps) /\ Len(s) = n
  /\ \A i \in 1 .. n : StandsAt(s[i], from + i)

\* Two parts of vt8242_init that stand one behind the other are a part.
LEMMA HoldsJoined ==
  ASSUME NEW s, NEW t, NEW m \in Nat, NEW n \in Nat, NEW from \in Nat,
         Holds(s, m, from), Holds(t, n, from + m)
  PROVE  Holds(s \o t, m + n, from)
<1>1. /\ s \in Seq(Steps) /\ m = Len(s) /\ t \in Seq(Steps) /\ n = Len(t)
      /\ \A i \in 1 .. m : StandsAt(s[i], from + i)
      /\ \A i \in 1 .. n : StandsAt(t[i], (from + m) + i)
  BY DEF Holds
<1>2. /\ s \o t \in Seq(Steps) /\ Len(s \o t) = m + n
      /\ \A i \in 1 .. m + n : (s \o t)[i] = IF i <= m THEN s[i] ELSE t[i - m]
  BY <1>1, JoinedIs
<1>3. ASSUME NEW i \in 1 .. m + n PROVE StandsAt((s \o t)[i], from + i)
  <2>1. CASE i <= m
    BY <1>1, <1>2, <2>1
  <2>2. CASE i > m
    <3>1. (s \o t)[i] = t[i - m]
      BY <1>2, <2>2
    <3>2. i - m \in 1 .. n
      BY <2>2
    <3>3. StandsAt(t[i - m], (from + m) + (i - m))
      BY <1>1, <3>2
    <3>4. (from + m) + (i - m) = from + i
      OBVIOUS
    <3> QED BY <3>1, <3>3, <3>4
  <2>3. i <= m \/ i > m
    OBVIOUS
  <2> QED BY <2>1, <2>2, <2>3
<1> QED BY <1>2, <1>3 DEF Holds

\* The three times that vt8242_init reads the command byte and writes it back.
LEMMA ConfigureHolds ==
  ASSUME NEW p \in Nat, p \in {0, 4, 10}
  PROVE  Holds(Configure(Off(p + 4), {}), 4, p)
<1> DEFINE s == Configure(Off(p + 4), {})
<1>1. /\ Command("read_config") \in Steps /\ Receive \in Steps /\ Command("write_config") \in Steps
      /\ SendConfig(Off(p + 4), {}) \in Steps
  BY DEF Steps, Off
<1>2. /\ s \in Seq(Steps) /\ Len(s) = 4
      /\ \A i \in 1 .. 4 : s[i] = IF i = 1 THEN Command("read_config") ELSE IF i = 2 THEN Receive
                                  ELSE IF i = 3 THEN Command("write_config")
                                  ELSE SendConfig(Off(p + 4), {})
  BY <1>1, TupleIs DEF Configure
<1> HIDE DEF s
<1>3. ASSUME NEW i \in 1 .. 4 PROVE StandsAt(s[i], p + i)
  <2>1. CASE i = 1
    BY <1>2, <2>1, LastIs DEF StandsAt
  <2>2. CASE i = 2
    BY <1>2, <2>2, LastIs DEF StandsAt
  <2>3. CASE i = 3
    BY <1>2, <2>3, LastIs DEF StandsAt
  <2>4. CASE i = 4
    BY <1>2, <2>4, LastIs DEF StandsAt
  <2> QED BY <2>1, <2>2, <2>3, <2>4
<1> QED BY <1>2, <1>3 DEF Holds, s

\* Then both channels are switched off ...
LEMMA OffHolds == Holds(<<Command("keyboard_off"), Command("aux_off")>>, 2, 8)
<1> DEFINE s == <<Command("keyboard_off"), Command("aux_off")>>
<1>1. Command("keyboard_off") \in Steps /\ Command("aux_off") \in Steps
  BY DEF Steps
<1>2. /\ s \in Seq(Steps) /\ Len(s) = 2
      /\ \A i \in 1 .. 2 : s[i] = IF i = 1 THEN Command("keyboard_off") ELSE Command("aux_off")
  BY <1>1, TupleIs
<1> HIDE DEF s
<1>3. ASSUME NEW i \in 1 .. 2 PROVE StandsAt(s[i], 8 + i)
  BY <1>2, LastIs DEF StandsAt
<1> QED BY <1>2, <1>3 DEF Holds, s

Tests ==
  <<Flush, Command("diagnose"), Receive, Test("diagnosis"),
         Command("aux_on"), Command("read_config"), Receive, Test("second_channel"),
         Command("aux_off"), Command("test_keyboard"), Receive, Command("keyboard_on"), Flush>>

\* Thirteen elements, one by one.
LEMMA ThirteenIs ==
  ASSUME NEW a1, NEW a2, NEW a3, NEW a4, NEW a5, NEW a6, NEW a7, NEW a8, NEW a9, NEW a10,
         NEW a11, NEW a12, NEW a13,
         NEW i \in 1 .. 13
  PROVE  <<a1, a2, a3, a4, a5, a6, a7, a8, a9, a10, a11, a12, a13>>[i] =
    IF i = 1 THEN a1 ELSE IF i = 2 THEN a2 ELSE IF i = 3 THEN a3 ELSE IF i = 4 THEN a4
    ELSE IF i = 5 THEN a5 ELSE IF i = 6 THEN a6 ELSE IF i = 7 THEN a7 ELSE IF i = 8 THEN a8
    ELSE IF i = 9 THEN a9 ELSE IF i = 10 THEN a10 ELSE IF i = 11 THEN a11
    ELSE IF i = 12 THEN a12 ELSE a13
OBVIOUS

\* ... the controller and the line of the keyboard are tested ...
LEMMA TestsHold == Holds(Tests, 13, 14)
<1>1. /\ Flush \in Steps /\ Command("diagnose") \in Steps /\ Receive \in Steps
      /\ Test("diagnosis") \in Steps /\ Command("aux_on") \in Steps
      /\ Command("read_config") \in Steps /\ Test("second_channel") \in Steps
      /\ Command("aux_off") \in Steps /\ Command("test_keyboard") \in Steps
      /\ Command("keyboard_on") \in Steps
  BY DEF Steps
<1>2. Tests \in Seq(Steps) /\ Len(Tests) = 13
  BY <1>1 DEF Tests
<1>3. \A i \in 1 .. 13 : Tests[i] =
    IF i = 1 THEN Flush ELSE IF i = 2 THEN Command("diagnose") ELSE IF i = 3 THEN Receive
    ELSE IF i = 4 THEN Test("diagnosis") ELSE IF i = 5 THEN Command("aux_on")
    ELSE IF i = 6 THEN Command("read_config") ELSE IF i = 7 THEN Receive
    ELSE IF i = 8 THEN Test("second_channel") ELSE IF i = 9 THEN Command("aux_off")
    ELSE IF i = 10 THEN Command("test_keyboard") ELSE IF i = 11 THEN Receive
    ELSE IF i = 12 THEN Command("keyboard_on") ELSE Flush
  BY ThirteenIs DEF Tests
<1>4. ASSUME NEW i \in 1 .. 13 PROVE StandsAt(Tests[i], 14 + i)
  BY <1>3, LastIs DEF StandsAt
<1> QED BY <1>2, <1>4 DEF Holds

\* ... the keyboard is reset ...
LEMMA ResetsHold == Holds(Resets, 2 * RESETS, 27)
<1>1. 2 * RESETS \in Nat
  BY BootAssumption
<1>2. SendReset \in Steps /\ Peek \in Steps
  BY DEF Steps
<1>3. Resets \in Seq(Steps) /\ Len(Resets) = 2 * RESETS
  BY <1>1, <1>2 DEF Resets
<1>4. ASSUME NEW i \in 1 .. 2 * RESETS PROVE StandsAt(Resets[i], 27 + i)
  <2>1. Resets[i] \in {SendReset, Peek}
    BY DEF Resets
  <2>2. i \in Nat /\ i >= 1 /\ i <= 2 * RESETS
    BY <1>1
  <2> QED BY <1>1, <2>1, <2>2, LastIs DEF StandsAt
<1> QED BY <1>3, <1>4 DEF Holds

\* ... and what it answers is looked at.
LEMMA AnswerHolds == Holds(<<Peek, Test("answer")>>, 2, 2 * RESETS + 27)
<1> DEFINE s == <<Peek, Test("answer")>>
<1>1. Peek \in Steps /\ Test("answer") \in Steps
  BY DEF Steps
<1>2. /\ s \in Seq(Steps) /\ Len(s) = 2
      /\ \A i \in 1 .. 2 : s[i] = IF i = 1 THEN Peek ELSE Test("answer")
  BY <1>1, TupleIs
<1> HIDE DEF s
<1>3. 2 * RESETS \in Nat
  BY BootAssumption
<1>4. ASSUME NEW i \in 1 .. 2 PROVE StandsAt(s[i], (2 * RESETS + 27) + i)
  <2>1. (2 * RESETS + 27) + i = IF i = 1 THEN LastPlace - 1 ELSE LastPlace
    BY <1>3 DEF LastPlace
  <2>2. LastPlace \in Nat /\ LastPlace >= 29
    BY LastIs
  <2>3. StandsAt(Peek, LastPlace - 1)
    BY <2>2 DEF StandsAt
  <2>4. StandsAt(Test("answer"), LastPlace)
    BY <2>2 DEF StandsAt
  <2>5. s[i] = IF i = 1 THEN Peek ELSE Test("answer")
    BY <1>2
  <2> QED BY <2>1, <2>3, <2>4, <2>5
<1> QED BY <1>2, <1>4 DEF Holds, s

\* vt8242_init, place by place.
LEMMA ProgramHolds == Holds(vt8242_init, LastPlace, 0)
<1> DEFINE a == Configure({KBD_INT}, {})
           b == Configure({AUX_INT}, {})
           c == <<Command("keyboard_off"), Command("aux_off")>>
           d == disable_for_init
           e == <<Peek, Test("answer")>>
<1>1. Holds(a, 4, 0) /\ Holds(b, 4, 4) /\ Holds(d, 4, 10)
  <2>1. Holds(Configure(Off(0 + 4), {}), 4, 0)
    BY ConfigureHolds
  <2>2. Holds(Configure(Off(4 + 4), {}), 4, 4)
    BY ConfigureHolds
  <2>3. Holds(Configure(Off(10 + 4), {}), 4, 10)
    BY ConfigureHolds
  <2>4. /\ Off(0 + 4) = {KBD_INT} /\ Off(4 + 4) = {AUX_INT}
        /\ Off(10 + 4) = {KBD_INT, AUX_INT, TRANS}
    BY DEF Off
  <2> QED BY <2>1, <2>2, <2>3, <2>4 DEF disable_for_init
<1>2. Holds(c, 2, 8)
  BY OffHolds
<1>3. Holds(e, 2, 2 * RESETS + 27)
  BY AnswerHolds
<1>4. vt8242_init = (((((a \o b) \o c) \o d) \o Tests) \o Resets) \o e
  BY DEF vt8242_init, Tests
<1> HIDE DEF a, b, c, d, e
<1>5. 2 * RESETS \in Nat
  BY BootAssumption
<1>6. Holds(a \o b, 8, 0)
  BY <1>1, HoldsJoined
<1>7. Holds((a \o b) \o c, 10, 0)
  BY <1>2, <1>6, HoldsJoined
<1>8. Holds(((a \o b) \o c) \o d, 14, 0)
  BY <1>1, <1>7, HoldsJoined
<1>9. Holds((((a \o b) \o c) \o d) \o Tests, 27, 0)
  BY <1>8, TestsHold, HoldsJoined
<1>10. Holds(((((a \o b) \o c) \o d) \o Tests) \o Resets, 27 + 2 * RESETS, 0)
  BY <1>5, <1>9, ResetsHold, HoldsJoined
<1> QED BY <1>3, <1>4, <1>5, <1>10, HoldsJoined DEF LastPlace
-----------------------------------------------------------------------------
(* What holds at each place.                                               *)

\* What is left from a place on.
Rest(p) == SubSeq(vt8242_init, p, LastPlace)

Asked(c) == input = [kind |-> "command", value |-> c]
HasData == input # Empty /\ input.kind = "data"
FromKeyboard == output # Empty => output.from = "keyboard"
Clean(c) == TRANS \notin c /\ AUX_INT \notin c
Running(c) == Clean(c) /\ KBD_OFF \notin c

\* Neither translation nor the second channel's interrupt comes back once
\* they are switched off, and the keyboard's clock is left on.
ConfigAt(p) ==
  /\ p = 14 => Asked("write_config") \/ (input = Empty /\ mode = "config")
  /\ p \in {15, 16} =>
       \/ HasData /\ mode = "config" /\ Clean(input.value)
       \/ input = Empty /\ mode = "data" /\ Clean(config)
  /\ p >= 17 => mode = "data" /\ Clean(config)
  /\ p >= 27 => Asked("keyboard_on") \/ KBD_OFF \notin config

\* What the controller has not obeyed yet.
InputAt(p) ==
  /\ p \in 17 .. 26 =>
       \/ input = Empty
       \/ \E c \in {"diagnose", "aux_on", "read_config", "aux_off", "test_keyboard"} : Asked(c)
  /\ p = 27 => input = Empty \/ Asked("keyboard_on")
  /\ p >= 28 => input = Empty \/ Asked("keyboard_on") \/ HasData

\* The second flush leaves no answer of the controller unless there is no keyboard.
FlushAt(p) ==
  /\ flushed \in Nat
  /\ p \notin {15, 27} => flushed = 0
  /\ p = 27 /\ flushed # 0 => FromKeyboard
  /\ p >= 28 /\ present => FromKeyboard

Refusals == {NO_CLOCK, RESEND}

\* Without a keyboard the first flush leaves nothing, and from there on each
\* answer is read before the next question.
AloneAt(p) ==
  /\ sending = <<>>
  /\ p = 15 /\ flushed # 0 => output = Empty
  /\ p \in {16, 18, 19, 20, 22, 23, 24, 26, 27} => output = Empty
  /\ p \in {18, 19, 22, 23, 26} => input = Empty
  /\ p = 17 => (Asked("diagnose") /\ output = Empty) \/ input = Empty
  /\ p = 20 => Asked("aux_on") \/ input = Empty
  /\ p = 21 => (Asked("read_config") /\ output = Empty) \/ input = Empty
  /\ p = 24 => Asked("aux_off") \/ input = Empty
  /\ p = 25 =>
       \/ Asked("test_keyboard") /\ output = Empty
       \/ input = Empty /\ (output # Empty => output.byte = NO_CLOCK)
  /\ p \in {26, 27} => last = NO_CLOCK
  /\ p >= 28 => last \in Refusals /\ (output # Empty => output.byte \in Refusals)
  /\ p = LastPlace => byte \in Refusals

Searching(p) ==
  /\ ConfigAt(p) /\ InputAt(p) /\ FlushAt(p)
  /\ ~present => AloneAt(p)

\* The steps of Enable that are left.
EnableRest(q) == SubSeq(Enable, q, 5)

\* The command byte is read and written back with the keyboard's interrupt,
\* unless it was the keyboard that answered.
Enabling(q) ==
  /\ q <= 3 => mode = "data" /\ Clean(config)
  /\ q <= 2 =>
       /\ input = Empty \/ Asked("keyboard_on") \/ HasData
       /\ Asked("keyboard_on") \/ KBD_OFF \notin config
       /\ FromKeyboard
  /\ q = 3 =>
       /\ KBD_OFF \notin config
       /\ \/ Asked("read_config") /\ FromKeyboard
          \/ input = Empty /\ (output # Empty => output.from = "keyboard" \/ output.byte = config)
  /\ q = 4 /\ ~mixed => input = Empty /\ byte = config /\ Running(config)
  /\ q = 5 /\ ~mixed =>
       Running(byte) /\ (Asked("write_config") \/ (input = Empty /\ mode = "config"))
  /\ q = 6 /\ ~mixed =>
       \/ HasData /\ mode = "config" /\ Running(input.value) /\ KBD_INT \in input.value
       \/ input = Empty /\ Running(config) /\ KBD_INT \in config

BootInv ==
  \/ ~found /\ todo = <<>>
  \/ ~found /\ \E p \in Places : todo = Rest(p) /\ Searching(p)
  \/ found /\ present /\ \E q \in 1 .. 6 : todo = EnableRest(q) /\ Enabling(q)

\* One step of the program at a time.
LEMMA RestIs ==
  ASSUME NEW p \in Places, todo = Rest(p)
  PROVE  /\ ~Done /\ StandsAt(Head(todo), p) /\ Tail(todo) = Rest(p + 1)
         /\ p < LastPlace => Tail(Tail(todo)) = Rest(p + 2)
<1>1. /\ vt8242_init \in Seq(Steps) /\ LastPlace = Len(vt8242_init)
      /\ \A i \in 1 .. LastPlace : StandsAt(vt8242_init[i], 0 + i)
  BY ProgramHolds DEF Holds
<1>2. LastPlace \in Nat
  BY LastIs
<1>3. Head(todo) = vt8242_init[p] /\ Tail(todo) = Rest(p + 1)
  BY <1>1, <1>2, HeadTailOfSubSeq DEF Rest, Places
<1>4. todo # <<>>
  <2>1. Len(todo) = LastPlace - p + 1
    BY <1>1, <1>2 DEF Rest, Places
  <2> QED BY <1>2, <2>1 DEF Places
<1>5. ASSUME p < LastPlace PROVE Tail(Rest(p + 1)) = Rest(p + 2)
  <2>1. p + 1 \in 1 .. LastPlace /\ LastPlace \in p + 1 .. LastPlace
    BY <1>2, <1>5 DEF Places
  <2>2. Tail(SubSeq(vt8242_init, p + 1, LastPlace)) = SubSeq(vt8242_init, (p + 1) + 1, LastPlace)
    BY <1>1, <2>1, HeadTailOfSubSeq
  <2>3. (p + 1) + 1 = p + 2
    BY DEF Places
  <2> QED BY <2>2, <2>3 DEF Rest
<1>6. StandsAt(vt8242_init[p], p)
  <2>1. StandsAt(vt8242_init[p], 0 + p)
    BY <1>1 DEF Places
  <2>2. 0 + p = p
    BY DEF Places
  <2> QED BY <2>1, <2>2
<1> QED BY <1>3, <1>4, <1>5, <1>6 DEF Done

\* The step x stands at place q of Enable.
StandsIn(x, q) ==
  /\ q = 1 => x = Flush
  /\ q = 2 => x = Command("read_config")
  /\ q = 3 => x = Receive
  /\ q = 4 => x = Command("write_config")
  /\ q = 5 => x = SendConfig({}, {KBD_INT})

\* The steps of Enable, one by one.
LEMMA EnableIs ==
  Enable \in Seq(Steps) /\ Len(Enable) = 5 /\ \A q \in 1 .. 5 : StandsIn(Enable[q], q)
<1> DEFINE a == <<Flush>>
           b == Configure({}, {KBD_INT})
<1>1. /\ Flush \in Steps /\ Command("read_config") \in Steps /\ Receive \in Steps
      /\ Command("write_config") \in Steps /\ SendConfig({}, {KBD_INT}) \in Steps
  BY DEF Steps
<1>2. a \in Seq(Steps) /\ Len(a) = 1 /\ \A i \in 1 .. 1 : a[i] = Flush
  <2>1. a \in Seq(Steps) /\ Len(a) = 1
    BY <1>1
  <2>2. a[1] = Flush
    OBVIOUS
  <2> QED BY <2>1, <2>2
<1>3. /\ b \in Seq(Steps) /\ Len(b) = 4
      /\ \A i \in 1 .. 4 : b[i] = IF i = 1 THEN Command("read_config") ELSE IF i = 2 THEN Receive
                                  ELSE IF i = 3 THEN Command("write_config")
                                  ELSE SendConfig({}, {KBD_INT})
  BY <1>1, TupleIs DEF Configure
<1>4. Enable = a \o b
  BY DEF Enable
<1> HIDE DEF a, b
<1>5. /\ a \o b \in Seq(Steps) /\ Len(a \o b) = 1 + 4
      /\ \A i \in 1 .. 1 + 4 : (a \o b)[i] = IF i <= 1 THEN a[i] ELSE b[i - 1]
  <2>1. PICK m \in Nat, n \in Nat : m = 1 /\ n = 4
    OBVIOUS
  <2>2. a \in Seq(Steps) /\ b \in Seq(Steps) /\ m \in Nat /\ n \in Nat /\ m = Len(a) /\ n = Len(b)
    BY <1>2, <1>3, <2>1
  <2>3. /\ a \o b \in Seq(Steps) /\ Len(a \o b) = m + n
        /\ \A i \in 1 .. m + n : (a \o b)[i] = IF i <= m THEN a[i] ELSE b[i - m]
    BY ONLY <2>2, JoinedIs
  <2> QED BY <2>1, <2>3
<1>6. ASSUME NEW q \in 1 .. 5 PROVE StandsIn(Enable[q], q)
  <2>1. Enable[q] = IF q <= 1 THEN a[q] ELSE b[q - 1]
    <3>1. q \in 1 .. 1 + 4
      OBVIOUS
    <3> QED BY <1>4, <1>5, <3>1
  <2>2. CASE q = 1
    <3>1. a[q] = Flush /\ q <= 1
      BY <1>2, <2>2
    <3>2. Enable[q] = a[q]
      BY <2>1, <3>1
    <3> QED BY <2>2, <3>1, <3>2 DEF StandsIn
  <2>3. CASE q # 1
    <3>1. q - 1 \in 1 .. 4 /\ Enable[q] = b[q - 1]
      BY <2>1, <2>3
    <3> QED BY <1>3, <2>3, <3>1 DEF StandsIn
  <2> QED BY <2>2, <2>3
<1> QED BY <1>4, <1>5, <1>6

\* One step of Enable at a time.
LEMMA EnableRestIs ==
  ASSUME NEW q \in 1 .. 6, todo = EnableRest(q)
  PROVE  /\ q = 6 <=> Done
         /\ q < 6 => StandsIn(Head(todo), q) /\ Tail(todo) = EnableRest(q + 1)
<1>1. Enable \in Seq(Steps) /\ 5 = Len(Enable)
  BY EnableIs
<1>2. CASE q = 6
  BY <1>2 DEF EnableRest, Done
<1>3. CASE q < 6
  <2>1. q \in 1 .. 5 /\ 5 \in q .. 5
    BY <1>3
  <2>2. Head(todo) = Enable[q] /\ Tail(todo) = EnableRest(q + 1)
    <3>1. q \in 1 .. Len(Enable) /\ Len(Enable) \in q .. Len(Enable)
      BY <1>1, <2>1
    <3>2. /\ Head(SubSeq(Enable, q, Len(Enable))) = Enable[q]
          /\ Tail(SubSeq(Enable, q, Len(Enable))) = SubSeq(Enable, q + 1, Len(Enable))
      BY <1>1, <3>1, HeadTailOfSubSeq
    <3> QED BY <1>1, <3>2 DEF EnableRest
  <2>3. todo # <<>>
    <3>1. Len(todo) = 5 - q + 1
      BY <1>1, <2>1 DEF EnableRest
    <3> QED BY <2>1, <3>1
  <2> QED BY <1>3, <2>1, <2>2, <2>3, EnableIs DEF Done
<1> QED BY <1>2, <1>3

\* What is done at which place.
LEMMA PlacesAre ==
  ASSUME NEW p \in Places, NEW x, StandsAt(x, p)
  PROVE  /\ x.op = "command" =>
              \/ p \in {1, 5, 11, 20} /\ x.arg = "read_config"
              \/ p \in {3, 7, 13} /\ x.arg = "write_config"
              \/ p = 9 /\ x.arg = "keyboard_off"
              \/ p \in {10, 23} /\ x.arg = "aux_off"
              \/ p = 16 /\ x.arg = "diagnose"
              \/ p = 19 /\ x.arg = "aux_on"
              \/ p = 24 /\ x.arg = "test_keyboard"
              \/ p = 26 /\ x.arg = "keyboard_on"
         /\ x.op = "receive" => p \in {2, 6, 12, 17, 21, 25}
         /\ x.op = "config" => p \in {4, 8, 14}
         /\ p = 14 => x.off = {KBD_INT, AUX_INT, TRANS} /\ x.on = {}
         /\ x.op = "flush" => p \in {15, 27}
         /\ x.op = "reset" => p \in 28 .. LastPlace - 2
         /\ x.op = "peek" => p \in 28 .. LastPlace - 1
         /\ x.op = "test" =>
              \/ p = 18 /\ x.arg = "diagnosis"
              \/ p = 22 /\ x.arg = "second_channel"
              \/ p = LastPlace /\ x.arg = "answer"
<1>1. LastPlace \in Nat /\ LastPlace >= 29 /\ p \in Nat /\ p >= 1 /\ p <= LastPlace
  BY LastIs DEF Places
<1>2. CASE p \in {1, 3, 5, 7, 9, 10, 11, 13, 16, 19, 20, 23, 24, 26}
  BY <1>1, <1>2 DEF StandsAt, Command
<1>3. CASE p \in {2, 6, 12, 17, 21, 25}
  BY <1>1, <1>3 DEF StandsAt, Receive
<1>4. CASE p \in {4, 8, 14}
  BY <1>1, <1>4 DEF StandsAt, SendConfig, Off
<1>5. CASE p \in {15, 27}
  BY <1>1, <1>5 DEF StandsAt, Flush
<1>6. CASE p \in {18, 22}
  BY <1>1, <1>6 DEF StandsAt, Test
<1>7. CASE p = LastPlace
  BY <1>1, <1>7 DEF StandsAt, Test
<1>8. CASE p > 27 /\ p < LastPlace
  BY <1>1, <1>8 DEF StandsAt, SendReset, Peek
<1> QED BY <1>1, <1>2, <1>3, <1>4, <1>5, <1>6, <1>7, <1>8

\* A step that leads to what holds at the next place keeps the invariant.
LEMMA Onward ==
  ASSUME NEW p \in Places, p < LastPlace, ~found', todo' = Rest(p + 1), Searching(p + 1)'
  PROVE  BootInv'
<1>1. p + 1 \in Places
  BY LastIs DEF Places
<1> QED BY <1>1 DEF BootInv

\* A command is written to the controller.
LEMMA CommandSound ==
  ASSUME ~found, NEW p \in Places, todo = Rest(p), Searching(p), WriteCommand
  PROVE  BootInv'
<1> DEFINE x == Head(todo)
<1>1. /\ x.op = "command" /\ input = Empty /\ input' = [kind |-> "command", value |-> x.arg]
      /\ todo' = Rest(p + 1)
      /\ UNCHANGED <<byte, flushed, found, config, output, last, mode, present, sending>>
  BY RestIs DEF WriteCommand, Writes, Next_, Proceeds, keyboard
<1>2. \/ p \in {1, 5, 11, 20} /\ x.arg = "read_config"
      \/ p \in {3, 7, 13} /\ x.arg = "write_config"
      \/ p = 9 /\ x.arg = "keyboard_off"
      \/ p \in {10, 23} /\ x.arg = "aux_off"
      \/ p = 16 /\ x.arg = "diagnose"
      \/ p = 19 /\ x.arg = "aux_on"
      \/ p = 24 /\ x.arg = "test_keyboard"
      \/ p = 26 /\ x.arg = "keyboard_on"
  BY <1>1, RestIs, PlacesAre
<1> HIDE DEF x
<1>3. LastPlace \in Nat /\ LastPlace >= 29 /\ p \in Nat
  BY LastIs DEF Places
<1>4. ConfigAt(p + 1)'
  BY <1>1, <1>2, <1>3 DEF Searching, ConfigAt, Asked, HasData, Empty
<1>5. InputAt(p + 1)'
  BY <1>1, <1>2, <1>3 DEF InputAt, Asked
<1>6. FlushAt(p + 1)'
  BY <1>1, <1>2, <1>3 DEF Searching, FlushAt
<1>7. ASSUME ~present' PROVE AloneAt(p + 1)'
  BY <1>1, <1>2, <1>3, <1>7 DEF Searching, AloneAt, Asked
<1>8. p < LastPlace
  BY <1>2, <1>3
<1>9. Searching(p + 1)'
  BY <1>4, <1>5, <1>6, <1>7 DEF Searching
<1> QED BY <1>1, <1>8, <1>9, Onward

\* An input or output buffer that holds something is not empty.
LEMMA RecordIs == \A k, v : [kind |-> k, value |-> v] # <<>>
OBVIOUS

\* A command byte is written, or a reset for the keyboard.
LEMMA DataSound ==
  ASSUME ~found, NEW p \in Places, todo = Rest(p), Searching(p), WriteConfig \/ WriteReset
  PROVE  BootInv'
<1> DEFINE x == Head(todo)
<1>1. /\ input = Empty /\ HasData' /\ todo' = Rest(p + 1)
      /\ (x.op = "config" /\ input'.value = (byte \ x.off) \cup x.on) \/ x.op = "reset"
      /\ UNCHANGED <<byte, flushed, found, config, output, last, mode, present, sending>>
  <2>1. CASE WriteConfig
    <3>1. input' = [kind |-> "data", value |-> (byte \ x.off) \cup x.on] /\ x.op = "config"
      BY <2>1 DEF WriteConfig, Writes, Next_
    <3>2. HasData'
      BY <3>1, RecordIs DEF HasData, Empty
    <3> QED BY <2>1, <3>1, <3>2, RestIs DEF WriteConfig, Writes, Next_, Proceeds, keyboard
  <2>2. CASE WriteReset
    <3>1. input' = [kind |-> "data", value |-> "reset"] /\ x.op = "reset"
      BY <2>2 DEF WriteReset, Writes, Next_
    <3>2. HasData'
      BY <3>1, RecordIs DEF HasData, Empty
    <3> QED BY <2>2, <3>1, <3>2, RestIs DEF WriteReset, Writes, Next_, Proceeds, keyboard
  <2> QED BY <2>1, <2>2
<1>2. /\ p \in {4, 8, 14} \/ p \in 28 .. LastPlace - 2
      /\ p = 14 => x.op # "reset" /\ x.off = {KBD_INT, AUX_INT, TRANS} /\ x.on = {}
  <2>1. StandsAt(x, p)
    BY RestIs
  <2>2. x.op = "reset" => p # 14
    BY <2>1, PlacesAre
  <2> QED BY <1>1, <2>1, <2>2, PlacesAre
<1> HIDE DEF x
<1>3. LastPlace \in Nat /\ LastPlace >= 29 /\ p \in Nat
  BY LastIs DEF Places
<1>4. p = 14 => Clean(input'.value)
  BY <1>1, <1>2 DEF Clean
<1>5. ~Asked("write_config")
  BY <1>1, RecordIs DEF Asked, Empty
<1>11. ConfigAt(p + 1)'
  <2>1. CASE p \in {4, 8}
    BY <1>3, <2>1 DEF ConfigAt
  <2>2. CASE p = 14
    <3>1. mode' = "config"
      BY <1>1, <1>5, <2>2 DEF Searching, ConfigAt
    <3> QED BY <1>1, <1>4, <2>2, <3>1 DEF ConfigAt
  <2>3. CASE p \in 28 .. LastPlace - 2
    <3>1. mode' = "data" /\ Clean(config)' /\ KBD_OFF \notin config'
      <4>1. ~Asked("keyboard_on")
        BY <1>1, RecordIs DEF Asked, Empty
      <4> QED BY <1>1, <1>3, <2>3, <4>1 DEF Searching, ConfigAt, Clean
    <3> QED BY <1>3, <2>3, <3>1 DEF ConfigAt
  <2> QED BY <1>2, <2>1, <2>2, <2>3
<1>6. InputAt(p + 1)'
  BY <1>1, <1>2, <1>3 DEF InputAt
<1>7. FlushAt(p + 1)'
  BY <1>1, <1>2, <1>3 DEF Searching, FlushAt, FromKeyboard
<1>8. ASSUME ~present' PROVE AloneAt(p + 1)'
  BY <1>1, <1>2, <1>3, <1>8 DEF Searching, AloneAt, FlushAt
<1>9. p < LastPlace
  BY <1>2, <1>3
<1>10. Searching(p + 1)'
  BY <1>6, <1>7, <1>8, <1>11 DEF Searching
<1> QED BY <1>1, <1>9, <1>10, Onward

\* The byte that was waited for is read.
LEMMA AnswerSound ==
  ASSUME ~found, NEW p \in Places, todo = Rest(p), Searching(p), ReadAnswer
  PROVE  BootInv'
<1>1. /\ Head(todo).op = "receive" /\ output # Empty /\ output' = Empty
      /\ byte' = output.byte /\ last' = output.byte /\ todo' = Rest(p + 1)
      /\ UNCHANGED <<flushed, found, config, input, mode, present, sending>>
  BY RestIs DEF ReadAnswer, Takes, UnchangedByRead, Next_, Proceeds, keyboard
<1>2. p \in {2, 6, 12, 17, 21, 25}
  BY <1>1, RestIs, PlacesAre
<1>3. LastPlace \in Nat /\ LastPlace >= 29 /\ p \in Nat
  BY LastIs DEF Places
<1>4. ConfigAt(p + 1)'
  BY <1>1, <1>2, <1>3 DEF Searching, ConfigAt
<1>5. InputAt(p + 1)'
  BY <1>1, <1>2, <1>3 DEF Searching, InputAt, Asked
<1>6. FlushAt(p + 1)'
  BY <1>1, <1>2, <1>3 DEF Searching, FlushAt
<1>7. ASSUME ~present' PROVE AloneAt(p + 1)'
  BY <1>1, <1>2, <1>3, <1>7 DEF Searching, AloneAt
<1>8. p < LastPlace
  BY <1>2, <1>3
<1>9. Searching(p + 1)'
  BY <1>4, <1>5, <1>6, <1>7 DEF Searching
<1> QED BY <1>1, <1>8, <1>9, Onward

\* A byte is read that may not have come.
LEMMA AnySound ==
  ASSUME ~found, NEW p \in Places, todo = Rest(p), Searching(p), ReadAny
  PROVE  BootInv'
<1>1. /\ Head(todo).op = "peek" /\ output' = Empty
      /\ byte' = IF output = Empty THEN last ELSE output.byte
      /\ last' = byte' /\ todo' = Rest(p + 1)
      /\ UNCHANGED <<flushed, found, config, input, mode, present, sending>>
  BY RestIs DEF ReadAny, Takes, UnchangedByRead, Next_, Proceeds, keyboard
<1>2. p \in 28 .. LastPlace - 1
  BY <1>1, RestIs, PlacesAre
<1>3. LastPlace \in Nat /\ LastPlace >= 29 /\ p \in Nat
  BY LastIs DEF Places
<1>4. ConfigAt(p + 1)'
  BY <1>1, <1>2, <1>3 DEF Searching, ConfigAt, Asked
<1>5. InputAt(p + 1)'
  BY <1>1, <1>2, <1>3 DEF Searching, InputAt, Asked, HasData
<1>6. FlushAt(p + 1)'
  BY <1>1, <1>2, <1>3 DEF Searching, FlushAt, FromKeyboard
<1>7. ASSUME ~present' PROVE AloneAt(p + 1)'
  BY <1>1, <1>2, <1>3, <1>7 DEF Searching, AloneAt
<1>8. p < LastPlace
  BY <1>2, <1>3
<1>9. Searching(p + 1)'
  BY <1>4, <1>5, <1>6, <1>7 DEF Searching
<1> QED BY <1>1, <1>8, <1>9, Onward

\* A flush reads a byte, or ends.
LEMMA FlushSound ==
  ASSUME ~found, NEW p \in Places, todo = Rest(p), Searching(p), FlushOne
  PROVE  BootInv'
<1>1. /\ Head(todo).op = "flush"
      /\ UNCHANGED <<byte, found, config, input, mode, present, sending>>
  BY DEF FlushOne, UnchangedByRead, Next_, keyboard
<1>2. p \in {15, 27}
  BY <1>1, RestIs, PlacesAre
<1>3. LastPlace \in Nat /\ LastPlace >= 29 /\ p \in Nat /\ flushed \in Nat
  BY LastIs DEF Places, Searching, FlushAt
<1>4. PS2_TIMEOUT \in Nat /\ PS2_TIMEOUT > 0
  BY BootAssumption
<1>5. CASE output # Empty /\ flushed < PS2_TIMEOUT
  <2>1. output' = Empty /\ flushed' = flushed + 1 /\ todo' = todo
    BY <1>5 DEF FlushOne
  <2>2. ConfigAt(p)'
    BY <1>1, <1>2, <1>3 DEF Searching, ConfigAt, Asked, HasData
  <2>3. InputAt(p)'
    BY <1>1, <1>2, <1>3 DEF Searching, InputAt, Asked
  <2>4. FlushAt(p)'
    BY <1>2, <1>3, <2>1 DEF FlushAt, FromKeyboard
  <2>5. ASSUME ~present' PROVE AloneAt(p)'
    BY <1>1, <1>2, <1>3, <1>5, <2>1, <2>5 DEF Searching, AloneAt
  <2>6. Searching(p)'
    BY <2>2, <2>3, <2>4, <2>5 DEF Searching
  <2> QED BY <1>1, <2>1, <2>6 DEF BootInv
<1>6. CASE ~(output # Empty /\ flushed < PS2_TIMEOUT)
  <2>1. UNCHANGED <<output, last>> /\ flushed' = 0 /\ todo' = Rest(p + 1)
    BY <1>6, RestIs DEF FlushOne, Proceeds
  <2>2. output = Empty \/ flushed # 0
    BY <1>3, <1>4, <1>6
  <2>3. ConfigAt(p + 1)'
    BY <1>1, <1>2, <1>3 DEF Searching, ConfigAt, Asked, HasData
  <2>4. InputAt(p + 1)'
    BY <1>1, <1>2, <1>3 DEF Searching, InputAt, Asked
  <2>5. FlushAt(p + 1)'
    BY <1>2, <1>3, <2>1, <2>2 DEF Searching, FlushAt, FromKeyboard
  <2>6. ASSUME ~present' PROVE AloneAt(p + 1)'
    BY <1>1, <1>2, <1>3, <2>1, <2>2, <2>6 DEF Searching, AloneAt, Refusals
  <2>7. p < LastPlace
    BY <1>2, <1>3
  <2>8. Searching(p + 1)'
    BY <2>3, <2>4, <2>5, <2>6 DEF Searching
  <2> QED BY <1>1, <2>1, <2>7, <2>8, Onward
<1> QED BY <1>5, <1>6

\* The search begins, or begins again, whatever controller and keyboard hold.
LEMMA SearchBegins ==
  ASSUME ~found', todo' = vt8242_init, flushed' = 0, ~present' => sending' = <<>>
  PROVE  BootInv'
<1>1. LastPlace \in Nat /\ LastPlace >= 29 /\ 1 \in Places
  BY LastIs DEF Places
<1>2. vt8242_init = Rest(1)
  <2>1. vt8242_init \in Seq(Steps) /\ Len(vt8242_init) = LastPlace
    BY ProgramHolds DEF Holds
  <2> QED BY <2>1, SubSeqFull DEF Rest
<1>3. Searching(1)'
  BY <1>1 DEF Searching, ConfigAt, InputAt, FlushAt, AloneAt
<1> QED BY <1>1, <1>2, <1>3 DEF BootInv

\* vt8242_init goes on, returns to be called again, or has found a keyboard.
LEMMA TestSound ==
  ASSUME ~found, NEW p \in Places, todo = Rest(p), Searching(p), TestByte
  PROVE  BootInv'
<1>1. /\ Head(todo).op = "test"
      /\ UNCHANGED <<byte, flushed, config, input, output, last, mode, present, sending>>
  BY DEF TestByte, Next_, controller, keyboard
<1>2. LastPlace \in Nat /\ LastPlace >= 29 /\ p \in Nat
  BY LastIs DEF Places
<1>3. \/ p = 18 /\ Head(todo).arg = "diagnosis"
      \/ p = 22 /\ Head(todo).arg = "second_channel"
      \/ p = LastPlace /\ Head(todo).arg = "answer"
  BY <1>1, RestIs, PlacesAre
<1>4. flushed' = 0 /\ (~present' => sending' = <<>>)
  BY <1>1, <1>2, <1>3 DEF Searching, FlushAt, AloneAt
<1>5. ASSUME ~found', todo' \in {vt8242_init, <<>>} PROVE BootInv'
  BY <1>4, <1>5, SearchBegins DEF BootInv
<1>6. ASSUME p \in {18, 22}, NEW k \in {1, 2}, p = 18 => k = 1, todo' = Rest(p + k), ~found'
      PROVE  BootInv'
  <2>1. p + k \in {19, 23, 24} /\ (p = 18 => p + k = 19)
    BY <1>2, <1>6
  <2>2. ConfigAt(p + k)' /\ InputAt(p + k)'
    BY <1>1, <1>2, <1>6, <2>1 DEF Searching, ConfigAt, InputAt, Asked
  <2>3. FlushAt(p + k)'
    BY <1>4, <2>1, <1>2 DEF FlushAt
  <2>4. ASSUME ~present' PROVE AloneAt(p + k)'
    BY <1>1, <1>2, <1>6, <2>1, <2>4 DEF Searching, AloneAt
  <2>5. Searching(p + k)'
    BY <2>2, <2>3, <2>4 DEF Searching
  <2>6. p + k \in Places
    BY <1>2, <2>1 DEF Places
  <2> QED BY <1>6, <2>5, <2>6 DEF BootInv
<1>10. /\ Head(todo).arg = "diagnosis" =>
             todo' \in {Tail(todo), vt8242_init, <<>>} /\ ~found'
       /\ Head(todo).arg = "second_channel" =>
             todo' \in {Tail(todo), Tail(Tail(todo))} /\ found' = found
       /\ Head(todo).arg = "answer" => Returns(Passed(byte))
  <2>1. CASE Head(todo).arg = "diagnosis"
    BY <2>1 DEF TestByte, Proceeds, Returns
  <2>2. CASE Head(todo).arg = "second_channel"
    BY <2>2 DEF TestByte
  <2>3. CASE Head(todo).arg = "answer"
    BY <2>3 DEF TestByte
  <2> QED BY <2>1, <2>2, <2>3
<1>11. Tail(todo) = Rest(p + 1) /\ (p < LastPlace => Tail(Tail(todo)) = Rest(p + 2))
  BY RestIs
<1>7. CASE p = 18
  <2>1. Head(todo).arg = "diagnosis"
    BY <1>2, <1>3, <1>7
  <2>2. todo' = Rest(p + 1) \/ todo' \in {vt8242_init, <<>>}
    BY <2>1, <1>10, <1>11
  <2> QED BY <1>5, <1>6, <1>7, <1>10, <2>1, <2>2
<1>8. CASE p = 22
  <2>1. (todo' = Rest(p + 1) \/ todo' = Rest(p + 2)) /\ found' = found
    <3>1. Head(todo).arg = "second_channel" /\ p < LastPlace
      BY <1>2, <1>3, <1>8
    <3> QED BY <3>1, <1>10, <1>11
  <2> QED BY <1>6, <1>8, <2>1
<1>9. CASE p = LastPlace
  <2>1. Returns(Passed(byte))
    BY <1>2, <1>3, <1>9, <1>10
  <2>2. CASE ~Passed(byte)
    <3>1. ~found' /\ todo' \in {vt8242_init, <<>>}
      BY <2>1, <2>2 DEF Returns
    <3> QED BY <1>5, <3>1
  <2>3. CASE Passed(byte)
    <3>1. found' /\ todo' = Enable
      BY <2>1, <2>3 DEF Returns, Passed
    <3>2. present
      <4>1. ASSUME ~present PROVE FALSE
        <5>1. byte \in {NO_CLOCK, RESEND} /\ byte \in {RST_OK, ACK}
          BY <1>2, <1>9, <2>3, <4>1 DEF Searching, AloneAt, Refusals, Passed
        <5>2. 1 \in NO_CLOCK /\ 1 \notin RST_OK /\ 1 \notin ACK /\ 4 \in RESEND /\ 4 \notin RST_OK
              /\ 4 \notin ACK
          BY DEF NO_CLOCK, RESEND, RST_OK, ACK
        <5> QED BY <5>1, <5>2
      <4> QED BY <4>1
    <3>3. Enabling(1)'
      BY <1>1, <1>2, <1>9, <3>2 DEF Searching, ConfigAt, InputAt, FlushAt, Enabling, FromKeyboard,
         Asked, HasData
    <3>4. Enable = EnableRest(1)
      BY EnableIs, SubSeqFull DEF EnableRest
    <3> QED BY <1>1, <3>1, <3>2, <3>3, <3>4 DEF BootInv
  <2> QED BY <2>2, <2>3
<1> QED BY <1>3, <1>7, <1>8, <1>9

\* What the controller does with the command in its input buffer.
LEMMA Obeyed ==
  ASSUME ControllerObeys
  PROVE  /\ input.kind = "command" /\ input # Empty /\ input' = Empty
         /\ UNCHANGED <<todo, byte, flushed, found, last, present, sending, mixed>>
         /\ \/ /\ \/ Asked("read_config") /\ output'.byte = config
                  \/ Asked("diagnose") /\ output'.byte = DIAG_OK
                  \/ Asked("test_keyboard") /\ (~present => output'.byte = NO_CLOCK)
               /\ output' # Empty /\ UNCHANGED <<config, mode>>
            \/ Asked("write_config") /\ mode' = "config" /\ UNCHANGED <<config, output>>
            \/ /\ \/ Asked("keyboard_off") /\ config' = config \cup {KBD_OFF}
                  \/ Asked("keyboard_on") /\ config' = config \ {KBD_OFF}
                  \/ Asked("aux_off") /\ config' = config \cup {AUX_OFF}
                  \/ Asked("aux_on") /\ config' = config \ {AUX_OFF}
               /\ UNCHANGED <<output, mode>>
<1>1. /\ input' = Empty
      /\ UNCHANGED <<todo, byte, flushed, found, last, present, sending, mixed>>
  BY DEF ControllerObeys, driver, keyboard
<1>2. ASSUME NEW c, IsInput("command", c)
      PROVE  Asked(c) /\ input.kind = "command" /\ input # Empty
  BY <1>2, RecordIs DEF IsInput, Asked, Empty
<1>3. ASSUME NEW b, Answers(b)
      PROVE  output'.byte = b /\ output' # Empty /\ UNCHANGED <<config, mode>>
  <2>1. output' = [from |-> "controller", byte |-> b]
    BY <1>3 DEF Answers
  <2>2. output' # Empty
    BY <2>1 DEF Empty
  <2> QED BY <1>3, <2>1, <2>2 DEF Answers
<1>4. CASE IsInput("command", "read_config") /\ Answers(config)
  BY <1>1, <1>2, <1>3, <1>4
<1>5. CASE IsInput("command", "write_config") /\ mode' = "config" /\ UNCHANGED <<config, output>>
  BY <1>1, <1>2, <1>5
<1>6. CASE IsInput("command", "diagnose") /\ Answers(DIAG_OK)
  BY <1>1, <1>2, <1>3, <1>6
<1>7. CASE IsInput("command", "test_keyboard") /\ Answers(IF present THEN TEST_OK ELSE NO_CLOCK)
  BY <1>1, <1>2, <1>3, <1>7
<1>8. CASE IsInput("command", "keyboard_off") /\ Becomes(config \cup {KBD_OFF})
  BY <1>1, <1>2, <1>8 DEF Becomes
<1>9. CASE IsInput("command", "keyboard_on") /\ Becomes(config \ {KBD_OFF})
  BY <1>1, <1>2, <1>9 DEF Becomes
<1>10. CASE IsInput("command", "aux_off") /\ Becomes(config \cup {AUX_OFF})
  BY <1>1, <1>2, <1>10 DEF Becomes
<1>11. CASE IsInput("command", "aux_on") /\ Becomes(config \ {AUX_OFF})
  BY <1>1, <1>2, <1>11 DEF Becomes
<1> QED BY <1>4, <1>5, <1>6, <1>7, <1>8, <1>9, <1>10, <1>11 DEF ControllerObeys

\* A command is one command.
LEMMA OneIsAsked == ASSUME NEW c, NEW d, Asked(c), Asked(d) PROVE c = d
BY DEF Asked

\* A step of the controller or the keyboard leaves the driver at its place.
LEMMA Stays ==
  ASSUME NEW p \in Places, todo = Rest(p), ~found, UNCHANGED <<todo, found>>, Searching(p)'
  PROVE  BootInv'
BY DEF BootInv

\* The controller obeys a command while the driver searches.
LEMMA ObeysSound ==
  ASSUME ~found, NEW p \in Places, todo = Rest(p), Searching(p), ControllerObeys
  PROVE  BootInv'
<1>1. /\ input.kind = "command" /\ input # Empty /\ input' = Empty
      /\ UNCHANGED <<todo, byte, flushed, found, last, present, sending, mixed>>
  BY Obeyed
<1>2. LastPlace \in Nat /\ LastPlace >= 29 /\ p \in Nat
  BY LastIs DEF Places
<1>3. ASSUME NEW c \in {"read_config", "diagnose", "test_keyboard", "keyboard_off", "aux_off", "aux_on",
                        "keyboard_on", "write_config"},
             Asked(c)
      PROVE  /\ p = 14 => c = "write_config"
             /\ p \notin {15, 16}
             /\ p \in 17 .. 26 => c \in {"diagnose", "aux_on", "read_config", "aux_off", "test_keyboard"}
             /\ p >= 27 => c = "keyboard_on"
  <2>1. ~HasData
    BY <1>1 DEF HasData
  <2>2. CASE p = 14
    BY <1>1, <1>3, <2>2, OneIsAsked DEF Searching, ConfigAt
  <2>3. CASE p \in {15, 16}
    BY <1>1, <2>1, <2>3 DEF Searching, ConfigAt
  <2>4. CASE p \in 17 .. 26
    BY <1>1, <1>3, <2>4, OneIsAsked DEF Searching, InputAt
  <2>5. CASE p >= 27
    BY <1>1, <1>2, <1>3, <2>1, <2>5, OneIsAsked DEF Searching, InputAt
  <2> QED BY <1>2, <2>2, <2>3, <2>4, <2>5
<1>4. ConfigAt(p)'
  <2>1. CASE p = 14
    <3>1. mode' = "config"
      BY <1>3, <2>1, Obeyed
    <3> QED BY <1>1, <2>1, <3>1 DEF ConfigAt
  <2>2. CASE p \in 17 .. 26
    <3>1. mode' = "data" /\ Clean(config)'
      BY <1>3, <2>2, Obeyed DEF Searching, ConfigAt, Clean, TRANS, AUX_INT, KBD_OFF, AUX_OFF
    <3> QED BY <2>2, <3>1 DEF ConfigAt
  <2>3. CASE p >= 27
    <3>1. mode' = "data" /\ Clean(config)' /\ KBD_OFF \notin config'
      BY <1>2, <1>3, <2>3, Obeyed DEF Searching, ConfigAt, Clean
    <3> QED BY <1>2, <2>3, <3>1 DEF ConfigAt
  <2>4. CASE p < 14
    BY <1>2, <2>4 DEF ConfigAt
  <2> QED BY <1>2, <1>3, <2>1, <2>2, <2>3, <2>4, Obeyed
<1>5. InputAt(p)'
  BY <1>1 DEF InputAt
<1>6. FlushAt(p)'
  <2>1. p >= 27 => output' = output
    BY <1>2, <1>3, Obeyed
  <2> QED BY <1>1, <1>2, <2>1 DEF Searching, FlushAt, FromKeyboard
<1>7. ASSUME ~present' PROVE AloneAt(p)'
  <2>1. AloneAt(p)
    BY <1>1, <1>7 DEF Searching
  <2>2. p >= 27 => output' = output
    BY <1>2, <1>3, Obeyed
  <2>3. p \notin {15, 16, 18, 19, 22, 23, 26}
    BY <1>1, <1>3, <2>1, Obeyed DEF AloneAt
  <2>4. CASE p \in {20, 24}
    <3>1. Asked("aux_on") \/ Asked("aux_off")
      BY <1>1, <2>1, <2>4 DEF AloneAt
    <3>2. output' = output
      BY <3>1, OneIsAsked, Obeyed
    <3> QED BY <1>1, <1>2, <2>1, <2>4, <3>2 DEF AloneAt
  <2>5. CASE p = 25
    <3>1. Asked("test_keyboard")
      BY <1>1, <2>1, <2>5 DEF AloneAt
    <3>2. output'.byte = NO_CLOCK
      BY <1>1, <1>7, <3>1, OneIsAsked, Obeyed
    <3> QED BY <1>1, <1>2, <2>1, <2>5, <3>2 DEF AloneAt
  <2>6. CASE p \in {17, 21} \/ p < 15
    BY <1>1, <1>2, <2>1, <2>6 DEF AloneAt
  <2>7. CASE p >= 27
    BY <1>1, <1>2, <2>1, <2>2, <2>7 DEF AloneAt
  <2> QED BY <1>2, <2>3, <2>4, <2>5, <2>6, <2>7
<1> QED BY <1>1, <1>4, <1>5, <1>6, <1>7, Stays DEF Searching

\* What the controller does with a data byte.
LEMMA DataTaken ==
  ASSUME ControllerTakesData
  PROVE  /\ HasData /\ input' = Empty /\ mode' = "data"
         /\ UNCHANGED <<todo, byte, flushed, found, last, present, mixed>>
         /\ mode = "config" => config' = input.value /\ UNCHANGED <<output, sending>>
         /\ mode # "config" =>
              /\ config' = config
              /\ present => output' = output
              /\ ~present => sending' = sending /\ output' # Empty /\ output'.byte = RESEND
<1>1. /\ HasData /\ input' = Empty /\ mode' = "data"
      /\ UNCHANGED <<todo, byte, flushed, found, last, present, mixed>>
  BY DEF ControllerTakesData, HasData, driver
<1>2. CASE mode = "config"
  BY <1>1, <1>2 DEF ControllerTakesData
<1>3. CASE mode # "config" /\ present
  BY <1>1, <1>3 DEF ControllerTakesData
<1>4. CASE mode # "config" /\ ~present
  <2>1. output' = [from |-> "controller", byte |-> RESEND] /\ UNCHANGED <<config, sending>>
    BY <1>4 DEF ControllerTakesData
  <2>2. output' # Empty
    BY <2>1 DEF Empty
  <2> QED BY <1>1, <1>4, <2>1, <2>2
<1> QED BY <1>2, <1>3, <1>4

\* The controller takes a data byte while the driver searches.
LEMMA TakesSound ==
  ASSUME ~found, NEW p \in Places, todo = Rest(p), Searching(p), ControllerTakesData
  PROVE  BootInv'
<1>1. /\ HasData /\ input' = Empty /\ mode' = "data"
      /\ UNCHANGED <<todo, byte, flushed, found, last, present, mixed>>
  BY DataTaken
<1>2. LastPlace \in Nat /\ LastPlace >= 29 /\ p \in Nat
  BY LastIs DEF Places
<1>3. input # Empty /\ \A c : ~Asked(c)
  BY <1>1 DEF HasData, Asked
<1>4. p < 14 \/ p \in {15, 16} \/ p >= 28
  <2>1. p # 14
    BY <1>3 DEF Searching, ConfigAt
  <2>2. p \notin 17 .. 27
    BY <1>3 DEF Searching, InputAt
  <2> QED BY <1>2, <2>1, <2>2
<1>5. /\ p \in {15, 16} => mode = "config" /\ Clean(input.value)
      /\ p >= 28 => mode = "data" /\ Clean(config) /\ KBD_OFF \notin config
  BY <1>2, <1>3 DEF Searching, ConfigAt
<1>6. ConfigAt(p)'
  <2>1. CASE p \in {15, 16}
    <3>1. Clean(config)'
      BY <1>5, <2>1, DataTaken DEF Clean
    <3> QED BY <1>1, <2>1, <3>1 DEF ConfigAt
  <2>2. CASE p >= 28
    <3>1. config' = config
      BY <1>5, <2>2, DataTaken
    <3> QED BY <1>1, <1>2, <1>5, <2>2, <3>1 DEF ConfigAt, Clean
  <2>3. CASE p < 14
    BY <1>2, <2>3 DEF ConfigAt
  <2> QED BY <1>4, <2>1, <2>2, <2>3
<1>7. InputAt(p)'
  BY <1>1, <1>2 DEF InputAt
<1>8. FlushAt(p)'
  <2>1. p >= 28 /\ present => output' = output
    BY <1>5, DataTaken
  <2> QED BY <1>1, <1>2, <1>4, <2>1 DEF Searching, FlushAt, FromKeyboard
<1>9. ASSUME ~present' PROVE AloneAt(p)'
  <2>1. AloneAt(p) /\ sending' = sending
    BY <1>1, <1>9, DataTaken DEF Searching
  <2>2. CASE p \in {15, 16}
    <3>1. output' = output
      BY <1>5, <2>2, DataTaken
    <3> QED BY <1>1, <1>2, <2>1, <2>2, <3>1 DEF AloneAt
  <2>3. CASE p >= 28
    <3>1. output'.byte = RESEND
      BY <1>1, <1>5, <1>9, <2>3, DataTaken
    <3> QED BY <1>1, <1>2, <2>1, <2>3, <3>1 DEF AloneAt, Refusals
  <2>4. CASE p < 14
    BY <1>1, <1>2, <2>1, <2>4 DEF AloneAt
  <2> QED BY <1>4, <2>2, <2>3, <2>4
<1> QED BY <1>1, <1>6, <1>7, <1>8, <1>9, Stays DEF Searching

\* The keyboard sends or is typed on while the driver searches.
LEMMA KeyboardSound ==
  ASSUME ~found, NEW p \in Places, todo = Rest(p), Searching(p),
         KeyboardSends \/ \E k \in Scancodes : KeyTyped(k)
  PROVE  BootInv'
<1>1. UNCHANGED <<todo, byte, flushed, found, config, input, last, mode, present>>
  BY DEF KeyboardSends, KeyTyped, driver, controller
<1>2. output' = output \/ output'.from = "keyboard"
  BY DEF KeyboardSends, KeyTyped, controller
<1>3. ConfigAt(p)'
  BY <1>1 DEF Searching, ConfigAt, Asked, HasData, Clean
<1>4. InputAt(p)'
  BY <1>1 DEF Searching, InputAt, Asked, HasData
<1>5. FlushAt(p)'
  BY <1>1, <1>2 DEF Searching, FlushAt, FromKeyboard
<1>6. ASSUME ~present' PROVE AloneAt(p)'
  BY <1>1, <1>6 DEF Searching, AloneAt, KeyboardSends, KeyTyped
<1> QED BY <1>1, <1>3, <1>4, <1>5, <1>6, Stays DEF Searching

-----------------------------------------------------------------------------
(* The steps of Enable.                                                    *)

\* A step that leads to what holds at a step of Enable keeps the invariant.
LEMMA EnablesOn ==
  ASSUME NEW q \in 1 .. 6, found', present', todo' = EnableRest(q), Enabling(q)'
  PROVE  BootInv'
BY DEF BootInv

\* What is done at which step of Enable.
LEMMA EnablePlaces ==
  ASSUME NEW q \in 1 .. 6, todo = EnableRest(q), ~Done
  PROVE  /\ q < 6 /\ q + 1 \in 1 .. 6 /\ Tail(todo) = EnableRest(q + 1)
         /\ Head(todo).op = "flush" => q = 1
         /\ Head(todo).op = "command" =>
              (q = 2 /\ Head(todo).arg = "read_config") \/ (q = 4 /\ Head(todo).arg = "write_config")
         /\ Head(todo).op = "receive" => q = 3
         /\ Head(todo).op = "config" => q = 5 /\ Head(todo).off = {} /\ Head(todo).on = {KBD_INT}
         /\ Head(todo).op \notin {"reset", "peek", "test"}
<1>1. q < 6 /\ StandsIn(Head(todo), q) /\ Tail(todo) = EnableRest(q + 1)
  BY EnableRestIs
<1>2. CASE q = 1
  BY <1>1, <1>2 DEF StandsIn, Flush
<1>3. CASE q \in {2, 4}
  BY <1>1, <1>3 DEF StandsIn, Command
<1>4. CASE q = 3
  BY <1>1, <1>4 DEF StandsIn, Receive
<1>5. CASE q = 5
  BY <1>1, <1>5 DEF StandsIn, SendConfig
<1> QED BY <1>1, <1>2, <1>3, <1>4, <1>5

\* The driver takes a step of Enable.
LEMMA EnableDriver ==
  ASSUME found, present, NEW q \in 1 .. 6, todo = EnableRest(q), Enabling(q), Driver
  PROVE  BootInv'
<1>1. ~Done /\ present' /\ Head(todo).op \notin {"reset", "peek", "test"}
  <2>1. ~Done /\ present'
    BY DEF Driver, WriteCommand, WriteConfig, WriteReset, ReadAnswer, ReadAny, FlushOne, TestByte,
       Writes, UnchangedByRead, keyboard, Next_
  <2> QED BY <2>1, EnablePlaces
<1>2. q < 6 /\ q + 1 \in 1 .. 6 /\ Tail(todo) = EnableRest(q + 1)
  BY <1>1, EnablePlaces
<1>3. CASE WriteCommand
  <2>1. /\ input = Empty /\ todo' = Tail(todo)
        /\ input' = [kind |-> "command", value |-> Head(todo).arg]
        /\ (q = 2 /\ Head(todo).arg = "read_config") \/ (q = 4 /\ Head(todo).arg = "write_config")
        /\ UNCHANGED <<byte, found, config, output, mode, mixed>>
    <3>1. Head(todo).op = "command" /\ input' = [kind |-> "command", value |-> Head(todo).arg]
      BY <1>3 DEF WriteCommand, Writes, Next_
    <3> QED BY <1>1, <1>3, <3>1, EnablePlaces DEF WriteCommand, Writes, Proceeds
  <2>2. ~Asked("keyboard_on")
    BY <2>1, RecordIs DEF Asked, Empty
  <2>3. CASE q = 2
    <3>1. Asked("read_config")'
      BY <2>1, <2>3 DEF Asked
    <3>2. Enabling(q + 1)'
      BY <2>1, <2>2, <2>3, <3>1 DEF Enabling, FromKeyboard, Clean
    <3> QED BY <1>1, <1>2, <2>1, <3>2, EnablesOn
  <2>4. CASE q = 4
    <3>1. Asked("write_config")'
      BY <2>1, <2>4 DEF Asked
    <3>2. Enabling(q + 1)'
      BY <2>1, <2>4, <3>1 DEF Enabling
    <3> QED BY <1>1, <1>2, <2>1, <3>2, EnablesOn
  <2> QED BY <2>1, <2>3, <2>4
<1>4. CASE WriteConfig
  <2>1. /\ input = Empty /\ input' = [kind |-> "data", value |-> (byte \ {}) \cup {KBD_INT}]
        /\ q = 5 /\ todo' = Tail(todo)
        /\ UNCHANGED <<found, config, output, mode, mixed>>
    <3>1. Head(todo).op = "config"
      BY <1>4 DEF WriteConfig, Next_
    <3> QED BY <1>1, <1>4, <3>1, EnablePlaces DEF WriteConfig, Writes, Proceeds
  <2>2. HasData' /\ ~Asked("write_config")
    BY <2>1, RecordIs DEF HasData, Empty, Asked
  <2>3. Running(byte) => Running(input'.value) /\ KBD_INT \in input'.value
    BY <2>1 DEF Running, Clean, KBD_INT, KBD_OFF, TRANS, AUX_INT
  <2>4. Enabling(q + 1)'
    BY <2>1, <2>2, <2>3 DEF Enabling, Running, Clean
  <2> QED BY <1>1, <1>2, <2>1, <2>4, EnablesOn
<1>5. CASE ReadAnswer
  <2>1. /\ q = 3 /\ output # Empty /\ byte' = output.byte /\ output' = Empty
        /\ mixed' = (mixed \/ output.from = "keyboard") /\ todo' = Tail(todo)
        /\ UNCHANGED <<found, config, input, mode>>
    <3>1. Head(todo).op = "receive"
      BY <1>5 DEF ReadAnswer, Next_
    <3> QED BY <1>1, <1>5, <3>1, EnablePlaces
        DEF ReadAnswer, Takes, UnchangedByRead, Proceeds
  <2>2. ~mixed' => ~mixed /\ output.from # "keyboard"
    BY <2>1
  <2>3. ~mixed' => input = Empty /\ output.byte = config
    BY <2>1, <2>2 DEF Enabling, FromKeyboard
  <2>4. ~mixed' => Running(config)
    BY <2>1 DEF Enabling, Running
  <2>5. q + 1 = 4 /\ Running(config)' = Running(config)
    BY <2>1 DEF Running, Clean
  <2>6. Enabling(4)'
    BY <2>1, <2>3, <2>4, <2>5 DEF Enabling
  <2> QED BY <1>1, <1>2, <2>1, <2>5, <2>6, EnablesOn
<1>6. CASE FlushOne
  <2>1. /\ q = 1 /\ output' \in {output, Empty} /\ todo' \in {todo, Tail(todo)}
        /\ UNCHANGED <<byte, found, config, input, mode>>
    <3>1. Head(todo).op = "flush"
      BY <1>6 DEF FlushOne, Next_
    <3> QED BY <1>1, <1>6, <3>1, EnablePlaces DEF FlushOne, UnchangedByRead, Proceeds
  <2>2. ASSUME NEW r \in {1, 2} PROVE Enabling(r)'
    BY <2>1 DEF Enabling, FromKeyboard, Clean, Asked, HasData
  <2>3. Enabling(q)' /\ Enabling(q + 1)'
    BY <2>1, <2>2
  <2> QED BY <1>1, <1>2, <2>1, <2>3, EnablesOn
<1> QED BY <1>1, <1>3, <1>4, <1>5, <1>6 DEF Driver, WriteReset, ReadAny, TestByte, Next_

\* Interrupts, the controller and the keyboard while the driver is in Enable.
LEMMA EnableDevice ==
  ASSUME found, present, NEW q \in 1 .. 6, todo = EnableRest(q), Enabling(q),
         Interrupt \/ Device \/ \E k \in Scancodes : KeyTyped(k)
  PROVE  BootInv'
<1>1. UNCHANGED <<todo, byte, found, present, mixed>>
  BY Obeyed, DataTaken DEF Interrupt, Device, KeyboardSends, KeyTyped, driver, keyboard
<1>2. CASE Interrupt \/ KeyboardSends \/ \E k \in Scancodes : KeyTyped(k)
  <2>1. UNCHANGED <<config, input, mode>>
    BY <1>2 DEF Interrupt, KeyboardSends, KeyTyped, controller
  <2>2. output' = output \/ output' = Empty \/ output'.from = "keyboard"
    <3>1. CASE Interrupt
      BY <3>1 DEF Interrupt
    <3>2. CASE KeyboardSends
      BY <3>2 DEF KeyboardSends
    <3>3. CASE \E k \in Scancodes : KeyTyped(k)
      BY <3>3 DEF KeyTyped, controller
    <3> QED BY <1>2, <3>1, <3>2, <3>3
  <2>3. Enabling(q)'
    BY <1>1, <2>1, <2>2 DEF Enabling, FromKeyboard, Clean, Running, Asked, HasData
  <2> QED BY <1>1, <2>3, EnablesOn
<1>3. CASE ControllerObeys
  <2>1. /\ input.kind = "command" /\ input # Empty /\ input' = Empty
    BY <1>3, Obeyed
  <2>2. ~HasData
    BY <2>1 DEF HasData
  <2>3. CASE q <= 2
    <3>1. Asked("keyboard_on")
      BY <2>1, <2>2, <2>3 DEF Enabling
    <3>2. config' = config \ {KBD_OFF} /\ UNCHANGED <<output, mode>>
      BY <1>3, <3>1, Obeyed, OneIsAsked
    <3>3. Enabling(q)'
      BY <1>1, <2>1, <2>3, <3>2 DEF Enabling, FromKeyboard, Clean
    <3> QED BY <1>1, <3>3, EnablesOn
  <2>4. CASE q = 3
    <3>1. Asked("read_config")
      BY <2>1, <2>4 DEF Enabling
    <3>2. output'.byte = config /\ UNCHANGED <<config, mode>>
      BY <1>3, <3>1, Obeyed, OneIsAsked
    <3>3. Enabling(q)'
      BY <1>1, <2>1, <2>4, <3>2 DEF Enabling, Clean
    <3> QED BY <1>1, <3>3, EnablesOn
  <2>5. CASE q = 4
    <3>1. mixed
      BY <2>1, <2>5 DEF Enabling
    <3>2. Enabling(q)'
      BY <1>1, <2>5, <3>1 DEF Enabling
    <3> QED BY <1>1, <3>2, EnablesOn
  <2>6. CASE q = 5
    <3>1. ~mixed => Asked("write_config") /\ Running(byte)
      BY <2>1, <2>6 DEF Enabling
    <3>2. ~mixed => mode' = "config"
      BY <1>3, <3>1, Obeyed, OneIsAsked
    <3>3. Enabling(q)'
      BY <1>1, <2>1, <2>6, <3>1, <3>2 DEF Enabling, Running, Clean
    <3> QED BY <1>1, <3>3, EnablesOn
  <2>7. CASE q = 6
    <3>1. mixed
      BY <2>1, <2>2, <2>7 DEF Enabling
    <3>2. Enabling(q)'
      BY <1>1, <2>7, <3>1 DEF Enabling
    <3> QED BY <1>1, <3>2, EnablesOn
  <2> QED BY <2>3, <2>4, <2>5, <2>6, <2>7
<1>4. CASE ControllerTakesData
  <2>1. /\ HasData /\ input' = Empty /\ mode' = "data"
    BY <1>4, DataTaken
  <2>2. input # Empty /\ \A c : ~Asked(c)
    BY <2>1 DEF HasData, Asked
  <2>3. CASE q <= 2
    <3>1. mode = "data"
      BY <2>3 DEF Enabling
    <3>2. UNCHANGED <<config, output>>
      BY <1>4, <3>1, DataTaken
    <3>3. Enabling(q)'
      BY <1>1, <2>1, <2>2, <2>3, <3>2 DEF Enabling, FromKeyboard, Clean
    <3> QED BY <1>1, <3>3, EnablesOn
  <2>4. q # 3
    BY <2>2 DEF Enabling
  <2>5. CASE q = 4
    <3>1. mixed
      BY <2>2, <2>5 DEF Enabling
    <3>2. Enabling(q)'
      BY <1>1, <2>5, <3>1 DEF Enabling
    <3> QED BY <1>1, <3>2, EnablesOn
  <2>6. CASE q = 5
    <3>1. mixed
      BY <2>2, <2>6 DEF Enabling
    <3>2. Enabling(q)'
      BY <1>1, <2>6, <3>1 DEF Enabling
    <3> QED BY <1>1, <3>2, EnablesOn
  <2>7. CASE q = 6
    <3>1. ~mixed => config' = input.value /\ Running(input.value) /\ KBD_INT \in input.value
      BY <1>4, <2>2, <2>7, DataTaken DEF Enabling
    <3>2. Enabling(q)'
      BY <1>1, <2>1, <2>7, <3>1 DEF Enabling, Running, Clean
    <3> QED BY <1>1, <3>2, EnablesOn
  <2> QED BY <2>3, <2>4, <2>5, <2>6, <2>7
<1> QED BY <1>2, <1>3, <1>4 DEF Device

-----------------------------------------------------------------------------
(* The keyboard that is found.                                             *)

\* Every step keeps the invariant, wherever the driver is.
LEMMA BootSound == BootInv /\ [BootNext]_bootVars => BootInv'
<1> SUFFICES ASSUME BootInv, [BootNext]_bootVars PROVE BootInv'
  OBVIOUS
<1>1. CASE UNCHANGED bootVars
  <2>1. /\ UNCHANGED <<todo, byte, flushed, found, config, input, output, last, mode, present, sending>>
        /\ mixed' = mixed
    BY <1>1 DEF bootVars, driver, controller, keyboard
  <2> QED BY <2>1 DEF BootInv, Rest, Searching, ConfigAt, InputAt, FlushAt, AloneAt, EnableRest,
         Enabling, Asked, HasData, FromKeyboard, Clean, Running
<1>2. CASE BootNext /\ ~found /\ todo = <<>>
  <2>1. ~Driver /\ ~Interrupt
    BY <1>2 DEF Driver, WriteCommand, WriteConfig, WriteReset, ReadAnswer, ReadAny, FlushOne,
       TestByte, Next_, Done, Interrupt
  <2>2. UNCHANGED <<todo, found>>
    BY <1>2, <2>1, Obeyed, DataTaken DEF BootNext, Device, KeyboardSends, KeyTyped, driver
  <2> QED BY <1>2, <2>2 DEF BootInv
<1>3. ASSUME BootNext, ~found, NEW p \in Places, todo = Rest(p), Searching(p) PROVE BootInv'
  <2>1. CASE Driver
    BY <1>3, <2>1, CommandSound, DataSound, AnswerSound, AnySound, FlushSound, TestSound DEF Driver
  <2>2. CASE Device
    BY <1>3, <2>2, ObeysSound, TakesSound, KeyboardSound DEF Device
  <2>3. CASE \E k \in Scancodes : KeyTyped(k)
    BY <1>3, <2>3, KeyboardSound
  <2> QED BY <1>3, <2>1, <2>2, <2>3 DEF BootNext, Interrupt
<1>4. ASSUME BootNext, found, present, NEW q \in 1 .. 6, todo = EnableRest(q), Enabling(q)
      PROVE  BootInv'
  BY <1>4, EnableDriver, EnableDevice DEF BootNext
<1> QED BY <1>1, <1>2, <1>3, <1>4 DEF BootInv

\* The keyboard that main takes for found is there, and switched on, whenever
\* it sends and however often it is asked again.
THEOREM KeyboardWorks == BootSpec => []FoundWorks
<1>1. BootInit => BootInv
  <2> SUFFICES ASSUME BootInit PROVE BootInv
    OBVIOUS
  <2>1. LastPlace \in Nat /\ LastPlace >= 29 /\ 1 \in Places
    BY LastIs DEF Places
  <2>2. vt8242_init = Rest(1)
    <3>1. vt8242_init \in Seq(Steps) /\ Len(vt8242_init) = LastPlace
      BY ProgramHolds DEF Holds
    <3> QED BY <3>1, SubSeqFull DEF Rest
  <2>3. ~found /\ todo = vt8242_init /\ flushed = 0 /\ (~present => sending = <<>>)
    BY DEF BootInit
  <2>4. Searching(1)
    BY <2>1, <2>3 DEF Searching, ConfigAt, InputAt, FlushAt, AloneAt
  <2> QED BY <2>1, <2>2, <2>3, <2>4 DEF BootInv
<1>2. BootInv => FoundWorks
  <2> SUFFICES ASSUME BootInv, Done, input = Empty, found, ~mixed
               PROVE  present /\ KBD_INT \in config /\ {KBD_OFF, TRANS, AUX_INT} \intersect config = {}
    BY DEF FoundWorks
  <2>1. PICK q \in 1 .. 6 : present /\ todo = EnableRest(q) /\ Enabling(q)
    BY DEF BootInv
  <2>2. q = 6
    BY <2>1, EnableRestIs
  <2>3. ~HasData
    BY DEF HasData
  <2>4. Running(config) /\ KBD_INT \in config
    BY <2>1, <2>2, <2>3 DEF Enabling
  <2> QED BY <2>1, <2>4 DEF Running, Clean
<1> QED BY <1>1, <1>2, BootSound, PTL DEF BootSpec

-----------------------------------------------------------------------------
(* The command line.                                                       *)

Line == Seq({LETTER, SPACE})
Chars == {LETTER, SPACE, ZERO}
LineEnd(text) == Len(text) + 1
CharAt(text, i) == IF i \in DOMAIN text THEN text[i] ELSE ZERO
BeginsWord(text, i) == text[i] = LETTER /\ (i = 1 \/ text[i - 1] = SPACE)

\* Every argument so far is a word of the line in front of ptr and ends there,
\* and every word in front of ptr is one of them.
ArgsSound(text, args, ptr, b) ==
  /\ \A k \in 1 .. Len(args) :
       \E e \in DOMAIN text : <<args[k], e>> \in Words(text) /\ e < ptr /\ b[e + 1] = ZERO
  /\ \A k, m \in 1 .. Len(args) : k < m => args[k] < args[m]
  /\ \A w \in Words(text) : w[1] < ptr => \E k \in 1 .. Len(args) : args[k] = w[1]
  /\ ptr = LineEnd(text) \/ BeginsWord(text, ptr)

AllSpaces(text) == text # <<>> /\ \A j \in DOMAIN text : text[j] = SPACE

\* After n rounds.
RoundInv(text, n, s) ==
  /\ s = [buffer |-> s.buffer, ptr |-> s.ptr, args |-> s.args]
  /\ s.args \in Seq(Nat) /\ Len(s.args) <= MaxArgs
  /\ s.ptr \in 1 .. LineEnd(text)
  /\ s.buffer \in [1 .. LineEnd(text) -> Chars]
  /\ \A j \in 1 .. LineEnd(text) : j > s.ptr => s.buffer[j] = CharAt(text, j)
  /\ \/ s.buffer[s.ptr] = CharAt(text, s.ptr)
     \/ s.buffer[s.ptr] = ZERO /\ Len(s.args) = MaxArgs
  /\ \A j \in DOMAIN text : j < s.ptr /\ text[j] = LETTER => s.buffer[j] = LETTER
  /\ s.ptr > n \/ s.buffer[s.ptr] = ZERO
  /\ \/ s.args = <<>> /\ s.ptr = 1
     \/ s.args = <<LineEnd(text)>> /\ s.ptr = LineEnd(text) /\ AllSpaces(text)
     \/ s.args # <<>> /\ ArgsSound(text, s.args, s.ptr, s.buffer)

Rounds == INSTANCE FoldInduction WITH Step <- LAMBDA text, s, ch : Round(s), Good <- RoundInv

\* A word is known by where it begins.
LEMMA WordEnds ==
  ASSUME NEW text \in Line, NEW v \in Words(text), NEW w \in Words(text), v[1] = w[1]
  PROVE  v[2] = w[2] /\ v = w
<1>1. /\ v = <<v[1], v[2]>> /\ w = <<w[1], w[2]>>
      /\ {v[1], v[2], w[1], w[2]} \subseteq 1 .. Len(text)
  BY DEF Words, Line
<1>2. /\ \A i \in v[1] .. v[2] : text[i] = LETTER
      /\ \A i \in w[1] .. w[2] : text[i] = LETTER
      /\ v[2] = Len(text) \/ text[v[2] + 1] = SPACE
      /\ w[2] = Len(text) \/ text[w[2] + 1] = SPACE
      /\ v[1] <= v[2] /\ w[1] <= w[2]
  BY DEF Words
<1>3. LETTER # SPACE
  BY DEF LETTER, SPACE
<1>4. ~(v[2] < w[2])
  <2> SUFFICES ASSUME v[2] < w[2] PROVE FALSE
    OBVIOUS
  <2>1. v[2] + 1 \in w[1] .. w[2]
    BY <1>1, <1>2
  <2> QED BY <2>1, <1>1, <1>2, <1>3
<1>5. ~(w[2] < v[2])
  <2> SUFFICES ASSUME w[2] < v[2] PROVE FALSE
    OBVIOUS
  <2>1. w[2] + 1 \in v[1] .. v[2]
    BY <1>1, <1>2
  <2> QED BY <2>1, <1>1, <1>2, <1>3
<1>6. v[2] = w[2]
  BY <1>1, <1>4, <1>5
<1> QED BY <1>1, <1>6

\* Position q is the first from p on that is not of the kind.
StopsAt(b, m, p, q, kind) ==
  q \in p .. m /\ b[q] # kind /\ \A j \in p .. q - 1 : b[j] = kind

\* Skipping ends at the zero at the latest.
LEMMA SkipIs ==
  ASSUME NEW m \in Nat, NEW b \in [1 .. m -> Chars], NEW p \in 1 .. m, b[m] = ZERO
  PROVE  /\ StopsAt(b, m, p, SkipSpaces(b, p), SPACE)
         /\ StopsAt(b, m, p, SkipLetters(b, p), LETTER)
<1> DEFINE S == {q \in DOMAIN b : q >= p /\ b[q] # SPACE}
           L == {q \in DOMAIN b : q >= p /\ b[q] # LETTER}
<1>1. DOMAIN b = 1 .. m /\ ZERO # SPACE /\ ZERO # LETTER
  BY DEF ZERO, SPACE, LETTER
<1>2. /\ S \in SUBSET Nat /\ m \in S
      /\ L \in SUBSET Nat /\ m \in L
  BY <1>1
<1>3. /\ Min(S) \in S /\ \A y \in S : Min(S) <= y
      /\ Min(L) \in L /\ \A y \in L : Min(L) <= y
  BY <1>2, LeastIs
<1>4. \A j \in p .. Min(S) - 1 : j \in 1 .. m /\ ~(Min(S) <= j)
  BY <1>1, <1>3
<1>5. \A j \in p .. Min(L) - 1 : j \in 1 .. m /\ ~(Min(L) <= j)
  BY <1>1, <1>3
<1>6. \A j \in p .. Min(S) - 1 : b[j] = SPACE
  BY <1>1, <1>3, <1>4
<1>7. \A j \in p .. Min(L) - 1 : b[j] = LETTER
  BY <1>1, <1>3, <1>5
<1>8. Min(S) \in p .. m /\ b[Min(S)] # SPACE /\ Min(L) \in p .. m /\ b[Min(L)] # LETTER
  BY <1>1, <1>3
<1>9. SkipSpaces(b, p) = Min(S) /\ SkipLetters(b, p) = Min(L)
  BY DEF SkipSpaces, SkipLetters
<1> QED BY <1>6, <1>7, <1>8, <1>9 DEF StopsAt


\* Where the skipping that takes an argument from ptr on stops.
Skipped(text, b, ptr, start, stop, next) ==
  /\ ptr <= start /\ start <= stop /\ stop <= next /\ next <= LineEnd(text)
  /\ \A j \in ptr .. start - 1 : text[j] = SPACE
  /\ start # LineEnd(text) => text[start] = LETTER
  /\ \A j \in start .. stop - 1 : text[j] = LETTER
  /\ stop # LineEnd(text) => text[stop] = SPACE
  /\ \A j \in stop .. next - 1 : text[j] = SPACE
  /\ next # LineEnd(text) => text[next] = LETTER
  /\ \A j \in 1 .. LineEnd(text) : j >= stop /\ b[j] = LETTER => j >= next

\* What the skipping finds in front of the end of the line.
LEMMA SkippedIs ==
  ASSUME NEW text \in Line, NEW b \in [1 .. LineEnd(text) -> Chars], NEW ptr \in 1 .. Len(text),
         \A j \in ptr .. Len(text) : b[j] = text[j], b[LineEnd(text)] = ZERO,
         NEW start, start = SkipSpaces(b, ptr), NEW stop, stop = SkipLetters(b, start),
         NEW next, next = SkipSpaces(b, stop)
  PROVE  /\ {start, stop, next} \subseteq 1 .. LineEnd(text)
         /\ Skipped(text, b, ptr, start, stop, next)
<1> DEFINE m == LineEnd(text)
<1>1. /\ Len(text) \in Nat /\ m = Len(text) + 1 /\ m \in Nat /\ DOMAIN text = 1 .. Len(text)
      /\ \A i \in 1 .. Len(text) : text[i] \in {LETTER, SPACE}
      /\ LETTER # SPACE /\ LETTER # ZERO /\ SPACE # ZERO
      /\ ptr \in 1 .. m
  BY DEF Line, LineEnd, LETTER, SPACE, ZERO
<1> HIDE DEF m
<1>2. b \in [1 .. m -> Chars] /\ b[m] = ZERO
  BY DEF m
<1>3. /\ start \in ptr .. m /\ b[start] # SPACE
      /\ \A j \in ptr .. start - 1 : b[j] = SPACE
  <2>1. StopsAt(b, m, ptr, SkipSpaces(b, ptr), SPACE)
    BY <1>1, <1>2, SkipIs
  <2> QED BY <2>1 DEF StopsAt
<1>4. start \in 1 .. m
  BY <1>1, <1>3
<1>5. /\ stop \in start .. m /\ b[stop] # LETTER
      /\ \A j \in start .. stop - 1 : b[j] = LETTER
  <2>1. StopsAt(b, m, start, SkipLetters(b, start), LETTER)
    BY <1>1, <1>2, <1>4, SkipIs
  <2> QED BY <2>1 DEF StopsAt
<1>6. stop \in 1 .. m
  BY <1>1, <1>4, <1>5
<1>7. /\ next \in stop .. m /\ b[next] # SPACE
      /\ \A j \in stop .. next - 1 : b[j] = SPACE
  <2>1. StopsAt(b, m, stop, SkipSpaces(b, stop), SPACE)
    BY <1>1, <1>2, <1>6, SkipIs
  <2> QED BY <2>1 DEF StopsAt
<1>8. next \in 1 .. m
  BY <1>1, <1>6, <1>7
<1>9. \A j \in Int : ptr <= j /\ j < m => b[j] = text[j] /\ text[j] \in {LETTER, SPACE}
  BY <1>1
<1>10. \A j \in ptr .. start - 1 : text[j] = SPACE
  BY <1>1, <1>3, <1>4, <1>9
<1>11. start # m => text[start] = LETTER
  BY <1>1, <1>3, <1>4, <1>9
<1>12. \A j \in start .. stop - 1 : text[j] = LETTER
  BY <1>1, <1>3, <1>4, <1>5, <1>6, <1>9
<1>13. stop # m => text[stop] = SPACE
  BY <1>1, <1>3, <1>4, <1>5, <1>6, <1>9
<1>14. \A j \in stop .. next - 1 : text[j] = SPACE
  BY <1>1, <1>3, <1>4, <1>5, <1>6, <1>7, <1>8, <1>9
<1>15. next # m => text[next] = LETTER
  BY <1>1, <1>3, <1>4, <1>5, <1>6, <1>7, <1>8, <1>9
<1>16. \A j \in 1 .. m : j >= stop /\ b[j] = LETTER => j >= next
  BY <1>1, <1>6, <1>7, <1>8
<1>17. ptr <= start /\ start <= stop /\ stop <= next /\ next <= m
  BY <1>1, <1>3, <1>4, <1>5, <1>6, <1>7, <1>8
<1> QED BY <1>4, <1>6, <1>8, <1>10, <1>11, <1>12, <1>13, <1>14, <1>15, <1>16, <1>17 DEF Skipped, m

\* What a word is.
LEMMA WordIs ==
  ASSUME NEW text \in Line, NEW w \in Words(text)
  PROVE  /\ w[1] \in 1 .. Len(text) /\ w[2] \in 1 .. Len(text) /\ w[1] <= w[2]
         /\ \A i \in w[1] .. w[2] : text[i] = LETTER
         /\ text[w[1]] = LETTER
         /\ w[1] # 1 => text[w[1] - 1] = SPACE
<1>1. /\ w[1] \in 1 .. Len(text) /\ w[2] \in 1 .. Len(text) /\ w[1] <= w[2]
      /\ \A i \in w[1] .. w[2] : text[i] = LETTER
      /\ w[1] = 1 \/ text[w[1] - 1] = SPACE
  BY DEF Words, Line
<1>2. w[1] \in w[1] .. w[2]
  BY <1>1
<1> QED BY <1>1, <1>2

WordTaken(text, ptr, start, stop, next) ==
  /\ start < stop /\ <<start, stop - 1>> \in Words(text)
  /\ next = LineEnd(text) \/ BeginsWord(text, next)
  /\ \A w \in Words(text) : ptr <= w[1] /\ w[1] < next => w[1] = start

\* The word that is found.
LEMMA FoundWord ==
  ASSUME NEW text \in Line, NEW b, NEW ptr \in 1 .. Len(text), NEW start \in 1 .. LineEnd(text),
         NEW stop \in 1 .. LineEnd(text), NEW next \in 1 .. LineEnd(text),
         Skipped(text, b, ptr, start, stop, next), start # LineEnd(text),
         ptr = 1 \/ BeginsWord(text, ptr)
  PROVE  WordTaken(text, ptr, start, stop, next)
<1>1. /\ Len(text) \in Nat /\ LineEnd(text) = Len(text) + 1 /\ DOMAIN text = 1 .. Len(text)
      /\ LETTER # SPACE
  BY DEF Line, LineEnd, LETTER, SPACE
<1>2. ptr <= start /\ start <= stop /\ stop <= next /\ next <= LineEnd(text)
  BY DEF Skipped
<1>3. /\ \A j \in ptr .. start - 1 : text[j] = SPACE
      /\ \A j \in start .. stop - 1 : text[j] = LETTER
      /\ \A j \in stop .. next - 1 : text[j] = SPACE
  BY DEF Skipped
<1>4. /\ text[start] = LETTER
      /\ stop # LineEnd(text) => text[stop] = SPACE
      /\ next # LineEnd(text) => text[next] = LETTER
  BY DEF Skipped
<1>5. start < stop
  BY <1>1, <1>2, <1>4
<1>6. start = 1 \/ text[start - 1] = SPACE
  <2>1. CASE start = ptr
    BY <2>1 DEF BeginsWord
  <2>2. CASE start # ptr
    <3>1. start - 1 \in ptr .. start - 1
      BY <2>2, <1>2
    <3> QED BY <3>1, <1>3
  <2> QED BY <2>1, <2>2
<1>7. <<start, stop - 1>> \in Words(text)
  <2>1. start \in DOMAIN text /\ stop - 1 \in DOMAIN text /\ start <= stop - 1
    BY <1>1, <1>2, <1>5
  <2>2. stop - 1 = Len(text) \/ text[(stop - 1) + 1] = SPACE
    BY <1>1, <1>4
  <2> QED BY <2>1, <2>2, <1>3, <1>6 DEF Words
<1>8. next = LineEnd(text) \/ BeginsWord(text, next)
  <2> SUFFICES ASSUME next # LineEnd(text) PROVE BeginsWord(text, next)
    OBVIOUS
  <2>1. stop # LineEnd(text) /\ text[next] = LETTER
    BY <1>1, <1>2, <1>4
  <2>2. stop # next
    BY <2>1, <1>1, <1>4
  <2>3. next - 1 \in stop .. next - 1
    BY <2>2, <1>2
  <2> QED BY <2>1, <2>3, <1>3 DEF BeginsWord
<1>9. ASSUME NEW w \in Words(text), ptr <= w[1], w[1] < next PROVE w[1] = start
  <2>1. /\ w[1] \in 1 .. Len(text) /\ text[w[1]] = LETTER
        /\ w[1] # 1 => text[w[1] - 1] = SPACE
    BY WordIs
  <2> DEFINE i == w[1]
  <2>2. i \in Nat /\ text[i] = LETTER /\ (i # 1 => text[i - 1] = SPACE) /\ ptr <= i /\ i < next
    BY <2>1, <1>1, <1>9
  <2> HIDE DEF i
  <2>3. ~ (i < start)
    BY <2>2, <1>1, <1>3
  <2>4. ~ (i >= stop)
    BY <2>2, <1>1, <1>3
  <2>5. ~ (start < i /\ i < stop)
    <3> SUFFICES ASSUME start < i, i < stop PROVE FALSE
      OBVIOUS
    <3>1. i - 1 \in start .. stop - 1 /\ i # 1
      BY <2>2
    <3> QED BY <3>1, <2>2, <1>1, <1>3
  <2>6. i = start
    BY <2>2, <2>3, <2>4, <2>5
  <2> QED BY <2>6 DEF i
<1> QED BY <1>5, <1>7, <1>8, <1>9 DEF WordTaken

\* An argument more.
LEMMA ArgAdded ==
  ASSUME NEW args \in Seq(Nat), NEW a \in Nat
  PROVE  /\ Append(args, a) \in Seq(Nat) /\ Append(args, a) # <<>>
         /\ Len(Append(args, a)) = Len(args) + 1 /\ Len(args) \in Nat
         /\ Append(args, a)[Len(args) + 1] = a
         /\ \A k \in 1 .. Len(args) : Append(args, a)[k] = args[k]
OBVIOUS

\* The arguments stay words of the line when one is taken.
LEMMA ArgTaken ==
  ASSUME NEW text \in Line, NEW args \in Seq(Nat), NEW ptr \in 1 .. Len(text), NEW b, NEW c,
         NEW start \in 1 .. LineEnd(text), NEW stop \in 1 .. LineEnd(text), NEW next \in 1 .. LineEnd(text),
         Skipped(text, b, ptr, start, stop, next), start # LineEnd(text),
         \/ args = <<>> /\ ptr = 1
         \/ ArgsSound(text, args, ptr, b),
         \A j \in 1 .. LineEnd(text) : b[j] = ZERO => c[j] = ZERO,
         c[stop] = ZERO
  PROVE  ArgsSound(text, Append(args, start), next, c)
<1>1. /\ Len(text) \in Nat /\ LineEnd(text) = Len(text) + 1 /\ DOMAIN text = 1 .. Len(text)
  BY DEF Line, LineEnd
<1>2. ptr = 1 \/ BeginsWord(text, ptr)
  BY <1>1 DEF ArgsSound
<1>3. /\ start < stop /\ <<start, stop - 1>> \in Words(text)
      /\ next = LineEnd(text) \/ BeginsWord(text, next)
      /\ \A w \in Words(text) : ptr <= w[1] /\ w[1] < next => w[1] = start
  <2>1. WordTaken(text, ptr, start, stop, next)
    BY <1>2, FoundWord
  <2> QED BY <2>1 DEF WordTaken
<1>4. ptr <= start /\ start <= stop /\ stop <= next
  BY DEF Skipped
<1> DEFINE n == Len(args)
           more == Append(args, start)
<1>5. /\ n \in Nat /\ Len(more) = n + 1 /\ more[n + 1] = start
      /\ \A k \in 1 .. n : more[k] = args[k]
  BY ArgAdded
<1>6. \A k \in 1 .. n : \E e \in DOMAIN text :
        <<args[k], e>> \in Words(text) /\ e < ptr /\ b[e + 1] = ZERO
  <2>1. CASE args = <<>>
    BY <2>1
  <2>2. CASE ArgsSound(text, args, ptr, b)
    BY <2>2, Zenon DEF ArgsSound
  <2> QED BY <2>1, <2>2
<1>7. \A k, m \in 1 .. n : k < m => args[k] < args[m]
  BY DEF ArgsSound
<1>8. \A w \in Words(text) : w[1] < ptr => \E k \in 1 .. n : args[k] = w[1]
  <2>1. CASE args = <<>> /\ ptr = 1
    BY <2>1, <1>1, WordIs
  <2>2. CASE ArgsSound(text, args, ptr, b)
    BY <2>2 DEF ArgsSound
  <2> QED BY <2>1, <2>2
<1> HIDE DEF n, more
<1>9. ASSUME NEW k \in 1 .. n
      PROVE  /\ args[k] < start
             /\ \E e \in DOMAIN text :
                  <<args[k], e>> \in Words(text) /\ e < next /\ c[e + 1] = ZERO
  <2>1. PICK e \in DOMAIN text :
          <<args[k], e>> \in Words(text) /\ e < ptr /\ b[e + 1] = ZERO
    BY <1>6
  <2>2. args[k] \in 1 .. Len(text) /\ args[k] <= e
    <3> DEFINE w == <<args[k], e>>
    <3>1. w \in Words(text) /\ w[1] = args[k] /\ w[2] = e
      BY <2>1
    <3>2. w[1] \in 1 .. Len(text) /\ w[1] <= w[2]
      BY <3>1, WordIs
    <3> QED BY <3>1, <3>2
  <2>3. e \in 1 .. Len(text) /\ e + 1 \in 1 .. LineEnd(text)
    BY <2>1, <1>1
  <2>4. e < next /\ args[k] < start
    BY <2>1, <2>2, <2>3, <1>1, <1>4
  <2> QED BY <2>1, <2>3, <2>4
<1>10. ASSUME NEW k \in 1 .. n + 1
       PROVE  \E e \in DOMAIN text :
                <<more[k], e>> \in Words(text) /\ e < next /\ c[e + 1] = ZERO
  <2>1. CASE k = n + 1
    <3>1. stop - 1 \in DOMAIN text /\ stop - 1 < next /\ (stop - 1) + 1 = stop
      BY <1>1, <1>3, <1>4
    <3>2. more[k] = start
      BY <2>1, <1>5
    <3> QED BY <3>1, <3>2, <1>3
  <2>2. CASE k # n + 1
    <3>1. k \in 1 .. n
      BY <2>2, <1>5
    <3> QED BY <3>1, <1>5, <1>9
  <2> QED BY <2>1, <2>2
<1>11. ASSUME NEW k \in 1 .. n + 1, NEW m \in 1 .. n + 1, k < m
       PROVE  more[k] < more[m]
  <2>1. k \in 1 .. n
    BY <1>5, <1>11
  <2>2. CASE m = n + 1
    BY <2>1, <2>2, <1>5, <1>9
  <2>3. CASE m # n + 1
    <3>1. m \in 1 .. n
      BY <2>3, <1>5
    <3> QED BY <2>1, <3>1, <1>5, <1>7, <1>11
  <2> QED BY <2>2, <2>3
<1>12. ASSUME NEW w \in Words(text), w[1] < next
       PROVE  \E k \in 1 .. n + 1 : more[k] = w[1]
  <2>1. CASE w[1] < ptr
    <3>1. PICK k \in 1 .. n : args[k] = w[1]
      BY <2>1, <1>8
    <3>2. k \in 1 .. n + 1 /\ more[k] = w[1]
      BY <3>1, <1>5
    <3> QED BY <3>2
  <2>2. CASE ptr <= w[1]
    <3>1. w[1] = start /\ n + 1 \in 1 .. n + 1
      BY <2>2, <1>3, <1>5, <1>12
    <3> QED BY <3>1, <1>5
  <2>3. w[1] < ptr \/ ptr <= w[1]
    BY <1>1, WordIs
  <2> QED BY <2>1, <2>2, <2>3
<1> QED BY <1>3, <1>5, <1>10, <1>11, <1>12 DEF ArgsSound, more

\* A round that takes an argument.
LEMMA TakesArg ==
  ASSUME NEW text \in Line, NEW n \in 1 .. LineEnd(text), NEW s,
         RoundInv(text, n - 1, s), Limited(s)[s.ptr] # ZERO
  PROVE  RoundInv(text, n, NextArg(Limited(s), s))
<1> DEFINE b == s.buffer
           p == s.ptr
           args == s.args
           m == LineEnd(text)
<1>1. /\ Len(text) \in Nat /\ m = Len(text) + 1 /\ m \in Nat /\ DOMAIN text = 1 .. Len(text)
      /\ LETTER # SPACE /\ LETTER # ZERO /\ SPACE # ZERO
      /\ MaxArgs \in Nat \ {0}
  BY ArgsAssumption DEF Line, LineEnd, LETTER, SPACE, ZERO
<1>2. /\ args \in Seq(Nat) /\ Len(args) <= MaxArgs /\ Len(args) \in Nat
      /\ p \in 1 .. m /\ b \in [1 .. m -> Chars]
      /\ \A j \in 1 .. m : j > p => b[j] = CharAt(text, j)
      /\ b[p] = CharAt(text, p) \/ (b[p] = ZERO /\ Len(args) = MaxArgs)
      /\ \A j \in DOMAIN text : j < p /\ text[j] = LETTER => b[j] = LETTER
      /\ p > n - 1 \/ b[p] = ZERO
      /\ \/ args = <<>> /\ p = 1
         \/ args = <<m>> /\ p = m /\ AllSpaces(text)
         \/ args # <<>> /\ ArgsSound(text, args, p, b)
  BY DEF RoundInv
<1>3. Len(args) < MaxArgs /\ Limited(s) = b
  <2>1. CASE Len(args) = MaxArgs
    <3>1. Limited(s)[p] = ZERO
      BY <2>1, <1>2 DEF Limited
    <3> QED BY <3>1
  <2>2. CASE Len(args) # MaxArgs
    BY <2>2, <1>1, <1>2 DEF Limited
  <2> QED BY <2>1, <2>2
<1>4. b[p] # ZERO
  BY <1>3
<1> DEFINE start == SkipSpaces(b, p)
           stop == SkipLetters(b, start)
           next == SkipSpaces(b, stop)
           c == Zeroed(b, stop, next)
           t == [buffer |-> c, ptr |-> next, args |-> Append(args, start)]
<1>5. NextArg(Limited(s), s) = t
  BY <1>3 DEF NextArg
<1> HIDE DEF b, p, args, m, start, stop, next, c
<1>6. p \in 1 .. Len(text) /\ b[p] = text[p]
  BY <1>1, <1>2, <1>3, <1>4 DEF CharAt
<1>7. \A j \in p .. Len(text) : b[j] = text[j]
  BY <1>1, <1>2, <1>6 DEF CharAt
<1>8. b[m] = ZERO
  BY <1>1, <1>2, <1>6 DEF CharAt
<1>9. /\ {start, stop, next} \subseteq 1 .. m
      /\ Skipped(text, b, p, start, stop, next)
  BY <1>2, <1>6, <1>7, <1>8, SkippedIs DEF m, start, stop, next
<1>10. p <= start /\ start <= stop /\ stop <= next /\ next <= m
  BY <1>9 DEF Skipped, m
<1>11. /\ c \in [1 .. m -> Chars]
       /\ \A i \in 1 .. m : c[i] = IF i \in stop .. next - 1 THEN ZERO ELSE b[i]
  BY <1>2 DEF Zeroed, Chars, c
<1>12. next > p
  <2> SUFFICES ASSUME next = p PROVE FALSE
    BY <1>1, <1>2, <1>9, <1>10
  <2>1. start = p /\ stop = p /\ next # m
    BY <1>1, <1>2, <1>6, <1>9, <1>10
  <2> QED BY <2>1, <1>1, <1>9 DEF Skipped, m
<1>13. \A j \in 1 .. m : j >= next => c[j] = CharAt(text, j)
  <2> SUFFICES ASSUME NEW j \in 1 .. m, j >= next PROVE c[j] = CharAt(text, j)
    OBVIOUS
  <2>1. j > p /\ j \notin stop .. next - 1
    BY <1>1, <1>2, <1>9, <1>12
  <2> QED BY <2>1, <1>2, <1>11
<1>14. \A j \in DOMAIN text : j < next /\ text[j] = LETTER => c[j] = LETTER
  <2> SUFFICES ASSUME NEW j \in DOMAIN text, j < next, text[j] = LETTER PROVE c[j] = LETTER
    OBVIOUS
  <2>1. j \in 1 .. Len(text) /\ j \in 1 .. m
    BY <1>1
  <2>2. b[j] = LETTER
    BY <2>1, <1>1, <1>2, <1>6, <1>7
  <2>3. j \notin stop .. next - 1
    BY <2>1, <2>2, <1>1, <1>9 DEF Skipped, m
  <2> QED BY <2>1, <2>2, <2>3, <1>11
<1>15. /\ Append(args, start) \in Seq(Nat) /\ Append(args, start) # <<>>
       /\ Len(Append(args, start)) = Len(args) + 1
  <2>1. start \in Nat
    BY <1>9
  <2> QED BY <2>1, <1>2, ArgAdded
<1>16. \/ Append(args, start) = <<m>> /\ next = m /\ AllSpaces(text)
       \/ ArgsSound(text, Append(args, start), next, c)
  <2>1. CASE start = m
    <3>1. next = m /\ start # p /\ p # m
      BY <2>1, <1>1, <1>2, <1>6, <1>9, <1>10
    <3>2. \A j \in p .. Len(text) : text[j] = SPACE
      BY <2>1, <1>1, <1>9 DEF Skipped
    <3>3. text[p] = SPACE
      BY <3>2, <1>6
    <3>4. args = <<>> /\ p = 1
      BY <3>1, <3>3, <1>1, <1>2 DEF ArgsSound, BeginsWord, m
    <3>5. AllSpaces(text)
      BY <3>2, <3>4, <1>1, <1>6 DEF AllSpaces
    <3>6. Append(args, start) = <<m>>
      BY <2>1, <3>4
    <3> QED BY <3>1, <3>5, <3>6
  <2>2. CASE start # m
    <3>1. \/ args = <<>> /\ p = 1
          \/ ArgsSound(text, args, p, b)
      BY <1>1, <1>2, <1>6
    <3>2. \A j \in 1 .. m : b[j] = ZERO => c[j] = ZERO
      BY <1>11
    <3>3. c[stop] = ZERO
      <4>1. CASE stop < next
        BY <4>1, <1>9, <1>11
      <4>2. CASE stop = next
        <5>1. stop = m
          BY <4>2, <1>1, <1>9 DEF Skipped, m
        <5>2. m \in 1 .. m /\ next = m /\ m \notin m .. m - 1
          BY <5>1, <4>2, <1>9
        <5>3. c[m] = b[m]
          BY <5>1, <5>2, <1>11
        <5> QED BY <5>1, <5>3, <1>8
      <4> QED BY <4>1, <4>2, <1>9, <1>10
    <3> QED BY <2>2, <3>1, <3>2, <3>3, <1>2, <1>6, <1>9, ArgTaken DEF m
  <2> QED BY <2>1, <2>2
<1>17. next > n /\ next \in 1 .. m
  BY <1>1, <1>2, <1>4, <1>9, <1>12
<1> HIDE DEF t
<1>18. /\ t.buffer = c /\ t.ptr = next /\ t.args = Append(args, start)
       /\ t = [buffer |-> t.buffer, ptr |-> t.ptr, args |-> t.args]
  BY DEF t
<1>19. Len(t.args) <= MaxArgs
  BY <1>1, <1>2, <1>3, <1>15, <1>18
<1>20. RoundInv(text, n, t)
  BY <1>11, <1>13, <1>14, <1>15, <1>16, <1>17, <1>18, <1>19 DEF RoundInv, m
<1> QED BY <1>5, <1>20

\* Every round keeps the invariant.
LEMMA RoundKeeps ==
  ASSUME NEW text \in Line, NEW n \in 1 .. LineEnd(text), NEW s, RoundInv(text, n - 1, s)
  PROVE  RoundInv(text, n, Round(s))
<1>1. CASE Limited(s)[s.ptr] # ZERO
  <2>1. Round(s) = NextArg(Limited(s), s)
    BY <1>1 DEF Round
  <2> QED BY <1>1, <2>1, TakesArg
<1>2. CASE Limited(s)[s.ptr] = ZERO
  <2> DEFINE b == s.buffer
             p == s.ptr
             args == s.args
             m == LineEnd(text)
             c == Limited(s)
             t == [s EXCEPT !.buffer = c]
  <2>1. Round(s) = t
    BY <1>2 DEF Round
  <2>2. s = [buffer |-> b, ptr |-> p, args |-> args]
    BY DEF RoundInv
  <2>3. t = [buffer |-> c, ptr |-> p, args |-> args]
    BY <2>2
  <2>4. /\ args \in Seq(Nat) /\ Len(args) <= MaxArgs
        /\ p \in 1 .. m /\ b \in [1 .. m -> Chars]
        /\ \A j \in 1 .. m : j > p => b[j] = CharAt(text, j)
        /\ b[p] = CharAt(text, p) \/ (b[p] = ZERO /\ Len(args) = MaxArgs)
        /\ \A j \in DOMAIN text : j < p /\ text[j] = LETTER => b[j] = LETTER
        /\ \/ args = <<>> /\ p = 1
           \/ args = <<m>> /\ p = m /\ AllSpaces(text)
           \/ args # <<>> /\ ArgsSound(text, args, p, b)
    BY DEF RoundInv
  <2>5. /\ m \in Nat /\ DOMAIN text \subseteq 1 .. m
        /\ MaxArgs \in Nat \ {0} /\ ZERO \in Chars
    BY ArgsAssumption DEF Line, LineEnd, Chars
  <2>6. /\ c \in [1 .. m -> Chars] /\ c[p] = ZERO
        /\ \A j \in 1 .. m : j # p => c[j] = b[j]
        /\ Len(args) = MaxArgs \/ c = b
    <3> HIDE DEF p, m, b, args
    <3>1. CASE Len(args) = MaxArgs
      <4>1. c = [b EXCEPT ![p] = ZERO]
        BY <3>1 DEF Limited, b, p, args
      <4> QED BY <3>1, <4>1, <2>4, <2>5
    <3>2. CASE Len(args) # MaxArgs
      <4>1. c = b
        BY <3>2 DEF Limited, b, args
      <4>2. c[p] = ZERO
        BY <1>2 DEF p
      <4> QED BY <4>1, <4>2, <2>4
    <3> QED BY <3>1, <3>2
  <2> HIDE DEF p, m, b, args, c
  <2>7. \/ c[p] = CharAt(text, p)
        \/ c[p] = ZERO /\ Len(args) = MaxArgs
    BY <2>4, <2>6
  <2>8. \A j \in DOMAIN text : j < p /\ text[j] = LETTER => c[j] = LETTER
    BY <2>4, <2>5, <2>6
  <2>9. ArgsSound(text, args, p, b) => ArgsSound(text, args, p, c)
    <3> SUFFICES ASSUME ArgsSound(text, args, p, b) PROVE ArgsSound(text, args, p, c)
      OBVIOUS
    <3>1. \A j \in 1 .. m : b[j] = ZERO => c[j] = ZERO
      BY <2>6
    <3>2. \A k \in 1 .. Len(args) :
            \E e \in DOMAIN text : <<args[k], e>> \in Words(text) /\ e < p /\ c[e + 1] = ZERO
      <4> SUFFICES ASSUME NEW k \in 1 .. Len(args)
                   PROVE  \E e \in DOMAIN text :
                            <<args[k], e>> \in Words(text) /\ e < p /\ c[e + 1] = ZERO
        OBVIOUS
      <4>1. PICK e \in DOMAIN text :
              <<args[k], e>> \in Words(text) /\ e < p /\ b[e + 1] = ZERO
        BY DEF ArgsSound
      <4>2. e + 1 \in 1 .. m
        BY DEF Line, LineEnd, m
      <4> QED BY <4>1, <4>2, <3>1
    <3> QED BY <3>2 DEF ArgsSound
  <2> HIDE DEF t
  <2>10. /\ t.buffer = c /\ t.ptr = p /\ t.args = args
         /\ t = [buffer |-> t.buffer, ptr |-> t.ptr, args |-> t.args]
    BY <2>3
  <2>11. RoundInv(text, n, t)
    BY <2>4, <2>6, <2>7, <2>8, <2>9, <2>10 DEF RoundInv, m
  <2> QED BY <2>1, <2>11
<1> QED BY <1>1, <1>2

\* What Cut returns: the rounds have come to the end of the line, or to a zero.
LEMMA CutKeeps ==
  ASSUME NEW text \in Line
  PROVE  RoundInv(text, LineEnd(text), Cut(text))
<1> DEFINE filled == Append(text, ZERO)
           base == [buffer |-> filled, ptr |-> 1, args |-> <<>>]
<1>1. /\ Len(text) \in Nat /\ LineEnd(text) = Len(text) + 1 /\ DOMAIN text = 1 .. Len(text)
      /\ \A i \in 1 .. Len(text) : text[i] \in {LETTER, SPACE}
  BY DEF Line, LineEnd
<1>2. /\ DOMAIN filled = 1 .. LineEnd(text)
      /\ filled \in [1 .. LineEnd(text) -> Chars]
      /\ \A j \in 1 .. LineEnd(text) : filled[j] = CharAt(text, j)
  <2>1. text \in Seq(Chars) /\ ZERO \in Chars
    BY DEF Line, Chars
  <2>2. /\ filled \in Seq(Chars) /\ Len(filled) = Len(text) + 1
        /\ \A j \in 1 .. Len(text) : filled[j] = text[j]
        /\ filled[Len(text) + 1] = ZERO
    BY <2>1
  <2> HIDE DEF filled
  <2>3. DOMAIN filled = 1 .. LineEnd(text) /\ filled \in [1 .. LineEnd(text) -> Chars]
    BY <2>2, <1>1
  <2> QED BY <2>2, <2>3, <1>1 DEF CharAt
<1> HIDE DEF filled
<1>3. RoundInv(text, 0, base)
  <2>1. /\ base.buffer = filled /\ base.ptr = 1 /\ base.args = <<>>
        /\ base = [buffer |-> base.buffer, ptr |-> base.ptr, args |-> base.args]
    OBVIOUS
  <2>2. <<>> \in Seq(Nat) /\ Len(<<>>) = 0 /\ MaxArgs \in Nat /\ 1 \in 1 .. LineEnd(text)
    BY <1>1, ArgsAssumption
  <2> HIDE DEF base
  <2>3. /\ \A j \in 1 .. LineEnd(text) : j > base.ptr => base.buffer[j] = CharAt(text, j)
        /\ base.buffer[base.ptr] = CharAt(text, base.ptr)
        /\ \A j \in DOMAIN text : j < base.ptr /\ text[j] = LETTER => base.buffer[j] = LETTER
    BY <1>1, <1>2, <2>1, <2>2
  <2>4. base.args \in Seq(Nat) /\ Len(base.args) <= MaxArgs /\ base.ptr > 0
    BY <2>1, <2>2
  <2> QED BY <1>2, <2>1, <2>2, <2>3, <2>4 DEF RoundInv
<1>4. \A i \in 1 .. LineEnd(text) : \A a : RoundInv(text, i - 1, a) => RoundInv(text, i, Round(a))
  BY RoundKeeps
<1>5. Cut(text) = Rounds!Fold(text, base, filled)
  BY Zenon DEF Cut, filled, Rounds!Fold, FoldLeft, MapThenFoldSet, Rounds!MapThenFoldSet, Max, Rounds!Greatest
<1> HIDE DEF base
<1>6. LineEnd(text) \in Nat
  BY <1>1
<1> HIDE DEF RoundInv
<1>7. RoundInv(text, LineEnd(text), Rounds!Fold(text, base, filled))
  BY <1>2, <1>3, <1>4, <1>6, Rounds!FoldKeeps
<1> QED BY <1>5, <1>7

\* The letters in front of ptr are still there.
LettersKept(text, b, ptr) ==
  \A j \in DOMAIN text : j < ptr /\ text[j] = LETTER => b[j] = LETTER

\* The word from a to e is in front of ptr and ends there.
Ended(text, b, ptr, a, e) ==
  e \in DOMAIN text /\ <<a, e>> \in Words(text) /\ e < ptr /\ b[e + 1] = ZERO

SeenWords(b, args) == {Seen(b, args[i]) : i \in DOMAIN args}

\* What a command sees of its argument is the word.
LEMMA SeenIs ==
  ASSUME NEW text \in Line, NEW b \in [1 .. LineEnd(text) -> Chars], NEW ptr \in 1 .. LineEnd(text),
         LettersKept(text, b, ptr),
         NEW a, NEW e, Ended(text, b, ptr, a, e)
  PROVE  Seen(b, a) = <<a, e>>
<1>1. /\ Len(text) \in Nat /\ LineEnd(text) = Len(text) + 1 /\ DOMAIN text = 1 .. Len(text)
      /\ LETTER # ZERO /\ DOMAIN b = 1 .. LineEnd(text)
  BY DEF Line, LineEnd, LETTER, ZERO
<1> USE DEF Ended
<1>2. a \in 1 .. Len(text) /\ a <= e /\ \A i \in a .. e : text[i] = LETTER
  <2> DEFINE w == <<a, e>>
  <2>1. w \in Words(text) /\ w[1] = a /\ w[2] = e
    OBVIOUS
  <2> HIDE DEF w
  <2>2. /\ w[1] \in 1 .. Len(text) /\ w[1] <= w[2]
        /\ \A i \in w[1] .. w[2] : text[i] = LETTER
    BY <2>1, WordIs
  <2> QED BY <2>1, <2>2
<1> DEFINE Z == {q \in DOMAIN b : q >= a /\ b[q] = ZERO}
<1>3. Z \in SUBSET Nat /\ e + 1 \in Z
  BY <1>1, <1>2
<1>4. Min(Z) \in Z /\ \A y \in Z : Min(Z) <= y
  BY <1>3, LeastIs
<1>5. \A q \in Z : q > e
  <2> SUFFICES ASSUME NEW q \in Z, q <= e PROVE FALSE
    BY <1>1
  <2>1. q \in a .. e /\ q \in DOMAIN text
    BY <1>1, <1>2
  <2> QED BY <2>1, <1>1, <1>2 DEF LettersKept
<1>6. Min(Z) - 1 = e
  BY <1>1, <1>3, <1>4, <1>5
<1> QED BY <1>6 DEF Seen

\* A line of spaces has no words.
LEMMA NoWords ==
  ASSUME NEW text \in Line, \A j \in DOMAIN text : text[j] = SPACE
  PROVE  Words(text) = {}
<1>1. SPACE # LETTER /\ DOMAIN text = 1 .. Len(text)
  BY DEF SPACE, LETTER, Line
<1>2. \A w \in Words(text) : FALSE
  BY <1>1, WordIs
<1> QED BY <1>2

\* Words are finitely many.
LEMMA WordsFinite ==
  ASSUME NEW text \in Line
  PROVE  IsFiniteSet(Words(text))
<1>1. IsFiniteSet(DOMAIN text)
  BY FS_Interval DEF Line
<1>2. IsFiniteSet((DOMAIN text) \X (DOMAIN text))
  BY <1>1, FS_Product
<1>3. Words(text) \in SUBSET ((DOMAIN text) \X (DOMAIN text))
  BY DEF Words
<1> QED BY <1>2, <1>3, FS_Subset

\* The rounds have found what they should.
LEMMA FoundAll ==
  ASSUME NEW text \in Line, NEW args \in Seq(Nat), args # <<>>, NEW ptr \in 1 .. LineEnd(text),
         NEW b \in [1 .. LineEnd(text) -> Chars], Len(args) <= MaxArgs,
         LettersKept(text, b, ptr),
         ptr = LineEnd(text) \/ Len(args) = MaxArgs,
         ArgsSound(text, args, ptr, b),
         NEW shown, shown = SeenWords(b, args)
  PROVE  /\ shown \subseteq Words(text) /\ Words(text) # {}
         /\ Len(args) = Min({Cardinality(Words(text)), MaxArgs})
         /\ \A w \in Words(text) \ shown : \A v \in shown : v[2] < w[1]
<1> DEFINE n == Len(args)
           W == Words(text)
<1>1. /\ Len(text) \in Nat /\ LineEnd(text) = Len(text) + 1 /\ DOMAIN text = 1 .. Len(text)
      /\ n \in Nat \ {0} /\ DOMAIN args = 1 .. n /\ MaxArgs \in Nat /\ ptr \in Nat
  BY ArgsAssumption DEF Line, LineEnd
<1> HIDE DEF n, W
<1>2. ASSUME NEW k \in 1 .. n
      PROVE  /\ Seen(b, args[k]) \in W /\ Seen(b, args[k])[1] = args[k]
             /\ Seen(b, args[k])[2] < ptr
  <2>1. PICK e \in DOMAIN text : <<args[k], e>> \in Words(text) /\ e < ptr /\ b[e + 1] = ZERO
    BY DEF ArgsSound, n
  <2>2. Seen(b, args[k]) = <<args[k], e>>
    <3>1. Ended(text, b, ptr, args[k], e)
      BY <2>1 DEF Ended
    <3> QED BY <3>1, SeenIs
  <2> QED BY <2>1, <2>2 DEF W
<1>3. shown \subseteq W /\ W # {}
  BY <1>1, <1>2 DEF SeenWords
<1>4. ASSUME NEW w \in W, w[1] < ptr PROVE w \in shown
  <2>1. PICK k \in 1 .. n : args[k] = w[1]
    BY <1>4 DEF ArgsSound, W, n
  <2> DEFINE v == Seen(b, args[k])
  <2>2. v \in W /\ v[1] = w[1] /\ v \in shown
    BY <1>1, <1>2, <2>1 DEF SeenWords
  <2> HIDE DEF v
  <2>3. v = w
    BY <2>2, WordEnds DEF W
  <2> QED BY <2>2, <2>3
<1>5. Cardinality(shown) = n
  <2> DEFINE f == [k \in 1 .. n |-> Seen(b, args[k])]
  <2>1. f \in Surjection(1 .. n, shown)
    BY <1>1 DEF Surjection, SeenWords
  <2>2. \A k, m \in 1 .. n : k # m => args[k] # args[m]
    <3>1. \A k, m \in 1 .. n : k < m => args[k] < args[m]
      BY DEF ArgsSound, n
    <3>2. \A k \in 1 .. n : args[k] \in Nat
      BY <1>1
    <3> QED BY <3>1, <3>2, <1>1
  <2>3. \A k, m \in 1 .. n : f[k] = f[m] => k = m
    BY <1>2, <2>2
  <2>4. f \in Injection(1 .. n, shown)
    BY <2>1, <2>3 DEF Injection, Surjection, IsInjective
  <2>5. IsFiniteSet(1 .. n) /\ Cardinality(1 .. n) = n
    BY <1>1, FS_Interval
  <2> HIDE DEF f
  <2> QED BY <2>1, <2>4, <2>5, FS_Surjection
<1>6. IsFiniteSet(W) /\ Cardinality(W) \in Nat /\ n <= Cardinality(W)
  <2>1. IsFiniteSet(W)
    BY WordsFinite DEF W
  <2> QED BY <2>1, <1>3, <1>5, FS_CardinalityType, FS_Subset
<1>7. ptr = LineEnd(text) => Cardinality(W) = n
  <2> SUFFICES ASSUME ptr = LineEnd(text) PROVE Cardinality(W) = n
    OBVIOUS
  <2>1. \A w \in W : w[1] < ptr
    BY <1>1, WordIs DEF W
  <2>2. W = shown
    BY <1>3, <1>4, <2>1
  <2> QED BY <2>2, <1>5
<1>8. n <= MaxArgs
  BY DEF n
<1>9. n = MaxArgs \/ ptr = LineEnd(text)
  BY DEF n
<1>10. n = Min({Cardinality(W), MaxArgs})
  <2> DEFINE P == {Cardinality(W), MaxArgs}
  <2>1. P \in SUBSET Nat /\ P # {}
    BY <1>1, <1>6
  <2>2. Min(P) \in P /\ \A y \in P : Min(P) <= y
    BY <2>1, LeastIs
  <2>3. Min(P) <= Cardinality(W) /\ Min(P) <= MaxArgs /\ (Min(P) = Cardinality(W) \/ Min(P) = MaxArgs)
    BY <2>2
  <2> HIDE DEF P
  <2>4. Min(P) = n
    BY <2>3, <1>1, <1>6, <1>7, <1>8, <1>9
  <2> QED BY <2>4 DEF P
<1>11. ASSUME NEW w \in W \ shown, NEW v \in shown PROVE v[2] < w[1]
  <2>1. ~ (w[1] < ptr)
    BY <1>4
  <2>2. v[2] < ptr /\ v \in W
    BY <1>1, <1>2 DEF SeenWords
  <2>3. w[1] \in 1 .. Len(text) /\ v[2] \in 1 .. Len(text)
    BY <2>2, WordIs DEF W
  <2> QED BY <2>1, <2>2, <2>3, <1>1
<1> QED BY <1>3, <1>10, <1>11 DEF n, W

\* Whatever the line, it is cut into its words.
LEMMA CutIsRight ==
  ASSUME NEW text \in Line
  PROVE  CutsIntoWords(text)
<1> DEFINE cut == Cut(text)
           b == cut.buffer
           p == cut.ptr
           args == cut.args
           m == LineEnd(text)
           words == Words(text)
           shown == SeenWords(b, args)
<1>1. /\ Len(text) \in Nat /\ m = Len(text) + 1 /\ DOMAIN text = 1 .. Len(text)
      /\ \A i \in 1 .. Len(text) : text[i] \in {LETTER, SPACE}
      /\ LETTER # ZERO /\ SPACE # ZERO /\ MaxArgs \in Nat \ {0}
  BY ArgsAssumption DEF Line, LineEnd, LETTER, SPACE, ZERO
<1>2. RoundInv(text, LineEnd(text), cut)
  BY CutKeeps
<1>3. /\ args \in Seq(Nat) /\ Len(args) <= MaxArgs
      /\ p \in 1 .. m /\ b \in [1 .. m -> Chars]
      /\ b[p] = CharAt(text, p) \/ (b[p] = ZERO /\ Len(args) = MaxArgs)
      /\ \A j \in DOMAIN text : j < p /\ text[j] = LETTER => b[j] = LETTER
      /\ p > m \/ b[p] = ZERO
      /\ \/ args = <<>> /\ p = 1
         \/ args = <<m>> /\ p = m /\ AllSpaces(text)
         \/ args # <<>> /\ ArgsSound(text, args, p, b)
  BY <1>2 DEF RoundInv
<1>4. SUFFICES /\ \A i \in DOMAIN args : i > 1 => args[i - 1] < args[i]
               /\ IF text # <<>> /\ words = {} THEN args = <<Len(text) + 1>>
                  ELSE /\ shown \subseteq words
                       /\ Len(args) = Min({Cardinality(words), MaxArgs})
                       /\ \A w \in words \ shown : \A v \in shown : v[2] < w[1]
  BY Zenon DEF CutsIntoWords, SeenWords
<1> HIDE DEF cut, b, p, args, m, words, shown
<1>5. p = m \/ Len(args) = MaxArgs
  BY <1>1, <1>3 DEF CharAt
<1>6. CASE args = <<>> /\ p = 1
  <2>1. text = <<>>
    BY <1>1, <1>3, <1>5, <1>6 DEF Line, m, LineEnd
  <2>2. words = {} /\ shown = {}
    <3>1. words = {}
      BY <2>1, NoWords DEF words
    <3> QED BY <3>1, <1>6 DEF shown, SeenWords
  <2>3. Cardinality(words) = 0
    BY <2>2, FS_EmptySet
  <2>4. Min({Cardinality(words), MaxArgs}) = 0
    <3> DEFINE P == {Cardinality(words), MaxArgs}
    <3>1. P \in SUBSET Nat /\ P # {} /\ 0 \in P
      BY <2>3, <1>1
    <3> HIDE DEF P
    <3>2. Min(P) \in P /\ Min(P) <= 0
      BY <3>1, LeastIs
    <3>3. Min(P) \in Nat
      BY <3>1, <3>2
    <3>4. Min(P) = 0
      BY <3>2, <3>3
    <3> QED BY <3>4 DEF P
  <2> QED BY <1>6, <2>1, <2>2, <2>4
<1>7. CASE args = <<m>> /\ p = m /\ AllSpaces(text)
  <2>1. words = {} /\ text # <<>>
    BY <1>7, NoWords DEF AllSpaces, words
  <2>2. DOMAIN args = 1 .. 1
    BY <1>7
  <2> QED BY <1>1, <1>7, <2>1, <2>2
<1>8. CASE args # <<>> /\ ArgsSound(text, args, p, b)
  <2>1. /\ shown \subseteq words /\ words # {}
        /\ Len(args) = Min({Cardinality(words), MaxArgs})
        /\ \A w \in words \ shown : \A v \in shown : v[2] < w[1]
    <3>1. /\ p \in 1 .. LineEnd(text) /\ b \in [1 .. LineEnd(text) -> Chars]
          /\ p = LineEnd(text) \/ Len(args) = MaxArgs
      BY <1>3, <1>5 DEF m
    <3>2. args \in Seq(Nat) /\ Len(args) <= MaxArgs /\ args # <<>>
      BY <1>3, <1>8
    <3>3. LettersKept(text, b, p)
      BY <1>3 DEF LettersKept
    <3>4. ArgsSound(text, args, p, b)
      BY <1>8
    <3> QED BY <3>1, <3>2, <3>3, <3>4, FoundAll DEF words, shown
  <2>2. \A i \in DOMAIN args : i > 1 => args[i - 1] < args[i]
    <3> SUFFICES ASSUME NEW i \in DOMAIN args, i > 1 PROVE args[i - 1] < args[i]
      OBVIOUS
    <3>1. i \in 1 .. Len(args) /\ i - 1 \in 1 .. Len(args) /\ i - 1 < i
      BY <1>3
    <3> QED BY <3>1, <1>8 DEF ArgsSound
  <2> QED BY <2>1, <2>2
<1> QED BY <1>3, <1>6, <1>7, <1>8

LineTyped == line \in Line

\* What is typed is a line.
LEMMA LinesTyped == Spec => []LineTyped
<1>1. Init => LineTyped
  <2>1. <<>> \in Line
    BY DEF Line
  <2> QED BY <2>1 DEF Init, LineTyped
<1>2. LineTyped /\ [Next]_vars => LineTyped'
  <2> SUFFICES ASSUME LineTyped, [Next]_vars PROVE LineTyped'
    OBVIOUS
  <2>1. CASE TypeNext
    <3>1. PICK ch \in {LETTER, SPACE} : line' = Append(line, ch)
      BY <2>1 DEF TypeNext
    <3>2. line \in Seq({LETTER, SPACE})
      BY DEF LineTyped, Line
    <3>3. Append(line, ch) \in Seq({LETTER, SPACE})
      BY <3>2
    <3> QED BY <3>1, <3>3 DEF LineTyped, Line
  <2>2. CASE UNCHANGED line
    BY <2>2 DEF LineTyped
  <2>3. TypeNext \/ UNCHANGED line
    BY DEF Next, vars, Clock, KeyboardBoot, ExpansionSlots, SRecordFiles, Directory, Programs,
       Tomorrow
  <2> QED BY <2>1, <2>2, <2>3
<1> QED BY <1>1, <1>2, PTL DEF Spec

\* The arguments of a command are the words of its line, each ended by a zero,
\* and of too many words the first MAXARGS: execute_cmd cuts every line so,
\* however many spaces are in front of a word or behind the last.
THEOREM ArgsRight == Spec => []ArgsAreWords
<1>1. LineTyped => ArgsAreWords
  BY CutIsRight DEF ArgsAreWords, LineTyped
<1> QED BY <1>1, LinesTyped, PTL
=============================================================================
