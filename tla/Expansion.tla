------------------------------ MODULE Expansion ------------------------------
(***************************************************************************)
(* The scan of the expansion slots in drivers/expansion.c: the presence    *)
(* bits are read once, a card answers with its device id or, until it is   *)
(* ready, with 0, and is asked ten times.  The first video card whose      *)
(* driver starts becomes the display.                                      *)
(***************************************************************************)
EXTENDS Naturals, FiniteSets

CONSTANTS
  MAX_EXP_DEVICES,
  MaxRetries,  \* 10
  Devices      \* ids of cards: [type |-> ..., starts |-> does init_display succeed?]

Slots == 0 .. MAX_EXP_DEVICES - 1
NoCard == [type |-> "none"]
Blank == [type |-> "blank"]           \* an entry of zeros

ASSUME BusAssumption ==
  /\ MAX_EXP_DEVICES \in Nat /\ MaxRetries \in Nat
  /\ \A d \in Devices : d \notin {NoCard, Blank} /\ d.starts \in BOOLEAN

VARIABLES
  cards,                 \* what is plugged in (external)
  ready,                 \* the cards that answer
  slot, retries,         \* the loops of init_expansion_bus
  g_expansion_slots,
  g_exp_num_devices,
  display                \* the slot of the display, or none

busVars == <<cards, ready, slot, retries, g_expansion_slots, g_exp_num_devices, display>>

g_exp_devicemap == {s \in Slots : cards[s] # NoCard}
NoSlot == MAX_EXP_DEVICES
Scanned == slot = MAX_EXP_DEVICES

BusInit ==
  /\ cards \in [Slots -> Devices \cup {NoCard}]
  /\ ready = {}
  /\ slot = 0 /\ retries = MaxRetries
  /\ g_expansion_slots = [s \in Slots |-> Blank]
  /\ g_exp_num_devices = 0
  /\ display = NoSlot

\* A card powers up (external).
CardReady(s) ==
  /\ s \in g_exp_devicemap \ ready
  /\ ready' = ready \cup {s}
  /\ UNCHANGED <<cards, slot, retries, g_expansion_slots, g_exp_num_devices, display>>

\* A defective variant: the last video card wins.
Chosen_Last(s) == IF cards[s].type = "video" /\ cards[s].starts THEN s ELSE display
\* init_expansion_device: only video cards have a driver.
Chosen(s) ==
  IF cards[s].type = "video" /\ display = NoSlot /\ cards[s].starts THEN s ELSE display

NextSlot == slot' = slot + 1 /\ retries' = MaxRetries

SkipSlot ==
  /\ ~Scanned /\ (slot \notin g_exp_devicemap \/ retries = 0)
  /\ NextSlot
  /\ UNCHANGED <<cards, ready, g_expansion_slots, g_exp_num_devices, display>>

ReadZero ==
  /\ ~Scanned /\ slot \in g_exp_devicemap \ ready /\ retries > 0
  /\ retries' = retries - 1
  /\ UNCHANGED <<cards, ready, slot, g_expansion_slots, g_exp_num_devices, display>>

ReadId ==
  /\ ~Scanned /\ slot \in ready /\ retries > 0
  /\ g_expansion_slots' = [g_expansion_slots EXCEPT ![slot] = cards[slot]]
  /\ g_exp_num_devices' = g_exp_num_devices + 1
  /\ display' = Chosen(slot)
  /\ NextSlot
  /\ UNCHANGED <<cards, ready>>

BusNext == SkipSlot \/ ReadZero \/ ReadId \/ \E s \in Slots : CardReady(s)

BusSpec == BusInit /\ [][BusNext]_busVars

-----------------------------------------------------------------------------
(* Properties.                                                             *)

Entered == {s \in Slots : g_expansion_slots[s] # Blank}

\* The display is the first video card that answered and whose driver
\* started; a later one does not take its place.
FirstVideoCard ==
  LET usable == {s \in Entered : cards[s].type = "video" /\ cards[s].starts}
  IN  IF usable = {} THEN display = NoSlot
      ELSE display \in usable /\ \A s \in usable : display <= s

\* Programs ask for the number of boards and then for each slot: at every
\* moment of the scan the number is that of the entries, an entry is the card
\* in its slot, however long its neighbours take, and one video card is used.
BoardsAgree ==
  /\ g_exp_num_devices = Cardinality(Entered)
  /\ \A s \in Entered : g_expansion_slots[s] = cards[s]
  /\ FirstVideoCard
=============================================================================
