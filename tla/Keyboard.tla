------------------------------ MODULE Keyboard ------------------------------
(***************************************************************************)
(* The keyboard driver: drivers/sys/vt8242.c and drivers/keyboard.c after  *)
(* initialisation, with a PS/2 keyboard (scan code set 2) attached.  Bytes *)
(* from the keyboard enter g_buf_scancode in the interrupt handler; the    *)
(* main program decodes one byte per poll and queues characters in         *)
(* g_buf_keypress.  Interleavings inside one access to the scancode ring   *)
(* are the subject of ScancodeRing; here a put and a get are atomic.       *)
(*                                                                         *)
(* The keyboard itself is external: it sends the make and break codes of   *)
(* the keys that are pressed, repeated and released, with fake shifts      *)
(* around those of a navigation key, and a reply for each byte of a        *)
(* command it receives.                                                    *)
(***************************************************************************)
EXTENDS RingBuf, SequencesExt, FiniteSets

CONSTANTS
  Keys,       \* the keys of the keyboard, a set of [ext, code]
  ScanLength, \* SCANCODE_BUFFER_SIZE
  PressLength,\* KEYPRESS_BUFFER_SIZE
  MaxEvents,  \* bound: keys pressed, repeated or released
  MaxLocks    \* bound: of them, lock keys pressed

ASSUME RingAssumption ==
  /\ ScanLength \in Nat /\ ScanLength > 2
  /\ PressLength \in Nat /\ PressLength > 1
ASSUME BoundsAssumption == MaxEvents \in Nat /\ MaxLocks \in Nat

BREAK == 240     \* 0xF0, the prefix of a break code
EXTENDED == 224  \* 0xE0, the prefix of a grey key
REPLY == 250     \* 0xFA, the keyboard accepts a command byte

LSHIFT == 18     \* 0x12
RSHIFT == 89     \* 0x59
ALT == 17        \* 0x11, and AltGr after 0xE0
CAPSLOCK == 88   \* 0x58
NUMLOCK == 119   \* 0x77
SCROLLLOCK == 126\* 0x7E
KEY_A == 28      \* 0x1C
KEY_8 == 117     \* 0x75, and the up arrow after 0xE0

NoChar == 0         \* chr = 0: nothing is queued
SMALL_A == 97       \* 'a', and 'A' below
LARGE_A == 65
DIGIT_8 == 56
PS2_UPARROW == 132  \* 0x84
PS2_SCROLL == 148   \* 0x94

\* The codes after 0xE0 are not those of the shift keys and of caps lock.
ASSUME KeysAssumption ==
  /\ Keys \subseteq [ext : BOOLEAN, code : 0 .. 135]
  /\ \A k \in Keys : k.ext => k.code \notin {LSHIFT, RSHIFT, CAPSLOCK}

VARIABLES
  scancodes,  \* g_buf_scancode
  keypresses, \* g_buf_keypress
  state,      \* g_vt8242_state, the set of its SCAN_MODE flags
  mode,       \* g_vt8242_key_mode, the set of its KEY_MODE flags
  held,       \* external: keys that are down
  wire,       \* external: bytes of the current code still to be sent
  num,        \* external: the NumLock light is on
  faked,      \* external: shift keys about which the keyboard has told a lie
  replies,    \* external: command bytes not yet answered
  locked,     \* history: the locks as the key events leave them
  events,     \* history: key events so far
  typed,      \* history: characters the key events stand for
  delivered,  \* history: characters keyboard_get_key returned
  lost,       \* history: kinds of entries that were overwritten
  intact,     \* history: shift and AltGr keys released since the last lost scancode
  releasing,  \* history: the shift or AltGr key whose release is on the wire
  fakes,      \* history: fake shifts sent
  locks       \* bound: lock keys pressed

driver   == <<scancodes, keypresses, state, mode>>
keyboard == <<held, wire, num, faked, replies>>
history  == <<locked, events, typed, delivered, lost, intact, releasing, fakes, locks>>
keyboardVars     == <<driver, keyboard, history>>

Flags == {"break", "modifier", "shiftL", "shiftR", "altgr"}
Bytes == 0 .. 255

KeyboardTypeOK ==
  /\ scancodes \in Rings(ScanLength, Bytes) /\ keypresses \in Rings(PressLength, Bytes)
  /\ state \subseteq Flags /\ mode \subseteq {"caps", "num", "scroll"}
  /\ held \subseteq Keys /\ wire \in Seq(Bytes) /\ num \in BOOLEAN
  /\ faked \subseteq {LSHIFT, RSHIFT} /\ replies \in Nat
  /\ locked \subseteq {"caps", "num", "scroll"} /\ events \in 0 .. MaxEvents
  /\ typed \in Seq(Bytes) /\ delivered \in Seq(Bytes)
  /\ lost \subseteq {"code", "char"} /\ intact \subseteq Keys /\ releasing \subseteq Keys
  /\ fakes \in Nat /\ locks \in 0 .. MaxLocks

-----------------------------------------------------------------------------
(* keycodes.c: the entries for the keys in use.                            *)

\* g_ps2_keymap and g_ps2_keymap_shift.
Keymap(sc) ==
  CASE sc = KEY_A -> SMALL_A [] sc = KEY_8 -> DIGIT_8 [] sc = SCROLLLOCK -> PS2_SCROLL
    [] OTHER -> NoChar
KeymapShift(sc) ==
  CASE sc = KEY_A -> LARGE_A [] sc = KEY_8 -> DIGIT_8 [] sc = SCROLLLOCK -> PS2_SCROLL
    [] OTHER -> NoChar

\* The switch on the code after 0xE0.
KeymapExtended(sc) == IF sc = KEY_8 THEN PS2_UPARROW ELSE NoChar

ToUpper(chr) == IF chr = SMALL_A THEN LARGE_A ELSE chr

-----------------------------------------------------------------------------
(* vt8242_process_scancode: the flags, the locks and the character after   *)
(* byte sc, from flags s and locks m.                                      *)

LockOf(sc) == CASE sc = CAPSLOCK -> {"caps"} [] sc = NUMLOCK -> {"num"}
                [] sc = SCROLLLOCK -> {"scroll"} [] OTHER -> {}

Toggled(m, lock) == (m \ lock) \cup (lock \ m)

\* Defective variants, for the checks that the properties can fail: the right
\* shift never released, the prefix 0xE0 kept across a break code, the prefix
\* ignored, and a poll that leaves the scancodes alone (below).
Released_LeftOnly(s, sc) ==
  IF sc = LSHIFT THEN {"shiftL"} ELSE IF sc = ALT THEN {"altgr"} ELSE {}
NextState_KeepsModifier(s, sc) ==
  CASE sc = BREAK -> s \cup {"break"} [] sc = EXTENDED -> s \cup {"modifier"}
    [] "break" \in s -> s \ {"break", "shiftL"}
    [] sc = LSHIFT -> s \cup {"shiftL"} [] OTHER -> s \ {"modifier"}
CharOf_NoModifier(s, m, sc) ==
  IF sc \in {BREAK, EXTENDED, LSHIFT, RSHIFT} \/ "break" \in s THEN NoChar
  ELSE IF s \cap {"shiftL", "shiftR"} # {} THEN KeymapShift(sc) ELSE Keymap(sc)

Released(s, sc) ==
  CASE sc = LSHIFT -> {"shiftL"} [] sc = RSHIFT -> {"shiftR"}
    [] sc = ALT /\ "modifier" \in s -> {"altgr"} [] OTHER -> {}

NextState(s, sc) ==
  CASE sc = BREAK                      -> s \cup {"break"}
    [] sc = EXTENDED                   -> s \cup {"modifier"}
    [] sc \notin {BREAK, EXTENDED} /\ "break" \in s
                                       -> s \ ({"break", "modifier"} \cup Released(s, sc))
    [] sc = LSHIFT /\ "break" \notin s -> s \cup {"shiftL"}
    [] sc = RSHIFT /\ "break" \notin s -> s \cup {"shiftR"}
    [] sc = ALT /\ "break" \notin s /\ "modifier" \in s
                                       -> (s \cup {"altgr"}) \ {"modifier"}
    [] OTHER                           -> s \ {"modifier"}

IsMake(s, sc) ==
  sc \notin {BREAK, EXTENDED, LSHIFT, RSHIFT} /\ "break" \notin s

NextMode(s, m, sc) == IF IsMake(s, sc) THEN Toggled(m, LockOf(sc)) ELSE m

CharOf(s, m, sc) ==
  LET chr == IF "modifier" \in s THEN KeymapExtended(sc)
             ELSE IF s \cap {"shiftL", "shiftR"} # {} THEN KeymapShift(sc)
             ELSE Keymap(sc)
  IN  IF ~IsMake(s, sc) THEN NoChar
      ELSE IF "caps" \in NextMode(s, m, sc) THEN ToUpper(chr) ELSE chr

-----------------------------------------------------------------------------
(* What the key events mean, without reference to the driver: a key typed  *)
(* while the keys in down are held and the locks in lk are set.            *)

ShiftCodes == {LSHIFT, RSHIFT}
IsShift(k) == ~k.ext /\ k.code \in ShiftCodes
IsHeldKey(k) == IsShift(k) \/ (k.ext /\ k.code = ALT)
FlagOf(k) == CASE k.code = LSHIFT -> "shiftL" [] k.code = RSHIFT -> "shiftR"
               [] OTHER -> "altgr"

Meaning(k, down, lk) ==
  LET plain == CASE IsShift(k) -> NoChar
                 [] k.ext -> KeymapExtended(k.code)
                 [] OTHER -> IF \E h \in down : IsShift(h)
                             THEN KeymapShift(k.code) ELSE Keymap(k.code)
  IN  IF "caps" \in lk THEN ToUpper(plain) ELSE plain

-----------------------------------------------------------------------------

\* vt8242_init_buffers; the globals start at zero.
InitBuffers ==
  /\ scancodes = RingInit(ScanLength)
  /\ keypresses = RingInit(PressLength)
  /\ state = {} /\ mode = {}
  /\ held = {} /\ wire = <<>> /\ replies = 0
  /\ num = FALSE /\ faked = {} /\ releasing = {} /\ fakes = 0 /\ locks = 0
  /\ locked = {} /\ events = 0 /\ typed = <<>> /\ delivered = <<>>
  /\ lost = {} /\ intact = {k \in Keys : IsHeldKey(k)}

-----------------------------------------------------------------------------
(* The keyboard (external).                                                *)

MakeCode(k) == IF k.ext THEN <<EXTENDED, k.code>> ELSE <<k.code>>
BreakCode(k) == IF k.ext THEN <<EXTENDED, BREAK, k.code>> ELSE <<BREAK, k.code>>

IsNavigation(k) == k.ext /\ k.code = KEY_8
ShiftsDown(down) == {h.code : h \in {k \in down : IsShift(k)}}

\* A navigation key that goes down is made to look as if typed without
\* NumLock and shift: the keyboard says that the shift keys in use have come
\* up, or that the left one has gone down.  When the key comes up it tells
\* the truth again.
Lies(k) ==
  IF ~IsNavigation(k) \/ k \in held THEN {}
  ELSE IF num THEN {LSHIFT} \ ShiftsDown(held) ELSE ShiftsDown(held)
Saying(code, shifts, down) ==
  IF code \notin shifts THEN <<>>
  ELSE IF code \in down THEN <<EXTENDED, code>> ELSE <<EXTENDED, BREAK, code>>
Says(shifts, down) == Saying(LSHIFT, shifts, down) \o Saying(RSHIFT, shifts, down)

\* The keys the driver may be wrong about after fake shifts: the shift keys that
\* they name, and AltGr, when the left Alt key takes over the last prefix.
Misled(codes) ==
  IF codes = {} THEN {}
  ELSE {k \in Keys : IsHeldKey(k) /\ (IsShift(k) => k.code \in codes)}

KeyEvent(codes, lies) ==
  /\ events < MaxEvents
  /\ wire = <<>>
  /\ events' = events + 1
  /\ releasing' = {h \in held \ held' : IsHeldKey(h)}
  /\ wire' = codes
  /\ intact' = intact \ Misled(lies)
  /\ fakes' = fakes + Cardinality(lies)
  /\ UNCHANGED <<driver, num, replies, delivered, lost>>

\* A key goes down, or is held down and repeats.
KeyMake(k) ==
  LET lk == IF k.ext \/ IsShift(k) THEN locked ELSE Toggled(locked, LockOf(k.code))
      chr == Meaning(k, held, lk)
      isLock == lk # locked
      opposite == ShiftCodes \ ShiftsDown(held)
  IN  /\ held' = held \cup {k}
      /\ KeyEvent(Says(Lies(k), opposite) \o MakeCode(k),
                  Lies(k))
      /\ faked' = faked \cup Lies(k)
      /\ locked' = lk
      /\ isLock => locks < MaxLocks
      /\ locks' = IF isLock THEN locks + 1 ELSE locks
      /\ typed' = IF chr = NoChar THEN typed ELSE Append(typed, chr)

KeyBreak(k) ==
  LET truths == IF IsNavigation(k) THEN faked ELSE {}
  IN  /\ k \in held
      /\ held' = held \ {k}
      /\ KeyEvent(BreakCode(k) \o Says(truths, ShiftsDown(held)), truths)
      /\ faked' = faked \ truths
      /\ UNCHANGED <<locked, typed, locks>>

-----------------------------------------------------------------------------
(* vt8242_keyboard_interrupt.                                              *)

Receive(sc) ==
  /\ scancodes' = RingPut(scancodes, sc)
  /\ lost' = IF RingFull(scancodes) THEN lost \cup {"code"} ELSE lost
  /\ UNCHANGED <<keypresses, state, mode>>

\* The next byte of a make or break code arrives.
ReceiveCode ==
  /\ wire # <<>>
  /\ Receive(Head(wire))
  /\ wire' = Tail(wire)
  /\ intact' =
       IF RingFull(scancodes) THEN {}
       ELSE IF Len(wire) = 1 THEN intact \cup releasing ELSE intact
  /\ releasing' = IF Len(wire) = 1 THEN {} ELSE releasing
  /\ UNCHANGED <<held, num, faked, replies, locked, events, typed, delivered, fakes, locks>>

\* The reply to a command byte arrives, between two codes.
ReceiveReply ==
  /\ replies > 0
  /\ wire = <<>>
  /\ Receive(REPLY)
  /\ replies' = replies - 1
  /\ intact' = IF RingFull(scancodes) THEN {} ELSE intact
  /\ UNCHANGED <<held, wire, num, faked, locked, events, typed, delivered, releasing, fakes, locks>>

-----------------------------------------------------------------------------
(* The main program.                                                       *)

\* vt8242_process_scancode(sc), and for a lock key vt8242_set_leds, which
\* writes two bytes to the keyboard without waiting for its replies.  The
\* wait between them does not test the input buffer, so either may be lost.
ProcessScancode(sc) ==
  LET chr == CharOf(state, mode, sc)
      put == chr # NoChar
  IN  /\ state' = NextState(state, sc)
      /\ mode' = NextMode(state, mode, sc)
      /\ IF IsMake(state, sc) /\ LockOf(sc) # {}
           THEN \E n \in 0 .. 2 :
                  /\ replies' = replies + n
                  /\ num' = IF n = 2 THEN "num" \in mode' ELSE num
           ELSE UNCHANGED <<replies, num>>
      /\ lost' = IF put /\ RingFull(keypresses) THEN lost \cup {"char"} ELSE lost

\* keypresses after a poll: process_keyboard takes at most one scancode.
Queued ==
  IF RingEmpty(scancodes) THEN keypresses
  ELSE LET chr == CharOf(state, mode, RingFront(scancodes))
       IN  IF chr = NoChar THEN keypresses ELSE RingPut(keypresses, chr)

ProcessKeyboard ==
  /\ IF RingEmpty(scancodes)
       THEN UNCHANGED <<scancodes, state, mode, num, replies, lost>>
       ELSE /\ ProcessScancode(RingFront(scancodes))
            /\ scancodes' = RingDrop(scancodes)
  /\ UNCHANGED <<held, wire, faked, locked, events, typed, intact, releasing, fakes, locks>>

HasKey_NoPoll == UNCHANGED keyboardVars

\* keyboard_has_key: poll, then test the queue of characters.
HasKey ==
  /\ ProcessKeyboard
  /\ keypresses' = Queued
  /\ UNCHANGED delivered

\* keyboard_get_key: poll, then take a character if there is one.
GetKey ==
  /\ ProcessKeyboard
  /\ IF RingEmpty(Queued)
       THEN keypresses' = Queued /\ UNCHANGED delivered
       ELSE /\ keypresses' = RingDrop(Queued)
            /\ delivered' = Append(delivered, RingFront(Queued))

KeyboardNext ==
  \/ \E k \in Keys : KeyMake(k) \/ KeyBreak(k)
  \/ ReceiveCode \/ ReceiveReply
  \/ HasKey \/ GetKey

KeyboardSpec == InitBuffers /\ [][KeyboardNext]_keyboardVars

\* The wire delivers, and the main loop polls for a key for ever and takes it
\* when the poll says that there is one.
FairKeyboardSpec ==
  KeyboardSpec /\ WF_keyboardVars(ReceiveCode) /\ WF_keyboardVars(HasKey)
       /\ WF_keyboardVars(~RingEmpty(keypresses) /\ GetKey)

-----------------------------------------------------------------------------
(* Properties.                                                             *)

AtRest == wire = <<>> /\ RingEmpty(scancodes)

\* Every character typed is delivered once, in order, with the shift and caps
\* lock that applied when its key went down, however late it is decoded; until
\* one of the two rings overflows, or the keyboard sends a fake shift.
TypedIsDelivered ==
  lost = {} /\ fakes = 0 =>
    /\ IsPrefix(delivered \o Contents(keypresses), typed)
    /\ AtRest => delivered \o Contents(keypresses) = typed

\* The driver takes a fake shift for a shift key and keeps its prefix for the
\* key that follows: each may cost the character of one key, or its case, and
\* no more; the keyboard and the driver stay in step.
FakeShiftsCostOneKey ==
  lost = {} /\ AtRest =>
    LET got == Len(delivered \o Contents(keypresses))
    IN  /\ got <= Len(typed) /\ Len(typed) <= got + fakes
        /\ "break" \notin state
        /\ "modifier" \in state => fakes > 0

\* The driver's idea of a shift or AltGr key is right whenever everything sent
\* has been decoded.  A lost scancode or a fake shift can make it wrong, but
\* only until the next time that key is released.
ShiftAgrees ==
  AtRest => \A k \in intact : FlagOf(k) \in state <=> k \in held

\* Everything typed is eventually handed to the program that polls.
EventuallyDelivered == <>[](lost # {} \/ fakes > 0 \/ delivered = typed)
=============================================================================
