---------------------------- MODULE KeyboardInit -----------------------------
(***************************************************************************)
(* How the keyboard is found and switched on at boot: init_keyboard of     *)
(* drivers/keyboard.c, vt8242_init of drivers/sys/vt8242.c and what main   *)
(* does around them, register by register, against the controller and a    *)
(* keyboard that sends when it likes.  Answers of the controller and bytes *)
(* of the keyboard come out of the same one-byte buffer.                   *)
(*                                                                         *)
(* A byte is the set of the weights of its bits: b & ~m is b \ m.          *)
(***************************************************************************)
EXTENDS Naturals, Sequences

CONSTANTS
  RESETS,      \* retries in vt8242_init: 30
  RETRIES,     \* retries in init_keyboard: 5
  PS2_TIMEOUT, \* bytes that vt8242_flush reads at most
  PowerUp,     \* what the command byte may be at power up
  Scancodes,   \* bytes that keys send
  MaxTyped     \* bound: keys typed while the system boots

\* A flush reads what is there at least once.
ASSUME BootAssumption == RESETS \in Nat /\ PS2_TIMEOUT \in Nat \ {0}

KBD_INT == 1      AUX_INT == 2
KBD_OFF == 16     AUX_OFF == 32     TRANS == 64

DIAG_OK == {64, 16, 4, 1}           \* 0x55
RST_OK == {128, 32, 8, 2}           \* 0xAA
ACK == {128, 64, 32, 16, 8, 2}      \* 0xFA
RESEND == ACK \cup {4}              \* 0xFE
TEST_OK == {}                       \* 0x00
NO_CLOCK == {1}                     \* 0x01, the keyboard's clock line is low

-----------------------------------------------------------------------------
(* The driver as the list of what it does to the registers.                *)

Command(c) == [op |-> "command", arg |-> c]
Receive == [op |-> "receive"]
\* A defective variant: the answer to the last reset is waited for.
Peek_Waits == [op |-> "receive"]
Peek == [op |-> "peek"]
Flush == [op |-> "flush"]
Test(t) == [op |-> "test", arg |-> t]
\* set_config_byte(cfg & ~off | on), cfg being the byte received last.
SendConfig(off, on) == [op |-> "config", off |-> off, on |-> on]
SendReset == [op |-> "reset"]

Configure(off, on) ==
  <<Command("read_config"), Receive, Command("write_config"), SendConfig(off, on)>>

\* A defective variant: codes are still translated.
disable_for_init_KeepsTrans == Configure({KBD_INT, AUX_INT}, {})
disable_for_init == Configure({KBD_INT, AUX_INT, TRANS}, {})

Resets == [i \in 1 .. 2 * RESETS |-> IF i % 2 = 1 THEN SendReset ELSE Peek]

\* vt8242_init.  The loop on the reset sends all its retries whatever the
\* answers are.  Of the waits for the answers only the test for zero remains:
\* !status & OBF is (!status) & OBF.
vt8242_init ==
  Configure({KBD_INT}, {}) \o Configure({AUX_INT}, {})
    \o <<Command("keyboard_off"), Command("aux_off")>>
    \o disable_for_init
    \o <<Flush, Command("diagnose"), Receive, Test("diagnosis"),
         Command("aux_on"), Command("read_config"), Receive, Test("second_channel"),
         Command("aux_off"), Command("test_keyboard"), Receive, Command("keyboard_on"), Flush>>
    \o Resets \o <<Peek, Test("answer")>>

\* main, when a keyboard was found.
Enable == <<Flush>> \o Configure({}, {KBD_INT})

VARIABLES
  todo,    \* what the driver has left to do
  byte,    \* the byte it read last
  flushed, \* bytes read by the flush in progress
  tries,   \* retries left in init_keyboard
  found,   \* g_has_keyboard
  config,  \* the command byte of the controller
  input,   \* its input buffer: a command, data, or nothing
  output,  \* its output buffer: at most one byte
  last,    \* what its data register shows when the buffer is empty
  mode,    \* is the next data byte the command byte?
  present, \* is there a keyboard?
  sending, \* what the keyboard has to send
  typed,   \* history: keys typed
  mixed    \* history: a byte of the keyboard was taken for an answer

driver == <<todo, byte, flushed, tries, found>>
controller == <<config, input, output, last, mode>>
keyboard == <<present, sending, typed>>
bootVars == <<driver, controller, keyboard, mixed>>

Empty == <<>>
Done == todo = <<>>

BootInit ==
  /\ todo = vt8242_init /\ byte = {} /\ flushed = 0
  /\ tries = RETRIES /\ found = FALSE
  /\ config \in PowerUp /\ input = Empty /\ output = Empty
  /\ last = {} /\ mode = "data"
  /\ present \in BOOLEAN
  /\ sending \in IF present THEN {<<>>, <<RST_OK>>} ELSE {<<>>}
  /\ typed = 0 /\ mixed = FALSE

-----------------------------------------------------------------------------
(* The driver.  A wait for a bit of the status register is a guard.        *)

Next_(op) == ~Done /\ Head(todo).op = op
Proceeds == todo' = Tail(todo)

\* Both ports are written only when the controller has taken what came before.
Writes(kind, value) ==
  /\ input = Empty
  /\ input' = [kind |-> kind, value |-> value]
  /\ Proceeds
  /\ UNCHANGED <<byte, flushed, tries, found, config, output, last, mode, keyboard,
                 mixed>>

WriteCommand == Next_("command") /\ Writes("command", Head(todo).arg)
WriteConfig ==
  Next_("config") /\ Writes("data", (byte \ Head(todo).off) \cup Head(todo).on)
WriteReset == Next_("reset") /\ Writes("data", "reset")

\* The data register is read: the byte leaves the buffer.
Takes(b) == byte' = b /\ output' = Empty
UnchangedByRead == <<tries, found, config, input, mode, keyboard>>

\* while (!(PS2_REG(PS2_STAT) & PS2_STAT_OBF)), and the answer.
ReadAnswer ==
  /\ Next_("receive") /\ output # Empty
  /\ Takes(output.byte)
  /\ last' = output.byte
  /\ mixed' = (mixed \/ output.from = "keyboard")
  /\ Proceeds
  /\ UNCHANGED <<UnchangedByRead, flushed>>

\* The same read without a wait.
ReadAny ==
  /\ Next_("peek")
  /\ Takes(IF output = Empty THEN last ELSE output.byte)
  /\ last' = byte'
  /\ Proceeds
  /\ UNCHANGED <<UnchangedByRead, flushed, mixed>>

\* A pass of vt8242_flush.
FlushOne ==
  /\ Next_("flush")
  /\ IF output # Empty /\ flushed < PS2_TIMEOUT
       THEN /\ output' = Empty /\ last' = output.byte
            /\ flushed' = flushed + 1
            /\ UNCHANGED todo
       ELSE /\ flushed' = 0
            /\ Proceeds
            /\ UNCHANGED <<output, last>>
  /\ mixed' = FALSE
  /\ UNCHANGED <<UnchangedByRead, byte>>

Passed(b) == b \in {RST_OK, ACK}

\* vt8242_init returns, and init_keyboard tries again or ends.
Returns(ok) ==
  /\ found' = ok
  /\ tries' = tries - 1
  /\ todo' = IF ok THEN Enable ELSE IF tries > 1 THEN vt8242_init ELSE <<>>

TestByte ==
  /\ Next_("test")
  /\ \/ /\ Head(todo).arg = "diagnosis"
        /\ IF byte = DIAG_OK THEN Proceeds /\ UNCHANGED <<found, tries>> ELSE Returns(FALSE)
     \/ /\ Head(todo).arg = "second_channel"
        /\ todo' = IF AUX_OFF \in byte THEN Tail(Tail(todo)) ELSE Tail(todo)
        /\ UNCHANGED <<found, tries>>
     \/ Head(todo).arg = "answer" /\ Returns(Passed(byte))
  /\ UNCHANGED <<byte, flushed, controller, keyboard, mixed>>

Driver ==
  WriteCommand \/ WriteConfig \/ WriteReset \/ ReadAnswer \/ ReadAny \/ FlushOne \/ TestByte

\* main has enabled interrupts again, and the handler takes what is there.
Interrupt ==
  /\ found /\ KBD_INT \in config /\ output # Empty
  /\ output' = Empty /\ last' = output.byte
  /\ UNCHANGED <<driver, config, input, mode, keyboard, mixed>>

-----------------------------------------------------------------------------
(* The controller and the keyboard (external).                             *)

Answers(b) == output' = [from |-> "controller", byte |-> b] /\ UNCHANGED <<config, mode>>
Becomes(c) == config' = c /\ UNCHANGED <<output, mode>>
IsInput(kind, value) == input = [kind |-> kind, value |-> value]

\* A command.  An answer takes the place of a byte that nobody has read.
ControllerObeys ==
  /\ \/ IsInput("command", "read_config") /\ Answers(config)
     \/ IsInput("command", "write_config") /\ mode' = "config" /\ UNCHANGED <<config, output>>
     \/ IsInput("command", "keyboard_off") /\ Becomes(config \cup {KBD_OFF})
     \/ IsInput("command", "keyboard_on") /\ Becomes(config \ {KBD_OFF})
     \/ IsInput("command", "aux_off") /\ Becomes(config \cup {AUX_OFF})
     \/ IsInput("command", "aux_on") /\ Becomes(config \ {AUX_OFF})
     \/ IsInput("command", "diagnose") /\ Answers(DIAG_OK)
     \/ IsInput("command", "test_keyboard") /\ Answers(IF present THEN TEST_OK ELSE NO_CLOCK)
  /\ input' = Empty
  /\ UNCHANGED <<driver, last, keyboard, mixed>>

\* A data byte: the command byte, or one for the keyboard, which forgets what
\* it had to send, acknowledges and tests itself.  Without a keyboard the
\* controller gives up.
ControllerTakesData ==
  /\ input # Empty /\ input.kind = "data"
  /\ input' = Empty /\ mode' = "data"
  /\ IF mode = "config" THEN config' = input.value /\ UNCHANGED <<output, sending>>
     ELSE IF present THEN sending' = <<ACK, RST_OK>> /\ UNCHANGED <<output, config>>
     ELSE output' = [from |-> "controller", byte |-> RESEND] /\ UNCHANGED <<config, sending>>
  /\ UNCHANGED <<driver, last, present, typed, mixed>>

KeyboardSends ==
  /\ sending # <<>> /\ output = Empty /\ KBD_OFF \notin config
  /\ output' = [from |-> "keyboard", byte |-> Head(sending)]
  /\ sending' = Tail(sending)
  /\ UNCHANGED <<driver, config, input, last, mode, present, typed, mixed>>

KeyTyped(k) ==
  /\ present /\ typed < MaxTyped
  /\ sending' = Append(sending, k)
  /\ typed' = typed + 1
  /\ UNCHANGED <<driver, controller, present, mixed>>

Device == ControllerObeys \/ ControllerTakesData \/ KeyboardSends

BootNext == Driver \/ Interrupt \/ Device \/ \E k \in Scancodes : KeyTyped(k)

BootSpec == BootInit /\ [][BootNext]_bootVars

-----------------------------------------------------------------------------
(* Properties.                                                             *)

\* What was found is a keyboard, and it is switched on with its interrupt and
\* sends codes of set 2, unless a byte that it sent came just when main read
\* the command byte and was taken for it.
FoundWorks ==
  Done /\ input = Empty /\ found /\ ~mixed =>
    present /\ KBD_INT \in config /\ {KBD_OFF, TRANS, AUX_INT} \intersect config = {}
=============================================================================
