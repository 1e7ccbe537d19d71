------------------------------ MODULE Console -------------------------------
(***************************************************************************)
(* The console and the shell's main loop: has_key and get_key of           *)
(* shell/conio.c over the keyboard and the serial port, getline of         *)
(* shell/decodecmd.c and the loop of main.c.  The processor never waits    *)
(* for input but in get_key, and a pass of the loop ends with              *)
(* update_timers (OsTimer).                                                *)
(*                                                                         *)
(* The keyboard driver (Keyboard) is reduced to the codes it has received, *)
(* each a character or a code without one, and the characters it has       *)
(* queued: every poll decodes one code.  The commands here read no keys;   *)
(* InputRead adds a program that does.                                     *)
(***************************************************************************)
EXTENDS Integers, SequencesExt

CONSTANTS
  LineLen,     \* LINELEN, the size of g_cmd_buffer
  Printable,   \* characters that are stored and echoed
  SerialDepth, \* bytes the serial chip holds
  MaxKeys      \* bound: codes and bytes that arrive

ENTER == "enter"     \* PS2_ENTER
DELETE == "delete"   \* PS2_DELETE, from backspace or DEL
IGNORED == "ignored" \* a control or function key getline does nothing with
NOTHING == "nothing" \* a scan code without a character
ERASED == "0xFF"     \* the serial byte that get_key takes for no key

Keys == Printable \cup {ENTER, DELETE, IGNORED}

ASSUME LineAssumption ==
  /\ LineLen \in Nat /\ LineLen > 1
  /\ SerialDepth \in Nat \ {0} /\ MaxKeys \in Nat
  /\ Printable \intersect {ENTER, DELETE, IGNORED, NOTHING, ERASED} = {}

VARIABLES
  codes,    \* g_buf_scancode, as the characters the codes stand for
  presses,  \* g_buf_keypress
  serial,   \* the bytes in the serial chip
  line,     \* the first count characters of g_cmd_buffer
  pc,       \* where the main program is
  typed,    \* history: what arrived, from the keyboard and from the serial port
  taken,    \* history: what get_key took, from each of the two
  executed, \* history: the lines given to execute_cmd
  lines     \* history: the lines that the keys taken by the shell stand for

history == <<typed, taken, executed, lines>>
vars == <<codes, presses, serial, line, pc, history>>

Init ==
  /\ codes = <<>> /\ presses = <<>> /\ serial = <<>>
  /\ line = <<>>
  /\ pc = "loop"
  /\ typed = [keyboard |-> <<>>, serial |-> <<>>]
  /\ taken = [keyboard |-> <<>>, serial |-> <<>>]
  /\ executed = <<>> /\ lines = <<<<>>>>

-----------------------------------------------------------------------------
(* Input (external).                                                       *)

Room == Len(typed.keyboard) + Len(typed.serial) < MaxKeys

KeyArrives(k) ==
  /\ Room
  /\ codes' = Append(codes, k)
  /\ typed' = [typed EXCEPT !.keyboard = Append(@, k)]
  /\ UNCHANGED <<presses, serial, line, pc, taken, executed, lines>>

SerialArrives(b) ==
  /\ Room
  /\ Len(serial) < SerialDepth
  /\ serial' = Append(serial, b)
  /\ typed' = [typed EXCEPT !.serial = Append(@, b)]
  /\ UNCHANGED <<codes, presses, line, pc, taken, executed, lines>>

-----------------------------------------------------------------------------
(* conio.c.                                                                *)

\* The two queues of the keyboard driver, and process_keyboard on them.
Queues == [codes |-> codes, presses |-> presses]

\* A defective variant: one place instead of a queue.
Polled_Latch(q) ==
  IF q.codes = <<>> \/ Head(q.codes) = NOTHING THEN q
  ELSE [codes |-> Tail(q.codes), presses |-> <<Head(q.codes)>>]

Polled(q) ==
  IF q.codes = <<>> THEN q
  ELSE [codes |-> Tail(q.codes),
        presses |-> IF Head(q.codes) = NOTHING THEN q.presses
                    ELSE Append(q.presses, Head(q.codes))]

Becomes(q) == codes' = q.codes /\ presses' = q.presses

\* A defective variant: any code received counts as a key.
HasKey_AnyCode ==
  /\ Becomes(Queues)
  /\ pc' = IF serial # <<>> \/ codes # <<>> \/ presses # <<>> THEN
              IF Len(line) < LineLen - 1 THEN "get" ELSE "run"
           ELSE "timers"

\* has_key, and what getline does with the answer: the keyboard is polled when
\* no serial byte waits.  A line that is full is submitted as it stands when
\* there is another key, which stays where it is.
HasKey ==
  LET q == IF serial # <<>> THEN Queues ELSE Polled(Queues)
  IN  /\ Becomes(q)
      /\ pc' = IF serial = <<>> /\ q.presses = <<>> THEN "timers"
               ELSE IF Len(line) < LineLen - 1 THEN "get" ELSE "run"

\* getline on character ch.
Edited(ch) ==
  CASE ch \in Printable -> Append(line, ch)
    [] ch = DELETE /\ line # <<>> -> Front(line)
    [] OTHER -> line

\* The reference for getline: the lines that a sequence of keys stands for, the
\* last one unfinished, after one more key.  A full line is finished by the key
\* that follows it.
AddKey(key) ==
  LET start == IF Len(Last(lines)) = LineLen - 1 THEN Append(lines, <<>>) ELSE lines
      edit(f) == Append(Front(start), f)
  IN  CASE key = ERASED -> lines
        [] key = ENTER -> Append(start, <<>>)
        [] key \in Printable -> edit(Append(Last(start), key))
        [] key = DELETE /\ Last(start) # <<>> -> edit(Front(Last(start)))
        [] OTHER -> start

\* getline gets the key ch from src; 0xFF is read and thrown away, and get_key
\* goes on.
ToLine(src, ch) ==
  /\ taken' = [taken EXCEPT ![src] = Append(@, ch)]
  /\ lines' = AddKey(ch)
  /\ line' = Edited(ch)
  /\ pc' = CASE ch = ERASED -> "get" [] ch = ENTER -> "run" [] OTHER -> "timers"

\* A pass of the loop of get_key: the keyboard first.  keyboard_has_key and
\* keyboard_get_key poll once each.  Give is what the caller does with the
\* key, caller what it may change.
GetKey(Give(_, _), caller) ==
  LET q == Polled(Queues)
      r == Polled(q)
  IN  \/ /\ q.presses # <<>>
         /\ Becomes([r EXCEPT !.presses = Tail(@)])
         /\ Give("keyboard", Head(r.presses))
         /\ UNCHANGED serial
      \/ /\ q.presses = <<>> /\ serial # <<>>
         /\ Becomes(q)
         /\ serial' = Tail(serial)
         /\ Give("serial", Head(serial))
      \/ /\ q.presses = <<>> /\ serial = <<>>
         /\ Becomes(q)
         /\ UNCHANGED <<serial, caller>>

-----------------------------------------------------------------------------
(* The main loop.                                                          *)

GetLine ==
  /\ pc = "loop"
  /\ HasKey
  /\ UNCHANGED <<serial, line, history>>

WaitForKey ==
  /\ pc = "get"
  /\ GetKey(ToLine, <<line, pc, taken, lines>>)
  /\ UNCHANGED <<typed, executed>>

\* A defective variant: count keeps its value.
Executes_KeepsCount ==
  /\ pc = "run"
  /\ executed' = Append(executed, line)
  /\ UNCHANGED <<codes, presses, serial, line, typed, taken, lines>>

\* getline ends the line and execute_cmd runs it.
Executes ==
  /\ pc = "run"
  /\ executed' = Append(executed, line)
  /\ line' = <<>>
  /\ UNCHANGED <<codes, presses, serial, typed, taken, lines>>
Execute == Executes /\ pc' = "timers"

UpdateTimers ==
  /\ pc = "timers"
  /\ pc' = "loop"
  /\ UNCHANGED <<codes, presses, serial, line, history>>

Main == GetLine \/ WaitForKey \/ Execute \/ UpdateTimers

Input ==
  \/ \E k \in Keys \cup {NOTHING} : KeyArrives(k)
  \/ \E b \in Keys \cup {ERASED} : SerialArrives(b)

-----------------------------------------------------------------------------
(* Properties.                                                             *)

\* The elements of s at the places in K, in order.
Rank(K, k) == Cardinality({j \in K : j <= k})
Place(K, i) == CHOOSE k \in K : Rank(K, k) = i
Picked(s, K) == [i \in 1 .. Cardinality(K) |-> s[Place(K, i)]]
Characters(s) == Picked(s, {k \in DOMAIN s : s[k] # NOTHING})

\* Every key of either source is taken exactly once and in order, also when a
\* full line is submitted because it arrived: the codes not yet decoded are those
\* received last, and what was taken or waits are the characters of the others.
NoKeyLost ==
  LET decoded == Len(typed.keyboard) - Len(codes)
  IN  /\ codes = SubSeq(typed.keyboard, decoded + 1, Len(typed.keyboard))
      /\ taken.keyboard \o presses = Characters(SubSeq(typed.keyboard, 1, decoded))
      /\ taken.serial \o serial = typed.serial

\* The lines executed are the lines typed, cut at LINELEN - 1 characters: no
\* character of one command leaks into the next.  (A full line is executed
\* before the key that follows it is taken.)
CommandsAreLines ==
  pc \in {"loop", "timers"} =>
    \/ executed \o <<line>> = lines
    \/ line = <<>> /\ executed = lines /\ Len(Last(executed)) = LineLen - 1

\* The main loop keeps updating the timers: get_key, which waits for ever, is
\* called only when a key is there.  A serial byte 0xFF makes it wait for the
\* key after it.
LoopGoesOn ==
  []<>(pc = "timers") \/ <>(\E i \in DOMAIN taken.serial : taken.serial[i] = ERASED)
=============================================================================
