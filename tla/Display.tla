------------------------------- MODULE Display -------------------------------
(***************************************************************************)
(* The text display of drivers/display.c: a buffer of characters in memory,*)
(* the screen of the video card, the position of the next character and    *)
(* the blinking cursor.  Characters come from the console one at a time    *)
(* (write_char), the blinking from an event timer (OsTimer), and a program *)
(* may take the card over and give it back.                                *)
(*                                                                         *)
(* One thread runs all of this, so that a call is one step.  A blank is    *)
(* the character 0 or a space: the fonts of the cards draw the same.       *)
(***************************************************************************)
EXTENDS Integers

CONSTANTS
  Width, Height, \* display_width, display_height
  Chars          \* printable characters

ASSUME DisplayAssumption == Width \in Nat \ {0} /\ Height \in Nat \ {0, 1}

BLANK == "blank"
CURSOR == "cursor"    \* cursor_on_char
PICTURE == "picture"  \* what a program leaves on the screen
NEWLINE == "newline"  \* '\n' or PS2_ENTER
ERASE == "erase"      \* PS2_BACKSPACE, the same code as PS2_DELETE

ASSUME CharsAssumption == Chars \cap {BLANK, CURSOR, PICTURE, NEWLINE, ERASE} = {}

Keys == Chars \cup {NEWLINE, ERASE}
Cells == 0 .. Width * Height - 1

VARIABLES
  text,          \* [buffer, screen, x, y]: display_buffer, what the card shows, the position
  g_has_display, \* the operating system owns the card
  cursor_on,
  cursor_state   \* the cursor was drawn last

displayVars == <<text, g_has_display, cursor_on, cursor_state>>

Empty == [c \in Cells |-> BLANK]

\* After init_display: enable_cursor has not been called.
DisplayInit ==
  /\ text = [buffer |-> Empty, screen |-> Empty, x |-> 0, y |-> 0]
  /\ g_has_display = TRUE
  /\ cursor_on = FALSE
  /\ cursor_state = FALSE

-----------------------------------------------------------------------------
(* write_buffer_text with one character, as a function of the text.        *)

Cell(t) == t.y * Width + t.x

Drawn(t, ch) == [t EXCEPT !.screen[Cell(t)] = ch]

\* Defective variants: the cursor is left where it was drawn; the position
\* does not go back to the row above.
Newline_KeepsCursor(t) == [t EXCEPT !.x = 0, !.y = @ + 1]
Back_Stays(t) == IF t.x > 0 THEN [t EXCEPT !.x = @ - 1] ELSE t

Newline(t) == [Drawn(t, BLANK) EXCEPT !.x = 0, !.y = @ + 1]

Back(t) ==
  IF t.x > 0 THEN [t EXCEPT !.x = @ - 1]
  ELSE IF t.y > 0 THEN [t EXCEPT !.x = Width - 1, !.y = @ - 1]
  ELSE t

\* A drawn cursor is removed, then the character before it.
Erased(t, drawn) ==
  LET u == Back(IF drawn THEN Drawn(t, BLANK) ELSE t)
  IN  Drawn([u EXCEPT !.buffer[Cell(u)] = BLANK], BLANK)

Stored(t, ch) == [Drawn([t EXCEPT !.buffer[Cell(t)] = ch], ch) EXCEPT !.x = @ + 1]

Wrapped(t) == IF t.x = Width THEN [t EXCEPT !.x = 0, !.y = @ + 1] ELSE t

\* The rows move up and the last one is cleared.
Up(buffer) == [c \in Cells |-> IF c + Width \in Cells THEN buffer[c + Width] ELSE BLANK]

Scrolled(t) ==
  IF t.y < Height THEN t
  ELSE [t EXCEPT !.buffer = Up(@), !.screen = Up(t.buffer), !.y = @ - 1]

Written(t, key, drawn) ==
  Scrolled(Wrapped(CASE key = NEWLINE -> Newline(t)
                     [] key = ERASE -> Erased(t, drawn)
                     [] OTHER -> Stored(t, key)))

-----------------------------------------------------------------------------

\* _putchar writes to the display only while the system owns it.
WriteChar(key) ==
  /\ g_has_display
  /\ text' = Written(text, key, cursor_state)
  /\ UNCHANGED <<g_has_display, cursor_on, cursor_state>>

ToggleCursor ==
  /\ cursor_on /\ g_has_display
  /\ text' = Drawn(text, IF cursor_state THEN BLANK ELSE CURSOR)
  /\ cursor_state' = ~cursor_state
  /\ UNCHANGED <<g_has_display, cursor_on>>

\* enable_cursor, and disable_cursor, which sets cursor_on as well.
EnableCursor ==
  /\ cursor_on' = TRUE
  /\ UNCHANGED <<text, g_has_display, cursor_state>>

\* bios_sys_disable_display.
DisableDisplay ==
  /\ g_has_display
  /\ g_has_display' = FALSE
  /\ cursor_on' = FALSE
  /\ UNCHANGED <<text, cursor_state>>

\* A program draws on the card it has taken over (external).
ProgramDraws ==
  /\ ~g_has_display
  /\ text' = [text EXCEPT !.screen = [c \in Cells |-> PICTURE]]
  /\ UNCHANGED <<g_has_display, cursor_on, cursor_state>>

\* bios_sys_enable_display, also when the system already owns the card.
EnableDisplay ==
  /\ g_has_display' = TRUE
  /\ cursor_on' = TRUE
  /\ text' = [text EXCEPT !.screen = text.buffer]
  /\ UNCHANGED cursor_state

DisplayNext ==
  \/ \E key \in Keys : WriteChar(key)
  \/ ToggleCursor \/ EnableCursor
  \/ DisableDisplay \/ ProgramDraws \/ EnableDisplay

DisplaySpec == DisplayInit /\ [][DisplayNext]_displayVars

-----------------------------------------------------------------------------
(* Properties.                                                             *)

\* While the system owns the card the screen shows the buffer, but for the
\* cursor, which is only at the position and only when it was drawn last: no
\* cursor is left behind by a newline, an erasure, a scroll or a program.
ScreenAgrees ==
  g_has_display =>
    \A c \in Cells :
      \/ text.screen[c] = text.buffer[c]
      \/ c = Cell(text) /\ cursor_state /\ text.screen[c] = CURSOR

\* An erasure takes back the character written before it, across the end of a
\* row and a scroll, which getline relies on when it edits a line.
EraseUndoes ==
  \A ch \in Chars :
    LET t == Written(text, ch, cursor_state)
        u == Written(t, ERASE, cursor_state)
        last == Cell(text) = Width * Height - 1
    IN  /\ u.buffer = IF last THEN Up(text.buffer) ELSE text.buffer
        /\ Cell(u) = IF last THEN Cell(text) - Width ELSE Cell(text)
=============================================================================
