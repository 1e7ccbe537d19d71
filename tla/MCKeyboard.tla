----------------------------- MODULE MCKeyboard -----------------------------
(* Keyboard for TLC: a letter, both shifts, AltGr, both locks and the up   *)
(* arrow; the codes of AltGr and the up arrow follow 0xE0.                 *)
EXTENDS Keyboard

Key(e, c) == [ext |-> e, code |-> c]

MCKeys == {Key(FALSE, KEY_A), Key(FALSE, LSHIFT), Key(FALSE, RSHIFT), Key(FALSE, CAPSLOCK),
           Key(FALSE, NUMLOCK), Key(TRUE, KEY_8), Key(TRUE, ALT)}
=============================================================================
