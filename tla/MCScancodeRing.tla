--------------------------- MODULE MCScancodeRing ---------------------------
(* ScancodeRing for TLC: a ring of four slots (three entries), so that it  *)
(* wraps and overflows more than once.                                     *)
EXTENDS ScancodeRing
=============================================================================
