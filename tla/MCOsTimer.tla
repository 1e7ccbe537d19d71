----------------------------- MODULE MCOsTimer ------------------------------
(* OsTimer for TLC: two entries, a count that wraps after a few ticks.     *)
EXTENDS OsTimer
=============================================================================
