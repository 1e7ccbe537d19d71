----------------------------- MODULE MCConsole ------------------------------
(* The console and a program on it for TLC: lines of at most two           *)
(* characters, few keys, a short timeout and a count that wraps.           *)
EXTENDS InputRead
=============================================================================
