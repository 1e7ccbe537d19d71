----------------------------- MODULE MCDisplay ------------------------------
(* Display for TLC: three columns, three rows, two characters.             *)
EXTENDS Display
=============================================================================
