---------------------------- MODULE Descriptors -----------------------------
(***************************************************************************)
(* What the file calls promise a program: a descriptor names one open file *)
(* from the call that returned it to the call that closes it, and a call   *)
(* on one descriptor leaves every other alone.                             *)
(***************************************************************************)
EXTENDS Integers, Functions

CONSTANTS
  FirstFileNumber,  \* the smallest descriptor of a file
  MaxFiles,         \* how many there are
  Files             \* what an open file can be

VARIABLE open       \* the open file of each descriptor in use

Numbers == FirstFileNumber .. FirstFileNumber + MaxFiles - 1

Init == open = [d \in {} |-> 0]

Open ==
  \E d \in Numbers \ DOMAIN open, f \in Files :
    open' = [e \in DOMAIN open \cup {d} |-> IF e = d THEN f ELSE open[e]]

Close == \E d \in DOMAIN open : open' = Restrict(open, DOMAIN open \ {d})

\* Reading, writing and seeking move the position and may extend the file.
Use ==
  \E d \in DOMAIN open, f \in Files :
    /\ f.name = open[d].name /\ f.writable = open[d].writable
    /\ f.size >= open[d].size
    /\ open' = [open EXCEPT ![d] = f]

Next == Open \/ Close \/ Use

Spec == Init /\ [][Next]_open
=============================================================================
