------------------------------- MODULE MCHeap -------------------------------
(* Heap for TLC: a pool of a few units that splits, merges, runs out of    *)
(* memory and runs out of descriptors.                                     *)
EXTENDS Heap
=============================================================================
