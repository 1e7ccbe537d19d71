------------------------------ MODULE MCDiskIO ------------------------------
(* DiskIO for TLC: one drive of three sectors that needs two registers to  *)
(* address, transfers of up to two sectors, and any answer of the drive.   *)
EXTENDS DiskIO
=============================================================================
