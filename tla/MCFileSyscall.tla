--------------------------- MODULE MCFileSyscall ----------------------------
(* FileSyscall for TLC: three entries, in a heap with room for three file  *)
(* objects, or for two when a display buffer was allocated first.          *)
EXTENDS FileSyscall

MCOffsets == {-1, 2}
=============================================================================
