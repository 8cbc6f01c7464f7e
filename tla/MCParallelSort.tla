--------------------------- MODULE MCParallelSort ---------------------------
(* Model-checking instance of ParallelSort; the constants are in the .cfg. *)
EXTENDS ParallelSort
=============================================================================
