--------------------------- MODULE MCOverlappedIO ---------------------------
(* Model-checking instance of OverlappedIO; the constants are in the .cfg. *)
EXTENDS OverlappedIO
=============================================================================
