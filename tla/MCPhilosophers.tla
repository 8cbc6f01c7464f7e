--------------------------- MODULE MCPhilosophers ---------------------------
(* Model-checking instances of Philosophers; the constants are in the .cfg. *)
EXTENDS Philosophers
=============================================================================
