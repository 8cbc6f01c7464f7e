--------------------------- MODULE MCShellSession ---------------------------
(* Model-checking instances of ShellSession; the constants are in the .cfg. *)
EXTENDS ShellSession
=============================================================================
