--------------------------- MODULE MCShellServer ---------------------------
(* Model-checking instances of ShellServer; the constants are in the .cfg. *)
EXTENDS ShellServer
=============================================================================
