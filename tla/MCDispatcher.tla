---------------------------- MODULE MCDispatcher ----------------------------
(***************************************************************************)
(* Instance of Dispatcher.  With two processes the dispatcher starts both, *)
(* or one and it is replaced; a counter of 0 or 1 tells a count that was   *)
(* kept from one that was lost.  The constants are in the .cfg.            *)
(***************************************************************************)
EXTENDS Dispatcher, TLC
=============================================================================
