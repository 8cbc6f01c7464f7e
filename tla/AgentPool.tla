----------------------------- MODULE AgentPool -----------------------------
(***************************************************************************)
(* What the file-system analyzer promises of its agents: every directory   *)
(* is given to at most one agent, at most Limit agents exist at a time,    *)
(* and the program closes only when none is left.                          *)
(***************************************************************************)
EXTENDS Integers, FiniteSets

CONSTANTS Dirs, Limit

VARIABLES working, finished, closed

vars == <<working, finished, closed>>

Init == working = {} /\ finished = {} /\ closed = FALSE

Start(d) ==
    /\ ~closed
    /\ d \notin working \cup finished
    /\ Cardinality(working) < Limit
    /\ working' = working \cup {d}
    /\ UNCHANGED <<finished, closed>>

Finish(d) ==
    /\ d \in working
    /\ working' = working \ {d}
    /\ finished' = finished \cup {d}
    /\ UNCHANGED closed

Close ==
    /\ ~closed /\ working = {}
    /\ closed' = TRUE
    /\ UNCHANGED <<working, finished>>

Next == Close \/ \E d \in Dirs : Start(d) \/ Finish(d)

Spec == Init /\ [][Next]_vars
=============================================================================
