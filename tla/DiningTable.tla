---------------------------- MODULE DiningTable ----------------------------
(***************************************************************************)
(* What the dining philosophers program promises, whatever its strategy:   *)
(* a philosopher sits down only while the table is open, neighbours never  *)
(* eat at the same time, and a philosopher who sat down leaves either fed  *)
(* or unfed.  Closing the table admits nobody new, but lets those who sit  *)
(* there finish.  Module Philosophers implements it.                       *)
(***************************************************************************)
EXTENDS Integers

CONSTANT
    NumPhilosophers     \* philosophers sit in a ring, numbered from 0

VARIABLES
    open,               \* are philosophers still admitted?
    seat                \* where each philosopher is

vars == <<open, seat>>

Philosophers == 0 .. NumPhilosophers - 1

\* In the ring every philosopher has the next one at the right.
Neighbours(p, q) == q = (p + 1) % NumPhilosophers \/ p = (q + 1) % NumPhilosophers

Init == open = TRUE /\ seat = [p \in Philosophers |-> "away"]

SitDown(p) ==
    /\ open
    /\ seat[p] = "away"
    /\ seat' = [seat EXCEPT ![p] = "hungry"]
    /\ UNCHANGED open

StartEating(p) ==
    /\ seat[p] = "hungry"
    /\ \A q \in Philosophers : Neighbours(p, q) => seat[q] # "eating"
    /\ seat' = [seat EXCEPT ![p] = "eating"]
    /\ UNCHANGED open

Leave(p) ==
    /\ seat[p] \in {"hungry", "eating"}
    /\ seat' = [seat EXCEPT ![p] = "away"]
    /\ UNCHANGED open

Close == open /\ open' = FALSE /\ UNCHANGED seat

Next == Close \/ \E p \in Philosophers : SitDown(p) \/ StartEating(p) \/ Leave(p)

Spec == Init /\ [][Next]_vars
=============================================================================
