--------------------------- MODULE RemoteCommand ---------------------------
(***************************************************************************)
(* What the remote shell promises its user: a command is executed once,    *)
(* its whole output is shown in order, and nothing else, before the next   *)
(* prompt, unless the connection breaks.                                   *)
(***************************************************************************)
EXTENDS Integers

CONSTANTS MaxCommands, MaxLines

VARIABLES
    asked,      \* commands the user has entered
    phase,      \* "prompt", "waiting" or "left"
    result,     \* pieces of output of the current command, once executed
    seen,       \* pieces of it the user has seen
    broken      \* is the connection gone?

vars == <<asked, phase, result, seen, broken>>

NotYet == -1

Init == asked = 0 /\ phase = "prompt" /\ result = NotYet /\ seen = 0 /\ broken = FALSE

Ask ==
    /\ phase = "prompt" /\ asked < MaxCommands
    /\ asked' = asked + 1 /\ phase' = "waiting"
    /\ result' = NotYet /\ seen' = 0
    /\ UNCHANGED broken

\* The user may have left while the command was on its way.
Execute ==
    /\ asked > 0 /\ phase # "prompt" /\ result = NotYet /\ ~broken
    /\ result' \in 0 .. MaxLines
    /\ UNCHANGED <<asked, phase, seen, broken>>

Show ==
    /\ phase = "waiting" /\ result # NotYet
    /\ seen' \in seen .. result
    /\ phase' = "waiting" \/ (seen' = result /\ phase' = "prompt")
    /\ UNCHANGED <<asked, result, broken>>

Break == ~broken /\ broken' = TRUE /\ UNCHANGED <<asked, phase, result, seen>>

GiveUp ==
    /\ broken /\ phase = "waiting"
    /\ phase' = "prompt"
    /\ UNCHANGED <<asked, result, seen, broken>>

Leave ==
    /\ phase' = "left"
    /\ \/ phase # "left" /\ UNCHANGED <<asked, result, seen>>
       \/ phase = "prompt" /\ asked' = asked + 1 /\ result' = NotYet /\ seen' = 0  \* by a command
    /\ UNCHANGED broken

Next == Ask \/ Execute \/ Show \/ Break \/ GiveUp \/ Leave

Spec == Init /\ [][Next]_vars
=============================================================================
