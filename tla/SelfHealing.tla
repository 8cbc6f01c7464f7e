---------------------------- MODULE SelfHealing ----------------------------
(***************************************************************************)
(* sem1/LR1, main.cpp: the self-healing window.  An instance loads the     *)
(* counter from the state file and deletes the file, counts WM_TIMER       *)
(* messages, and on WM_CLOSE saves the counter and starts the instance     *)
(* that replaces it.  All instances use the same file: its name is         *)
(* relative and a new instance inherits the directory.  The instances are  *)
(* started and terminated from outside, by module Dispatcher.              *)
(***************************************************************************)
EXTENDS Integers

CONSTANTS
    MaxInstances,       \* bound: instances ever started
    MaxCounter          \* bound: what an instance counts to

ASSUME HealingAssumption == MaxInstances \in Nat /\ MaxCounter \in Nat

VARIABLES
    pc,                 \* the point each instance has reached
    g_counter,
    parent,             \* the instance that started it, 0 for none
    warned,             \* shows the message box of a failed CreateNewInstance
    stateFile,          \* Absent, Empty, or the counter saved in it
    opener,             \* the instance that has the file open, or 0
    posted,             \* WM_CLOSE messages: <<instance, window>>
    total               \* history: messages counted outside of message boxes, or
                        \* Unknown once something has happened that may lose them

healVars == <<pc, g_counter, parent, warned, stateFile, opener, posted, total>>

Instances == 1 .. MaxInstances
Absent == -1
Empty == -2
Unknown == -1

\* An instance that has not handed over yet, and one that holds the only copy
\* of the count: it has deleted the file, or has not finished writing it.
Current == {"load", "read", "delete", "register", "loop", "save", "write", "spawn", "box"}
Volatile(p) == pc[p] \in {"register", "loop", "write"} \/ (pc[p] = "save" /\ ~warned[p])
Alive(p) == pc[p] \notin {"none", "dead"}

HealInit ==
    /\ pc = [p \in Instances |-> "none"] /\ g_counter = [p \in Instances |-> 0]
    /\ parent = [p \in Instances |-> 0] /\ warned = [p \in Instances |-> FALSE]
    /\ stateFile = Absent /\ opener = 0 /\ posted = {}
    /\ total = 0

\* (A name with an underscore before a capital is a mutant: a plausible bug in
\* the code that the definition after it models.)

-----------------------------------------------------------------------------
(* Started and terminated from outside. *)

\* Instances are numbered in the order in which they are started.
NextSlot(p) == pc[p] = "none" /\ \A q \in Instances : q < p => pc[q] # "none"

\* CreateProcessW: the process starts with a counter of 0.
Started(p, by) ==
    /\ NextSlot(p)
    /\ parent' = [parent EXCEPT ![p] = by]

\* The memory and the messages of an instance that ends are discarded.
Forget(S) == /\ g_counter' = [p \in Instances |-> IF p \in S THEN 0 ELSE g_counter[p]]
             /\ warned' = [p \in Instances |-> warned[p] /\ p \notin S]
Discard(S) == posted' = {m \in posted : m[1] \notin S}

\* TerminateProcess: the kernel closes the handle of the file, which stays as
\* it is.
Terminated(S) ==
    /\ pc' = [p \in Instances |-> IF p \in S /\ Alive(p) THEN "dead" ELSE pc[p]]
    /\ opener' = IF opener \in S THEN 0 ELSE opener
    /\ Discard(S)
    /\ total' = IF \E p \in S : Volatile(p) THEN Unknown ELSE total
    /\ Forget(S)
    /\ UNCHANGED <<parent, stateFile>>

-----------------------------------------------------------------------------
(* LoadState *)

Goto(p, point) == pc' = [pc EXCEPT ![p] = point]

\* The file is opened without sharing: not while another instance has it open.
\* An instance that cannot open a file that exists counts from 0 beside it.
LoadOpen(p) ==
    /\ pc[p] = "load"
    /\ \/ /\ stateFile # Absent /\ opener = 0
          /\ opener' = p /\ Goto(p, "read") /\ UNCHANGED total
       \/ /\ Goto(p, "register") /\ UNCHANGED opener
          /\ total' = IF stateFile = Absent THEN total ELSE Unknown
    /\ UNCHANGED <<g_counter, parent, warned, stateFile, posted>>

\* A failure of ReadFile is ignored, and leaves the counter at 0.
LoadRead(p) ==
    /\ pc[p] = "read" /\ Goto(p, "delete")
    /\ \/ /\ g_counter' = [g_counter EXCEPT ![p] = IF stateFile = Empty THEN @ ELSE stateFile]
          /\ UNCHANGED total
       \/ total' = Unknown /\ UNCHANGED g_counter
    /\ opener' = 0
    /\ UNCHANGED <<parent, warned, stateFile, posted>>

\* So is one of DeleteFileW, as while another instance has the file open.
LoadDelete(p) ==
    /\ pc[p] = "delete" /\ Goto(p, "register")
    /\ \/ opener = 0 /\ stateFile' = Absent /\ UNCHANGED total
       \/ total' = Unknown /\ UNCHANGED stateFile
    /\ UNCHANGED <<g_counter, parent, warned, opener, posted>>

\* A failure shows a message box and ends the instance; the file is gone.
CreateMainWindow(p) ==
    /\ pc[p] = "register"
    /\ \/ Goto(p, "loop") /\ UNCHANGED total
       \/ Goto(p, "failed") /\ total' = IF total = 0 THEN 0 ELSE Unknown
    /\ UNCHANGED <<g_counter, parent, warned, stateFile, opener, posted>>

-----------------------------------------------------------------------------
(* WindowProc.  The message box of a failed CreateNewInstance has no owner  *)
(* and runs a message loop of its own, in which the window still receives   *)
(* its messages.                                                            *)

Tick(p) ==
    /\ pc[p] \in {"loop", "box"} /\ g_counter[p] < MaxCounter
    /\ g_counter' = [g_counter EXCEPT ![p] = @ + 1]
    /\ total' = IF pc[p] = "loop" /\ total # Unknown THEN total + 1 ELSE total
    /\ UNCHANGED <<pc, parent, warned, stateFile, opener, posted>>

Close_NotSaved(p) ==
    /\ pc[p] \in {"loop", "box"} /\ Goto(p, "spawn")
    /\ posted' = posted \ {<<p, "main">>}
    /\ UNCHANGED <<g_counter, parent, warned, stateFile, opener, total>>

Close(p) ==
    /\ pc[p] \in {"loop", "box"} /\ Goto(p, "save")
    /\ posted' = posted \ {<<p, "main">>}
    /\ UNCHANGED <<g_counter, parent, warned, stateFile, opener, total>>

\* CREATE_ALWAYS truncates the file; a failure to open it is ignored.
SaveOpen(p) ==
    /\ pc[p] = "save"
    /\ \/ opener = 0 /\ opener' = p /\ stateFile' = Empty /\ Goto(p, "write") /\ UNCHANGED total
       \/ Goto(p, "spawn") /\ total' = Unknown /\ UNCHANGED <<opener, stateFile>>
    /\ UNCHANGED <<g_counter, parent, warned, posted>>

\* So is a failure to write it.
SaveWrite(p) ==
    /\ pc[p] = "write" /\ Goto(p, "spawn")
    /\ opener' = 0
    /\ \/ stateFile' = g_counter[p] /\ UNCHANGED total
       \/ stateFile' = Empty /\ total' = Unknown
    /\ UNCHANGED <<g_counter, parent, warned, posted>>

CreateNewInstance_WindowKept(p) ==
    /\ pc[p] = "spawn"
    /\ \/ \E q \in Instances : /\ Started(q, p)
                               /\ pc' = [pc EXCEPT ![p] = "box", ![q] = "load"]
                               /\ warned' = [warned EXCEPT ![p] = TRUE]
       \/ Goto(p, "box") /\ warned' = [warned EXCEPT ![p] = TRUE] /\ UNCHANGED parent
    /\ UNCHANGED <<g_counter, stateFile, opener, posted, total>>

\* Success is followed by DestroyWindow at once, a failure by a message box.
CreateNewInstance(p) ==
    /\ pc[p] = "spawn"
    /\ \/ \E q \in Instances : /\ Started(q, p)
                               /\ pc' = [pc EXCEPT ![p] = "quit", ![q] = "load"]
                               /\ UNCHANGED warned
       \/ Goto(p, "box") /\ warned' = [warned EXCEPT ![p] = TRUE] /\ UNCHANGED parent
    /\ UNCHANGED <<g_counter, stateFile, opener, posted, total>>

DismissBox(p) ==
    /\ pc[p] \in {"box", "failed"} /\ Goto(p, "quit")
    /\ posted' = posted \ {<<p, "box">>}
    /\ UNCHANGED <<g_counter, parent, warned, stateFile, opener, total>>

\* DestroyWindow posts WM_QUIT, which ends every loop, and WinMain returns.
Quit(p) ==
    /\ pc[p] = "quit" /\ Goto(p, "dead")
    /\ Discard({p}) /\ Forget({p})
    /\ UNCHANGED <<parent, stateFile, opener, total>>

\* What an instance does by itself, and what its user does.
Runs(p) == \/ LoadOpen(p) \/ LoadRead(p) \/ LoadDelete(p) \/ CreateMainWindow(p)
           \/ SaveOpen(p) \/ SaveWrite(p) \/ CreateNewInstance(p) \/ Quit(p)
User(p) == Close(p) \/ DismissBox(p)
Instance(p) == Runs(p) \/ User(p) \/ Tick(p)

-----------------------------------------------------------------------------
(* Properties. *)

HealTypeOK ==
    /\ pc \in [Instances -> Current \cup {"none", "failed", "quit", "dead"}]
    /\ g_counter \in [Instances -> 0 .. MaxCounter]
    /\ parent \in [Instances -> 0 .. MaxInstances] /\ warned \in [Instances -> BOOLEAN]
    /\ stateFile \in {Absent, Empty} \cup 0 .. MaxCounter
    /\ opener \in 0 .. MaxInstances
    /\ posted \subseteq Instances \X {"main", "box"}
    /\ total \in Nat \cup {Unknown}

\* However often a window is closed while a message box is shown, an instance
\* starts at most one that replaces it, and only then does it end its loop.
OneHeir ==
    /\ \A p, q \in Instances : parent[p] = parent[q] /\ parent[p] # 0 => p = q
    /\ \A q \in Instances : parent[q] # 0 => pc[parent[q]] \in {"quit", "dead"}

\* The file is open only inside LoadState and SaveState, by one instance.
OpenedByOne == opener # 0 => pc[opener] \in {"read", "write"}

\* As long as every call on the file succeeds (a file that exists is opened, read
\* and deleted, and each save opens and writes it), no window that has loaded a
\* count fails to open, no second instance is started beside a current one and
\* none is killed at the moment it holds the only copy, no message a window
\* counted is lost: the count is in one place, the memory of the only current
\* instance or the file, from which the next one takes it, also when that is
\* started by hand after CreateNewInstance has failed.
CountKept ==
    total # Unknown =>
        /\ \A p, q \in Instances : pc[p] \in Current /\ pc[q] \in Current => p = q
        /\ \A p \in Instances :
              Volatile(p) => /\ g_counter[p] >= total
                             /\ stateFile = IF pc[p] = "write" THEN Empty ELSE Absent
        /\ (\A p \in Instances : ~Volatile(p)) =>
              stateFile >= total \/ (stateFile = Absent /\ total = 0)
=============================================================================
