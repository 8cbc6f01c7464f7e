----------------------------- MODULE Dispatcher -----------------------------
(***************************************************************************)
(* sem1/LR1, main2.cpp: the dispatcher, composed with the self-healing     *)
(* windows it starts.  Its list has an entry for each process it has       *)
(* started; a timer marks those that have ended, also while a dialog of    *)
(* the dispatcher is open, since a dialog dispatches messages; only the    *)
(* buttons are out of reach then.  A self-healing window that is closed    *)
(* replaces itself by a process that is not in the list.                   *)
(***************************************************************************)
EXTENDS SelfHealing, Sequences

CONSTANT
    MaxStarts           \* bound: processes started by the dispatcher

ASSUME DispatcherAssumption == MaxStarts \in Nat

VARIABLES
    children,           \* g_childProcesses
    dialog,             \* "confirm", "none", or "closed" for the dispatcher itself
    target              \* the entry OnTerminateProcess has a reference to

vars == <<healVars, children, dialog, target>>

Entries == 1 .. Len(children)

Init == HealInit /\ children = << >> /\ dialog = "none" /\ target = 0

-----------------------------------------------------------------------------
(* OnStartProcess.  A dialog that changes nothing when it is answered, the    *)
(* choice of a file and the messages, is the time before the next button.    *)

\* The instance starts in the directory of the file, which the dialog has made
\* the current one.  The count is at stake once two instances use one file.
StartProcess ==
    /\ dialog = "none" /\ Len(children) < MaxStarts
    /\ \E p \in Instances :
          /\ Started(p, 0) /\ Goto(p, "load")
          /\ children' = Append(children, [pid |-> p, isRunning |-> TRUE,
                                           hProcess |-> "open", mainWnd |-> "NULL"])
    /\ total' = IF \E q \in Instances : pc[q] \in Current THEN Unknown ELSE total
    /\ UNCHANGED <<g_counter, warned, stateFile, opener, posted, dialog, target>>

-----------------------------------------------------------------------------
(* OnTerminateProcess *)

\* The visible top-level windows of a process; "box" is a message box.
Windows(p) ==
    (IF pc[p] \in {"loop", "save", "write", "spawn", "box"} THEN {"main"} ELSE {}) \cup
    (IF pc[p] = "failed" \/ (warned[p] /\ pc[p] \in Current) THEN {"box"} ELSE {})

\* PostMessageW to a window that is gone fails.
Post(p, w) == posted' = IF w \in Windows(p) THEN posted \cup {<<p, w>>} ELSE posted

FindWindow(i) ==
    LET found == Windows(children[i].pid)
    IN  IF children[i].mainWnd # "NULL" THEN {children[i].mainWnd}
        ELSE IF found = {} THEN {"NULL"} ELSE found

TerminateProcess ==
    /\ dialog = "none"
    /\ \E i \in Entries :
          /\ children[i].isRunning
          /\ \E w \in FindWindow(i) :
                /\ children' = [children EXCEPT ![i].mainWnd = w]
                /\ IF w # "NULL"
                     THEN Post(children[i].pid, w) /\ UNCHANGED <<dialog, target>>
                     ELSE dialog' = "confirm" /\ target' = i /\ UNCHANGED posted
    /\ UNCHANGED <<pc, g_counter, parent, warned, stateFile, opener, total>>

\* The answer; with a null handle TerminateProcess fails.
Confirm ==
    /\ dialog = "confirm"
    /\ dialog' = "none" /\ target' = 0
    /\ \/ UNCHANGED healVars
       \/ children[target].hProcess # "NULL" /\ Terminated({children[target].pid})
    /\ UNCHANGED children

-----------------------------------------------------------------------------
(* The timer and the end. *)

HasEnded(c) == c.isRunning /\ pc[c.pid] = "dead"

Update_HandleKept(c) == [c EXCEPT !.isRunning = FALSE, !.hProcess = "closed"]
Update(c) == [c EXCEPT !.isRunning = FALSE, !.hProcess = "NULL"]

UpdateProcessList_StopsAtFirst ==
    /\ dialog # "closed" /\ Entries # {} /\ HasEnded(children[1])
    /\ children' = [children EXCEPT ![1] = Update(@)]
    /\ UNCHANGED <<healVars, dialog, target>>

UpdateProcessList ==
    /\ dialog # "closed" /\ \E i \in Entries : HasEnded(children[i])
    /\ children' = [i \in Entries |-> IF HasEnded(children[i]) THEN Update(children[i])
                                                               ELSE children[i]]
    /\ UNCHANGED <<healVars, dialog, target>>

Running == {children[i].pid : i \in {j \in Entries : children[j].isRunning}}

Destroy_LeavesChildren ==
    /\ dialog = "none" /\ dialog' = "closed"
    /\ children' = [i \in Entries |-> IF children[i].isRunning
                                        THEN [children[i] EXCEPT !.hProcess = "closed"]
                                        ELSE children[i]]
    /\ UNCHANGED <<healVars, target>>

\* WM_DESTROY terminates the processes that are marked as running.
Destroy ==
    /\ dialog = "none" /\ dialog' = "closed"
    /\ Terminated(Running)
    /\ children' = [i \in Entries |-> IF children[i].isRunning
                                        THEN [children[i] EXCEPT !.hProcess = "closed"]
                                        ELSE children[i]]
    /\ UNCHANGED target

Window == StartProcess \/ TerminateProcess \/ Confirm \/ Destroy

Step(p) == Instance(p) /\ UNCHANGED <<children, dialog, target>>

Next == Window \/ UpdateProcessList \/ \E p \in Instances : Step(p)

Spec == Init /\ [][Next]_vars

\* The thread of an instance runs, and dispatches a WM_CLOSE that was posted; so
\* does the timer of the dispatcher.  What users do need not happen.
Served(p) ==
    /\ \/ Runs(p)
       \/ <<p, "main">> \in posted /\ Close(p)
       \/ <<p, "box">> \in posted /\ DismissBox(p)
    /\ UNCHANGED <<children, dialog, target>>

FairSpec == /\ Spec /\ WF_vars(UpdateProcessList)
            /\ \A p \in Instances : WF_vars(Served(p))

-----------------------------------------------------------------------------
(* Properties. *)

Entry == [pid : Instances, isRunning : BOOLEAN, hProcess : {"open", "closed", "NULL"},
          mainWnd : {"NULL", "main", "box"}]

TypeOK ==
    /\ HealTypeOK
    /\ children \in Seq(Entry)
    /\ dialog \in {"none", "confirm", "closed"}
    /\ target \in 0 .. Len(children)
    /\ dialog = "confirm" => target # 0

\* No handle that was closed is used or closed again, although the timer runs
\* while OnTerminateProcess waits for an answer with its reference in hand.
HandlesValid ==
    \A i \in Entries :
        /\ children[i].hProcess = "open" => children[i].isRunning
        /\ children[i].hProcess = "closed" => dialog = "closed"

\* What outlives the dispatcher was not started by it, but by a self-healing
\* window that was closed.
OnlyHeirsLeft ==
    dialog = "closed" => \A p \in Instances : Alive(p) => parent[p] # 0

\* A window that was sent WM_CLOSE by the dispatcher ends, and the list says so
\* unless the dispatcher has been closed; or it could not be replaced, and waits
\* for its user in a message box.
CloseIsSeen ==
    \A p \in Instances :
        (\E w \in {"main", "box"} : <<p, w>> \in posted)
            ~> \/ dialog = "closed" \/ pc[p] = "box"
               \/ \A i \in Entries : children[i].pid = p => ~children[i].isRunning
=============================================================================
