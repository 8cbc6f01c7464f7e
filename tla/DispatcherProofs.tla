-------------------------- MODULE DispatcherProofs --------------------------
(***************************************************************************)
(* Proofs about Dispatcher, for every number of processes.                 *)
(***************************************************************************)
EXTENDS Dispatcher, TLAPS

\* Who has the file open, and what is in it meanwhile.
FileInv ==
    /\ \A p \in Instances : pc[p] \in {"read", "write"} <=> opener = p
    /\ \A p \in Instances : pc[p] = "read" => stateFile # Absent
    /\ \A p \in Instances : pc[p] = "write" => stateFile = Empty

\* The list says of a process that it has ended only when it has, whatever has
\* happened to its windows, and it lists no process the dispatcher did not start.
ListTrue ==
    \A i \in Entries :
        /\ ~children[i].isRunning => pc[children[i].pid] = "dead"
        /\ pc[children[i].pid] # "none" /\ parent[children[i].pid] = 0

\* What has not been started has no parent, and what the dispatcher has started
\* is in its list.
HeirInv ==
    /\ \A p \in Instances : pc[p] = "none" => parent[p] = 0
    /\ \A p \in Instances : pc[p] # "none" /\ parent[p] = 0
                                => \E i \in Entries : children[i].pid = p

\* Where a message box of CreateNewInstance may be shown.
WarnedInv ==
    \A p \in Instances :
        /\ warned[p] => pc[p] \in {"save", "write", "spawn", "box", "quit"}
        /\ pc[p] = "box" => warned[p]

\* The count in memory, from the moment it has been loaded.
CountInv ==
    total # Unknown =>
        \A p \in Instances :
            pc[p] \in {"delete", "register", "loop", "save", "write", "spawn", "box"}
                => g_counter[p] >= total

IInv ==
    /\ TypeOK /\ FileInv /\ HeirInv /\ WarnedInv /\ CountInv
    /\ OneHeir /\ CountKept /\ HandlesValid /\ ListTrue /\ OnlyHeirsLeft

-----------------------------------------------------------------------------
LEMMA InitIInv == Init => IInv
<1> SUFFICES ASSUME Init PROVE IInv
    OBVIOUS
<1> USE HealingAssumption, DispatcherAssumption DEF Init, HealInit, Absent, Unknown, Empty
<1>1. Entries = {} BY DEF Entries
<1>2. TypeOK
  <2>1. HealTypeOK BY DEF HealTypeOK
  <2> QED BY <1>1, <2>1 DEF TypeOK
<1>3. FileInv BY DEF FileInv, Instances
<1>4. HeirInv /\ OneHeir BY DEF HeirInv, OneHeir
<1>5. WarnedInv /\ CountInv BY DEF WarnedInv, CountInv
<1>6. CountKept BY DEF CountKept, Current, Volatile
<1>7. HandlesValid /\ ListTrue /\ OnlyHeirsLeft
  BY <1>1 DEF HandlesValid, ListTrue, OnlyHeirsLeft
<1> QED BY <1>2, <1>3, <1>4, <1>5, <1>6, <1>7 DEF IInv

-----------------------------------------------------------------------------
(* The steps of an instance.  What the list says is not disturbed by one that *)
(* neither starts an instance nor revives one.                                *)

LEMMA OwnStep ==
    ASSUME IInv, NEW p \in Instances, NEW to,
           pc[p] \notin {"none", "dead"}, to # "none",
           pc[p] = "quit" => to = "dead",
           pc' = [pc EXCEPT ![p] = to],
           UNCHANGED <<parent, children, dialog, target>>
    PROVE  /\ \A q \in Instances : pc'[q] = IF q = p THEN to ELSE pc[q]
           /\ HeirInv' /\ OneHeir' /\ HandlesValid' /\ ListTrue' /\ OnlyHeirsLeft'
<1> USE DEF IInv
<1>1. \A q \in Instances : pc'[q] = IF q = p THEN to ELSE pc[q]
  BY DEF TypeOK, HealTypeOK
<1>2. \A i \in Entries : children[i].pid \in Instances
  <2>1. children \in Seq(Entry) BY DEF TypeOK
  <2>2. \A i \in Entries : children[i] \in Entry BY <2>1 DEF Entries
  <2> QED BY <2>2 DEF Entry
<1>3. parent \in [Instances -> 0 .. MaxInstances]
  BY DEF TypeOK, HealTypeOK
<1>4. HeirInv' BY <1>1 DEF HeirInv, Entries
<1>5. OneHeir'
  <2>1. \A q \in Instances : parent[q] # 0 => parent[q] \in Instances
    BY <1>3, HealingAssumption DEF Instances
  <2> QED BY <1>1, <2>1 DEF OneHeir
<1>6. HandlesValid' BY DEF HandlesValid, Entries
<1>7. ListTrue' BY <1>1, <1>2 DEF ListTrue, Entries
<1>8. OnlyHeirsLeft' BY <1>1 DEF OnlyHeirsLeft, Alive
<1> QED BY <1>1, <1>4, <1>5, <1>6, <1>7, <1>8

LEMMA LoadReadStep == ASSUME IInv, NEW p \in Instances, Step(p), LoadRead(p) PROVE IInv'
<1> USE HealingAssumption DEF IInv, TypeOK, LoadRead, Goto, Step, Absent, Empty, Unknown
<1>1. /\ \A q \in Instances : pc'[q] = IF q = p THEN "delete" ELSE pc[q]
      /\ HeirInv' /\ OneHeir' /\ HandlesValid' /\ ListTrue' /\ OnlyHeirsLeft'
  BY OwnStep
<1>a. \A q \in Instances : q # 0 BY DEF Instances
<1> USE <1>1, <1>a
<1>b. g_counter' \in [Instances -> 0 .. MaxCounter]
  <2>1. stateFile # Empty => stateFile \in 0 .. MaxCounter BY DEF FileInv, HealTypeOK
  <2> QED BY <2>1 DEF HealTypeOK
<1>c. pc' \in [Instances -> Current \cup {"none", "failed", "quit", "dead"}]
  BY DEF HealTypeOK, Current
<1>d. total' \in Nat \cup {-1} /\ opener' \in 0 .. MaxInstances BY DEF HealTypeOK
<1>2. TypeOK'
  <2>1. /\ parent' = parent /\ warned' = warned /\ stateFile' = stateFile /\ posted' = posted
        /\ children' = children /\ dialog' = dialog /\ target' = target
    OBVIOUS
  <2> QED BY <1>b, <1>c, <1>d, <2>1 DEF HealTypeOK
<1>3. FileInv' BY DEF FileInv, HealTypeOK
<1>4. WarnedInv' BY DEF WarnedInv
<1>5. CountInv' BY DEF CountInv, FileInv, CountKept, HealTypeOK, Volatile
<1>6. CountKept' BY DEF CountKept, CountInv, FileInv, WarnedInv, HealTypeOK, Current, Volatile
<1> QED BY <1>2, <1>3, <1>4, <1>5, <1>6

LEMMA LoadDeleteStep == ASSUME IInv, NEW p \in Instances, Step(p), LoadDelete(p) PROVE IInv'
<1> USE HealingAssumption DEF IInv, TypeOK, LoadDelete, Goto, Step, Absent, Empty, Unknown
<1>1. /\ \A q \in Instances : pc'[q] = IF q = p THEN "register" ELSE pc[q]
      /\ HeirInv' /\ OneHeir' /\ HandlesValid' /\ ListTrue' /\ OnlyHeirsLeft'
  BY OwnStep
<1>a. \A q \in Instances : q # 0 BY DEF Instances
<1> USE <1>1, <1>a
<1>2. TypeOK' BY DEF HealTypeOK, Current
<1>3. FileInv' BY DEF FileInv, HealTypeOK
<1>4. WarnedInv' BY DEF WarnedInv
<1>5. CountInv' BY DEF CountInv, FileInv, CountKept, HealTypeOK, Volatile
<1>6. CountKept'
  <2> SUFFICES ASSUME total' # Unknown PROVE CountKept'
    BY DEF CountKept
  <2>0. total' = total /\ stateFile' = Absent OBVIOUS
  <2>1. \A q \in Instances : pc[q] \in Current => q = p
    BY <2>0 DEF CountKept, Current
  <2>2. opener = 0
    <3>1. opener = 0 \/ opener \in Instances BY DEF HealTypeOK, Instances
    <3>2. opener \in Instances => pc[opener] \in {"read", "write"}
      BY DEF FileInv
    <3> QED BY <2>1, <3>1, <3>2 DEF Current
  <2>3. \A q \in Instances : Volatile(q)' <=> q = p
    BY <2>1 DEF Volatile, Current
  <2>4. g_counter[p] >= total BY <2>0 DEF CountInv
  <2>5. \A q \in Instances : pc'[q] \in Current => q = p
    BY <2>1
  <2> QED BY <2>0, <2>2, <2>3, <2>4, <2>5 DEF CountKept
<1> QED BY <1>2, <1>3, <1>4, <1>5, <1>6

LEMMA CloseStep == ASSUME IInv, NEW p \in Instances, Step(p), Close(p) PROVE IInv'
<1> USE HealingAssumption DEF IInv, TypeOK, Close, Goto, Step, Absent, Empty, Unknown
<1>1. /\ \A q \in Instances : pc'[q] = IF q = p THEN "save" ELSE pc[q]
      /\ HeirInv' /\ OneHeir' /\ HandlesValid' /\ ListTrue' /\ OnlyHeirsLeft'
  BY OwnStep
<1>a. \A q \in Instances : q # 0 BY DEF Instances
<1> USE <1>1, <1>a
<1>2. TypeOK' BY DEF HealTypeOK, Current
<1>3. FileInv' BY DEF FileInv, HealTypeOK
<1>4. WarnedInv' BY DEF WarnedInv
<1>5. CountInv' BY DEF CountInv, FileInv, CountKept, HealTypeOK, Volatile
<1>6. CountKept'
  <2> SUFFICES ASSUME total # Unknown PROVE CountKept'
    BY DEF CountKept
  <2>1. \A q \in Instances : pc[q] \in Current <=> pc'[q] \in Current
    BY DEF Current
  <2>2. \A q \in Instances : Volatile(q) <=> Volatile(q)'
    BY DEF Volatile, WarnedInv
  <2>3. \A q \in Instances : Volatile(q) => (pc[q] = "write" <=> pc'[q] = "write")
    BY DEF Volatile
  <2> QED BY <2>1, <2>2, <2>3 DEF CountKept
<1> QED BY <1>2, <1>3, <1>4, <1>5, <1>6

LEMMA SaveWriteStep == ASSUME IInv, NEW p \in Instances, Step(p), SaveWrite(p) PROVE IInv'
<1> USE HealingAssumption DEF IInv, TypeOK, SaveWrite, Goto, Step, Absent, Empty, Unknown
<1>1. /\ \A q \in Instances : pc'[q] = IF q = p THEN "spawn" ELSE pc[q]
      /\ HeirInv' /\ OneHeir' /\ HandlesValid' /\ ListTrue' /\ OnlyHeirsLeft'
  BY OwnStep
<1>a. \A q \in Instances : q # 0 BY DEF Instances
<1> USE <1>1, <1>a
<1>2. TypeOK' BY DEF HealTypeOK, Current
<1>3. FileInv' BY DEF FileInv, HealTypeOK
<1>4. WarnedInv' BY DEF WarnedInv
<1>5. CountInv' BY DEF CountInv, FileInv, CountKept, HealTypeOK, Volatile
<1>6. CountKept' BY DEF CountKept, CountInv, FileInv, WarnedInv, HealTypeOK, Current, Volatile
<1> QED BY <1>2, <1>3, <1>4, <1>5, <1>6

LEMMA DismissBoxStep == ASSUME IInv, NEW p \in Instances, Step(p), DismissBox(p) PROVE IInv'
<1> USE HealingAssumption DEF IInv, TypeOK, DismissBox, Goto, Step, Absent, Empty, Unknown
<1>1. /\ \A q \in Instances : pc'[q] = IF q = p THEN "quit" ELSE pc[q]
      /\ HeirInv' /\ OneHeir' /\ HandlesValid' /\ ListTrue' /\ OnlyHeirsLeft'
  BY OwnStep
<1>a. \A q \in Instances : q # 0 BY DEF Instances
<1> USE <1>1, <1>a
<1>2. TypeOK' BY DEF HealTypeOK, Current
<1>3. FileInv' BY DEF FileInv, HealTypeOK
<1>4. WarnedInv' BY DEF WarnedInv
<1>5. CountInv' BY DEF CountInv, FileInv, CountKept, HealTypeOK, Volatile
<1>6. CountKept' BY DEF CountKept, CountInv, FileInv, WarnedInv, HealTypeOK, Current, Volatile
<1> QED BY <1>2, <1>3, <1>4, <1>5, <1>6

LEMMA QuitStep == ASSUME IInv, NEW p \in Instances, Step(p), Quit(p) PROVE IInv'
<1> USE HealingAssumption DEF Forget, Discard, IInv, TypeOK, Quit, Goto, Step, Absent, Empty, Unknown
<1>1. /\ \A q \in Instances : pc'[q] = IF q = p THEN "dead" ELSE pc[q]
      /\ HeirInv' /\ OneHeir' /\ HandlesValid' /\ ListTrue' /\ OnlyHeirsLeft'
  BY OwnStep
<1>a. \A q \in Instances : q # 0 BY DEF Instances
<1> USE <1>1, <1>a
<1>2. TypeOK' BY DEF HealTypeOK, Current
<1>3. FileInv' BY DEF FileInv, HealTypeOK
<1>4. WarnedInv'
  <2>1. \A q \in Instances : warned'[q] <=> (warned[q] /\ q # p)
    OBVIOUS
  <2> QED BY <2>1 DEF WarnedInv
<1>5. CountInv' BY DEF CountInv, FileInv, CountKept, HealTypeOK, Volatile
<1>6. CountKept' BY DEF CountKept, CountInv, FileInv, WarnedInv, HealTypeOK, Current, Volatile
<1> QED BY <1>2, <1>3, <1>4, <1>5, <1>6

LEMMA LoadOpenStep == ASSUME IInv, NEW p \in Instances, Step(p), LoadOpen(p) PROVE IInv'
<1> USE HealingAssumption DEF IInv, TypeOK, LoadOpen, Goto, Step, Absent, Empty, Unknown
<1>1. CASE stateFile # Absent /\ opener = 0 /\ opener' = p /\ Goto(p, "read") /\ UNCHANGED total
  <2>1. /\ \A q \in Instances : pc'[q] = IF q = p THEN "read" ELSE pc[q]
        /\ HeirInv' /\ OneHeir' /\ HandlesValid' /\ ListTrue' /\ OnlyHeirsLeft'
    BY <1>1, OwnStep
  <2>a. \A q \in Instances : q # 0 BY DEF Instances
  <2> USE <1>1, <2>1, <2>a
  <2>b. pc' = [pc EXCEPT ![p] = "read"] /\ opener' = p BY <1>1
  <2>c. p \in 0 .. MaxInstances BY DEF Instances
  <2>2. TypeOK'
    <3>1. HealTypeOK' BY <2>b, <2>c DEF HealTypeOK, Current
    <3> QED BY <3>1
  <2>3. FileInv' BY DEF FileInv, HealTypeOK
  <2>4. WarnedInv' BY DEF WarnedInv
  <2>5. CountInv' BY DEF CountInv, FileInv, CountKept, HealTypeOK, Volatile
  <2>6. CountKept' BY DEF CountKept, CountInv, FileInv, WarnedInv, HealTypeOK, Current, Volatile
  <2> QED BY <2>2, <2>3, <2>4, <2>5, <2>6
<1>2. CASE /\ Goto(p, "register") /\ UNCHANGED opener
           /\ total' = IF stateFile = Absent THEN total ELSE Unknown
  <2>1. /\ \A q \in Instances : pc'[q] = IF q = p THEN "register" ELSE pc[q]
        /\ HeirInv' /\ OneHeir' /\ HandlesValid' /\ ListTrue' /\ OnlyHeirsLeft'
    BY <1>2, OwnStep
  <2>a. \A q \in Instances : q # 0 BY DEF Instances
  <2> USE <1>2, <2>1, <2>a
  <2>2. TypeOK' BY DEF HealTypeOK, Current
  <2>3. FileInv' BY DEF FileInv, HealTypeOK
  <2>4. WarnedInv' BY DEF WarnedInv
  <2>b. ASSUME total' # Unknown
        PROVE  /\ \A q \in Instances : pc[q] \in Current => q = p
               /\ stateFile = Absent /\ total = 0 /\ total' = total
    <3>1. stateFile = Absent /\ total' = total BY <2>b
    <3>2. \A q \in Instances : pc[q] \in Current => q = p
      BY <2>b, <3>1 DEF CountKept, Current
    <3>3. \A q \in Instances : ~Volatile(q) BY <3>2 DEF Volatile, Current
    <3> QED BY <2>b, <3>1, <3>2, <3>3 DEF CountKept, HealTypeOK
  <2>5. CountInv'
    <3> SUFFICES ASSUME total' # Unknown PROVE CountInv'
      BY DEF CountInv
    <3> QED BY <2>b DEF CountInv, Current, HealTypeOK
  <2>6. CountKept'
    <3> SUFFICES ASSUME total' # Unknown PROVE CountKept'
      BY DEF CountKept
    <3>1. \A q \in Instances : pc'[q] \in Current => q = p BY <2>b
    <3>2. \A q \in Instances : Volatile(q)' <=> q = p
      BY <2>b DEF Volatile, Current
    <3> QED BY <2>b, <2>2, <3>1, <3>2 DEF CountKept, HealTypeOK
  <2> QED BY <2>2, <2>3, <2>4, <2>5, <2>6
<1> QED BY <1>1, <1>2

LEMMA CreateMainWindowStep == ASSUME IInv, NEW p \in Instances, Step(p), CreateMainWindow(p) PROVE IInv'
<1> USE HealingAssumption DEF IInv, TypeOK, CreateMainWindow, Goto, Step, Absent, Empty, Unknown
<1>1. CASE Goto(p, "loop") /\ UNCHANGED total
  <2>1. /\ \A q \in Instances : pc'[q] = IF q = p THEN "loop" ELSE pc[q]
        /\ HeirInv' /\ OneHeir' /\ HandlesValid' /\ ListTrue' /\ OnlyHeirsLeft'
    BY <1>1, OwnStep
  <2>a. \A q \in Instances : q # 0 BY DEF Instances
  <2> USE <1>1, <2>1, <2>a
  <2>2. TypeOK' BY DEF HealTypeOK, Current
  <2>3. FileInv' BY DEF FileInv, HealTypeOK
  <2>4. WarnedInv' BY DEF WarnedInv
  <2>5. CountInv' BY DEF CountInv, FileInv, CountKept, HealTypeOK, Volatile
  <2>6. CountKept' BY DEF CountKept, CountInv, FileInv, WarnedInv, HealTypeOK, Current, Volatile
  <2> QED BY <2>2, <2>3, <2>4, <2>5, <2>6
<1>2. CASE Goto(p, "failed") /\ total' = IF total = 0 THEN 0 ELSE Unknown
  <2>1. /\ \A q \in Instances : pc'[q] = IF q = p THEN "failed" ELSE pc[q]
        /\ HeirInv' /\ OneHeir' /\ HandlesValid' /\ ListTrue' /\ OnlyHeirsLeft'
    BY <1>2, OwnStep
  <2>a. \A q \in Instances : q # 0 BY DEF Instances
  <2> USE <1>2, <2>1, <2>a
  <2>2. TypeOK' BY DEF HealTypeOK, Current
  <2>3. FileInv' BY DEF FileInv, HealTypeOK
  <2>4. WarnedInv' BY DEF WarnedInv
  <2>5. CountInv' BY DEF CountInv, FileInv, CountKept, HealTypeOK, Volatile
  <2>6. CountKept' BY DEF CountKept, CountInv, FileInv, WarnedInv, HealTypeOK, Current, Volatile
  <2> QED BY <2>2, <2>3, <2>4, <2>5, <2>6
<1> QED BY <1>1, <1>2

LEMMA SaveOpenStep == ASSUME IInv, NEW p \in Instances, Step(p), SaveOpen(p) PROVE IInv'
<1> USE HealingAssumption DEF IInv, TypeOK, SaveOpen, Goto, Step, Absent, Empty, Unknown
<1>1. CASE opener = 0 /\ opener' = p /\ stateFile' = Empty /\ Goto(p, "write") /\ UNCHANGED total
  <2>1. /\ \A q \in Instances : pc'[q] = IF q = p THEN "write" ELSE pc[q]
        /\ HeirInv' /\ OneHeir' /\ HandlesValid' /\ ListTrue' /\ OnlyHeirsLeft'
    <3>1. pc' = [pc EXCEPT ![p] = "write"] BY <1>1
    <3> QED BY <3>1, OwnStep
  <2>a. \A q \in Instances : q # 0 BY DEF Instances
  <2> USE <1>1, <2>1, <2>a
  <2>2. TypeOK' BY DEF HealTypeOK, Current, Instances
  <2>3. FileInv' BY DEF FileInv, HealTypeOK
  <2>4. WarnedInv' BY DEF WarnedInv
  <2>5. CountInv' BY DEF CountInv, FileInv, CountKept, HealTypeOK, Volatile
  <2>6. CountKept' BY DEF CountKept, CountInv, FileInv, WarnedInv, HealTypeOK, Current, Volatile
  <2> QED BY <2>2, <2>3, <2>4, <2>5, <2>6
<1>2. CASE Goto(p, "spawn") /\ total' = Unknown /\ UNCHANGED <<opener, stateFile>>
  <2>1. /\ \A q \in Instances : pc'[q] = IF q = p THEN "spawn" ELSE pc[q]
        /\ HeirInv' /\ OneHeir' /\ HandlesValid' /\ ListTrue' /\ OnlyHeirsLeft'
    BY <1>2, OwnStep
  <2>a. \A q \in Instances : q # 0 BY DEF Instances
  <2> USE <1>2, <2>1, <2>a
  <2>2. TypeOK' BY DEF HealTypeOK, Current
  <2>3. FileInv' BY DEF FileInv, HealTypeOK
  <2>4. WarnedInv' BY DEF WarnedInv
  <2>5. CountInv' BY DEF CountInv, FileInv, CountKept, HealTypeOK, Volatile
  <2>6. CountKept' BY DEF CountKept, CountInv, FileInv, WarnedInv, HealTypeOK, Current, Volatile
  <2> QED BY <2>2, <2>3, <2>4, <2>5, <2>6
<1> QED BY <1>1, <1>2

LEMMA TickStep == ASSUME IInv, NEW p \in Instances, Step(p), Tick(p) PROVE IInv'
<1> USE HealingAssumption DEF IInv, TypeOK, Tick, Goto, Step, Absent, Empty, Unknown
<1>1. HeirInv' /\ OneHeir' /\ HandlesValid' /\ ListTrue' /\ OnlyHeirsLeft'
  BY DEF HeirInv, OneHeir, HandlesValid, ListTrue, OnlyHeirsLeft, Alive, Entries
<1>2. TypeOK' BY DEF HealTypeOK
<1>3. FileInv' /\ WarnedInv' BY DEF FileInv, WarnedInv
<1>4. CountInv' BY <1>2 DEF CountInv, CountKept, Current, HealTypeOK
<1>5. CountKept' BY DEF CountKept, CountInv, HealTypeOK, Current, Volatile
<1> QED BY <1>1, <1>2, <1>3, <1>4, <1>5

LEMMA CreateNewInstanceStep ==
    ASSUME IInv, NEW p \in Instances, Step(p), CreateNewInstance(p) PROVE IInv'
<1> USE HealingAssumption DEF IInv, TypeOK, Absent, Empty, Unknown
<1>a. \A q \in Instances : q # 0 BY DEF Instances
<1>1. ASSUME NEW q \in Instances, Started(q, p), UNCHANGED warned,
             pc' = [pc EXCEPT ![p] = "quit", ![q] = "load"]
      PROVE  IInv'
  <2> USE <1>a
  <2>1. /\ pc[p] = "spawn" /\ pc[q] = "none" /\ p # q
        /\ UNCHANGED <<g_counter, stateFile, opener, posted, total>>
        /\ UNCHANGED <<children, dialog, target, warned>>
    BY <1>1 DEF CreateNewInstance, Started, NextSlot, Step
  <2> USE <2>1
  <2>2. \A r \in Instances : pc'[r] = IF r = q THEN "load" ELSE IF r = p THEN "quit" ELSE pc[r]
    BY <1>1 DEF HealTypeOK
  <2>3. \A r \in Instances : parent'[r] = IF r = q THEN p ELSE parent[r]
    BY <1>1 DEF HealTypeOK, Started
  <2>4. TypeOK'
    <3>1. p \in 0 .. MaxInstances BY DEF Instances
    <3>2. HealTypeOK' BY <1>1, <3>1 DEF HealTypeOK, Current, Started
    <3> QED BY <3>2
  <2>5. FileInv' BY <2>1, <2>2 DEF FileInv
  <2>6. HeirInv' BY <2>1, <2>2, <2>3 DEF HeirInv, Entries
  <2>7. WarnedInv' BY <2>1, <2>2 DEF WarnedInv
  <2>8. CountInv' BY <2>1, <2>2 DEF CountInv
  <2>9. OneHeir'
    <3>1. \A r \in Instances : parent[r] # 0 => parent[r] \in Instances /\ parent[r] # p
      <4>1. \A r \in Instances : parent[r] # 0 => pc[parent[r]] \in {"quit", "dead"}
        BY DEF OneHeir
      <4>2. \A r \in Instances : parent[r] \in 0 .. MaxInstances BY DEF HealTypeOK
      <4> QED BY <4>1, <4>2 DEF Instances
    <3> QED BY <2>1, <2>2, <2>3, <3>1 DEF OneHeir, HeirInv
  <2>10. CountKept'
    <3> SUFFICES ASSUME total # Unknown PROVE CountKept'
      BY DEF CountKept
    <3>1. \A r \in Instances : pc[r] \in Current => r = p
      BY <2>1 DEF CountKept, Current
    <3>2. \A r \in Instances : pc'[r] \in Current => r = q
      BY <2>2, <3>1 DEF Current
    <3>3. \A r \in Instances : ~Volatile(r) BY <2>1, <3>1 DEF Volatile, Current
    <3>4. \A r \in Instances : ~Volatile(r)' BY <2>2, <3>2 DEF Volatile, Current
    <3> QED BY <3>2, <3>3, <3>4 DEF CountKept
  <2>11. HandlesValid' BY DEF HandlesValid, Entries
  <2>12. ListTrue' /\ OnlyHeirsLeft'
    <3>1. children \in Seq(Entry) OBVIOUS
    <3>2. \A i \in Entries : children[i].pid \in Instances
      <4>1. \A i \in Entries : children[i] \in Entry BY <3>1 DEF Entries
      <4> QED BY <4>1 DEF Entry
    <3>3. ListTrue' BY <2>1, <2>2, <2>3, <3>2 DEF ListTrue, Entries
    <3>4. OnlyHeirsLeft' BY <2>1, <2>2, <2>3 DEF OnlyHeirsLeft, Alive
    <3> QED BY <3>3, <3>4
  <2> QED BY <2>4, <2>5, <2>6, <2>7, <2>8, <2>9, <2>10, <2>11, <2>12
<1>2. ASSUME Goto(p, "box"), warned' = [warned EXCEPT ![p] = TRUE], UNCHANGED parent
      PROVE  IInv'
  <2> USE <1>2, <1>a DEF CreateNewInstance, Goto, Step
  <2>1. /\ \A q \in Instances : pc'[q] = IF q = p THEN "box" ELSE pc[q]
        /\ HeirInv' /\ OneHeir' /\ HandlesValid' /\ ListTrue' /\ OnlyHeirsLeft'
    BY OwnStep
  <2>2. \A q \in Instances : warned'[q] <=> (warned[q] \/ q = p)
    BY DEF HealTypeOK
  <2> USE <2>1, <2>2
  <2>3. TypeOK' BY DEF HealTypeOK, Current
  <2>4. FileInv' BY DEF FileInv
  <2>5. WarnedInv' BY DEF WarnedInv
  <2>6. CountInv' BY DEF CountInv
  <2>7. CountKept'
    <3>1. \A q \in Instances : Volatile(q)' <=> Volatile(q)
      BY DEF Volatile
    <3> QED BY <3>1 DEF CountKept, Current, Volatile
  <2> QED BY <2>1, <2>3, <2>4, <2>5, <2>6, <2>7
<1> QED BY <1>1, <1>2 DEF CreateNewInstance

-----------------------------------------------------------------------------
(* The steps of the dispatcher. *)

\* Every entry is a record of its type, about an instance.
LEMMA EntriesTyped ==
    ASSUME TypeOK
    PROVE  /\ Len(children) \in Nat
           /\ \A i \in Entries : children[i] \in Entry /\ children[i].pid \in Instances
<1>1. children \in Seq(Entry) BY DEF TypeOK
<1>2. \A i \in Entries : children[i] \in Entry BY <1>1 DEF Entries
<1> QED BY <1>1, <1>2 DEF Entry

\* TerminateProcess, of any set of instances.
LEMMA TerminatedStep ==
    ASSUME IInv, NEW S \in SUBSET Instances, Terminated(S)
    PROVE  /\ \A q \in Instances : pc'[q] = IF q \in S /\ Alive(q) THEN "dead" ELSE pc[q]
           /\ HealTypeOK' /\ FileInv' /\ WarnedInv' /\ CountInv' /\ OneHeir' /\ CountKept'
<1> USE HealingAssumption DEF IInv, TypeOK, Absent, Empty, Unknown
<1>a. \A q \in Instances : q # 0 BY DEF Instances
<1>1. \A q \in Instances : pc'[q] = IF q \in S /\ Alive(q) THEN "dead" ELSE pc[q]
  BY DEF Terminated
<1>2. /\ \A q \in Instances : g_counter'[q] = IF q \in S THEN 0 ELSE g_counter[q]
      /\ \A q \in Instances : warned'[q] <=> (warned[q] /\ q \notin S)
  <2>1. /\ g_counter' = [q \in Instances |-> IF q \in S THEN 0 ELSE g_counter[q]]
        /\ warned' = [q \in Instances |-> warned[q] /\ q \notin S]
    BY DEF Terminated, Forget
  <2>2. \A q \in Instances : g_counter'[q] = IF q \in S THEN 0 ELSE g_counter[q]
    BY <2>1
  <2>3. \A q \in Instances : warned'[q] <=> (warned[q] /\ q \notin S)
    BY <2>1, Zenon
  <2> QED BY <2>2, <2>3
<1>3. /\ UNCHANGED <<parent, stateFile>>
      /\ opener' = IF opener \in S THEN 0 ELSE opener
      /\ total' = IF \E q \in S : Volatile(q) THEN Unknown ELSE total
  BY DEF Terminated
<1>4. HealTypeOK'
  <2>1. pc' \in [Instances -> Current \cup {"none", "failed", "quit", "dead"}]
    BY DEF Terminated, HealTypeOK
  <2>2. /\ g_counter' \in [Instances -> 0 .. MaxCounter]
        /\ warned' \in [Instances -> BOOLEAN]
    BY DEF Terminated, Forget, HealTypeOK
  <2>3. posted' \subseteq Instances \X {"main", "box"}
    BY DEF Terminated, Discard, HealTypeOK
  <2> QED BY <1>3, <2>1, <2>2, <2>3 DEF HealTypeOK
<1>5. \A q \in Instances : pc'[q] \in Current => pc'[q] = pc[q] /\ q \notin S
  BY <1>1 DEF Current, Alive
<1>6. FileInv'
  <2>1. \A q \in Instances : opener = q /\ q \in S => pc'[q] = "dead"
    BY <1>1 DEF FileInv, Alive
  <2> QED BY <1>a, <1>1, <1>3, <1>5, <2>1 DEF FileInv, Current, Alive
<1>7. WarnedInv' BY <1>1, <1>2, <1>5 DEF WarnedInv, Current, Alive
<1>8. CountInv' BY <1>2, <1>3, <1>5 DEF CountInv, Current
<1>9. OneHeir'
  <2>1. \A q \in Instances : parent[q] # 0 => parent[q] \in Instances
    BY DEF HealTypeOK, Instances
  <2> QED BY <1>1, <1>3, <2>1 DEF OneHeir, Alive
<1>10. CountKept'
  <2> SUFFICES ASSUME total' # Unknown PROVE CountKept'
    BY DEF CountKept
  <2>1. total' = total /\ \A q \in S : ~Volatile(q) BY <1>3
  <2>2. \A q \in Instances : Volatile(q)' <=> Volatile(q)
    <3>1. \A q \in Instances : q \in S => pc'[q] \notin Current
      BY <1>5
    <3>2. \A q \in Instances : q \in S => ~Volatile(q)'
      BY <3>1 DEF Volatile, Current
    <3>3. \A q \in Instances : q \notin S => (Volatile(q)' <=> Volatile(q))
      BY <1>1, <1>2 DEF Volatile
    <3> QED BY <2>1, <3>2, <3>3
  <2>3. \A q \in Instances : Volatile(q)' => g_counter'[q] = g_counter[q] /\ pc'[q] = pc[q]
    BY <1>1, <1>2, <1>5 DEF Volatile, Current
  <2> QED BY <1>3, <1>5, <2>1, <2>2, <2>3 DEF CountKept
<1> QED BY <1>1, <1>4, <1>6, <1>7, <1>8, <1>9, <1>10

LEMMA StartProcessStep == ASSUME IInv, StartProcess PROVE IInv'
<1> USE HealingAssumption DEF IInv, TypeOK, Absent, Empty, Unknown
<1>a. \A q \in Instances : q # 0 BY DEF Instances
<1> DEFINE info(p) == [pid |-> p, isRunning |-> TRUE, hProcess |-> "open", mainWnd |-> "NULL"]
<1>0. PICK p \in Instances : /\ Started(p, 0) /\ Goto(p, "load")
                             /\ children' = Append(children, info(p))
  BY DEF StartProcess
<1>1. /\ pc[p] = "none" /\ dialog = "none"
      /\ total' = IF \E q \in Instances : pc[q] \in Current THEN Unknown ELSE total
      /\ UNCHANGED <<g_counter, warned, stateFile, opener, posted, dialog, target>>
  BY <1>0 DEF StartProcess, Started, NextSlot
<1>2. \A q \in Instances : pc'[q] = IF q = p THEN "load" ELSE pc[q]
  BY <1>0 DEF Goto, HealTypeOK
<1>3. \A q \in Instances : parent'[q] = IF q = p THEN 0 ELSE parent[q]
  BY <1>0 DEF Started, HealTypeOK
<1>4. /\ Len(children) \in Nat /\ Len(children') = Len(children) + 1
      /\ children' \in Seq(Entry)
      /\ \A i \in Entries : children'[i] = children[i]
      /\ children'[Len(children) + 1] = info(p)
  <2>1. info(p) \in Entry BY DEF Entry
  <2>2. children \in Seq(Entry) OBVIOUS
  <2> HIDE DEF info
  <2> QED BY <1>0, <2>1, <2>2 DEF Entries
<1>5. Entries' = Entries \cup {Len(children) + 1} BY <1>4 DEF Entries
<1>6. \A i \in Entries : children[i].pid \in Instances BY EntriesTyped
<1>7. HealTypeOK'
  <2>1. pc' \in [Instances -> Current \cup {"none", "failed", "quit", "dead"}]
    BY <1>0 DEF Goto, HealTypeOK, Current
  <2>2. parent' \in [Instances -> 0 .. MaxInstances]
    BY <1>0 DEF Started, HealTypeOK
  <2> QED BY <1>1, <2>1, <2>2 DEF HealTypeOK
<1>8. TypeOK' BY <1>1, <1>4, <1>7
<1>9. FileInv' BY <1>1, <1>2 DEF FileInv
<1>10. HeirInv'
  <2>1. \A q \in Instances : pc'[q] = "none" => parent'[q] = 0
    BY <1>2, <1>3 DEF HeirInv
  <2>2. ASSUME NEW q \in Instances, pc'[q] # "none", parent'[q] = 0
        PROVE  \E i \in Entries' : children'[i].pid = q
    <3>1. CASE q = p BY <1>4, <1>5, <3>1
    <3>2. CASE q # p
      <4>1. pc[q] # "none" /\ parent[q] = 0 BY <1>2, <1>3, <2>2, <3>2
      <4>2. PICK i \in Entries : children[i].pid = q BY <4>1 DEF HeirInv
      <4> QED BY <1>4, <1>5, <4>2
    <3> QED BY <3>1, <3>2
  <2> QED BY <2>1, <2>2 DEF HeirInv
<1>11. WarnedInv' BY <1>1, <1>2 DEF WarnedInv
<1>12. CountInv' BY <1>1, <1>2 DEF CountInv
<1>13. OneHeir'
  <2>1. \A q \in Instances : parent[q] # 0 => parent[q] \in Instances /\ parent[q] # p
    <3>1. \A q \in Instances : parent[q] # 0 => pc[parent[q]] \in {"quit", "dead"}
      BY DEF OneHeir
    <3>2. \A q \in Instances : parent[q] \in 0 .. MaxInstances BY DEF HealTypeOK
    <3> QED BY <1>1, <3>1, <3>2 DEF Instances
  <2> QED BY <1>2, <1>3, <2>1 DEF OneHeir
<1>14. CountKept'
  <2> SUFFICES ASSUME total' # Unknown PROVE CountKept'
    BY DEF CountKept
  <2>1. total' = total /\ \A q \in Instances : pc[q] \notin Current BY <1>1
  <2>2. \A q \in Instances : pc'[q] \in Current => q = p BY <1>2, <2>1
  <2>3. \A q \in Instances : ~Volatile(q) BY <2>1 DEF Volatile, Current
  <2>4. \A q \in Instances : ~Volatile(q)' BY <1>2, <2>2 DEF Volatile, Current
  <2> QED BY <1>1, <2>1, <2>2, <2>3, <2>4 DEF CountKept
<1>15. HandlesValid' BY <1>1, <1>4, <1>5 DEF HandlesValid
<1>16. ListTrue'
  <2>1. \A i \in Entries : children[i].pid # p BY <1>1 DEF ListTrue
  <2> QED BY <1>2, <1>3, <1>4, <1>5, <1>6, <2>1 DEF ListTrue
<1>17. OnlyHeirsLeft' BY <1>1 DEF OnlyHeirsLeft
<1> QED BY <1>8, <1>9, <1>10, <1>11, <1>12, <1>13, <1>14, <1>15, <1>16, <1>17

LEMMA TerminateProcessStep == ASSUME IInv, TerminateProcess PROVE IInv'
<1> USE HealingAssumption DEF IInv, TypeOK, Absent, Empty, Unknown
<1>0. PICK i \in Entries : \E w \in FindWindow(i) :
        /\ children' = [children EXCEPT ![i].mainWnd = w]
        /\ IF w # "NULL"
             THEN Post(children[i].pid, w) /\ UNCHANGED <<dialog, target>>
             ELSE dialog' = "confirm" /\ target' = i /\ UNCHANGED posted
  BY DEF TerminateProcess
<1>1. PICK w \in FindWindow(i) :
        /\ children' = [children EXCEPT ![i].mainWnd = w]
        /\ IF w # "NULL"
             THEN Post(children[i].pid, w) /\ UNCHANGED <<dialog, target>>
             ELSE dialog' = "confirm" /\ target' = i /\ UNCHANGED posted
  BY <1>0
<1>2. UNCHANGED <<pc, g_counter, parent, warned, stateFile, opener, total>> /\ dialog = "none"
  BY DEF TerminateProcess
<1>3. /\ Len(children) \in Nat
      /\ \A j \in Entries : children[j] \in Entry /\ children[j].pid \in Instances
  BY EntriesTyped
<1>4. w \in {"NULL", "main", "box"} BY <1>3 DEF FindWindow, Windows, Entry
<1>5. /\ children' \in Seq(Entry) /\ Len(children') = Len(children)
      /\ \A j \in Entries : /\ children'[j].pid = children[j].pid
                             /\ children'[j].isRunning = children[j].isRunning
                             /\ children'[j].hProcess = children[j].hProcess
  <2>1. children \in Seq(Entry) OBVIOUS
  <2>2. [children[i] EXCEPT !.mainWnd = w] \in Entry BY <1>3, <1>4 DEF Entry
  <2>3. children' = [children EXCEPT ![i] = [children[i] EXCEPT !.mainWnd = w]]
    BY <1>1
  <2>4. children' \in Seq(Entry) /\ Len(children') = Len(children)
    BY <2>1, <2>2, <2>3 DEF Entries
  <2>5. \A j \in Entries :
          children'[j] = IF j = i THEN [children[i] EXCEPT !.mainWnd = w] ELSE children[j]
    BY <2>1, <2>3 DEF Entries
  <2> QED BY <1>3, <2>4, <2>5 DEF Entry
<1>6. Entries' = Entries BY <1>5 DEF Entries
<1>7. posted' \subseteq Instances \X {"main", "box"}
  BY <1>1, <1>3, <1>4 DEF Post, HealTypeOK, Windows
<1>8. HealTypeOK' BY <1>2, <1>7 DEF HealTypeOK
<1>9. TypeOK'
  <2>1. dialog' \in {"none", "confirm"} /\ target' \in 0 .. Len(children)
        /\ (dialog' = "confirm" => target' # 0)
    BY <1>1, <1>2, <1>3 DEF Entries
  <2> QED BY <1>5, <1>8, <2>1
<1>10. FileInv' /\ WarnedInv' /\ CountInv' /\ OneHeir'
  BY <1>2 DEF FileInv, WarnedInv, CountInv, OneHeir
<1>11. CountKept' BY <1>2 DEF CountKept, Volatile
<1>12. HeirInv' BY <1>2, <1>5, <1>6 DEF HeirInv
<1>13. HandlesValid' BY <1>1, <1>2, <1>5, <1>6 DEF HandlesValid
<1>14. ListTrue' BY <1>2, <1>5, <1>6 DEF ListTrue
<1>15. OnlyHeirsLeft' BY <1>1, <1>2 DEF OnlyHeirsLeft
<1> QED BY <1>9, <1>10, <1>11, <1>12, <1>13, <1>14, <1>15

LEMMA ConfirmStep == ASSUME IInv, Confirm PROVE IInv'
<1> USE HealingAssumption DEF IInv, TypeOK, Absent, Empty, Unknown
<1>1. /\ UNCHANGED children /\ dialog = "confirm" /\ dialog' = "none"
      /\ target' = 0 /\ target \in Entries
  BY EntriesTyped DEF Confirm, Entries
<1>2. \A i \in Entries : children[i].pid \in Instances BY EntriesTyped
<1>3. CASE UNCHANGED healVars
  <2> USE <1>1, <1>3 DEF healVars
  <2>1. TypeOK' BY EntriesTyped DEF HealTypeOK
  <2>2. FileInv' /\ WarnedInv' /\ CountInv' /\ OneHeir'
    BY DEF FileInv, WarnedInv, CountInv, OneHeir
  <2>3. CountKept' BY DEF CountKept, Volatile
  <2>4. HeirInv' /\ HandlesValid' /\ ListTrue' /\ OnlyHeirsLeft'
    BY DEF HeirInv, HandlesValid, ListTrue, OnlyHeirsLeft, Entries
  <2> QED BY <2>1, <2>2, <2>3, <2>4
<1>4. CASE Terminated({children[target].pid})
  <2> DEFINE S == {children[target].pid}
  <2>1. S \in SUBSET Instances BY <1>1, <1>2
  <2>2. /\ \A q \in Instances : pc'[q] = IF q \in S /\ Alive(q) THEN "dead" ELSE pc[q]
        /\ HealTypeOK' /\ FileInv' /\ WarnedInv' /\ CountInv' /\ OneHeir' /\ CountKept'
    BY <1>4, <2>1, TerminatedStep
  <2>3. UNCHANGED parent BY <1>4 DEF Terminated
  <2>4. TypeOK' BY <1>1, <2>2, EntriesTyped
  <2>5. HeirInv' BY <1>1, <2>2, <2>3 DEF HeirInv, Entries, Alive
  <2>6. HandlesValid' BY <1>1 DEF HandlesValid, Entries
  <2>7. ListTrue' BY <1>1, <1>2, <2>2, <2>3 DEF ListTrue, Entries, Alive
  <2>8. OnlyHeirsLeft' BY <1>1 DEF OnlyHeirsLeft
  <2> QED BY <2>2, <2>4, <2>5, <2>6, <2>7, <2>8
<1> QED BY <1>3, <1>4 DEF Confirm

\* What one pass over the list changes: entries of processes that have ended.
LEMMA UpdateProcessListStep == ASSUME IInv, UpdateProcessList PROVE IInv'
<1> USE HealingAssumption DEF IInv, TypeOK, Absent, Empty, Unknown
<1>1. UNCHANGED <<healVars, dialog, target>> /\ dialog # "closed"
  BY DEF UpdateProcessList
<1>2. /\ Len(children) \in Nat
      /\ \A i \in Entries : children[i] \in Entry /\ children[i].pid \in Instances
  BY EntriesTyped
<1>3. \A i \in Entries :
        (IF HasEnded(children[i]) THEN Update(children[i]) ELSE children[i]) \in Entry
  BY <1>2 DEF Entry, Update
<1>4. /\ children' \in Seq(Entry) /\ Len(children') = Len(children)
      /\ \A i \in Entries : children'[i] = IF HasEnded(children[i]) THEN Update(children[i])
                                                                    ELSE children[i]
  <2>1. children' = [i \in 1 .. Len(children) |->
                        IF HasEnded(children[i]) THEN Update(children[i]) ELSE children[i]]
    BY DEF UpdateProcessList, Entries
  <2> QED BY <1>2, <1>3, <2>1 DEF Entries
<1>5. Entries' = Entries BY <1>4 DEF Entries
<1>6. \A i \in Entries :
        /\ children'[i].pid = children[i].pid
        /\ HasEnded(children[i]) =>
              /\ pc[children[i].pid] = "dead"
              /\ ~children'[i].isRunning /\ children'[i].hProcess = "NULL"
        /\ ~HasEnded(children[i]) => children'[i] = children[i]
  BY <1>2, <1>4 DEF HasEnded, Update, Entry
<1> USE <1>1 DEF healVars
<1>7. TypeOK' BY <1>4 DEF HealTypeOK
<1>8. FileInv' /\ WarnedInv' /\ CountInv' /\ OneHeir'
  BY DEF FileInv, WarnedInv, CountInv, OneHeir
<1>9. CountKept' BY DEF CountKept, Volatile
<1>10. HeirInv' BY <1>5, <1>6 DEF HeirInv
<1>11. HandlesValid' BY <1>5, <1>6 DEF HandlesValid
<1>12. ListTrue' BY <1>5, <1>6 DEF ListTrue
<1>13. OnlyHeirsLeft' BY DEF OnlyHeirsLeft
<1> QED BY <1>7, <1>8, <1>9, <1>10, <1>11, <1>12, <1>13

LEMMA DestroyStep == ASSUME IInv, Destroy PROVE IInv'
<1> USE HealingAssumption DEF IInv, TypeOK, Absent, Empty, Unknown
<1>1. dialog = "none" /\ dialog' = "closed" /\ UNCHANGED target BY DEF Destroy
<1>2. /\ Len(children) \in Nat
      /\ \A i \in Entries : children[i] \in Entry /\ children[i].pid \in Instances
  BY EntriesTyped
<1>3. Running \in SUBSET Instances BY <1>2 DEF Running
<1>4. /\ \A q \in Instances : pc'[q] = IF q \in Running /\ Alive(q) THEN "dead" ELSE pc[q]
      /\ HealTypeOK' /\ FileInv' /\ WarnedInv' /\ CountInv' /\ OneHeir' /\ CountKept'
  BY <1>3, TerminatedStep DEF Destroy
<1>5. UNCHANGED parent BY DEF Destroy, Terminated
<1>6. /\ children' \in Seq(Entry) /\ Len(children') = Len(children)
      /\ \A i \in Entries : /\ children'[i].pid = children[i].pid
                             /\ children'[i].isRunning = children[i].isRunning
                             /\ children'[i].hProcess = IF children[i].isRunning THEN "closed"
                                                       ELSE children[i].hProcess
  <2>1. children' = [i \in 1 .. Len(children) |->
                        IF children[i].isRunning THEN [children[i] EXCEPT !.hProcess = "closed"]
                                                 ELSE children[i]]
    BY DEF Destroy, Entries
  <2>2. \A i \in Entries : [children[i] EXCEPT !.hProcess = "closed"] \in Entry
    BY <1>2 DEF Entry
  <2>3. children' \in Seq(Entry) /\ Len(children') = Len(children)
    BY <1>2, <2>1, <2>2 DEF Entries
  <2>4. \A i \in Entries : children'[i] = IF children[i].isRunning
                                             THEN [children[i] EXCEPT !.hProcess = "closed"]
                                             ELSE children[i]
    BY <2>1 DEF Entries
  <2> QED BY <1>2, <2>3, <2>4 DEF Entry
<1>7. Entries' = Entries BY <1>6 DEF Entries
<1>8. TypeOK' BY <1>1, <1>4, <1>6
<1>9. HeirInv' BY <1>4, <1>5, <1>6, <1>7 DEF HeirInv, Alive
<1>10. HandlesValid' BY <1>1, <1>6, <1>7 DEF HandlesValid
<1>11. ListTrue' BY <1>2, <1>4, <1>5, <1>6, <1>7 DEF ListTrue, Alive
<1>12. OnlyHeirsLeft'
  <2> SUFFICES ASSUME NEW q \in Instances, Alive(q)', parent[q] = 0 PROVE FALSE
    BY <1>5 DEF OnlyHeirsLeft
  <2>1. Alive(q) /\ q \notin Running BY <1>4 DEF Alive
  <2>2. PICK i \in Entries : children[i].pid = q BY <2>1 DEF HeirInv, Alive
  <2>3. ~children[i].isRunning BY <2>1, <2>2 DEF Running
  <2> QED BY <2>1, <2>2, <2>3 DEF ListTrue, Alive
<1> QED BY <1>4, <1>8, <1>9, <1>10, <1>11, <1>12

-----------------------------------------------------------------------------
LEMMA NextIInv == IInv /\ [Next]_vars => IInv'
<1> SUFFICES ASSUME IInv, [Next]_vars PROVE IInv'
    OBVIOUS
<1>1. CASE Window
  BY <1>1, StartProcessStep, TerminateProcessStep, ConfirmStep, DestroyStep DEF Window
<1>2. CASE UpdateProcessList BY <1>2, UpdateProcessListStep
<1>3. ASSUME NEW p \in Instances, Step(p) PROVE IInv'
  <2>1. CASE Runs(p)
    BY <1>3, <2>1, LoadOpenStep, LoadReadStep, LoadDeleteStep, CreateMainWindowStep,
       SaveOpenStep, SaveWriteStep, CreateNewInstanceStep, QuitStep DEF Runs
  <2>2. CASE User(p) BY <1>3, <2>2, CloseStep, DismissBoxStep DEF User
  <2>3. CASE Tick(p) BY <1>3, <2>3, TickStep
  <2> QED BY <1>3, <2>1, <2>2, <2>3 DEF Step, Instance
<1>4. CASE UNCHANGED vars
  <2> USE <1>4 DEF vars, healVars
  <2>1. TypeOK' BY DEF IInv, TypeOK, HealTypeOK
  <2>2. FileInv' /\ WarnedInv' /\ CountInv' /\ OneHeir'
    BY DEF IInv, FileInv, WarnedInv, CountInv, OneHeir
  <2>3. CountKept' BY DEF IInv, CountKept, Volatile
  <2>4. HeirInv' /\ HandlesValid' /\ ListTrue' /\ OnlyHeirsLeft'
    BY DEF IInv, HeirInv, HandlesValid, ListTrue, OnlyHeirsLeft, Entries, Alive
  <2> QED BY <2>1, <2>2, <2>3, <2>4 DEF IInv
<1> QED BY <1>1, <1>2, <1>3, <1>4 DEF Next

LEMMA AlwaysIInv == Spec => []IInv
BY InitIInv, NextIInv, PTL DEF Spec

\* Type correctness, for every number of instances (main.cpp, main2.cpp).
THEOREM TypeCorrect == Spec => []TypeOK
<1>1. IInv => TypeOK BY DEF IInv
<1> QED BY AlwaysIInv, <1>1, PTL

\* A window is replaced at most once, and only when it ends (main.cpp:97-105),
\* however often it is closed while a message box is shown.
THEOREM OneHeirCorrect == Spec => []OneHeir
<1>1. IInv => OneHeir BY DEF IInv
<1> QED BY AlwaysIInv, <1>1, PTL

\* What LoadState, SaveState and CreateNewInstance keep of the count, through
\* any number of generations (main.cpp:115-167).
THEOREM CountKeptCorrect == Spec => []CountKept
<1>1. IInv => CountKept BY DEF IInv
<1> QED BY AlwaysIInv, <1>1, PTL

\* No closed handle is left in the list while the dispatcher runs, so that
\* OnTerminateProcess never uses one (main2.cpp:192-214, 236-257).
THEOREM HandlesValidCorrect == Spec => []HandlesValid
<1>1. IInv => HandlesValid BY DEF IInv
<1> QED BY AlwaysIInv, <1>1, PTL

\* An entry marked as ended is of a process that has ended (main2.cpp:236-257).
THEOREM ListTrueCorrect == Spec => []ListTrue
<1>1. IInv => ListTrue BY DEF IInv
<1> QED BY AlwaysIInv, <1>1, PTL

\* Only replacements outlive the dispatcher (main2.cpp:112-122): HeirInv says
\* that every other process is in the list.
THEOREM OnlyHeirsLeftCorrect == Spec => []OnlyHeirsLeft
<1>1. IInv => OnlyHeirsLeft BY DEF IInv
<1> QED BY AlwaysIInv, <1>1, PTL
=============================================================================
