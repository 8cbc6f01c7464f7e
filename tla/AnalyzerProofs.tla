--------------------------- MODULE AnalyzerProofs ---------------------------
(***************************************************************************)
(* The agent pool of module Analyzer, for every directory tree, limit and  *)
(* pipe capacity, whatever of the calls, and the collector, may fail.      *)
(* The counter is exact because a directory is entered once; waitpid(-1)   *)
(* finds the collector ended while the manager still counts only if the    *)
(* collector died, and then once.  The report is complete because a line   *)
(* is in one place at a time, and the traversal passes no directory over.  *)
(***************************************************************************)
EXTENDS Analyzer, FiniteSetTheorems, TLAPS

\* A directory is entered once: what is still to be visited has no agent, and
\* a directory gets one only after its parent.
TraversalInv ==
    /\ mainPc \in {"fork", "closeRead"} => cur = Root /\ \A d \in Dirs : agent[d] = "none"
    /\ mainPc = "enter" =>
          /\ agent[cur] = "none"
          /\ cur # Root => agent[parent[cur]] # "none" /\ cur \notin entries[parent[cur]]
    /\ mainPc = "opendir" => \A s \in Subdirs(cur) : agent[s] = "none"
    /\ mainPc \in {"opendir", "readdir"} => agent[cur] # "none"
    /\ \A d \in Dirs : \A s \in entries[d] : s \in Subdirs(d) /\ agent[s] = "none"
    /\ \A s \in Dirs \ {Root} : agent[s] # "none" => agent[parent[s]] # "none"

Counting == {"fork", "closeRead", "enter", "opendir", "readdir", "drain"}
Ended == {"exitSuccess", "exitFailure"}

\* Who holds the write end, and what the end of the collector implies.
WriteEndInv ==
    /\ "main" \in writers <=> mainPc \in Counting
    /\ \A d \in Dirs : agent[d] \in {"started", "reading"} => d \in writers
    /\ collector \in {"zombie", "reaped"} /\ CollectorReliable => writers = {} /\ pipe = << >>
    /\ mainPc = "fork" => collector = "none"
    /\ mainPc \in Ended => collector \in {"none", "reaped"}
    /\ mainPc = "exitSuccess" => collector = "reaped"
    /\ mainPc \in {"fork", "closeRead"} \/ mainPc \notin Counting => active_agents = 0
    /\ EarlyReap => ~CollectorReliable

IInv == TypeOK /\ TraversalInv /\ WriteEndInv /\ CounterExact

-----------------------------------------------------------------------------
LEMMA UnreapedFinite ==
    /\ IsFiniteSet(Unreaped) /\ IsFiniteSet(Unreaped')
    /\ Cardinality(Unreaped) \in Nat
    /\ Cardinality(Unreaped) = 0 <=> Unreaped = {}
<1>1. Unreaped \in SUBSET Dirs /\ Unreaped' \in SUBSET Dirs BY DEF Unreaped
<1>2. IsFiniteSet(Unreaped) /\ IsFiniteSet(Unreaped')
  BY <1>1, FS_Subset, AnalyzerAssumption
<1> QED BY <1>2, FS_CardinalityType, FS_EmptySet

LEMMA InitIInv == Init => IInv
<1> SUFFICES ASSUME Init PROVE IInv
    OBVIOUS
<1> USE AnalyzerAssumption DEF Init
<1>1. TypeOK BY DEF TypeOK, AgentStates, Processes, FilesOf
<1>2. TraversalInv BY DEF TraversalInv
<1>3. Unreaped = {} BY DEF Unreaped
<1>4. WriteEndInv BY DEF WriteEndInv, Counting, Ended, EarlyReap
<1>5. CounterExact BY <1>3, UnreapedFinite DEF CounterExact, EarlyReap
<1> QED BY <1>1, <1>2, <1>4, <1>5 DEF IInv

\* Steps that leave the manager alone and neither fork nor reap an agent.
LEMMA TraversalFrame ==
    ASSUME TypeOK, TraversalInv, UNCHANGED <<mainPc, cur, entries>>,
           \A d \in Dirs : agent'[d] = "none" <=> agent[d] = "none"
    PROVE  TraversalInv'
BY AnalyzerAssumption DEF TypeOK, TraversalInv, Subdirs

LEMMA AgentStep ==
    ASSUME IInv, NEW d \in Dirs, run_agent(d), faults' = faults
    PROVE  IInv'
<1> USE AnalyzerAssumption DEF IInv, TypeOK, mainVars, collectorVars, pipeVars, run_agent
<1>1. /\ agent[d] \in {"started", "reading"}
      /\ agent' = agent \/ agent' = [agent EXCEPT ![d] = "reading"]
                        \/ agent' = [agent EXCEPT ![d] = "zombie"]
      /\ agent'[d] \in {"started", "reading"} => writers' = writers
      /\ writers' \in {writers, writers \ {d}}
  BY DEF AgentOpensDir, AgentReports, AgentSkips, AgentGetsSigpipe, AgentFinishes, AgentEnds
<1>2. TypeOK'
  <2>0. {"reading", "zombie"} \subseteq AgentStates BY DEF AgentStates
  <2>1. agent' \in [Dirs -> AgentStates]
    <3>1. CASE agent' = agent BY <3>1
    <3>2. CASE agent' = [agent EXCEPT ![d] = "reading"] BY <3>2, <2>0
    <3>3. CASE agent' = [agent EXCEPT ![d] = "zombie"] BY <3>3, <2>0
    <3> QED BY <1>1, <3>1, <3>2, <3>3
  <2>2. /\ todo' \in [Dirs -> SUBSET Files] /\ pipe' \in Seq(Files)
        /\ skipped' \subseteq Files
    <3>1. CASE AgentReports(d)
      <4>1. PICK f \in todo[d] : /\ todo' = [todo EXCEPT ![d] = @ \ {f}]
                                /\ pipe' = Append(pipe, f)
        BY <3>1 DEF AgentReports
      <4>2. f \in Files OBVIOUS
      <4> QED BY <3>1, <4>1, <4>2 DEF AgentReports
    <3>2. CASE AgentSkips(d)
      BY <3>2 DEF AgentSkips
    <3>3. CASE ~AgentReports(d) /\ ~AgentSkips(d)
      BY <3>3 DEF AgentOpensDir, AgentGetsSigpipe, AgentFinishes, AgentEnds
    <3> QED BY <3>1, <3>2, <3>3
  <2>3. readers' = readers
    BY DEF AgentOpensDir, AgentReports, AgentSkips, AgentGetsSigpipe, AgentFinishes, AgentEnds
  <2> QED BY <1>1, <2>1, <2>2, <2>3
<1>3. TraversalInv'
  <2>1. \A e \in Dirs : agent'[e] = "none" <=> agent[e] = "none" BY <1>1
  <2> QED BY <2>1, TraversalFrame
<1>4. Unreaped' = Unreaped BY <1>1 DEF Unreaped
<1>5. WriteEndInv'
  <2>1. d \in writers BY <1>1 DEF WriteEndInv
  <2>2. collector \in {"zombie", "reaped"} => ~CollectorReliable BY <2>1 DEF WriteEndInv
  <2>3. \A e \in Dirs : agent'[e] \in {"started", "reading"} => e \in writers'
    BY <1>1 DEF WriteEndInv
  <2> QED BY <1>1, <2>2, <2>3 DEF WriteEndInv, EarlyReap, CollectorReliable
<1>6. CounterExact' BY <1>4 DEF CounterExact, EarlyReap
<1> QED BY <1>2, <1>3, <1>5, <1>6

LEMMA CollectorStep ==
    ASSUME IInv, run_collector, faults' = faults
    PROVE  IInv'
<1> USE AnalyzerAssumption
    DEF IInv, TypeOK, mainVars, agentVars, pipeVars, run_collector
<1>1. TypeOK'
  <2>1. CASE CollectorCopiesLine BY <2>1 DEF CollectorCopiesLine
  <2>2. CASE CollectorClosesWriteEnd \/ CollectorOpensStream \/ CollectorSeesEof \/ CollectorFails
    BY <2>2 DEF CollectorClosesWriteEnd, CollectorOpensStream, CollectorSeesEof, CollectorFails,
                CollectorEnds
  <2> QED BY <2>1, <2>2
<1>2. TraversalInv' BY TraversalFrame
<1>3. Unreaped' = Unreaped BY DEF Unreaped
<1>4. /\ collector \in {"started", "open", "reading"}
      /\ writers' \in {writers, writers \ {"collector"}}
      /\ \/ collector' \in {"open", "reading"}
         \/ collector' = "zombie" /\ ((writers' = {} /\ pipe' = << >>) \/ ~CollectorReliable)
  BY DEF CollectorClosesWriteEnd, CollectorOpensStream, CollectorFails, CollectorCopiesLine,
         CollectorSeesEof, CollectorEnds, CollectorReliable
<1>5. ~EarlyReap /\ ~EarlyReap' BY <1>4 DEF EarlyReap
<1>6. WriteEndInv'
  <2>1. mainPc \notin {"fork"} \cup Ended BY <1>4 DEF WriteEndInv
  <2> QED BY <1>4, <1>5, <2>1 DEF WriteEndInv, CollectorReliable, Ended
<1>7. CounterExact' BY <1>3, <1>5 DEF CounterExact
<1> QED BY <1>1, <1>2, <1>6, <1>7

\* While the manager counts, what it waits for is an agent, or the collector
\* that died.
LEMMA WaitReaps ==
    ASSUME IInv, mainPc \in Counting, active_agents > 0, wait_for_one_child
    PROVE  /\ active_agents' = active_agents - 1
           /\ UNCHANGED <<mainPc, cur, entries, todo, skipped, output, pipeVars>>
           /\ \/ \E d \in Dirs : /\ agent[d] = "zombie"
                                /\ agent' = [agent EXCEPT ![d] = "reaped"]
                                /\ UNCHANGED collector
              \/ /\ collector = "zombie" /\ collector' = "reaped" /\ ~CollectorReliable
                 /\ UNCHANGED agent
<1>1. Unreaped # {} BY UnreapedFinite DEF IInv, TypeOK, CounterExact
<1>2. collector = "zombie" => ~CollectorReliable BY DEF IInv, WriteEndInv
<1> QED BY <1>1, <1>2 DEF wait_for_one_child, HasChild

LEMMA WaitStep ==
    ASSUME IInv, mainPc \in Counting, active_agents > 0, wait_for_one_child, faults' = faults,
           mainPc \notin {"fork", "closeRead"}
    PROVE  IInv'
<1>r. /\ active_agents' = active_agents - 1
      /\ UNCHANGED <<mainPc, cur, entries, todo, skipped, output, pipeVars>>
      /\ \/ \E d \in Dirs : /\ agent[d] = "zombie"
                           /\ agent' = [agent EXCEPT ![d] = "reaped"]
                           /\ UNCHANGED collector
         \/ /\ collector = "zombie" /\ collector' = "reaped" /\ ~CollectorReliable
            /\ UNCHANGED agent
  BY WaitReaps
<1> USE <1>r DEF IInv, pipeVars
<1>1. active_agents' \in 0 .. max_agents BY AnalyzerAssumption DEF TypeOK
<1>2. CASE UNCHANGED agent /\ collector = "zombie" /\ collector' = "reaped" /\ ~CollectorReliable
  <2>1. TypeOK' BY <1>1, <1>2 DEF TypeOK
  <2>2. TraversalInv' BY <1>2, TraversalFrame
  <2>3. Unreaped' = Unreaped BY <1>2 DEF Unreaped
  <2>4. ~EarlyReap /\ EarlyReap' BY <1>2 DEF EarlyReap, Counting
  <2>5. WriteEndInv' BY <1>2, <2>4 DEF WriteEndInv, CollectorReliable, Counting, Ended
  <2>6. CounterExact' BY <2>3, <2>4 DEF CounterExact, TypeOK
  <2> QED BY <2>1, <2>2, <2>5, <2>6
<1>3. ASSUME NEW d \in Dirs, agent[d] = "zombie", UNCHANGED collector,
             agent' = [agent EXCEPT ![d] = "reaped"]
      PROVE  IInv'
  <2>1. TypeOK' BY <1>1, <1>3 DEF TypeOK, AgentStates
  <2>2. TraversalInv' BY <1>3, TraversalFrame DEF TypeOK
  <2>3. Unreaped' = Unreaped \ {d} /\ d \in Unreaped BY <1>3 DEF Unreaped, TypeOK
  <2>4. EarlyReap' = EarlyReap BY <1>3 DEF EarlyReap
  <2>5. WriteEndInv' BY <1>3, <2>4 DEF WriteEndInv, CollectorReliable, Counting, Ended, TypeOK
  <2>6. CounterExact' BY <2>3, <2>4, UnreapedFinite, FS_RemoveElement DEF CounterExact, TypeOK
  <2> QED BY <2>1, <2>2, <2>5, <2>6
<1> QED BY <1>2, <1>3

\* traverse_dir returns into the loop of its caller, whose directory has an agent.
LEMMA ReturnPoint ==
    ASSUME IInv, mainPc \in {"enter", "opendir", "readdir"}, Return
    PROVE  /\ mainPc' \in {"drain", "readdir"} /\ cur' \in Dirs
           /\ mainPc' = "readdir" => agent[cur'] # "none"
BY AnalyzerAssumption DEF IInv, TypeOK, TraversalInv, Return

LEMMA TraverseStep ==
    ASSUME IInv, traverse_dir, faults' = faults
    PROVE  IInv'
<1> USE AnalyzerAssumption DEF IInv
<1>0. mainPc \in {"enter", "opendir", "readdir"} /\ mainPc \in Counting
  BY DEF traverse_dir, WaitForSlot, ForkAgent, OpenDir, Recurse, CloseDir, Counting
<1>1. CASE WaitForSlot
  BY <1>0, <1>1, WaitStep DEF WaitForSlot, SlotFree, TypeOK
<1>2. ASSUME Return, UNCHANGED <<entries, active_agents, agentVars, collectorVars, pipeVars>>
      PROVE  IInv'
  <2> USE <1>2 DEF agentVars, collectorVars, pipeVars
  <2>1. TypeOK' BY <1>0, ReturnPoint DEF TypeOK
  <2>2. TraversalInv' BY <1>0, ReturnPoint DEF TraversalInv
  <2>3. Unreaped' = Unreaped BY DEF Unreaped
  <2>a. EarlyReap' = EarlyReap BY <1>0, ReturnPoint DEF EarlyReap
  <2>4. WriteEndInv' BY <1>0, <2>a, ReturnPoint DEF WriteEndInv, CollectorReliable, Counting, Ended
  <2>5. CounterExact' BY <2>3, <2>a DEF CounterExact
  <2> QED BY <2>1, <2>2, <2>4, <2>5
<1>3. CASE ForkAgent
  <2>1. CASE ForkFails
    BY <1>2, <1>3, <2>1 DEF ForkAgent, ForkFails, agentVars, pipeVars
  <2>2. CASE /\ active_agents' = active_agents + 1
             /\ agent' = [agent EXCEPT ![cur] = "started"]
             /\ writers' = writers \cup {cur}
             /\ mainPc' = "opendir" /\ UNCHANGED cur
    <3> USE <1>3, <2>2 DEF ForkAgent, collectorVars
    <3>1. TypeOK' BY DEF TypeOK, SlotFree, AgentStates, Processes
    <3>2. TraversalInv'
      <4> USE DEF TypeOK, TraversalInv
      <4>1. \A s \in Subdirs(cur) : s # cur /\ agent'[s] = "none" BY DEF Subdirs
      <4>2. \A e \in Dirs : \A s \in entries[e] : s # cur BY DEF Subdirs
      <4>3. \A e \in Dirs : \A s \in entries[e] : s \in Subdirs(e) /\ agent'[s] = "none"
        BY <4>2 DEF Subdirs
      <4>4. \A s \in Dirs \ {Root} : agent'[s] # "none" => agent'[parent[s]] # "none"
        OBVIOUS
      <4> QED BY <4>1, <4>3, <4>4
    <3>3. Unreaped' = Unreaped \cup {cur} /\ cur \notin Unreaped
      BY DEF Unreaped, TypeOK, TraversalInv
    <3>a. EarlyReap' = EarlyReap BY <1>0 DEF EarlyReap
    <3>4. WriteEndInv' BY <1>0, <3>a DEF WriteEndInv, TypeOK, CollectorReliable, Counting, Ended
    <3>5. CounterExact' BY <3>3, <3>a, UnreapedFinite, FS_AddElement DEF CounterExact, TypeOK
    <3> QED BY <3>1, <3>2, <3>4, <3>5
  <2> QED BY <1>3, <2>1, <2>2 DEF ForkAgent
<1>4. CASE OpenDir
  <2>1. CASE Return /\ UNCHANGED entries BY <1>2, <1>4, <2>1 DEF OpenDir
  <2>2. CASE entries' = [entries EXCEPT ![cur] = Subdirs(cur)] /\ mainPc' = "readdir" /\ UNCHANGED cur
    <3> USE <1>4, <2>2 DEF OpenDir, agentVars, collectorVars, pipeVars
    <3>1. TypeOK' BY DEF TypeOK, Subdirs
    <3>2. TraversalInv' BY DEF TypeOK, TraversalInv, Subdirs
    <3>3. Unreaped' = Unreaped BY DEF Unreaped
    <3>a. EarlyReap' = EarlyReap BY <1>0 DEF EarlyReap
    <3>4. WriteEndInv' BY <1>0, <3>a DEF WriteEndInv, CollectorReliable, Counting, Ended
    <3>5. CounterExact' BY <3>3, <3>a DEF CounterExact
    <3> QED BY <3>1, <3>2, <3>4, <3>5
  <2> QED BY <1>4, <2>1, <2>2 DEF OpenDir
<1>5. CASE Recurse
  <2> USE <1>5 DEF Recurse, agentVars, collectorVars, pipeVars
  <2>0. PICK s \in entries[cur] : /\ entries' = [entries EXCEPT ![cur] = @ \ {s}]
                                  /\ \/ mainPc' = "enter" /\ cur' = s
                                     \/ UNCHANGED <<mainPc, cur>>
    OBVIOUS
  <2>a. s \in Dirs \ {Root} /\ parent[s] = cur /\ agent[s] = "none"
    BY <2>0 DEF TypeOK, TraversalInv, Subdirs
  <2>1. TypeOK' BY <2>0, <2>a DEF TypeOK
  <2>2. TraversalInv' BY <2>0, <2>a DEF TypeOK, TraversalInv
  <2>3. Unreaped' = Unreaped BY DEF Unreaped
  <2>b. EarlyReap' = EarlyReap BY <1>0 DEF EarlyReap
  <2>4. WriteEndInv' BY <1>0, <2>b DEF WriteEndInv, CollectorReliable, Counting, Ended
  <2>5. CounterExact' BY <2>3, <2>b DEF CounterExact
  <2> QED BY <2>1, <2>2, <2>4, <2>5
<1>6. CASE CloseDir BY <1>2, <1>6 DEF CloseDir
<1> QED BY <1>1, <1>3, <1>4, <1>5, <1>6 DEF traverse_dir

LEMMA MainStep ==
    ASSUME IInv, main, faults' = faults
    PROVE  IInv'
<1> USE AnalyzerAssumption DEF IInv
<1>1. CASE traverse_dir BY <1>1, TraverseStep
<1>2. CASE WaitForAgents
  BY <1>2, WaitStep DEF WaitForAgents, Counting
<1>3. CASE ForkCollector \/ CloseReadEnd \/ CloseWriteEnd \/ WaitForCollector
  <2> USE <1>3 DEF ForkCollector, CloseReadEnd, CloseWriteEnd, WaitForCollector,
                   agentVars, collectorVars, pipeVars
  <2>1. TypeOK' BY DEF TypeOK, Processes
  <2>2. TraversalInv' BY DEF TypeOK, TraversalInv
  <2>3. Unreaped' = Unreaped BY DEF Unreaped
  <2>4. EarlyReap' = EarlyReap BY DEF EarlyReap, WriteEndInv
  <2>5. CloseWriteEnd => active_agents = 0 BY DEF TypeOK
  <2>6. WriteEndInv'
    <3> USE <2>4 DEF WriteEndInv, CollectorReliable, Counting, Ended
    <3>1. CASE ForkCollector BY <3>1 DEF TypeOK, TraversalInv
    <3>2. CASE CloseReadEnd BY <3>2
    <3>3. CASE CloseWriteEnd BY <3>3, <2>5
    <3>4. CASE WaitForCollector BY <3>4
    <3> QED BY <1>3, <3>1, <3>2, <3>3, <3>4
  <2>7. CounterExact' BY <2>3, <2>4 DEF CounterExact, ForkCollector, CloseReadEnd, CloseWriteEnd, WaitForCollector
  <2> QED BY <2>1, <2>2, <2>6, <2>7
<1> QED BY <1>1, <1>2, <1>3 DEF main

LEMMA StutterStep == IInv /\ UNCHANGED vars => IInv'
BY DEF IInv, TypeOK, TraversalInv, WriteEndInv, CounterExact, EarlyReap, CollectorReliable, Unreaped,
       vars, procVars, mainVars, agentVars, collectorVars, pipeVars

\* The inductive invariant holds in every reachable state.
THEOREM Inductive == Spec => []IInv
<1>1. IInv /\ [Next]_vars => IInv'
  BY MainStep, CollectorStep, AgentStep, StutterStep DEF Next, Exited
<1> QED BY InitIInv, <1>1, PTL DEF Spec

\* Type correctness: in particular the counter stays between 0 and the limit.
THEOREM TypeCorrect == Spec => []TypeOK
BY Inductive, PTL DEF IInv

\* The counter equals the number of agents forked and not yet reaped, through
\* failed forks and early returns of the recursion; a collector that dies early
\* makes it one too small, and never more.
THEOREM CounterCorrect == Spec => []CounterExact
BY Inductive, PTL DEF IInv

\* For every tree and limit, at most max_agents agents run at a time, and one
\* more once the collector has died.
THEOREM LimitCorrect == Spec => []AgentLimit
<1>1. ASSUME IInv PROVE AgentLimit
  <2> DEFINE R == {d \in Dirs : agent[d] \in {"started", "reading"}}
  <2>1. R \in SUBSET Unreaped BY DEF Unreaped
  <2>2. Cardinality(R) <= Cardinality(Unreaped) /\ Cardinality(R) \in Nat
    BY <2>1, UnreapedFinite, FS_Subset, FS_CardinalityType
  <2> QED BY <1>1, <2>2, AnalyzerAssumption DEF IInv, CounterExact, TypeOK, AgentLimit
<1> QED BY <1>1, Inductive, PTL

\* What main leaves when it exits: nothing with status 0, and with a failure
\* the one agent that was not counted when the collector had died early.
THEOREM ExitCorrect == Spec => []ExitLeaves
<1>1. ASSUME IInv PROVE ExitLeaves
  <2> USE <1>1 DEF IInv
  <2>1. mainPc \in Ended => active_agents = 0 BY DEF WriteEndInv, Counting, Ended
  <2>2. mainPc = "exitSuccess" => ~EarlyReap BY DEF EarlyReap
  <2>3. mainPc = "exitSuccess" => Unreaped = {}
    BY <2>1, <2>2, UnreapedFinite DEF CounterExact, Ended
  <2>4. mainPc = "exitFailure" => Cardinality(Unreaped) = IF EarlyReap THEN 1 ELSE 0
    BY <2>1 DEF CounterExact, Ended
  <2> QED BY <2>3, <2>4 DEF ExitLeaves, HasChild, WriteEndInv, Ended
<1> QED BY <1>1, Inductive, PTL

\* As long as the collector does not die, no agent is left either way.
THEOREM ReliableExit == Spec => [](CollectorReliable => NoChildLeft)
<1>1. ASSUME IInv, CollectorReliable PROVE NoChildLeft
  <2> USE <1>1 DEF IInv
  <2>1. ~EarlyReap BY DEF WriteEndInv
  <2>2. mainPc \in Ended => Unreaped = {}
    BY <2>1, UnreapedFinite DEF WriteEndInv, CounterExact, Counting, Ended
  <2> QED BY <2>2 DEF NoChildLeft, HasChild, WriteEndInv, Ended
<1> QED BY <1>1, Inductive, PTL

LEMMA IInvEof == ASSUME IInv PROVE EofIsEnd
<1> SUFFICES ASSUME collector \in {"zombie", "reaped"}, CollectorReliable
             PROVE  pipe = << >> /\ \A d \in Dirs : agent[d] \in {"none", "reaped"}
  BY DEF EofIsEnd
<1> USE DEF IInv
<1>1. pipe = << >> /\ mainPc \notin Counting /\ ~EarlyReap BY DEF WriteEndInv
<1>2. Unreaped = {} BY <1>1, UnreapedFinite DEF WriteEndInv, CounterExact
<1> QED BY <1>1, <1>2 DEF TypeOK, AgentStates, Unreaped

\* The collector sees the end of the stream only after the last agent.
THEOREM EofCorrect == Spec => []EofIsEnd
BY IInvEof, Inductive, PTL

-----------------------------------------------------------------------------
(* The report. *)

InPipe(f) == \E k \in 1 .. Len(pipe) : pipe[k] = f

\* Where each line is: with its agent, in the pipe or in the report, and nowhere
\* twice; nowhere, if its agent has passed the file over.
LineInv ==
    /\ \A d \in Dirs : todo[d] \subseteq FilesOf(d)
    /\ \A k, l \in 1 .. Len(pipe) : pipe[k] = pipe[l] => k = l
    /\ \A f \in Files : f \in todo[dirOf[f]] => output[f] = 0 /\ ~InPipe(f)
    /\ \A f \in Files : InPipe(f) => output[f] = 0
    /\ \A f \in Files : f \in skipped => f \notin todo[dirOf[f]] /\ ~InPipe(f) /\ output[f] = 0
    /\ \A f \in Files : f \notin todo[dirOf[f]] /\ ~InPipe(f) =>
           output[f] = IF f \in skipped THEN 0 ELSE 1

\* An agent that has ended has reported all of its files or, when it could not
\* open its directory, none: a reader keeps it from dying of SIGPIPE.
ReportInv ==
    /\ mainPc \notin {"fork", "exitFailure"} => collector # "none"
    /\ collector = "none" => \A d \in Dirs : agent[d] = "none"
    /\ collector \in {"started", "open", "reading"} => "collector" \in readers
    /\ \A d \in Dirs : agent[d] \in {"none", "started"} => todo[d] = FilesOf(d)
    /\ CollectorReliable =>
           \A d \in Dirs : agent[d] \in {"zombie", "reaped"} =>
               todo[d] = {} \/ ("opendir" \in faults /\ todo[d] = FilesOf(d))

\* Without failures no directory is passed over: the traversal has visited it, is
\* about to, or has it in the entries of a traverse_dir that is still active.
VisitInv ==
    faults = {} =>
        /\ mainPc \notin {"fork", "closeRead", "exitFailure"} =>
               agent[Root] # "none" \/ (mainPc = "enter" /\ cur = Root)
        /\ \A d \in Dirs \ {Root} : agent[parent[d]] # "none" =>
               \/ agent[d] # "none"
               \/ d \in entries[parent[d]]
               \/ mainPc = "enter" /\ cur = d
               \/ mainPc = "opendir" /\ cur = parent[d]
        /\ \A d \in Dirs : entries[d] # {} =>
               mainPc \in {"enter", "opendir", "readdir"} /\ OnStack(d)

\* The line of a file moves from its agent to the pipe.
LEMMA LineReported ==
    ASSUME IInv, LineInv, NEW d \in Dirs, AgentReports(d), UNCHANGED output
    PROVE  LineInv'
<1> USE AnalyzerAssumption
<1>1. PICK f \in todo[d] : /\ todo' = [todo EXCEPT ![d] = @ \ {f}]
                           /\ pipe' = Append(pipe, f)
  BY DEF AgentReports
<1>2. todo \in [Dirs -> SUBSET Files] /\ pipe \in Seq(Files) /\ Len(pipe) \in Nat
  BY DEF IInv, TypeOK
<1>3. f \in Files /\ dirOf[f] = d BY <1>2 DEF LineInv, FilesOf
<1>4. output[f] = 0 /\ ~InPipe(f) BY <1>1, <1>3 DEF LineInv
<1>5. /\ Len(pipe') = Len(pipe) + 1 /\ pipe'[Len(pipe) + 1] = f
      /\ \A k \in 1 .. Len(pipe) : pipe'[k] = pipe[k]
  BY <1>1, <1>2, <1>3
<1>6. \A k \in 1 .. Len(pipe') : k \in 1 .. Len(pipe) \/ k = Len(pipe) + 1 BY <1>2, <1>5
<1>7. /\ \A k \in 1 .. Len(pipe) : k \in 1 .. Len(pipe')
      /\ Len(pipe) + 1 \in 1 .. Len(pipe')
  BY <1>2, <1>5
<1>8. \A g \in Files : InPipe(g)' <=> (InPipe(g) \/ g = f) BY <1>5, <1>6, <1>7 DEF InPipe
<1>9. /\ \A e \in Dirs : todo'[e] = IF e = d THEN todo[e] \ {f} ELSE todo[e]
      /\ \A g \in Files : g \in todo'[dirOf[g]] <=> (g \in todo[dirOf[g]] /\ g # f)
  <2>1. \A e \in Dirs : todo'[e] = IF e = d THEN todo[e] \ {f} ELSE todo[e] BY <1>1, <1>2
  <2>2. \A g \in Files : dirOf[g] \in Dirs OBVIOUS
  <2> QED BY <1>3, <2>1, <2>2
<1>a. \A e \in Dirs : todo'[e] \subseteq FilesOf(e)
  <2>1. \A e \in Dirs : todo'[e] \subseteq todo[e] BY <1>9
  <2>2. \A e \in Dirs : todo[e] \subseteq FilesOf(e) BY DEF LineInv
  <2> QED BY <2>1, <2>2
<1>b. \A k, l \in 1 .. Len(pipe') : pipe'[k] = pipe'[l] => k = l
  <2>1. \A k \in 1 .. Len(pipe) : pipe'[k] # f BY <1>4, <1>5 DEF InPipe
  <2> QED BY <1>5, <1>6, <2>1 DEF LineInv
<1>c. \A g \in Files : g \in todo'[dirOf[g]] => output'[g] = 0 /\ ~InPipe(g)'
  BY <1>8, <1>9 DEF LineInv
<1>d. \A g \in Files : InPipe(g)' => output'[g] = 0 BY <1>4, <1>8 DEF LineInv
<1>e. \A g \in Files : g \in skipped =>
          g \notin todo'[dirOf[g]] /\ ~InPipe(g)' /\ output'[g] = 0
  <2>1. f \notin skipped BY <1>1, <1>3 DEF LineInv
  <2> QED BY <1>8, <1>9, <2>1 DEF LineInv
<1>f. \A g \in Files : g \notin todo'[dirOf[g]] /\ ~InPipe(g)' =>
          output'[g] = IF g \in skipped THEN 0 ELSE 1
  BY <1>8, <1>9 DEF LineInv
<1>g. skipped' = skipped BY DEF AgentReports
<1> QED BY <1>a, <1>b, <1>c, <1>d, <1>e, <1>f, <1>g DEF LineInv, FilesOf

\* The agent passes a file over.
LEMMA LineSkipped ==
    ASSUME IInv, LineInv, NEW d \in Dirs, AgentSkips(d), UNCHANGED output
    PROVE  LineInv'
<1> USE AnalyzerAssumption
<1>1. PICK f \in todo[d] : /\ todo' = [todo EXCEPT ![d] = @ \ {f}]
                           /\ skipped' = skipped \cup {f}
  BY DEF AgentSkips
<1>2. todo \in [Dirs -> SUBSET Files] /\ pipe' = pipe BY DEF IInv, TypeOK, AgentSkips, pipeVars
<1>3. f \in Files /\ dirOf[f] = d BY <1>2 DEF LineInv, FilesOf
<1>4. output[f] = 0 /\ ~InPipe(f) BY <1>1, <1>3 DEF LineInv
<1>5. \A g \in Files : InPipe(g)' <=> InPipe(g) BY <1>2 DEF InPipe
<1>6. /\ \A e \in Dirs : todo'[e] = IF e = d THEN todo[e] \ {f} ELSE todo[e]
      /\ \A g \in Files : g \in todo'[dirOf[g]] <=> (g \in todo[dirOf[g]] /\ g # f)
  <2>1. \A e \in Dirs : todo'[e] = IF e = d THEN todo[e] \ {f} ELSE todo[e] BY <1>1, <1>2
  <2>2. \A g \in Files : dirOf[g] \in Dirs OBVIOUS
  <2> QED BY <1>3, <2>1, <2>2
<1>7. \A e \in Dirs : todo'[e] \subseteq FilesOf(e)
  <2>1. \A e \in Dirs : todo'[e] \subseteq todo[e] BY <1>6
  <2>2. \A e \in Dirs : todo[e] \subseteq FilesOf(e) BY DEF LineInv
  <2> QED BY <2>1, <2>2
<1>8. \A k, l \in 1 .. Len(pipe') : pipe'[k] = pipe'[l] => k = l BY <1>2 DEF LineInv
<1>9. \A g \in Files : g \in todo'[dirOf[g]] => output'[g] = 0 /\ ~InPipe(g)'
  BY <1>5, <1>6 DEF LineInv
<1>a. \A g \in Files : InPipe(g)' => output'[g] = 0 BY <1>5 DEF LineInv
<1>b. \A g \in Files : g \in skipped' =>
          g \notin todo'[dirOf[g]] /\ ~InPipe(g)' /\ output'[g] = 0
  BY <1>1, <1>4, <1>5, <1>6 DEF LineInv
<1>c. \A g \in Files : g \notin todo'[dirOf[g]] /\ ~InPipe(g)' =>
          output'[g] = IF g \in skipped' THEN 0 ELSE 1
  BY <1>1, <1>4, <1>5, <1>6 DEF LineInv
<1> QED BY <1>7, <1>8, <1>9, <1>a, <1>b, <1>c DEF LineInv, FilesOf

\* The first line of the pipe moves to the report.
LEMMA LineCopied ==
    ASSUME IInv, LineInv, CollectorCopiesLine, UNCHANGED <<todo, skipped>>
    PROVE  LineInv'
<1> USE AnalyzerAssumption
<1>1. pipe \in Seq(Files) /\ Len(pipe) \in Nat /\ pipe # << >> /\ output \in [Files -> Nat]
  BY DEF IInv, TypeOK, CollectorCopiesLine
<1>2. PICK f \in Files : f = Head(pipe) /\ f = pipe[1] BY <1>1
<1>3. 1 \in 1 .. Len(pipe) BY <1>1
<1>4. /\ pipe' = Tail(pipe)
      /\ \A g \in Files : output'[g] = IF g = f THEN output[g] + 1 ELSE output[g]
  BY <1>1, <1>2 DEF CollectorCopiesLine
<1>5. Len(pipe') = Len(pipe) - 1 /\ \A k \in 1 .. Len(pipe') : pipe'[k] = pipe[k + 1]
  BY <1>1, <1>4
<1>6. \A k \in 1 .. Len(pipe') : k + 1 \in 1 .. Len(pipe) /\ k + 1 # 1 BY <1>1, <1>5
<1>7. \A k \in 1 .. Len(pipe) : k = 1 \/ (k - 1 \in 1 .. Len(pipe') /\ k - 1 + 1 = k)
  BY <1>1, <1>5
<1>8. \A k, l \in 1 .. Len(pipe') : pipe'[k] = pipe'[l] => k = l
  <2> SUFFICES ASSUME NEW k \in 1 .. Len(pipe'), NEW l \in 1 .. Len(pipe'), pipe'[k] = pipe'[l]
               PROVE  k = l
    OBVIOUS
  <2>1. pipe[k + 1] = pipe[l + 1] BY <1>5
  <2>2. k + 1 = l + 1 BY <1>6, <2>1 DEF LineInv
  <2> QED BY <2>2
<1>9. \A g \in Files : InPipe(g)' <=> (InPipe(g) /\ g # f)
  <2> SUFFICES ASSUME NEW g \in Files PROVE InPipe(g)' <=> (InPipe(g) /\ g # f) OBVIOUS
  <2>1. InPipe(g)' => InPipe(g) /\ g # f
    <3> SUFFICES ASSUME NEW k \in 1 .. Len(pipe'), pipe'[k] = g PROVE InPipe(g) /\ g # f
      BY DEF InPipe
    <3>1. pipe[k + 1] = g BY <1>5
    <3>2. k + 1 \in 1 .. Len(pipe) /\ k + 1 # 1 BY <1>6
    <3>3. pipe[k + 1] # pipe[1] BY <1>3, <3>2 DEF LineInv
    <3> QED BY <1>2, <3>1, <3>2, <3>3 DEF InPipe
  <2>2. InPipe(g) /\ g # f => InPipe(g)'
    <3> SUFFICES ASSUME NEW k \in 1 .. Len(pipe), pipe[k] = g, g # f PROVE InPipe(g)'
      BY DEF InPipe
    <3>1. k - 1 \in 1 .. Len(pipe') /\ k - 1 + 1 = k BY <1>2, <1>7
    <3>2. pipe'[k - 1] = g BY <1>5, <3>1
    <3> QED BY <3>1, <3>2 DEF InPipe
  <2> QED BY <2>1, <2>2
<1>a. InPipe(f) BY <1>2, <1>3 DEF InPipe
<1>b. output[f] = 0 /\ f \notin todo[dirOf[f]] BY <1>a DEF LineInv
<1>c. \A g \in Files : g \in todo[dirOf[g]] => output'[g] = 0 /\ ~InPipe(g)'
  BY <1>4, <1>9, <1>b DEF LineInv
<1>d. \A g \in Files : InPipe(g)' => output'[g] = 0 BY <1>4, <1>9 DEF LineInv
<1>e. f \notin skipped BY <1>a DEF LineInv
<1>f. \A g \in Files : g \in skipped =>
          g \notin todo[dirOf[g]] /\ ~InPipe(g)' /\ output'[g] = 0
  BY <1>4, <1>9, <1>e DEF LineInv
<1>g. \A g \in Files : g \notin todo[dirOf[g]] /\ ~InPipe(g)' =>
          output'[g] = IF g \in skipped THEN 0 ELSE 1
  BY <1>4, <1>9, <1>b, <1>e DEF LineInv
<1> QED BY <1>8, <1>c, <1>d, <1>f, <1>g DEF LineInv, FilesOf

LEMMA LineStep ==
    ASSUME IInv, LineInv, [Next]_vars
    PROVE  LineInv'
<1>1. ASSUME UNCHANGED <<todo, skipped, pipe, output>> PROVE LineInv'
  BY <1>1 DEF LineInv, InPipe, FilesOf
<1>2. ASSUME NEW d \in Dirs, run_agent(d) PROVE LineInv'
  <2>1. UNCHANGED output BY <1>2 DEF run_agent, collectorVars
  <2>2. CASE AgentReports(d) BY <2>1, <2>2, LineReported
  <2>3. CASE AgentSkips(d) BY <2>1, <2>3, LineSkipped
  <2>4. CASE AgentOpensDir(d) \/ AgentGetsSigpipe(d) \/ AgentFinishes(d)
    BY <1>1, <2>1, <2>4 DEF AgentOpensDir, AgentGetsSigpipe, AgentFinishes, AgentEnds, pipeVars
  <2> QED BY <1>2, <2>2, <2>3, <2>4 DEF run_agent
<1>3. CASE run_collector
  <2>1. UNCHANGED <<todo, skipped>> BY <1>3 DEF run_collector, agentVars
  <2>2. CASE CollectorCopiesLine BY <2>1, <2>2, LineCopied
  <2>3. CASE CollectorClosesWriteEnd \/ CollectorOpensStream \/ CollectorFails \/ CollectorSeesEof
    BY <1>1, <2>1, <2>3 DEF CollectorClosesWriteEnd, CollectorOpensStream, CollectorFails,
                            CollectorSeesEof, pipeVars
  <2> QED BY <1>3, <2>2, <2>3 DEF run_collector
<1>4. CASE main
  BY <1>1, <1>4 DEF main, traverse_dir, WaitForSlot, wait_for_one_child, ForkAgent, OpenDir,
                    Recurse, CloseDir, ForkCollector, CloseReadEnd, WaitForAgents, CloseWriteEnd,
                    WaitForCollector, agentVars, collectorVars, pipeVars
<1>5. CASE UNCHANGED vars
  BY <1>1, <1>5 DEF vars, procVars, agentVars, collectorVars, pipeVars
<1> QED BY <1>2, <1>3, <1>4, <1>5 DEF Next, Exited

\* An agent whose write end is open has a reader, as long as the collector does
\* not die.
LEMMA AgentHasReader ==
    ASSUME IInv, ReportInv, CollectorReliable, NEW d \in Dirs, agent[d] = "reading"
    PROVE  readers # {}
<1>1. d \in writers BY DEF IInv, WriteEndInv
<1>2. collector \notin {"zombie", "reaped"} BY <1>1 DEF IInv, WriteEndInv
<1>3. collector # "none" BY DEF ReportInv
<1>4. collector \in {"started", "open", "reading"} BY <1>2, <1>3 DEF IInv, TypeOK
<1> QED BY <1>4 DEF ReportInv

LEMMA ReportAgentStep ==
    ASSUME IInv, ReportInv, NEW d \in Dirs, run_agent(d), faults' = faults
    PROVE  ReportInv'
<1> USE DEF CollectorReliable
<1>1. UNCHANGED <<mainPc, collector, readers>>
  BY DEF run_agent, mainVars, collectorVars, AgentOpensDir, AgentReports, AgentSkips,
         AgentGetsSigpipe, AgentFinishes, AgentEnds, pipeVars
<1>2. agent \in [Dirs -> AgentStates] /\ todo \in [Dirs -> SUBSET Files] BY DEF IInv, TypeOK
<1>3. /\ collector # "none"
      /\ agent[d] \in {"started", "reading"}
  BY DEF run_agent, AgentOpensDir, AgentReports, AgentSkips, AgentGetsSigpipe, AgentFinishes,
         ReportInv
<1>4. \A e \in Dirs : e # d => agent'[e] = agent[e] /\ todo'[e] = todo[e]
  BY <1>2 DEF run_agent, AgentOpensDir, AgentReports, AgentSkips, AgentGetsSigpipe,
              AgentFinishes, AgentEnds
<1>5. agent'[d] \notin {"none", "started"}
  BY <1>2, <1>3 DEF run_agent, AgentOpensDir, AgentReports, AgentSkips, AgentGetsSigpipe,
                    AgentFinishes, AgentEnds
<1>6. CollectorReliable /\ agent'[d] \in {"zombie", "reaped"} =>
          todo'[d] = {} \/ ("opendir" \in faults /\ todo'[d] = FilesOf(d))
  <2>1. CASE AgentOpensDir(d)
    <3>1. agent[d] = "started" /\ todo' = todo BY <2>1 DEF AgentOpensDir, AgentEnds
    <3>2. todo[d] = FilesOf(d) BY <3>1 DEF ReportInv
    <3>3. agent'[d] = "zombie" => "opendir" \in faults BY <1>2, <2>1 DEF AgentOpensDir
    <3>4. agent'[d] # "reaped" BY <1>2, <2>1 DEF AgentOpensDir, AgentEnds
    <3> QED BY <3>1, <3>2, <3>3, <3>4
  <2>2. CASE AgentReports(d) \/ AgentSkips(d) BY <2>2 DEF AgentReports, AgentSkips
  <2>3. CASE AgentGetsSigpipe(d) BY <2>3, AgentHasReader DEF AgentGetsSigpipe
  <2>4. CASE AgentFinishes(d) BY <2>4 DEF AgentFinishes, AgentEnds
  <2> QED BY <2>1, <2>2, <2>3, <2>4 DEF run_agent
<1> QED BY <1>1, <1>3, <1>4, <1>5, <1>6 DEF ReportInv, FilesOf

LEMMA ReportCollectorStep ==
    ASSUME IInv, ReportInv, run_collector, faults' = faults
    PROVE  ReportInv'
<1>1. UNCHANGED <<mainPc, agent, todo>> BY DEF run_collector, mainVars, agentVars
<1>2. collector' # "none" /\ (collector' \in {"started", "open", "reading"} =>
                                 readers' = readers /\ collector \in {"started", "open", "reading"})
  BY DEF run_collector, CollectorClosesWriteEnd, CollectorOpensStream, CollectorFails,
         CollectorCopiesLine, CollectorSeesEof, CollectorEnds, pipeVars
<1> QED BY <1>1, <1>2 DEF ReportInv, CollectorReliable, FilesOf

\* Waiting changes the state of an ended child only.
LEMMA WaitFrame ==
    ASSUME IInv, main, WaitForSlot \/ WaitForAgents
    PROVE  /\ UNCHANGED <<mainPc, cur, entries, todo, readers>>
           /\ \A d \in Dirs : agent'[d] = agent[d]
                              \/ (agent[d] = "zombie" /\ agent'[d] = "reaped")
           /\ collector' = collector \/ (collector = "zombie" /\ collector' = "reaped")
BY DEF IInv, TypeOK, WaitForSlot, WaitForAgents, wait_for_one_child, pipeVars

LEMMA ReportMainStep ==
    ASSUME IInv, ReportInv, main, faults' = faults
    PROVE  ReportInv'
<1> USE DEF CollectorReliable
<1>1. CASE WaitForSlot \/ WaitForAgents
  <2>1. UNCHANGED <<mainPc, todo, readers>> BY <1>1, WaitFrame
  <2>2. /\ collector' = "none" <=> collector = "none"
        /\ collector' \in {"started", "open", "reading"} => collector' = collector
    BY <1>1, WaitFrame
  <2>3. \A d \in Dirs :
           /\ agent'[d] = "none" <=> agent[d] = "none"
           /\ agent'[d] \in {"none", "started"} <=> agent[d] \in {"none", "started"}
           /\ agent'[d] \in {"zombie", "reaped"} <=> agent[d] \in {"zombie", "reaped"}
    BY <1>1, WaitFrame
  <2> QED BY <2>1, <2>2, <2>3 DEF ReportInv, FilesOf
<1>2. CASE ForkAgent
  <2>1. /\ mainPc = "enter" /\ UNCHANGED <<todo, collector, readers>>
        /\ mainPc' # "exitFailure" /\ collector # "none"
    BY <1>2 DEF ForkAgent, ForkFails, Return, collectorVars, pipeVars, ReportInv
  <2>2. agent[cur] = "none" BY <2>1 DEF IInv, TraversalInv
  <2>3. agent' = agent \/ agent' = [agent EXCEPT ![cur] = "started"]
    BY <1>2 DEF ForkAgent, ForkFails
  <2>4. \A d \in Dirs : \/ agent'[d] = agent[d]
                         \/ (agent[d] = "none" /\ agent'[d] = "started")
    BY <2>2, <2>3 DEF IInv, TypeOK
  <2> QED BY <2>1, <2>4 DEF ReportInv, FilesOf
<1>3. CASE OpenDir \/ Recurse \/ CloseDir
  <2>1. mainPc \notin {"fork", "exitFailure"} /\ UNCHANGED <<agent, todo, collector, readers>>
    BY <1>3 DEF OpenDir, Recurse, CloseDir, agentVars, collectorVars, pipeVars
  <2> QED BY <2>1 DEF ReportInv, FilesOf
<1>4. CASE ForkCollector
  <2>1. mainPc = "fork" /\ UNCHANGED <<agent, todo>> BY <1>4 DEF ForkCollector, agentVars
  <2>2. \A d \in Dirs : agent[d] = "none" BY <2>1 DEF IInv, TraversalInv
  <2>3. collector = "none" BY <2>1 DEF IInv, WriteEndInv
  <2>4. \/ collector' = "started" /\ readers' = readers \cup {"collector"}
        \/ collector' = collector /\ mainPc' = "exitFailure"
    BY <1>4 DEF ForkCollector
  <2> QED BY <2>1, <2>2, <2>3, <2>4 DEF ReportInv, FilesOf
<1>5. CASE CloseReadEnd \/ CloseWriteEnd
  <2>1. /\ mainPc \notin {"fork", "exitFailure"} /\ UNCHANGED <<agent, todo, collector>>
        /\ readers' \in {readers, readers \ {"main"}}
    BY <1>5 DEF CloseReadEnd, CloseWriteEnd, agentVars, collectorVars
  <2> QED BY <2>1 DEF ReportInv, FilesOf
<1>6. CASE WaitForCollector
  <2>1. /\ mainPc = "waitCollector" /\ UNCHANGED <<agent, todo, readers>> /\ collector' = "reaped"
    BY <1>6 DEF WaitForCollector, agentVars, pipeVars
  <2> QED BY <2>1 DEF ReportInv, FilesOf
<1> QED BY <1>1, <1>2, <1>3, <1>4, <1>5, <1>6 DEF main, traverse_dir

LEMMA VisitFrame ==
    ASSUME VisitInv, UNCHANGED <<mainPc, cur, entries, faults>>,
           \A d \in Dirs : agent'[d] = "none" <=> agent[d] = "none"
    PROVE  VisitInv'
<1> USE AnalyzerAssumption
<1>1. \A d \in Dirs : OnStack(d)' <=> OnStack(d) BY DEF OnStack
<1>2. \A d \in Dirs \ {Root} : parent[d] \in Dirs OBVIOUS
<1> QED BY <1>1, <1>2 DEF VisitInv

\* traverse_dir returns: what had entries left before is still active.
LEMMA VisitReturn ==
    ASSUME IInv, VisitInv, faults = {}, mainPc = "readdir", entries[cur] = {},
           Return, UNCHANGED <<entries, agent, faults>>
    PROVE  VisitInv'
<1> USE AnalyzerAssumption
<1>1. cur \in Dirs /\ entries \in [Dirs -> SUBSET Dirs] /\ agent[cur] # "none"
  BY DEF IInv, TypeOK, TraversalInv
<1>2. mainPc' \in {"drain", "readdir"} BY DEF Return
<1>3. ASSUME NEW d \in Dirs, entries[d] # {}
      PROVE  mainPc' = "readdir" /\ OnStack(d)'
  <2>1. OnStack(d) /\ d # cur BY <1>3 DEF VisitInv
  <2>2. cur # Root
    <3> SUFFICES ASSUME cur = Root PROVE FALSE OBVIOUS
    <3>1. cur \in {Root} /\ {Root} \in SUBSET Dirs OBVIOUS
    <3>2. d \in {Root} BY <2>1, <3>1 DEF OnStack
    <3> QED BY <2>1, <3>2
  <2>3. mainPc' = "readdir" /\ cur' = parent[cur] BY <2>2 DEF Return
  <2>4. ASSUME NEW S \in SUBSET Dirs, cur' \in S, \A e \in S \ {Root} : parent[e] \in S
        PROVE  d \in S
    <3>1. S \cup {cur} \in SUBSET Dirs BY <1>1
    <3>2. \A e \in (S \cup {cur}) \ {Root} : parent[e] \in S \cup {cur} BY <2>3, <2>4
    <3>3. d \in S \cup {cur} BY <2>1, <3>1, <3>2 DEF OnStack
    <3> QED BY <2>1, <3>3
  <2> QED BY <2>3, <2>4 DEF OnStack
<1>4. agent[Root] # "none" BY DEF VisitInv
<1>5. \A d \in Dirs \ {Root} : agent[parent[d]] # "none" => agent[d] # "none" \/ d \in entries[parent[d]]
  BY DEF VisitInv
<1> QED BY <1>2, <1>3, <1>4, <1>5 DEF VisitInv

LEMMA VisitMainStep ==
    ASSUME IInv, VisitInv, main, faults' = faults, faults = {}
    PROVE  VisitInv'
<1> USE AnalyzerAssumption
<1>0. cur \in Dirs /\ entries \in [Dirs -> SUBSET Dirs] /\ agent \in [Dirs -> AgentStates]
  BY DEF IInv, TypeOK
<1>1. CASE WaitForSlot \/ WaitForAgents
  <2>1. UNCHANGED <<mainPc, cur, entries>> /\ \A d \in Dirs : agent'[d] = "none" <=> agent[d] = "none"
    BY <1>1, WaitFrame
  <2> QED BY <2>1, VisitFrame
<1>2. CASE ForkAgent
  <2>1. /\ mainPc = "enter" /\ mainPc' = "opendir" /\ UNCHANGED <<cur, entries>>
        /\ agent' = [agent EXCEPT ![cur] = "started"]
    BY <1>2 DEF ForkAgent, ForkFails
  <2>2. \A d \in Dirs : OnStack(d)' <=> OnStack(d) BY <2>1 DEF OnStack
  <2>3. \A d \in Dirs : agent'[d] # "none" <=> (agent[d] # "none" \/ d = cur) BY <1>0, <2>1
  <2>4. \A d \in Dirs \ {Root} : parent[d] \in Dirs OBVIOUS
  <2> QED BY <2>1, <2>2, <2>3, <2>4 DEF VisitInv
<1>3. CASE OpenDir
  <2>1. /\ mainPc = "opendir" /\ mainPc' = "readdir" /\ UNCHANGED <<cur, agent>>
        /\ entries' = [entries EXCEPT ![cur] = Subdirs(cur)]
    BY <1>3 DEF OpenDir, agentVars
  <2>2. \A d \in Dirs : OnStack(d)' <=> OnStack(d) BY <2>1 DEF OnStack
  <2>3. OnStack(cur) BY DEF OnStack
  <2>4. \A d \in Dirs : entries'[d] = IF d = cur THEN Subdirs(cur) ELSE entries[d] BY <1>0, <2>1
  <2>5. \A d \in Dirs \ {Root} : parent[d] = cur => d \in Subdirs(cur) BY DEF Subdirs
  <2>6. \A d \in Dirs : entries'[d] # {} => OnStack(d)' BY <2>1, <2>2, <2>3, <2>4 DEF VisitInv
  <2>7. \A d \in Dirs \ {Root} : agent[parent[d]] # "none" =>
            agent[d] # "none" \/ d \in entries'[parent[d]]
    BY <2>1, <2>4, <2>5 DEF VisitInv
  <2> QED BY <2>1, <2>6, <2>7 DEF VisitInv
<1>4. CASE Recurse
  <2>1. PICK s \in entries[cur] :
            /\ entries' = [entries EXCEPT ![cur] = @ \ {s}]
            /\ mainPc' = "enter" /\ cur' = s
    BY <1>4 DEF Recurse
  <2>2. mainPc = "readdir" /\ UNCHANGED agent BY <1>4 DEF Recurse, agentVars
  <2>3. s \in Dirs \ {Root} /\ parent[s] = cur BY <1>0, <2>1 DEF IInv, TraversalInv, Subdirs
  <2>4. \A d \in Dirs : entries'[d] = IF d = cur THEN entries[d] \ {s} ELSE entries[d]
    BY <1>0, <2>1
  <2>5. ASSUME NEW d \in Dirs, OnStack(d) PROVE OnStack(d)'
    <3> SUFFICES ASSUME NEW S \in SUBSET Dirs, cur' \in S,
                        \A e \in S \ {Root} : parent[e] \in S
                 PROVE  d \in S
      BY DEF OnStack
    <3>1. cur \in S BY <2>1, <2>3
    <3> QED BY <2>5, <3>1 DEF OnStack
  <2>6. \A d \in Dirs : entries'[d] # {} => OnStack(d)' BY <2>4, <2>5 DEF VisitInv
  <2>7. \A d \in Dirs \ {Root} : agent[parent[d]] # "none" =>
            agent[d] # "none" \/ d \in entries'[parent[d]] \/ d = s
    <3>1. \A d \in Dirs \ {Root} : agent[parent[d]] # "none" =>
              agent[d] # "none" \/ d \in entries[parent[d]]
      BY <2>2 DEF VisitInv
    <3> SUFFICES ASSUME NEW d \in Dirs \ {Root}, d \in entries[parent[d]], d # s
                 PROVE  d \in entries'[parent[d]]
      BY <3>1
    <3>2. parent[d] \in Dirs OBVIOUS
    <3>3. entries'[parent[d]] = IF parent[d] = cur THEN entries[parent[d]] \ {s} ELSE entries[parent[d]]
      BY <2>4, <3>2
    <3> QED BY <3>3
  <2>8. agent[Root] # "none" BY <2>2 DEF VisitInv
  <2> QED BY <2>1, <2>2, <2>6, <2>7, <2>8 DEF VisitInv
<1>5. CASE CloseDir
  BY <1>5, VisitReturn DEF CloseDir, agentVars
<1>6. CASE ForkCollector
  <2>1. mainPc = "fork" /\ mainPc' = "closeRead" /\ UNCHANGED <<entries, agent>>
    BY <1>6 DEF ForkCollector, agentVars
  <2>2. \A d \in Dirs : agent[d] = "none" BY <2>1 DEF IInv, TraversalInv
  <2>3. \A d \in Dirs : entries[d] = {} BY <2>1 DEF VisitInv
  <2> QED BY <2>1, <2>2, <2>3 DEF VisitInv
<1>7. CASE CloseReadEnd
  <2>1. mainPc = "closeRead" /\ mainPc' = "enter" /\ UNCHANGED <<cur, entries, agent>>
    BY <1>7 DEF CloseReadEnd, agentVars
  <2>2. cur = Root /\ \A d \in Dirs : agent[d] = "none" BY <2>1 DEF IInv, TraversalInv
  <2>3. \A d \in Dirs : entries[d] = {} BY <2>1 DEF VisitInv
  <2> QED BY <2>1, <2>2, <2>3 DEF VisitInv
<1>8. CASE CloseWriteEnd \/ WaitForCollector
  <2>1. /\ mainPc \in {"drain", "waitCollector"} /\ UNCHANGED <<cur, entries, agent>>
        /\ mainPc' \in {"waitCollector", "exitSuccess", "exitFailure"}
    BY <1>8 DEF CloseWriteEnd, WaitForCollector, agentVars
  <2>2. \A d \in Dirs : entries[d] = {} BY <2>1 DEF VisitInv
  <2> QED BY <2>1, <2>2 DEF VisitInv
<1> QED BY <1>1, <1>2, <1>3, <1>4, <1>5, <1>6, <1>7, <1>8 DEF main, traverse_dir

LEMMA ReportInitially == Init => LineInv /\ ReportInv /\ VisitInv
<1> SUFFICES ASSUME Init PROVE LineInv /\ ReportInv /\ VisitInv
    OBVIOUS
<1> USE AnalyzerAssumption DEF Init
<1>1. \A f \in Files : f \in todo[dirOf[f]] /\ ~InPipe(f) BY DEF FilesOf, InPipe
<1>2. LineInv
  <2>1. Len(pipe) = 0 OBVIOUS
  <2>2. \A d \in Dirs : todo[d] = FilesOf(d) OBVIOUS
  <2>3. skipped = {} /\ \A f \in Files : output[f] = 0 OBVIOUS
  <2> HIDE DEF Init
  <2> QED BY <1>1, <2>1, <2>2, <2>3 DEF LineInv
<1>3. ReportInv BY DEF ReportInv
<1>4. VisitInv BY DEF VisitInv
<1> QED BY <1>2, <1>3, <1>4

LEMMA ReportStep ==
    ASSUME IInv, ReportInv, [Next]_vars
    PROVE  ReportInv'
<1>1. CASE UNCHANGED vars
  BY <1>1 DEF vars, procVars, mainVars, agentVars, collectorVars, pipeVars, ReportInv,
              CollectorReliable, FilesOf
<1> QED BY <1>1, ReportAgentStep, ReportCollectorStep, ReportMainStep DEF Next, Exited

LEMMA VisitStep ==
    ASSUME IInv, VisitInv, [Next]_vars
    PROVE  VisitInv'
<1>0. faults' = faults BY DEF Next, Exited, vars
<1>1. CASE faults # {} BY <1>0, <1>1 DEF VisitInv
<1>2. ASSUME UNCHANGED <<mainVars, agent>> PROVE VisitInv'
  BY <1>0, <1>2, VisitFrame DEF mainVars
<1>3. CASE UNCHANGED vars BY <1>2, <1>3 DEF vars, procVars, agentVars
<1>4. CASE run_collector BY <1>2, <1>4 DEF run_collector, agentVars
<1>5. ASSUME NEW d \in Dirs, run_agent(d) PROVE VisitInv'
  <2>1. UNCHANGED <<mainPc, cur, entries>> BY <1>5 DEF run_agent, mainVars
  <2>2. \A e \in Dirs : agent'[e] = "none" <=> agent[e] = "none"
    BY <1>5 DEF run_agent, AgentOpensDir, AgentReports, AgentSkips, AgentGetsSigpipe,
                AgentFinishes, AgentEnds, IInv, TypeOK
  <2> QED BY <1>0, <2>1, <2>2, VisitFrame
<1>6. CASE main /\ faults = {} BY <1>0, <1>6, VisitMainStep
<1> QED BY <1>1, <1>3, <1>4, <1>5, <1>6 DEF Next, Exited

\* A traversal without failures that has ended has given every directory an agent.
LEMMA AllVisited ==
    ASSUME VisitInv, faults = {}, mainPc = "exitSuccess"
    PROVE  \A d \in Dirs : agent[d] # "none"
<1> DEFINE S == {d \in Dirs : agent[d] # "none"}
<1>1. Root \in S BY AnalyzerAssumption DEF VisitInv
<1>2. \A d \in Dirs : entries[d] = {} BY DEF VisitInv
<1>3. \A d \in Dirs \ {Root} : parent[d] \in S => d \in S
  BY <1>2, AnalyzerAssumption DEF VisitInv
<1>4. S = Dirs BY <1>1, <1>3, TreeAssumption
<1> QED BY <1>4

\* What exit status 0 says of the report, for every tree and whatever fails: no
\* line is there twice, a directory is reported but for the files its agent
\* passed over or not at all, and without failures every file is reported once.
THEOREM ReportCorrect == Spec => []ReportComplete
<1> DEFINE Inv == IInv /\ LineInv /\ ReportInv /\ VisitInv
<1>1. Init => Inv BY InitIInv, ReportInitially
<1>2. Inv /\ [Next]_vars => Inv'
  <2>1. IInv /\ [Next]_vars => IInv'
    BY MainStep, CollectorStep, AgentStep, StutterStep DEF Next, Exited
  <2> QED BY <2>1, LineStep, ReportStep, VisitStep
<1>3. ASSUME Inv PROVE ReportComplete
  <2> SUFFICES ASSUME mainPc = "exitSuccess", NEW d \in Dirs
               PROVE  \/ \A f \in FilesOf(d) : output[f] = IF f \in skipped THEN 0 ELSE 1
                      \/ faults # {} /\ \A f \in FilesOf(d) : output[f] = 0
                      \/ ~CollectorReliable /\ \A f \in FilesOf(d) : output[f] <= 1
    BY DEF ReportComplete
  <2>1. \A f \in FilesOf(d) : f \in Files /\ dirOf[f] = d BY DEF FilesOf
  <2>2. CASE ~CollectorReliable
    <3>1. \A f \in Files : output[f] = 0 \/ output[f] = 1 BY <1>3 DEF LineInv
    <3> QED BY <2>1, <2>2, <3>1
  <2>3. CASE CollectorReliable
    <3>1. collector = "reaped" /\ pipe = << >> BY <1>3, <2>3 DEF IInv, WriteEndInv
    <3>2. \A f \in Files : ~InPipe(f) BY <3>1 DEF InPipe
    <3>3. todo[d] = {} => \A f \in FilesOf(d) : output[f] = IF f \in skipped THEN 0 ELSE 1
      BY <1>3, <2>1, <3>2 DEF LineInv
    <3>4. todo[d] = FilesOf(d) => \A f \in FilesOf(d) : output[f] = 0
      BY <1>3, <2>1 DEF LineInv
    <3>5. EofIsEnd BY <1>3, IInvEof
    <3>6. agent[d] \in {"none", "reaped"} BY <2>3, <3>1, <3>5 DEF EofIsEnd
    <3>7. CASE agent[d] = "none"
      <4>1. todo[d] = FilesOf(d) BY <1>3, <3>7 DEF ReportInv
      <4>2. faults # {} BY <1>3, <3>7, AllVisited
      <4> QED BY <3>4, <4>1, <4>2
    <3>8. CASE agent[d] = "reaped"
      <4>1. todo[d] = {} \/ ("opendir" \in faults /\ todo[d] = FilesOf(d))
        BY <1>3, <2>3, <3>8 DEF ReportInv
      <4> QED BY <3>3, <3>4, <4>1
    <3> QED BY <3>6, <3>7, <3>8
  <2> QED BY <2>2, <2>3
<1> QED BY <1>1, <1>2, <1>3, PTL DEF Spec

-----------------------------------------------------------------------------
(* The manager implements the pool. *)

PoolFinished == {d \in Dirs : agent[d] = "reaped"}
PoolClosed == mainPc \in {"waitCollector", "exitSuccess", "exitFailure"}

\* A step that forks and reaps nobody is Close or a stutter of the pool, and so
\* is every step after which the collector may have died.
LEMMA PoolQuiet ==
    ASSUME IInv, Unreaped' = Unreaped, PoolFinished' = PoolFinished, faults' = faults,
           PoolClosed' = PoolClosed \/ (~PoolClosed /\ PoolClosed' /\ Unreaped = {})
    PROVE  [Pool!Next]_(Pool!vars)
BY DEF Pool!Next, Pool!Close, Pool!vars, PoolFinished, PoolClosed, Reliably, CollectorReliable

LEMMA PoolReap ==
    ASSUME IInv, mainPc \in Counting, active_agents > 0, wait_for_one_child,
           CollectorReliable, faults' = faults
    PROVE  [Pool!Next]_(Pool!vars)
<1>1. PICK d \in Dirs : /\ agent[d] = "zombie"
                        /\ agent' = [agent EXCEPT ![d] = "reaped"]
                        /\ mainPc' = mainPc
  BY WaitReaps
<1>2. Unreaped' = Unreaped \ {d} /\ d \in Unreaped BY <1>1 DEF Unreaped, IInv, TypeOK
<1>3. PoolFinished' = PoolFinished \cup {d} BY <1>1 DEF PoolFinished, IInv, TypeOK
<1>4. Pool!Finish(d) BY <1>1, <1>2, <1>3 DEF Pool!Finish, PoolFinished, Reliably, CollectorReliable
<1> QED BY <1>4 DEF Pool!Next

LEMMA PoolStep ==
    ASSUME IInv, [Next]_vars
    PROVE  [Pool!Next]_(Pool!vars)
<1> USE DEF IInv
<1>0. faults' = faults BY DEF Next, Exited, vars
<1> USE <1>0
<1>u. CASE ~CollectorReliable
  BY <1>u DEF Pool!vars, Reliably, CollectorReliable
<1>1. ASSUME UNCHANGED <<mainPc, agent>> PROVE [Pool!Next]_(Pool!vars)
  BY <1>1, PoolQuiet DEF Unreaped, PoolFinished, PoolClosed
<1>2. CASE UNCHANGED vars BY <1>1, <1>2 DEF vars, procVars, mainVars, agentVars
<1>3. CASE Exited BY <1>1, <1>3 DEF Exited, vars, procVars, mainVars, agentVars
<1>4. CASE run_collector BY <1>1, <1>4 DEF run_collector, mainVars, agentVars
<1>5. ASSUME NEW d \in Dirs, run_agent(d) PROVE [Pool!Next]_(Pool!vars)
  <2>1. /\ agent[d] \in {"started", "reading"} /\ mainPc' = mainPc
        /\ agent' = agent \/ agent' = [agent EXCEPT ![d] = "reading"]
                          \/ agent' = [agent EXCEPT ![d] = "zombie"]
    BY <1>5 DEF run_agent, mainVars, AgentOpensDir, AgentReports, AgentSkips, AgentGetsSigpipe,
                AgentFinishes, AgentEnds
  <2>2. Unreaped' = Unreaped BY <2>1 DEF Unreaped, TypeOK
  <2>3. PoolFinished' = PoolFinished BY <2>1 DEF PoolFinished, TypeOK
  <2> QED BY <2>1, <2>2, <2>3, PoolQuiet DEF PoolClosed
<1>6. CASE main /\ CollectorReliable
  <2>1. CASE WaitForSlot
    BY <1>6, <2>1, PoolReap, AnalyzerAssumption DEF WaitForSlot, SlotFree, Counting, TypeOK
  <2>2. CASE WaitForAgents BY <1>6, <2>2, PoolReap DEF WaitForAgents, Counting
  <2>3. CASE ForkAgent /\ agent' # agent
    <3>1. /\ agent' = [agent EXCEPT ![cur] = "started"] /\ agent[cur] = "none" /\ cur \in Dirs
          /\ mainPc = "enter" /\ mainPc' = "opendir" /\ active_agents < max_agents
      BY <2>3 DEF ForkAgent, ForkFails, SlotFree, TypeOK, TraversalInv
    <3>2. Unreaped' = Unreaped \cup {cur} /\ cur \notin Unreaped BY <3>1 DEF Unreaped, TypeOK
    <3>3. PoolFinished' = PoolFinished /\ cur \notin PoolFinished BY <3>1 DEF PoolFinished, TypeOK
    <3>a. Pool!Cardinality(Unreaped) = Cardinality(Unreaped)
      BY DEF Pool!Cardinality, Cardinality
    <3>4. Pool!Cardinality(Unreaped) < max_agents BY <1>6, <3>1, <3>a DEF CounterExact, TypeOK, WriteEndInv
    <3>5. ~PoolClosed /\ PoolClosed' = PoolClosed BY <3>1 DEF PoolClosed
    <3>6. Pool!Start(cur)
      BY <1>6, <3>2, <3>3, <3>4, <3>5 DEF Pool!Start, PoolFinished, PoolClosed, Reliably, CollectorReliable
    <3> QED BY <3>1, <3>6 DEF Pool!Next
  <2>4. CASE CloseWriteEnd
    <3>1. Unreaped = {} BY <1>6, <2>4, UnreapedFinite DEF CloseWriteEnd, CounterExact, TypeOK, WriteEndInv
    <3>2. UNCHANGED agent /\ mainPc = "drain" /\ mainPc' = "waitCollector"
      BY <2>4 DEF CloseWriteEnd, agentVars
    <3> QED BY <3>1, <3>2, PoolQuiet DEF Unreaped, PoolFinished, PoolClosed
  <2>5. CASE ForkCollector
    <3>1. Unreaped = {} /\ mainPc = "fork" BY <2>5 DEF ForkCollector, TraversalInv, Unreaped
    <3>2. UNCHANGED agent BY <2>5 DEF ForkCollector, agentVars
    <3> QED BY <3>1, <3>2, PoolQuiet, <2>5 DEF ForkCollector, Unreaped, PoolFinished, PoolClosed
  <2>6. CASE /\ UNCHANGED agent
             /\ PoolClosed' = PoolClosed
    BY <2>6, PoolQuiet DEF Unreaped, PoolFinished
  <2>7. CASE CloseReadEnd \/ WaitForCollector \/ OpenDir \/ Recurse \/ CloseDir
             \/ (ForkAgent /\ agent' = agent)
    BY <2>6, <2>7 DEF CloseReadEnd, WaitForCollector, OpenDir, Recurse, CloseDir, ForkAgent,
                      ForkFails, Return, agentVars, PoolClosed
  <2> QED BY <1>6, <2>1, <2>2, <2>3, <2>4, <2>5, <2>7 DEF main, traverse_dir
<1> QED BY <1>u, <1>2, <1>3, <1>4, <1>5, <1>6 DEF Next

\* For every tree and limit the manager implements the pool: one agent per
\* directory, never more than the limit, and none left when it closes.
THEOREM PoolImplemented == Spec => ImplementsPool
<1>1. Init => Pool!Init
  BY DEF Init, Pool!Init, Unreaped, Reliably
<1> QED BY <1>1, PoolStep, Inductive, PTL DEF Spec, ImplementsPool, Pool!Spec

-----------------------------------------------------------------------------
(* Nobody waits in a circle. *)

\* Exactly who may hold the ends of the pipe: main drops its read end before it
\* forks an agent, the collector its write end before it reads, and the kernel
\* closes what a process that ends held.
HoldersInv ==
    /\ readers \subseteq {"main", "collector"}
    /\ "main" \in readers => mainPc \in {"fork", "closeRead"}
    /\ "collector" \in readers => collector \in {"started", "open", "reading"}
    /\ "collector" \in writers => collector = "started"
    /\ mainPc \notin {"fork", "exitSuccess", "exitFailure"} => collector # "none"
    /\ \A d \in Dirs : d \in writers => agent[d] \in {"started", "reading"}

LEMMA HoldersInitially == Init => HoldersInv
BY AnalyzerAssumption DEF Init, HoldersInv

LEMMA HoldersAgentStep ==
    ASSUME IInv, HoldersInv, NEW d \in Dirs, run_agent(d)
    PROVE  HoldersInv'
<1> USE AnalyzerAssumption
<1>1. /\ UNCHANGED <<mainPc, collector, readers>>
      /\ \/ agent' = agent /\ writers' = writers
         \/ agent' = [agent EXCEPT ![d] = "reading"] /\ writers' = writers
         \/ agent' = [agent EXCEPT ![d] = "zombie"] /\ writers' = writers \ {d}
  BY DEF run_agent, mainVars, collectorVars, pipeVars, AgentOpensDir, AgentReports, AgentSkips,
         AgentGetsSigpipe, AgentFinishes, AgentEnds
<1>2. agent \in [Dirs -> AgentStates] BY DEF IInv, TypeOK
<1>3. \A e \in Dirs : e \in writers' => agent'[e] \in {"started", "reading"}
  BY <1>1, <1>2 DEF HoldersInv
<1> QED BY <1>1, <1>3 DEF HoldersInv

LEMMA HoldersCollectorStep ==
    ASSUME IInv, HoldersInv, run_collector
    PROVE  HoldersInv'
<1>1. /\ UNCHANGED <<mainPc, agent>>
      /\ collector \in {"started", "open", "reading"}
      /\ \/ collector' \in {"open", "reading"} /\ readers' = readers
         \/ collector' = "zombie" /\ readers' = readers \ {"collector"}
      /\ \/ collector = "started" /\ writers' = writers \ {"collector"}
         \/ collector # "started" /\ writers' = writers
  BY DEF run_collector, mainVars, agentVars, pipeVars, CollectorClosesWriteEnd,
         CollectorOpensStream, CollectorFails, CollectorCopiesLine, CollectorSeesEof, CollectorEnds
<1> QED BY <1>1 DEF HoldersInv

LEMMA HoldersMainStep ==
    ASSUME IInv, HoldersInv, main
    PROVE  HoldersInv'
<1> USE AnalyzerAssumption
<1>0. agent \in [Dirs -> AgentStates] /\ cur \in Dirs BY DEF IInv, TypeOK
<1>1. CASE WaitForSlot \/ WaitForAgents
  <2>1. /\ UNCHANGED <<mainPc, readers, writers>>
        /\ \/ \E d \in Dirs : /\ agent[d] = "zombie"
                             /\ agent' = [agent EXCEPT ![d] = "reaped"]
                             /\ UNCHANGED collector
           \/ collector = "zombie" /\ collector' = "reaped" /\ UNCHANGED agent
           \/ UNCHANGED <<agent, collector>>
    BY <1>1 DEF WaitForSlot, WaitForAgents, wait_for_one_child, pipeVars
  <2>2. \A e \in Dirs : agent[e] \in {"started", "reading"} => agent'[e] = agent[e]
    BY <1>0, <2>1
  <2> QED BY <2>1, <2>2 DEF HoldersInv
<1>2. CASE ForkAgent
  <2>1. /\ UNCHANGED <<collector, readers>>
        /\ mainPc = "enter"
        /\ \/ UNCHANGED <<agent, writers>>
           \/ agent' = [agent EXCEPT ![cur] = "started"] /\ writers' = writers \cup {cur}
    BY <1>2 DEF ForkAgent, ForkFails, collectorVars
  <2>2. \A e \in Dirs : e \in writers' => agent'[e] \in {"started", "reading"}
    BY <1>0, <2>1 DEF HoldersInv
  <2>3. "collector" \in writers' => "collector" \in writers BY <1>0, <2>1
  <2> QED BY <2>1, <2>2, <2>3 DEF HoldersInv
<1>3. CASE OpenDir \/ Recurse \/ CloseDir
  BY <1>3 DEF OpenDir, Recurse, CloseDir, Return, agentVars, collectorVars, pipeVars, HoldersInv
<1>4. CASE ForkCollector
  <2>1. /\ UNCHANGED agent /\ mainPc = "fork"
        /\ \/ /\ collector' = "started" /\ mainPc' = "closeRead"
              /\ readers' = readers \cup {"collector"} /\ writers' = writers \cup {"collector"}
           \/ mainPc' = "exitFailure" /\ readers' = {} /\ writers' = {}
    BY <1>4 DEF ForkCollector, agentVars
  <2>2. readers' \subseteq {"main", "collector"} BY <2>1 DEF HoldersInv
  <2>3. \A d \in Dirs : d \in writers' => d \in writers BY <2>1
  <2> QED BY <2>1, <2>2, <2>3 DEF HoldersInv
<1>5. CASE CloseReadEnd \/ CloseWriteEnd
  BY <1>5 DEF CloseReadEnd, CloseWriteEnd, agentVars, collectorVars, HoldersInv
<1>6. CASE WaitForCollector
  BY <1>6 DEF WaitForCollector, agentVars, pipeVars, HoldersInv
<1> QED BY <1>1, <1>2, <1>3, <1>4, <1>5, <1>6 DEF main, traverse_dir

LEMMA HoldersStep ==
    ASSUME IInv, HoldersInv, [Next]_vars
    PROVE  HoldersInv'
<1>1. CASE UNCHANGED vars
  BY <1>1 DEF vars, procVars, mainVars, agentVars, collectorVars, pipeVars, HoldersInv
<1> QED BY <1>1, HoldersAgentStep, HoldersCollectorStep, HoldersMainStep DEF Next, Exited

\* An agent that waits has a reader to wait for, and lines for it: it is the
\* collector, which can copy one.
LEMMA BlockedAgentHasReader ==
    ASSUME IInv, HoldersInv, NEW d \in Dirs, AgentWaits(d),
           mainPc \notin {"fork", "closeRead"}
    PROVE  collector \in {"started", "open", "reading"} /\ pipe # << >>
<1>1. "collector" \in readers BY DEF HoldersInv, AgentWaits
<1>2. Len(pipe) >= PipeCapacity /\ PipeCapacity \in Nat \ {0} /\ pipe \in Seq(Files)
  BY AnalyzerAssumption DEF AgentWaits, IInv, TypeOK
<1>3. Len(pipe) # 0 BY <1>2
<1>4. pipe # << >> BY <1>3
<1> QED BY <1>1, <1>4 DEF HoldersInv

\* Whatever the tree, the limit and the capacity, and whatever fails: main, the
\* agents and the collector never all wait for each other.
THEOREM NeverStuck == Spec => []NoCircularWait
<1>1. Init => IInv /\ HoldersInv BY InitIInv, HoldersInitially
<1>2. IInv /\ HoldersInv /\ [Next]_vars => IInv' /\ HoldersInv'
  <2>1. IInv /\ [Next]_vars => IInv'
    BY MainStep, CollectorStep, AgentStep, StutterStep DEF Next, Exited
  <2> QED BY <2>1, HoldersStep
<1>3. ASSUME IInv, HoldersInv PROVE NoCircularWait
  <2> USE <1>3
  <2> SUFFICES ASSUME MainWaits,
                      \A d \in Dirs : agent[d] \in {"started", "reading"} => AgentWaits(d),
                      collector \in {"started", "open", "reading"} => CollectorWaits
               PROVE  FALSE
    BY DEF NoCircularWait
  <2>0. mainPc \in {"enter", "drain", "waitCollector"} BY DEF MainWaits
  <2>1. \A d \in Dirs : agent[d] \notin {"started", "reading"}
    <3> SUFFICES ASSUME NEW d \in Dirs, agent[d] \in {"started", "reading"} PROVE FALSE
        OBVIOUS
    <3>1. AgentWaits(d) OBVIOUS
    <3>2. collector \in {"started", "open", "reading"} /\ pipe # << >>
      BY <2>0, <3>1, BlockedAgentHasReader
    <3> QED BY <3>2 DEF CollectorWaits
  <2>2. CASE mainPc = "waitCollector"
    <3>1. collector \notin {"zombie", "reaped", "none"}
      BY <2>2 DEF MainWaits, HoldersInv
    <3>2. CollectorWaits BY <3>1 DEF IInv, TypeOK
    <3>3. writers # {} /\ "main" \notin writers /\ "collector" \notin writers
      BY <2>2, <3>2 DEF CollectorWaits, HoldersInv, IInv, WriteEndInv, Counting
    <3>4. PICK d \in Dirs : d \in writers
      BY <3>3 DEF IInv, TypeOK, Processes
    <3> QED BY <2>1, <3>4 DEF HoldersInv
  <2>3. CASE mainPc \in {"enter", "drain"}
    <3>1. active_agents > 0 /\ \A d \in Dirs : agent[d] # "zombie"
      BY <2>3, AnalyzerAssumption DEF MainWaits, SlotFree, IInv, TypeOK
    <3>2. Unreaped = {} BY <2>1, <3>1 DEF Unreaped
    <3>3. Cardinality(Unreaped) = 0 BY <3>2, UnreapedFinite
    <3> QED BY <3>1, <3>3 DEF IInv, TypeOK, CounterExact
  <2> QED BY <2>0, <2>2, <2>3
<1> QED BY <1>1, <1>2, <1>3, PTL DEF Spec

-----------------------------------------------------------------------------
(* The analysis ends. *)

\* What a set loses a number loses.
LEMMA Fewer ==
    ASSUME NEW S, IsFiniteSet(S), NEW A \in SUBSET S, NEW B \in SUBSET S, B \subseteq A
    PROVE  /\ Cardinality(A) \in Nat /\ Cardinality(B) \in Nat
           /\ Cardinality(B) <= Cardinality(A)
           /\ B # A => Cardinality(B) <= Cardinality(A) - 1
<1>1. IsFiniteSet(A) BY FS_Subset
<1>2. B \in SUBSET A OBVIOUS
<1>3. IsFiniteSet(B) /\ Cardinality(B) <= Cardinality(A) /\ (Cardinality(A) = Cardinality(B) => A = B)
  BY <1>1, <1>2, FS_Subset
<1>4. Cardinality(A) \in Nat /\ Cardinality(B) \in Nat BY <1>1, <1>3, FS_CardinalityType
<1>5. \A a, b \in Nat : b <= a /\ a # b => b <= a - 1 OBVIOUS
<1> QED BY <1>3, <1>4, <1>5

Behind(states) == {d \in Dirs : agent[d] \in states}
Unwritten == {f \in Files : f \in todo[dirOf[f]]}
Active == {d \in Dirs : OnStack(d)}

\* What is left is a number, and so are its parts.
Numbers ==
    /\ AgentsLeft \in Nat /\ LinesLeft \in Nat /\ CollectorLeft \in Nat /\ MainLeft \in Nat
    /\ Len(pipe) \in Nat /\ Cardinality(Unwritten) \in Nat /\ StatementsLeft \in Nat
    /\ Cardinality(ToEnter) \in Nat /\ Cardinality(Active) \in Nat

LEMMA WorkNumbers == TypeOK => Numbers
<1> SUFFICES ASSUME TypeOK PROVE Numbers OBVIOUS
<1> USE AnalyzerAssumption, FilesAssumption
<1>1. \A T \in SUBSET Dirs : Cardinality(T) \in Nat BY FS_Subset, FS_CardinalityType
<1>2. \A T \in SUBSET Files : Cardinality(T) \in Nat BY FS_Subset, FS_CardinalityType
<1>3. AgentsLeft \in Nat
  <2>1. \A states : NotPast(states) \in Nat
    <3> SUFFICES ASSUME NEW states PROVE NotPast(states) \in Nat OBVIOUS
    <3>1. Behind(states) \in SUBSET Dirs BY DEF Behind
    <3> QED BY <1>1, <3>1 DEF NotPast, Behind
  <2>2. \A a, b, c, d \in Nat : a + b + c + d \in Nat OBVIOUS
  <2> QED BY <2>1, <2>2, Zenon DEF AgentsLeft
<1>4. Len(pipe) \in Nat BY DEF TypeOK
<1>5. Cardinality(Unwritten) \in Nat
  <2>1. Unwritten \in SUBSET Files BY DEF Unwritten
  <2> QED BY <1>2, <2>1
<1>6. LinesLeft \in Nat
  <2>1. \A a, b \in Nat : 2 * a + b \in Nat OBVIOUS
  <2> QED BY <1>4, <1>5, <2>1, Zenon DEF LinesLeft, Unwritten
<1>7. CollectorLeft \in Nat /\ StatementsLeft \in Nat BY DEF CollectorLeft, StatementsLeft
<1>8. Cardinality(ToEnter) \in Nat /\ Cardinality(Active) \in Nat
  <2>1. ToEnter \in SUBSET Dirs /\ Active \in SUBSET Dirs BY DEF ToEnter, Active
  <2> QED BY <1>1, <2>1
<1>9. MainLeft \in Nat
  <2>1. \A a, b, c \in Nat : 4 * a + b + c \in Nat OBVIOUS
  <2> QED BY <1>7, <1>8, <2>1, Zenon DEF MainLeft, Active
<1> QED BY <1>3, <1>4, <1>5, <1>6, <1>7, <1>8, <1>9 DEF Numbers

LEMMA WorkNumbersNext == TypeOK' => Numbers'
BY WorkNumbers, PTL

\* What a step must do: one part shrinks and none grows.
LEMMA WorkShrinks ==
    ASSUME TypeOK, TypeOK',
           AgentsLeft' = AgentsLeft \/ AgentsLeft' < AgentsLeft,
           LinesLeft' = LinesLeft \/ LinesLeft' < LinesLeft,
           CollectorLeft' = CollectorLeft \/ CollectorLeft' < CollectorLeft,
           MainLeft' = MainLeft \/ MainLeft' < MainLeft,
           \/ AgentsLeft' < AgentsLeft
           \/ LinesLeft' < LinesLeft
           \/ CollectorLeft' < CollectorLeft
           \/ MainLeft' < MainLeft
    PROVE  Work' \in 0 .. Work - 1
<1>1. /\ AgentsLeft \in Nat /\ LinesLeft \in Nat /\ CollectorLeft \in Nat /\ MainLeft \in Nat
      /\ AgentsLeft' \in Nat /\ LinesLeft' \in Nat /\ CollectorLeft' \in Nat /\ MainLeft' \in Nat
  BY WorkNumbers, WorkNumbersNext DEF Numbers
<1>2. \A a, b, c, d, e, f, g, h \in Nat :
        /\ e = a \/ e < a
        /\ f = b \/ f < b
        /\ g = c \/ g < c
        /\ h = d \/ h < d
        /\ e < a \/ f < b \/ g < c \/ h < d
        =>
            e + f + g + h \in 0 .. (a + b + c + d) - 1
  OBVIOUS
<1>3. Work' = AgentsLeft' + LinesLeft' + CollectorLeft' + MainLeft' BY DEF Work
<1>4. Work = AgentsLeft + LinesLeft + CollectorLeft + MainLeft BY DEF Work
<1> QED BY <1>1, <1>2, <1>3, <1>4, Zenon

\* The process of an agent goes on, or an agent is forked or reaped.
LEMMA AgentGoesOn ==
    ASSUME TypeOK, NEW d \in Dirs, NEW state \in AgentStates,
           agent' = [agent EXCEPT ![d] = state],
           \/ agent[d] = "none" /\ state = "started"
           \/ agent[d] = "started" /\ state \in {"reading", "zombie"}
           \/ agent[d] = "reading" /\ state = "zombie"
           \/ agent[d] = "zombie" /\ state = "reaped"
    PROVE  AgentsLeft' < AgentsLeft
<1> USE AnalyzerAssumption
<1> DEFINE N == {"none"}
           S == {"none", "started"}
           R == {"none", "started", "reading"}
           Z == {"none", "started", "reading", "zombie"}
<1>0. agent'[d] = state /\ \A e \in Dirs : e # d => agent'[e] = agent[e] BY DEF TypeOK
<1>1. ASSUME NEW X \in {N, S, R, Z}
      PROVE  /\ NotPast(X) \in Nat /\ NotPast(X)' \in Nat /\ NotPast(X)' <= NotPast(X)
             /\ agent[d] \in X /\ state \notin X => NotPast(X)' <= NotPast(X) - 1
  <2> DEFINE A == {e \in Dirs : agent[e] \in X}
             B == {e \in Dirs : agent'[e] \in X}
  <2>1. state \in X => agent[d] \in X BY <1>1
  <2>2. A \in SUBSET Dirs /\ B \in SUBSET Dirs /\ B \subseteq A BY <1>0, <2>1
  <2>3. agent[d] \in X /\ state \notin X => B # A
    <3> SUFFICES ASSUME agent[d] \in X, state \notin X PROVE d \in A /\ d \notin B OBVIOUS
    <3> QED BY <1>0
  <2>4. NotPast(X) = Cardinality(A) /\ NotPast(X)' = Cardinality(B) BY DEF NotPast
  <2> HIDE DEF A, B
  <2> QED BY <2>2, <2>3, <2>4, Fewer
<1>2. /\ NotPast(N) \in Nat /\ NotPast(N)' \in Nat /\ NotPast(N)' <= NotPast(N)
      /\ agent[d] \in N /\ state \notin N => NotPast(N)' <= NotPast(N) - 1
  BY <1>1
<1>3. /\ NotPast(S) \in Nat /\ NotPast(S)' \in Nat /\ NotPast(S)' <= NotPast(S)
      /\ agent[d] \in S /\ state \notin S => NotPast(S)' <= NotPast(S) - 1
  BY <1>1
<1>4. /\ NotPast(R) \in Nat /\ NotPast(R)' \in Nat /\ NotPast(R)' <= NotPast(R)
      /\ agent[d] \in R /\ state \notin R => NotPast(R)' <= NotPast(R) - 1
  BY <1>1
<1>5. /\ NotPast(Z) \in Nat /\ NotPast(Z)' \in Nat /\ NotPast(Z)' <= NotPast(Z)
      /\ agent[d] \in Z /\ state \notin Z => NotPast(Z)' <= NotPast(Z) - 1
  BY <1>1
<1>6. \/ agent[d] \in N /\ state \notin N
      \/ agent[d] \in S /\ state \notin S
      \/ agent[d] \in R /\ state \notin R
      \/ agent[d] \in Z /\ state \notin Z
  OBVIOUS
<1>7. AgentsLeft = NotPast(N) + NotPast(S) + NotPast(R) + NotPast(Z) BY DEF AgentsLeft
<1>8. AgentsLeft' = NotPast(N)' + NotPast(S)' + NotPast(R)' + NotPast(Z)' BY DEF AgentsLeft
<1>9. \A a, b, c, e, f, g, h, i \in Nat :
        f <= a /\ g <= b /\ h <= c /\ i <= e
        /\ (f <= a - 1 \/ g <= b - 1 \/ h <= c - 1 \/ i <= e - 1) =>
            f + g + h + i < a + b + c + e
  OBVIOUS
<1> HIDE DEF N, S, R, Z
<1> QED BY <1>2, <1>3, <1>4, <1>5, <1>6, <1>7, <1>8, <1>9, Zenon

\* Steps that leave main where it is, and every directory with or without agent.
LEMMA MainStays ==
    ASSUME UNCHANGED <<mainPc, cur, entries>>,
           \A d \in Dirs : agent'[d] = "none" <=> agent[d] = "none"
    PROVE  MainLeft' = MainLeft
<1> USE AnalyzerAssumption
<1>1. \A d \in Dirs \ {Root} : parent[d] \in Dirs OBVIOUS
<1>2. ToEnter' = ToEnter BY <1>1 DEF ToEnter
<1>3. \A d \in Dirs : OnStack(d)' <=> OnStack(d) BY DEF OnStack
<1>4. Active' = Active BY <1>3 DEF Active
<1>5. StatementsLeft' = StatementsLeft BY DEF StatementsLeft
<1>6. MainLeft = 4 * Cardinality(ToEnter) + Cardinality(Active) + StatementsLeft
  BY DEF MainLeft, Active
<1>7. MainLeft' = 4 * Cardinality(ToEnter') + Cardinality(Active') + StatementsLeft'
  BY DEF MainLeft, Active
<1> QED BY <1>2, <1>4, <1>5, <1>6, <1>7

\* The directories on the way from one to the root.
Path(c) ==
    {d \in Dirs : \A S \in SUBSET Dirs :
                      c \in S /\ (\A e \in S \ {Root} : parent[e] \in S) => d \in S}

LEMMA ActiveIsPath == Active = Path(cur) /\ (Active = Path(cur))'
BY DEF Active, OnStack, Path

LEMMA PathStart ==
    ASSUME NEW c \in Dirs
    PROVE  c \in Path(c)
BY DEF Path

LEMMA PathUp ==
    ASSUME NEW c \in Dirs \ {Root}
    PROVE  Path(parent[c]) \subseteq Path(c) /\ Path(c) \subseteq Path(parent[c]) \cup {c}
<1> USE AnalyzerAssumption
<1>1. ASSUME NEW d \in Path(parent[c]), NEW S \in SUBSET Dirs,
             c \in S, \A e \in S \ {Root} : parent[e] \in S
      PROVE  d \in S
  <2>1. parent[c] \in S BY <1>1
  <2> QED BY <1>1, <2>1 DEF Path
<1>2. ASSUME NEW d \in Path(c), d # c, NEW S \in SUBSET Dirs,
             parent[c] \in S, \A e \in S \ {Root} : parent[e] \in S
      PROVE  d \in S
  <2>1. S \cup {c} \in SUBSET Dirs /\ c \in S \cup {c} OBVIOUS
  <2>2. \A e \in (S \cup {c}) \ {Root} : parent[e] \in S \cup {c} BY <1>2
  <2>3. d \in S \cup {c} BY <1>2, <2>1, <2>2 DEF Path
  <2> QED BY <1>2, <2>3
<1>3. Path(parent[c]) \subseteq Path(c) BY <1>1 DEF Path
<1>4. Path(c) \subseteq Path(parent[c]) \cup {c} BY <1>2 DEF Path
<1> QED BY <1>3, <1>4

\* A path is within every path it has a point in common with.
LEMMA PathWithin ==
    ASSUME NEW c \in Dirs, NEW d \in Path(c)
    PROVE  Path(d) \subseteq Path(c)
BY DEF Path

\* No directory is above the one it is in: the tree has no circle.
LEMMA NoCircle ==
    ASSUME NEW c \in Dirs \ {Root}
    PROVE  c \notin Path(parent[c])
<1> USE AnalyzerAssumption
<1> DEFINE T == {d \in Dirs : d # Root => d \notin Path(parent[d])}
<1>1. Root \in T OBVIOUS
<1>2. ASSUME NEW d \in Dirs \ {Root}, parent[d] \in T PROVE d \in T
  <2> SUFFICES ASSUME d \in Path(parent[d]) PROVE FALSE OBVIOUS
  <2> DEFINE p == parent[d]
  <2>0. p \in Dirs /\ p # d OBVIOUS
  <2>1. CASE p = Root
    <3>1. Path(Root) \subseteq {Root}
      <4>1. {Root} \in SUBSET Dirs /\ Root \in {Root} /\ \A e \in {Root} \ {Root} : parent[e] \in {Root}
        OBVIOUS
      <4> QED BY <4>1, Zenon DEF Path
    <3> QED BY <2>1, <3>1
  <2>2. CASE p # Root
    <3> HIDE DEF p
    <3>1. d \in Path(parent[p]) /\ parent[p] \in Dirs
      <4>1. d \in Path(p) BY DEF p
      <4>2. Path(p) \subseteq Path(parent[p]) \cup {p} BY <2>0, <2>2, PathUp
      <4> QED BY <2>0, <2>2, <4>1, <4>2
    <3>2. Path(d) \subseteq Path(parent[p]) BY <3>1, PathWithin
    <3>3. Path(p) \subseteq Path(d) BY PathUp DEF p
    <3>4. p \in Path(p) BY <2>0, PathStart
    <3>5. p \notin Path(parent[p]) BY <1>2, <2>2 DEF p
    <3> QED BY <3>2, <3>3, <3>4, <3>5
  <2> QED BY <2>1, <2>2
<1>3. T = Dirs
  <2>1. T \in SUBSET Dirs OBVIOUS
  <2>2. \A d \in Dirs \ {Root} : parent[d] \in T => d \in T BY <1>2
  <2> HIDE DEF T
  <2> QED BY <1>1, <2>1, <2>2, TreeAssumption
<1> QED BY <1>3

LEMMA EnterLess ==
    ASSUME ToEnter' \subseteq ToEnter
    PROVE  /\ Cardinality(ToEnter') \in Nat /\ Cardinality(ToEnter) \in Nat
           /\ Cardinality(ToEnter') <= Cardinality(ToEnter)
           /\ ToEnter' # ToEnter => Cardinality(ToEnter') <= Cardinality(ToEnter) - 1
<1>1. ToEnter \in SUBSET Dirs /\ ToEnter' \in SUBSET Dirs BY DEF ToEnter
<1> QED BY <1>1, Fewer, AnalyzerAssumption

\* main goes on in the same traverse_dir.
LEMMA MainGoesOn ==
    ASSUME TypeOK, TypeOK', cur' = cur, ToEnter' \subseteq ToEnter
    PROVE  /\ StatementsLeft' <= StatementsLeft => MainLeft' <= MainLeft
           /\ StatementsLeft' < StatementsLeft => MainLeft' < MainLeft
<1>1. Active' = Active BY ActiveIsPath
<1>2. /\ Cardinality(ToEnter') \in Nat /\ Cardinality(ToEnter) \in Nat
      /\ Cardinality(ToEnter') <= Cardinality(ToEnter)
  BY EnterLess
<1>3. StatementsLeft \in Nat /\ StatementsLeft' \in Nat /\ Cardinality(Active) \in Nat
  BY WorkNumbers, WorkNumbersNext DEF Numbers
<1>4. MainLeft = 4 * Cardinality(ToEnter) + Cardinality(Active) + StatementsLeft
  BY DEF MainLeft, Active
<1>5. MainLeft' = 4 * Cardinality(ToEnter') + Cardinality(Active) + StatementsLeft'
  BY <1>1 DEF MainLeft, Active
<1>6. \A a, b, c, d, e \in Nat : b <= a =>
        /\ e <= d => 4 * b + c + e <= 4 * a + c + d
        /\ e < d => 4 * b + c + e < 4 * a + c + d
  OBVIOUS
<1> QED BY <1>2, <1>3, <1>4, <1>5, <1>6, Zenon

\* The recursion returns: the path to cur gets shorter.
LEMMA MainReturns ==
    ASSUME TypeOK, TypeOK', mainPc \in {"enter", "opendir", "readdir"}, Return,
           ToEnter' \subseteq ToEnter
    PROVE  MainLeft' < MainLeft
<1> USE AnalyzerAssumption
<1>0. cur \in Dirs BY DEF TypeOK
<1>1. CASE cur = Root
  <2>1. cur' = cur /\ mainPc' = "drain" BY <1>1 DEF Return
  <2>2. StatementsLeft' < StatementsLeft BY <2>1 DEF StatementsLeft
  <2> QED BY <2>1, <2>2, MainGoesOn
<1>2. CASE cur # Root
  <2>1. cur' = parent[cur] /\ mainPc' = "readdir" BY <1>2 DEF Return
  <2>2. Active' \in SUBSET Dirs /\ Active \in SUBSET Dirs BY DEF Active
  <2>3. Active = Path(cur) /\ Active' = Path(parent[cur]) BY <2>1, ActiveIsPath
  <2>4. Active' \subseteq Active /\ Active' # Active
    BY <1>0, <1>2, <2>3, PathUp, PathStart, NoCircle
  <2>5. /\ Cardinality(Active) \in Nat /\ Cardinality(Active') \in Nat
        /\ Cardinality(Active') <= Cardinality(Active) - 1
    BY <2>2, <2>4, Fewer
  <2>6. /\ Cardinality(ToEnter') \in Nat /\ Cardinality(ToEnter) \in Nat
        /\ Cardinality(ToEnter') <= Cardinality(ToEnter)
    BY EnterLess
  <2>7. StatementsLeft \in Nat /\ StatementsLeft' \in Nat /\ StatementsLeft' <= StatementsLeft
    BY <2>1 DEF StatementsLeft
  <2>8. MainLeft = 4 * Cardinality(ToEnter) + Cardinality(Active) + StatementsLeft
    BY DEF MainLeft, Active
  <2>9. MainLeft' = 4 * Cardinality(ToEnter') + Cardinality(Active') + StatementsLeft'
    BY DEF MainLeft, Active
  <2>10. \A a, b, c, d, e, f \in Nat : b <= a /\ d <= c - 1 /\ f <= e =>
           4 * b + d + f < 4 * a + c + e
    OBVIOUS
  <2> QED BY <2>5, <2>6, <2>7, <2>8, <2>9, <2>10, Zenon
<1> QED BY <1>1, <1>2

\* The recursive call: the path gets longer, and less is left to be entered.  An
\* entry that is passed over is one less to be entered, too.
LEMMA MainRecurses ==
    ASSUME IInv, TypeOK', Recurse
    PROVE  MainLeft' < MainLeft
<1> USE AnalyzerAssumption
<1>0. /\ mainPc = "readdir" /\ agent' = agent /\ agent[cur] # "none"
      /\ cur \in Dirs /\ entries \in [Dirs -> SUBSET Dirs]
  BY DEF Recurse, agentVars, IInv, TypeOK, TraversalInv
<1>1. PICK s \in entries[cur] : /\ entries' = [entries EXCEPT ![cur] = @ \ {s}]
                                /\ \/ mainPc' = "enter" /\ cur' = s
                                   \/ UNCHANGED <<mainPc, cur>>
  BY DEF Recurse
<1>2. s \in Dirs \ {Root} /\ parent[s] = cur /\ agent[s] = "none"
  BY <1>0, <1>1 DEF IInv, TraversalInv, Subdirs
<1>a. mainPc' # "opendir" BY <1>0, <1>1
<1>b. /\ \A d \in Dirs : entries'[d] \subseteq entries[d]
      /\ s \notin entries'[cur]
  BY <1>0, <1>1
<1>3. ToEnter' \subseteq ToEnter
  BY <1>0, <1>a, <1>b DEF ToEnter
<1>4. s \in ToEnter /\ s \notin ToEnter'
  BY <1>0, <1>1, <1>2, <1>a, <1>b DEF ToEnter
<1>5. /\ Cardinality(ToEnter') \in Nat /\ Cardinality(ToEnter) \in Nat
      /\ Cardinality(ToEnter') <= Cardinality(ToEnter) - 1
  <2>1. ToEnter' # ToEnter BY <1>4
  <2> QED BY <1>3, <2>1, EnterLess
<1>6. /\ Cardinality(Active) \in Nat /\ Cardinality(Active') \in Nat
      /\ Cardinality(Active') <= Cardinality(Active) + 1
  <2>1. Active' \subseteq Active \cup {s}
    BY <1>0, <1>1, <1>2, ActiveIsPath, PathUp
  <2>2. Active \in SUBSET Dirs /\ IsFiniteSet(Active) /\ Cardinality(Active) \in Nat
    <3>1. Active \in SUBSET Dirs BY DEF Active
    <3> QED BY <3>1, FS_Subset, FS_CardinalityType
  <2>3. /\ IsFiniteSet(Active \cup {s})
        /\ Cardinality(Active \cup {s}) \in {Cardinality(Active), Cardinality(Active) + 1}
    BY <2>2, FS_AddElement
  <2>4. IsFiniteSet(Active') /\ Cardinality(Active') <= Cardinality(Active \cup {s})
    BY <2>1, <2>3, FS_Subset
  <2>5. Cardinality(Active') \in Nat BY <2>4, FS_CardinalityType
  <2> QED BY <2>2, <2>3, <2>4, <2>5
<1>7. StatementsLeft = 4 /\ StatementsLeft' \in {4, 6} BY <1>0, <1>1 DEF StatementsLeft
<1>8. MainLeft = 4 * Cardinality(ToEnter) + Cardinality(Active) + 4
  BY <1>7 DEF MainLeft, Active
<1>9. \/ MainLeft' = 4 * Cardinality(ToEnter') + Cardinality(Active') + 4
      \/ MainLeft' = 4 * Cardinality(ToEnter') + Cardinality(Active') + 6
  BY <1>7 DEF MainLeft, Active
<1>10. \A a, b, c, d \in Nat : b <= a - 1 /\ d <= c + 1 => 4 * b + d + 4 < 4 * a + c + 4
  OBVIOUS
<1>11. \A a, b, c, d \in Nat : b <= a - 1 /\ d <= c + 1 => 4 * b + d + 6 < 4 * a + c + 4
  OBVIOUS
<1>12. CASE MainLeft' = 4 * Cardinality(ToEnter') + Cardinality(Active') + 4
  BY <1>5, <1>6, <1>8, <1>10, <1>12, Zenon
<1>13. CASE MainLeft' = 4 * Cardinality(ToEnter') + Cardinality(Active') + 6
  BY <1>5, <1>6, <1>8, <1>11, <1>13, Zenon
<1> QED BY <1>9, <1>12, <1>13

\* Each process uses up what is its own.
LEMMA AgentUsesWork ==
    ASSUME IInv, LineInv, TypeOK', NEW d \in Dirs, run_agent(d)
    PROVE  Work' \in 0 .. Work - 1
<1> USE AnalyzerAssumption
<1>0. TypeOK /\ Numbers BY WorkNumbers DEF IInv
<1>1. /\ UNCHANGED <<mainPc, cur, entries, collector>>
      /\ \/ AgentReports(d)
         \/ AgentSkips(d)
         \/ /\ \/ agent[d] = "started" /\ agent' = [agent EXCEPT ![d] = "reading"]
               \/ agent[d] \in {"started", "reading"} /\ agent' = [agent EXCEPT ![d] = "zombie"]
            /\ UNCHANGED <<todo, pipe>>
  BY DEF run_agent, mainVars, collectorVars, pipeVars, AgentOpensDir, AgentGetsSigpipe,
         AgentFinishes, AgentEnds
<1>2. CollectorLeft' = CollectorLeft BY <1>1 DEF CollectorLeft
<1>3. CASE AgentReports(d) \/ AgentSkips(d)
  <2>1. UNCHANGED agent BY <1>3 DEF AgentReports, AgentSkips
  <2>2. AgentsLeft' = AgentsLeft BY <2>1 DEF AgentsLeft, NotPast
  <2>3. MainLeft' = MainLeft BY <1>1, <2>1, MainStays
  <2>4. PICK f \in todo[d] : /\ todo' = [todo EXCEPT ![d] = @ \ {f}]
                             /\ pipe' = Append(pipe, f) \/ pipe' = pipe
    BY <1>3 DEF AgentReports, AgentSkips, pipeVars
  <2>5. f \in Files /\ dirOf[f] = d /\ todo \in [Dirs -> SUBSET Files] /\ pipe \in Seq(Files)
    BY <1>0 DEF LineInv, FilesOf, TypeOK
  <2>6. Unwritten' \subseteq Unwritten /\ f \in Unwritten /\ f \notin Unwritten'
    BY <2>4, <2>5 DEF Unwritten
  <2>7. /\ Cardinality(Unwritten') \in Nat /\ Cardinality(Unwritten) \in Nat
        /\ Cardinality(Unwritten') <= Cardinality(Unwritten) - 1
    <3>1. Unwritten \in SUBSET Files /\ Unwritten' \in SUBSET Files /\ Unwritten' # Unwritten
      BY <2>6 DEF Unwritten
    <3> QED BY <2>6, <3>1, Fewer, FilesAssumption
  <2>8. Len(pipe) \in Nat /\ (Len(pipe') = Len(pipe) + 1 \/ Len(pipe') = Len(pipe)) BY <2>4, <2>5
  <2>9. LinesLeft' < LinesLeft
    <3>1. LinesLeft = 2 * Cardinality(Unwritten) + Len(pipe) BY DEF LinesLeft, Unwritten
    <3>2. \/ LinesLeft' = 2 * Cardinality(Unwritten') + (Len(pipe) + 1)
          \/ LinesLeft' = 2 * Cardinality(Unwritten') + Len(pipe)
      BY <2>8 DEF LinesLeft, Unwritten
    <3>3. \A a, b, c \in Nat : b <= a - 1 => 2 * b + (c + 1) < 2 * a + c OBVIOUS
    <3>4. \A a, b, c \in Nat : b <= a - 1 => 2 * b + c < 2 * a + c OBVIOUS
    <3>5. CASE LinesLeft' = 2 * Cardinality(Unwritten') + (Len(pipe) + 1)
      BY <2>7, <2>8, <3>1, <3>3, <3>5, Zenon
    <3>6. CASE LinesLeft' = 2 * Cardinality(Unwritten') + Len(pipe)
      BY <2>7, <2>8, <3>1, <3>4, <3>6, Zenon
    <3> QED BY <3>2, <3>5, <3>6
  <2> QED BY <1>0, <1>2, <2>2, <2>3, <2>9, WorkShrinks, Zenon
<1>4. CASE ~AgentReports(d) /\ ~AgentSkips(d)
  <2>1. PICK state \in AgentStates : /\ agent' = [agent EXCEPT ![d] = state]
                                     /\ \/ agent[d] = "started" /\ state \in {"reading", "zombie"}
                                        \/ agent[d] = "reading" /\ state = "zombie"
    BY <1>1, <1>4 DEF AgentStates
  <2>2. AgentsLeft' < AgentsLeft BY <1>0, <2>1, AgentGoesOn
  <2>3. \A e \in Dirs : agent'[e] = "none" <=> agent[e] = "none" BY <1>0, <2>1 DEF TypeOK
  <2>4. MainLeft' = MainLeft BY <1>1, <2>3, MainStays
  <2>5. LinesLeft' = LinesLeft BY <1>1, <1>4 DEF LinesLeft
  <2> QED BY <1>0, <1>2, <2>2, <2>4, <2>5, WorkShrinks, Zenon
<1> QED BY <1>3, <1>4

LEMMA CollectorUsesWork ==
    ASSUME TypeOK, TypeOK', run_collector
    PROVE  Work' \in 0 .. Work - 1
<1>0. Numbers BY WorkNumbers
<1>1. UNCHANGED <<mainPc, cur, entries, agent, todo>> BY DEF run_collector, mainVars, agentVars
<1>2. AgentsLeft' = AgentsLeft BY <1>1 DEF AgentsLeft, NotPast
<1>3. MainLeft' = MainLeft BY <1>1, MainStays
<1>4. CASE CollectorCopiesLine
  <2>1. UNCHANGED collector /\ pipe # << >> /\ pipe' = Tail(pipe) BY <1>4 DEF CollectorCopiesLine
  <2>2. CollectorLeft' = CollectorLeft BY <2>1 DEF CollectorLeft
  <2>3. pipe \in Seq(Files) BY DEF TypeOK
  <2>4. Len(pipe) \in Nat /\ Len(pipe') = Len(pipe) - 1 BY <2>1, <2>3
  <2>5. LinesLeft' < LinesLeft
    <3>1. LinesLeft = 2 * Cardinality(Unwritten) + Len(pipe) BY DEF LinesLeft, Unwritten
    <3>2. LinesLeft' = 2 * Cardinality(Unwritten) + (Len(pipe) - 1)
      BY <1>1, <2>4 DEF LinesLeft, Unwritten
    <3>3. \A a, b \in Nat : 2 * a + (b - 1) < 2 * a + b OBVIOUS
    <3>4. Cardinality(Unwritten) \in Nat BY <1>0 DEF Numbers
    <3> QED BY <2>4, <3>1, <3>2, <3>3, <3>4, Zenon
  <2> QED BY <1>0, <1>2, <1>3, <2>2, <2>5, WorkShrinks, Zenon
<1>5. CASE ~CollectorCopiesLine
  <2>1. /\ UNCHANGED pipe
        /\ \/ collector = "started" /\ collector' = "open"
           \/ collector = "open" /\ collector' \in {"reading", "zombie"}
           \/ collector = "reading" /\ collector' = "zombie"
    BY <1>5 DEF run_collector, CollectorClosesWriteEnd, CollectorOpensStream, CollectorFails,
                CollectorSeesEof, CollectorEnds, pipeVars
  <2>2. CollectorLeft' < CollectorLeft BY <2>1 DEF CollectorLeft
  <2>3. LinesLeft' = LinesLeft BY <1>1, <2>1 DEF LinesLeft
  <2> QED BY <1>0, <1>2, <1>3, <2>2, <2>3, WorkShrinks, Zenon
<1> QED BY <1>4, <1>5

LEMMA WaitUsesWork ==
    ASSUME IInv, TypeOK', WaitForSlot \/ WaitForAgents
    PROVE  Work' \in 0 .. Work - 1
<1> USE AnalyzerAssumption
<1>0. TypeOK /\ Numbers BY WorkNumbers DEF IInv
<1>1. mainPc \in Counting /\ active_agents > 0 /\ wait_for_one_child
  BY <1>0 DEF WaitForSlot, WaitForAgents, SlotFree, Counting, TypeOK
<1>2. /\ UNCHANGED <<mainPc, cur, entries, todo, pipe>>
      /\ \/ \E d \in Dirs : /\ agent[d] = "zombie"
                           /\ agent' = [agent EXCEPT ![d] = "reaped"]
                           /\ UNCHANGED collector
         \/ collector = "zombie" /\ collector' = "reaped" /\ UNCHANGED agent
  BY <1>1, WaitReaps DEF pipeVars
<1>3. LinesLeft' = LinesLeft BY <1>2 DEF LinesLeft
<1>4. ASSUME NEW d \in Dirs, agent[d] = "zombie", agent' = [agent EXCEPT ![d] = "reaped"],
             UNCHANGED collector
      PROVE  Work' \in 0 .. Work - 1
  <2>1. AgentsLeft' < AgentsLeft BY <1>0, <1>4, AgentGoesOn DEF AgentStates
  <2>2. \A e \in Dirs : agent'[e] = "none" <=> agent[e] = "none" BY <1>0, <1>4 DEF TypeOK
  <2>3. MainLeft' = MainLeft BY <1>2, <2>2, MainStays
  <2>4. CollectorLeft' = CollectorLeft BY <1>4 DEF CollectorLeft
  <2> QED BY <1>0, <1>3, <2>1, <2>3, <2>4, WorkShrinks, Zenon
<1>5. CASE collector = "zombie" /\ collector' = "reaped" /\ UNCHANGED agent
  <2>1. AgentsLeft' = AgentsLeft BY <1>5 DEF AgentsLeft, NotPast
  <2>2. MainLeft' = MainLeft BY <1>2, <1>5, MainStays
  <2>3. CollectorLeft' < CollectorLeft BY <1>5 DEF CollectorLeft
  <2> QED BY <1>0, <1>3, <2>1, <2>2, <2>3, WorkShrinks, Zenon
<1> QED BY <1>2, <1>4, <1>5

LEMMA TraverseUsesWork ==
    ASSUME IInv, TypeOK', ForkAgent \/ OpenDir \/ Recurse \/ CloseDir
    PROVE  Work' \in 0 .. Work - 1
<1> USE AnalyzerAssumption
<1>0. /\ TypeOK /\ Numbers /\ cur \in Dirs
      /\ agent \in [Dirs -> AgentStates] /\ entries \in [Dirs -> SUBSET Dirs]
  BY WorkNumbers DEF IInv, TypeOK
<1>1. UNCHANGED <<todo, pipe, collector>>
  BY DEF ForkAgent, OpenDir, Recurse, CloseDir, agentVars, collectorVars, pipeVars
<1>2. LinesLeft' = LinesLeft /\ CollectorLeft' = CollectorLeft BY <1>1 DEF LinesLeft, CollectorLeft
<1>3. ASSUME UNCHANGED agent, MainLeft' < MainLeft PROVE Work' \in 0 .. Work - 1
  <2>1. AgentsLeft' = AgentsLeft BY <1>3 DEF AgentsLeft, NotPast
  <2> QED BY <1>0, <1>2, <1>3, <2>1, WorkShrinks, Zenon
<1>4. ASSUME UNCHANGED <<agent, entries>>, Return, mainPc \in {"enter", "opendir", "readdir"}
      PROVE  Work' \in 0 .. Work - 1
  <2>1. mainPc' # "opendir" BY <1>4 DEF Return
  <2>2. ToEnter' \subseteq ToEnter BY <1>4, <2>1 DEF ToEnter
  <2>3. MainLeft' < MainLeft BY <1>0, <1>4, <2>2, MainReturns
  <2> QED BY <1>3, <1>4, <2>3
<1>5. CASE ForkAgent
  <2>1. CASE ForkFails BY <1>4, <1>5, <2>1 DEF ForkAgent, ForkFails
  <2>2. CASE ~ForkFails
    <3>1. /\ mainPc = "enter" /\ mainPc' = "opendir" /\ cur' = cur /\ entries' = entries
          /\ agent' = [agent EXCEPT ![cur] = "started"] /\ agent[cur] = "none"
      BY <1>5, <2>2 DEF ForkAgent, IInv, TraversalInv
    <3>2. ToEnter' \subseteq ToEnter
      <4>1. \A d \in Dirs \ {Root} : agent'[parent[d]] = "none" => agent[parent[d]] = "none"
        BY <1>0, <3>1
      <4> QED BY <1>0, <3>1, <4>1 DEF ToEnter
    <3>3. StatementsLeft' < StatementsLeft BY <3>1 DEF StatementsLeft
    <3>4. MainLeft' < MainLeft BY <1>0, <3>1, <3>2, <3>3, MainGoesOn
    <3>5. AgentsLeft' < AgentsLeft BY <1>0, <3>1, AgentGoesOn DEF AgentStates
    <3> QED BY <1>0, <1>2, <3>4, <3>5, WorkShrinks, Zenon
  <2> QED BY <2>1, <2>2
<1>6. CASE OpenDir
  <2>1. UNCHANGED agent /\ mainPc = "opendir" BY <1>6 DEF OpenDir, agentVars
  <2>2. CASE UNCHANGED entries /\ Return BY <1>4, <2>1, <2>2
  <2>3. CASE ~(UNCHANGED entries /\ Return)
    <3>1. entries' = [entries EXCEPT ![cur] = Subdirs(cur)] /\ mainPc' = "readdir" /\ cur' = cur
      BY <1>6, <2>3 DEF OpenDir
    <3>2. ToEnter' \subseteq ToEnter BY <1>0, <2>1, <3>1 DEF ToEnter, Subdirs
    <3>3. StatementsLeft' < StatementsLeft BY <2>1, <3>1 DEF StatementsLeft
    <3>4. MainLeft' < MainLeft BY <1>0, <3>1, <3>2, <3>3, MainGoesOn
    <3> QED BY <1>3, <2>1, <3>4
  <2> QED BY <2>2, <2>3
<1>7. CASE Recurse
  <2>1. UNCHANGED agent BY <1>7 DEF Recurse, agentVars
  <2> QED BY <1>3, <1>7, <2>1, MainRecurses
<1>8. CASE CloseDir BY <1>4, <1>8 DEF CloseDir, agentVars
<1> QED BY <1>5, <1>6, <1>7, <1>8

LEMMA StartAndEndUseWork ==
    ASSUME IInv, TypeOK', ForkCollector \/ CloseReadEnd \/ CloseWriteEnd \/ WaitForCollector
    PROVE  Work' \in 0 .. Work - 1
<1>0. TypeOK /\ Numbers BY WorkNumbers DEF IInv
<1>1. /\ UNCHANGED <<cur, entries, agent, todo, pipe>> /\ mainPc' # "opendir"
      /\ \/ collector' = collector
         \/ collector = "none" /\ collector' = "started"
         \/ collector = "zombie" /\ collector' = "reaped"
      /\ \/ mainPc = "fork" /\ mainPc' \in {"closeRead", "exitFailure"}
         \/ mainPc = "closeRead" /\ mainPc' = "enter"
         \/ mainPc = "drain" /\ mainPc' = "waitCollector"
         \/ mainPc = "waitCollector" /\ mainPc' \in {"exitSuccess", "exitFailure"}
  <2>1. CASE ForkCollector
    <3>1. collector = "none" BY <2>1 DEF ForkCollector, IInv, WriteEndInv
    <3> QED BY <2>1, <3>1 DEF ForkCollector, agentVars
  <2>2. CASE CloseReadEnd \/ CloseWriteEnd
    BY <2>2 DEF CloseReadEnd, CloseWriteEnd, agentVars, collectorVars
  <2>3. CASE WaitForCollector BY <2>3 DEF WaitForCollector, agentVars, pipeVars
  <2> QED BY <2>1, <2>2, <2>3
<1>2. ToEnter' \subseteq ToEnter BY <1>1 DEF ToEnter
<1>3. StatementsLeft' < StatementsLeft BY <1>1 DEF StatementsLeft
<1>4. MainLeft' < MainLeft BY <1>0, <1>1, <1>2, <1>3, MainGoesOn
<1>5. AgentsLeft' = AgentsLeft /\ LinesLeft' = LinesLeft
  BY <1>1 DEF AgentsLeft, NotPast, LinesLeft
<1>6. CollectorLeft' = CollectorLeft \/ CollectorLeft' < CollectorLeft BY <1>1 DEF CollectorLeft
<1> QED BY <1>0, <1>4, <1>5, <1>6, WorkShrinks, Zenon

\* Whatever the tree and whatever fails: each step of a process uses up some of a
\* number, so the analysis takes a bounded number of steps.
THEOREM StepsCounted == Spec => StepsAreFew
<1>1. Init => IInv /\ LineInv BY InitIInv, ReportInitially
<1>2. IInv /\ LineInv /\ [Next]_vars => IInv' /\ LineInv'
  <2>1. IInv /\ [Next]_vars => IInv'
    BY MainStep, CollectorStep, AgentStep, StutterStep DEF Next, Exited
  <2> QED BY <2>1, LineStep
<1>3. ASSUME IInv, LineInv, IInv', Next, vars' # vars PROVE Work' \in 0 .. Work - 1
  <2>0. TypeOK /\ TypeOK' BY <1>3 DEF IInv
  <2>1. CASE main
    BY <1>3, <2>0, <2>1, WaitUsesWork, TraverseUsesWork, StartAndEndUseWork
       DEF main, traverse_dir
  <2>2. CASE run_collector BY <2>0, <2>2, CollectorUsesWork
  <2>3. ASSUME NEW d \in Dirs, run_agent(d) PROVE Work' \in 0 .. Work - 1
    BY <1>3, <2>0, <2>3, AgentUsesWork
  <2> QED BY <1>3, <2>1, <2>2, <2>3 DEF Next, Exited
<1>4. IInv /\ LineInv /\ IInv' /\ [Next]_vars => [Work' \in 0 .. Work - 1]_vars BY <1>3
<1> QED BY <1>1, <1>2, <1>4, PTL DEF Spec, StepsAreFew
=============================================================================
