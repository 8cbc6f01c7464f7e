------------------------------ MODULE Analyzer ------------------------------
(***************************************************************************)
(* sem2/LR5: the file-system analyzer.  main makes a pipe, forks the       *)
(* collector and traverses a directory tree, forking one agent for each    *)
(* directory and waiting for a child while max_agents are counted active.  *)
(* An agent writes one line for each regular file of its directory to the  *)
(* pipe; the collector copies lines to stdout until every write end is     *)
(* closed.  A line is the file it is about; the tree does not change while *)
(* it is analyzed.                                                         *)
(***************************************************************************)
EXTENDS Integers, Sequences, FiniteSets

CONSTANTS
    Dirs, Root,         \* the directories, and the one given to main
    parent,             \* the directory each of the others is in
    Files, dirOf,       \* the regular files, and the directory each is in
    max_agents,         \* the limit given to main
    PipeCapacity,       \* lines the pipe holds before a writer blocks
    FaultCases          \* the sets of failures considered

ASSUME AnalyzerAssumption ==
    /\ IsFiniteSet(Dirs) /\ Root \in Dirs
    /\ parent \in [Dirs \ {Root} -> Dirs]
    /\ \A d \in Dirs \ {Root} : parent[d] # d
    /\ dirOf \in [Files -> Dirs]
    /\ max_agents \in Nat \ {0} /\ PipeCapacity \in Nat \ {0}
    /\ \A F \in FaultCases : F \subseteq {"fork", "opendir",
                                     "entry",       \* malloc or lstat, for an entry of readdir
                                     "collector"}
    /\ "main" \notin Dirs /\ "collector" \notin Dirs

\* Every directory is under the root.
ASSUME TreeAssumption ==
    \A S \in SUBSET Dirs :
        Root \in S /\ (\A d \in Dirs \ {Root} : parent[d] \in S => d \in S) => S = Dirs

ASSUME FilesAssumption == IsFiniteSet(Files)

VARIABLES
    mainPc,             \* the statement main, or the manager in it, is at
    cur,                \* the directory of the innermost traverse_dir
    entries,            \* per traverse_dir: subdirectories readdir has still to give
    active_agents,
    agent,              \* state of the agent process of each directory
    todo,               \* files each agent has still to report
    skipped,            \* history: files passed over by their agent
    collector,          \* state of the collector process
    output,             \* how often the collector has written each line
    pipe,
    readers, writers,   \* the processes that hold each end of the pipe open
    faults              \* the failures that may happen in this execution

mainVars == <<mainPc, cur, entries, active_agents>>
agentVars == <<agent, todo, skipped>>
collectorVars == <<collector, output>>
pipeVars == <<pipe, readers, writers>>
procVars == <<mainVars, agentVars, collectorVars, pipeVars>>
vars == <<procVars, faults>>

Subdirs(d) == {s \in Dirs \ {Root} : parent[s] = d}
FilesOf(d) == {f \in Files : dirOf[f] = d}

Init ==
    /\ mainPc = "fork" /\ cur = Root
    /\ entries = [d \in Dirs |-> {}]
    /\ active_agents = 0
    /\ agent = [d \in Dirs |-> "none"] /\ todo = [d \in Dirs |-> FilesOf(d)]
    /\ skipped = {}
    /\ collector = "none" /\ output = [f \in Files |-> 0]
    /\ pipe = << >> /\ readers = {"main"} /\ writers = {"main"}
    /\ faults \in FaultCases

\* (A name with an underscore before a capital is a mutant: a plausible bug in
\* the code that the definition after it models.)

-----------------------------------------------------------------------------
(* An agent (run_agent). *)

\* exit, or death by a signal: the kernel closes the write end.
AgentEnds(d) ==
    /\ agent' = [agent EXCEPT ![d] = "zombie"]
    /\ writers' = writers \ {d}
    /\ UNCHANGED <<todo, skipped, pipe, readers>>

AgentOpensDir(d) ==
    /\ agent[d] = "started"
    /\ \/ agent' = [agent EXCEPT ![d] = "reading"] /\ UNCHANGED <<todo, skipped, pipeVars>>
       \/ "opendir" \in faults /\ AgentEnds(d)

\* dprintf blocks while the pipe is full.  A file that cannot be read has
\* signature 0 and a line all the same.
AgentReports(d) ==
    /\ agent[d] = "reading" /\ readers # {} /\ Len(pipe) < PipeCapacity
    /\ \E f \in todo[d] : /\ todo' = [todo EXCEPT ![d] = @ \ {f}]
                          /\ pipe' = Append(pipe, f)
    /\ UNCHANGED <<agent, skipped, readers, writers>>

\* No path can be made for the entry, or it cannot be examined: no line, and
\* the agent goes on.
AgentSkips(d) ==
    /\ agent[d] = "reading" /\ "entry" \in faults
    /\ \E f \in todo[d] : /\ todo' = [todo EXCEPT ![d] = @ \ {f}]
                          /\ skipped' = skipped \cup {f}
    /\ UNCHANGED <<agent, pipeVars>>

AgentGetsSigpipe(d) ==
    /\ agent[d] = "reading" /\ todo[d] # {} /\ readers = {}
    /\ AgentEnds(d)

AgentFinishes(d) ==
    /\ agent[d] = "reading" /\ todo[d] = {}
    /\ AgentEnds(d)

run_agent(d) ==
    /\ \/ AgentOpensDir(d) \/ AgentReports(d) \/ AgentSkips(d)
       \/ AgentGetsSigpipe(d) \/ AgentFinishes(d)
    /\ UNCHANGED <<mainVars, collectorVars>>

-----------------------------------------------------------------------------
(* The collector (run_collector). *)

CollectorEnds == collector' = "zombie" /\ readers' = readers \ {"collector"}

CollectorClosesWriteEnd ==
    /\ collector = "started"
    /\ collector' = "open" /\ writers' = writers \ {"collector"}
    /\ UNCHANGED <<output, pipe, readers>>

\* fdopen fails, or a write to a closed stdout kills the process.
CollectorFails ==
    /\ "collector" \in faults /\ collector \in {"open", "reading"}
    /\ CollectorEnds
    /\ UNCHANGED <<output, pipe, writers>>

CollectorOpensStream ==
    /\ collector = "open" /\ collector' = "reading"
    /\ UNCHANGED <<output, pipeVars>>

CollectorCopiesLine ==
    /\ collector = "reading" /\ pipe # << >>
    /\ output' = [output EXCEPT ![Head(pipe)] = @ + 1]
    /\ pipe' = Tail(pipe)
    /\ UNCHANGED <<collector, readers, writers>>

CollectorSeesEof_OnEmptyPipe ==
    /\ collector = "reading" /\ pipe = << >>
    /\ CollectorEnds
    /\ UNCHANGED <<output, pipe, writers>>

\* fgets sees the end of the stream once the pipe is empty and has no writer.
CollectorSeesEof ==
    /\ collector = "reading" /\ pipe = << >> /\ writers = {}
    /\ CollectorEnds
    /\ UNCHANGED <<output, pipe, writers>>

run_collector ==
    /\ \/ CollectorClosesWriteEnd \/ CollectorOpensStream \/ CollectorFails
       \/ CollectorCopiesLine \/ CollectorSeesEof
    /\ UNCHANGED <<mainVars, agentVars>>

-----------------------------------------------------------------------------
(* The manager and main. *)

Unreaped == {d \in Dirs : agent[d] \in {"started", "reading", "zombie"}}
HasChild == Unreaped # {} \/ collector \notin {"none", "reaped"}

\* waitpid(-1) takes whichever child has ended, the collector included.
wait_for_one_child ==
    /\ IF HasChild
         THEN /\ \/ \E d \in Dirs : /\ agent[d] = "zombie"
                                    /\ agent' = [agent EXCEPT ![d] = "reaped"]
                                    /\ UNCHANGED collector
                 \/ /\ collector = "zombie" /\ collector' = "reaped"
                    /\ UNCHANGED agent
              /\ active_agents' = active_agents - 1
         ELSE /\ active_agents' = 0                 \* ECHILD
              /\ UNCHANGED <<agent, collector>>
    /\ UNCHANGED <<mainPc, cur, entries, todo, skipped, output, pipeVars>>

SlotFree_OffByOne == active_agents <= max_agents
SlotFree == active_agents < max_agents

WaitForSlot == mainPc = "enter" /\ ~SlotFree /\ wait_for_one_child

\* traverse_dir returns to the traverse_dir of the parent, or to run_manager.
Return ==
    IF cur = Root THEN mainPc' = "drain" /\ UNCHANGED cur
                  ELSE mainPc' = "readdir" /\ cur' = parent[cur]

ForkFails_StillCounted ==
    /\ "fork" \in faults /\ Return
    /\ active_agents' = active_agents + 1 /\ UNCHANGED <<agent, writers>>

\* The directory and the subtree under it are skipped.
ForkFails == "fork" \in faults /\ Return /\ UNCHANGED <<active_agents, agent, writers>>

ForkAgent ==
    /\ mainPc = "enter" /\ SlotFree
    /\ \/ /\ active_agents' = active_agents + 1
          /\ agent' = [agent EXCEPT ![cur] = "started"]
          /\ writers' = writers \cup {cur}
          /\ mainPc' = "opendir" /\ UNCHANGED cur
       \/ ForkFails
    /\ UNCHANGED <<entries, todo, skipped, collectorVars, pipe, readers>>

OpenDir ==
    /\ mainPc = "opendir"
    /\ \/ /\ entries' = [entries EXCEPT ![cur] = Subdirs(cur)]
          /\ mainPc' = "readdir" /\ UNCHANGED cur
       \/ "opendir" \in faults /\ Return /\ UNCHANGED entries
    /\ UNCHANGED <<active_agents, agentVars, collectorVars, pipeVars>>

\* The recursive call; readdir gives the entries in any order.  An entry for
\* which no path can be made, or which cannot be examined, is passed over, with
\* the subtree under it.
Recurse ==
    /\ mainPc = "readdir"
    /\ \E s \in entries[cur] :
          /\ entries' = [entries EXCEPT ![cur] = @ \ {s}]
          /\ \/ mainPc' = "enter" /\ cur' = s
             \/ "entry" \in faults /\ UNCHANGED <<mainPc, cur>>
    /\ UNCHANGED <<active_agents, agentVars, collectorVars, pipeVars>>

CloseDir ==
    /\ mainPc = "readdir" /\ entries[cur] = {}
    /\ Return
    /\ UNCHANGED <<entries, active_agents, agentVars, collectorVars, pipeVars>>

traverse_dir == WaitForSlot \/ ForkAgent \/ OpenDir \/ Recurse \/ CloseDir

ForkCollector ==
    /\ mainPc = "fork"
    /\ \/ /\ collector' = "started" /\ mainPc' = "closeRead"
          /\ readers' = readers \cup {"collector"}
          /\ writers' = writers \cup {"collector"}
       \/ /\ "fork" \in faults
          /\ mainPc' = "exitFailure" /\ readers' = {} /\ writers' = {}
          /\ UNCHANGED collector
    /\ UNCHANGED <<cur, entries, active_agents, agentVars, output, pipe>>

CloseReadEnd_Forgotten ==
    /\ mainPc = "closeRead" /\ mainPc' = "enter"
    /\ UNCHANGED <<cur, entries, active_agents, agentVars, collectorVars, pipeVars>>

CloseReadEnd ==
    /\ mainPc = "closeRead"
    /\ readers' = readers \ {"main"} /\ mainPc' = "enter"
    /\ UNCHANGED <<cur, entries, active_agents, agentVars, collectorVars, pipe, writers>>

WaitForAgents == mainPc = "drain" /\ active_agents > 0 /\ wait_for_one_child

CloseWriteEnd_WithoutDrain ==
    /\ mainPc = "drain"
    /\ writers' = writers \ {"main"} /\ mainPc' = "waitCollector"
    /\ UNCHANGED <<cur, entries, active_agents, agentVars, collectorVars, pipe, readers>>

CloseWriteEnd ==
    /\ mainPc = "drain" /\ active_agents <= 0
    /\ writers' = writers \ {"main"} /\ mainPc' = "waitCollector"
    /\ UNCHANGED <<cur, entries, active_agents, agentVars, collectorVars, pipe, readers>>

WaitForCollector_NotWaited ==
    /\ mainPc = "waitCollector" /\ mainPc' = "exitSuccess"
    /\ UNCHANGED <<cur, entries, active_agents, agentVars, collectorVars, pipeVars>>

WaitForCollector ==
    /\ mainPc = "waitCollector"
    /\ \/ collector = "zombie" /\ collector' = "reaped" /\ mainPc' = "exitSuccess"
       \/ collector = "reaped" /\ mainPc' = "exitFailure" /\ UNCHANGED collector
    /\ UNCHANGED <<cur, entries, active_agents, agentVars, output, pipeVars>>

main == \/ ForkCollector \/ CloseReadEnd \/ traverse_dir
        \/ WaitForAgents \/ CloseWriteEnd \/ WaitForCollector

Exited == mainPc \in {"exitSuccess", "exitFailure"} /\ UNCHANGED vars

Next == \/ /\ main \/ run_collector \/ (\E d \in Dirs : run_agent(d))
           /\ UNCHANGED faults
        \/ Exited

Spec == Init /\ [][Next]_vars

\* The kernel runs every process that can run.  A process that is blocked is not
\* helped by a failure: none has to pass a file over or to die.
FairSpec == /\ Spec
            /\ WF_procVars(main)
            /\ WF_procVars(run_collector /\ (CollectorFails => CollectorSeesEof))
            /\ \A d \in Dirs : WF_procVars(run_agent(d) /\ ~AgentSkips(d))

-----------------------------------------------------------------------------
(* Properties. *)

Processes == Dirs \cup {"main", "collector"}
AgentStates == {"none", "started", "reading", "zombie", "reaped"}

TypeOK ==
    /\ mainPc \in {"fork", "closeRead", "enter", "opendir", "readdir", "drain",
                   "waitCollector", "exitSuccess", "exitFailure"}
    /\ cur \in Dirs /\ entries \in [Dirs -> SUBSET Dirs]
    /\ active_agents \in 0 .. max_agents
    /\ agent \in [Dirs -> AgentStates]
    /\ todo \in [Dirs -> SUBSET Files] /\ skipped \subseteq Files
    /\ collector \in {"none", "started", "open", "reading", "zombie", "reaped"}
    /\ output \in [Files -> Nat]
    /\ pipe \in Seq(Files)
    /\ readers \subseteq Processes /\ writers \subseteq Processes
    /\ faults \in FaultCases

CollectorReliable == "collector" \notin faults

\* wait_for_one_child has taken the end of the collector for an agent's.
EarlyReap == collector = "reaped" /\ mainPc # "exitSuccess"

\* The counter the limit depends on is exactly the number of agents that have
\* been forked and not yet waited for, through failed forks and early returns;
\* a collector that dies early costs one agent, once.
CounterExact == Cardinality(Unreaped) = active_agents + IF EarlyReap THEN 1 ELSE 0

\* The number of agents that run at the same time is limited by max_agents,
\* plus the one that the death of the collector lets in.
AgentLimit ==
    Cardinality({d \in Dirs : agent[d] \in {"started", "reading"}})
        <= max_agents + IF EarlyReap THEN 1 ELSE 0

\* main waits for all processes before it exits: it leaves no agent running
\* and no zombie.
NoChildLeft ==
    mainPc \in {"exitSuccess", "exitFailure"} => ~HasChild

\* What the code does of that: exit status 0 means that no child is left, and
\* with a failure exactly one agent is left if the collector died early.
ExitLeaves ==
    /\ mainPc = "exitSuccess" => ~HasChild
    /\ mainPc = "exitFailure" =>
          /\ collector \in {"none", "reaped"}
          /\ Cardinality(Unreaped) = IF EarlyReap THEN 1 ELSE 0

\* The collector does not take a quiet pipe for the end of the stream.
EofIsEnd == collector \in {"zombie", "reaped"} /\ CollectorReliable =>
    pipe = << >> /\ \A d \in Dirs : agent[d] \in {"none", "reaped"}

\* A program that succeeds has reported all files of a directory, but for those
\* its agent had to skip, or none, when its directory or one above could not be
\* opened, examined or given an agent; if the collector died, the report breaks
\* off but holds no line twice.
ReportComplete ==
    mainPc = "exitSuccess" =>
        \A d \in Dirs :
            \/ \A f \in FilesOf(d) : output[f] = IF f \in skipped THEN 0 ELSE 1
            \/ faults # {} /\ \A f \in FilesOf(d) : output[f] = 0
            \/ ~CollectorReliable /\ \A f \in FilesOf(d) : output[f] <= 1

\* Nobody waits forever: not the agents on a full pipe, the collector on an
\* open write end, nor main on a child.
Termination == <>(mainPc \in {"exitSuccess", "exitFailure"})

\* What blocks each process: main in waitpid without a child that has ended, an
\* agent in dprintf on a full pipe, the collector in fgets on an empty one.
MainWaits ==
    \/ /\ \/ mainPc = "enter" /\ ~SlotFree
          \/ mainPc = "drain" /\ active_agents > 0
       /\ HasChild /\ collector # "zombie" /\ \A d \in Dirs : agent[d] # "zombie"
    \/ mainPc = "waitCollector" /\ collector \notin {"zombie", "reaped"}
AgentWaits(d) ==
    /\ agent[d] = "reading" /\ todo[d] # {}
    /\ readers # {} /\ Len(pipe) >= PipeCapacity
CollectorWaits == collector = "reading" /\ pipe = << >> /\ writers # {}

\* The processes never all wait for each other: while main waits, an agent or
\* the collector can run.
NoCircularWait ==
    ~ /\ MainWaits
      /\ \A d \in Dirs : agent[d] \in {"started", "reading"} => AgentWaits(d)
      /\ collector \in {"started", "open", "reading"} => CollectorWaits

\* traverse_dir is active for d: d is in every set that holds cur and, with a
\* directory, the one it is in.
OnStack(d) ==
    \A S \in SUBSET Dirs : cur \in S /\ (\A e \in S \ {Root} : parent[e] \in S) => d \in S

\* The steps still to be made, counted from above: by the agents, forked or not,
\* until they are reaped, for the lines they have still to write, by the
\* collector, and by main for the directories it has still to enter and leave.
NotPast(states) == Cardinality({d \in Dirs : agent[d] \in states})
AgentsLeft == NotPast({"none"}) + NotPast({"none", "started"})
                  + NotPast({"none", "started", "reading"})
                  + NotPast({"none", "started", "reading", "zombie"})
LinesLeft == 2 * Cardinality({f \in Files : f \in todo[dirOf[f]]}) + Len(pipe)
CollectorLeft ==
    CASE collector = "none" -> 5 [] collector = "started" -> 4 [] collector = "open" -> 3
      [] collector = "reading" -> 2 [] collector = "zombie" -> 1 [] OTHER -> 0
ToEnter ==
    {d \in Dirs \ {Root} : \/ agent[parent[d]] = "none"
                          \/ (mainPc = "opendir" /\ cur = parent[d])
                          \/ d \in entries[parent[d]]}
StatementsLeft ==
    CASE mainPc = "fork" -> 8 [] mainPc = "closeRead" -> 7 [] mainPc = "enter" -> 6
      [] mainPc = "opendir" -> 5 [] mainPc = "readdir" -> 4 [] mainPc = "drain" -> 3
      [] mainPc = "waitCollector" -> 2 [] OTHER -> 0
MainLeft == 4 * Cardinality(ToEnter) + Cardinality({d \in Dirs : OnStack(d)}) + StatementsLeft
Work == AgentsLeft + LinesLeft + CollectorLeft + MainLeft

\* Every step of every process uses some of it up: an analysis of n directories
\* and m files takes at most 8 * n + 2 * m + 10 steps, whatever fails.
StepsAreFew == [][Work' \in 0 .. Work - 1]_vars

\* The manager implements the pool of agents as long as the collector does not
\* die: what is claimed of other executions is nothing, a pool that is not used.
Reliably(S) == IF CollectorReliable THEN S ELSE {}
Pool == INSTANCE AgentPool WITH
            Limit <- max_agents,
            working <- Reliably(Unreaped),
            finished <- Reliably({d \in Dirs : agent[d] = "reaped"}),
            closed <- CollectorReliable /\ mainPc \in {"waitCollector", "exitSuccess", "exitFailure"}
ImplementsPool == Pool!Spec
=============================================================================
