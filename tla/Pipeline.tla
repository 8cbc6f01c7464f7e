------------------------------ MODULE Pipeline ------------------------------
(***************************************************************************)
(* sem1/LR3: a pipeline of three processes joined by two named pipes.  The *)
(* coordinator starts the generator, the processor and the visualizer one  *)
(* after the other and waits for all of them; the generator sends blocks   *)
(* to the processor, which sorts each and sends it to the visualizer.      *)
(* The order of start-up rests on Sleep alone, which is a pure delay.  A   *)
(* block is its number and its status.                                     *)
(***************************************************************************)
EXTENDS Integers, Sequences

CONSTANTS
    totalBlocks,        \* 5 in the program
    Capacity,           \* blocks a pipe holds (10 in the program)
    Killable            \* stages whose console window the user may close

Stages == {"generator", "processor", "visualizer"}

ASSUME PipelineAssumption ==
    /\ totalBlocks \in Nat \ {0} /\ Capacity \in Nat \ {0}
    /\ Killable \subseteq Stages

\* (A name with an underscore before a capital is a mutant: a plausible bug in
\* the code that the definition after it models.)

VARIABLES
    pc,                 \* the point each stage has reached
    coordinator,        \* the stage main starts next, or where it is after that
    server,             \* the server end of each pipe
    client,             \* its client end: "none", "open" or "closed"
    queue,              \* the blocks in it
    generated,          \* blocks the generator has written
    held,               \* the block the processor works on
    shown,              \* blocks the visualizer has shown
    killed              \* stages the user has killed

pipes == <<server, client, queue>>
data == <<generated, held, shown>>
vars == <<pc, coordinator, pipes, data, killed>>

Pipes == {1, 2}
ServerOf(k) == IF k = 1 THEN "generator" ELSE "processor"
ClientOf(k) == IF k = 1 THEN "processor" ELSE "visualizer"

Init ==
    /\ pc = [p \in Stages |-> "unborn"] /\ coordinator = "generator"
    /\ server = [k \in Pipes |-> "absent"] /\ client = [k \in Pipes |-> "none"]
    /\ queue = [k \in Pipes |-> << >>]
    /\ generated = 0 /\ held = << >> /\ shown = << >> /\ killed = {}

Goto(p, point) == pc' = [pc EXCEPT ![p] = point]

-----------------------------------------------------------------------------
(* The named pipes. *)

Create(k) == server' = [server EXCEPT ![k] = "created"]

\* CreateFile finds the pipe as soon as it exists, waited for or not, and
\* releases a server that waits.
CanOpen(k) == server[k] \in {"created", "waiting"} /\ client[k] = "none"
Open(k) ==
    /\ client' = [client EXCEPT ![k] = "open"]
    /\ server' = [server EXCEPT ![k] = IF @ = "waiting" THEN "connected" ELSE @]

\* WriteFile fails once the client has closed its end, and blocks while the
\* pipe is full.
CanWrite(k) == client[k] = "open" /\ Len(queue[k]) < Capacity
WriteFails(k) == client[k] = "closed"

\* ReadFile waits for a block; it fails once the server's end is closed and
\* what was written has been read.
CanRead(k) == queue[k] # << >>
ReadFails(k) == queue[k] = << >> /\ server[k] = "closed"

\* CloseHandle on both ends a stage may have, or the end of the process.
\* Blocks a client has not read are lost; those of a server stay.
CloseAll(p) ==
    /\ server' = [k \in Pipes |-> IF ServerOf(k) = p /\ server[k] # "absent"
                                    THEN "closed" ELSE server[k]]
    /\ client' = [k \in Pipes |-> IF ClientOf(k) = p /\ client[k] # "none"
                                    THEN "closed" ELSE client[k]]
    /\ queue' = [k \in Pipes |-> IF ClientOf(k) = p THEN << >> ELSE queue[k]]

\* The stage function returns, and main waits for a key.
Finish(p) == CloseAll(p) /\ Goto(p, "pause")

-----------------------------------------------------------------------------
(* Steps the generator and the processor have in common. *)

CreatePipe(k, p) ==
    /\ pc[p] = "create"
    /\ \/ /\ Create(k) /\ Goto(p, "connect")
          /\ UNCHANGED <<client, queue>>
       \/ Finish(p)                         \* INVALID_HANDLE_VALUE
    /\ UNCHANGED <<data>>

\* ConnectNamedPipe returns FALSE with ERROR_PIPE_CONNECTED when the client was
\* faster, which the code takes for a failure.
ConnectCalled(k, p) ==
    /\ pc[p] = "connect" /\ server[k] = "created"
    /\ IF client[k] = "none"
         THEN /\ server' = [server EXCEPT ![k] = "waiting"]
              /\ UNCHANGED <<pc, client, queue>>
         ELSE Finish(p)
    /\ UNCHANGED <<data>>

ConnectReturns(k, p, next) ==
    /\ pc[p] = "connect" /\ server[k] = "connected"
    /\ Goto(p, next)
    /\ UNCHANGED <<pipes, data>>

-----------------------------------------------------------------------------
(* The stages. *)

GenerateBlock ==
    /\ pc["generator"] = "write"
    /\ \/ /\ generated < totalBlocks /\ CanWrite(1)
          /\ queue' = [queue EXCEPT ![1] = Append(@, [id |-> generated + 1, status |-> "generated"])]
          /\ generated' = generated + 1
          /\ UNCHANGED <<pc, server, client>>
       \/ /\ generated < totalBlocks /\ WriteFails(1)
          /\ Finish("generator") /\ UNCHANGED generated
       \/ /\ generated = totalBlocks
          /\ Finish("generator") /\ UNCHANGED generated
    /\ UNCHANGED <<held, shown>>

GeneratorProcess ==
    \/ CreatePipe(1, "generator") \/ ConnectCalled(1, "generator")
    \/ ConnectReturns(1, "generator", "write") \/ GenerateBlock

OpenInput(k, p, next) ==
    /\ pc[p] = "open"
    /\ IF CanOpen(k) THEN Open(k) /\ Goto(p, next) /\ UNCHANGED queue
                     ELSE Finish(p)
    /\ UNCHANGED <<data>>

ReadBlock ==
    /\ pc["processor"] = "read"
    /\ \/ /\ CanRead(1)
          /\ held' = << [Head(queue[1]) EXCEPT !.status = "sorted"] >>
          /\ queue' = [queue EXCEPT ![1] = Tail(@)]
          /\ Goto("processor", "write")
          /\ UNCHANGED <<server, client>>
       \/ /\ ReadFails(1)
          /\ Finish("processor") /\ UNCHANGED held
    /\ UNCHANGED <<generated, shown>>

WriteBlock_NextWithoutWaiting ==
    /\ pc["processor"] = "write"
    /\ held' = << >>
    /\ queue' = IF CanWrite(2) THEN [queue EXCEPT ![2] = Append(@, held[1])] ELSE queue
    /\ Goto("processor", "read")
    /\ UNCHANGED <<server, client, generated, shown>>

WriteBlock ==
    /\ pc["processor"] = "write"
    /\ held' = << >>
    /\ \/ /\ CanWrite(2)
          /\ queue' = [queue EXCEPT ![2] = Append(@, held[1])]
          /\ Goto("processor", "read")
          /\ UNCHANGED <<server, client>>
       \/ WriteFails(2) /\ Finish("processor")
    /\ UNCHANGED <<generated, shown>>

ProcessorProcess ==
    \/ OpenInput(1, "processor", "create") \/ CreatePipe(2, "processor")
    \/ ConnectCalled(2, "processor") \/ ConnectReturns(2, "processor", "read")
    \/ ReadBlock \/ WriteBlock

ShowBlock_EndsOnEmptyPipe ==
    /\ pc["visualizer"] = "read"
    /\ \/ /\ CanRead(2)
          /\ shown' = Append(shown, Head(queue[2]))
          /\ queue' = [queue EXCEPT ![2] = Tail(@)]
          /\ UNCHANGED <<pc, server, client>>
       \/ /\ queue[2] = << >>
          /\ Finish("visualizer") /\ UNCHANGED shown
    /\ UNCHANGED <<generated, held>>

ShowBlock_TriesAgain ==
    /\ pc["visualizer"] = "read" /\ CanRead(2)
    /\ shown' = Append(shown, Head(queue[2]))
    /\ queue' = [queue EXCEPT ![2] = Tail(@)]
    /\ UNCHANGED <<pc, server, client, generated, held>>

ShowBlock ==
    /\ pc["visualizer"] = "read"
    /\ \/ /\ CanRead(2)
          /\ shown' = Append(shown, Head(queue[2]))
          /\ queue' = [queue EXCEPT ![2] = Tail(@)]
          /\ UNCHANGED <<pc, server, client>>
       \/ /\ ReadFails(2)
          /\ Finish("visualizer") /\ UNCHANGED shown
    /\ UNCHANGED <<generated, held>>

VisualizerProcess == OpenInput(2, "visualizer", "read") \/ ShowBlock

\* system("pause") and the end of the process.
KeyPressed(p) ==
    /\ pc[p] = "pause" /\ Goto(p, "exited")
    /\ UNCHANGED <<pipes, data>>

stage(p) ==
    /\ \/ p = "generator" /\ GeneratorProcess
       \/ p = "processor" /\ ProcessorProcess
       \/ p = "visualizer" /\ VisualizerProcess
       \/ KeyPressed(p)
    /\ UNCHANGED <<coordinator, killed>>

Kill(p) ==
    /\ p \in Killable /\ pc[p] \notin {"unborn", "exited"}
    /\ CloseAll(p) /\ Goto(p, "exited")
    /\ killed' = killed \cup {p}
    /\ UNCHANGED <<coordinator, data>>

-----------------------------------------------------------------------------
(* The coordinator. *)

After == [generator |-> "processor", processor |-> "visualizer", visualizer |-> "wait"]

\* The first call a stage makes on a pipe.
FirstPoint(p) == IF p = "generator" THEN "create" ELSE "open"

\* When CreateProcess fails the coordinator returns and leaves the stages it
\* has started alone.
StartStage ==
    /\ coordinator \in Stages
    /\ \/ /\ Goto(coordinator, FirstPoint(coordinator))
          /\ coordinator' = After[coordinator]
       \/ coordinator' = "failed" /\ UNCHANGED pc
    /\ UNCHANGED <<pipes, data, killed>>

WaitForAll ==
    /\ coordinator = "wait" /\ \A p \in Stages : pc[p] = "exited"
    /\ coordinator' = "exited"
    /\ UNCHANGED <<pc, pipes, data, killed>>

main == StartStage \/ WaitForAll

-----------------------------------------------------------------------------
Next == main \/ \E p \in Stages : stage(p) \/ Kill(p)

Spec == Init /\ [][Next]_vars

\* Every process runs and the user presses the keys asked for; a server in
\* ConnectNamedPipe may wait forever.
FairSpec == Spec /\ WF_vars(main) /\ \A p \in Stages : WF_vars(stage(p))

-----------------------------------------------------------------------------
(* Properties. *)

Block == [id : Nat, status : {"generated", "sorted"}]

\* The type invariant.
TypeOK ==
    /\ pc \in [Stages -> {"unborn", "create", "connect", "open", "read", "write",
                          "pause", "exited"}]
    /\ coordinator \in Stages \cup {"wait", "failed", "exited"}
    /\ server \in [Pipes -> {"absent", "created", "waiting", "connected", "closed"}]
    /\ client \in [Pipes -> {"none", "open", "closed"}]
    /\ queue \in [Pipes -> Seq(Block)]
    /\ generated \in 0 .. totalBlocks
    /\ held \in Seq(Block) /\ shown \in Seq(Block)
    /\ killed \subseteq Stages

\* What the visualizer has shown is the first blocks, in order, each once and
\* each sorted, whoever fails or is killed.
ShownInOrder ==
    \A n \in 1 .. Len(shown) : shown[n] = [id |-> n, status |-> "sorted"]

\* A pipeline that nobody interrupts shows all blocks or, when it could not
\* be connected, none: no stage takes a slow neighbour for one that has ended.
AllOrNothing ==
    pc["visualizer"] \in {"pause", "exited"} /\ killed = {} =>
        Len(shown) \in {0, totalBlocks}

\* A stage that stays forever stays in ConnectNamedPipe, or writes to one that
\* does.
OnlyConnectWaits ==
    <>[](\/ \A p \in Stages : pc[p] \in {"unborn", "exited"}
         \/ \E k \in Pipes : pc[ServerOf(k)] = "connect" /\ server[k] = "waiting")

\* What a stage that runs waits for, but for the user.
StageWaits(p) ==
    \/ \E k \in Pipes : ServerOf(k) = p /\ pc[p] = "connect" /\ server[k] = "waiting"
    \/ \E k \in Pipes : /\ ServerOf(k) = p /\ pc[p] = "write" /\ ~CanWrite(k) /\ ~WriteFails(k)
                        /\ k = 1 => generated < totalBlocks
    \/ \E k \in Pipes : ClientOf(k) = p /\ pc[p] = "read" /\ ~CanRead(k) /\ ~ReadFails(k)

\* Reader and writer of a pipe never wait for each other, nor the stages in a
\* circle: when all stages that run wait, one of them does in ConnectNamedPipe.
NoCircularWait ==
    LET running == {p \in Stages : pc[p] \notin {"unborn", "exited"}}
    IN  running # {} /\ (\A p \in running : StageWaits(p)) =>
            \E k \in Pipes : pc[ServerOf(k)] = "connect" /\ server[k] = "waiting"

\* The steps still to be made, counted from above: a call per point a stage can
\* still reach, and four per block, which is written and read twice.
StepsOf(point) ==
    CASE point = "unborn" -> 12 [] point = "open" -> 10 [] point = "create" -> 8
      [] point = "connect" -> 6 [] point \in {"read", "write"} -> 4
      [] point = "pause" -> 2 [] point = "exited" -> 0
StartsLeft ==
    CASE coordinator = "generator" -> 4 [] coordinator = "processor" -> 3
      [] coordinator = "visualizer" -> 2 [] coordinator = "wait" -> 1 [] OTHER -> 0
CallsLeft == StepsOf(pc["generator"]) + StepsOf(pc["processor"]) + StepsOf(pc["visualizer"])
Unconnected(k) == IF server[k] = "created" THEN 1 ELSE 0
BlocksLeft ==
    4 * (totalBlocks - generated) + 3 * Len(queue[1]) + 2 * Len(held) + Len(queue[2])
Work == BlocksLeft + CallsLeft + StartsLeft + Unconnected(1) + Unconnected(2)

\* Every step of every process uses some of it up, so nothing is done over and
\* over: the pipeline makes at most 4 * totalBlocks + 40 steps and then stops.
StepsAreFew == [][Work' \in 0 .. Work - 1]_vars
=============================================================================
