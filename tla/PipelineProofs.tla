--------------------------- MODULE PipelineProofs ---------------------------
(***************************************************************************)
(* The pipeline, for every number of blocks, capacity of the pipes and set *)
(* of windows the user may close: what is shown is right, and it is all or *)
(* nothing when no stage is killed.  The invariant says where each block   *)
(* is: the numbers in the second pipe go on where those shown end, the     *)
(* processor's block comes next, and the first pipe has the last ones.     *)
(***************************************************************************)
EXTENDS Pipeline, TLAPS

\* A stage the coordinator has not come to is not born.
BirthInv ==
    /\ coordinator \in Stages => pc[coordinator] = "unborn"
    /\ coordinator \in {"generator", "processor"} => pc["visualizer"] = "unborn"
    /\ coordinator = "generator" => pc["processor"] = "unborn"

\* What each stage has achieved, and which ends it holds, at each of its points.
GeneratorInv ==
    /\ pc["generator"] \in {"unborn", "create", "connect"} => generated = 0
    /\ pc["generator"] = "write" => server[1] # "closed"

ProcessorInv ==
    /\ pc["processor"] \in {"create", "connect", "read", "write"} => client[1] = "open"
    /\ pc["processor"] \in {"unborn", "open", "create", "connect"} =>
           held = << >> /\ shown = << >> /\ queue[2] = << >>
    /\ pc["processor"] = "read" => held = << >>
    /\ pc["processor"] \in {"read", "write"} => server[2] # "closed"

VisualizerInv ==
    /\ pc["visualizer"] \in {"unborn", "open"} => client[2] = "none"
    /\ pc["visualizer"] = "read" => client[2] = "open"

\* A pipe without a reader is empty, and one that never had any has moved nothing.
PipeInv ==
    /\ \A k \in Pipes : client[k] # "open" => queue[k] = << >>
    /\ client[1] = "none" => generated = 0
    /\ client[2] = "none" => shown = << >>

\* Where each block is: numbered without a gap through both pipes, as long as
\* there is somebody to read it.
FlowInv ==
    /\ \A n \in 1 .. Len(queue[1]) :
           queue[1][n] = [id |-> generated - Len(queue[1]) + n, status |-> "generated"]
    /\ \A n \in 1 .. Len(queue[2]) : queue[2][n] = [id |-> Len(shown) + n, status |-> "sorted"]
    /\ ShownInOrder
    /\ pc["processor"] = "write" /\ client[2] # "closed" =>
           held = << [id |-> Len(shown) + Len(queue[2]) + 1, status |-> "sorted"] >>
    /\ client[1] = "open" /\ client[2] # "closed" =>
           generated = Len(queue[1]) + Len(held) + Len(queue[2]) + Len(shown)

\* Without a kill a stage ends when all blocks have passed it, when none has or
\* when nobody is left to take them.
EndInv ==
    killed = {} =>
        /\ server[1] = "closed" /\ client[1] = "open" => generated \in {0, totalBlocks}
        /\ server[2] = "closed" /\ client[2] = "open" =>
               Len(queue[2]) + Len(shown) \in {0, totalBlocks}
        /\ pc["visualizer"] \in {"pause", "exited"} => Len(shown) \in {0, totalBlocks}

StageInv == BirthInv /\ GeneratorInv /\ ProcessorInv /\ VisualizerInv /\ PipeInv

IInv == TypeOK /\ StageInv /\ FlowInv /\ EndInv

-----------------------------------------------------------------------------
(* The end of a stage. *)

LEMMA StageNames ==
    /\ \A p \in Stages : p = "generator" \/ p = "processor" \/ p = "visualizer"
    /\ {"generator", "processor", "visualizer"} \subseteq Stages
    /\ ServerOf(1) = "generator" /\ ServerOf(2) = "processor"
    /\ ClientOf(1) = "processor" /\ ClientOf(2) = "visualizer"
    /\ Pipes = {1, 2}
BY DEF Stages, ServerOf, ClientOf, Pipes

\* Closing the ends a stage has leaves the pipes of its neighbours as they are.
LEMMA Closing ==
    ASSUME TypeOK, NEW p \in Stages, CloseAll(p)
    PROVE  /\ server' \in [Pipes -> {"absent", "created", "waiting", "connected", "closed"}]
           /\ client' \in [Pipes -> {"none", "open", "closed"}]
           /\ queue' \in [Pipes -> Seq(Block)]
           /\ p = "generator" => client' = client /\ queue' = queue /\ server'[2] = server[2]
           /\ p = "processor" =>
                  /\ server'[1] = server[1] /\ client'[2] = client[2]
                  /\ client'[1] = IF client[1] = "none" THEN "none" ELSE "closed"
                  /\ queue'[1] = << >> /\ queue'[2] = queue[2]
           /\ p = "visualizer" =>
                  /\ server' = server /\ client'[1] = client[1]
                  /\ client'[2] = IF client[2] = "none" THEN "none" ELSE "closed"
                  /\ queue'[1] = queue[1] /\ queue'[2] = << >>
<1> USE StageNames DEF TypeOK
<1>1. server' \in [Pipes -> {"absent", "created", "waiting", "connected", "closed"}]
  BY DEF CloseAll
<1>2. client' \in [Pipes -> {"none", "open", "closed"}]
  BY DEF CloseAll
<1>3. queue' \in [Pipes -> Seq(Block)]
  <2>1. << >> \in Seq(Block) OBVIOUS
  <2> QED BY <2>1 DEF CloseAll
<1>4. /\ \A k \in Pipes : ServerOf(k) # p => server'[k] = server[k]
      /\ \A k \in Pipes : ClientOf(k) # p => client'[k] = client[k] /\ queue'[k] = queue[k]
      /\ \A k \in Pipes : ClientOf(k) = p =>
             /\ client'[k] = IF client[k] = "none" THEN "none" ELSE "closed"
             /\ queue'[k] = << >>
  BY DEF CloseAll
<1>5. p = "generator" => client' = client /\ queue' = queue /\ server'[2] = server[2]
  <2> SUFFICES ASSUME p = "generator" PROVE client' = client /\ queue' = queue /\ server'[2] = server[2]
    OBVIOUS
  <2>1. \A k \in Pipes : client'[k] = client[k] BY <1>4
  <2>2. \A k \in Pipes : queue'[k] = queue[k] BY <1>4
  <2>3. client' = client BY <1>2, <2>1
  <2>4. queue' = queue
    <3>1. queue \in [Pipes -> Seq(Block)] OBVIOUS
    <3> HIDE DEF TypeOK
    <3> QED BY <1>3, <2>2, <3>1
  <2> QED BY <1>4, <2>3, <2>4
<1>6. p = "visualizer" => server' = server
  <2> SUFFICES ASSUME p = "visualizer" PROVE server' = server
    OBVIOUS
  <2>1. \A k \in Pipes : server'[k] = server[k] BY <1>4
  <2> QED BY <1>1, <2>1
<1> QED BY <1>1, <1>2, <1>3, <1>4, <1>5, <1>6

\* Whatever its reason, the end of a stage leaves the blocks that have passed it
\* where they are.
LEMMA EndOfStage ==
    ASSUME IInv, NEW p \in Stages, pc[p] # "unborn", CloseAll(p),
           NEW point \in {"pause", "exited"}, Goto(p, point),
           held' = held \/ (p = "processor" /\ held' = << >>),
           killed' \in SUBSET Stages,
           UNCHANGED <<coordinator, generated, shown>>
    PROVE  TypeOK' /\ StageInv' /\ FlowInv'
<1> USE StageNames DEF IInv
<1>1. TypeOK'
  <2>1. << >> \in Seq(Block) OBVIOUS
  <2>2. pc' \in [Stages -> {"unborn", "create", "connect", "open", "read", "write",
                            "pause", "exited"}]
    BY DEF TypeOK, Goto
  <2> QED BY <2>1, <2>2, Closing DEF TypeOK
<1>2. pc'[p] = point /\ \A q \in Stages : q # p => pc'[q] = pc[q] BY DEF TypeOK, Goto
<1>3. BirthInv' BY <1>2 DEF StageInv, BirthInv
<1>4. CASE p = "generator"
  <2>1. /\ client' = client /\ queue' = queue /\ server'[2] = server[2]
        /\ held' = held /\ generated' = generated /\ shown' = shown
        /\ pc'["processor"] = pc["processor"] /\ pc'["visualizer"] = pc["visualizer"]
        /\ pc'["generator"] = point
    BY <1>2, <1>4, Closing
  <2>2. GeneratorInv' BY <2>1 DEF GeneratorInv
  <2>3. ProcessorInv' BY <2>1 DEF StageInv, ProcessorInv
  <2>4. VisualizerInv' /\ PipeInv' BY <2>1 DEF StageInv, VisualizerInv, PipeInv
  <2>5. FlowInv' BY <2>1 DEF FlowInv, ShownInOrder
  <2> QED BY <1>1, <1>3, <2>2, <2>3, <2>4, <2>5 DEF StageInv
<1>5. CASE p = "processor"
  <2>1. /\ server'[1] = server[1] /\ client'[2] = client[2]
        /\ client'[1] = IF client[1] = "none" THEN "none" ELSE "closed"
        /\ queue'[1] = << >> /\ queue'[2] = queue[2]
        /\ generated' = generated /\ shown' = shown
        /\ pc'["generator"] = pc["generator"] /\ pc'["visualizer"] = pc["visualizer"]
        /\ pc'["processor"] = point
    BY <1>2, <1>5, Closing
  <2>2. GeneratorInv' BY <2>1 DEF StageInv, GeneratorInv
  <2>3. ProcessorInv' BY <2>1 DEF ProcessorInv
  <2>4. VisualizerInv' BY <2>1 DEF StageInv, VisualizerInv
  <2>5. PipeInv' BY <2>1 DEF StageInv, PipeInv
  <2>6. FlowInv' BY <2>1 DEF FlowInv, ShownInOrder
  <2> QED BY <1>1, <1>3, <2>2, <2>3, <2>4, <2>5, <2>6 DEF StageInv
<1>6. CASE p = "visualizer"
  <2>1. /\ server' = server /\ client'[1] = client[1]
        /\ client'[2] = IF client[2] = "none" THEN "none" ELSE "closed"
        /\ queue'[1] = queue[1] /\ queue'[2] = << >>
        /\ held' = held /\ generated' = generated /\ shown' = shown
        /\ pc'["generator"] = pc["generator"] /\ pc'["processor"] = pc["processor"]
        /\ pc'["visualizer"] = point
    BY <1>2, <1>6, Closing
  <2>2. GeneratorInv' BY <2>1 DEF StageInv, GeneratorInv
  <2>3. ProcessorInv' BY <2>1 DEF StageInv, ProcessorInv
  <2>4. VisualizerInv' BY <2>1 DEF VisualizerInv
  <2>5. PipeInv' BY <2>1 DEF StageInv, PipeInv
  <2>6. client'[2] = "none" => queue'[2] = queue[2] BY <2>1 DEF StageInv, PipeInv
  <2>7. client'[2] # "none" => client'[2] = "closed" BY <2>1
  <2>8. 1 .. Len(queue'[2]) = {} BY <2>1
  <2>9. ShownInOrder'
    <3>1. shown' = shown BY <2>1
    <3> QED BY <3>1 DEF FlowInv, ShownInOrder
  <2>10. FlowInv'
    <3>1. \A n \in 1 .. Len(queue'[1]) :
             queue'[1][n] = [id |-> generated' - Len(queue'[1]) + n, status |-> "generated"]
      BY <2>1 DEF FlowInv
    <3>2. ASSUME client'[2] # "closed"
          PROVE  client[2] # "closed" /\ queue'[2] = queue[2]
      BY <2>1, <2>6, <2>7, <3>2
    <3>3. pc'["processor"] = "write" /\ client'[2] # "closed" =>
              held' = << [id |-> Len(shown') + Len(queue'[2]) + 1, status |-> "sorted"] >>
      BY <2>1, <3>2 DEF FlowInv
    <3>4. client'[1] = "open" /\ client'[2] # "closed" =>
              generated' = Len(queue'[1]) + Len(held') + Len(queue'[2]) + Len(shown')
      BY <2>1, <3>2 DEF FlowInv
    <3> QED BY <2>8, <2>9, <3>1, <3>3, <3>4 DEF FlowInv
  <2> QED BY <1>1, <1>3, <2>2, <2>3, <2>4, <2>5, <2>10 DEF StageInv
<1> QED BY <1>4, <1>5, <1>6

-----------------------------------------------------------------------------
(* One lemma per action. *)

LEMMA FinishGenerator ==
    ASSUME IInv, pc["generator"] # "unborn", Finish("generator"),
           client[1] = "open" => generated \in {0, totalBlocks},
           UNCHANGED <<coordinator, killed, data>>
    PROVE  IInv'
<1> USE StageNames
<1>1. TypeOK' /\ StageInv' /\ FlowInv'
  <2>1. "generator" \in Stages /\ killed' \in SUBSET Stages BY DEF IInv, TypeOK
  <2>2. CloseAll("generator") /\ Goto("generator", "pause") BY DEF Finish
  <2>3. /\ held' = held
        /\ UNCHANGED <<coordinator, generated, shown>>
    BY DEF data
  <2> QED BY <2>1, <2>2, <2>3, EndOfStage
<1> USE DEF IInv
<1>2. /\ client' = client /\ queue' = queue /\ server'[2] = server[2]
      /\ generated' = generated /\ shown' = shown /\ killed' = killed
  BY Closing DEF Finish, data
<1>3. pc'["visualizer"] = pc["visualizer"] BY DEF Finish, Goto, TypeOK
<1>4. EndInv' BY <1>2, <1>3 DEF EndInv
<1> QED BY <1>1, <1>4

LEMMA FinishProcessor ==
    ASSUME IInv, pc["processor"] # "unborn", Finish("processor"),
           killed = {} /\ client[2] = "open" => Len(queue[2]) + Len(shown) \in {0, totalBlocks},
           held' = held \/ held' = << >>,
           UNCHANGED <<coordinator, killed, generated, shown>>
    PROVE  IInv'
<1> USE StageNames
<1>1. TypeOK' /\ StageInv' /\ FlowInv'
  <2>1. "processor" \in Stages /\ killed' \in SUBSET Stages BY DEF IInv, TypeOK
  <2>2. CloseAll("processor") /\ Goto("processor", "pause") BY DEF Finish
  <2>3. /\ held' = held \/ held' = << >>
        /\ UNCHANGED <<coordinator, generated, shown>>
    BY DEF data
  <2> QED BY <2>1, <2>2, <2>3, EndOfStage
<1> USE DEF IInv
<1>2. /\ client'[1] # "open" /\ client'[2] = client[2] /\ queue'[2] = queue[2]
      /\ generated' = generated /\ shown' = shown /\ killed' = killed
  BY Closing DEF Finish
<1>3. pc'["visualizer"] = pc["visualizer"] BY DEF Finish, Goto, TypeOK
<1>4. EndInv' BY <1>2, <1>3 DEF EndInv
<1> QED BY <1>1, <1>4

LEMMA FinishVisualizer ==
    ASSUME IInv, pc["visualizer"] # "unborn", Finish("visualizer"),
           killed = {} => Len(shown) \in {0, totalBlocks},
           UNCHANGED <<coordinator, killed, data>>
    PROVE  IInv'
<1> USE StageNames
<1>1. TypeOK' /\ StageInv' /\ FlowInv'
  <2>1. "visualizer" \in Stages /\ killed' \in SUBSET Stages BY DEF IInv, TypeOK
  <2>2. CloseAll("visualizer") /\ Goto("visualizer", "pause") BY DEF Finish
  <2>3. /\ held' = held
        /\ UNCHANGED <<coordinator, generated, shown>>
    BY DEF data
  <2> QED BY <2>1, <2>2, <2>3, EndOfStage
<1> USE DEF IInv
<1>2. /\ client'[1] = client[1] /\ client'[2] # "open" /\ server' = server
      /\ generated' = generated /\ shown' = shown /\ killed' = killed
  BY Closing DEF Finish, data
<1>3. EndInv' BY <1>2 DEF EndInv
<1> QED BY <1>1, <1>3

LEMMA KillStep ==
    ASSUME IInv, NEW p \in Stages, Kill(p)
    PROVE  IInv'
<1> USE StageNames
<1>1. TypeOK' /\ StageInv' /\ FlowInv'
  <2>1. killed' \in SUBSET Stages BY DEF Kill, IInv, TypeOK
  <2>2. /\ pc[p] # "unborn" /\ CloseAll(p) /\ Goto(p, "exited") /\ held' = held
        /\ UNCHANGED <<coordinator, generated, shown>>
    BY DEF Kill, data
  <2> QED BY <2>1, <2>2, EndOfStage
<1>2. killed' # {} BY DEF Kill
<1> QED BY <1>1, <1>2 DEF IInv, EndInv

\* A step that moves no block and closes nothing.
LEMMA Advance ==
    ASSUME IInv, TypeOK', UNCHANGED <<client, queue, data, killed>>,
           \A k \in Pipes : server'[k] = "closed" => server[k] = "closed",
           BirthInv', GeneratorInv', ProcessorInv', VisualizerInv',
           pc'["processor"] = "write" => pc["processor"] = "write",
           pc'["visualizer"] \in {"pause", "exited"} => pc["visualizer"] \in {"pause", "exited"}
    PROVE  IInv'
<1> USE StageNames DEF IInv
<1>1. PipeInv' BY DEF StageInv, PipeInv, data
<1>2. FlowInv' BY DEF FlowInv, ShownInOrder, data
<1>3. EndInv' BY DEF EndInv, data
<1> QED BY <1>1, <1>2, <1>3 DEF StageInv

\* A server that gives up before it is connected has passed on nothing.
LEMMA FinishEarly ==
    ASSUME IInv, UNCHANGED <<coordinator, killed, data>>,
           NEW k \in Pipes, NEW p \in Stages, p = ServerOf(k),
           pc[p] \in {"create", "connect"}, Finish(p)
    PROVE  IInv'
<1> USE StageNames
<1>1. CASE p = "generator"
  <2>1. generated = 0 BY <1>1 DEF IInv, StageInv, GeneratorInv
  <2> QED BY <1>1, <2>1, FinishGenerator
<1>2. CASE p = "processor"
  <2>1. queue[2] = << >> /\ shown = << >> BY <1>2 DEF IInv, StageInv, ProcessorInv
  <2>2. Len(queue[2]) + Len(shown) = 0 BY <2>1
  <2>3. held' = held /\ UNCHANGED <<generated, shown>> BY DEF data
  <2> QED BY <1>2, <2>2, <2>3, FinishProcessor
<1> QED BY <1>1, <1>2

LEMMA CreatePipeStep ==
    ASSUME IInv, UNCHANGED <<coordinator, killed>>,
           NEW k \in Pipes, NEW p \in Stages, p = ServerOf(k), CreatePipe(k, p)
    PROVE  IInv'
<1> USE StageNames
<1>1. pc[p] = "create" /\ UNCHANGED data BY DEF CreatePipe
<1>2. Finish(p) => IInv' BY <1>1, FinishEarly
<1>3. CASE Create(k) /\ Goto(p, "connect") /\ UNCHANGED <<client, queue>>
  <2>1. TypeOK'
    BY <1>1, <1>3 DEF IInv, TypeOK, Create, Goto, data
  <2>2. /\ pc' = [pc EXCEPT ![p] = "connect"] /\ server'[k] = "created"
        /\ \A j \in Pipes : j # k => server'[j] = server[j]
        /\ UNCHANGED <<client, queue, generated, held, shown, coordinator, killed>>
    BY <1>1, <1>3 DEF Create, Goto, data, IInv, TypeOK
  <2>3. BirthInv' BY <1>1, <2>2 DEF IInv, StageInv, BirthInv, TypeOK
  <2>4. GeneratorInv' BY <1>1, <2>2 DEF IInv, StageInv, GeneratorInv, TypeOK
  <2>5. ProcessorInv' BY <1>1, <2>2 DEF IInv, StageInv, ProcessorInv, TypeOK
  <2>6. VisualizerInv' BY <1>1, <2>2 DEF IInv, StageInv, VisualizerInv, TypeOK
  <2>7. /\ pc'["processor"] = "write" => pc["processor"] = "write"
        /\ pc'["visualizer"] = pc["visualizer"]
    BY <2>2 DEF IInv, TypeOK
  <2>8. \A j \in Pipes : server'[j] = "closed" => server[j] = "closed" BY <2>2
  <2> QED BY <1>1, <2>1, <2>2, <2>3, <2>4, <2>5, <2>6, <2>7, <2>8, Advance
<1> QED BY <1>2, <1>3 DEF CreatePipe

LEMMA ConnectCalledStep ==
    ASSUME IInv, UNCHANGED <<coordinator, killed>>,
           NEW k \in Pipes, NEW p \in Stages, p = ServerOf(k), ConnectCalled(k, p)
    PROVE  IInv'
<1> USE StageNames
<1>1. pc[p] = "connect" /\ UNCHANGED data BY DEF ConnectCalled
<1>2. Finish(p) => IInv' BY <1>1, FinishEarly
<1>3. CASE server' = [server EXCEPT ![k] = "waiting"] /\ UNCHANGED <<pc, client, queue>>
  <2>1. TypeOK' BY <1>1, <1>3 DEF IInv, TypeOK, data
  <2>2. /\ server'[k] = "waiting"
        /\ \A j \in Pipes : j # k => server'[j] = server[j]
        /\ UNCHANGED <<generated, held, shown>>
    BY <1>1, <1>3 DEF data, IInv, TypeOK
  <2>3. BirthInv' BY <1>3 DEF IInv, StageInv, BirthInv
  <2>4. GeneratorInv' BY <1>3, <2>2 DEF IInv, StageInv, GeneratorInv
  <2>5. ProcessorInv' BY <1>3, <2>2 DEF IInv, StageInv, ProcessorInv
  <2>6. VisualizerInv' BY <1>3 DEF IInv, StageInv, VisualizerInv
  <2>7. \A j \in Pipes : server'[j] = "closed" => server[j] = "closed" BY <2>2
  <2> QED BY <1>1, <1>3, <2>1, <2>3, <2>4, <2>5, <2>6, <2>7, Advance
<1> QED BY <1>2, <1>3 DEF ConnectCalled

LEMMA ConnectReturnsStep ==
    ASSUME IInv, UNCHANGED <<coordinator, killed>>,
           \/ ConnectReturns(1, "generator", "write")
           \/ ConnectReturns(2, "processor", "read")
    PROVE  IInv'
<1> USE StageNames
<1>1. UNCHANGED <<server, client, queue, data>> BY DEF ConnectReturns, pipes
<1>2. UNCHANGED <<generated, held, shown>> BY <1>1 DEF data
<1>3. /\ pc'["visualizer"] = pc["visualizer"]
      /\ \/ /\ pc["generator"] = "connect" /\ pc'["generator"] = "write" /\ server[1] = "connected"
            /\ pc'["processor"] = pc["processor"]
         \/ /\ pc["processor"] = "connect" /\ pc'["processor"] = "read" /\ server[2] = "connected"
            /\ pc'["generator"] = pc["generator"]
  BY DEF ConnectReturns, Goto, IInv, TypeOK
<1>4. TypeOK'
  <2>1. pc' \in [Stages -> {"unborn", "create", "connect", "open", "read", "write",
                            "pause", "exited"}]
    BY DEF ConnectReturns, Goto, IInv, TypeOK
  <2> QED BY <1>1, <1>2, <2>1 DEF IInv, TypeOK
<1>5. BirthInv' BY <1>3 DEF IInv, StageInv, BirthInv
<1>6. GeneratorInv' BY <1>1, <1>2, <1>3 DEF IInv, StageInv, GeneratorInv
<1>7. ProcessorInv' BY <1>1, <1>2, <1>3 DEF IInv, StageInv, ProcessorInv
<1>8. VisualizerInv' BY <1>1, <1>3 DEF IInv, StageInv, VisualizerInv
<1> QED BY <1>1, <1>3, <1>4, <1>5, <1>6, <1>7, <1>8, Advance

LEMMA KeyPressedStep ==
    ASSUME IInv, UNCHANGED <<coordinator, killed>>, NEW p \in Stages, KeyPressed(p)
    PROVE  IInv'
<1> USE StageNames
<1>1. UNCHANGED <<server, client, queue, data>> BY DEF KeyPressed, pipes
<1>2. UNCHANGED <<generated, held, shown>> BY <1>1 DEF data
<1>3. /\ pc[p] = "pause" /\ pc'[p] = "exited"
      /\ \A q \in Stages : q # p => pc'[q] = pc[q]
  BY DEF KeyPressed, Goto, IInv, TypeOK
<1>4. TypeOK'
  <2>1. pc' \in [Stages -> {"unborn", "create", "connect", "open", "read", "write",
                            "pause", "exited"}]
    BY DEF KeyPressed, Goto, IInv, TypeOK
  <2> QED BY <1>1, <1>2, <2>1 DEF IInv, TypeOK
<1>5. BirthInv' BY <1>3 DEF IInv, StageInv, BirthInv
<1>6. GeneratorInv' BY <1>1, <1>2, <1>3 DEF IInv, StageInv, GeneratorInv
<1>7. ProcessorInv' BY <1>1, <1>2, <1>3 DEF IInv, StageInv, ProcessorInv
<1>8. VisualizerInv' BY <1>1, <1>3 DEF IInv, StageInv, VisualizerInv
<1>9. /\ pc'["processor"] = "write" => pc["processor"] = "write"
      /\ pc'["visualizer"] \in {"pause", "exited"} => pc["visualizer"] \in {"pause", "exited"}
  BY <1>3
<1> QED BY <1>1, <1>4, <1>5, <1>6, <1>7, <1>8, <1>9, Advance

LEMMA StartStageStep ==
    ASSUME IInv, StartStage
    PROVE  IInv'
<1> USE StageNames
<1>1. UNCHANGED <<server, client, queue, data, killed>> BY DEF StartStage, pipes
<1>2. UNCHANGED <<generated, held, shown>> BY <1>1 DEF data
<1>3. CASE UNCHANGED pc /\ coordinator' = "failed"
  <2>1. TypeOK' BY <1>1, <1>2, <1>3 DEF IInv, TypeOK
  <2>2. BirthInv' BY <1>3 DEF BirthInv
  <2>3. GeneratorInv' /\ VisualizerInv'
    BY <1>1, <1>2, <1>3 DEF IInv, StageInv, GeneratorInv, VisualizerInv
  <2>4. ProcessorInv' BY <1>1, <1>2, <1>3 DEF IInv, StageInv, ProcessorInv
  <2> QED BY <1>1, <1>3, <2>1, <2>2, <2>3, <2>4, Advance
<1>4. CASE /\ coordinator \in Stages /\ Goto(coordinator, FirstPoint(coordinator))
           /\ coordinator' = After[coordinator]
  <2>1. PICK p \in Stages : p = coordinator BY <1>4
  <2>2. /\ pc[p] = "unborn" /\ pc'[p] = (IF p = "generator" THEN "create" ELSE "open")
        /\ \A q \in Stages : q # p => pc'[q] = pc[q]
    BY <1>4, <2>1 DEF Goto, FirstPoint, IInv, TypeOK, StageInv, BirthInv
  <2>3. TypeOK'
    <3>1. pc' \in [Stages -> {"unborn", "create", "connect", "open", "read", "write",
                              "pause", "exited"}]
      BY <1>4 DEF Goto, FirstPoint, IInv, TypeOK
    <3>2. coordinator' \in Stages \cup {"wait", "failed", "exited"} BY <1>4 DEF After
    <3> QED BY <1>1, <1>2, <3>1, <3>2 DEF IInv, TypeOK
  <2>4. BirthInv' BY <1>4, <2>1, <2>2 DEF After, IInv, StageInv, BirthInv
  <2>5. GeneratorInv' BY <1>1, <1>2, <2>2 DEF IInv, StageInv, GeneratorInv
  <2>6. ProcessorInv' BY <1>1, <1>2, <2>2 DEF IInv, StageInv, ProcessorInv
  <2>7. VisualizerInv' BY <1>1, <2>2 DEF IInv, StageInv, VisualizerInv
  <2>8. /\ pc'["processor"] = "write" => pc["processor"] = "write"
        /\ pc'["visualizer"] \in {"pause", "exited"} => pc["visualizer"] \in {"pause", "exited"}
    BY <2>2
  <2> QED BY <1>1, <2>3, <2>4, <2>5, <2>6, <2>7, <2>8, Advance
<1> QED BY <1>3, <1>4 DEF StartStage

LEMMA OpenInputStep ==
    ASSUME IInv, UNCHANGED <<coordinator, killed>>,
           \/ OpenInput(1, "processor", "create")
           \/ OpenInput(2, "visualizer", "read")
    PROVE  IInv'
<1> USE StageNames
<1>1. UNCHANGED data BY DEF OpenInput
<1>2. UNCHANGED <<generated, held, shown>> BY <1>1 DEF data
<1>3. CASE pc["processor"] = "open" /\ Finish("processor")
  <2>1. queue[2] = << >> /\ shown = << >> BY <1>3 DEF IInv, StageInv, ProcessorInv
  <2>2. Len(queue[2]) + Len(shown) = 0 BY <2>1
  <2> QED BY <1>2, <1>3, <2>2, FinishProcessor
<1>4. CASE pc["visualizer"] = "open" /\ Finish("visualizer")
  <2>1. shown = << >> BY <1>4 DEF IInv, StageInv, VisualizerInv, PipeInv
  <2>2. Len(shown) = 0 BY <2>1
  <2> QED BY <1>1, <1>4, <2>2, FinishVisualizer
<1>5. ASSUME NEW k \in Pipes, NEW p \in Stages, p = ClientOf(k), NEW next,
             next = (IF k = 1 THEN "create" ELSE "read"),
             pc[p] = "open", CanOpen(k), Open(k), Goto(p, next), UNCHANGED queue
      PROVE  IInv'
  <2>1. /\ client[k] = "none" /\ client'[k] = "open"
        /\ \A j \in Pipes : j # k => client'[j] = client[j]
        /\ \A j \in Pipes : server'[j] = "closed" <=> server[j] = "closed"
        /\ server[k] # "closed"
    BY <1>5 DEF CanOpen, Open, IInv, TypeOK
  <2>2. pc'[p] = next /\ \A q \in Stages : q # p => pc'[q] = pc[q]
    BY <1>5 DEF Goto, IInv, TypeOK
  <2>3. TypeOK'
    <3>1. pc' \in [Stages -> {"unborn", "create", "connect", "open", "read", "write",
                              "pause", "exited"}]
      BY <1>5 DEF Goto, IInv, TypeOK
    <3>2. /\ server' \in [Pipes -> {"absent", "created", "waiting", "connected", "closed"}]
          /\ client' \in [Pipes -> {"none", "open", "closed"}]
      BY <1>5 DEF Open, IInv, TypeOK
    <3> QED BY <1>2, <1>5, <3>1, <3>2 DEF IInv, TypeOK
  <2>4. BirthInv' BY <1>5, <2>2 DEF IInv, StageInv, BirthInv
  <2>5. GeneratorInv' BY <1>2, <1>5, <2>1, <2>2 DEF IInv, StageInv, GeneratorInv
  <2>6. ProcessorInv' BY <1>2, <1>5, <2>1, <2>2 DEF IInv, StageInv, ProcessorInv
  <2>7. VisualizerInv' BY <1>5, <2>1, <2>2 DEF IInv, StageInv, VisualizerInv
  <2>8. PipeInv' BY <1>2, <1>5, <2>1 DEF IInv, StageInv, PipeInv
  <2>9. FlowInv'
    <3>1. pc'["processor"] = "write" => pc["processor"] = "write" BY <1>5, <2>2
    <3>2. k = 1 => /\ generated = 0 /\ queue[1] = << >> /\ held = << >> /\ queue[2] = << >>
                   /\ shown = << >>
      BY <1>5, <2>1 DEF IInv, StageInv, PipeInv, ProcessorInv
    <3>3. client'[2] # "closed" => client[2] # "closed" BY <2>1
    <3>4. client'[1] = "open" /\ client'[2] # "closed" =>
              generated = Len(queue[1]) + Len(held) + Len(queue[2]) + Len(shown)
      <4>1. CASE k = 1
        <5>1. /\ generated = 0 /\ Len(queue[1]) = 0 /\ Len(held) = 0 /\ Len(queue[2]) = 0
              /\ Len(shown) = 0
          BY <3>2, <4>1
        <5> QED BY <5>1
      <4>2. CASE k = 2 BY <2>1, <3>3, <4>2 DEF IInv, FlowInv
      <4> QED BY <4>1, <4>2
    <3> QED BY <1>2, <1>5, <3>1, <3>3, <3>4 DEF IInv, FlowInv, ShownInOrder
  <2>10. pc'["visualizer"] \in {"pause", "exited"} => pc["visualizer"] \in {"pause", "exited"}
    BY <1>5, <2>2
  <2>11. \A j \in Pipes : server'[j] = "closed" /\ client'[j] = "open"
                              => server[j] = "closed" /\ client[j] = "open"
    BY <2>1
  <2>12. EndInv' BY <1>2, <1>5, <2>10, <2>11 DEF IInv, EndInv
  <2> QED BY <2>3, <2>4, <2>5, <2>6, <2>7, <2>8, <2>9, <2>12 DEF IInv, StageInv
<1>6. CASE OpenInput(1, "processor", "create") /\ CanOpen(1)
  BY <1>5, <1>6 DEF OpenInput
<1>7. CASE OpenInput(2, "visualizer", "read") /\ CanOpen(2)
  BY <1>5, <1>7 DEF OpenInput
<1> QED BY <1>3, <1>4, <1>6, <1>7 DEF OpenInput

LEMMA GenerateBlockStep ==
    ASSUME IInv, UNCHANGED <<coordinator, killed>>, GenerateBlock
    PROVE  IInv'
<1> USE StageNames
<1>1. pc["generator"] = "write" /\ UNCHANGED <<held, shown>> BY DEF GenerateBlock
<1>2. CASE /\ Finish("generator") /\ UNCHANGED generated
           /\ client[1] = "open" => generated \in {0, totalBlocks}
  BY <1>1, <1>2, FinishGenerator DEF data
<1>3. CASE /\ generated < totalBlocks /\ CanWrite(1)
           /\ queue' = [queue EXCEPT ![1] = Append(@, [id |-> generated + 1, status |-> "generated"])]
           /\ generated' = generated + 1
           /\ UNCHANGED <<pc, server, client>>
  <2> DEFINE b == [id |-> generated + 1, status |-> "generated"]
  <2>1. /\ queue'[1] = Append(queue[1], b) /\ queue'[2] = queue[2]
        /\ client[1] = "open"
    BY <1>3 DEF CanWrite, IInv, TypeOK
  <2>2. queue[1] \in Seq(Block) /\ generated \in Nat /\ generated + 1 \in 0 .. totalBlocks
    BY <1>3, PipelineAssumption DEF IInv, TypeOK
  <2>3. b \in Block BY <2>2 DEF Block
  <2>4. /\ queue'[1] \in Seq(Block) /\ Len(queue'[1]) = Len(queue[1]) + 1
        /\ queue'[1][Len(queue[1]) + 1] = b
        /\ \A n \in 1 .. Len(queue[1]) : queue'[1][n] = queue[1][n]
    <3> HIDE DEF b
    <3> QED BY <2>1, <2>2, <2>3
  <2>5. TypeOK'
    <3>1. queue' \in [Pipes -> Seq(Block)]
      <4>1. Append(queue[1], b) \in Seq(Block) BY <2>1, <2>4
      <4> QED BY <1>3, <4>1 DEF IInv, TypeOK
    <3> QED BY <1>1, <1>3, <2>2, <3>1 DEF IInv, TypeOK
  <2>6. BirthInv' /\ VisualizerInv' BY <1>3 DEF IInv, StageInv, BirthInv, VisualizerInv
  <2>7. GeneratorInv' BY <1>1, <1>3 DEF IInv, StageInv, GeneratorInv
  <2>8. ProcessorInv' BY <1>1, <1>3, <2>1 DEF IInv, StageInv, ProcessorInv
  <2>9. PipeInv' BY <1>1, <1>3, <2>1 DEF IInv, StageInv, PipeInv
  <2>10. FlowInv'
    <3>1. ASSUME NEW n \in 1 .. Len(queue'[1])
          PROVE  queue'[1][n] = [id |-> generated' - Len(queue'[1]) + n, status |-> "generated"]
      <4>1. Len(queue[1]) \in Nat BY <2>2
      <4>2. generated' - Len(queue'[1]) = generated - Len(queue[1])
        <5>1. generated' = generated + 1 /\ Len(queue'[1]) = Len(queue[1]) + 1 BY <1>3, <2>4
        <5>2. generated \in Int BY <2>2
        <5> QED BY <4>1, <5>1, <5>2
      <4>3. CASE n \in 1 .. Len(queue[1]) BY <2>4, <4>2, <4>3 DEF IInv, FlowInv
      <4>4. CASE n = Len(queue[1]) + 1
        <5>1. generated \in Int BY <2>2
        <5>2. PICK m \in Nat : m = Len(queue[1]) BY <4>1
        <5>3. generated - m + (m + 1) = generated + 1 BY <5>1
        <5> QED BY <2>4, <4>2, <4>4, <5>2, <5>3
      <4> QED BY <2>4, <4>1, <4>3, <4>4
    <3>2. client[2] # "closed" =>
              generated' = Len(queue'[1]) + Len(held) + Len(queue[2]) + Len(shown)
      BY <1>3, <2>1, <2>2, <2>4 DEF IInv, TypeOK, FlowInv
    <3>3. \A n \in 1 .. Len(queue'[2]) : queue'[2][n] = [id |-> Len(shown') + n, status |-> "sorted"]
      BY <1>1, <2>1 DEF IInv, FlowInv
    <3>4. ShownInOrder' BY <1>1 DEF IInv, FlowInv, ShownInOrder
    <3>5. pc'["processor"] = "write" /\ client'[2] # "closed" =>
              held' = << [id |-> Len(shown') + Len(queue'[2]) + 1, status |-> "sorted"] >>
      BY <1>1, <1>3, <2>1 DEF IInv, FlowInv
    <3>6. client'[2] # "closed" =>
              generated' = Len(queue'[1]) + Len(held') + Len(queue'[2]) + Len(shown')
      BY <1>1, <1>3, <2>1, <3>2
    <3> QED BY <3>1, <3>3, <3>4, <3>5, <3>6 DEF FlowInv
  <2>11. server[1] # "closed" BY <1>1 DEF IInv, StageInv, GeneratorInv
  <2>12. EndInv' BY <1>1, <1>3, <2>1, <2>11 DEF IInv, EndInv
  <2> QED BY <2>5, <2>6, <2>7, <2>8, <2>9, <2>10, <2>12 DEF IInv, StageInv
<1> QED BY <1>1, <1>2, <1>3 DEF GenerateBlock, WriteFails

\* Reading a pipe that has a block.
LEMMA HeadTail ==
    ASSUME TypeOK, NEW k \in Pipes, CanRead(k), queue' = [queue EXCEPT ![k] = Tail(@)]
    PROVE  /\ Head(queue[k]) = queue[k][1] /\ Head(queue[k]) \in Block
           /\ 1 \in 1 .. Len(queue[k])
           /\ queue'[k] \in Seq(Block) /\ Len(queue'[k]) = Len(queue[k]) - 1
           /\ \A n \in 1 .. Len(queue'[k]) : queue'[k][n] = queue[k][n + 1]
           /\ \A n \in 1 .. Len(queue'[k]) : n + 1 \in 1 .. Len(queue[k])
           /\ \A j \in Pipes : j # k => queue'[j] = queue[j]
           /\ queue' \in [Pipes -> Seq(Block)]
           /\ client[k] = "none" \/ client[k] = "open" \/ client[k] = "closed"
<1> USE DEF TypeOK, CanRead
<1>1. queue[k] \in Seq(Block) /\ queue[k] # << >> OBVIOUS
<1>2. queue'[k] = Tail(queue[k]) /\ \A j \in Pipes : j # k => queue'[j] = queue[j] OBVIOUS
<1>3. Tail(queue[k]) \in Seq(Block) /\ Len(Tail(queue[k])) = Len(queue[k]) - 1 BY <1>1
<1>4. \A n \in 1 .. Len(Tail(queue[k])) : Tail(queue[k])[n] = queue[k][n + 1] BY <1>1
<1>5. Head(queue[k]) = queue[k][1] /\ Head(queue[k]) \in Block BY <1>1
<1>6. Len(queue[k]) \in Nat /\ Len(queue[k]) # 0 BY <1>1
<1>7. queue' \in [Pipes -> Seq(Block)] BY <1>3
<1>8. \A n \in 1 .. Len(queue'[k]) : n + 1 \in 1 .. Len(queue[k]) BY <1>2, <1>3, <1>6
<1> QED BY <1>2, <1>3, <1>4, <1>5, <1>6, <1>7, <1>8

LEMMA ReadBlockStep ==
    ASSUME IInv, UNCHANGED <<coordinator, killed>>, ReadBlock
    PROVE  IInv'
<1> USE StageNames
<1>1. pc["processor"] = "read" /\ UNCHANGED <<generated, shown>> BY DEF ReadBlock
<1>2. client[1] = "open" /\ held = << >> /\ server[2] # "closed"
  BY <1>1 DEF IInv, StageInv, ProcessorInv
<1>3. CASE ReadFails(1) /\ Finish("processor") /\ UNCHANGED held
  <2>1. queue[1] = << >> /\ server[1] = "closed" BY <1>3 DEF ReadFails
  <2>2. Len(queue[1]) = 0 /\ Len(held) = 0 BY <1>2, <2>1
  <2>3. killed = {} /\ client[2] = "open" => Len(queue[2]) + Len(shown) \in {0, totalBlocks}
    <3> SUFFICES ASSUME killed = {}, client[2] = "open"
                 PROVE  Len(queue[2]) + Len(shown) \in {0, totalBlocks}
      OBVIOUS
    <3>1. generated \in {0, totalBlocks} BY <1>2, <2>1 DEF IInv, EndInv
    <3>2. generated = Len(queue[1]) + Len(held) + Len(queue[2]) + Len(shown)
      BY <1>2 DEF IInv, FlowInv
    <3>3. Len(queue[2]) \in Nat /\ Len(shown) \in Nat BY DEF IInv, TypeOK
    <3> QED BY <2>2, <3>1, <3>2, <3>3
  <2> QED BY <1>1, <1>3, <2>3, FinishProcessor
<1>4. CASE /\ CanRead(1)
           /\ held' = << [Head(queue[1]) EXCEPT !.status = "sorted"] >>
           /\ queue' = [queue EXCEPT ![1] = Tail(@)]
           /\ Goto("processor", "write")
           /\ UNCHANGED <<server, client>>
  <2>1. TypeOK BY DEF IInv
  <2>2. /\ Head(queue[1]) = queue[1][1] /\ Head(queue[1]) \in Block
        /\ 1 \in 1 .. Len(queue[1])
        /\ queue'[1] \in Seq(Block) /\ Len(queue'[1]) = Len(queue[1]) - 1
        /\ \A n \in 1 .. Len(queue'[1]) : queue'[1][n] = queue[1][n + 1]
        /\ \A n \in 1 .. Len(queue'[1]) : n + 1 \in 1 .. Len(queue[1])
        /\ queue'[2] = queue[2]
        /\ queue' \in [Pipes -> Seq(Block)]
    BY <1>4, <2>1, HeadTail
  <2> DEFINE b == [Head(queue[1]) EXCEPT !.status = "sorted"]
  <2>3. b \in Block /\ b = [id |-> Head(queue[1]).id, status |-> "sorted"] BY <2>2 DEF Block
  <2>4. held' = << b >> /\ held' \in Seq(Block) /\ Len(held') = 1
    <3>1. held' = << b >> BY <1>4
    <3> HIDE DEF b
    <3> QED BY <2>3, <3>1
  <2>5. /\ pc'["processor"] = "write" /\ pc'["generator"] = pc["generator"]
        /\ pc'["visualizer"] = pc["visualizer"]
    BY <1>4, <2>1 DEF Goto, TypeOK
  <2>6. TypeOK'
    <3>1. pc' \in [Stages -> {"unborn", "create", "connect", "open", "read", "write",
                              "pause", "exited"}]
      BY <1>4, <2>1 DEF Goto, TypeOK
    <3> QED BY <1>1, <1>4, <2>1, <2>2, <2>4, <3>1 DEF TypeOK
  <2>7. BirthInv' BY <1>1, <2>5 DEF IInv, StageInv, BirthInv
  <2>8. GeneratorInv' BY <1>1, <1>4, <2>5 DEF IInv, StageInv, GeneratorInv
  <2>9. ProcessorInv' BY <1>2, <1>4, <2>5 DEF ProcessorInv
  <2>10. VisualizerInv' BY <1>4, <2>5 DEF IInv, StageInv, VisualizerInv
  <2>11. PipeInv' BY <1>1, <1>2, <1>4, <2>2 DEF IInv, StageInv, PipeInv
  <2>12. FlowInv'
    <3>1. Len(queue[1]) \in Nat /\ Len(queue[2]) \in Nat /\ Len(shown) \in Nat /\ generated \in Nat
      BY <2>1 DEF TypeOK
    <3>2. ASSUME NEW n \in 1 .. Len(queue'[1])
          PROVE  queue'[1][n] = [id |-> generated' - Len(queue'[1]) + n, status |-> "generated"]
      <4>1. queue[1][n + 1] = [id |-> generated - Len(queue[1]) + (n + 1), status |-> "generated"]
        BY <2>2 DEF IInv, FlowInv
      <4>2. generated' - Len(queue'[1]) + n = generated - Len(queue[1]) + (n + 1)
        <5>1. generated' = generated /\ Len(queue'[1]) = Len(queue[1]) - 1 BY <1>1, <2>2
        <5> QED BY <3>1, <5>1
      <4> QED BY <2>2, <4>1, <4>2
    <3>b. PICK l \in Nat, m \in Nat, t \in Nat :
            l = Len(queue[1]) /\ m = Len(queue[2]) /\ t = Len(shown)
      BY <3>1
    <3>a. Len(held) = 0 /\ Len(queue'[1]) = l - 1 /\ Len(held') = 1 BY <1>2, <2>2, <2>4, <3>b
    <3>3. client[2] # "closed" => generated = l + m + t
      <4>1. client[2] # "closed" => generated = l + Len(held) + m + t
        BY <1>2, <3>b DEF IInv, FlowInv
      <4>2. l + 0 + m + t = l + m + t OBVIOUS
      <4> QED BY <3>a, <4>1, <4>2
    <3>4. queue[1][1] = [id |-> generated - Len(queue[1]) + 1, status |-> "generated"]
      BY <2>2 DEF IInv, FlowInv
    <3>5. client[2] # "closed" => generated - l + 1 = t + m + 1
      <4>1. l + m + t - l + 1 = t + m + 1 OBVIOUS
      <4> QED BY <3>3, <4>1
    <3>6. client[2] # "closed" =>
              held' = << [id |-> Len(shown) + Len(queue[2]) + 1, status |-> "sorted"] >>
      BY <2>2, <2>3, <2>4, <3>b, <3>4, <3>5
    <3>7. client[2] # "closed" =>
              generated = Len(queue'[1]) + Len(held') + Len(queue[2]) + Len(shown)
      <4>1. l - 1 + 1 + m + t = l + m + t OBVIOUS
      <4> QED BY <3>a, <3>b, <3>3, <4>1
    <3> HIDE DEF b
    <3> QED BY <1>1, <1>4, <2>2, <3>2, <3>6, <3>7 DEF IInv, FlowInv, ShownInOrder
  <2>13. EndInv' BY <1>1, <1>4, <2>2, <2>5 DEF IInv, EndInv
  <2> QED BY <2>6, <2>7, <2>8, <2>9, <2>10, <2>11, <2>12, <2>13 DEF IInv, StageInv
<1> QED BY <1>3, <1>4 DEF ReadBlock

LEMMA WriteBlockStep ==
    ASSUME IInv, UNCHANGED <<coordinator, killed>>, WriteBlock
    PROVE  IInv'
<1> USE StageNames
<1>1. /\ pc["processor"] = "write" /\ held' = << >>
      /\ UNCHANGED <<generated, shown>>
  BY DEF WriteBlock
<1>2. client[1] = "open" /\ server[2] # "closed" BY <1>1 DEF IInv, StageInv, ProcessorInv
<1>3. CASE WriteFails(2) /\ Finish("processor")
  BY <1>1, <1>3, FinishProcessor DEF WriteFails
<1>4. CASE /\ CanWrite(2)
           /\ queue' = [queue EXCEPT ![2] = Append(@, held[1])]
           /\ Goto("processor", "read")
           /\ UNCHANGED <<server, client>>
  <2>1. TypeOK /\ client[2] = "open" BY <1>4 DEF IInv, CanWrite
  <2>2. held = << [id |-> Len(shown) + Len(queue[2]) + 1, status |-> "sorted"] >>
    BY <1>1, <2>1 DEF IInv, FlowInv
  <2>3. /\ queue[1] \in Seq(Block) /\ queue[2] \in Seq(Block) /\ shown \in Seq(Block)
        /\ Len(queue[1]) \in Nat /\ Len(queue[2]) \in Nat /\ Len(shown) \in Nat
    BY <2>1 DEF TypeOK
  <2>4. PICK b \in Block : b = [id |-> Len(shown) + Len(queue[2]) + 1, status |-> "sorted"]
    <3>1. Len(shown) + Len(queue[2]) + 1 \in Nat BY <2>3
    <3> QED BY <3>1 DEF Block
  <2>5. held[1] = b /\ Len(held) = 1 BY <2>2, <2>4
  <2>6. queue'[2] = Append(queue[2], b) /\ queue'[1] = queue[1] BY <1>4, <2>1, <2>5 DEF TypeOK
  <2>7. /\ queue'[2] \in Seq(Block) /\ Len(queue'[2]) = Len(queue[2]) + 1
        /\ queue'[2][Len(queue[2]) + 1] = b
        /\ \A n \in 1 .. Len(queue[2]) : queue'[2][n] = queue[2][n]
    BY <2>3, <2>6
  <2>8. /\ pc'["processor"] = "read" /\ pc'["generator"] = pc["generator"]
        /\ pc'["visualizer"] = pc["visualizer"]
    BY <1>4, <2>1 DEF Goto, TypeOK
  <2>9. Len(held') = 0 /\ held' \in Seq(Block) BY <1>1
  <2>10. TypeOK'
    <3>1. pc' \in [Stages -> {"unborn", "create", "connect", "open", "read", "write",
                              "pause", "exited"}]
      BY <1>4, <2>1 DEF Goto, TypeOK
    <3>2. queue' \in [Pipes -> Seq(Block)]
      <4>1. queue' = [queue EXCEPT ![2] = queue'[2]] BY <1>4, <2>1, <2>5, <2>6 DEF TypeOK
      <4> QED BY <2>1, <2>7, <4>1 DEF TypeOK
    <3> QED BY <1>1, <1>4, <2>1, <2>9, <3>1, <3>2 DEF TypeOK
  <2>11. BirthInv' BY <1>1, <2>8 DEF IInv, StageInv, BirthInv
  <2>12. GeneratorInv' BY <1>1, <1>4, <2>8 DEF IInv, StageInv, GeneratorInv
  <2>13. ProcessorInv' BY <1>1, <1>2, <1>4, <2>8 DEF ProcessorInv
  <2>14. VisualizerInv' BY <1>4, <2>8 DEF IInv, StageInv, VisualizerInv
  <2>15. PipeInv' BY <1>1, <1>4, <2>1, <2>6 DEF IInv, StageInv, PipeInv
  <2>16. FlowInv'
    <3>1. ASSUME NEW n \in 1 .. Len(queue'[2])
          PROVE  queue'[2][n] = [id |-> Len(shown) + n, status |-> "sorted"]
      <4>1. CASE n \in 1 .. Len(queue[2]) BY <2>7, <4>1 DEF IInv, FlowInv
      <4>2. CASE n = Len(queue[2]) + 1
        <5>1. Len(shown) + n = Len(shown) + Len(queue[2]) + 1 BY <2>3, <4>2
        <5> QED BY <2>4, <2>7, <4>2, <5>1
      <4> QED BY <2>3, <2>7, <4>1, <4>2
    <3>2. generated = Len(queue[1]) + Len(held') + Len(queue'[2]) + Len(shown)
      <4>1. generated = Len(queue[1]) + Len(held) + Len(queue[2]) + Len(shown)
        BY <1>2, <2>1 DEF IInv, FlowInv
      <4>2. PICK l \in Nat, m \in Nat, t \in Nat :
                l = Len(queue[1]) /\ m = Len(queue[2]) /\ t = Len(shown)
        BY <2>3
      <4>3. l + 1 + m + t = l + 0 + (m + 1) + t OBVIOUS
      <4> QED BY <2>5, <2>7, <2>9, <4>1, <4>2, <4>3
    <3>3. \A n \in 1 .. Len(queue'[1]) :
              queue'[1][n] = [id |-> generated' - Len(queue'[1]) + n, status |-> "generated"]
      BY <1>1, <2>6 DEF IInv, FlowInv
    <3>4. ShownInOrder' BY <1>1 DEF IInv, FlowInv, ShownInOrder
    <3>5. \A n \in 1 .. Len(queue'[2]) : queue'[2][n] = [id |-> Len(shown') + n, status |-> "sorted"]
      BY <1>1, <3>1
    <3>6. generated' = Len(queue'[1]) + Len(held') + Len(queue'[2]) + Len(shown')
      BY <1>1, <2>6, <3>2
    <3>7. pc'["processor"] # "write" BY <2>8
    <3> QED BY <3>3, <3>4, <3>5, <3>6, <3>7 DEF FlowInv
  <2>17. EndInv' BY <1>1, <1>2, <1>4, <2>8 DEF IInv, EndInv
  <2> QED BY <2>10, <2>11, <2>12, <2>13, <2>14, <2>15, <2>16, <2>17 DEF IInv, StageInv
<1> QED BY <1>3, <1>4 DEF WriteBlock

LEMMA ShowBlockStep ==
    ASSUME IInv, UNCHANGED <<coordinator, killed>>, ShowBlock
    PROVE  IInv'
<1> USE StageNames
<1>1. pc["visualizer"] = "read" /\ UNCHANGED <<generated, held>> BY DEF ShowBlock
<1>2. client[2] = "open" BY <1>1 DEF IInv, StageInv, VisualizerInv
<1>3. CASE ReadFails(2) /\ Finish("visualizer") /\ UNCHANGED shown
  <2>1. queue[2] = << >> /\ server[2] = "closed" BY <1>3 DEF ReadFails
  <2>2. Len(queue[2]) = 0 /\ Len(shown) \in Nat BY <2>1 DEF IInv, TypeOK
  <2>3. killed = {} => Len(shown) \in {0, totalBlocks} BY <1>2, <2>1, <2>2 DEF IInv, EndInv
  <2> QED BY <1>1, <1>3, <2>3, FinishVisualizer DEF data
<1>4. CASE /\ CanRead(2)
           /\ shown' = Append(shown, Head(queue[2]))
           /\ queue' = [queue EXCEPT ![2] = Tail(@)]
           /\ UNCHANGED <<pc, server, client>>
  <2>1. TypeOK BY DEF IInv
  <2>2. /\ Head(queue[2]) = queue[2][1] /\ Head(queue[2]) \in Block
        /\ 1 \in 1 .. Len(queue[2])
        /\ queue'[2] \in Seq(Block) /\ Len(queue'[2]) = Len(queue[2]) - 1
        /\ \A n \in 1 .. Len(queue'[2]) : queue'[2][n] = queue[2][n + 1]
        /\ \A n \in 1 .. Len(queue'[2]) : n + 1 \in 1 .. Len(queue[2])
        /\ queue'[1] = queue[1]
        /\ queue' \in [Pipes -> Seq(Block)]
    BY <1>4, <2>1, HeadTail
  <2>3. PICK b \in Block : b = Head(queue[2]) BY <2>2
  <2>4. /\ shown \in Seq(Block) /\ Len(shown) \in Nat /\ generated \in Nat
        /\ Len(queue[1]) \in Nat /\ Len(queue[2]) \in Nat /\ Len(held) \in Nat
    BY <2>1 DEF TypeOK
  <2>5. /\ shown' \in Seq(Block) /\ Len(shown') = Len(shown) + 1 /\ shown'[Len(shown) + 1] = b
        /\ \A n \in 1 .. Len(shown) : shown'[n] = shown[n]
    <3>1. shown' = Append(shown, b) BY <1>4, <2>3
    <3> QED BY <2>4, <3>1
  <2>6. b = [id |-> Len(shown) + 1, status |-> "sorted"] BY <2>2, <2>3 DEF IInv, FlowInv
  <2>b. PICK l \in Nat, m \in Nat, h \in Nat, t \in Nat :
          l = Len(queue[1]) /\ m = Len(queue[2]) /\ h = Len(held) /\ t = Len(shown)
    BY <2>4
  <2>a. Len(queue'[2]) = m - 1 /\ Len(shown') = t + 1 BY <2>2, <2>5, <2>b
  <2>7. Len(queue'[2]) + Len(shown') = Len(queue[2]) + Len(shown)
    <3>1. m - 1 + (t + 1) = m + t OBVIOUS
    <3> QED BY <2>a, <2>b, <3>1
  <2>8. TypeOK' BY <1>1, <1>4, <2>1, <2>2, <2>5 DEF TypeOK
  <2>9. queue[2] # << >> BY <1>4 DEF CanRead
  <2>10. BirthInv' /\ GeneratorInv' /\ VisualizerInv'
    BY <1>1, <1>4 DEF IInv, StageInv, BirthInv, GeneratorInv, VisualizerInv
  <2>11. ProcessorInv' BY <1>1, <1>4, <2>9 DEF IInv, StageInv, ProcessorInv
  <2>12. PipeInv' BY <1>1, <1>2, <1>4, <2>2 DEF IInv, StageInv, PipeInv
  <2>13. FlowInv'
    <3>1. ASSUME NEW n \in 1 .. Len(queue'[2])
          PROVE  queue'[2][n] = [id |-> Len(shown') + n, status |-> "sorted"]
      <4>1. queue[2][n + 1] = [id |-> Len(shown) + (n + 1), status |-> "sorted"]
        BY <2>2 DEF IInv, FlowInv
      <4>2. Len(shown') + n = Len(shown) + (n + 1) BY <2>4, <2>5
      <4> QED BY <2>2, <4>1, <4>2
    <3>2. ShownInOrder'
      <4>1. ASSUME NEW n \in 1 .. Len(shown')
            PROVE  shown'[n] = [id |-> n, status |-> "sorted"]
        <5>1. CASE n \in 1 .. Len(shown) BY <2>5, <5>1 DEF IInv, FlowInv, ShownInOrder
        <5>2. CASE n = Len(shown) + 1 BY <2>5, <2>6, <5>2
        <5> QED BY <2>4, <2>5, <5>1, <5>2
      <4> QED BY <4>1 DEF ShownInOrder
    <3>3. Len(shown') + Len(queue'[2]) + 1 = Len(shown) + Len(queue[2]) + 1
      <4>1. t + 1 + (m - 1) + 1 = t + m + 1 OBVIOUS
      <4> QED BY <2>a, <2>b, <4>1
    <3>4. Len(queue[1]) + Len(held) + Len(queue'[2]) + Len(shown')
              = Len(queue[1]) + Len(held) + Len(queue[2]) + Len(shown)
      <4>1. l + h + (m - 1) + (t + 1) = l + h + m + t OBVIOUS
      <4> QED BY <2>a, <2>b, <4>1
    <3> QED BY <1>1, <1>4, <2>2, <3>1, <3>2, <3>3, <3>4 DEF IInv, FlowInv
  <2>14. EndInv' BY <1>1, <1>4, <2>2, <2>7 DEF IInv, EndInv
  <2> QED BY <2>8, <2>10, <2>11, <2>12, <2>13, <2>14 DEF IInv, StageInv
<1> QED BY <1>3, <1>4 DEF ShowBlock

LEMMA WaitForAllStep ==
    ASSUME IInv, WaitForAll
    PROVE  IInv'
<1> USE StageNames
<1>1. UNCHANGED <<pc, server, client, queue, data, killed>> /\ coordinator' = "exited"
  BY DEF WaitForAll, pipes
<1>2. UNCHANGED <<generated, held, shown>> BY <1>1 DEF data
<1>3. TypeOK' BY <1>1, <1>2 DEF IInv, TypeOK
<1>4. BirthInv' BY <1>1 DEF BirthInv
<1>5. GeneratorInv' /\ VisualizerInv'
  BY <1>1, <1>2 DEF IInv, StageInv, GeneratorInv, VisualizerInv
<1>6. ProcessorInv' BY <1>1, <1>2 DEF IInv, StageInv, ProcessorInv
<1> QED BY <1>1, <1>3, <1>4, <1>5, <1>6, Advance

LEMMA Stuttering ==
    ASSUME IInv, UNCHANGED vars
    PROVE  IInv'
<1> USE StageNames
<1>1. UNCHANGED <<pc, coordinator, server, client, queue, data, killed>> BY DEF vars, pipes
<1>2. UNCHANGED <<generated, held, shown>> BY <1>1 DEF data
<1>3. TypeOK' BY <1>1, <1>2 DEF IInv, TypeOK
<1>4. BirthInv' /\ GeneratorInv' /\ VisualizerInv'
  BY <1>1, <1>2 DEF IInv, StageInv, BirthInv, GeneratorInv, VisualizerInv
<1>5. ProcessorInv' BY <1>1, <1>2 DEF IInv, StageInv, ProcessorInv
<1> QED BY <1>1, <1>3, <1>4, <1>5, Advance

-----------------------------------------------------------------------------
(* The theorems. *)

LEMMA Initial == Init => IInv
<1> SUFFICES ASSUME Init PROVE IInv OBVIOUS
<1> USE StageNames, PipelineAssumption DEF Init
<1>1. << >> \in Seq(Block) /\ Len(<< >>) = 0 OBVIOUS
<1>2. TypeOK BY <1>1 DEF TypeOK
<1>3. StageInv BY DEF StageInv, BirthInv, GeneratorInv, ProcessorInv, VisualizerInv, PipeInv
<1>4. FlowInv BY <1>1 DEF FlowInv, ShownInOrder
<1>5. EndInv BY DEF EndInv
<1> QED BY <1>2, <1>3, <1>4, <1>5 DEF IInv

LEMMA StageStep ==
    ASSUME IInv, NEW p \in Stages, stage(p)
    PROVE  IInv'
<1> USE StageNames
<1>1. UNCHANGED <<coordinator, killed>> BY DEF stage
<1>2. CASE GeneratorProcess
  BY <1>1, <1>2, CreatePipeStep, ConnectCalledStep, ConnectReturnsStep, GenerateBlockStep
     DEF GeneratorProcess
<1>3. CASE ProcessorProcess
  BY <1>1, <1>3, OpenInputStep, CreatePipeStep, ConnectCalledStep, ConnectReturnsStep,
     ReadBlockStep, WriteBlockStep DEF ProcessorProcess
<1>4. CASE VisualizerProcess
  BY <1>1, <1>4, OpenInputStep, ShowBlockStep DEF VisualizerProcess
<1>5. CASE KeyPressed(p) BY <1>1, <1>5, KeyPressedStep
<1> QED BY <1>2, <1>3, <1>4, <1>5 DEF stage

LEMMA NextStep ==
    ASSUME IInv, [Next]_vars
    PROVE  IInv'
<1>1. CASE main BY <1>1, StartStageStep, WaitForAllStep DEF main
<1>2. ASSUME NEW p \in Stages, stage(p) PROVE IInv' BY <1>2, StageStep
<1>3. ASSUME NEW p \in Stages, Kill(p) PROVE IInv' BY <1>3, KillStep
<1>4. CASE UNCHANGED vars BY <1>4, Stuttering
<1> QED BY <1>1, <1>2, <1>3, <1>4 DEF Next

LEMMA Inductive == Spec => []IInv
<1>1. IInv /\ [Next]_vars => IInv' BY NextStep
<1> QED BY <1>1, Initial, PTL DEF Spec

\* Every point of a stage, end of a pipe and block is one the code has.
THEOREM TypeCorrect == Spec => []TypeOK
<1>1. IInv => TypeOK BY DEF IInv
<1> QED BY <1>1, Inductive, PTL

\* The visualizer shows the first blocks in order, each once and sorted, through
\* full pipes, failing calls and kills at any time.
THEOREM OrderCorrect == Spec => []ShownInOrder
<1>1. IInv => ShownInOrder BY DEF IInv, FlowInv
<1> QED BY <1>1, Inductive, PTL

\* Without a kill a visualizer that has ended has shown all blocks or none, in
\* whatever order the stages found each other.
THEOREM EndCorrect == Spec => []AllOrNothing
<1>1. IInv => AllOrNothing BY DEF IInv, EndInv, AllOrNothing
<1> QED BY <1>1, Inductive, PTL

-----------------------------------------------------------------------------
(* Nobody waits in a circle. *)

\* An end of a pipe is open exactly while the stage it belongs to is at work,
\* and a server is connected only once the client has been there.
LinkInv ==
    /\ \A k \in Pipes :
          /\ server[k] \in {"created", "waiting", "connected"} =>
                 pc[ServerOf(k)] \in {"connect", "read", "write"}
          /\ client[k] # "none" => server[k] # "absent"
          /\ server[k] = "connected" => client[k] # "none"
    /\ client[1] = "open" => pc["processor"] \in {"create", "connect", "read", "write"}
    /\ client[2] = "open" => pc["visualizer"] = "read"
    /\ pc["generator"] = "write" => client[1] # "none"
    /\ pc["processor"] \in {"read", "write"} => client[2] # "none"

LEMMA LinkInitially == Init => LinkInv
BY StageNames DEF Init, LinkInv

\* A stage that ends closes its ends.
LEMMA LinkEnd ==
    ASSUME IInv, LinkInv, NEW p \in Stages, NEW point \in {"pause", "exited"},
           CloseAll(p), Goto(p, point)
    PROVE  LinkInv'
<1> USE StageNames
<1>1. pc'[p] = point /\ \A q \in Stages : q # p => pc'[q] = pc[q] BY DEF IInv, TypeOK, Goto
<1>2. \A k \in Pipes :
        /\ server'[k] = IF ServerOf(k) = p /\ server[k] # "absent" THEN "closed" ELSE server[k]
        /\ client'[k] = IF ClientOf(k) = p /\ client[k] # "none" THEN "closed" ELSE client[k]
  BY DEF CloseAll
<1>3. CASE p = "generator" BY <1>1, <1>2, <1>3 DEF LinkInv
<1>4. CASE p = "processor" BY <1>1, <1>2, <1>4 DEF LinkInv
<1>5. CASE p = "visualizer" BY <1>1, <1>2, <1>5 DEF LinkInv
<1> QED BY <1>3, <1>4, <1>5

\* A step that opens and closes nothing, of a stage that goes on.
LEMMA LinkFrame ==
    ASSUME LinkInv, UNCHANGED <<server, client>>,
           \A p \in Stages : \/ pc'[p] = pc[p]
                             \/ pc[p] \in {"read", "write"} /\ pc'[p] \in {"read", "write"}
                                /\ p = "processor"
                             \/ pc[p] \in {"pause", "unborn"} /\ pc'[p] \in {"create", "open", "exited"}
    PROVE  LinkInv'
BY StageNames DEF LinkInv

LEMMA LinkStage ==
    ASSUME IInv, LinkInv, NEW p \in Stages, stage(p)
    PROVE  LinkInv'
<1> USE StageNames
<1>0. pc \in [Stages -> {"unborn", "create", "connect", "open", "read", "write", "pause", "exited"}]
      /\ server \in [Pipes -> {"absent", "created", "waiting", "connected", "closed"}]
      /\ client \in [Pipes -> {"none", "open", "closed"}]
  BY DEF IInv, TypeOK
<1>1. ASSUME NEW q \in Stages, Finish(q) PROVE LinkInv'
  BY <1>1, LinkEnd DEF Finish
<1>2. ASSUME NEW k \in Pipes, CreatePipe(k, ServerOf(k)) PROVE LinkInv'
  <2>1. CASE Finish(ServerOf(k)) BY <1>1, <2>1
  <2>2. CASE ~Finish(ServerOf(k))
    <3>1. server' = [server EXCEPT ![k] = "created"] /\ client' = client
          /\ pc' = [pc EXCEPT ![ServerOf(k)] = "connect"] /\ pc[ServerOf(k)] = "create"
      BY <1>2, <2>2 DEF CreatePipe, Create, Goto
    <3>2. CASE k = 1 BY <1>0, <3>1, <3>2 DEF LinkInv
    <3>3. CASE k = 2 BY <1>0, <3>1, <3>3 DEF LinkInv
    <3> QED BY <3>2, <3>3
  <2> QED BY <2>1, <2>2
<1>3. ASSUME NEW k \in Pipes, ConnectCalled(k, ServerOf(k)) PROVE LinkInv'
  <2>1. CASE client[k] = "none"
    <3>1. server' = [server EXCEPT ![k] = "waiting"] /\ UNCHANGED <<client, pc>>
          /\ server[k] = "created"
      BY <1>3, <2>1 DEF ConnectCalled
    <3> QED BY <1>0, <3>1 DEF LinkInv
  <2>2. CASE client[k] # "none" BY <1>1, <1>3, <2>2 DEF ConnectCalled
  <2> QED BY <2>1, <2>2
<1>4. ASSUME NEW k \in Pipes, NEW next \in {"read", "write"},
             next = IF k = 1 THEN "write" ELSE "read", ConnectReturns(k, ServerOf(k), next)
      PROVE  LinkInv'
  <2>1. server[k] = "connected" /\ pc[ServerOf(k)] = "connect"
        /\ pc' = [pc EXCEPT ![ServerOf(k)] = next] /\ UNCHANGED <<server, client>>
    BY <1>4 DEF ConnectReturns, Goto, pipes
  <2>2. CASE k = 1 BY <1>0, <1>4, <2>1, <2>2 DEF LinkInv
  <2>3. CASE k = 2 BY <1>0, <1>4, <2>1, <2>3 DEF LinkInv
  <2> QED BY <2>2, <2>3
<1>5. ASSUME NEW k \in Pipes, NEW next \in {"create", "read"},
             next = IF k = 1 THEN "create" ELSE "read", OpenInput(k, ClientOf(k), next)
      PROVE  LinkInv'
  <2>1. CASE CanOpen(k)
    <3>1. /\ server[k] \in {"created", "waiting"} /\ client[k] = "none" /\ pc[ClientOf(k)] = "open"
          /\ client' = [client EXCEPT ![k] = "open"]
          /\ server' = [server EXCEPT ![k] = IF @ = "waiting" THEN "connected" ELSE @]
          /\ pc' = [pc EXCEPT ![ClientOf(k)] = next]
      BY <1>5, <2>1 DEF OpenInput, CanOpen, Open, Goto
    <3>2. CASE k = 1 BY <1>0, <1>5, <3>1, <3>2 DEF LinkInv
    <3>3. CASE k = 2 BY <1>0, <1>5, <3>1, <3>3 DEF LinkInv
    <3> QED BY <3>2, <3>3
  <2>2. CASE ~CanOpen(k) BY <1>1, <1>5, <2>2 DEF OpenInput
  <2> QED BY <2>1, <2>2
<1>6. CASE GeneratorProcess
  <2>1. CASE GenerateBlock
    <3>1. CASE Finish("generator") BY <1>1, <3>1
    <3>2. CASE UNCHANGED <<pc, server, client>> BY <3>2, LinkFrame
    <3> QED BY <2>1, <3>1, <3>2 DEF GenerateBlock
  <2> QED BY <1>2, <1>3, <1>4, <1>6, <2>1 DEF GeneratorProcess
<1>7. CASE ProcessorProcess
  <2>1. CASE ReadBlock \/ WriteBlock
    <3>1. CASE Finish("processor") BY <1>1, <3>1
    <3>2. CASE /\ UNCHANGED <<server, client>>
               /\ pc["processor"] \in {"read", "write"}
               /\ Goto("processor", "write") \/ Goto("processor", "read")
      <4>1. \A q \in Stages : \/ pc'[q] = pc[q]
                              \/ pc'[q] \in {"read", "write"} /\ q = "processor"
        BY <1>0, <3>2 DEF Goto
      <4> QED BY <3>2, <4>1, LinkFrame
    <3> QED BY <2>1, <3>1, <3>2 DEF ReadBlock, WriteBlock
  <2> QED BY <1>2, <1>3, <1>4, <1>5, <1>7, <2>1 DEF ProcessorProcess
<1>8. CASE VisualizerProcess
  <2>1. CASE ShowBlock
    <3>1. CASE Finish("visualizer") BY <1>1, <3>1
    <3>2. CASE UNCHANGED <<pc, server, client>> BY <3>2, LinkFrame
    <3> QED BY <2>1, <3>1, <3>2 DEF ShowBlock
  <2> QED BY <1>5, <1>8, <2>1 DEF VisualizerProcess
<1>9. CASE KeyPressed(p)
  <2>1. pc[p] = "pause" /\ pc' = [pc EXCEPT ![p] = "exited"] /\ UNCHANGED <<server, client>>
    BY <1>9 DEF KeyPressed, Goto, pipes
  <2>2. \A q \in Stages : pc'[q] = pc[q] \/ (pc[q] = "pause" /\ pc'[q] = "exited")
    BY <1>0, <2>1
  <2> QED BY <2>1, <2>2, LinkFrame
<1> QED BY <1>6, <1>7, <1>8, <1>9 DEF stage

LEMMA LinkStep ==
    ASSUME IInv, LinkInv, [Next]_vars
    PROVE  LinkInv'
<1>1. CASE UNCHANGED vars BY <1>1, LinkFrame DEF vars, pipes
<1>2. CASE WaitForAll BY <1>2, LinkFrame DEF WaitForAll, pipes
<1>3. CASE StartStage
  <2>1. UNCHANGED <<server, client>> BY <1>3 DEF StartStage, pipes
  <2>2. pc \in [Stages -> {"unborn", "create", "connect", "open", "read", "write", "pause", "exited"}]
    BY DEF IInv, TypeOK
  <2>3. coordinator \in Stages /\ pc[coordinator] = "unborn"
    BY <1>3 DEF StartStage, IInv, StageInv, BirthInv
  <2>4. \A q \in Stages : pc'[q] = pc[q] \/ (pc[q] = "unborn" /\ pc'[q] \in {"create", "open"})
    BY <1>3, <2>2, <2>3 DEF StartStage, Goto, FirstPoint
  <2> QED BY <2>1, <2>4, LinkFrame
<1>4. ASSUME NEW p \in Stages, Kill(p) PROVE LinkInv'
  BY <1>4, LinkEnd DEF Kill
<1> QED BY <1>1, <1>2, <1>3, <1>4, LinkStage DEF Next, main

\* Who waits at a pipe has an end of it, and its neighbour the other.
LEMMA WaitingReader ==
    ASSUME IInv, LinkInv, NEW k \in Pipes, pc[ClientOf(k)] = "read",
           StageWaits(ClientOf(k))
    PROVE  queue[k] = << >> /\ pc[ServerOf(k)] \in {"connect", "read", "write"}
<1> USE StageNames
<1>1. ~CanRead(k) /\ ~ReadFails(k)
  <2>1. ASSUME NEW l \in Pipes, ClientOf(l) = ClientOf(k) PROVE l = k BY <2>1
  <2> QED BY <2>1 DEF StageWaits
<1>2. queue[k] = << >> /\ server[k] # "closed" BY <1>1 DEF CanRead, ReadFails
<1>3. client[k] = "open"
  <2>1. CASE k = 1 BY <2>1 DEF IInv, StageInv, ProcessorInv
  <2>2. CASE k = 2 BY <2>2 DEF IInv, StageInv, VisualizerInv
  <2> QED BY <2>1, <2>2
<1>4. server[k] \in {"created", "waiting", "connected"}
  BY <1>2, <1>3 DEF LinkInv, IInv, TypeOK
<1> QED BY <1>2, <1>4 DEF LinkInv

LEMMA WaitingWriter ==
    ASSUME IInv, LinkInv, NEW k \in Pipes, pc[ServerOf(k)] = "write",
           StageWaits(ServerOf(k))
    PROVE  /\ queue[k] # << >>
           /\ pc[ClientOf(k)] \in {"create", "connect", "read", "write"}
           /\ k = 2 => pc[ClientOf(k)] = "read"
<1> USE StageNames
<1>1. ~CanWrite(k) /\ ~WriteFails(k)
  <2>1. ASSUME NEW l \in Pipes, ServerOf(l) = ServerOf(k) PROVE l = k BY <2>1
  <2> QED BY <2>1 DEF StageWaits
<1>2. client[k] = "open"
  <2>1. client[k] # "none"
    <3>1. CASE k = 1 BY <3>1 DEF LinkInv
    <3>2. CASE k = 2 BY <3>2 DEF LinkInv
    <3> QED BY <3>1, <3>2
  <2>2. client[k] \in {"none", "open", "closed"} BY DEF IInv, TypeOK
  <2> QED BY <1>1, <2>1, <2>2 DEF WriteFails
<1>3. Len(queue[k]) >= Capacity /\ queue[k] \in Seq(Block) /\ Capacity \in Nat \ {0}
  BY <1>1, <1>2, PipelineAssumption DEF CanWrite, IInv, TypeOK
<1>4. Len(queue[k]) # 0 BY <1>3
<1>5. queue[k] # << >> BY <1>4
<1>6. CASE k = 1 BY <1>2, <1>5, <1>6 DEF LinkInv
<1>7. CASE k = 2 BY <1>2, <1>5, <1>7 DEF LinkInv
<1> QED BY <1>6, <1>7

\* For every number of blocks and capacity, whichever stages fail or are killed:
\* the stages that run can go on unless one of them is in ConnectNamedPipe.
THEOREM OnlyConnectBlocks == Spec => []NoCircularWait
<1>1. Init => IInv /\ LinkInv BY Initial, LinkInitially
<1>2. IInv /\ LinkInv /\ [Next]_vars => IInv' /\ LinkInv' BY NextStep, LinkStep
<1>3. ASSUME IInv, LinkInv PROVE NoCircularWait
  <2> USE <1>3, StageNames
  <2> SUFFICES ASSUME NEW q \in Stages, pc[q] \notin {"unborn", "exited"},
                      \A p \in Stages : pc[p] \notin {"unborn", "exited"} => StageWaits(p),
                      \A k \in Pipes : ~(pc[ServerOf(k)] = "connect" /\ server[k] = "waiting")
               PROVE  FALSE
    BY DEF NoCircularWait
  <2>1. \A p \in Stages : pc[p] \notin {"unborn", "exited"} => pc[p] \in {"read", "write"}
    BY DEF StageWaits
  <2>2. pc["processor"] # "write"
    <3> SUFFICES ASSUME pc["processor"] = "write" PROVE FALSE OBVIOUS
    <3>1. queue[2] # << >> /\ pc["visualizer"] = "read" BY WaitingWriter
    <3> QED BY <3>1, WaitingReader
  <2>3. pc["generator"] # "write"
    <3> SUFFICES ASSUME pc["generator"] = "write" PROVE FALSE OBVIOUS
    <3>1. queue[1] # << >> /\ pc["processor"] \in {"create", "connect", "read", "write"}
      BY WaitingWriter
    <3>2. pc["processor"] = "read" BY <2>1, <2>2, <3>1
    <3> QED BY <3>1, <3>2, WaitingReader
  <2>4. pc["processor"] # "read"
    <3> SUFFICES ASSUME pc["processor"] = "read" PROVE FALSE OBVIOUS
    <3>1. pc["generator"] \in {"connect", "read", "write"} BY WaitingReader
    <3>2. pc["generator"] # "read" BY DEF StageWaits
    <3> QED BY <2>1, <2>3, <3>1, <3>2
  <2>5. pc["visualizer"] # "read"
    <3> SUFFICES ASSUME pc["visualizer"] = "read" PROVE FALSE OBVIOUS
    <3>1. pc["processor"] \in {"connect", "read", "write"} BY WaitingReader
    <3> QED BY <2>1, <2>2, <2>4, <3>1
  <2>6. pc["visualizer"] # "write" /\ pc["generator"] # "read" BY DEF StageWaits
  <2> QED BY <2>1, <2>2, <2>3, <2>4, <2>5, <2>6
<1> QED BY <1>1, <1>2, <1>3, PTL DEF Spec

-----------------------------------------------------------------------------
(* The pipeline stops. *)

Points == {"unborn", "create", "connect", "open", "read", "write", "pause", "exited"}

LEMMA StepsOfPoint ==
    /\ \A point \in Points : StepsOf(point) \in Nat
    /\ StepsOf("unborn") = 12 /\ StepsOf("open") = 10 /\ StepsOf("create") = 8
    /\ StepsOf("connect") = 6 /\ StepsOf("read") = 4 /\ StepsOf("write") = 4
    /\ StepsOf("pause") = 2 /\ StepsOf("exited") = 0
BY DEF Points, StepsOf

\* The parts of what is left are numbers.
Numbers ==
    /\ totalBlocks - generated \in Nat
    /\ \A k \in Pipes : Len(queue[k]) \in Nat /\ Unconnected(k) \in 0 .. 1
    /\ Len(held) \in Nat
    /\ \A p \in Stages : StepsOf(pc[p]) \in Nat
    /\ CallsLeft \in Nat /\ StartsLeft \in Nat /\ BlocksLeft \in Nat
    /\ Unconnected(1) \in Nat /\ Unconnected(2) \in Nat

LEMMA WorkParts == TypeOK => Numbers
<1> SUFFICES ASSUME TypeOK PROVE Numbers OBVIOUS
<1> USE StageNames DEF TypeOK
<1>1. totalBlocks - generated \in Nat BY PipelineAssumption
<1>2. \A k \in Pipes : Len(queue[k]) \in Nat OBVIOUS
<1>3. /\ \A k \in Pipes : Unconnected(k) \in 0 .. 1
      /\ Unconnected(1) \in Nat /\ Unconnected(2) \in Nat
  BY DEF Unconnected
<1>4. Len(held) \in Nat OBVIOUS
<1>5. \A p \in Stages : StepsOf(pc[p]) \in Nat BY StepsOfPoint DEF Points
<1>6. StartsLeft \in Nat BY DEF StartsLeft
<1>7. CallsLeft \in Nat BY <1>5 DEF CallsLeft
<1>8. BlocksLeft \in Nat
  <2> HIDE DEF TypeOK
  <2>1. Len(queue[1]) \in Nat /\ Len(queue[2]) \in Nat BY <1>2
  <2>2. \A a, b, c, d \in Nat : 4 * a + 3 * b + 2 * c + d \in Nat OBVIOUS
  <2> QED BY <1>1, <1>4, <2>1, <2>2, Zenon DEF BlocksLeft
<1> QED BY <1>1, <1>2, <1>3, <1>4, <1>5, <1>6, <1>7, <1>8 DEF Numbers

LEMMA WorkPartsNext == TypeOK' => Numbers'
BY WorkParts, PTL

\* A stage goes on to another point.
LEMMA CallMade ==
    ASSUME TypeOK, TypeOK', NEW p \in Stages, NEW point \in Points, Goto(p, point)
    PROVE  CallsLeft' = CallsLeft - StepsOf(pc[p]) + StepsOf(point)
<1> USE StageNames
<1>1. pc'[p] = point /\ \A q \in Stages : q # p => pc'[q] = pc[q] BY DEF TypeOK, Goto
<1>2. \A q \in Stages : StepsOf(pc[q]) \in Nat /\ StepsOf(pc'[q]) \in Nat
  BY WorkParts, WorkPartsNext DEF Numbers
<1>3. CallsLeft' = StepsOf(pc'["generator"]) + StepsOf(pc'["processor"])
                     + StepsOf(pc'["visualizer"])
  BY DEF CallsLeft
<1>4. CASE p = "generator" BY <1>1, <1>2, <1>3, <1>4 DEF CallsLeft
<1>5. CASE p = "processor" BY <1>1, <1>2, <1>3, <1>5 DEF CallsLeft
<1>6. CASE p = "visualizer" BY <1>1, <1>2, <1>3, <1>6 DEF CallsLeft
<1> QED BY <1>4, <1>5, <1>6

\* What a step must do to use up some of the work: one part shrinks by more than
\* the others grow.
LEMMA WorkShrinks ==
    ASSUME TypeOK, TypeOK',
           BlocksLeft' + CallsLeft' + StartsLeft' + Unconnected(1)' + Unconnected(2)'
             < BlocksLeft + CallsLeft + StartsLeft + Unconnected(1) + Unconnected(2)
    PROVE  Work' \in 0 .. Work - 1
<1>1. /\ BlocksLeft \in Nat /\ CallsLeft \in Nat /\ StartsLeft \in Nat
      /\ Unconnected(1) \in Nat /\ Unconnected(2) \in Nat
  BY WorkParts DEF Numbers
<1>2. /\ BlocksLeft' \in Nat /\ CallsLeft' \in Nat /\ StartsLeft' \in Nat
      /\ Unconnected(1)' \in Nat /\ Unconnected(2)' \in Nat
  BY WorkPartsNext DEF Numbers
<1>3. \A a, b, c, d, e, f, g, h, i, j \in Nat :
        a + b + c + d + e < f + g + h + i + j =>
            a + b + c + d + e \in 0 .. f + g + h + i + j - 1
  OBVIOUS
<1>4. Work' = BlocksLeft' + CallsLeft' + StartsLeft' + Unconnected(1)' + Unconnected(2)'
  BY DEF Work
<1> QED BY <1>1, <1>2, <1>3, <1>4, SMTT(30) DEF Work

\* A stage that ends loses what it has not read and leaves nothing to be done.
LEMMA EndUsesWork ==
    ASSUME TypeOK, TypeOK', NEW p \in Stages, NEW point \in {"pause", "exited"},
           CloseAll(p), Goto(p, point), StepsOf(point) < StepsOf(pc[p]),
           Len(held') <= Len(held), UNCHANGED <<generated, coordinator>>
    PROVE  Work' \in 0 .. Work - 1
<1> USE StageNames
<1>1. CallsLeft' < CallsLeft
  <2>1. CallsLeft' = CallsLeft - StepsOf(pc[p]) + StepsOf(point) BY CallMade DEF Points
  <2>2. StepsOf(point) \in Nat /\ StepsOf(pc[p]) \in Nat /\ CallsLeft \in Nat
    BY StepsOfPoint, WorkParts DEF Points, Numbers
  <2> QED BY <2>1, <2>2
<1>2. \A k \in Pipes : Len(queue'[k]) <= Len(queue[k])
  <2>1. ASSUME NEW k \in Pipes PROVE Len(queue'[k]) <= Len(queue[k])
    <3>1. queue'[k] = queue[k] \/ queue'[k] = << >> BY DEF CloseAll
    <3>2. Len(<< >>) = 0 /\ Len(queue[k]) \in Nat BY WorkParts DEF Numbers
    <3> QED BY <3>1, <3>2
  <2> QED BY <2>1
<1>3. BlocksLeft' <= BlocksLeft
  <2>1. /\ totalBlocks - generated \in Nat
        /\ Len(queue[1]) \in Nat /\ Len(queue[2]) \in Nat /\ Len(held) \in Nat
        /\ Len(queue'[1]) \in Nat /\ Len(queue'[2]) \in Nat /\ Len(held') \in Nat
    BY WorkParts, WorkPartsNext DEF Numbers
  <2>2. Len(queue'[1]) <= Len(queue[1]) /\ Len(queue'[2]) <= Len(queue[2]) BY <1>2
  <2>3. \A a, b, c, d, x, y, z \in Nat : x <= b /\ y <= d /\ z <= c =>
          4 * a + 3 * x + 2 * z + y <= 4 * a + 3 * b + 2 * c + d
    OBVIOUS
  <2>4. Len(held') <= Len(held) OBVIOUS
  <2>5. BlocksLeft' = 4 * (totalBlocks - generated) + 3 * Len(queue'[1]) + 2 * Len(held')
                        + Len(queue'[2])
    BY DEF BlocksLeft
  <2> QED BY <2>1, <2>2, <2>3, <2>4, <2>5, Zenon DEF BlocksLeft
<1>4. \A k \in Pipes : Unconnected(k)' <= Unconnected(k)
  BY DEF CloseAll, Unconnected
<1>5. StartsLeft' = StartsLeft BY DEF StartsLeft
<1>6. BlocksLeft' + CallsLeft' + StartsLeft' + Unconnected(1)' + Unconnected(2)'
        < BlocksLeft + CallsLeft + StartsLeft + Unconnected(1) + Unconnected(2)
  <2>1. /\ BlocksLeft \in Nat /\ CallsLeft \in Nat /\ StartsLeft \in Nat
        /\ BlocksLeft' \in Nat /\ CallsLeft' \in Nat
        /\ Unconnected(1) \in Nat /\ Unconnected(2) \in Nat
        /\ Unconnected(1)' \in Nat /\ Unconnected(2)' \in Nat
    BY WorkParts, WorkPartsNext DEF Numbers
  <2>2. Unconnected(1)' <= Unconnected(1) /\ Unconnected(2)' <= Unconnected(2) BY <1>4
  <2>3. \A a, b, c, d, e, f, g, h, i \in Nat : a <= b /\ c < d /\ f <= g /\ h <= i =>
          a + c + e + f + h < b + d + e + g + i
    OBVIOUS
  <2> QED BY <1>1, <1>3, <1>5, <2>1, <2>2, <2>3, Zenon
<1> QED BY <1>6, WorkShrinks

\* A call that opens or waits, and moves no block.
LEMMA CallUsesWork ==
    ASSUME TypeOK, TypeOK', NEW p \in Stages, NEW point \in Points, Goto(p, point),
           NEW k \in Pipes, \A l \in Pipes : l # k => server'[l] = server[l],
           \/ StepsOf(point) + 1 < StepsOf(pc[p])
           \/ StepsOf(point) < StepsOf(pc[p]) /\ server'[k] # "created",
           UNCHANGED <<queue, data, coordinator>>
    PROVE  Work' \in 0 .. Work - 1
<1> USE StageNames
<1>1. CallsLeft' = CallsLeft - StepsOf(pc[p]) + StepsOf(point) BY CallMade
<1>2. BlocksLeft' = BlocksLeft /\ StartsLeft' = StartsLeft
  BY DEF BlocksLeft, StartsLeft, data
<1>3. \A l \in Pipes : l # k => Unconnected(l)' = Unconnected(l) BY DEF Unconnected
<1>4. server'[k] # "created" => Unconnected(k)' = 0 BY DEF Unconnected
<1>5. /\ BlocksLeft \in Nat /\ CallsLeft \in Nat /\ StartsLeft \in Nat
      /\ StepsOf(point) \in Nat /\ StepsOf(pc[p]) \in Nat
      /\ \A l \in Pipes : Unconnected(l) \in 0 .. 1 /\ Unconnected(l)' \in 0 .. 1
  BY WorkParts, WorkPartsNext, StepsOfPoint DEF Numbers
<1>6. Unconnected(1)' + Unconnected(2)' + StepsOf(point)
        < Unconnected(1) + Unconnected(2) + StepsOf(pc[p])
  <2>1. CASE k = 1 BY <1>3, <1>4, <1>5, <2>1
  <2>2. CASE k = 2 BY <1>3, <1>4, <1>5, <2>2
  <2> QED BY <2>1, <2>2
<1>7. BlocksLeft' + CallsLeft' + StartsLeft' + Unconnected(1)' + Unconnected(2)'
        < BlocksLeft + CallsLeft + StartsLeft + Unconnected(1) + Unconnected(2)
  BY <1>1, <1>2, <1>5, <1>6
<1> QED BY <1>7, WorkShrinks

\* A block that is written or read moves to where less has to be done with it.
LEMMA MoveUsesWork ==
    ASSUME TypeOK, TypeOK', BlocksLeft' < BlocksLeft, UNCHANGED <<server, coordinator>>,
           \/ pc' = pc
           \/ /\ pc["processor"] \in {"read", "write"}
              /\ Goto("processor", "read") \/ Goto("processor", "write")
    PROVE  Work' \in 0 .. Work - 1
<1> USE StageNames
<1>1. StartsLeft' = StartsLeft /\ \A k \in Pipes : Unconnected(k)' = Unconnected(k)
  BY DEF StartsLeft, Unconnected
<1>2. CallsLeft \in Nat BY WorkParts DEF Numbers
<1>3. CallsLeft' = CallsLeft
  <2>1. CASE pc' = pc BY <2>1 DEF CallsLeft
  <2>2. ASSUME NEW point \in {"read", "write"}, pc["processor"] \in {"read", "write"},
               Goto("processor", point)
        PROVE  CallsLeft' = CallsLeft
    <3>1. CallsLeft' = CallsLeft - StepsOf(pc["processor"]) + StepsOf(point)
      BY <2>2, CallMade DEF Points
    <3>2. StepsOf(pc["processor"]) = 4 /\ StepsOf(point) = 4 BY <2>2, StepsOfPoint
    <3> QED BY <1>2, <3>1, <3>2
  <2> QED BY <2>1, <2>2
<1>4. BlocksLeft \in Nat /\ StartsLeft \in Nat /\ Unconnected(1) \in Nat /\ Unconnected(2) \in Nat
      /\ BlocksLeft' \in Nat
  BY WorkParts, WorkPartsNext DEF Numbers
<1>5. BlocksLeft' + CallsLeft' + StartsLeft' + Unconnected(1)' + Unconnected(2)'
        < BlocksLeft + CallsLeft + StartsLeft + Unconnected(1) + Unconnected(2)
  BY <1>1, <1>2, <1>3, <1>4
<1> QED BY <1>5, WorkShrinks

LEMMA FinishUsesWork ==
    ASSUME TypeOK, TypeOK', NEW p \in Stages, Finish(p), 2 < StepsOf(pc[p]),
           UNCHANGED <<data, coordinator>>
    PROVE  Work' \in 0 .. Work - 1
<1>1. CloseAll(p) /\ Goto(p, "pause") BY DEF Finish
<1>2. UNCHANGED <<generated, held, coordinator>> BY DEF data
<1>3. Len(held') <= Len(held) BY <1>2, WorkParts DEF Numbers
<1>4. StepsOf("pause") < StepsOf(pc[p]) BY StepsOfPoint
<1> QED BY <1>1, <1>2, <1>3, <1>4, EndUsesWork

LEMMA AppendedBlock ==
    ASSUME TypeOK, NEW k \in Pipes, NEW x, queue' = [queue EXCEPT ![k] = Append(@, x)]
    PROVE  /\ Len(queue'[k]) = Len(queue[k]) + 1
           /\ \A l \in Pipes : l # k => queue'[l] = queue[l]
<1>1. queue'[k] = Append(queue[k], x) /\ \A l \in Pipes : l # k => queue'[l] = queue[l]
  BY DEF TypeOK
<1>2. queue[k] \in Seq(Block) BY DEF TypeOK
<1>3. \A s \in Seq(Block) : Len(Append(s, x)) = Len(s) + 1 OBVIOUS
<1> QED BY <1>1, <1>2, <1>3

LEMMA TakenBlock ==
    ASSUME TypeOK, NEW k \in Pipes, queue[k] # << >>, queue' = [queue EXCEPT ![k] = Tail(@)]
    PROVE  /\ Len(queue'[k]) = Len(queue[k]) - 1
           /\ \A l \in Pipes : l # k => queue'[l] = queue[l]
<1>1. queue'[k] = Tail(queue[k]) /\ \A l \in Pipes : l # k => queue'[l] = queue[l]
  BY DEF TypeOK
<1>2. queue[k] \in Seq(Block) BY DEF TypeOK
<1>3. \A s \in Seq(Block) : s # << >> => Len(Tail(s)) = Len(s) - 1 OBVIOUS
<1> QED BY <1>1, <1>2, <1>3

LEMMA CreateUsesWork ==
    ASSUME TypeOK, TypeOK', NEW k \in Pipes, NEW p \in Stages, CreatePipe(k, p),
           UNCHANGED coordinator
    PROVE  Work' \in 0 .. Work - 1
<1>1. pc[p] = "create" /\ UNCHANGED data BY DEF CreatePipe
<1>2. CASE Finish(p) BY <1>1, <1>2, FinishUsesWork, StepsOfPoint
<1>3. CASE ~Finish(p)
  <2>1. server' = [server EXCEPT ![k] = "created"] /\ Goto(p, "connect") /\ UNCHANGED queue
    BY <1>3 DEF CreatePipe, Create
  <2>2. \A l \in Pipes : l # k => server'[l] = server[l] BY <2>1 DEF TypeOK
  <2>3. StepsOf("connect") + 1 < StepsOf(pc[p]) BY <1>1, StepsOfPoint
  <2> QED BY <1>1, <2>1, <2>2, <2>3, CallUsesWork DEF Points
<1> QED BY <1>2, <1>3

LEMMA ConnectUsesWork ==
    ASSUME TypeOK, TypeOK', NEW k \in Pipes, NEW p \in Stages, ConnectCalled(k, p),
           UNCHANGED coordinator
    PROVE  Work' \in 0 .. Work - 1
<1>1. pc[p] = "connect" /\ server[k] = "created" /\ UNCHANGED data BY DEF ConnectCalled
<1>2. CASE client[k] # "none"
  <2>1. Finish(p) BY <1>2 DEF ConnectCalled
  <2> QED BY <1>1, <2>1, FinishUsesWork, StepsOfPoint
<1>3. CASE client[k] = "none"
  <2>1. server' = [server EXCEPT ![k] = "waiting"] /\ UNCHANGED <<pc, queue>>
    BY <1>3 DEF ConnectCalled
  <2>2. \A l \in Pipes : l # k => Unconnected(l)' = Unconnected(l)
    BY <2>1 DEF TypeOK, Unconnected
  <2>3. Unconnected(k)' = 0 /\ Unconnected(k) = 1 BY <1>1, <2>1 DEF TypeOK, Unconnected
  <2>4. BlocksLeft' = BlocksLeft /\ CallsLeft' = CallsLeft /\ StartsLeft' = StartsLeft
    BY <1>1, <2>1 DEF BlocksLeft, CallsLeft, StartsLeft, data
  <2>5. /\ BlocksLeft \in Nat /\ CallsLeft \in Nat /\ StartsLeft \in Nat
        /\ Unconnected(1) \in Nat /\ Unconnected(2) \in Nat
    BY WorkParts DEF Numbers
  <2>6. BlocksLeft' + CallsLeft' + StartsLeft' + Unconnected(1)' + Unconnected(2)'
          < BlocksLeft + CallsLeft + StartsLeft + Unconnected(1) + Unconnected(2)
    <3>1. CASE k = 1
      <4>1. Unconnected(2)' = Unconnected(2) BY <2>2, <3>1, StageNames
      <4> QED BY <2>3, <2>4, <2>5, <3>1, <4>1
    <3>2. CASE k = 2
      <4>1. Unconnected(1)' = Unconnected(1) BY <2>2, <3>2, StageNames
      <4> QED BY <2>3, <2>4, <2>5, <3>2, <4>1
    <3> QED BY <3>1, <3>2, StageNames
  <2> QED BY <2>6, WorkShrinks
<1> QED BY <1>2, <1>3

LEMMA ReturnUsesWork ==
    ASSUME TypeOK, TypeOK', NEW k \in Pipes, NEW p \in Stages, NEW next \in {"read", "write"},
           ConnectReturns(k, p, next), UNCHANGED coordinator
    PROVE  Work' \in 0 .. Work - 1
<1>1. /\ pc[p] = "connect" /\ Goto(p, next) /\ UNCHANGED <<server, queue, data>>
  BY DEF ConnectReturns, pipes
<1>2. StepsOf(next) + 1 < StepsOf(pc[p]) BY <1>1, StepsOfPoint
<1> QED BY <1>1, <1>2, CallUsesWork DEF Points

LEMMA OpenUsesWork ==
    ASSUME TypeOK, TypeOK', NEW k \in Pipes, NEW p \in Stages, NEW next \in {"create", "read"},
           OpenInput(k, p, next), UNCHANGED coordinator
    PROVE  Work' \in 0 .. Work - 1
<1>1. pc[p] = "open" /\ UNCHANGED data BY DEF OpenInput
<1>2. CASE ~CanOpen(k)
  <2>1. Finish(p) BY <1>2 DEF OpenInput
  <2> QED BY <1>1, <2>1, FinishUsesWork, StepsOfPoint
<1>3. CASE CanOpen(k)
  <2>1. server' = [server EXCEPT ![k] = IF @ = "waiting" THEN "connected" ELSE @]
        /\ Goto(p, next) /\ UNCHANGED queue
    BY <1>3 DEF OpenInput, Open
  <2>2. \A l \in Pipes : l # k => server'[l] = server[l] BY <2>1 DEF TypeOK
  <2>3. StepsOf(next) + 1 < StepsOf(pc[p]) BY <1>1, StepsOfPoint
  <2> QED BY <1>1, <2>1, <2>2, <2>3, CallUsesWork DEF Points
<1> QED BY <1>2, <1>3

LEMMA KeyUsesWork ==
    ASSUME TypeOK, TypeOK', NEW p \in Stages, KeyPressed(p), UNCHANGED coordinator
    PROVE  Work' \in 0 .. Work - 1
<1>1. pc[p] = "pause" /\ Goto(p, "exited") /\ UNCHANGED <<server, queue, data>>
  BY DEF KeyPressed, pipes
<1>2. StepsOf("exited") + 1 < StepsOf(pc[p]) BY <1>1, StepsOfPoint
<1> QED BY <1>1, <1>2, CallUsesWork, StageNames DEF Points

LEMMA GeneratorUsesWork ==
    ASSUME IInv, TypeOK', GeneratorProcess, UNCHANGED <<coordinator, killed>>
    PROVE  Work' \in 0 .. Work - 1
<1> USE StageNames
<1>0. TypeOK BY DEF IInv
<1>1. CASE CreatePipe(1, "generator") BY <1>0, <1>1, CreateUsesWork
<1>2. CASE ConnectCalled(1, "generator") BY <1>0, <1>2, ConnectUsesWork
<1>3. CASE ConnectReturns(1, "generator", "write") BY <1>0, <1>3, ReturnUsesWork
<1>4. CASE GenerateBlock
  <2>1. CASE Finish("generator")
    <3>1. pc["generator"] = "write" /\ UNCHANGED <<generated, held>>
      <4>1. pc["generator"] = "write" BY <1>4 DEF GenerateBlock
      <4>2. pc'["generator"] = "pause" BY <1>0, <2>1 DEF Finish, Goto, TypeOK
      <4>3. pc' # pc BY <4>1, <4>2
      <4> QED BY <1>4, <4>1, <4>3 DEF GenerateBlock
    <3>2. Len(held') <= Len(held) BY <1>0, <3>1, WorkParts DEF Numbers
    <3> QED BY <1>0, <2>1, <3>1, <3>2, EndUsesWork, StepsOfPoint DEF Finish
  <2>2. CASE ~Finish("generator")
    <3>1. /\ UNCHANGED <<pc, server, held>> /\ generated' = generated + 1
          /\ queue' = [queue EXCEPT ![1] =
                         Append(@, [id |-> generated + 1, status |-> "generated"])]
      BY <1>4, <2>2 DEF GenerateBlock
    <3>2. Len(queue'[1]) = Len(queue[1]) + 1 /\ queue'[2] = queue[2]
      BY <1>0, <3>1, AppendedBlock
    <3>3. BlocksLeft' < BlocksLeft
      <4>1. generated \in Nat /\ totalBlocks \in Nat
            /\ Len(queue[1]) \in Nat /\ Len(queue[2]) \in Nat /\ Len(held) \in Nat
        BY <1>0, WorkParts, PipelineAssumption DEF Numbers, TypeOK
      <4>2. BlocksLeft' = 4 * (totalBlocks - (generated + 1)) + 3 * (Len(queue[1]) + 1)
                            + 2 * Len(held) + Len(queue[2])
        BY <3>1, <3>2 DEF BlocksLeft
      <4>3. \A t, g, a, b, c \in Nat :
              4 * (t - (g + 1)) + 3 * (a + 1) + 2 * b + c < 4 * (t - g) + 3 * a + 2 * b + c
        OBVIOUS
      <4> QED BY <4>1, <4>2, <4>3, Zenon DEF BlocksLeft
    <3> QED BY <1>0, <3>1, <3>3, MoveUsesWork
  <2> QED BY <2>1, <2>2
<1> QED BY <1>1, <1>2, <1>3, <1>4 DEF GeneratorProcess

LEMMA ProcessorUsesWork ==
    ASSUME IInv, TypeOK', ProcessorProcess, UNCHANGED <<coordinator, killed>>
    PROVE  Work' \in 0 .. Work - 1
<1> USE StageNames
<1>0. TypeOK BY DEF IInv
<1>1. CASE CreatePipe(2, "processor") BY <1>0, <1>1, CreateUsesWork
<1>2. CASE ConnectCalled(2, "processor") BY <1>0, <1>2, ConnectUsesWork
<1>3. CASE ConnectReturns(2, "processor", "read") BY <1>0, <1>3, ReturnUsesWork
<1>4. CASE OpenInput(1, "processor", "create") BY <1>0, <1>4, OpenUsesWork
<1>5. CASE ReadBlock
  <2>1. CASE Finish("processor")
    <3>1. pc["processor"] = "read" /\ UNCHANGED generated BY <1>5 DEF ReadBlock
    <3>2. UNCHANGED held
      <4>1. pc'["processor"] = "pause" BY <1>0, <2>1 DEF Finish, Goto, TypeOK
      <4>2. ~Goto("processor", "write") BY <1>0, <4>1 DEF Goto, TypeOK
      <4> QED BY <1>5, <4>2 DEF ReadBlock
    <3>3. Len(held') <= Len(held) BY <1>0, <3>2, WorkParts DEF Numbers
    <3> QED BY <1>0, <2>1, <3>1, <3>3, EndUsesWork, StepsOfPoint DEF Finish
  <2>2. CASE ~Finish("processor")
    <3>1. /\ UNCHANGED <<server, generated>> /\ queue[1] # << >> /\ Len(held') = 1
          /\ queue' = [queue EXCEPT ![1] = Tail(@)] /\ Goto("processor", "write")
          /\ pc["processor"] = "read"
      BY <1>5, <2>2 DEF ReadBlock, CanRead
    <3>2. Len(queue'[1]) = Len(queue[1]) - 1 /\ queue'[2] = queue[2] BY <1>0, <3>1, TakenBlock
    <3>3. Len(held) = 0 BY <3>1 DEF IInv, StageInv, ProcessorInv
    <3>4. BlocksLeft' < BlocksLeft
      <4>1. totalBlocks - generated \in Nat
            /\ Len(queue[1]) \in Nat /\ Len(queue[2]) \in Nat
        BY <1>0, WorkParts DEF Numbers
      <4>2. BlocksLeft' = 4 * (totalBlocks - generated) + 3 * (Len(queue[1]) - 1)
                            + 2 * 1 + Len(queue[2])
        BY <3>1, <3>2 DEF BlocksLeft
      <4>3. \A t, a, c \in Nat : 4 * t + 3 * (a - 1) + 2 * 1 + c < 4 * t + 3 * a + 2 * 0 + c
        OBVIOUS
      <4> QED BY <3>3, <4>1, <4>2, <4>3, Zenon DEF BlocksLeft
    <3> QED BY <1>0, <3>1, <3>4, MoveUsesWork
  <2> QED BY <2>1, <2>2
<1>6. CASE WriteBlock
  <2>1. CASE Finish("processor")
    <3>1. Len(held') <= Len(held)
      <4>1. Len(held') = 0 /\ Len(held) \in Nat
        BY <1>0, <1>6, WorkParts DEF WriteBlock, Numbers
      <4> QED BY <4>1
    <3>2. pc["processor"] = "write" /\ UNCHANGED generated BY <1>6 DEF WriteBlock
    <3> QED BY <1>0, <2>1, <3>1, <3>2, EndUsesWork, StepsOfPoint DEF Finish
  <2>2. CASE ~Finish("processor")
    <3>1. /\ UNCHANGED <<server, generated>> /\ Len(held') = 0 /\ client[2] = "open"
          /\ queue' = [queue EXCEPT ![2] = Append(@, held[1])] /\ Goto("processor", "read")
          /\ pc["processor"] = "write"
      BY <1>6, <2>2 DEF WriteBlock, CanWrite
    <3>2. Len(held) = 1 BY <3>1 DEF IInv, FlowInv
    <3>3. Len(queue'[2]) = Len(queue[2]) + 1 /\ queue'[1] = queue[1]
      BY <1>0, <3>1, AppendedBlock
    <3>4. BlocksLeft' < BlocksLeft
      <4>1. totalBlocks - generated \in Nat
            /\ Len(queue[1]) \in Nat /\ Len(queue[2]) \in Nat
        BY <1>0, WorkParts DEF Numbers
      <4>2. BlocksLeft' = 4 * (totalBlocks - generated) + 3 * Len(queue[1])
                            + 2 * 0 + (Len(queue[2]) + 1)
        BY <3>1, <3>3 DEF BlocksLeft
      <4>3. \A t, a, c \in Nat : 4 * t + 3 * a + 2 * 0 + (c + 1) < 4 * t + 3 * a + 2 * 1 + c
        OBVIOUS
      <4> QED BY <3>2, <4>1, <4>2, <4>3, Zenon DEF BlocksLeft
    <3> QED BY <1>0, <3>1, <3>4, MoveUsesWork
  <2> QED BY <2>1, <2>2
<1> QED BY <1>1, <1>2, <1>3, <1>4, <1>5, <1>6 DEF ProcessorProcess

LEMMA VisualizerUsesWork ==
    ASSUME IInv, TypeOK', VisualizerProcess, UNCHANGED <<coordinator, killed>>
    PROVE  Work' \in 0 .. Work - 1
<1> USE StageNames
<1>0. TypeOK BY DEF IInv
<1>1. CASE OpenInput(2, "visualizer", "read") BY <1>0, <1>1, OpenUsesWork
<1>2. CASE ShowBlock
  <2>1. CASE Finish("visualizer")
    BY <1>0, <1>2, <2>1, EndUsesWork, StepsOfPoint, WorkParts DEF ShowBlock, Finish, Numbers
  <2>2. CASE ~Finish("visualizer")
    <3>1. /\ UNCHANGED <<pc, server, generated, held>> /\ queue[2] # << >>
          /\ queue' = [queue EXCEPT ![2] = Tail(@)]
      BY <1>2, <2>2 DEF ShowBlock, CanRead
    <3>2. Len(queue'[2]) = Len(queue[2]) - 1 /\ queue'[1] = queue[1] BY <1>0, <3>1, TakenBlock
    <3>3. BlocksLeft' < BlocksLeft
      <4>1. totalBlocks - generated \in Nat
            /\ Len(queue[1]) \in Nat /\ Len(queue[2]) \in Nat /\ Len(held) \in Nat
        BY <1>0, WorkParts DEF Numbers
      <4>2. BlocksLeft' = 4 * (totalBlocks - generated) + 3 * Len(queue[1])
                            + 2 * Len(held) + (Len(queue[2]) - 1)
        BY <3>1, <3>2 DEF BlocksLeft
      <4>3. \A t, a, b, c \in Nat : 4 * t + 3 * a + 2 * b + (c - 1) < 4 * t + 3 * a + 2 * b + c
        OBVIOUS
      <4> QED BY <4>1, <4>2, <4>3, Zenon DEF BlocksLeft
    <3> QED BY <1>0, <3>1, <3>3, MoveUsesWork
  <2> QED BY <2>1, <2>2
<1> QED BY <1>1, <1>2 DEF VisualizerProcess

\* The coordinator.
LEMMA MainUsesWork ==
    ASSUME IInv, TypeOK', main
    PROVE  Work' \in 0 .. Work - 1
<1> USE StageNames
<1>0. TypeOK BY DEF IInv
<1>1. BlocksLeft' = BlocksLeft /\ Unconnected(1)' = Unconnected(1) /\ Unconnected(2)' = Unconnected(2)
  BY DEF BlocksLeft, Unconnected, main, StartStage, WaitForAll, pipes, data
<1>2. StartsLeft' < StartsLeft
  <2>1. CASE StartStage BY <2>1, StageNames DEF StartStage, StartsLeft, After, Stages
  <2>2. CASE WaitForAll BY <2>2 DEF WaitForAll, StartsLeft
  <2> QED BY <2>1, <2>2 DEF main
<1>3. CallsLeft' <= CallsLeft
  <2>0. CallsLeft \in Nat BY <1>0, WorkParts DEF Numbers
  <2>1. CASE pc' = pc
    <3>1. CallsLeft' = CallsLeft BY <2>1 DEF CallsLeft
    <3> QED BY <2>0, <3>1
  <2>2. CASE pc' # pc
    <3>1. coordinator \in Stages /\ pc[coordinator] = "unborn"
          /\ Goto(coordinator, FirstPoint(coordinator))
      BY <2>2 DEF main, StartStage, WaitForAll, IInv, StageInv, BirthInv
    <3>2. FirstPoint(coordinator) \in {"create", "open"} BY DEF FirstPoint
    <3>3. CallsLeft' = CallsLeft - StepsOf("unborn") + StepsOf(FirstPoint(coordinator))
      BY <1>0, <3>1, <3>2, CallMade DEF Points
    <3>4. StepsOf("unborn") = 12 /\ StepsOf(FirstPoint(coordinator)) \in {8, 10}
      BY <3>2, StepsOfPoint
    <3> QED BY <2>0, <3>3, <3>4
  <2> QED BY <2>1, <2>2
<1>4. /\ BlocksLeft \in Nat /\ CallsLeft \in Nat /\ StartsLeft \in Nat
      /\ CallsLeft' \in Nat /\ StartsLeft' \in Nat
      /\ Unconnected(1) \in Nat /\ Unconnected(2) \in Nat
  BY <1>0, WorkParts, WorkPartsNext DEF Numbers
<1>5. \A a, b, c, d, e, f, g \in Nat : b <= c /\ d < e => a + b + d + f + g < a + c + e + f + g
  OBVIOUS
<1>6. BlocksLeft' + CallsLeft' + StartsLeft' + Unconnected(1)' + Unconnected(2)'
        < BlocksLeft + CallsLeft + StartsLeft + Unconnected(1) + Unconnected(2)
  BY <1>1, <1>2, <1>3, <1>4, <1>5, Zenon
<1> QED BY <1>0, <1>6, WorkShrinks

\* For every number of blocks and capacity: each step of the program, a kill
\* included, uses up some of a number that starts at 4 * totalBlocks + 40.
THEOREM StepsCounted == Spec => StepsAreFew
<1>1. ASSUME IInv, IInv', Next PROVE Work' \in 0 .. Work - 1
  <2>0. TypeOK /\ TypeOK' BY <1>1 DEF IInv
  <2>1. CASE main BY <1>1, <2>0, <2>1, MainUsesWork
  <2>2. ASSUME NEW p \in Stages, stage(p) PROVE Work' \in 0 .. Work - 1
    <3>1. UNCHANGED <<coordinator, killed>> BY <2>2 DEF stage
    <3>2. CASE KeyPressed(p) BY <2>0, <3>1, <3>2, KeyUsesWork
    <3> QED BY <1>1, <2>0, <2>2, <3>1, <3>2, GeneratorUsesWork, ProcessorUsesWork,
               VisualizerUsesWork DEF stage
  <2>3. ASSUME NEW p \in Stages, Kill(p) PROVE Work' \in 0 .. Work - 1
    <3>1. /\ CloseAll(p) /\ Goto(p, "exited") /\ pc[p] \notin {"unborn", "exited"}
          /\ UNCHANGED <<coordinator, generated, held>>
      BY <2>3 DEF Kill, data
    <3>2. StepsOf("exited") < StepsOf(pc[p])
      <4>1. pc[p] \in Points BY <2>0 DEF TypeOK, Points
      <4> QED BY <3>1, <4>1, StepsOfPoint DEF Points
    <3>3. Len(held') <= Len(held) BY <2>0, <3>1, WorkParts DEF Numbers
    <3> QED BY <2>0, <3>1, <3>2, <3>3, EndUsesWork
  <2> QED BY <1>1, <2>1, <2>2, <2>3 DEF Next
<1>2. IInv /\ IInv' /\ [Next]_vars => [Work' \in 0 .. Work - 1]_vars BY <1>1
<1> QED BY <1>2, Inductive, PTL DEF Spec, StepsAreFew
=============================================================================
