------------------------- MODULE PhilosophersProofs -------------------------
(***************************************************************************)
(* The safety of module Philosophers for every number of philosophers and  *)
(* every strategy.  IInv strengthens the invariants the runs check with    *)
(* the progress of main; it is preserved by every step, and the checked    *)
(* properties follow from it.                                              *)
(***************************************************************************)
EXTENDS Philosophers, FiniteSetTheorems, TLAPS

\* A thread inside a statistics block is at one.
MutexInBlock == \A p \in Philosophers : statsMutex = p => pc[p] \in StatsBlocks

\* How far main has come bounds where the threads can be.
MainProgress ==
    /\ mainPc = "create" => \A p \in Philosophers :
            pc[p] = "unborn" /\ (p < mainIndex <=> forks[p] # NoHandle)
    /\ mainPc = "spawn" => \A p \in Philosophers : p >= mainIndex => pc[p] = "unborn"
    /\ mainPc \in {"spawn", "simulate", "join", "report"} =>
            \A f \in Philosophers : forks[f] # NoHandle
    /\ mainPc = "join" => \A p \in Philosophers : p < mainIndex => pc[p] = "done"
    /\ mainPc \in {"report", "cleanup", "exited"} => \A p \in Philosophers : pc[p] = "done"
    /\ mainPc = "simulate" => mainIndex = 0
    /\ mainPc \in {"create", "spawn", "simulate"} => isRunning

\* The report has one row per iteration of the printing loop.
ReportProgress ==
    /\ mainPc \in {"create", "spawn", "simulate", "join"} => report = << >>
    /\ mainPc = "report" => Len(report) = mainIndex
    /\ Len(report) <= NumPhilosophers
    /\ ReportIsFinal

\* Points that only one strategy has.
StrategyPoints ==
    \A p \in Philosophers : /\ pc[p] = "announce" => currentStrategy = "SIMPLE"
                            /\ pc[p] = "giveBack" => currentStrategy = "WITH_TIMEOUT"

IInv == /\ TypeOK /\ ForksMatchPoints /\ MutexInBlock
        /\ MainProgress /\ ReportProgress /\ StrategyPoints

-----------------------------------------------------------------------------
(* Arithmetic of the ring. *)

LEMMA RightFork ==
    ASSUME NEW p \in Philosophers
    PROVE  /\ rightFork(p) = IF p + 1 < NumPhilosophers THEN p + 1 ELSE 0
           /\ rightFork(p) \in Philosophers
           /\ rightFork(p) # leftFork(p)
<1> USE PhilosophersAssumption DEF Philosophers
<1>1. CASE p + 1 < NumPhilosophers
  <2>1. (p + 1) % NumPhilosophers = p + 1 BY <1>1, SMT
  <2> QED BY <1>1, <2>1 DEF rightFork, leftFork
<1>2. CASE p + 1 >= NumPhilosophers
  <2>1. p + 1 = NumPhilosophers BY <1>2
  <2>2. NumPhilosophers % NumPhilosophers = 0 BY SMT
  <2> QED BY <1>2, <2>1, <2>2 DEF rightFork, leftFork
<1> QED BY <1>1, <1>2

LEMMA ForkOrder ==
    ASSUME NEW p \in Philosophers
    PROVE  /\ FirstFork(p) \in Philosophers /\ SecondFork(p) \in Philosophers
           /\ leftFork(p) \in Philosophers
           /\ FirstFork(p) # SecondFork(p)
           /\ {FirstFork(p), SecondFork(p)} = {leftFork(p), rightFork(p)}
BY RightFork DEF FirstFork, SecondFork, leftFork

\* Only the two philosophers next to a fork ever own it.
LEMMA NeighboursOwn ==
    ASSUME NEW p \in Philosophers, NEW f \in Philosophers, Holds(p, f)
    PROVE  f = leftFork(p) \/ f = rightFork(p)
BY ForkOrder DEF Holds

\* No step changes the order in which forks are taken.
LEMMA SameFirstFork ==
    ASSUME UNCHANGED currentStrategy
    PROVE  \A p \in Philosophers : FirstFork(p)' = FirstFork(p)
BY DEF FirstFork, RightFirst, leftFork, rightFork

-----------------------------------------------------------------------------
LEMMA InitIInv == Init => IInv
<1> SUFFICES ASSUME Init PROVE IInv
    OBVIOUS
<1> USE PhilosophersAssumption DEF Init, Philosophers, Free, NoHandle
<1>1. TypeOK BY DEF TypeOK, Points
<1>2. ForksMatchPoints BY DEF ForksMatchPoints, Holds
<1>3. MutexInBlock BY DEF MutexInBlock
<1>4. MainProgress BY DEF MainProgress
<1>5. ReportProgress BY DEF ReportProgress, ReportIsFinal
<1>6. StrategyPoints BY DEF StrategyPoints
<1> QED BY <1>1, <1>2, <1>3, <1>4, <1>5, <1>6 DEF IInv

\* A step of a philosopher that leaves main, the flag and the counts alone.
LEMMA RoundStep ==
    ASSUME IInv, NEW p \in Philosophers,
           \/ StartRound(p) \/ LeaveLoop(p) \/ LockStats(p)
           \/ TakeFirst(p) \/ TakeSecond(p)
           \/ FirstTimesOut(p) \/ SecondTimesOut(p) \/ GiveBackLeft(p)
           \/ ReleaseLeft(p) \/ ReleaseRight(p),
           UNCHANGED currentStrategy
    PROVE  IInv'
<1> USE PhilosophersAssumption DEF IInv, TypeOK, mainVars, stats, Free, NoHandle
<1>0. /\ pc[p] \notin {"unborn", "done"}
      /\ UNCHANGED <<mainVars, stats>>
      /\ isRunning' = isRunning
      /\ \A q \in Philosophers \ {p} : pc'[q] = pc[q]
      /\ pc' \in [Philosophers -> Points]
      /\ pc'[p] # "unborn"
      /\ \/ UNCHANGED forks
         \/ TakeFork(p, FirstFork(p)) \/ TakeFork(p, SecondFork(p))
         \/ ReleaseFork(p, leftFork(p)) \/ ReleaseFork(p, rightFork(p))
      /\ statsMutex' \in {statsMutex, p}
  BY DEF StartRound, LeaveLoop, LockStats, TakeFirst, TakeSecond, FirstTimesOut,
         SecondTimesOut, GiveBackLeft, ReleaseLeft, ReleaseRight, Goto,
         StatsBlocks, AfterBlock, Points
<1>a. /\ FirstFork(p) \in Philosophers /\ SecondFork(p) \in Philosophers
      /\ leftFork(p) \in Philosophers /\ rightFork(p) \in Philosophers
      /\ FirstFork(p) # SecondFork(p) /\ leftFork(p) # rightFork(p)
      /\ {FirstFork(p), SecondFork(p)} = {leftFork(p), rightFork(p)}
      /\ currentStrategy = "WITH_TIMEOUT" => FirstFork(p) = leftFork(p)
  BY ForkOrder, RightFork DEF FirstFork, RightFirst
<1>b. p \notin {Free, NoHandle} /\ \A q \in Philosophers : q \notin {Free, NoHandle}
  BY DEF Philosophers
<1>1. /\ forks' \in [Philosophers -> Philosophers \cup {Free, NoHandle}]
      /\ statsMutex' \in Philosophers \cup {Free}
      /\ \A f \in Philosophers : forks'[f] # NoHandle <=> forks[f] # NoHandle
  <2>1. ASSUME NEW f \in Philosophers, TakeFork(p, f) \/ ReleaseFork(p, f)
        PROVE  /\ forks' \in [Philosophers -> Philosophers \cup {Free, NoHandle}]
               /\ \A g \in Philosophers : forks'[g] # NoHandle <=> forks[g] # NoHandle
    <3>1. PICK v \in Philosophers \cup {Free} :
             forks[f] # NoHandle /\ v # NoHandle /\ forks' = [forks EXCEPT ![f] = v]
      BY <2>1, <1>b DEF TakeFork, ReleaseFork
    <3> QED BY <3>1
  <2>2. statsMutex' \in Philosophers \cup {Free} BY <1>0
  <2> QED BY <2>1, <2>2, <1>0, <1>a
<1>2. TypeOK' BY <1>0, <1>1
<1>3. ForksMatchPoints'
  <2>0. \A q \in Philosophers \ {p}, f \in Philosophers : Holds(q, f)' <=> Holds(q, f)
    BY <1>0, SameFirstFork DEF Holds
  <2>1. \A f \in Philosophers : forks[f] = p <=> Holds(p, f)
    BY DEF ForksMatchPoints
  <2>2. \A q \in Philosophers \ {p}, f \in Philosophers : forks'[f] = q <=> forks[f] = q
    <3>1. ASSUME NEW g \in Philosophers, TakeFork(p, g) \/ ReleaseFork(p, g)
          PROVE  \A q \in Philosophers \ {p}, f \in Philosophers : forks'[f] = q <=> forks[f] = q
      <4>1. forks[g] \in {Free, p} /\ forks'[g] \in {Free, p}
        BY <3>1 DEF TakeFork, ReleaseFork
      <4>2. \A f \in Philosophers \ {g} : forks'[f] = forks[f]
        BY <3>1 DEF TakeFork, ReleaseFork
      <4> QED BY <4>1, <4>2, <1>b
    <3> QED BY <3>1, <1>0, <1>a
  <2>3. \A f \in Philosophers : forks'[f] = p <=> Holds(p, f)'
    <3> USE <1>a, <1>b, <2>1, SameFirstFork DEF Holds, Goto, Points
    <3>1. CASE StartRound(p) BY <3>1 DEF StartRound
    <3>2. CASE LeaveLoop(p) BY <3>2 DEF LeaveLoop
    <3>3. CASE LockStats(p) BY <3>3 DEF LockStats
    <3>4. CASE TakeFirst(p) BY <3>4 DEF TakeFirst, TakeFork
    <3>5. CASE TakeSecond(p) BY <3>5 DEF TakeSecond, TakeFork
    <3>6. CASE FirstTimesOut(p) BY <3>6 DEF FirstTimesOut
    <3>7. CASE SecondTimesOut(p) BY <3>7 DEF SecondTimesOut
    <3>8. CASE GiveBackLeft(p)
      BY <3>8 DEF GiveBackLeft, ReleaseFork
    <3>9. CASE ReleaseLeft(p) BY <3>9, SMTT(30) DEF ReleaseLeft, ReleaseFork
    <3>10. CASE ReleaseRight(p) BY <3>10, SMTT(30) DEF ReleaseRight, ReleaseFork
    <3> QED BY <3>1, <3>2, <3>3, <3>4, <3>5, <3>6, <3>7, <3>8, <3>9, <3>10
  <2>4. ASSUME NEW q \in Philosophers, NEW f \in Philosophers
        PROVE  forks'[f] = q <=> Holds(q, f)'
    <3>1. CASE q = p BY <3>1, <2>3
    <3>2. CASE q # p BY <3>2, <2>0, <2>2 DEF ForksMatchPoints
    <3> QED BY <3>1, <3>2
  <2> QED BY <2>4 DEF ForksMatchPoints
<1>4. MutexInBlock'
  BY <1>0 DEF MutexInBlock, Philosophers, StartRound, LeaveLoop, LockStats, TakeFirst, TakeSecond,
         FirstTimesOut, SecondTimesOut, GiveBackLeft, ReleaseLeft, ReleaseRight, Goto,
         StatsBlocks, AfterBlock
<1>5. MainProgress' BY <1>0, <1>1 DEF MainProgress
<1>6. ReportProgress' BY <1>0 DEF ReportProgress, ReportIsFinal
<1>7. StrategyPoints'
  BY <1>0 DEF StrategyPoints, Philosophers, StartRound, LeaveLoop, LockStats, TakeFirst, TakeSecond,
         FirstTimesOut, SecondTimesOut, GiveBackLeft, ReleaseLeft, ReleaseRight, Goto
<1> QED BY <1>2, <1>3, <1>4, <1>5, <1>6, <1>7
LEMMA UnlockStep ==
    ASSUME IInv, NEW p \in Philosophers, UnlockStats(p), UNCHANGED currentStrategy
    PROVE  IInv'
<1> USE DEF IInv, TypeOK, mainVars, stats, UnlockStats, Goto
<1>1. /\ pc[p] \in StatsBlocks
      /\ pc' = [pc EXCEPT ![p] = AfterBlock[pc[p]]]
      /\ pc[p] \notin {"unborn", "done"}
      /\ pc'[p] \in Points /\ pc'[p] # "unborn"
  BY DEF MutexInBlock, StatsBlocks, AfterBlock, Points
<1>2. TypeOK' BY <1>1 DEF Free
<1>3. ForksMatchPoints'
  <2>1. \A f \in Philosophers : Holds(p, f)' <=> Holds(p, f)
    <3>1. CASE pc[p] = "announce"
      <4>1. pc'[p] = "second" BY <3>1, <1>1 DEF AfterBlock
      <4> QED BY <3>1, <4>1, SameFirstFork DEF Holds
    <3>2. CASE pc[p] = "gotForks"
      <4>1. pc'[p] = "eating" BY <3>2, <1>1 DEF AfterBlock
      <4> QED BY <3>2, <4>1, SameFirstFork DEF Holds
    <3>3. CASE pc[p] \in {"thought", "fed", "gaveUp"}
      <4>1. pc'[p] \in {"first", "loop"} BY <3>3, <1>1 DEF AfterBlock
      <4> QED BY <3>3, <4>1, SameFirstFork DEF Holds
    <3> QED BY <3>1, <3>2, <3>3, <1>1 DEF StatsBlocks, AfterBlock
  <2>2. \A q \in Philosophers \ {p}, f \in Philosophers : Holds(q, f)' <=> Holds(q, f)
    BY <1>1, SameFirstFork DEF Holds
  <2>3. \A q, f \in Philosophers : Holds(q, f)' <=> Holds(q, f) BY <2>1, <2>2
  <2> QED BY <2>3 DEF ForksMatchPoints
<1>4. MutexInBlock' BY <1>1 DEF MutexInBlock, Philosophers, Free
<1>5. MainProgress' BY <1>1 DEF MainProgress
<1>6. ReportProgress'
  <2>1. CASE Len(report) = 0 BY <2>1 DEF ReportProgress, ReportIsFinal
  <2>2. CASE mainPc \in {"report", "cleanup", "exited"} BY <2>2, <1>1 DEF MainProgress
  <2>3. CASE mainPc \notin {"report", "cleanup", "exited"}
    <3>1. report = << >> BY <2>3 DEF ReportProgress
    <3> QED BY <2>1, <3>1
  <2> QED BY <2>2, <2>3
<1>7. StrategyPoints' BY <1>1 DEF StrategyPoints, StatsBlocks, AfterBlock
<1> QED BY <1>2, <1>3, <1>4, <1>5, <1>6, <1>7

\* The steps of main.
LEMMA MainStep ==
    ASSUME IInv, main, UNCHANGED currentStrategy
    PROVE  IInv'
<1> USE PhilosophersAssumption DEF IInv, TypeOK, mainVars, stats, Iterate, Free, NoHandle
<1>0. /\ mainIndex \in Philosophers
      /\ mainIndex + 1 < NumPhilosophers => mainIndex + 1 \in Philosophers
      /\ 0 \in Philosophers
      /\ mainIndex + 1 >= NumPhilosophers =>
             \A q \in Philosophers : q <= mainIndex
      /\ \A q \in Philosophers : q < mainIndex + 1 <=> q < mainIndex \/ q = mainIndex
  BY DEF Philosophers
<1>s. StrategyPoints'
  BY DEF main, CreateFork, SpawnPhilosopher, StopSimulation, Join, PrintRow, cleanup, Goto,
         StrategyPoints
<1>1. CASE CreateFork
  <2> USE <1>1 DEF CreateFork
  <2>1. TypeOK' BY <1>0
  <2>2. \A p, f \in Philosophers : ~Holds(p, f) /\ forks[f] # p /\ ~Holds(p, f)'
    BY DEF MainProgress, ForksMatchPoints, Holds
  <2>a. \A f \in Philosophers : forks'[f] = IF f = mainIndex THEN Free ELSE forks[f]
    OBVIOUS
  <2>b. \A p \in Philosophers : p # Free BY DEF Philosophers
  <2>3. ForksMatchPoints' BY <2>2, <2>a, <2>b DEF ForksMatchPoints
  <2>4. MutexInBlock' BY DEF MutexInBlock
  <2>5. MainProgress'
    <3>1. \A f \in Philosophers : forks'[f] # NoHandle <=> f < mainIndex + 1
      <4> SUFFICES ASSUME NEW f \in Philosophers
                   PROVE  forks'[f] # NoHandle <=> f < mainIndex + 1
          OBVIOUS
      <4>1. f < mainIndex <=> forks[f] # NoHandle BY DEF MainProgress
      <4>2. CASE f = mainIndex BY <4>2, <1>0 DEF Philosophers
      <4>3. CASE f # mainIndex BY <4>1, <4>3, <1>0
      <4> QED BY <4>2, <4>3
    <3>2. CASE mainIndex + 1 < NumPhilosophers BY <3>1, <3>2 DEF MainProgress
    <3>3. CASE mainIndex + 1 >= NumPhilosophers
      <4>1. mainPc' = "spawn" /\ mainIndex' = 0 BY <3>3 DEF Philosophers
      <4>2. \A f \in Philosophers : forks'[f] # NoHandle BY <3>1, <3>3, <1>0 DEF Philosophers
      <4> QED BY <4>1, <4>2 DEF MainProgress
    <3> QED BY <3>2, <3>3, <1>0 DEF Philosophers
  <2>6. ReportProgress' BY DEF ReportProgress, ReportIsFinal
  <2> QED BY <2>1, <2>3, <2>4, <2>5, <2>6, <1>s
<1>2. CASE SpawnPhilosopher
  <2> USE <1>2 DEF SpawnPhilosopher, Goto
  <2>0. pc[mainIndex] = "unborn" /\ pc' = [pc EXCEPT ![mainIndex] = "loop"]
    BY DEF MainProgress, Philosophers
  <2>1. TypeOK' BY <1>0 DEF Points
  <2>2. \A p, f \in Philosophers : Holds(p, f)' <=> Holds(p, f)
    BY <2>0, SameFirstFork DEF Holds
  <2>3. ForksMatchPoints' BY <2>2 DEF ForksMatchPoints
  <2>4. MutexInBlock' BY <2>0 DEF MutexInBlock, StatsBlocks, AfterBlock
  <2>5. MainProgress'
    <3>1. \A f \in Philosophers : forks'[f] # NoHandle BY DEF MainProgress
    <3>2. \A q \in Philosophers : q >= mainIndex + 1 => pc'[q] = "unborn"
      BY <2>0 DEF MainProgress, Philosophers
    <3>3. CASE mainIndex + 1 < NumPhilosophers BY <3>1, <3>2, <3>3 DEF MainProgress
    <3>4. CASE mainIndex + 1 >= NumPhilosophers
      <4>1. mainPc' = "simulate" /\ mainIndex' = 0 BY <3>4 DEF Philosophers
      <4> QED BY <4>1, <3>1 DEF MainProgress
    <3> QED BY <3>3, <3>4, <1>0 DEF Philosophers
  <2>6. ReportProgress' BY DEF ReportProgress, ReportIsFinal
  <2> QED BY <2>1, <2>3, <2>4, <2>5, <2>6, <1>s
<1>3. CASE StopSimulation
  <2> USE <1>3 DEF StopSimulation
  <2>1. ForksMatchPoints' BY SameFirstFork DEF ForksMatchPoints, Holds
  <2>2. MutexInBlock' BY DEF MutexInBlock
  <2>3. MainProgress' BY DEF MainProgress, Philosophers
  <2>4. ReportProgress' BY DEF ReportProgress, ReportIsFinal
  <2> QED BY <2>1, <2>2, <2>3, <2>4, <1>s
<1>4. CASE Join
  <2> USE <1>4 DEF Join
  <2>1. TypeOK' BY <1>0
  <2>2. ForksMatchPoints' BY SameFirstFork DEF ForksMatchPoints, Holds
  <2>3. MutexInBlock' BY DEF MutexInBlock
  <2>4. MainProgress'
    <3>1. \A f \in Philosophers : forks'[f] # NoHandle BY DEF MainProgress
    <3>2. \A q \in Philosophers : q < mainIndex + 1 => pc'[q] = "done"
      BY <1>0 DEF MainProgress
    <3>3. CASE mainIndex + 1 < NumPhilosophers BY <3>1, <3>2, <3>3 DEF MainProgress
    <3>4. CASE mainIndex + 1 >= NumPhilosophers
      <4>1. mainPc' = "report" /\ mainIndex' = 0 BY <3>4 DEF Philosophers
      <4>2. \A q \in Philosophers : pc'[q] = "done" BY <3>2, <3>4, <1>0 DEF Philosophers
      <4> QED BY <4>1, <4>2, <3>1 DEF MainProgress
    <3> QED BY <3>3, <3>4, <1>0 DEF Philosophers
  <2>5. ReportProgress' BY DEF ReportProgress, ReportIsFinal
  <2> QED BY <2>1, <2>2, <2>3, <2>4, <2>5, <1>s
<1>5. CASE PrintRow
  <2> USE <1>5 DEF PrintRow
  <2>0. /\ report' \in Seq(Nat \X Nat)
        /\ Len(report') = Len(report) + 1
        /\ \A k \in 1 .. Len(report) : report'[k] = report[k]
        /\ report'[Len(report')] = <<successfulMeals[mainIndex], failedMeals[mainIndex]>>
        /\ Len(report) = mainIndex
    BY DEF ReportProgress
  <2>1. TypeOK' BY <1>0, <2>0
  <2>2. ForksMatchPoints' BY SameFirstFork DEF ForksMatchPoints, Holds
  <2>3. MutexInBlock' BY DEF MutexInBlock
  <2>4. MainProgress' BY <1>0 DEF MainProgress, Philosophers
  <2>5. ReportIsFinal'
    <3> SUFFICES ASSUME NEW k \in 1 .. Len(report')
                 PROVE  report'[k] = <<successfulMeals[k - 1], failedMeals[k - 1]>>
        BY DEF ReportIsFinal
    <3>1. CASE k \in 1 .. Len(report) BY <3>1, <2>0 DEF ReportProgress, ReportIsFinal
    <3>2. CASE k = Len(report')
      <4>1. k - 1 = mainIndex BY <3>2, <2>0 DEF Philosophers
      <4> QED BY <3>2, <4>1, <2>0
    <3>3. Len(report) \in Nat OBVIOUS
    <3> HIDE DEF PrintRow
    <3>4. k \in 1 .. Len(report) \/ k = Len(report') BY <3>3, <2>0
    <3> QED BY <3>1, <3>2, <3>4
  <2>6. ReportProgress'
    <3>1. Len(report') <= NumPhilosophers BY <2>0 DEF Philosophers
    <3>2. mainPc' = "report" => mainIndex' = mainIndex + 1 OBVIOUS
    <3>3. mainPc' \in {"report", "cleanup"} OBVIOUS
    <3> QED BY <3>1, <3>2, <3>3, <2>0, <2>5 DEF ReportProgress
  <2> QED BY <2>1, <2>2, <2>3, <2>4, <2>6, <1>s
<1>6. CASE cleanup
  <2> USE <1>6 DEF cleanup
  <2>1. TypeOK' BY <1>0
  <2>2. \A p, f \in Philosophers : ~Holds(p, f) /\ forks[f] # p /\ ~Holds(p, f)'
    BY DEF MainProgress, ForksMatchPoints, Holds
  <2>a. \A f \in Philosophers : forks'[f] = IF f = mainIndex THEN NoHandle ELSE forks[f]
    OBVIOUS
  <2>b. \A p \in Philosophers : p # NoHandle BY DEF Philosophers
  <2>3. ForksMatchPoints' BY <2>2, <2>a, <2>b DEF ForksMatchPoints
  <2>4. MutexInBlock' BY DEF MutexInBlock
  <2>5. MainProgress' BY <1>0 DEF MainProgress
  <2>6. ReportProgress' BY DEF ReportProgress, ReportIsFinal
  <2> QED BY <2>1, <2>3, <2>4, <2>5, <2>6, <1>s
<1> QED BY <1>1, <1>2, <1>3, <1>4, <1>5, <1>6 DEF main

LEMMA StutterStep == IInv /\ UNCHANGED vars => IInv'
BY SameFirstFork DEF IInv, TypeOK, ForksMatchPoints, Holds, MutexInBlock, MainProgress,
       ReportProgress, ReportIsFinal, StrategyPoints, vars, progVars, stats, mainVars

\* The inductive invariant holds in every reachable state of the program.
THEOREM Inductive == Spec => []IInv
<1>1. IInv /\ [Next]_vars => IInv'
  BY RoundStep, UnlockStep, MainStep, StutterStep DEF Next, philosopher, Exited
<1> QED BY InitIInv, <1>1, PTL DEF Spec

-----------------------------------------------------------------------------
\* Type correctness.
THEOREM TypeCorrect == Spec => []TypeOK
BY Inductive, PTL DEF IInv

\* Every fork is owned by exactly the thread whose code is between taking it and
\* releasing it, for every strategy.
THEOREM OwnershipCorrect == Spec => []ForksMatchPoints
BY Inductive, PTL DEF IInv

\* The printed counts are final.
THEOREM ReportCorrect == Spec => []ReportIsFinal
BY Inductive, PTL DEF IInv, ReportProgress

\* Mutexes exist while a philosopher may use them.
THEOREM HandlesCorrect == Spec => []HandlesOutliveThreads
<1>1. IInv => HandlesOutliveThreads
  BY DEF IInv, TypeOK, MainProgress, HandlesOutliveThreads
<1> QED BY Inductive, <1>1, PTL


-----------------------------------------------------------------------------
(* The circular wait.  A philosopher who owns its second fork has both, or *)
(* has just released one.  In the asymmetric strategy the fork an odd      *)
(* philosopher wants second is the second fork of the even one before it,  *)
(* and the fork an even one wants second is the second fork of the odd one *)
(* after it, or, at the seam of an odd ring, the first fork of philosopher *)
(* 0, whose own second fork belongs to the odd philosopher 1.              *)

Passed(p) == \/ pc[p] \in {"gotForks", "eating", "releaseRight", "giveBack"}
             \/ pc[p] = "second" /\ forks[SecondFork(p)] = Free

LEMMA OwnsSecond ==
    ASSUME IInv, NEW p \in Philosophers, forks[SecondFork(p)] = p
    PROVE  Passed(p)
BY ForkOrder DEF IInv, ForksMatchPoints, Holds, Passed

\* The owner of a fork stands at its left or at its right.
LEMMA OwnerIsBeside ==
    ASSUME IInv, NEW f \in Philosophers, forks[f] \in Philosophers
    PROVE  LET r == forks[f] IN
           /\ Holds(r, f)
           /\ f = leftFork(r) \/ f = rightFork(r)
BY NeighboursOwn DEF IInv, ForksMatchPoints

LEMMA WaitersHaveHandles ==
    ASSUME IInv, NEW p \in Philosophers, pc[p] \in {"first", "second"}, NEW f \in Philosophers
    PROVE  forks[f] = Free \/ forks[f] \in Philosophers
<1>1. forks[f] # NoHandle BY DEF IInv, TypeOK, MainProgress
<1> QED BY <1>1 DEF IInv, TypeOK

LEMMA OddWaits ==
    ASSUME IInv, currentStrategy = "ASYMMETRIC",
           NEW q \in Philosophers, q % 2 = 1, pc[q] = "second"
    PROVE  \E r \in Philosophers : Passed(r)
<1> USE DEF Philosophers
<1>1. SecondFork(q) = q BY DEF SecondFork, RightFirst, leftFork
<1>2. CASE forks[q] = Free BY <1>1, <1>2 DEF Passed
<1>3. CASE forks[q] \in Philosophers
  <2> DEFINE r == forks[q]
  <2>1. r # q \/ Passed(q) BY <1>1, OwnsSecond
  <2>2. CASE r # q
    <3>1. rightFork(r) = q BY <2>2, <1>3, OwnerIsBeside DEF leftFork
    <3>2. r + 1 = q
      BY <3>1, <1>3, RightFork, PhilosophersAssumption, SMT
    <3>3. r % 2 = 0 BY <3>2, <1>3, SMT
    <3>4. SecondFork(r) = q BY <3>1, <3>3 DEF SecondFork, RightFirst
    <3> QED BY <3>4, <1>3, OwnsSecond
  <2> QED BY <2>1, <2>2
<1> QED BY <1>2, <1>3, WaitersHaveHandles

LEMMA EvenWaits ==
    ASSUME IInv, currentStrategy = "ASYMMETRIC",
           NEW q \in Philosophers, q % 2 = 0, pc[q] = "second"
    PROVE  \E r \in Philosophers : Passed(r)
<1>1. SecondFork(q) = rightFork(q) BY DEF SecondFork, RightFirst
<1>a. rightFork(q) \in Philosophers BY RightFork
<1>2. CASE forks[rightFork(q)] = Free BY <1>1, <1>2 DEF Passed
<1>3. CASE forks[rightFork(q)] \in Philosophers
  <2> DEFINE s == forks[rightFork(q)]
  <2>1. CASE s = q BY <1>1, <2>1, OwnsSecond
  <2>2. CASE s # q
    <3>1. s = rightFork(q)
      <4>1. rightFork(q) = leftFork(s) \/ rightFork(q) = rightFork(s)
        BY <1>3, <1>a, OwnerIsBeside
      <4>2. rightFork(q) # rightFork(s)
        BY <2>2, <1>3, RightFork, PhilosophersAssumption, SMT DEF Philosophers
      <4> QED BY <4>1, <4>2 DEF leftFork
    <3>2. CASE s % 2 = 1
      <4>1. SecondFork(s) = s BY <3>2 DEF SecondFork, RightFirst, leftFork
      <4> QED BY <4>1, <3>1, <1>3, OwnsSecond
    <3>3. CASE s % 2 = 0
      <4>1. s = 0 /\ NumPhilosophers > 2 /\ FirstFork(s) = 0 /\ rightFork(s) = 1
        BY <3>1, <3>3, <1>3, RightFork, PhilosophersAssumption, SMT
           DEF Philosophers, FirstFork, RightFirst, leftFork
      <4>2. Passed(s) \/ pc[s] = "second"
        BY <1>3, <1>a, OwnerIsBeside DEF Holds, IInv, StrategyPoints, Passed
      <4>3. CASE pc[s] = "second" /\ forks[1] \in Philosophers
        <5> DEFINE t == forks[1]
        <5>1. 1 \in Philosophers /\ 1 % 2 = 1 BY <4>1, PhilosophersAssumption DEF Philosophers
        <5>2. t # s \/ Passed(s)
          BY <4>1, <3>3, <1>3, OwnsSecond DEF SecondFork, RightFirst
        <5>3. t # s => t = 1
          BY <4>1, <4>3, <5>1, OwnerIsBeside, RightFork, PhilosophersAssumption, SMT
             DEF Philosophers, leftFork
        <5>4. SecondFork(1) = 1 BY <5>1 DEF SecondFork, RightFirst, leftFork
        <5> QED BY <5>1, <5>2, <5>3, <5>4, <1>3, OwnsSecond
      <4>4. CASE pc[s] = "second" /\ forks[1] = Free
        BY <4>1, <4>4, <3>3, <1>3 DEF Passed, SecondFork, RightFirst
      <4>5. 1 \in Philosophers BY <4>1, PhilosophersAssumption DEF Philosophers
      <4> QED BY <4>2, <4>3, <4>4, <4>5, <1>3, WaitersHaveHandles
    <3>4. s % 2 \in {0, 1} BY <1>3, SMT DEF Philosophers
    <3> QED BY <3>2, <3>3, <3>4
  <2> QED BY <2>1, <2>2
<1> QED BY <1>2, <1>3, <1>a, WaitersHaveHandles

\* A non-empty set of naturals has a least element: its initial segments are
\* finite, and strict inclusion of finite sets is well-founded.
LEMMA LeastNatural ==
    ASSUME NEW S \in SUBSET Nat, S # {}
    PROVE  \E m \in S : \A n \in S : m <= n
<1> DEFINE Segments == {0 .. n : n \in S}
<1>1. Segments \subseteq FiniteSubsetsOf(Nat) /\ Segments # {}
  <2>1. \A n \in S : 0 .. n \in SUBSET Nat OBVIOUS
  <2>2. \A n \in S : IsFiniteSet(0 .. n) BY FS_Interval
  <2> QED BY <2>1, <2>2 DEF FiniteSubsetsOf
<1>2. IsWellFoundedOn(StrictSubsetOrdering(Nat), FiniteSubsetsOf(Nat))
  BY FS_StrictSubsetOrderingWellFounded
<1>3. PICK X \in Segments : \A Y \in Segments : ~(<<Y, X>> \in StrictSubsetOrdering(Nat))
  <2> HIDE DEF Segments
  <2> QED BY <1>1, <1>2, WFMin
<1>4. PICK m \in S : X = 0 .. m BY <1>3
<1>5. ASSUME NEW n \in S PROVE m <= n
  <2>1. SUFFICES ASSUME n < m PROVE FALSE OBVIOUS
  <2>2. 0 .. n \in Segments /\ 0 .. n \subseteq 0 .. m /\ m \in 0 .. m /\ m \notin 0 .. n
    BY <2>1
  <2>3. <<0 .. n, X>> \in StrictSubsetOrdering(Nat) BY <1>4, <2>2 DEF StrictSubsetOrdering
  <2> QED BY <1>3, <2>2, <2>3
<1> QED BY <1>5

\* In a ring, a set of philosophers that contains the right neighbour of each of
\* its members contains everybody.
LEMMA RoundTheRing ==
    ASSUME NEW A \in SUBSET Philosophers, A # {},
           \A q \in A : rightFork(q) \in A
    PROVE  A = Philosophers
<1> USE PhilosophersAssumption DEF Philosophers
<1>1. 0 \in A
  <2> DEFINE S == {k \in Nat : k < NumPhilosophers /\ NumPhilosophers - 1 - k \in A}
  <2>1. PICK a \in A : TRUE OBVIOUS
  <2>2. NumPhilosophers - 1 - a \in S OBVIOUS
  <2>3. PICK m \in S : \A n \in S : m <= n BY <2>2, LeastNatural
  <2>4. CASE m = 0
    <3>1. NumPhilosophers - 1 \in A BY <2>3, <2>4
    <3>2. rightFork(NumPhilosophers - 1) = 0 BY RightFork
    <3> QED BY <3>1, <3>2
  <2>5. CASE m # 0
    <3> DEFINE q == NumPhilosophers - 1 - m
    <3>1. q \in A /\ q + 1 < NumPhilosophers /\ q \in Philosophers BY <2>3, <2>5
    <3>2. rightFork(q) = q + 1 BY <3>1, RightFork
    <3>3. m - 1 \in S BY <2>3, <2>5, <3>1, <3>2
    <3> QED BY <2>3, <3>3
  <2> QED BY <2>4, <2>5
<1>2. SUFFICES ASSUME NEW p \in Philosophers, p \notin A PROVE FALSE
  OBVIOUS
<1> DEFINE T == {k \in Nat : k < NumPhilosophers /\ k \notin A}
<1>3. p \in T BY <1>2
<1>4. PICK m \in T : \A n \in T : m <= n BY <1>3, LeastNatural
<1>5. m # 0 BY <1>1, <1>4
<1>6. m - 1 \in A /\ m - 1 \in Philosophers BY <1>4, <1>5
<1>7. rightFork(m - 1) = m BY <1>4, <1>6, RightFork
<1> QED BY <1>4, <1>6, <1>7

Announcing(p) == pc[p] = "announce"

\* The philosopher whose left fork is wanted as a second fork waits as well.
LEMMA SimpleChain ==
    ASSUME IInv, currentStrategy = "SIMPLE", NEW q \in Philosophers, pc[q] = "second",
           \A r \in Philosophers : ~Passed(r) /\ ~Announcing(r)
    PROVE  pc[rightFork(q)] = "second"
<1>1. SecondFork(q) = rightFork(q) /\ rightFork(q) \in Philosophers
  BY RightFork DEF SecondFork, RightFirst
<1>2. forks[rightFork(q)] \in Philosophers BY <1>1, WaitersHaveHandles DEF Passed
<1> DEFINE s == forks[rightFork(q)]
<1>3. s # q BY <1>1, OwnsSecond
<1>4. Holds(s, rightFork(q)) BY <1>1, <1>2, OwnerIsBeside
<1>5. pc[s] = "second" /\ rightFork(q) = FirstFork(s)
  BY <1>2, <1>4 DEF Holds, Passed, Announcing
<1>6. FirstFork(s) = s BY DEF FirstFork, RightFirst, leftFork
<1> QED BY <1>5, <1>6

\* For every number of philosophers and every strategy, no circular wait but the
\* one of the simple strategy.
THEOREM NoCircularWaitCorrect == Spec => []NoCircularWait
<1>1. ASSUME IInv PROVE NoCircularWait
  <2> SUFFICES ASSUME NEW p \in Philosophers, Blocked(p), currentStrategy # "WITH_TIMEOUT",
                      \A r \in Philosophers : ~Passed(r) /\ ~Announcing(r)
               PROVE  CircularWait
      BY <1>1 DEF NoCircularWait, Passed, Announcing
  <2> USE <1>1
  <2>0. currentStrategy \in {"SIMPLE", "ASYMMETRIC"}
    BY PhilosophersAssumption DEF IInv, TypeOK
  <2>1. \E q \in Philosophers : pc[q] = "second"
    <3>2. CASE pc[p] = "first"
      <4>1. forks[FirstFork(p)] # Free BY <3>2 DEF Blocked, WaitsFor
      <4>2. FirstFork(p) \in Philosophers BY ForkOrder
      <4>3. forks[FirstFork(p)] \in Philosophers BY <3>2, <4>1, <4>2, WaitersHaveHandles
      <4>4. Holds(forks[FirstFork(p)], FirstFork(p)) BY <4>2, <4>3, OwnerIsBeside
      <4> QED BY <4>3, <4>4 DEF Holds, Passed, Announcing
    <3> QED BY <3>2 DEF Blocked, WaitsFor
  <2>2. CASE currentStrategy = "ASYMMETRIC"
    <3>1. PICK q \in Philosophers : pc[q] = "second" BY <2>1
    <3>2. q % 2 \in {0, 1} BY SMT DEF Philosophers
    <3> QED BY <2>2, <3>1, <3>2, OddWaits, EvenWaits
  <2>3. CASE currentStrategy = "SIMPLE"
    <3> DEFINE A == {q \in Philosophers : pc[q] = "second"}
    <3>1. \A q \in A : rightFork(q) \in A BY <2>3, SimpleChain, RightFork
    <3>2. A = Philosophers
      <4> HIDE DEF A
      <4>1. A # {} /\ A \subseteq Philosophers BY <2>1 DEF A
      <4> QED BY <3>1, <4>1, RoundTheRing
    <3>3. ASSUME NEW q \in Philosophers PROVE pc[q] = "second" /\ forks[q] = q
      <4>1. pc[q] = "second" BY <3>2
      <4>2. FirstFork(q) = q BY <2>3 DEF FirstFork, RightFirst, leftFork
      <4> QED BY <4>1, <4>2 DEF IInv, ForksMatchPoints, Holds
    <3> QED BY <2>3, <3>3 DEF CircularWait
  <2> QED BY <2>0, <2>2, <2>3
<1> QED BY <1>1, Inductive, PTL

-----------------------------------------------------------------------------
(* The program implements the dining table. *)

SeatOf == [p \in Philosophers |-> Seat(p)]

\* A step of philosopher p moves nobody else's seat.
LEMMA SeatMoves ==
    ASSUME TypeOK, NEW p \in Philosophers, NEW point, pc' = [pc EXCEPT ![p] = point]
    PROVE  SeatOf' = [SeatOf EXCEPT ![p] =
              CASE point \in {"thought", "first", "announce", "second", "giveBack", "gaveUp"} -> "hungry"
                [] point \in {"gotForks", "eating"} -> "eating"
                [] OTHER -> "away"]
<1>1. pc'[p] = point /\ \A q \in Philosophers : q # p => pc'[q] = pc[q] BY DEF TypeOK
<1> QED BY <1>1 DEF SeatOf, Seat

\* Who takes its second fork has no eating neighbour: it would own that fork
\* or the first one.
LEMMA NeighboursNotEating ==
    ASSUME IInv, NEW p \in Philosophers, TakeSecond(p),
           NEW q \in Philosophers, Table!Neighbours(p, q)
    PROVE  Seat(q) # "eating"
<1> SUFFICES ASSUME pc[q] \in {"gotForks", "eating"} PROVE FALSE
    BY DEF Seat
<1>1. forks[leftFork(q)] = q /\ forks[rightFork(q)] = q
  BY ForkOrder, RightFork DEF IInv, ForksMatchPoints, Holds
<1>2. forks[FirstFork(p)] = p /\ forks[SecondFork(p)] = Free /\ q # p
  BY ForkOrder DEF IInv, ForksMatchPoints, Holds, TakeSecond, TakeFork
<1>3. leftFork(q) = rightFork(p) \/ rightFork(q) = leftFork(p)
  BY DEF Table!Neighbours, leftFork, rightFork
<1>4. forks[rightFork(p)] \in {p, Free} /\ forks[leftFork(p)] \in {p, Free}
  BY <1>2, ForkOrder
<1> QED BY <1>1, <1>2, <1>3, <1>4 DEF Philosophers, Free

LEMMA TableStep == IInv /\ [Next]_vars => [Table!Next]_(Table!vars)
<1> SUFFICES ASSUME IInv, [Next]_vars PROVE [Table!Next]_(Table!vars)
    OBVIOUS
<1> USE DEF Table!vars, Table!Philosophers, Philosophers
<1>1. SeatOf \in [Philosophers -> {"away", "hungry", "eating"}] BY DEF SeatOf, Seat
<1>2. CASE UNCHANGED vars BY <1>2 DEF vars, progVars, Seat
<1>3. CASE Exited BY <1>3 DEF Exited, vars, progVars, Seat
<1>4. CASE main
  <2>1. CASE StopSimulation
    BY <2>1 DEF StopSimulation, Table!Next, Table!Close, IInv, MainProgress, Seat
  <2>2. CASE SpawnPhilosopher
    <3>1. pc[mainIndex] = "unborn" /\ pc' = [pc EXCEPT ![mainIndex] = "loop"]
          /\ mainIndex \in Philosophers /\ UNCHANGED isRunning
      BY <2>2 DEF SpawnPhilosopher, Goto, Iterate, IInv, TypeOK, MainProgress
    <3>2. SeatOf' = [SeatOf EXCEPT ![mainIndex] = "away"] BY <3>1, SeatMoves DEF IInv
    <3>3. SeatOf[mainIndex] = "away" BY <3>1 DEF SeatOf, Seat
    <3> QED BY <3>1, <3>2, <3>3, <1>1 DEF SeatOf
  <2>3. CASE UNCHANGED <<pc, isRunning>> BY <2>3 DEF Seat
  <2> QED BY <1>4, <2>1, <2>2, <2>3 DEF main, CreateFork, Join, PrintRow, cleanup
<1>5. ASSUME NEW p \in Philosophers, philosopher(p)
      PROVE  [Table!Next]_(Table!vars)
  <2> USE <1>1 DEF IInv, Goto, Table!Next
  <2> DEFINE To(s) == SeatOf' = [SeatOf EXCEPT ![p] = s]
             From(s) == SeatOf[p] = s
  <2>0. UNCHANGED isRunning
    BY <1>5 DEF philosopher, StartRound, LeaveLoop, LockStats, UnlockStats, TakeFirst, TakeSecond,
         FirstTimesOut, SecondTimesOut, GiveBackLeft, ReleaseLeft, ReleaseRight
  <2>1. ASSUME NEW s, From(s), To(s) PROVE [Table!Next]_(Table!vars)
    <3>1. SeatOf' = SeatOf BY <2>1
    <3> QED BY <3>1, <2>0 DEF SeatOf
  <2>2. ASSUME From("hungry") \/ From("eating"), To("away") PROVE [Table!Next]_(Table!vars)
    <3>1. Table!Leave(p) BY <2>2, <2>0 DEF Table!Leave, SeatOf
    <3> QED BY <3>1
  <2>3. CASE StartRound(p)
    <3>1. From("away") /\ To("hungry") BY <2>3, SeatMoves DEF StartRound, SeatOf, Seat
    <3>2. Table!SitDown(p) BY <3>1, <2>3 DEF Table!SitDown, StartRound, SeatOf
    <3> QED BY <3>2
  <2>4. CASE LeaveLoop(p)
    <3>1. From("away") /\ To("away") BY <2>4, SeatMoves DEF LeaveLoop, SeatOf, Seat
    <3> QED BY <3>1, <2>1
  <2>5. CASE LockStats(p) BY <2>5, <2>0 DEF LockStats, Seat
  <2>6. CASE UnlockStats(p)
    <3>0. pc[p] \in StatsBlocks /\ pc' = [pc EXCEPT ![p] = AfterBlock[pc[p]]]
      BY <2>6 DEF UnlockStats, MutexInBlock
    <3>1. CASE pc[p] \in {"thought", "announce"}
      <4>1. From("hungry") /\ To("hungry")
        <5>1. pc' = [pc EXCEPT ![p] = "first"] \/ pc' = [pc EXCEPT ![p] = "second"]
          <6>1. CASE pc[p] = "thought" BY <3>0, <6>1 DEF AfterBlock
          <6>2. CASE pc[p] = "announce" BY <3>0, <6>2 DEF AfterBlock
          <6> QED BY <3>1, <6>1, <6>2
        <5> QED BY <5>1, <3>1, SeatMoves DEF SeatOf, Seat
      <4> QED BY <4>1, <2>1
    <3>2. CASE pc[p] = "gotForks"
      <4>1. From("eating") /\ To("eating")
        <5>1. pc' = [pc EXCEPT ![p] = "eating"] BY <3>0, <3>2 DEF AfterBlock
        <5> QED BY <5>1, <3>2, SeatMoves DEF SeatOf, Seat
      <4> QED BY <4>1, <2>1
    <3>3. CASE pc[p] = "fed"
      <4>1. From("away") /\ To("away")
        <5>1. pc' = [pc EXCEPT ![p] = "loop"] BY <3>0, <3>3 DEF AfterBlock
        <5> QED BY <5>1, <3>3, SeatMoves DEF SeatOf, Seat
      <4> QED BY <4>1, <2>1
    <3>4. CASE pc[p] = "gaveUp"
      <4>1. From("hungry") /\ To("away")
        <5>1. pc' = [pc EXCEPT ![p] = "loop"] BY <3>0, <3>4 DEF AfterBlock
        <5>2. From("hungry") BY <3>4 DEF SeatOf, Seat
        <5>3. To("away") BY <5>1, SeatMoves
        <5> QED BY <5>2, <5>3
      <4> QED BY <4>1, <2>2
    <3> QED BY <3>0, <3>1, <3>2, <3>3, <3>4 DEF StatsBlocks, AfterBlock
  <2>7. CASE TakeFirst(p) \/ FirstTimesOut(p) \/ SecondTimesOut(p) \/ GiveBackLeft(p)
    <3>1. From("hungry") /\ To("hungry")
      BY <2>7, SeatMoves DEF TakeFirst, FirstTimesOut, SecondTimesOut, GiveBackLeft, SeatOf, Seat
    <3> QED BY <3>1, <2>1
  <2>8. CASE TakeSecond(p)
    <3>1. From("hungry") /\ To("eating") BY <2>8, SeatMoves DEF TakeSecond, SeatOf, Seat
    <3>2. \A q \in Philosophers : Table!Neighbours(p, q) => SeatOf[q] # "eating"
      BY <2>8, NeighboursNotEating DEF SeatOf
    <3>3. Table!StartEating(p) BY <3>1, <3>2, <2>0 DEF Table!StartEating, SeatOf
    <3> QED BY <3>3
  <2>9. CASE ReleaseLeft(p)
    <3>1. From("eating") /\ To("away") BY <2>9, SeatMoves DEF ReleaseLeft, SeatOf, Seat
    <3> QED BY <3>1, <2>2
  <2>10. CASE ReleaseRight(p)
    <3>1. From("away") /\ To("away") BY <2>10, SeatMoves DEF ReleaseRight, SeatOf, Seat
    <3> QED BY <3>1, <2>1
  <2> QED BY <1>5, <2>3, <2>4, <2>5, <2>6, <2>7, <2>8, <2>9, <2>10 DEF philosopher
<1> QED BY <1>2, <1>3, <1>4, <1>5 DEF Next

\* For every strategy and number of philosophers the program implements the
\* table: neighbours never eat together, and a closed table admits nobody.
THEOREM TableImplemented == Spec => ImplementsTable
<1>1. Init => Table!Init
  BY DEF Init, Table!Init, Table!Philosophers, Philosophers, Seat
<1> QED BY <1>1, TableStep, Inductive, PTL DEF Spec, ImplementsTable, Table!Spec
=============================================================================
