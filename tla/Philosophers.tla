---------------------------- MODULE Philosophers ----------------------------
(***************************************************************************)
(* sem1/LR4: the dining philosophers.  main creates one Windows mutex per  *)
(* fork and one thread per philosopher, lets them run, clears isRunning,   *)
(* joins them in order, prints their statistics and closes the mutexes.    *)
(* A philosopher takes its forks by one of three strategies and updates    *)
(* the statistics under statsMutex.  Sleeping is a pure delay: a thread    *)
(* that sleeps is a thread whose next step has not been taken yet.         *)
(***************************************************************************)
EXTENDS Integers, Sequences

CONSTANTS
    NumPhilosophers,    \* numPhilosophers of main (5 in the program)
    Strategies,         \* the choices of currentStrategy considered
    MaxRounds           \* bound: rounds a philosopher starts

ASSUME PhilosophersAssumption ==
    /\ NumPhilosophers \in Nat /\ NumPhilosophers >= 2
    /\ Strategies \subseteq {"SIMPLE", "ASYMMETRIC", "WITH_TIMEOUT"}
    /\ MaxRounds \in Nat \ {0}

VARIABLES
    isRunning,          \* the atomic flag
    forks,              \* owner of each mutex, Free, or NoHandle
    statsMutex,         \* the thread inside a statistics block, or Free
    successfulMeals,
    failedMeals,
    pc,                 \* the point each philosopher thread has reached
    mainPc,             \* the loop or statement main is at
    mainIndex,          \* the loop variable of main
    report,             \* the rows main has printed
    currentStrategy     \* how forks are taken; set before the threads start

mainVars == <<mainPc, mainIndex, report>>
stats == <<successfulMeals, failedMeals>>
progVars == <<isRunning, forks, statsMutex, stats, pc, mainVars>>
vars == <<progVars, currentStrategy>>

Philosophers == 0 .. NumPhilosophers - 1
Free == -1
NoHandle == -2

leftFork(p) == p
rightFork(p) == (p + 1) % NumPhilosophers

\* (A name with an underscore is a mutant: a plausible bug in the code that the
\* definition after it models, which the named property must expose.)
RightFirst_Never(p) == FALSE

\* Odd philosophers start with the right fork in the asymmetric strategy.
RightFirst(p) == currentStrategy = "ASYMMETRIC" /\ p % 2 = 1
FirstFork(p) == IF RightFirst(p) THEN rightFork(p) ELSE leftFork(p)
SecondFork(p) == IF RightFirst(p) THEN leftFork(p) ELSE rightFork(p)

\* The blocks under statsMutex, and the point that follows each.
AfterBlock == [thought   |-> "first",      \* thinking time
               announce  |-> "second",     \* "took fork and is waiting"
               gotForks  |-> "eating",     \* waiting time
               fed       |-> "loop",       \* a successful meal
               gaveUp    |-> "loop"]       \* a failed one
StatsBlocks == DOMAIN AfterBlock

Points == StatsBlocks \cup
          {"unborn", "loop", "first", "second", "eating", "releaseRight",
           "giveBack", "done"}

Init ==
    /\ isRunning = TRUE
    /\ forks = [f \in Philosophers |-> NoHandle]
    /\ statsMutex = Free
    /\ successfulMeals = [p \in Philosophers |-> 0]
    /\ failedMeals = [p \in Philosophers |-> 0]
    /\ pc = [p \in Philosophers |-> "unborn"]
    /\ mainPc = "create" /\ mainIndex = 0 /\ report = << >>
    /\ currentStrategy \in Strategies

-----------------------------------------------------------------------------
(* A philosopher thread. *)

Goto(p, point) == pc' = [pc EXCEPT ![p] = point]

StartRound(p) ==
    /\ pc[p] = "loop" /\ isRunning
    /\ successfulMeals[p] + failedMeals[p] < MaxRounds
    /\ Goto(p, "thought")
    /\ UNCHANGED <<isRunning, forks, statsMutex, stats, mainVars>>

LeaveLoop(p) ==
    /\ pc[p] = "loop" /\ ~isRunning
    /\ Goto(p, "done")
    /\ UNCHANGED <<isRunning, forks, statsMutex, stats, mainVars>>

LockStats(p) ==
    /\ pc[p] \in StatsBlocks /\ statsMutex = Free
    /\ statsMutex' = p
    /\ UNCHANGED <<isRunning, forks, stats, pc, mainVars>>

\* What the block writes is visible to others only once the mutex is released.
UnlockStats(p) ==
    /\ statsMutex = p
    /\ statsMutex' = Free
    /\ Goto(p, AfterBlock[pc[p]])
    /\ successfulMeals' = [successfulMeals EXCEPT ![p] = @ + IF pc[p] = "fed" THEN 1 ELSE 0]
    /\ failedMeals' = [failedMeals EXCEPT ![p] = @ + IF pc[p] = "gaveUp" THEN 1 ELSE 0]
    /\ UNCHANGED <<isRunning, forks, mainVars>>

TakeFork_ResultIgnored(p, f) == forks' = [forks EXCEPT ![f] = p]

\* WaitForSingleObject that returns WAIT_OBJECT_0.
TakeFork(p, f) == forks[f] = Free /\ forks' = [forks EXCEPT ![f] = p]

ReleaseFork(p, f) == forks[f] = p /\ forks' = [forks EXCEPT ![f] = Free]

TakeFirst(p) ==
    /\ pc[p] = "first"
    /\ TakeFork(p, FirstFork(p))
    /\ Goto(p, IF currentStrategy = "SIMPLE" THEN "announce" ELSE "second")
    /\ UNCHANGED <<isRunning, statsMutex, stats, mainVars>>

TakeSecond(p) ==
    /\ pc[p] = "second"
    /\ TakeFork(p, SecondFork(p))
    /\ Goto(p, "gotForks")
    /\ UNCHANGED <<isRunning, statsMutex, stats, mainVars>>

\* WaitForSingleObject that returns WAIT_TIMEOUT: only while another thread
\* owns the mutex, since the wait on a free one is satisfied at once.
FirstTimesOut(p) ==
    /\ currentStrategy = "WITH_TIMEOUT"
    /\ pc[p] = "first" /\ forks[FirstFork(p)] # Free
    /\ Goto(p, "gaveUp")
    /\ UNCHANGED <<isRunning, forks, statsMutex, stats, mainVars>>

SecondTimesOut_Infinite(p) == FALSE /\ UNCHANGED progVars

SecondTimesOut(p) ==
    /\ currentStrategy = "WITH_TIMEOUT"
    /\ pc[p] = "second" /\ forks[SecondFork(p)] # Free
    /\ Goto(p, "giveBack")
    /\ UNCHANGED <<isRunning, forks, statsMutex, stats, mainVars>>

GiveBackLeft_Forgotten(p) ==
    /\ pc[p] = "giveBack"
    /\ Goto(p, "gaveUp")
    /\ UNCHANGED <<isRunning, forks, statsMutex, stats, mainVars>>

GiveBackLeft(p) ==
    /\ pc[p] = "giveBack"
    /\ ReleaseFork(p, leftFork(p))
    /\ Goto(p, "gaveUp")
    /\ UNCHANGED <<isRunning, statsMutex, stats, mainVars>>

ReleaseLeft(p) ==
    /\ pc[p] = "eating"
    /\ ReleaseFork(p, leftFork(p))
    /\ Goto(p, "releaseRight")
    /\ UNCHANGED <<isRunning, statsMutex, stats, mainVars>>

ReleaseRight(p) ==
    /\ pc[p] = "releaseRight"
    /\ ReleaseFork(p, rightFork(p))
    /\ Goto(p, "fed")
    /\ UNCHANGED <<isRunning, statsMutex, stats, mainVars>>

philosopher(p) ==
    \/ StartRound(p) \/ LeaveLoop(p)
    \/ LockStats(p) \/ UnlockStats(p)
    \/ TakeFirst(p) \/ TakeSecond(p)
    \/ FirstTimesOut(p) \/ SecondTimesOut(p) \/ GiveBackLeft(p)
    \/ ReleaseLeft(p) \/ ReleaseRight(p)

-----------------------------------------------------------------------------
(* main *)

\* One iteration of a for loop of main; the last one moves on to next.
Iterate(loop, next) ==
    /\ mainPc = loop
    /\ IF mainIndex + 1 < NumPhilosophers
         THEN mainIndex' = mainIndex + 1 /\ UNCHANGED mainPc
         ELSE mainIndex' = 0 /\ mainPc' = next

CreateFork ==
    /\ Iterate("create", "spawn")
    /\ forks' = [forks EXCEPT ![mainIndex] = Free]
    /\ UNCHANGED <<isRunning, statsMutex, stats, pc, report>>

SpawnPhilosopher ==
    /\ Iterate("spawn", "simulate")
    /\ Goto(mainIndex, "loop")
    /\ UNCHANGED <<isRunning, forks, statsMutex, stats, report>>

StopSimulation ==
    /\ mainPc = "simulate"
    /\ isRunning' = FALSE /\ mainPc' = "join"
    /\ UNCHANGED <<forks, statsMutex, stats, pc, mainIndex, report>>

Join_FirstThreadOnly ==
    /\ pc[0] = "done"
    /\ Iterate("join", "report")
    /\ UNCHANGED <<isRunning, forks, statsMutex, stats, pc, report>>

Join ==
    /\ pc[mainIndex] = "done"
    /\ Iterate("join", "report")
    /\ UNCHANGED <<isRunning, forks, statsMutex, stats, pc, report>>

\* The rows are read without statsMutex.
PrintRow ==
    /\ Iterate("report", "cleanup")
    /\ report' = Append(report, <<successfulMeals[mainIndex], failedMeals[mainIndex]>>)
    /\ UNCHANGED <<isRunning, forks, statsMutex, stats, pc>>

cleanup ==
    /\ Iterate("cleanup", "exited")
    /\ forks' = [forks EXCEPT ![mainIndex] = NoHandle]
    /\ UNCHANGED <<isRunning, statsMutex, stats, pc, report>>

main == CreateFork \/ SpawnPhilosopher \/ StopSimulation \/ Join \/ PrintRow \/ cleanup

Exited == mainPc = "exited" /\ UNCHANGED vars

Next == \/ /\ main \/ \E p \in Philosophers : philosopher(p)
           /\ UNCHANGED currentStrategy
        \/ Exited

Spec == Init /\ [][Next]_vars

\* Every thread that can step eventually does: the scheduler runs every ready
\* thread, sleeps end, and a wait on a mutex that stays free is satisfied.
FairSpec == Spec /\ WF_progVars(main) /\ \A p \in Philosophers : WF_progVars(philosopher(p))

-----------------------------------------------------------------------------
(* Properties. *)

TypeOK ==
    /\ isRunning \in BOOLEAN
    /\ forks \in [Philosophers -> Philosophers \cup {Free, NoHandle}]
    /\ statsMutex \in Philosophers \cup {Free}
    /\ successfulMeals \in [Philosophers -> Nat]
    /\ failedMeals \in [Philosophers -> Nat]
    /\ pc \in [Philosophers -> Points]
    /\ mainPc \in {"create", "spawn", "simulate", "join", "report", "cleanup", "exited"}
    /\ mainIndex \in Philosophers
    /\ report \in Seq(Nat \X Nat)
    /\ currentStrategy \in Strategies

\* The forks a philosopher owns at each point of its round.
Holds(p, f) ==
    \/ pc[p] \in {"announce", "second", "giveBack"} /\ f = FirstFork(p)
    \/ pc[p] \in {"gotForks", "eating"} /\ f \in {leftFork(p), rightFork(p)}
    \/ pc[p] = "releaseRight" /\ f = rightFork(p)

\* Every mutex is owned by exactly the thread whose code is between taking it
\* and releasing it: no fork has two owners, none is released by a thread that
\* does not own it, and a thread that gives up or ends leaves none behind
\* (an abandoned mutex would fail the next WaitForSingleObject).
ForksMatchPoints == \A p, f \in Philosophers : forks[f] = p <=> Holds(p, f)

WaitsFor(p, f) == \/ pc[p] = "first" /\ f = FirstFork(p)
                  \/ pc[p] = "second" /\ f = SecondFork(p)
Blocked(p) == \E f \in Philosophers : WaitsFor(p, f) /\ forks[f] # Free

\* The one way in which the simple strategy deadlocks: all hold their left fork.
CircularWait ==
    currentStrategy = "SIMPLE" /\ \A q \in Philosophers : pc[q] = "second" /\ forks[q] = q

\* Whenever someone waits for a fork another philosopher owns, some
\* philosopher is past its waits with a fork in hand, so that fork will be
\* released, or will stop waiting by its timeout: the asymmetric and the timeout
\* strategies have no circular wait, and the simple one has no other.
NoCircularWait ==
    (\E p \in Philosophers : Blocked(p)) =>
        \/ CircularWait
        \/ \E q \in Philosophers :
            \/ pc[q] \in {"announce", "gotForks", "eating", "releaseRight", "giveBack"}
            \/ pc[q] = "second" /\ forks[SecondFork(q)] = Free
            \/ currentStrategy = "WITH_TIMEOUT" /\ Blocked(q)

\* The rows main prints without taking statsMutex are the final counts: no
\* philosopher thread changes a count once it has been printed.
ReportIsFinal ==
    \A k \in 1 .. Len(report) : report[k] = <<successfulMeals[k - 1], failedMeals[k - 1]>>

\* main closes no mutex that a philosopher may still wait for or release, and
\* starts no philosopher before all mutexes exist.
HandlesOutliveThreads ==
    \A p \in Philosophers :
        pc[p] \notin {"unborn", "done"} => \A f \in Philosophers : forks[f] # NoHandle

\* Clearing isRunning ends the program, unless it has reached the circular wait
\* of the simple strategy: every thread leaves its loop, main joins all of them,
\* prints the report and exits.
Termination == <>(mainPc = "exited" \/ CircularWait)

\* The program implements the dining table: a philosopher is at the table from
\* the moment it starts a round and eats while it owns both forks.
Seat(p) == CASE pc[p] \in {"thought", "first", "announce", "second", "giveBack", "gaveUp"} -> "hungry"
             [] pc[p] \in {"gotForks", "eating"} -> "eating"
             [] OTHER -> "away"
Table == INSTANCE DiningTable WITH open <- isRunning,
                                   seat <- [p \in Philosophers |-> Seat(p)]
ImplementsTable == Table!Spec
=============================================================================
