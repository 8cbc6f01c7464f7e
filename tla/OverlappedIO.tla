---------------------------- MODULE OverlappedIO ----------------------------
(***************************************************************************)
(* sem1/LR2: the file benchmark.  main runs five tests one after another;  *)
(* each writes a file of FILE_SIZE bytes, closes it, opens it again and    *)
(* reads it.  FILE_SIZE is a multiple of BUFFER_SIZE, so that offsets are  *)
(* counted in buffers.  An operation that ReadFile or WriteFile leaves     *)
(* pending is in flight until the kernel completes it.  Starting one       *)
(* clears its event, or the state of the file handle when it has none, and *)
(* its completion sets them; a start that fails may or may not have        *)
(* cleared them.                                                           *)
(***************************************************************************)
EXTENDS Integers, FiniteSets

CONSTANTS
    FileBlocks,         \* FILE_SIZE in buffers
    NumAsync,           \* ASYNC_OPERATIONS
    NumThreads,         \* NUM_THREADS
    Faults,             \* which failures may happen
    MaxFailures         \* bound: operations that fail once they are in flight

ASSUME IOAssumption ==
    /\ NumAsync \in Nat \ {0} /\ NumThreads \in Nat \ {0} /\ MaxFailures \in Nat
    /\ FileBlocks \in Nat /\ FileBlocks >= NumAsync
    /\ Faults \subseteq {"create",      \* a handle cannot be had
                         "start"}       \* ReadFile or WriteFile fails at once

VARIABLES
    test, phase,        \* the test main is in, and "write" or "read"
    pc,                 \* where in it
    handles,            \* open handles
    total,              \* totalWritten, totalRead or global_offset
    nextBuffer,         \* operations of the first wave, threads created
    slot,               \* completedIdx
    thread, offset,     \* per thread: where it is, and its offset
    pending,            \* per thread: does its OVERLAPPED say so?
    success,            \* threadData[i].success of all threads
    flight,             \* operations in flight
    signalled,          \* events and file handles that are set
    done, lost,         \* blocks transferred, and failed, in this phase
    failures            \* operations that have failed in flight

mainVars == <<test, phase, pc, handles, nextBuffer, slot>>
threadVars == <<thread, offset, pending, success>>
kernelVars == <<flight, signalled, done, lost, failures>>
vars == <<mainVars, total, threadVars, kernelVars>>

Blocks == 0 .. FileBlocks - 1
Slots == 0 .. NumAsync - 1
Threads == 0 .. NumThreads - 1

\* An operation belongs to a slot, a thread or the one of the sequential test;
\* what its completion sets is the event of the slot, that of the sequential
\* test, or the file handle.
Single == -1
FileObject == -2

Ended == {"finished", "crashed"}
NextTest(t) == CASE t = "blocking" -> "interrupt" [] t = "interrupt" -> "threads"
                 [] t = "threads" -> "async" [] t = "async" -> "mapped" [] t = "mapped" -> "finished"

Idle == [t \in Threads |-> "none"]

Init ==
    /\ test = "blocking" /\ phase = "write" /\ pc = "begin"
    /\ handles = {} /\ total = 0 /\ nextBuffer = 0 /\ slot = 0
    /\ thread = Idle /\ offset = [t \in Threads |-> 0]
    /\ pending = [t \in Threads |-> FALSE] /\ success = TRUE
    /\ flight = {} /\ signalled = {} /\ done = {} /\ lost = {} /\ failures = 0

\* (A name with an underscore before a capital is a mutant: a plausible bug in
\* the code that the definition after it models.)

-----------------------------------------------------------------------------
(* What the tests have in common. *)

\* The event or events a test creates.
Events == CASE test = "interrupt" -> {"event"} [] test = "async" -> {"events"} [] OTHER -> {}

\* The function's variables, and the states of what it has closed, are gone.
Return ==
    /\ test' = NextTest(test) /\ phase' = "write" /\ pc' = "begin"
    /\ total' = 0 /\ nextBuffer' = 0 /\ slot' = 0
    /\ thread' = Idle /\ offset' = [t \in Threads |-> 0]
    /\ pending' = [t \in Threads |-> FALSE] /\ success' = TRUE
    /\ signalled' = {} /\ done' = {} /\ lost' = {}
    /\ UNCHANGED <<flight, failures>>

ReturnError_ForgetsEvents ==
    /\ handles' = handles \ {"file", "mapping"}
    /\ Return

\* result.success = false, after what this function has open is closed.
ReturnError ==
    /\ handles' = handles \ ({"file", "mapping"} \cup Events)
    /\ Return

Begin ==
    /\ pc = "begin"
    /\ \/ /\ handles' = handles \cup Events /\ pc' = "open"
          /\ UNCHANGED <<test, phase, total, nextBuffer, slot, threadVars, kernelVars>>
       \/ test = "interrupt" /\ "create" \in Faults /\ ReturnError

OpenFile ==
    /\ pc = "open"
    /\ \/ /\ handles' = handles \cup {"file"}
          /\ pc' = IF test = "mapped" THEN "map" ELSE "loop"
          /\ total' = 0 /\ nextBuffer' = 0 /\ done' = {} /\ lost' = {}
          /\ signalled' = signalled \ {FileObject}
          /\ thread' = Idle /\ success' = TRUE
          /\ UNCHANGED <<test, phase, slot, offset, pending, flight, failures>>
       \/ "create" \in Faults /\ ReturnError

\* The events of a test are closed when it returns.
CloseFile ==
    /\ pc = "close"
    /\ IF phase = "write"
         THEN /\ handles' = handles \ {"file", "mapping", "view"}
              /\ phase' = "read" /\ pc' = "open"
              /\ UNCHANGED <<test, total, nextBuffer, slot, threadVars, kernelVars>>
         ELSE /\ handles' = handles \ ({"file", "mapping", "view"} \cup Events)
              /\ Return

Op(who, block) == [test |-> test, phase |-> phase, who |-> who, block |-> block]

\* The outcomes of a ReadFile or WriteFile that has an operation to do.
TransfersAtOnce(o, object) ==
    /\ done' = done \cup {o.block} /\ signalled' = signalled \cup {object}
    /\ lost' = lost \ {o.block}
    /\ UNCHANGED <<flight, failures>>

Pending(o, object) ==
    /\ flight' = flight \cup {o} /\ signalled' = signalled \ {object}
    /\ lost' = lost \ {o.block}
    /\ UNCHANGED <<done, failures>>

-----------------------------------------------------------------------------
(* TestBlockingIO and TestInterruptDrivenIO *)

BlockingTransfer ==
    /\ pc = "loop" /\ total < FileBlocks
    /\ \/ /\ total' = total + 1 /\ done' = done \cup {total}
          /\ UNCHANGED <<mainVars, threadVars, flight, signalled, lost, failures>>
       \/ "start" \in Faults /\ ReturnError

InterruptStart ==
    /\ pc = "loop" /\ total < FileBlocks
    /\ \/ /\ TransfersAtOnce(Op(Single, total), Single)
          /\ total' = total + 1
          /\ UNCHANGED <<mainVars, threadVars>>
       \/ /\ Pending(Op(Single, total), Single)
          /\ pc' = "wait"
          /\ UNCHANGED <<test, phase, handles, nextBuffer, slot, total, threadVars>>
       \/ "start" \in Faults /\ ReturnError

InterruptWait_NotWaited ==
    /\ pc = "wait"
    /\ signalled' = signalled \ {Single}
    /\ total' = total + 1 /\ pc' = "loop"
    /\ UNCHANGED <<test, phase, handles, nextBuffer, slot,
                   threadVars, flight, done, lost, failures>>

\* An operation that failed counts 0 bytes: it is written again, or taken for
\* the end of the file that is read.
InterruptWait ==
    /\ pc = "wait" /\ Single \in signalled
    /\ signalled' = signalled \ {Single}
    /\ total' = IF total \in done THEN total + 1 ELSE total
    /\ pc' = IF total \in done \/ phase = "write" THEN "loop" ELSE "close"
    /\ UNCHANGED <<test, phase, handles, nextBuffer, slot,
                   threadVars, flight, done, lost, failures>>

SequentialEnd ==
    /\ pc = "loop" /\ total >= FileBlocks
    /\ pc' = "close"
    /\ UNCHANGED <<test, phase, handles, nextBuffer, slot, total, threadVars, kernelVars>>

-----------------------------------------------------------------------------
(* TestMultithreadedIO.  global_offset grows beyond the file by one chunk   *)
(* for each thread.                                                         *)

CreateThread ==
    /\ pc = "loop"
    /\ IF nextBuffer < NumThreads
         THEN /\ thread' = [thread EXCEPT ![nextBuffer] = "take"]
              /\ nextBuffer' = nextBuffer + 1
              /\ UNCHANGED pc
         ELSE pc' = "join" /\ UNCHANGED <<thread, nextBuffer>>
    /\ UNCHANGED <<test, phase, handles, slot, total, offset, pending, success, kernelVars>>

\* WaitForMultipleObjects, then the check of every thread's success.
JoinThreads ==
    /\ pc = "join" /\ \A t \in Threads : thread[t] = "exited"
    /\ IF success
         THEN /\ pc' = "close"
              /\ UNCHANGED <<test, phase, handles, nextBuffer, slot,
                             total, threadVars, kernelVars>>
         ELSE ReturnError

GoTo(t, where) == thread' = [thread EXCEPT ![t] = where]

TakeOffset_NotAtomic(t) ==
    /\ \/ /\ thread[t] = "take"
          /\ offset' = [offset EXCEPT ![t] = total] /\ UNCHANGED total
          /\ GoTo(t, "store")
       \/ /\ thread[t] = "store"
          /\ total' = offset[t] + 1 /\ UNCHANGED offset
          /\ GoTo(t, IF offset[t] >= FileBlocks THEN "exiting" ELSE "issue")
    /\ UNCHANGED <<pending, success, kernelVars>>

\* The load and the store of fetch_add are one step.
TakeOffset(t) ==
    /\ thread[t] = "take"
    /\ offset' = [offset EXCEPT ![t] = total] /\ total' = total + 1
    /\ GoTo(t, IF total >= FileBlocks THEN "exiting" ELSE "issue")
    /\ UNCHANGED <<pending, success, kernelVars>>

\* The threads that wait for the file handle go on when it is set.
Woken == [t \in Threads |-> IF thread[t] = "waiting" THEN "take" ELSE thread[t]]

IssueByThread(t) ==
    /\ thread[t] = "issue"
    /\ \/ /\ TransfersAtOnce(Op(t, offset[t]), FileObject)
          /\ thread' = [Woken EXCEPT ![t] = "take"]
          /\ UNCHANGED <<pending, success>>
       \/ /\ Pending(Op(t, offset[t]), FileObject) /\ GoTo(t, "result")
          /\ pending' = [pending EXCEPT ![t] = TRUE] /\ UNCHANGED success
       \/ /\ "start" \in Faults /\ success' = FALSE /\ GoTo(t, "exiting")
          /\ signalled' \in {signalled, signalled \ {FileObject}}
          /\ UNCHANGED <<pending, flight, done, lost, failures>>
    /\ UNCHANGED <<offset, total>>

\* GetOverlappedResult returns at once unless the OVERLAPPED is pending, and
\* else waits for the file handle, which any thread's completion sets.  The
\* OVERLAPPED of each pass of the loop is at the same address, so an operation
\* of an earlier pass ends the wait as well.
GetResult(t) ==
    /\ \/ thread[t] = "result" /\ ~pending[t] /\ GoTo(t, "take")
       \/ thread[t] = "result" /\ pending[t] /\ GoTo(t, "block")
       \/ thread[t] = "block" /\ FileObject \in signalled /\ GoTo(t, "take")
       \/ thread[t] = "block" /\ FileObject \notin signalled /\ GoTo(t, "waiting")
    /\ UNCHANGED <<offset, pending, total, success, kernelVars>>

\* The kernel cancels or awaits what an exiting thread has in flight.
ThreadExit(t) ==
    /\ thread[t] = "exiting" /\ \A o \in flight : o.who # t \/ o.test # "threads"
    /\ GoTo(t, "exited")
    /\ UNCHANGED <<offset, pending, total, success, kernelVars>>

ThreadProc(t) ==
    /\ test = "threads"
    /\ TakeOffset(t) \/ IssueByThread(t) \/ GetResult(t) \/ ThreadExit(t)
    /\ UNCHANGED mainVars

-----------------------------------------------------------------------------
(* TestAsyncIO.  What ReadFile and WriteFile return is ignored: a failure   *)
(* at once counts as a start, and the event of the slot stays as it is, or  *)
(* is cleared.                                                              *)

StartSlot(i) ==
    /\ \/ TransfersAtOnce(Op(i, total), i)
       \/ Pending(Op(i, total), i)
       \/ /\ "start" \in Faults
          /\ lost' = lost \cup {total} /\ signalled' \in {signalled, signalled \ {i}}
          /\ UNCHANGED <<flight, done, failures>>
    /\ total' = total + 1

FirstWave ==
    /\ pc = "loop"
    /\ IF nextBuffer < NumAsync
         THEN StartSlot(nextBuffer) /\ nextBuffer' = nextBuffer + 1 /\ UNCHANGED pc
         ELSE pc' = "wait" /\ UNCHANGED <<nextBuffer, total, kernelVars>>
    /\ UNCHANGED <<test, phase, handles, slot, threadVars>>

WaitForSlot_All ==
    /\ pc = "wait" /\ total < FileBlocks /\ Slots \subseteq signalled
    /\ slot' = 0 /\ signalled' = signalled \ Slots
    /\ pc' = "issue"
    /\ UNCHANGED <<test, phase, handles, nextBuffer, total,
                   threadVars, flight, done, lost, failures>>

WaitForSlot_Any ==
    /\ pc = "wait" /\ total < FileBlocks
    /\ \E i \in Slots : slot' = i /\ signalled' = signalled \ {i}
    /\ pc' = "issue"
    /\ UNCHANGED <<test, phase, handles, nextBuffer, total,
                   threadVars, flight, done, lost, failures>>

\* The first of the events that are set; it is reset.
WaitForSlot ==
    /\ pc = "wait" /\ total < FileBlocks
    /\ \E i \in Slots \cap signalled :
          /\ \A j \in Slots \cap signalled : i <= j
          /\ slot' = i /\ signalled' = signalled \ {i}
    /\ pc' = "issue"
    /\ UNCHANGED <<test, phase, handles, nextBuffer, total,
                   threadVars, flight, done, lost, failures>>

RestartSlot ==
    /\ pc = "issue"
    /\ StartSlot(slot) /\ pc' = "wait"
    /\ UNCHANGED <<test, phase, handles, nextBuffer, slot, threadVars>>

AsyncEnd_OffByOne ==
    /\ pc = "wait" /\ total >= FileBlocks - 1
    /\ pc' = "close"
    /\ UNCHANGED <<test, phase, handles, nextBuffer, slot, total, threadVars, kernelVars>>

\* The loop ends when the last block has been started.
AsyncEnd ==
    /\ pc = "wait" /\ total >= FileBlocks
    /\ pc' = "close"
    /\ UNCHANGED <<test, phase, handles, nextBuffer, slot, total, threadVars, kernelVars>>

-----------------------------------------------------------------------------
(* TestMemoryMappedIO *)

Map ==
    /\ pc \in {"map", "view"}
    /\ \/ /\ handles' = handles \cup {IF pc = "map" THEN "mapping" ELSE "view"}
          /\ pc' = IF pc = "map" THEN "view" ELSE "loop"
          /\ UNCHANGED <<test, phase, nextBuffer, slot, total, threadVars, kernelVars>>
       \/ "create" \in Faults /\ ReturnError

CopyView ==
    /\ pc = "loop"
    /\ done' = Blocks /\ pc' = "close"
    /\ UNCHANGED <<test, phase, handles, nextBuffer, slot, total,
                   threadVars, flight, signalled, lost, failures>>

-----------------------------------------------------------------------------
(* The kernel *)

\* The object that the completion of an operation sets.
Object(o) == IF o.test = "threads" THEN FileObject ELSE o.who

Cancelled(o) == o.test = "threads" /\ test = "threads" /\ thread[o.who] = "exiting"

\* An operation ends.  It wakes the threads that wait for the handle; when the
\* function that started it has returned, so that its buffer is freed, the
\* process may crash.
Complete(o) ==
    /\ test \notin Ended
    /\ flight' = flight \ {o}
    /\ signalled' = IF o.test = test THEN signalled \cup {Object(o)} ELSE signalled
    /\ \/ /\ done' = IF o.test = test /\ o.phase = phase THEN done \cup {o.block} ELSE done
          /\ UNCHANGED <<lost, failures>>
       \/ /\ failures < MaxFailures \/ Cancelled(o)
          /\ failures' = IF Cancelled(o) THEN failures ELSE failures + 1
          /\ lost' = IF o.test = test /\ o.phase = phase THEN lost \cup {o.block} ELSE lost
          /\ UNCHANGED done
    /\ thread' = IF o.test = "threads" THEN Woken ELSE thread
    /\ pending' = [t \in Threads |-> pending[t] /\ ~(o.test = "threads" /\ o.who = t)]
    /\ \/ UNCHANGED <<test, pc>>
       \/ o.test # test /\ test' = "crashed" /\ pc' = "crashed"
    /\ UNCHANGED <<phase, handles, nextBuffer, slot, total, offset, success>>

-----------------------------------------------------------------------------
Common == Begin \/ OpenFile \/ CloseFile

TestBlockingIO == test = "blocking" /\ (Common \/ BlockingTransfer \/ SequentialEnd)
TestInterruptDrivenIO ==
    test = "interrupt" /\ (Common \/ InterruptStart \/ InterruptWait \/ SequentialEnd)
TestMultithreadedIO == test = "threads" /\ (Common \/ CreateThread \/ JoinThreads)
TestAsyncIO ==
    test = "async" /\ (Common \/ FirstWave \/ WaitForSlot \/ RestartSlot \/ AsyncEnd)
TestMemoryMappedIO == test = "mapped" /\ (Common \/ Map \/ CopyView)

Main == \/ TestBlockingIO \/ TestInterruptDrivenIO \/ TestMultithreadedIO
        \/ TestAsyncIO \/ TestMemoryMappedIO

\* TestAsyncIO waits for events of which none will ever be set: all its slots
\* are lost, each to an operation that could not be started.
Starved ==
    /\ test = "async" /\ pc = "wait" /\ total < FileBlocks
    /\ Slots \cap signalled = {} /\ \A o \in flight : o.test # "async"
    /\ Cardinality(lost) >= NumAsync

\* TestMultithreadedIO waits for a thread that missed the completion of its own
\* operation, because a start that failed has cleared the handle in between,
\* and nobody is left to complete another.
Stranded ==
    /\ test = "threads" /\ pc = "join" /\ ~success /\ FileObject \notin signalled
    /\ \A o \in flight : o.test # "threads"
    /\ \A t \in Threads : thread[t] \in {"waiting", "exited"}
    /\ \E t \in Threads : thread[t] = "waiting"

Finished == (test \in Ended \/ Starved \/ Stranded) /\ UNCHANGED vars

Next == \/ Main \/ (\E t \in Threads : ThreadProc(t))
        \/ (\E o \in flight : Complete(o))
        \/ Finished

Spec == Init /\ [][Next]_vars

\* main and the threads run, and the kernel completes operations.
FairSpec ==
    /\ Spec /\ WF_vars(Main)
    /\ \A t \in Threads : WF_vars(ThreadProc(t))
    /\ WF_vars(\E o \in flight : Complete(o))

-----------------------------------------------------------------------------
(* Properties. *)

Ops == LET of(name, who) == [test : {name}, phase : {"write", "read"}, who : who, block : Blocks]
       IN  of("interrupt", {Single}) \cup of("threads", Threads) \cup of("async", Slots)

TypeOK ==
    /\ test \in {"blocking", "interrupt", "threads", "async", "mapped"} \cup Ended
    /\ phase \in {"write", "read"}
    /\ pc \in {"begin", "open", "loop", "wait", "issue", "join", "map", "view", "close", "crashed"}
    /\ handles \subseteq {"file", "event", "events", "mapping", "view"}
    /\ total \in Nat /\ nextBuffer \in Nat /\ slot \in Slots
    /\ thread \in [Threads -> {"none", "take", "issue", "result", "block", "waiting",
                               "exiting", "exited"}]
    /\ offset \in [Threads -> Nat]
    /\ pending \in [Threads -> BOOLEAN] /\ success \in BOOLEAN
    /\ flight \subseteq Ops
    /\ signalled \subseteq {FileObject, Single} \cup Slots
    /\ done \subseteq Blocks /\ lost \subseteq Blocks /\ failures \in 0 .. MaxFailures

Current == {o \in flight : o.test = test /\ o.phase = phase}

\* No block is given to two operations: not to two threads that take an offset
\* at the same time, nor again after it has been transferred.
BlockOnce ==
    \A o \in Current :
        /\ o.block \notin done \cup lost
        /\ \A p \in Current : p.block = o.block => p = o

\* A phase that ends well has tried to transfer every block, and what is neither
\* transferred nor in flight has failed.  (The interrupt test takes a failed
\* read for the end of the file.)
NothingForgotten ==
    pc = "close" /\ (test = "interrupt" => lost = {}) =>
        Blocks = done \cup lost \cup {o.block : o \in Current}

\* What the sequential tests count as transferred is transferred, and nothing
\* is in flight when they go on, through stale events and repeated writes.
CountedIsDone ==
    test \in {"blocking", "interrupt"} /\ pc \in {"loop", "close"} =>
        flight = {} /\ done = 0 .. total - 1

\* While it writes, the asynchronous test has one operation per buffer in
\* flight: it never overwrites a buffer the kernel still reads.
OneOpPerBuffer ==
    test = "async" /\ phase = "write" =>
        \A o, p \in flight : o.who = p.who => o = p

\* Every path out of a test, the error returns included, closes what it opened.
HandlesClosed == pc = "begin" => handles = {}

\* The only ways to wait for ever are two, each after a start that failed at
\* once: the asynchronous test once it has lost every one of its slots, and the
\* multithreaded one when the failed start has cleared the handle a thread is
\* about to wait for.  Otherwise no completion is missed by all who wait for it.
Termination == <>(test \in Ended \/ Starved \/ Stranded)

\* What main and a thread wait for: an event, the threads, the file handle.
MainWaits ==
    \/ test = "interrupt" /\ pc = "wait" /\ Single \notin signalled
    \/ test = "threads" /\ pc = "join" /\ \E t \in Threads : thread[t] # "exited"
    \/ test = "async" /\ pc = "wait" /\ total < FileBlocks /\ Slots \cap signalled = {}
ThreadWaits(t) ==
    \/ thread[t] = "waiting"
    \/ thread[t] = "exiting" /\ \E o \in flight : o.who = t /\ o.test = "threads"

\* While main waits, a thread can run or the kernel has an operation whose
\* completion is still to come, but for a test that starves or is stranded.
NoLostCompletion ==
    MainWaits /\ (test = "threads" => \A t \in Threads : thread[t] # "exited" => ThreadWaits(t))
        => Starved \/ Stranded \/ \E o \in flight : o.test = test

\* After the last block has been started the asynchronous test waits for the
\* operations that remain before it closes the file.
FinalWait == test = "async" /\ pc = "close" => flight = {}
=============================================================================
