------------------------- MODULE OverlappedIOProofs -------------------------
(***************************************************************************)
(* Proofs about OverlappedIO, for every size of the file and every number  *)
(* of slots and threads.                                                   *)
(***************************************************************************)
EXTENDS OverlappedIO, FiniteSetTheorems, TLAPS

\* The points each test passes.
PcInv ==
    /\ test = "blocking" => pc \in {"begin", "open", "loop", "close"}
    /\ test = "interrupt" => pc \in {"begin", "open", "loop", "wait", "close"}
    /\ test = "threads" => pc \in {"begin", "open", "loop", "join", "close"}
    /\ test = "async" => pc \in {"begin", "open", "loop", "wait", "issue", "close"}
    /\ test = "mapped" => pc \in {"begin", "open", "map", "view", "loop", "close"}
    /\ test = "finished" => pc = "begin"
    /\ test = "crashed" => pc = "crashed"

HandleInv ==
    /\ pc = "begin" => handles = {}
    /\ test \notin Ended => handles \subseteq {"file", "mapping", "view"} \cup Events
    /\ "view" \in handles /\ test \notin Ended => test = "mapped" /\ pc \in {"loop", "close"}

\* Only the asynchronous test leaves operations to what comes after it.
FlightInv ==
    /\ \A o \in flight : \/ o.test = test
                         \/ o.test = "async" /\ test \in {"mapped", "finished", "crashed"}
    /\ phase = "write" => \A o \in flight : o.test = test => o.phase = "write"
    /\ pc \in {"begin", "open"} => Current = {}

Started(b) == b \in done \/ b \in lost \/ \E o \in Current : o.block = b

\* What a test has started is below its total, each block once.
StartedInv ==
    /\ \A o \in Current : o.block < total /\ o.block \notin done \cup lost
    /\ \A o, p \in Current : o.block = p.block => o = p
    /\ \A b \in done \cup lost : b < total

\* The sequential tests.
SequentialInv ==
    test \in {"blocking", "interrupt"} =>
        /\ pc # "wait" => flight = {}
        /\ pc \in {"loop", "close"} =>
              total <= FileBlocks /\ done = 0 .. total - 1 /\ lost \subseteq {total}
        /\ test = "blocking" /\ pc \in {"loop", "close"} => lost = {}
        /\ pc = "close" => total = FileBlocks \/ lost = {total}
        /\ pc = "wait" =>
              /\ total < FileBlocks
              /\ \/ /\ flight = {Op(Single, total)} /\ Single \notin signalled
                    /\ done = 0 .. total - 1 /\ lost = {}
                 \/ flight = {} /\ done = 0 .. total /\ lost = {}
                 \/ flight = {} /\ done = 0 .. total - 1 /\ lost = {total}

\* The threads: a block that was taken is about to be started by one thread,
\* or has been started, or its thread has given up.
Taken(b) == \E t \in Threads : thread[t] = "issue" /\ offset[t] = b

ThreadInv ==
    test = "threads" =>
        /\ pc \in {"begin", "open", "close"} => \A t \in Threads : thread[t] \in {"none", "exited"}
        /\ pc = "loop" => \A t \in Threads : t >= nextBuffer => thread[t] = "none"
        /\ \A o \in flight : thread[o.who] \notin {"none", "exited"} /\ o.phase = phase
        /\ pc \in {"loop", "join", "close"} =>
              /\ StartedInv
              /\ \A t \in Threads : thread[t] = "issue" =>
                    /\ offset[t] < total /\ offset[t] < FileBlocks /\ ~Started(offset[t])
                    /\ \A u \in Threads : thread[u] = "issue" /\ offset[u] = offset[t] => u = t
              /\ success => \A b \in Blocks : b < total => Started(b) \/ Taken(b)
              /\ success => \A t \in Threads : thread[t] \in {"exiting", "exited"} => total >= FileBlocks
        /\ pc = "close" => success /\ \A t \in Threads : thread[t] = "exited"

\* The asynchronous test.
SlotInv ==
    /\ \A o, p \in flight : o.who = p.who => o = p
    /\ \A o \in flight : o.who \notin signalled
    /\ pc = "loop" => \A o \in flight : o.who < nextBuffer
    /\ pc = "issue" => \A o \in flight : o.who # slot

AsyncInv ==
    test = "async" =>
        /\ pc \notin {"begin", "open"} =>
              /\ total <= FileBlocks /\ StartedInv
              /\ \A b \in Blocks : b < total => Started(b)
        /\ pc = "loop" => total = nextBuffer /\ nextBuffer <= NumAsync
        /\ pc = "issue" => total < FileBlocks
        /\ pc = "close" => total = FileBlocks
        /\ phase = "write" => SlotInv

MappedInv == test = "mapped" /\ pc = "close" => done = Blocks

IInv == /\ TypeOK /\ PcInv /\ HandleInv /\ FlightInv
        /\ SequentialInv /\ ThreadInv /\ AsyncInv /\ MappedInv

-----------------------------------------------------------------------------
LEMMA OpFields == TypeOK =>
    \A o \in flight : /\ o.test \in {"interrupt", "threads", "async"} /\ o.phase \in {"write", "read"}
                      /\ o.test = "interrupt" => o.who = Single
                      /\ o.test = "threads" => o.who \in Threads
                      /\ o.test = "async" => o.who \in Slots
                      /\ o.block \in Blocks
                      /\ o = [test |-> o.test, phase |-> o.phase, who |-> o.who, block |-> o.block]
BY DEF TypeOK, Ops

LEMMA InitIInv == Init => IInv
<1> SUFFICES ASSUME Init PROVE IInv OBVIOUS
<1> USE IOAssumption DEF Init
<1>1. TypeOK BY DEF TypeOK, Idle, Slots, Ended
<1>2. PcInv /\ HandleInv BY DEF PcInv, HandleInv
<1>3. FlightInv BY DEF FlightInv, Current
<1>4. SequentialInv BY DEF SequentialInv
<1>5. ThreadInv /\ AsyncInv /\ MappedInv BY DEF ThreadInv, AsyncInv, MappedInv
<1> QED BY <1>1, <1>2, <1>3, <1>4, <1>5 DEF IInv

\* A function returns to main with nothing in flight, or it is TestAsyncIO or
\* the one after it.
Leaves == flight = {} \/ test \in {"async", "mapped"}

LEMMA ReturnStep == ASSUME IInv, test \notin Ended, Return, handles' = {}, Leaves PROVE IInv'
<1> USE DEF Return
<1>1. TypeOK /\ FlightInv BY DEF IInv
<1>2. test' \in {"interrupt", "threads", "async", "mapped", "finished"}
  BY <1>1 DEF TypeOK, Ended, NextTest
<1>3. TypeOK'
  <2>1. 0 \in Slots BY IOAssumption DEF Slots
  <2>2. flight' \subseteq Ops BY <1>1 DEF TypeOK
  <2> QED BY <1>1, <1>2, <2>1, <2>2 DEF TypeOK, Idle, Ended
<1>4. PcInv' /\ HandleInv' BY <1>2 DEF PcInv, HandleInv
<1>5. \A o \in flight : o.test = "async" /\ test' \in {"mapped", "finished"}
  <2>1. CASE test = "async" BY <1>1, <2>1 DEF FlightInv, NextTest
  <2>2. CASE test = "mapped" BY <1>1, <2>2, OpFields DEF FlightInv, NextTest
  <2> QED BY <2>1, <2>2 DEF Leaves
<1>6. FlightInv' BY <1>2, <1>5 DEF FlightInv, Current
<1>7. SequentialInv' BY <1>2, <1>5 DEF SequentialInv
<1>8. ThreadInv' BY <1>2, <1>5 DEF ThreadInv, Idle
<1>9. AsyncInv'
  <2>1. test' = "async" => flight' = {} BY <1>5
  <2> QED BY <1>2, <2>1 DEF AsyncInv, SlotInv
<1>10. MappedInv' BY DEF MappedInv
<1> QED BY <1>3, <1>4, <1>6, <1>7, <1>8, <1>9, <1>10 DEF IInv

LEMMA ErrorStep == ASSUME IInv, test \notin Ended, ReturnError, Leaves,
                          "view" \notin handles
                   PROVE  IInv'
<1>1. handles' = {} BY DEF IInv, HandleInv, ReturnError
<1> QED BY <1>1, ReturnStep DEF ReturnError

-----------------------------------------------------------------------------
LEMMA BeginStep == ASSUME IInv, test \notin Ended, Begin PROVE IInv'
<1> USE DEF IInv, Begin
<1>1. CASE pc' = "open"
  <2> USE <1>1
  <2>1. UNCHANGED <<test, phase, total, nextBuffer, slot, threadVars, kernelVars>>
        /\ handles' = handles \cup Events /\ pc = "begin"
    BY DEF ReturnError, Return
  <2> USE <2>1 DEF threadVars, kernelVars
  <2>2. TypeOK' BY DEF TypeOK, Events
  <2>3. PcInv' BY DEF PcInv, TypeOK, Ended
  <2>4. HandleInv' BY DEF HandleInv, Events
  <2>5. FlightInv' BY DEF FlightInv, Current
  <2>6. SequentialInv' BY DEF SequentialInv
  <2>7. ThreadInv' BY DEF ThreadInv
  <2>8. AsyncInv' BY DEF AsyncInv, SlotInv
  <2>9. MappedInv' BY DEF MappedInv
  <2> QED BY <2>2, <2>3, <2>4, <2>5, <2>6, <2>7, <2>8, <2>9
<1>2. CASE test = "interrupt" /\ ReturnError
  <2>1. Leaves BY <1>2 DEF SequentialInv, Leaves
  <2>2. "view" \notin handles BY <1>2 DEF HandleInv, Ended
  <2> QED BY <1>2, <2>1, <2>2, ErrorStep
<1> QED BY <1>1, <1>2

\* The two ways out of a test in which nothing is in flight.
LEMMA NothingInFlight == ASSUME IInv, test \in {"blocking", "interrupt", "threads"},
                                pc \in {"begin", "open", "close"}
                         PROVE  flight = {}
<1>1. CASE test = "threads"
  <2>1. \A o \in flight : o.test = "threads" BY <1>1 DEF IInv, FlightInv
  <2>2. \A o \in flight : o.who \in Threads BY <2>1, OpFields DEF IInv
  <2> QED BY <1>1, <2>2 DEF IInv, ThreadInv
<1> QED BY <1>1 DEF IInv, SequentialInv

LEMMA OpenStep == ASSUME IInv, test \notin Ended, OpenFile PROVE IInv'
<1> USE DEF IInv, OpenFile
<1>0. Leaves
  <2>1. test \in {"blocking", "interrupt", "threads"} => flight = {} BY NothingInFlight
  <2> QED BY <2>1 DEF Leaves, TypeOK, Ended
<1>1. CASE handles' = handles \cup {"file"} /\ test' = test
  <2>1. /\ pc = "open" /\ pc' = IF test = "mapped" THEN "map" ELSE "loop"
        /\ total' = 0 /\ nextBuffer' = 0 /\ done' = {} /\ lost' = {}
        /\ signalled' = signalled \ {FileObject}
        /\ thread' = Idle /\ success' = TRUE
        /\ UNCHANGED <<test, phase, slot, offset, pending, flight, failures>>
    BY <1>1 DEF ReturnError, Return, NextTest, TypeOK, Ended
  <2> USE <1>1, <2>1
  <2>2. TypeOK' BY DEF TypeOK, Idle
  <2>3. PcInv' BY DEF PcInv, TypeOK, Ended
  <2>4. HandleInv' BY DEF HandleInv, Events
  <2>5. Current = {} /\ Current' = {} /\ FlightInv' BY DEF FlightInv, Current
  <2>6. SequentialInv'
    <3>1. test \in {"blocking", "interrupt"} => flight' = {} BY NothingInFlight
    <3>2. {} = 0 .. -1 /\ 0 - 1 = -1 /\ FileBlocks >= 0 BY IOAssumption
    <3> QED BY <3>1, <3>2 DEF SequentialInv
  <2>7. ThreadInv'
    <3>1. test = "threads" => flight' = {} BY NothingInFlight
    <3>2. \A t \in Threads : thread'[t] = "none" BY DEF Idle
    <3>3. StartedInv' BY <2>5 DEF StartedInv
    <3>4. \A b \in Blocks : ~(b < 0) BY IOAssumption DEF Blocks
    <3> QED BY <3>1, <3>2, <3>3, <3>4 DEF ThreadInv
  <2>8. AsyncInv'
    <3>1. \A b \in Blocks : ~(b < 0) BY IOAssumption DEF Blocks
    <3>2. StartedInv' BY <2>5 DEF StartedInv
    <3>3. test = "async" /\ phase = "write" => flight = {}
      BY <2>5 DEF FlightInv, Current
    <3> QED BY <3>1, <3>2, <3>3, IOAssumption DEF AsyncInv, SlotInv
  <2>9. MappedInv' BY DEF MappedInv
  <2> QED BY <2>2, <2>3, <2>4, <2>5, <2>6, <2>7, <2>8, <2>9
<1>2. CASE ReturnError
  <2>1. "view" \notin handles BY DEF HandleInv, Ended
  <2> QED BY <1>0, <1>2, <2>1, ErrorStep
<1> QED BY <1>1, <1>2

LEMMA CloseStep == ASSUME IInv, test \notin Ended, CloseFile PROVE IInv'
<1> USE DEF IInv, CloseFile
<1>0. Leaves
  <2>1. test \in {"blocking", "interrupt", "threads"} => flight = {} BY NothingInFlight
  <2> QED BY <2>1 DEF Leaves, TypeOK, Ended
<1>1. CASE phase = "write"
  <2>1. /\ pc = "close" /\ pc' = "open" /\ phase' = "read"
        /\ handles' = handles \ {"file", "mapping", "view"}
        /\ UNCHANGED <<test, total, nextBuffer, slot, threadVars, kernelVars>>
    BY <1>1
  <2> USE <1>1, <2>1 DEF threadVars, kernelVars
  <2>2. TypeOK' BY DEF TypeOK
  <2>3. PcInv' BY DEF PcInv, TypeOK, Ended
  <2>4. HandleInv' BY DEF HandleInv, Events
  <2>5. \A o \in flight : o.test = test => o.phase = "write"
    BY DEF FlightInv, Current
  <2>6. Current' = {} BY <2>5 DEF Current
  <2>7. FlightInv' BY <2>6 DEF FlightInv
  <2>8. SequentialInv' BY NothingInFlight DEF SequentialInv
  <2>9. ThreadInv'
    <3>1. test = "threads" => flight = {} BY NothingInFlight
    <3> QED BY <3>1 DEF ThreadInv
  <2>10. AsyncInv' /\ MappedInv' BY DEF AsyncInv, MappedInv
  <2> QED BY <2>2, <2>3, <2>4, <2>7, <2>8, <2>9, <2>10
<1>2. CASE phase # "write"
  <2>1. handles' = {} BY <1>2 DEF HandleInv
  <2> QED BY <1>0, <1>2, <2>1, ReturnStep
<1> QED BY <1>1, <1>2

LEMMA CommonStep == ASSUME IInv, test \notin Ended, Common PROVE IInv'
BY BeginStep, OpenStep, CloseStep DEF Common

-----------------------------------------------------------------------------
(* The sequential tests. *)

LEMMA BlockingStep == ASSUME IInv, test = "blocking", BlockingTransfer PROVE IInv'
<1> USE DEF IInv
<1>1. /\ pc = "loop" /\ flight = {} /\ total < FileBlocks /\ total \in Nat
      /\ done = 0 .. total - 1 /\ lost = {}
  BY DEF BlockingTransfer, SequentialInv, TypeOK
<1>2. CASE /\ total' = total + 1 /\ done' = done \cup {total}
           /\ UNCHANGED <<mainVars, threadVars, flight, signalled, lost, failures>>
  <2> USE <1>1, <1>2 DEF mainVars, threadVars
  <2>1. total \in Blocks BY IOAssumption DEF Blocks
  <2>2. TypeOK' BY <2>1 DEF TypeOK
  <2>3. PcInv' /\ HandleInv' BY DEF PcInv, HandleInv, Events
  <2>4. FlightInv' BY DEF FlightInv, Current
  <2>5. SequentialInv'
    <3>1. done' = 0 .. total' - 1 BY <1>1, <1>2
    <3>2. total' <= FileBlocks BY <1>1, <1>2, IOAssumption
    <3> QED BY <3>1, <3>2 DEF SequentialInv
  <2> QED BY <2>2, <2>3, <2>4, <2>5 DEF ThreadInv, AsyncInv, MappedInv
<1>3. CASE ReturnError
  <2>1. Leaves /\ test \notin Ended /\ "view" \notin handles
    BY <1>1 DEF Leaves, Ended, HandleInv
  <2> QED BY <1>3, <2>1, ErrorStep
<1> QED BY <1>2, <1>3 DEF BlockingTransfer

LEMMA InterruptStartStep == ASSUME IInv, test = "interrupt", InterruptStart PROVE IInv'
<1> USE DEF IInv
<1>1. /\ pc = "loop" /\ flight = {} /\ total < FileBlocks /\ total \in Nat
      /\ done = 0 .. total - 1 /\ lost \subseteq {total}
  BY DEF InterruptStart, SequentialInv, TypeOK
<1>2. total \in Blocks /\ FileBlocks \in Nat BY <1>1, IOAssumption DEF Blocks
<1>3. CASE /\ TransfersAtOnce(Op(Single, total), Single) /\ total' = total + 1
           /\ UNCHANGED <<mainVars, threadVars>>
  <2>1. /\ done' = done \cup {total} /\ signalled' = signalled \cup {Single}
        /\ lost' = lost \ {total} /\ UNCHANGED <<flight, failures>>
    BY <1>3 DEF TransfersAtOnce, Op
  <2> USE <1>1, <1>2, <1>3, <2>1 DEF mainVars, threadVars
  <2>2. TypeOK' BY DEF TypeOK
  <2>3. PcInv' /\ HandleInv' BY DEF PcInv, HandleInv, Events
  <2>4. FlightInv' BY DEF FlightInv, Current
  <2>5. SequentialInv'
    <3>1. done' = 0 .. total' - 1 BY <1>1, <1>3, <2>1
    <3>2. total' <= FileBlocks BY <1>1, <1>2, <1>3
    <3>3. lost' = {} BY <1>1, <2>1
    <3> QED BY <3>1, <3>2, <3>3 DEF SequentialInv
  <2> QED BY <2>2, <2>3, <2>4, <2>5 DEF ThreadInv, AsyncInv, MappedInv
<1>4. CASE /\ Pending(Op(Single, total), Single) /\ pc' = "wait"
           /\ UNCHANGED <<test, phase, handles, nextBuffer, slot, total, threadVars>>
  <2>1. /\ flight' = {Op(Single, total)} /\ signalled' = signalled \ {Single}
        /\ lost' = {} /\ UNCHANGED <<done, failures>>
    BY <1>1, <1>4 DEF Pending, Op
  <2>2. Op(Single, total) \in Ops BY <1>2 DEF Op, Ops, TypeOK
  <2>3. Op(Single, total)' = Op(Single, total) BY <1>4 DEF Op
  <2> USE <1>1, <1>2, <1>4, <2>1 DEF threadVars
  <2>4. TypeOK' BY <2>2 DEF TypeOK
  <2>5. PcInv' /\ HandleInv' BY DEF PcInv, HandleInv, Events, Ended
  <2>6. FlightInv' BY DEF FlightInv, Current, Op
  <2>7. SequentialInv' BY <2>3 DEF SequentialInv
  <2> QED BY <2>4, <2>5, <2>6, <2>7 DEF ThreadInv, AsyncInv, MappedInv
<1>5. CASE ReturnError
  <2>1. Leaves /\ test \notin Ended /\ "view" \notin handles
    BY <1>1 DEF Leaves, Ended, HandleInv
  <2> QED BY <1>5, <2>1, ErrorStep
<1> QED BY <1>3, <1>4, <1>5 DEF InterruptStart

LEMMA InterruptWaitStep == ASSUME IInv, test = "interrupt", InterruptWait PROVE IInv'
<1> USE DEF IInv
<1>1. /\ pc = "wait" /\ total < FileBlocks /\ total \in Nat /\ FileBlocks \in Nat
      /\ flight = {}
      /\ \/ done = 0 .. total /\ lost = {}
         \/ done = 0 .. total - 1 /\ lost = {total}
  BY IOAssumption DEF InterruptWait, SequentialInv, TypeOK
<1>2. /\ signalled' = signalled \ {Single}
      /\ total' = IF total \in done THEN total + 1 ELSE total
      /\ pc' = IF total \in done \/ phase = "write" THEN "loop" ELSE "close"
      /\ UNCHANGED <<test, phase, handles, nextBuffer, slot,
                     threadVars, flight, done, lost, failures>>
  BY DEF InterruptWait
<1> USE <1>2 DEF threadVars
<1>3. TypeOK' BY <1>1 DEF TypeOK
<1>4. PcInv' /\ HandleInv' BY <1>1 DEF PcInv, HandleInv, Events, Ended
<1>5. FlightInv' BY <1>1 DEF FlightInv, Current
<1>6. SequentialInv'
  <2>1. CASE done = 0 .. total /\ lost = {}
    <3>1. total \in done BY <1>1, <2>1
    <3>2. total' = total + 1 /\ pc' = "loop" BY <3>1
    <3>3. done' = 0 .. total' - 1 /\ total' <= FileBlocks BY <1>1, <2>1, <3>2
    <3> QED BY <1>1, <2>1, <3>2, <3>3 DEF SequentialInv
  <2>2. CASE done = 0 .. total - 1 /\ lost = {total}
    <3>1. total \notin done BY <1>1, <2>2
    <3> QED BY <1>1, <2>2, <3>1 DEF SequentialInv
  <2> QED BY <1>1, <2>1, <2>2
<1> QED BY <1>3, <1>4, <1>5, <1>6 DEF ThreadInv, AsyncInv, MappedInv

LEMMA SequentialEndStep == ASSUME IInv, test \in {"blocking", "interrupt"}, SequentialEnd
                           PROVE  IInv'
<1> USE DEF IInv, SequentialEnd, threadVars, kernelVars
<1>1. TypeOK' BY DEF TypeOK
<1>2. PcInv' /\ HandleInv' BY DEF PcInv, HandleInv, Events, Ended
<1>3. FlightInv' BY DEF FlightInv, Current
<1>4. total = FileBlocks BY IOAssumption DEF TypeOK, SequentialInv
<1>5. SequentialInv' BY <1>4 DEF SequentialInv
<1> QED BY <1>1, <1>2, <1>3, <1>5 DEF ThreadInv, AsyncInv, MappedInv

-----------------------------------------------------------------------------
(* The threads. *)

\* While a thread runs, main creates threads or waits for them.
LEMMA WhileRunning == ASSUME IInv, test = "threads", NEW t \in Threads,
                             thread[t] \notin {"none", "exited"}
                      PROVE  /\ pc \in {"loop", "join"}
                             /\ \A o \in flight : o.test = "threads" /\ o.phase = phase /\ o \in Current
                             /\ StartedInv /\ total \in Nat /\ FileBlocks \in Nat
                             /\ \A u \in Threads : offset[u] \in Nat
BY IOAssumption DEF IInv, PcInv, ThreadInv, FlightInv, Current, TypeOK

LEMMA CreateThreadStep == ASSUME IInv, test = "threads", CreateThread PROVE IInv'
<1> USE DEF IInv, CreateThread, kernelVars
<1>1. /\ pc = "loop" /\ UNCHANGED <<test, phase, handles, slot, total, offset, pending, success,
                                    flight, signalled, done, lost, failures>>
      /\ nextBuffer \in Nat
  BY DEF TypeOK
<1>2. CASE nextBuffer < NumThreads
  <2>1. nextBuffer \in Threads BY <1>1, <1>2, IOAssumption DEF Threads
  <2>2. pc' = pc /\ nextBuffer' = nextBuffer + 1
        /\ thread' = [thread EXCEPT ![nextBuffer] = "take"]
    BY <1>2
  <2>3. thread[nextBuffer] = "none" BY <1>1, <2>1 DEF ThreadInv
  <2>4. \A t \in Threads : \/ t = nextBuffer /\ thread'[t] = "take" /\ thread[t] = "none"
                           \/ t # nextBuffer /\ thread'[t] = thread[t]
    BY <2>1, <2>2, <2>3 DEF TypeOK
  <2>5. TypeOK' BY <1>1, <2>1, <2>2 DEF TypeOK
  <2>6. PcInv' /\ HandleInv' BY <1>1, <2>2 DEF PcInv, HandleInv, Events
  <2>7. FlightInv' BY <1>1, <2>2 DEF FlightInv, Current
  <2>8. ThreadInv'
    <3>1. \A t \in Threads : t >= nextBuffer' => thread'[t] = "none"
      <4>1. \A t \in Threads : t >= nextBuffer + 1 => t # nextBuffer /\ t >= nextBuffer
        BY <1>1 DEF Threads
      <4> QED BY <1>1, <2>2, <2>4, <4>1 DEF ThreadInv
    <3>2. \A o \in flight : o.who \in Threads BY OpFields DEF FlightInv, TypeOK
    <3>3. \A o \in flight : thread'[o.who] \notin {"none", "exited"} /\ o.phase = phase
      BY <2>4, <3>2 DEF ThreadInv
    <3>4. StartedInv' BY <1>1 DEF ThreadInv, StartedInv, Current
    <3>5. \A b : Started(b)' <=> Started(b) BY <1>1 DEF Started, Current
    <3>6. \A b : Taken(b)' <=> Taken(b) BY <1>1, <2>4 DEF Taken
    <3>7. pc' = "loop" BY <1>1, <2>2
    <3> QED BY <1>1, <2>4, <3>1, <3>3, <3>4, <3>5, <3>6, <3>7 DEF ThreadInv
  <2> QED BY <1>1, <2>5, <2>6, <2>7, <2>8 DEF SequentialInv, AsyncInv, MappedInv
<1>3. CASE ~(nextBuffer < NumThreads)
  <2>1. pc' = "join" /\ UNCHANGED <<thread, nextBuffer>> BY <1>3
  <2>2. TypeOK' BY <1>1, <2>1 DEF TypeOK
  <2>3. PcInv' /\ HandleInv' BY <1>1, <2>1 DEF PcInv, HandleInv, Events, Ended
  <2>4. FlightInv' BY <1>1, <2>1 DEF FlightInv, Current
  <2>5. ThreadInv' BY <1>1, <2>1 DEF ThreadInv, StartedInv, Started, Current, Taken
  <2> QED BY <1>1, <2>2, <2>3, <2>4, <2>5 DEF SequentialInv, AsyncInv, MappedInv
<1> QED BY <1>2, <1>3

LEMMA JoinStep == ASSUME IInv, test = "threads", JoinThreads PROVE IInv'
<1> USE DEF IInv, JoinThreads
<1>1. flight = {}
  <2>1. \A o \in flight : o.who \in Threads BY OpFields DEF FlightInv
  <2> QED BY <2>1 DEF ThreadInv
<1>2. CASE success
  <2>1. /\ pc = "join" /\ pc' = "close"
        /\ UNCHANGED <<test, phase, handles, nextBuffer, slot, total, threadVars, kernelVars>>
    BY <1>2
  <2> USE <2>1 DEF threadVars, kernelVars
  <2>2. TypeOK' BY DEF TypeOK
  <2>3. PcInv' /\ HandleInv' BY DEF PcInv, HandleInv, Events, Ended
  <2>4. FlightInv' BY DEF FlightInv, Current
  <2>5. ThreadInv' BY <1>2 DEF ThreadInv, StartedInv, Started, Current, Taken
  <2> QED BY <2>2, <2>3, <2>4, <2>5 DEF SequentialInv, AsyncInv, MappedInv
<1>3. CASE ReturnError
  <2>1. Leaves /\ test \notin Ended /\ "view" \notin handles
    BY <1>1 DEF Leaves, Ended, HandleInv
  <2> QED BY <1>3, <2>1, ErrorStep
<1> QED BY <1>2, <1>3

\* What a step of one thread leaves alone.
LEMMA ThreadFrame == ASSUME IInv, test = "threads", UNCHANGED mainVars,
                            pc \in {"loop", "join"}, TypeOK', FlightInv', ThreadInv'
                     PROVE  IInv'
<1> USE DEF IInv, mainVars
<1>1. PcInv' /\ HandleInv' BY DEF PcInv, HandleInv, Events
<1> QED BY <1>1 DEF SequentialInv, AsyncInv, MappedInv

LEMMA TakeStep == ASSUME IInv, test = "threads", NEW t \in Threads, TakeOffset(t),
                         UNCHANGED mainVars
                  PROVE  IInv'
<1> USE DEF IInv, TakeOffset, GoTo, mainVars, kernelVars
<1>1. /\ pc \in {"loop", "join"} /\ StartedInv /\ total \in Nat /\ FileBlocks \in Nat
      /\ \A u \in Threads : offset[u] \in Nat
  BY WhileRunning
<1>2. /\ thread[t] = "take" /\ offset'[t] = total /\ total' = total + 1
      /\ thread'[t] = IF total >= FileBlocks THEN "exiting" ELSE "issue"
      /\ \A u \in Threads : u # t => offset'[u] = offset[u] /\ thread'[u] = thread[u]
      /\ UNCHANGED <<pending, success, flight, signalled, done, lost, failures,
                     test, phase, pc, handles, nextBuffer, slot>>
  BY DEF TypeOK
<1>3. TypeOK' BY <1>1 DEF TypeOK
<1>4. FlightInv' BY <1>2 DEF FlightInv, Current
<1>5. \A b : Started(b)' <=> Started(b) BY <1>2 DEF Started, Current
<1>6. StartedInv'
  <2>1. Current' = Current BY <1>2 DEF Current
  <2>2. \A o \in Current : o.block \in Nat BY OpFields DEF Current, Blocks
  <2>3. \A b \in done \cup lost : b \in Nat BY DEF TypeOK, Blocks
  <2> QED BY <1>1, <1>2, <2>1, <2>2, <2>3 DEF StartedInv
<1>7. ~Started(total)
  BY <1>1 DEF StartedInv, Started
<1>8. \A u \in Threads : thread'[u] = "issue" =>
         /\ offset'[u] < total' /\ offset'[u] < FileBlocks /\ ~Started(offset'[u])
         /\ u # t => offset'[u] # total
  <2> SUFFICES ASSUME NEW u \in Threads, thread'[u] = "issue"
               PROVE  /\ offset'[u] < total' /\ offset'[u] < FileBlocks /\ ~Started(offset'[u])
                      /\ u # t => offset'[u] # total
    OBVIOUS
  <2>1. CASE u = t
    <3>1. ~(total >= FileBlocks) BY <1>2, <2>1
    <3> QED BY <1>1, <1>2, <1>7, <2>1, <3>1
  <2>2. CASE u # t
    <3>1. offset'[u] = offset[u] /\ thread[u] = "issue" BY <1>2, <2>2
    <3>2. offset[u] < total /\ offset[u] < FileBlocks /\ ~Started(offset[u])
      BY <1>1, <3>1 DEF ThreadInv
    <3> QED BY <1>1, <1>2, <3>1, <3>2
  <2> QED BY <2>1, <2>2
<1>9. \A u, v \in Threads : thread'[u] = "issue" /\ thread'[v] = "issue" /\ offset'[u] = offset'[v]
                                => u = v
  <2> SUFFICES ASSUME NEW u \in Threads, NEW v \in Threads, thread'[u] = "issue",
                      thread'[v] = "issue", offset'[u] = offset'[v]
               PROVE  u = v
    OBVIOUS
  <2>1. CASE u = t \/ v = t BY <1>2, <1>8, <2>1
  <2>2. CASE u # t /\ v # t
    BY <1>1, <1>2, <2>2 DEF ThreadInv
  <2> QED BY <2>1, <2>2
<1>10. success => \A b \in Blocks : b < total' => Started(b)' \/ Taken(b)'
  <2> SUFFICES ASSUME success, NEW b \in Blocks, b < total + 1
               PROVE  Started(b) \/ Taken(b)'
    BY <1>2, <1>5
  <2>1. b \in Nat /\ b < FileBlocks BY <1>1 DEF Blocks
  <2>2. CASE b = total
    <3>1. thread'[t] = "issue" BY <1>1, <1>2, <2>1, <2>2
    <3> QED BY <1>2, <2>2, <3>1 DEF Taken
  <2>3. CASE b < total
    <3>1. Started(b) \/ Taken(b) BY <1>1, <2>3 DEF ThreadInv
    <3>2. Taken(b) => Taken(b)' BY <1>2 DEF Taken
    <3> QED BY <3>1, <3>2
  <2> QED BY <1>1, <2>1, <2>2, <2>3
<1>11. success => \A u \in Threads : thread'[u] \in {"exiting", "exited"} => total' >= FileBlocks
  <2>1. total' >= total BY <1>1, <1>2
  <2>2. total >= FileBlocks => total' >= FileBlocks BY <1>1, <1>2
  <2> QED BY <1>1, <1>2, <2>2 DEF ThreadInv
<1>12. ThreadInv'
  <2>1. pc = "loop" => \A u \in Threads : u >= nextBuffer => thread'[u] = "none"
    BY <1>2 DEF ThreadInv
  <2>2. \A o \in flight : o.who \in Threads BY OpFields DEF FlightInv
  <2>3. \A o \in flight : thread'[o.who] \notin {"none", "exited"} /\ o.phase = phase
    BY <1>2, <2>2 DEF ThreadInv
  <2> QED BY <1>1, <1>2, <1>5, <1>6, <1>8, <1>9, <1>10, <1>11, <2>1, <2>3 DEF ThreadInv
<1> QED BY <1>1, <1>3, <1>4, <1>12, ThreadFrame

LEMMA IssueStep == ASSUME IInv, test = "threads", NEW t \in Threads, IssueByThread(t),
                          UNCHANGED mainVars
                   PROVE  IInv'
<1> USE DEF IInv, GoTo, mainVars
<1>0. /\ thread[t] = "issue" /\ UNCHANGED <<offset, total>> BY DEF IssueByThread
<1>1. /\ pc \in {"loop", "join"} /\ StartedInv /\ total \in Nat /\ FileBlocks \in Nat
      /\ \A u \in Threads : offset[u] \in Nat
      /\ \A o \in flight : o.test = "threads" /\ o.phase = phase /\ o \in Current
  BY <1>0, WhileRunning
<1> DEFINE block == offset[t]
<1>2. block < total /\ block < FileBlocks /\ ~Started(block) /\ block \in Nat
  BY <1>0, <1>1 DEF ThreadInv
<1>3. block \in Blocks BY <1>1, <1>2 DEF Blocks
<1>4. \A u \in Threads : thread[u] = "issue" /\ u # t => offset[u] # block
  BY <1>0, <1>1 DEF ThreadInv
<1>5. block \notin lost /\ block \notin done /\ \A o \in Current : o.block # block
  BY <1>2 DEF Started
<1>6. \A o \in flight : o.who \in Threads BY <1>1, OpFields
<1> HIDE DEF block
\* The thread and its block, from which the invariant of the threads follows.
<1>7. ASSUME thread'[t] \in {"take", "result"}, success' = success,
             \A u \in Threads : \/ u = t
                                \/ thread'[u] = thread[u]
                                \/ thread[u] = "waiting" /\ thread'[u] = "take",
             StartedInv', \A b : Started(b)' <=> Started(b) \/ b = block,
             \A o \in flight' : o \in flight \/ (o.who = t /\ o.phase = phase)
      PROVE  ThreadInv'
  <2>1. pc' = pc /\ test' = test /\ phase' = phase /\ nextBuffer' = nextBuffer
        /\ offset' = offset /\ total' = total
    BY <1>0
  <2>2. pc = "loop" => \A u \in Threads : u >= nextBuffer => thread'[u] = "none"
    BY <1>0, <1>7 DEF ThreadInv
  <2>3. \A o \in flight' : thread'[o.who] \notin {"none", "exited"} /\ o.phase = phase
    BY <1>1, <1>6, <1>7 DEF ThreadInv
  <2>4. \A u \in Threads : thread'[u] = "issue" =>
           /\ thread[u] = "issue" /\ u # t
           /\ offset[u] < total /\ offset[u] < FileBlocks /\ ~Started(offset[u])
           /\ offset[u] # block
    BY <1>1, <1>4, <1>7 DEF ThreadInv
  <2>5. \A u, v \in Threads : thread'[u] = "issue" /\ thread'[v] = "issue" /\ offset[u] = offset[v]
                                  => u = v
    BY <1>1, <2>4 DEF ThreadInv
  <2>6. success => \A b \in Blocks : b < total => Started(b)' \/ Taken(b)'
    <3> SUFFICES ASSUME success, NEW b \in Blocks, b < total, b # block, ~Started(b)
                 PROVE  Taken(b)'
      BY <1>7
    <3>1. Taken(b) BY <1>1 DEF ThreadInv
    <3>2. PICK u \in Threads : thread[u] = "issue" /\ offset[u] = b BY <3>1 DEF Taken
    <3>3. u # t BY <3>2 DEF block
    <3> QED BY <1>7, <2>1, <3>2, <3>3 DEF Taken
  <2>7. success => \A u \in Threads : thread'[u] \in {"exiting", "exited"} => total >= FileBlocks
    BY <1>1, <1>7 DEF ThreadInv
  <2> QED BY <1>1, <1>7, <2>1, <2>2, <2>3, <2>4, <2>5, <2>6, <2>7 DEF ThreadInv
<1>8. CASE TransfersAtOnce(Op(t, offset[t]), FileObject)
           /\ thread' = [Woken EXCEPT ![t] = "take"] /\ UNCHANGED <<pending, success>>
  <2>1. /\ done' = done \cup {block} /\ signalled' = signalled \cup {FileObject}
        /\ lost' = lost \ {block} /\ flight' = flight /\ failures' = failures
        /\ thread' = [Woken EXCEPT ![t] = "take"]
    BY <1>8 DEF TransfersAtOnce, Op, block
  <2>2. TypeOK' BY <1>0, <1>3, <1>8, <2>1 DEF TypeOK, Woken
  <2>3. FlightInv' BY <2>1 DEF FlightInv, Current
  <2>4. Current' = Current BY <2>1 DEF Current
  <2>5. StartedInv' BY <1>0, <1>1, <1>2, <1>5, <2>1, <2>4 DEF StartedInv
  <2>6. \A b : Started(b)' <=> Started(b) \/ b = block
    BY <1>5, <2>1, <2>4 DEF Started
  <2>7. /\ thread'[t] = "take"
        /\ \A u \in Threads : \/ u = t
                              \/ thread'[u] = thread[u]
                              \/ thread[u] = "waiting" /\ thread'[u] = "take"
    BY <2>1 DEF Woken
  <2>8. ThreadInv' BY <1>7, <1>8, <2>1, <2>5, <2>6, <2>7
  <2> QED BY <1>1, <2>2, <2>3, <2>8, ThreadFrame
<1>9. CASE Pending(Op(t, offset[t]), FileObject) /\ GoTo(t, "result")
           /\ pending' = [pending EXCEPT ![t] = TRUE] /\ UNCHANGED success
  <2> DEFINE op == Op(t, offset[t])
  <2>1. /\ op.test = "threads" /\ op.phase = phase /\ op.who = t /\ op.block = block
    BY DEF Op, block
  <2>2. op \in Ops BY <1>3 DEF Op, Ops, TypeOK, block
  <2>3. /\ flight' = flight \cup {op} /\ signalled' = signalled \ {FileObject}
        /\ lost' = lost \ {block} /\ done' = done /\ failures' = failures
        /\ thread' = [thread EXCEPT ![t] = "result"]
    BY <1>9, <2>1 DEF Pending
  <2> HIDE DEF op
  <2>4. TypeOK' BY <1>0, <1>9, <2>2, <2>3 DEF TypeOK
  <2>5. Current' = Current \cup {op} BY <2>1, <2>3 DEF Current
  <2>6. FlightInv' BY <1>1, <2>1, <2>3, <2>5 DEF FlightInv
  <2>7. StartedInv' BY <1>0, <1>1, <1>2, <1>5, <2>1, <2>3, <2>5 DEF StartedInv
  <2>8. \A b : Started(b)' <=> Started(b) \/ b = block
    BY <1>5, <2>1, <2>3, <2>5 DEF Started
  <2>9. thread'[t] = "result" /\ \A u \in Threads : u # t => thread'[u] = thread[u]
    BY <2>3 DEF TypeOK
  <2>10. ThreadInv' BY <1>7, <1>9, <2>1, <2>3, <2>7, <2>8, <2>9
  <2> QED BY <1>1, <2>4, <2>6, <2>10, ThreadFrame
<1>10. CASE /\ success' = FALSE /\ GoTo(t, "exiting")
            /\ signalled' \in {signalled, signalled \ {FileObject}}
            /\ UNCHANGED <<pending, flight, done, lost, failures>>
  <2>1. /\ thread' = [thread EXCEPT ![t] = "exiting"] /\ success' = FALSE
        /\ signalled' \subseteq signalled /\ UNCHANGED <<flight, done, lost, failures>>
    BY <1>10
  <2>2. thread'[t] = "exiting" /\ \A u \in Threads : u # t => thread'[u] = thread[u]
    BY <2>1 DEF TypeOK
  <2>3. TypeOK' BY <1>0, <1>10, <2>1 DEF TypeOK
  <2>4. FlightInv' BY <2>1 DEF FlightInv, Current
  <2>5. StartedInv' /\ \A b : Started(b)' <=> Started(b)
    BY <1>0, <1>1, <2>1 DEF StartedInv, Started, Current
  <2>6. ThreadInv'
    <3>1. pc = "loop" => \A u \in Threads : u >= nextBuffer => thread'[u] = "none"
      BY <1>0, <2>2 DEF ThreadInv
    <3>2. \A o \in flight : thread'[o.who] \notin {"none", "exited"} /\ o.phase = phase
      BY <1>6, <2>2 DEF ThreadInv
    <3>3. \A u \in Threads : thread'[u] = "issue" =>
             /\ offset[u] < total /\ offset[u] < FileBlocks /\ ~Started(offset[u])
             /\ \A v \in Threads : thread'[v] = "issue" /\ offset[v] = offset[u] => v = u
      BY <1>1, <2>2 DEF ThreadInv
    <3> QED BY <1>0, <1>1, <2>1, <2>5, <3>1, <3>2, <3>3 DEF ThreadInv
  <2> QED BY <1>1, <2>3, <2>4, <2>6, ThreadFrame
<1> QED BY <1>8, <1>9, <1>10 DEF IssueByThread

\* Steps that neither take a block nor start one.
LEMMA OtherThreadStep == ASSUME IInv, test = "threads", NEW t \in Threads,
                                GetResult(t) \/ ThreadExit(t), UNCHANGED mainVars
                         PROVE  IInv'
<1> USE DEF IInv, GoTo, mainVars, kernelVars
<1>1. /\ UNCHANGED <<offset, pending, total, success, flight, signalled, done, lost, failures>>
      /\ thread[t] \in {"result", "block", "exiting"}
      /\ \E where \in {"take", "block", "waiting", "exited"} :
            /\ thread' = [thread EXCEPT ![t] = where]
            /\ where = "exited" <=> thread[t] = "exiting"
      /\ thread[t] = "exiting" => \A o \in flight : o.who # t \/ o.test # "threads"
  BY DEF GetResult, ThreadExit
<1>2. /\ pc \in {"loop", "join"} /\ StartedInv
      /\ \A o \in flight : o.test = "threads" /\ o.phase = phase
  BY <1>1, WhileRunning
<1>3. /\ thread'[t] \in {"take", "block", "waiting", "exited"}
      /\ thread'[t] = "exited" <=> thread[t] = "exiting"
      /\ \A u \in Threads : u # t => thread'[u] = thread[u]
  BY <1>1 DEF TypeOK
<1>4. TypeOK' BY <1>1 DEF TypeOK
<1>5. FlightInv' BY <1>1 DEF FlightInv, Current
<1>6. StartedInv' /\ (\A b : Started(b)' <=> Started(b))
  BY <1>1, <1>2 DEF StartedInv, Started, Current
<1>7. \A b : Taken(b)' <=> Taken(b) BY <1>1, <1>3 DEF Taken
<1>8. ThreadInv'
  <2>1. pc = "loop" => \A u \in Threads : u >= nextBuffer => thread'[u] = "none"
    BY <1>1, <1>3 DEF ThreadInv
  <2>2. \A o \in flight : o.who \in Threads BY <1>2, OpFields
  <2>3. \A o \in flight : thread'[o.who] \notin {"none", "exited"} /\ o.phase = phase
    BY <1>1, <1>2, <1>3, <2>2 DEF ThreadInv
  <2>4. \A u \in Threads : thread'[u] = "issue" =>
           /\ offset[u] < total /\ offset[u] < FileBlocks /\ ~Started(offset[u])
           /\ \A v \in Threads : thread'[v] = "issue" /\ offset[v] = offset[u] => v = u
    BY <1>2, <1>3 DEF ThreadInv
  <2>5. success => \A u \in Threads : thread'[u] \in {"exiting", "exited"} => total >= FileBlocks
    BY <1>2, <1>3 DEF ThreadInv
  <2> QED BY <1>1, <1>2, <1>6, <1>7, <2>1, <2>3, <2>4, <2>5 DEF ThreadInv
<1> QED BY <1>2, <1>4, <1>5, <1>8, ThreadFrame

-----------------------------------------------------------------------------
(* The asynchronous test. *)

\* Started or not, the next block of the file counts as started; it takes the
\* slot, which was free if this is the writing phase.
LEMMA StartStep == ASSUME IInv, test = "async", pc \in {"loop", "issue"}, NEW i \in Slots,
                          total < FileBlocks, StartSlot(i), UNCHANGED <<test, phase>>,
                          phase = "write" => \A o \in flight : o.who # i
                   PROVE  /\ flight' \subseteq Ops /\ signalled' \subseteq {FileObject, Single} \cup Slots
                          /\ done' \subseteq Blocks /\ lost' \subseteq Blocks
                          /\ failures' = failures /\ total' = total + 1
                          /\ total' \in Nat /\ total' <= FileBlocks
                          /\ \A o \in flight' : o \in flight
                                                \/ (o.test = test /\ o.phase = phase /\ o.who = i)
                          /\ StartedInv' /\ \A b \in Blocks : b < total' => Started(b)'
                          /\ phase = "write" =>
                                /\ \A o, p \in flight' : o.who = p.who => o = p
                                /\ \A o \in flight' : o.who \notin signalled'
<1> DEFINE op == Op(i, total)
<1>1. /\ total \in Nat /\ FileBlocks \in Nat /\ total \in Blocks /\ total' = total + 1
      /\ total' <= FileBlocks
  BY IOAssumption DEF IInv, TypeOK, Blocks, StartSlot
<1>2. /\ StartedInv /\ \A b \in Blocks : b < total => Started(b)
      /\ phase = "write" => SlotInv
  BY DEF IInv, AsyncInv
<1>3. /\ flight \subseteq Ops /\ signalled \subseteq {FileObject, Single} \cup Slots
      /\ done \subseteq Blocks /\ lost \subseteq Blocks
      /\ \A o \in Current : o.block \in Nat
      /\ \A b \in done \cup lost : b \in Nat
  BY OpFields DEF IInv, TypeOK, Current, Blocks
<1>4. op.test = test /\ op.phase = phase /\ op.who = i /\ op.block = total BY DEF Op
<1>5. op \in Ops BY <1>1 DEF Op, Ops, IInv, TypeOK
<1>6. \A o \in Current : o.block < total /\ o.block # total BY <1>1, <1>2, <1>3 DEF StartedInv
<1>7. \A b \in done \cup lost : b < total /\ b # total BY <1>1, <1>2, <1>3 DEF StartedInv
<1>8. \A b \in Blocks : b < total' => b = total \/ b < total BY <1>1 DEF Blocks
<1> HIDE DEF op
<1>9. CASE Pending(op, i)
  <2>1. /\ flight' = flight \cup {op} /\ signalled' = signalled \ {i}
        /\ lost' = lost \ {total} /\ done' = done /\ failures' = failures
    BY <1>4, <1>9 DEF Pending
  <2>2. Current' = Current \cup {op} BY <1>4, <2>1 DEF Current
  <2>3. StartedInv' BY <1>1, <1>2, <1>3, <1>4, <1>6, <1>7, <2>1, <2>2 DEF StartedInv
  <2>4. \A b \in Blocks : b < total' => Started(b)'
    BY <1>2, <1>4, <1>7, <1>8, <2>1, <2>2 DEF Started
  <2>5. phase = "write" => /\ \A o, p \in flight' : o.who = p.who => o = p
                           /\ \A o \in flight' : o.who \notin signalled'
    BY <1>2, <1>4, <2>1 DEF SlotInv
  <2> QED BY <1>1, <1>3, <1>4, <1>5, <2>1, <2>3, <2>4, <2>5
<1>10. CASE flight' = flight /\ failures' = failures
            /\ signalled' \in {signalled, signalled \ {i}, signalled \cup {i}}
            /\ \/ done' = done \cup {total} /\ lost' = lost \ {total}
               \/ done' = done /\ lost' = lost \cup {total}
  <2>1. Current' = Current BY <1>10 DEF Current
  <2>2. StartedInv'
    <3>1. \A o \in Current : o.block < total'
      BY <1>1, <1>3, <1>6
    <3>2. \A o \in Current : o.block \notin done' \cup lost'
      BY <1>2, <1>6, <1>10 DEF StartedInv
    <3>3. \A b \in done \cup lost : b < total + 1
      <4>1. \A b \in Nat : b < total => b < total + 1 BY <1>1
      <4> QED BY <1>3, <1>7, <4>1
    <3>4. total < total + 1 BY <1>1
    <3>5. \A b \in done' \cup lost' : b \in done \cup lost \/ b = total BY <1>10
    <3>6. \A b \in done' \cup lost' : b < total' BY <1>1, <3>3, <3>4, <3>5
    <3>7. \A o, p \in Current : o.block = p.block => o = p
      BY <1>2 DEF StartedInv
    <3> QED BY <2>1, <3>1, <3>2, <3>6, <3>7 DEF StartedInv
  <2>3. \A b \in Blocks : b < total' => Started(b)'
    BY <1>2, <1>7, <1>8, <1>10, <2>1 DEF Started
  <2>4. phase = "write" => /\ \A o, p \in flight' : o.who = p.who => o = p
                           /\ \A o \in flight' : o.who \notin signalled'
    BY <1>2, <1>10 DEF SlotInv
  <2>5. signalled' \subseteq {FileObject, Single} \cup Slots BY <1>3, <1>10
  <2>6. done' \subseteq Blocks /\ lost' \subseteq Blocks BY <1>1, <1>3, <1>10
  <2>7. flight' \subseteq Ops /\ failures' = failures /\ \A o \in flight' : o \in flight
    BY <1>3, <1>10
  <2> QED BY <1>1, <2>2, <2>3, <2>4, <2>5, <2>6, <2>7
<1>11. TransfersAtOnce(op, i) => /\ flight' = flight /\ failures' = failures
                                 /\ signalled' = signalled \cup {i}
                                 /\ done' = done \cup {total} /\ lost' = lost \ {total}
  BY <1>4 DEF TransfersAtOnce
<1> QED BY <1>9, <1>10, <1>11 DEF StartSlot, op

LEMMA FirstWaveStep == ASSUME IInv, test = "async", FirstWave PROVE IInv'
<1> USE DEF IInv, FirstWave, threadVars
<1>1. /\ pc = "loop" /\ total = nextBuffer /\ total \in Nat /\ nextBuffer <= NumAsync
      /\ NumAsync \in Nat /\ FileBlocks \in Nat /\ NumAsync <= FileBlocks
      /\ UNCHANGED <<test, phase, handles, slot, thread, offset, pending, success>>
  BY IOAssumption DEF AsyncInv, TypeOK
<1>2. CASE nextBuffer < NumAsync
  <2>1. StartSlot(nextBuffer) /\ nextBuffer' = nextBuffer + 1 /\ pc' = pc BY <1>2
  <2>2. nextBuffer \in Slots /\ total < FileBlocks BY <1>1, <1>2 DEF Slots
  <2>3. \A o \in flight : o.who \in Slots /\ (o.who < nextBuffer => o.who # nextBuffer)
    BY <1>1, OpFields DEF FlightInv, Slots
  <2>4. phase = "write" => \A o \in flight : o.who < nextBuffer BY <1>1 DEF AsyncInv, SlotInv
  <2>5. /\ flight' \subseteq Ops /\ signalled' \subseteq {FileObject, Single} \cup Slots
        /\ done' \subseteq Blocks /\ lost' \subseteq Blocks
        /\ failures' = failures /\ total' = total + 1
        /\ total' \in Nat /\ total' <= FileBlocks
        /\ \A o \in flight' : o \in flight
                              \/ (o.test = test /\ o.phase = phase /\ o.who = nextBuffer)
        /\ StartedInv' /\ \A b \in Blocks : b < total' => Started(b)'
        /\ phase = "write" =>
              /\ \A o, p \in flight' : o.who = p.who => o = p
              /\ \A o \in flight' : o.who \notin signalled'
    BY <1>1, <2>1, <2>2, <2>3, <2>4, StartStep
  <2>6. TypeOK' BY <1>1, <2>1, <2>5 DEF TypeOK
  <2>7. PcInv' /\ HandleInv' BY <1>1, <2>1 DEF PcInv, HandleInv, Events
  <2>8. FlightInv' BY <1>1, <2>1, <2>5 DEF FlightInv, Current
  <2>9. AsyncInv'
    <3>1. phase = "write" => \A o \in flight' : o.who < nextBuffer'
      <4>1. \A o \in flight : o.who \in Nat BY <2>3 DEF Slots
      <4>2. \A o \in flight' : o \in flight \/ o.who = nextBuffer BY <2>5
      <4> QED BY <1>1, <2>1, <2>4, <4>1, <4>2
    <3>2. total' = nextBuffer' /\ nextBuffer' <= NumAsync BY <1>1, <1>2, <2>1, <2>5
    <3> QED BY <1>1, <2>1, <2>5, <3>1, <3>2 DEF AsyncInv, SlotInv
  <2> QED BY <1>1, <2>6, <2>7, <2>8, <2>9 DEF SequentialInv, ThreadInv, MappedInv
<1>3. CASE ~(nextBuffer < NumAsync)
  <2>1. pc' = "wait" /\ UNCHANGED <<nextBuffer, total, flight, signalled, done, lost, failures>>
    BY <1>3 DEF kernelVars
  <2>2. TypeOK' BY <1>1, <2>1 DEF TypeOK
  <2>3. PcInv' /\ HandleInv' BY <1>1, <2>1 DEF PcInv, HandleInv, Events, Ended
  <2>4. FlightInv' BY <1>1, <2>1 DEF FlightInv, Current
  <2>5. AsyncInv' BY <1>1, <2>1 DEF AsyncInv, SlotInv, StartedInv, Started, Current
  <2> QED BY <1>1, <2>2, <2>3, <2>4, <2>5 DEF SequentialInv, ThreadInv, MappedInv
<1> QED BY <1>2, <1>3

LEMMA RestartStep == ASSUME IInv, test = "async", RestartSlot PROVE IInv'
<1> USE DEF IInv, RestartSlot, threadVars
<1>1. /\ pc = "issue" /\ pc' = "wait" /\ slot \in Slots /\ total < FileBlocks
      /\ UNCHANGED <<test, phase, handles, nextBuffer, slot, thread, offset, pending, success>>
  BY DEF AsyncInv, TypeOK
<1>2. phase = "write" => \A o \in flight : o.who # slot BY <1>1 DEF AsyncInv, SlotInv
<1>3. /\ flight' \subseteq Ops /\ signalled' \subseteq {FileObject, Single} \cup Slots
      /\ done' \subseteq Blocks /\ lost' \subseteq Blocks
      /\ failures' = failures /\ total' = total + 1
      /\ total' \in Nat /\ total' <= FileBlocks
      /\ \A o \in flight' : o \in flight
                            \/ (o.test = test /\ o.phase = phase /\ o.who = slot)
      /\ StartedInv' /\ \A b \in Blocks : b < total' => Started(b)'
      /\ phase = "write" =>
            /\ \A o, p \in flight' : o.who = p.who => o = p
            /\ \A o \in flight' : o.who \notin signalled'
  BY <1>1, <1>2, StartStep
<1>4. TypeOK' BY <1>1, <1>3 DEF TypeOK
<1>5. PcInv' /\ HandleInv' BY <1>1 DEF PcInv, HandleInv, Events, Ended
<1>6. FlightInv' BY <1>1, <1>3 DEF FlightInv, Current
<1>7. AsyncInv' BY <1>1, <1>3 DEF AsyncInv, SlotInv
<1> QED BY <1>1, <1>4, <1>5, <1>6, <1>7 DEF SequentialInv, ThreadInv, MappedInv

LEMMA WaitForSlotStep == ASSUME IInv, test = "async", WaitForSlot PROVE IInv'
<1> USE DEF IInv
<1>1. PICK i \in Slots \cap signalled : slot' = i /\ signalled' = signalled \ {i}
  BY DEF WaitForSlot
<1>2. /\ pc = "wait" /\ pc' = "issue" /\ total < FileBlocks
      /\ UNCHANGED <<test, phase, handles, nextBuffer, total, thread, offset, pending, success,
                     flight, done, lost, failures>>
  BY DEF WaitForSlot, threadVars
<1>3. TypeOK' BY <1>1, <1>2 DEF TypeOK
<1>4. PcInv' /\ HandleInv' BY <1>2 DEF PcInv, HandleInv, Events, Ended
<1>5. FlightInv' BY <1>2 DEF FlightInv, Current
<1>6. AsyncInv' BY <1>1, <1>2 DEF AsyncInv, SlotInv, StartedInv, Started, Current
<1> QED BY <1>2, <1>3, <1>4, <1>5, <1>6 DEF SequentialInv, ThreadInv, MappedInv

LEMMA AsyncEndStep == ASSUME IInv, test = "async", AsyncEnd PROVE IInv'
<1> USE DEF IInv
<1>1. /\ pc = "wait" /\ pc' = "close" /\ total >= FileBlocks
      /\ UNCHANGED <<test, phase, handles, nextBuffer, slot, total, thread, offset, pending,
                     success, flight, signalled, done, lost, failures>>
  BY DEF AsyncEnd, threadVars, kernelVars
<1>2. total = FileBlocks BY <1>1, IOAssumption DEF AsyncInv, TypeOK
<1>3. TypeOK' BY <1>1 DEF TypeOK
<1>4. PcInv' /\ HandleInv' BY <1>1 DEF PcInv, HandleInv, Events, Ended
<1>5. FlightInv' BY <1>1 DEF FlightInv, Current
<1>6. AsyncInv' BY <1>1, <1>2 DEF AsyncInv, SlotInv, StartedInv, Started, Current
<1> QED BY <1>1, <1>3, <1>4, <1>5, <1>6 DEF SequentialInv, ThreadInv, MappedInv

-----------------------------------------------------------------------------
LEMMA MappedStep == ASSUME IInv, test = "mapped", Map \/ CopyView PROVE IInv'
<1> USE DEF IInv
<1>1. CASE Map /\ ReturnError
  <2>1. pc \in {"map", "view"} BY <1>1 DEF Map
  <2>2. Leaves /\ test \notin Ended /\ "view" \notin handles
    BY <2>1 DEF Leaves, Ended, HandleInv
  <2> QED BY <1>1, <2>2, ErrorStep
<1>2. CASE Map /\ ~ReturnError
  <2>1. /\ pc \in {"map", "view"}
        /\ handles' = handles \cup {IF pc = "map" THEN "mapping" ELSE "view"}
        /\ pc' = IF pc = "map" THEN "view" ELSE "loop"
        /\ UNCHANGED <<test, phase, nextBuffer, slot, total, thread, offset, pending, success,
                       flight, signalled, done, lost, failures>>
    BY <1>2 DEF Map, threadVars, kernelVars
  <2>2. TypeOK' BY <2>1 DEF TypeOK
  <2>3. PcInv' /\ HandleInv' BY <2>1 DEF PcInv, HandleInv, Events, Ended
  <2>4. FlightInv' BY <2>1 DEF FlightInv, Current
  <2> QED BY <2>1, <2>2, <2>3, <2>4 DEF SequentialInv, ThreadInv, AsyncInv, MappedInv
<1>3. CASE CopyView
  <2>1. /\ pc = "loop" /\ done' = Blocks /\ pc' = "close"
        /\ UNCHANGED <<test, phase, handles, nextBuffer, slot, total, thread, offset, pending,
                       success, flight, signalled, lost, failures>>
    BY <1>3 DEF CopyView, threadVars
  <2>2. TypeOK' BY <2>1 DEF TypeOK
  <2>3. PcInv' /\ HandleInv' BY <2>1 DEF PcInv, HandleInv, Events, Ended
  <2>4. FlightInv' BY <2>1 DEF FlightInv, Current
  <2> QED BY <2>1, <2>2, <2>3, <2>4 DEF SequentialInv, ThreadInv, AsyncInv, MappedInv, Blocks
<1> QED BY <1>1, <1>2, <1>3

-----------------------------------------------------------------------------
(* The kernel: an operation moves from what is in flight to what is done, or *)
(* to what is lost, or leaves both alone if its phase is over.               *)

LEMMA CompleteStep == ASSUME IInv, NEW o \in flight, Complete(o) PROVE IInv'
<1> USE DEF IInv
<1>1. /\ test \notin Ended /\ flight' = flight \ {o}
      /\ signalled' = IF o.test = test THEN signalled \cup {Object(o)} ELSE signalled
      /\ UNCHANGED <<phase, handles, nextBuffer, slot, total, offset, success>>
  BY DEF Complete
<1>2. \/ done' = (IF o \in Current THEN done \cup {o.block} ELSE done) /\ lost' = lost
      \/ lost' = (IF o \in Current THEN lost \cup {o.block} ELSE lost) /\ done' = done
  BY DEF Complete, Current
<1>3. \A t \in Threads : \/ thread'[t] = thread[t]
                         \/ thread[t] = "waiting" /\ thread'[t] = "take"
  BY DEF Complete, Woken
<1>4. \/ UNCHANGED <<test, pc>>
      \/ o.test # test /\ test' = "crashed" /\ pc' = "crashed"
  BY DEF Complete
<1>5. /\ o.test \in {"interrupt", "threads", "async"} /\ o.block \in Blocks
      /\ Object(o) \in {FileObject, Single} \cup Slots
  BY OpFields DEF Object
<1>6. TypeOK'
  <2>1. done' \subseteq Blocks /\ lost' \subseteq Blocks BY <1>2, <1>5 DEF TypeOK
  <2>2. failures' \in 0 .. MaxFailures BY IOAssumption DEF Complete, TypeOK
  <2>3. thread' \in [Threads -> {"none", "take", "issue", "result", "block", "waiting",
                                 "exiting", "exited"}]
    BY DEF Complete, Woken, TypeOK
  <2>4. pending' \in [Threads -> BOOLEAN] BY DEF Complete, TypeOK
  <2>5. test' \in {"blocking", "interrupt", "threads", "async", "mapped"} \cup Ended
    BY <1>4 DEF TypeOK, Ended
  <2> QED BY <1>1, <1>4, <1>5, <2>1, <2>2, <2>3, <2>4, <2>5 DEF TypeOK
<1>7. PcInv' BY <1>4 DEF PcInv
<1>8. HandleInv' BY <1>1, <1>4 DEF HandleInv, Events, Ended
<1>9. CASE test' = "crashed"
  <2>1. o.test # test BY <1>1, <1>4, <1>9 DEF Ended
  <2>2. test = "mapped" BY <1>1, <2>1 DEF FlightInv, Ended
  <2>3. \A p \in flight : p.test = "async" BY <2>2, OpFields DEF FlightInv
  <2>4. pc' = "crashed" BY <1>4, <1>9, <2>2
  <2>5. FlightInv' BY <1>1, <1>9, <2>3, <2>4 DEF FlightInv, Current
  <2> QED BY <1>6, <1>7, <1>8, <1>9, <2>5 DEF SequentialInv, ThreadInv, AsyncInv, MappedInv
<1>10. CASE UNCHANGED <<test, pc>>
  <2>1. Current' = Current \ {o} BY <1>1, <1>10 DEF Current
  <2>2. FlightInv' BY <1>1, <1>10, <2>1 DEF FlightInv
  <2>3. ASSUME StartedInv PROVE StartedInv' /\ \A b : Started(b)' <=> Started(b)
    <3>1. \A p \in Current : p # o => p.block # o.block \/ o \notin Current
      BY <2>3 DEF StartedInv
    <3>2. StartedInv' BY <1>1, <1>2, <2>1, <2>3, <3>1 DEF StartedInv
    <3>3. \A b : Started(b)' <=> Started(b) BY <1>2, <2>1 DEF Started
    <3> QED BY <3>2, <3>3
  <2>4. SequentialInv'
    <3> SUFFICES ASSUME test \in {"blocking", "interrupt"} PROVE SequentialInv'
      BY <1>10 DEF SequentialInv
    <3>1. /\ pc = "wait" /\ flight = {Op(Single, total)} /\ total < FileBlocks
          /\ done = 0 .. total - 1 /\ lost = {} /\ total \in Nat
      BY DEF SequentialInv, TypeOK
    <3>2. o = Op(Single, total) BY <3>1
    <3>3. o.block = total /\ o \in Current BY <3>1, <3>2 DEF Op, Current
    <3>4. flight' = {} BY <1>1, <3>1, <3>2
    <3>5. (0 .. total - 1) \cup {total} = 0 .. total BY <3>1
    <3>6. test # "blocking" BY <3>1 DEF PcInv
    <3> QED BY <1>1, <1>2, <1>10, <3>1, <3>3, <3>4, <3>5, <3>6 DEF SequentialInv
  <2>5. ThreadInv'
    <3> SUFFICES ASSUME test = "threads" PROVE ThreadInv'
      BY <1>10 DEF ThreadInv
    <3>1. \A p \in flight : p.who \in Threads BY OpFields DEF FlightInv
    <3>2. /\ pc \in {"loop", "join"} /\ StartedInv
      BY <3>1, WhileRunning DEF ThreadInv
    <3>3. StartedInv' /\ \A b : Started(b)' <=> Started(b) BY <2>3, <3>2
    <3>4. \A b : Taken(b)' <=> Taken(b) BY <1>1, <1>3 DEF Taken
    <3>5. pc = "loop" => \A t \in Threads : t >= nextBuffer => thread'[t] = "none"
      BY <1>3 DEF ThreadInv
    <3>6. \A p \in flight' : thread'[p.who] \notin {"none", "exited"} /\ p.phase = phase
      BY <1>1, <1>3, <3>1 DEF ThreadInv
    <3>7. \A t \in Threads : thread'[t] = "issue" =>
             /\ offset[t] < total /\ offset[t] < FileBlocks /\ ~Started(offset[t])
             /\ \A u \in Threads : thread'[u] = "issue" /\ offset[u] = offset[t] => u = t
      BY <1>3, <3>2 DEF ThreadInv
    <3>8. success => \A t \in Threads : thread'[t] \in {"exiting", "exited"} => total >= FileBlocks
      BY <1>3, <3>2 DEF ThreadInv
    <3>9. success => \A b \in Blocks : b < total => Started(b) \/ Taken(b)
      BY <3>2 DEF ThreadInv
    <3> QED BY <1>1, <1>10, <3>2, <3>3, <3>4, <3>5, <3>6, <3>7, <3>8, <3>9 DEF ThreadInv
  <2>6. AsyncInv'
    <3> SUFFICES ASSUME test = "async" PROVE AsyncInv'
      BY <1>10 DEF AsyncInv
    <3>1. pc \notin {"begin", "open"} =>
             /\ total <= FileBlocks /\ StartedInv'
             /\ \A b \in Blocks : b < total => Started(b)'
      BY <2>3 DEF AsyncInv
    <3>2. phase = "write" => SlotInv'
      <4>1. Object(o) = o.who BY OpFields DEF Object, FlightInv
      <4> QED BY <1>1, <1>10, <4>1 DEF AsyncInv, SlotInv
    <3> QED BY <1>1, <1>10, <3>1, <3>2 DEF AsyncInv
  <2>7. MappedInv'
    <3>1. test = "mapped" => o \notin Current BY <1>5 DEF Current
    <3> QED BY <1>2, <1>10, <3>1 DEF MappedInv
  <2> QED BY <1>6, <1>7, <1>8, <2>2, <2>4, <2>5, <2>6, <2>7
<1> QED BY <1>4, <1>9, <1>10

-----------------------------------------------------------------------------
LEMMA MainStep == ASSUME IInv, Main PROVE IInv'
<1>1. CASE TestBlockingIO
  BY <1>1, CommonStep, BlockingStep, SequentialEndStep DEF TestBlockingIO, Ended
<1>2. CASE TestInterruptDrivenIO
  BY <1>2, CommonStep, InterruptStartStep, InterruptWaitStep, SequentialEndStep
     DEF TestInterruptDrivenIO, Ended
<1>3. CASE TestMultithreadedIO
  BY <1>3, CommonStep, CreateThreadStep, JoinStep DEF TestMultithreadedIO, Ended
<1>4. CASE TestAsyncIO
  BY <1>4, CommonStep, FirstWaveStep, WaitForSlotStep, RestartStep, AsyncEndStep
     DEF TestAsyncIO, Ended
<1>5. CASE TestMemoryMappedIO
  BY <1>5, CommonStep, MappedStep DEF TestMemoryMappedIO, Ended
<1> QED BY <1>1, <1>2, <1>3, <1>4, <1>5 DEF Main

LEMMA StutterStep == ASSUME IInv, UNCHANGED vars PROVE IInv'
<1> USE DEF IInv, vars, mainVars, threadVars, kernelVars
<1>1. TypeOK' BY DEF TypeOK
<1>2. PcInv' /\ HandleInv' BY DEF PcInv, HandleInv, Events
<1>3. FlightInv' BY DEF FlightInv, Current
<1>4. SequentialInv' BY DEF SequentialInv, Op
<1>5. ThreadInv' BY DEF ThreadInv, StartedInv, Started, Current, Taken
<1>6. AsyncInv' BY DEF AsyncInv, SlotInv, StartedInv, Started, Current
<1>7. MappedInv' BY DEF MappedInv
<1> QED BY <1>1, <1>2, <1>3, <1>4, <1>5, <1>6, <1>7

THEOREM AlwaysIInv == Spec => []IInv
<1>1. IInv /\ [Next]_vars => IInv'
  <2> SUFFICES ASSUME IInv, [Next]_vars PROVE IInv'
    OBVIOUS
  <2>1. ASSUME NEW t \in Threads, ThreadProc(t) PROVE IInv'
    BY <2>1, TakeStep, IssueStep, OtherThreadStep DEF ThreadProc
  <2>2. ASSUME NEW o \in flight, Complete(o) PROVE IInv'
    BY <2>2, CompleteStep
  <2>3. CASE UNCHANGED vars BY <2>3, StutterStep
  <2> QED BY <2>1, <2>2, <2>3, MainStep DEF Next, Finished
<1> QED BY InitIInv, <1>1, PTL DEF Spec

-----------------------------------------------------------------------------
\* Type correctness, for every size of the file and number of slots and threads.
THEOREM TypeCorrect == Spec => []TypeOK
<1>1. IInv => TypeOK BY DEF IInv
<1> QED BY AlwaysIInv, <1>1, PTL

\* No block is given out twice: fetch_add gives each thread an offset of its own
\* (main.cpp:281, 309), and the other tests count (main.cpp:90, 205, 511, 533).
THEOREM BlocksCorrect == Spec => []BlockOnce
<1>1. ASSUME IInv PROVE BlockOnce
  <2> USE <1>1 DEF IInv
  <2>1. CASE Current = {} BY <2>1 DEF BlockOnce
  <2>2. CASE StartedInv BY <2>2 DEF BlockOnce, StartedInv
  <2>3. CASE test = "interrupt"
    <3>1. pc # "wait" => Current = {} BY <2>3 DEF SequentialInv, Current
    <3>2. pc = "wait" => Current = {} \/ (flight = {Op(Single, total)} /\ done = 0 .. total - 1
                                           /\ lost = {} /\ total \in Nat)
      BY <2>3 DEF SequentialInv, Current, TypeOK
    <3>3. Op(Single, total).block = total BY DEF Op
    <3>4. \A o, p \in Current : o \in flight /\ p \in flight BY DEF Current
    <3> QED BY <2>1, <3>1, <3>2, <3>3, <3>4 DEF BlockOnce
  <2>4. test = "threads" => Current = {} \/ StartedInv
    BY DEF ThreadInv, FlightInv, PcInv
  <2>5. test = "async" => Current = {} \/ StartedInv BY DEF AsyncInv, FlightInv
  <2>6. test \notin {"interrupt", "threads", "async"} => Current = {}
    BY OpFields DEF Current
  <2> QED BY <2>1, <2>2, <2>3, <2>4, <2>5, <2>6
<1> QED BY AlwaysIInv, <1>1, PTL

\* A phase gives out every block of the file (main.cpp:79-129, 184-254, 281-333,
\* 499-537, 563-595, 666-735).
THEOREM CoverageCorrect == Spec => []NothingForgotten
<1>1. ASSUME IInv, pc = "close", test = "interrupt" => lost = {}
      PROVE  Blocks = done \cup lost \cup {o.block : o \in Current}
  <2> USE <1>1 DEF IInv
  <2>1. done \subseteq Blocks /\ lost \subseteq Blocks /\ \A o \in Current : o.block \in Blocks
    BY OpFields DEF TypeOK, Current
  <2>2. \A b \in Blocks : Started(b)
    <3>1. CASE test \in {"blocking", "interrupt"}
      <4>1. done = 0 .. total - 1 /\ total = FileBlocks BY <3>1 DEF SequentialInv
      <4> QED BY <4>1 DEF Started, Blocks
    <3>2. CASE test = "threads"
      <4>1. success /\ \A t \in Threads : thread[t] = "exited" BY <3>2 DEF ThreadInv
      <4>2. 0 \in Threads BY IOAssumption DEF Threads
      <4>3. total >= FileBlocks BY <3>2, <4>1, <4>2 DEF ThreadInv
      <4>4. \A b \in Blocks : b < total BY <4>3, IOAssumption DEF Blocks, TypeOK
      <4>5. \A b : ~Taken(b) BY <4>1 DEF Taken
      <4> QED BY <3>2, <4>1, <4>4, <4>5 DEF ThreadInv
    <3>3. CASE test = "async"
      <4>1. \A b \in Blocks : b < total BY <3>3, IOAssumption DEF Blocks, AsyncInv
      <4> QED BY <3>3, <4>1 DEF AsyncInv
    <3>4. CASE test = "mapped" BY <3>4 DEF MappedInv, Started
    <3> QED BY <3>1, <3>2, <3>3, <3>4 DEF TypeOK, Ended, PcInv
  <2> QED BY <2>1, <2>2 DEF Started
<1>2. IInv => NothingForgotten BY <1>1 DEF NothingForgotten
<1> QED BY AlwaysIInv, <1>2, PTL

\* The count of the sequential tests (main.cpp:79-91, 117-129, 184-206, 233-254).
THEOREM CountCorrect == Spec => []CountedIsDone
<1>1. IInv => CountedIsDone BY DEF IInv, SequentialInv, CountedIsDone
<1> QED BY AlwaysIInv, <1>1, PTL

\* While it writes, a slot of the asynchronous test is refilled only after its
\* operation has ended (main.cpp:503-537).
THEOREM BuffersCorrect == Spec => []OneOpPerBuffer
<1>1. IInv => OneOpPerBuffer BY DEF IInv, AsyncInv, SlotInv, OneOpPerBuffer
<1> QED BY AlwaysIInv, <1>1, PTL

\* Whichever of its returns a test takes, the error returns included, no handle of
\* its file, mapping, view or events stays open (main.cpp:75, 86-87, ..., 738-745).
THEOREM HandlesCorrect == Spec => []HandlesClosed
<1>1. IInv => HandlesClosed BY DEF IInv, HandleInv, HandlesClosed
<1> QED BY AlwaysIInv, <1>1, PTL

-----------------------------------------------------------------------------
(* No completion is lost. *)

\* The interrupt test waits for an operation in flight, or whose event is set.
InterruptWake == test = "interrupt" /\ pc = "wait" => Single \in signalled \/ flight # {}

\* A thread sees that its operation is pending, that the handle is not set, and
\* waits, in three steps: between them another thread may clear the handle, but
\* then it has an operation in flight itself, whose completion wakes both, or
\* its start has failed.
ThreadWake ==
    test = "threads" =>
        /\ pc = "loop" => \A t \in Threads : t < nextBuffer => thread[t] # "none"
        /\ pc = "join" => \A t \in Threads : thread[t] # "none"
        /\ \A t \in Threads :
              /\ pending[t] => \E o \in flight : o.who = t
              /\ thread[t] = "block" => FileObject \in signalled \/ flight # {} \/ ~success
              /\ thread[t] = "waiting" => FileObject \notin signalled
              /\ thread[t] = "waiting" => flight # {} \/ ~success

\* A slot is spent when its event will never be set again: it has cost a block.
Spent == {i \in Slots : /\ i \notin signalled
                        /\ \A o \in flight : o.test = "async" => o.who # i
                        /\ pc = "loop" => i < nextBuffer
                        /\ pc = "issue" => i # slot}

AsyncWake ==
    test = "async" /\ pc \in {"loop", "wait", "issue"} => Cardinality(Spent) <= Cardinality(lost)

LEMMA WakeInitially == Init => InterruptWake /\ ThreadWake /\ AsyncWake
BY DEF Init, InterruptWake, ThreadWake, AsyncWake

LEMMA SpentFinite ==
    ASSUME TypeOK, TypeOK'
    PROVE  /\ IsFiniteSet(Spent) /\ IsFiniteSet(Spent') /\ IsFiniteSet(lost) /\ IsFiniteSet(lost')
           /\ Cardinality(Spent) \in Nat /\ Cardinality(Spent') \in Nat
           /\ Cardinality(lost) \in Nat /\ Cardinality(lost') \in Nat
<1>1. IsFiniteSet(Slots) /\ IsFiniteSet(Blocks)
  BY FS_Interval, IOAssumption DEF Slots, Blocks
<1>2. Spent \in SUBSET Slots /\ Spent' \in SUBSET Slots BY DEF Spent
<1>3. lost \in SUBSET Blocks /\ lost' \in SUBSET Blocks BY DEF TypeOK
<1>4. IsFiniteSet(Spent) /\ IsFiniteSet(Spent') /\ IsFiniteSet(lost) /\ IsFiniteSet(lost')
  BY <1>1, <1>2, <1>3, FS_Subset
<1> QED BY <1>4, FS_CardinalityType

LEMMA NoMoreSpent ==
    ASSUME TypeOK, TypeOK', Cardinality(Spent) <= Cardinality(lost),
           Spent' \subseteq Spent, lost \subseteq lost'
    PROVE  Cardinality(Spent') <= Cardinality(lost')
<1>1. Cardinality(Spent') <= Cardinality(Spent) BY SpentFinite, FS_Subset
<1>2. Cardinality(lost) <= Cardinality(lost') BY SpentFinite, FS_Subset
<1> QED BY <1>1, <1>2, SpentFinite

LEMMA OneMoreSpent ==
    ASSUME TypeOK, TypeOK', Cardinality(Spent) <= Cardinality(lost),
           NEW i, Spent' \subseteq Spent \cup {i}, NEW b, b \notin lost, lost' = lost \cup {b}
    PROVE  Cardinality(Spent') <= Cardinality(lost')
<1>1. /\ IsFiniteSet(Spent \cup {i})
      /\ Cardinality(Spent \cup {i}) \in {Cardinality(Spent), Cardinality(Spent) + 1}
  BY SpentFinite, FS_AddElement
<1>2. Cardinality(lost') = Cardinality(lost) + 1 BY SpentFinite, FS_AddElement
<1>3. Cardinality(Spent') <= Cardinality(Spent \cup {i}) BY <1>1, FS_Subset
<1> QED BY <1>1, <1>2, <1>3, SpentFinite

LEMMA InterruptWakeStep ==
    ASSUME IInv, InterruptWake, [Next]_vars
    PROVE  InterruptWake'
<1> SUFFICES ASSUME test' = "interrupt", pc' = "wait" PROVE (Single \in signalled \/ flight # {})'
  BY DEF InterruptWake
<1>1. CASE UNCHANGED vars
  BY <1>1 DEF vars, mainVars, kernelVars, InterruptWake
<1>2. CASE Finished BY <1>1, <1>2 DEF Finished
<1>3. ASSUME NEW t \in Threads, ThreadProc(t) PROVE FALSE
  BY <1>3 DEF ThreadProc, mainVars
<1>4. ASSUME NEW o \in flight, Complete(o) PROVE (Single \in signalled)'
  <2>1. test = "interrupt" /\ pc = "wait" BY <1>4 DEF Complete
  <2>2. o.test = "interrupt" /\ o.who = Single BY <2>1, OpFields DEF IInv, FlightInv
  <2> QED BY <1>4, <2>1, <2>2 DEF Complete, Object
<1>5. CASE Main
  <2>1. ~Return BY DEF Return
  <2>2. test = "interrupt" /\ InterruptStart
    BY <1>5, <2>1 DEF Main, TestBlockingIO, TestInterruptDrivenIO, TestMultithreadedIO, TestAsyncIO,
       TestMemoryMappedIO, Common, Begin, OpenFile, CloseFile, ReturnError, BlockingTransfer,
       InterruptWait, SequentialEnd, CreateThread, JoinThreads, FirstWave, WaitForSlot,
       RestartSlot, AsyncEnd, Map, CopyView, mainVars
  <2>3. Pending(Op(Single, total), Single)
    BY <2>1, <2>2 DEF InterruptStart, ReturnError, mainVars
  <2> QED BY <2>3 DEF Pending
<1> QED BY <1>1, <1>2, <1>3, <1>4, <1>5 DEF Next

LEMMA ThreadWakeOfMain ==
    ASSUME IInv, ThreadWake, test = "threads", TestMultithreadedIO
    PROVE  ThreadWake'
<1> USE DEF IInv
<1>0. thread \in [Threads -> {"none", "take", "issue", "result", "block", "waiting", "exiting", "exited"}]
      /\ nextBuffer \in Nat /\ NumThreads \in Nat
  BY IOAssumption DEF TypeOK
<1>1. CASE Return BY <1>1 DEF Return, NextTest, ThreadWake
<1>2. CASE Begin /\ ~Return
  BY <1>2 DEF Begin, ReturnError, threadVars, kernelVars, ThreadWake
<1>3. CASE OpenFile /\ ~Return
  <2>1. /\ pc' = "loop" /\ nextBuffer' = 0 /\ thread' = Idle /\ UNCHANGED <<pending, flight>>
    BY <1>3 DEF OpenFile, ReturnError
  <2>2. \A t \in Threads : thread'[t] = "none" /\ ~(t < 0) BY <2>1 DEF Idle, Threads
  <2> QED BY <2>1, <2>2 DEF ThreadWake
<1>4. CASE CloseFile /\ ~Return
  BY <1>4 DEF CloseFile, threadVars, kernelVars, ThreadWake
<1>5. CASE CreateThread
  <2>1. pc = "loop" /\ UNCHANGED <<pending, flight, signalled, success>>
    BY <1>5 DEF CreateThread, kernelVars
  <2>2. CASE nextBuffer < NumThreads
    <3>1. pc' = "loop" /\ nextBuffer' = nextBuffer + 1
          /\ thread' = [thread EXCEPT ![nextBuffer] = "take"]
      BY <2>1, <2>2, <1>5 DEF CreateThread
    <3>2. \A t \in Threads : t < nextBuffer + 1 => t = nextBuffer \/ t < nextBuffer
      BY <1>0 DEF Threads
    <3>3. \A t \in Threads : \/ t = nextBuffer /\ thread'[t] = "take"
                             \/ t # nextBuffer /\ thread'[t] = thread[t]
      BY <1>0, <3>1
    <3>4. \A t \in Threads : t < nextBuffer' => thread'[t] # "none"
      BY <2>1, <3>1, <3>2, <3>3 DEF ThreadWake
    <3> QED BY <2>1, <3>1, <3>3, <3>4 DEF ThreadWake
  <2>3. CASE ~(nextBuffer < NumThreads)
    <3>1. pc' = "join" /\ thread' = thread BY <2>3, <1>5 DEF CreateThread
    <3>2. \A t \in Threads : t < nextBuffer BY <1>0, <2>3 DEF Threads
    <3> QED BY <2>1, <3>1, <3>2 DEF ThreadWake
  <2> QED BY <2>2, <2>3
<1>6. CASE JoinThreads /\ ~Return
  BY <1>6 DEF JoinThreads, ReturnError, threadVars, kernelVars, ThreadWake
<1> QED BY <1>1, <1>2, <1>3, <1>4, <1>5, <1>6 DEF TestMultithreadedIO, Common

LEMMA ThreadWakeOfThread ==
    ASSUME IInv, ThreadWake, NEW t \in Threads, ThreadProc(t)
    PROVE  ThreadWake'
<1> USE DEF IInv, GoTo
<1>0. /\ test = "threads" /\ UNCHANGED <<test, pc, nextBuffer>>
      /\ thread \in [Threads -> {"none", "take", "issue", "result", "block", "waiting", "exiting", "exited"}]
      /\ pending \in [Threads -> BOOLEAN]
  BY DEF ThreadProc, mainVars, TypeOK
\* What the steps have in common.
<1>1. ASSUME thread[t] # "none", thread'[t] # "none",
             \A u \in Threads : \/ u = t
                                \/ thread'[u] = thread[u]
                                \/ thread[u] = "waiting" /\ thread'[u] = "take",
             \A u \in Threads : u # t => (pending'[u] <=> pending[u]),
             pending'[t] => \E o \in flight' : o.who = t,
             flight \subseteq flight', success' => success,
             FileObject \in signalled => FileObject \in signalled' \/ flight' # {} \/ ~success',
             thread'[t] = "block" => FileObject \in signalled' \/ flight' # {} \/ ~success',
             thread'[t] = "waiting" => flight' # {} \/ ~success',
             \A u \in Threads : thread'[u] = "waiting" => FileObject \notin signalled'
      PROVE  ThreadWake'
  <2>1. \A u \in Threads : pending'[u] => \E o \in flight' : o.who = u
    BY <1>0, <1>1 DEF ThreadWake
  <2>2. \A u \in Threads :
           thread'[u] = "block" => FileObject \in signalled' \/ flight' # {} \/ ~success'
    BY <1>0, <1>1 DEF ThreadWake
  <2>3. \A u \in Threads : thread'[u] = "waiting" => flight' # {} \/ ~success'
    BY <1>0, <1>1 DEF ThreadWake
  <2>4. \A u \in Threads : thread[u] # "none" => thread'[u] # "none" BY <1>1
  <2> QED BY <1>0, <1>1, <2>1, <2>2, <2>3, <2>4 DEF ThreadWake
<1>2. CASE TakeOffset(t)
  BY <1>0, <1>1, <1>2 DEF TakeOffset, kernelVars, ThreadWake
<1>3. CASE IssueByThread(t)
  <2>0. thread[t] # "none" BY <1>3 DEF IssueByThread
  <2>1. CASE TransfersAtOnce(Op(t, offset[t]), FileObject)
             /\ thread' = [Woken EXCEPT ![t] = "take"] /\ UNCHANGED <<pending, success>>
    <3>1. /\ UNCHANGED <<pending, success, flight>> /\ signalled' = signalled \cup {FileObject}
      BY <2>1 DEF TransfersAtOnce
    <3>2. /\ thread'[t] = "take"
          /\ \A u \in Threads : \/ u = t
                                \/ thread'[u] = thread[u]
                                \/ thread[u] = "waiting" /\ thread'[u] = "take"
          /\ \A u \in Threads : thread'[u] # "waiting"
      BY <2>1 DEF Woken
    <3> QED BY <1>0, <1>1, <2>0, <3>1, <3>2 DEF ThreadWake
  <2>2. CASE Pending(Op(t, offset[t]), FileObject) /\ GoTo(t, "result")
             /\ pending' = [pending EXCEPT ![t] = TRUE] /\ UNCHANGED success
    <3>1. /\ Op(t, offset[t]) \in flight' /\ flight \subseteq flight'
          /\ FileObject \notin signalled'
      BY <2>2 DEF Pending
    <3>2. Op(t, offset[t]).who = t BY DEF Op
    <3>3. thread'[t] = "result" /\ thread[t] # "none"
          /\ \A u \in Threads : u # t => thread'[u] = thread[u] /\ (pending'[u] <=> pending[u])
      BY <1>0, <1>3, <2>2 DEF IssueByThread
    <3> QED BY <1>1, <2>2, <3>1, <3>2, <3>3
  <2>3. CASE /\ success' = FALSE /\ GoTo(t, "exiting")
             /\ signalled' \in {signalled, signalled \ {FileObject}}
             /\ UNCHANGED <<pending, flight>>
    <3>1. /\ thread'[t] = "exiting"
          /\ \A u \in Threads : u # t => thread'[u] = thread[u]
      BY <1>0, <2>3
    <3>2. \A u \in Threads : thread'[u] = "waiting" => FileObject \notin signalled'
      BY <1>0, <2>3, <3>1 DEF ThreadWake
    <3> QED BY <1>0, <1>1, <2>0, <2>3, <3>1, <3>2 DEF ThreadWake
  <2> QED BY <1>3, <2>1, <2>2, <2>3 DEF IssueByThread
<1>4. CASE GetResult(t)
  <2>1. UNCHANGED <<pending, flight, signalled, success>> BY <1>4 DEF GetResult, kernelVars
  <2>2. thread[t] # "none" /\ \E where \in {"take", "block", "waiting"} :
            /\ thread' = [thread EXCEPT ![t] = where]
            /\ where = "block" => pending[t]
            /\ where = "waiting" => thread[t] = "block" /\ FileObject \notin signalled
    BY <1>4 DEF GetResult
  <2>3. /\ thread'[t] # "none" /\ \A u \in Threads : u # t => thread'[u] = thread[u]
        /\ thread'[t] = "block" => pending[t]
        /\ thread'[t] = "waiting" => thread[t] = "block" /\ FileObject \notin signalled
    BY <1>0, <2>2
  <2>4. pending[t] => flight # {} BY <1>0 DEF ThreadWake
  <2>5. thread'[t] = "waiting" => flight # {} \/ ~success BY <1>0, <2>3 DEF ThreadWake
  <2>6. \A u \in Threads : thread'[u] = "waiting" => FileObject \notin signalled
    BY <1>0, <2>3 DEF ThreadWake
  <2> QED BY <2>6, <1>0, <1>1, <2>1, <2>2, <2>3, <2>4, <2>5 DEF ThreadWake
<1>5. CASE ThreadExit(t)
  BY <1>0, <1>1, <1>5 DEF ThreadExit, kernelVars, ThreadWake
<1> QED BY <1>2, <1>3, <1>4, <1>5 DEF ThreadProc

LEMMA ThreadWakeOfKernel ==
    ASSUME IInv, ThreadWake, NEW o \in flight, Complete(o)
    PROVE  ThreadWake'
<1> SUFFICES ASSUME test' = "threads" PROVE ThreadWake'
  BY DEF ThreadWake
<1>1. test = "threads" /\ UNCHANGED <<test, pc, nextBuffer>> BY DEF Complete
<1>2. o.test = "threads" BY <1>1, OpFields DEF IInv, FlightInv
<1>3. FileObject \in signalled' /\ flight' = flight \ {o}
  BY <1>1, <1>2 DEF Complete, Object
<1>4. \A t \in Threads : /\ thread'[t] # "waiting"
                         /\ thread[t] # "none" => thread'[t] # "none"
                         /\ pending'[t] => pending[t] /\ o.who # t
  BY <1>2 DEF Complete, Woken
<1>5. \A t \in Threads : pending'[t] => \E p \in flight' : p.who = t
  BY <1>1, <1>3, <1>4 DEF ThreadWake
<1> QED BY <1>1, <1>3, <1>4, <1>5 DEF ThreadWake

LEMMA ThreadWakeStep ==
    ASSUME IInv, ThreadWake, [Next]_vars
    PROVE  ThreadWake'
<1>1. CASE UNCHANGED vars
  BY <1>1 DEF vars, mainVars, threadVars, kernelVars, ThreadWake
<1>2. CASE Finished BY <1>1, <1>2 DEF Finished
<1>3. CASE Main
  <2>1. CASE test = "threads"
    BY <1>3, <2>1, ThreadWakeOfMain DEF Main, TestBlockingIO, TestInterruptDrivenIO, TestAsyncIO,
       TestMemoryMappedIO
  <2>2. CASE Return BY <2>2 DEF Return, Idle, ThreadWake
  <2>3. CASE test # "threads" /\ ~Return
    <3>1. test' = test
      BY <1>3, <2>3 DEF Main, TestBlockingIO, TestInterruptDrivenIO, TestMultithreadedIO, TestAsyncIO,
       TestMemoryMappedIO, Common, Begin, OpenFile, CloseFile, ReturnError, BlockingTransfer,
       InterruptStart, InterruptWait, SequentialEnd, FirstWave, WaitForSlot, RestartSlot,
       AsyncEnd, Map, CopyView, mainVars
    <3> QED BY <2>3, <3>1 DEF ThreadWake
  <2> QED BY <2>1, <2>2, <2>3
<1> QED BY <1>1, <1>2, <1>3, ThreadWakeOfThread, ThreadWakeOfKernel DEF Next

LEMMA AsyncWakeOfStart ==
    ASSUME IInv, TypeOK', AsyncWake, test = "async", pc \in {"loop", "issue"}, NEW i \in Slots,
           StartSlot(i), test' = test, total < FileBlocks,
           pc = "loop" => pc' = "loop" /\ nextBuffer = i /\ nextBuffer' = nextBuffer + 1,
           pc = "issue" => pc' = "wait" /\ slot = i
    PROVE  AsyncWake'
<1> USE DEF IInv
<1>1. Cardinality(Spent) <= Cardinality(lost) BY DEF AsyncWake
<1>2. total \notin lost
  <2>1. StartedInv /\ total \in Nat BY DEF AsyncInv, TypeOK
  <2> QED BY <2>1 DEF StartedInv
<1>3. \A j \in Slots : /\ pc' = "loop" => (j < nextBuffer' <=> (j < i \/ j = i))
                       /\ pc = "loop" => (j < nextBuffer <=> j < i)
  BY DEF Slots, TypeOK
<1>4. CASE TransfersAtOnce(Op(i, total), i)
  <2>1. lost' = lost /\ signalled' = signalled \cup {i} /\ flight' = flight
    BY <1>2, <1>4 DEF TransfersAtOnce, Op
  <2>2. Spent' \subseteq Spent BY <1>3, <2>1 DEF Spent
  <2> QED BY <1>1, <2>1, <2>2, NoMoreSpent DEF AsyncWake
<1>5. CASE Pending(Op(i, total), i)
  <2>1. lost' = lost /\ signalled' = signalled \ {i} /\ flight' = flight \cup {Op(i, total)}
    BY <1>2, <1>5 DEF Pending, Op
  <2>2. Op(i, total).test = "async" /\ Op(i, total).who = i BY DEF Op
  <2>3. Spent' \subseteq Spent BY <1>3, <2>1, <2>2 DEF Spent
  <2> QED BY <1>1, <2>1, <2>3, NoMoreSpent DEF AsyncWake
<1>6. CASE lost' = lost \cup {total} /\ signalled' \in {signalled, signalled \ {i}} /\ UNCHANGED flight
  <2>1. Spent' \subseteq Spent \cup {i} BY <1>3, <1>6 DEF Spent
  <2> QED BY <1>1, <1>2, <1>6, <2>1, OneMoreSpent DEF AsyncWake
<1> QED BY <1>4, <1>5, <1>6 DEF StartSlot

LEMMA AsyncWakeStep ==
    ASSUME IInv, IInv', AsyncWake, [Next]_vars
    PROVE  AsyncWake'
<1> SUFFICES ASSUME test' = "async", pc' \in {"loop", "wait", "issue"}
             PROVE  Cardinality(Spent') <= Cardinality(lost')
  BY DEF AsyncWake
<1>0. TypeOK /\ TypeOK' BY DEF IInv
<1>1. CASE UNCHANGED vars
  <2>1. Spent' = Spent /\ lost' = lost BY <1>1 DEF vars, mainVars, kernelVars, Spent
  <2> QED BY <1>1, <2>1 DEF vars, mainVars, AsyncWake
<1>2. CASE Finished BY <1>1, <1>2 DEF Finished
<1>3. ASSUME NEW t \in Threads, ThreadProc(t) PROVE FALSE
  BY <1>3 DEF ThreadProc, mainVars
<1>4. ASSUME NEW o \in flight, Complete(o) PROVE Cardinality(Spent') <= Cardinality(lost')
  <2>1. test = "async" /\ UNCHANGED <<test, pc, nextBuffer, slot>> BY <1>4 DEF Complete
  <2>2. o.test = "async" BY <2>1, OpFields DEF IInv, FlightInv
  <2>3. o.who \in signalled' /\ signalled \subseteq signalled' /\ flight' = flight \ {o}
        /\ lost \subseteq lost'
    BY <1>4, <2>1, <2>2 DEF Complete, Object
  <2>4. Spent' \subseteq Spent BY <2>1, <2>3 DEF Spent
  <2> QED BY <1>0, <2>1, <2>3, <2>4, NoMoreSpent DEF AsyncWake
<1>5. CASE Main
  <2>0. ~Return BY DEF Return
  <2>a. test' = test
    <3>1. CASE TestMultithreadedIO
      BY <2>0, <3>1 DEF TestMultithreadedIO, Common, Begin, OpenFile, CloseFile, ReturnError,
         CreateThread, JoinThreads
    <3>2. CASE ~TestMultithreadedIO
      BY <1>5, <2>0, <3>2 DEF Main, TestBlockingIO, TestInterruptDrivenIO, TestAsyncIO,
         TestMemoryMappedIO, Common, Begin, OpenFile, CloseFile, ReturnError, BlockingTransfer,
         InterruptStart, InterruptWait, SequentialEnd, FirstWave, WaitForSlot, RestartSlot,
         AsyncEnd, Map, CopyView, mainVars
    <3> QED BY <3>1, <3>2
  <2>1. test = "async" /\ TestAsyncIO
    BY <1>5, <2>a DEF Main, TestBlockingIO, TestInterruptDrivenIO, TestMultithreadedIO,
       TestMemoryMappedIO
  <2>2. CASE Common
    <3>1. OpenFile BY <2>0, <2>2 DEF Common, Begin, CloseFile, ReturnError
    <3>2. pc' = "loop" /\ nextBuffer' = 0 BY <2>0, <2>1, <3>1 DEF OpenFile, ReturnError
    <3>3. Spent' = {} BY <3>2 DEF Spent, Slots
    <3>4. Cardinality(Spent') = 0 BY <3>3, FS_EmptySet
    <3> QED BY <1>0, <3>4, SpentFinite
  <2>3. CASE FirstWave
    <3>1. CASE nextBuffer < NumAsync
      <4>1. StartSlot(nextBuffer) /\ nextBuffer' = nextBuffer + 1 /\ pc = "loop" /\ pc' = "loop"
            /\ UNCHANGED test
        BY <2>3, <3>1 DEF FirstWave
      <4>2. nextBuffer \in Slots /\ total < FileBlocks
        <5>1. total = nextBuffer /\ nextBuffer \in Nat
          BY <2>1, <4>1 DEF IInv, AsyncInv, TypeOK
        <5> QED BY <3>1, <5>1, IOAssumption DEF Slots
      <4>3. AsyncWake' BY <1>0, <2>1, <4>1, <4>2, AsyncWakeOfStart
      <4> QED BY <4>1, <4>3 DEF AsyncWake
    <3>2. CASE ~(nextBuffer < NumAsync)
      <4>1. pc = "loop" /\ pc' = "wait" /\ UNCHANGED <<signalled, flight, lost>>
        BY <2>3, <3>2 DEF FirstWave, kernelVars
      <4>2. \A i \in Slots : i < nextBuffer BY <3>2, <1>0, IOAssumption DEF Slots, TypeOK
      <4>3. Spent' \subseteq Spent BY <4>1, <4>2 DEF Spent
      <4> QED BY <1>0, <2>1, <4>1, <4>3, NoMoreSpent DEF AsyncWake
    <3> QED BY <3>1, <3>2
  <2>4. CASE WaitForSlot
    <3>1. PICK i \in Slots : slot' = i /\ signalled' = signalled \ {i}
      BY <2>4 DEF WaitForSlot
    <3>2. pc = "wait" /\ pc' = "issue" /\ UNCHANGED <<flight, lost>> BY <2>4 DEF WaitForSlot
    <3>3. Spent' \subseteq Spent BY <3>1, <3>2 DEF Spent
    <3> QED BY <1>0, <2>1, <3>2, <3>3, NoMoreSpent DEF AsyncWake
  <2>5. CASE RestartSlot
    <3>1. /\ pc = "issue" /\ pc' = "wait" /\ StartSlot(slot) /\ slot \in Slots /\ UNCHANGED test
      BY <2>5, <1>0 DEF RestartSlot, TypeOK
    <3>2. total < FileBlocks BY <2>1, <3>1 DEF IInv, AsyncInv
    <3>3. AsyncWake' BY <1>0, <2>1, <3>1, <3>2, AsyncWakeOfStart
    <3> QED BY <3>1, <3>3 DEF AsyncWake
  <2>6. CASE AsyncEnd BY <2>6 DEF AsyncEnd
  <2> QED BY <2>1, <2>2, <2>3, <2>4, <2>5, <2>6 DEF TestAsyncIO
<1> QED BY <1>1, <1>2, <1>3, <1>4, <1>5 DEF Next

\* While main waits, a thread can run or an operation of the test is in flight,
\* whatever the number of threads and slots, but in two cases, both after a start
\* that failed: the asynchronous test starves once as many blocks as it has slots
\* are lost, and a thread of the multithreaded one is stranded when the failed
\* start of another clears the handle it is about to wait for (main.cpp:194, 241,
\* 291, 294, 319, 322, 387, 434, 517, 577).
THEOREM CompletionsSeen == Spec => []NoLostCompletion
<1> DEFINE Inv == IInv /\ InterruptWake /\ ThreadWake /\ AsyncWake
<1>1. Init => Inv BY InitIInv, WakeInitially
<1>2. Inv /\ [Next]_vars => Inv'
  <2>1. IInv /\ [Next]_vars => IInv'
    <3> SUFFICES ASSUME IInv, [Next]_vars PROVE IInv'
      OBVIOUS
    <3>1. ASSUME NEW t \in Threads, ThreadProc(t) PROVE IInv'
      BY <3>1, TakeStep, IssueStep, OtherThreadStep DEF ThreadProc
    <3>2. ASSUME NEW o \in flight, Complete(o) PROVE IInv'
      BY <3>2, CompleteStep
    <3>3. CASE UNCHANGED vars BY <3>3, StutterStep
    <3> QED BY <3>1, <3>2, <3>3, MainStep DEF Next, Finished
  <2> QED BY <2>1, InterruptWakeStep, ThreadWakeStep, AsyncWakeStep
<1>3. ASSUME Inv PROVE NoLostCompletion
  <2> USE <1>3
  <2> SUFFICES ASSUME MainWaits,
                      test = "threads" => \A t \in Threads : thread[t] # "exited" => ThreadWaits(t),
                      ~\E o \in flight : o.test = test
               PROVE  Starved \/ Stranded
    BY DEF NoLostCompletion
  <2>1. CASE test = "interrupt"
    <3>1. flight # {} BY <2>1 DEF MainWaits, InterruptWake
    <3> QED BY <2>1, <3>1, OpFields DEF IInv, FlightInv
  <2>2. CASE test = "threads"
    <3>1. pc = "join" /\ \E t \in Threads : thread[t] # "exited" BY <2>2 DEF MainWaits
    <3>2. flight = {} BY <2>2, OpFields DEF IInv, FlightInv
    <3>3. \A t \in Threads : thread[t] # "exited" => thread[t] = "waiting"
      BY <2>2, <3>2 DEF ThreadWaits
    <3>4. FileObject \notin signalled /\ ~success BY <2>2, <3>1, <3>2, <3>3 DEF ThreadWake
    <3> QED BY <2>2, <3>1, <3>2, <3>3, <3>4 DEF Stranded
  <2>3. CASE test = "async"
    <3>1. pc = "wait" /\ total < FileBlocks /\ Slots \cap signalled = {}
      BY <2>3 DEF MainWaits
    <3>2. Spent = Slots BY <2>3, <3>1 DEF Spent
    <3>3. Cardinality(Slots) = NumAsync
      <4>1. NumAsync \in Nat \ {0} /\ NumAsync - 1 \in Int /\ ~(0 > NumAsync - 1)
            /\ (NumAsync - 1) - 0 + 1 = NumAsync
        BY IOAssumption
      <4> QED BY <4>1, FS_Interval DEF Slots
    <3>4. Cardinality(lost) >= NumAsync
      <4>1. Cardinality(Spent) <= Cardinality(lost) BY <2>3, <3>1 DEF AsyncWake
      <4>2. lost \in SUBSET Blocks /\ IsFiniteSet(Blocks)
        BY FS_Interval, IOAssumption DEF IInv, TypeOK, Blocks
      <4>3. Cardinality(lost) \in Nat BY <4>2, FS_Subset, FS_CardinalityType
      <4> QED BY <4>1, <4>3, <3>2, <3>3, IOAssumption
    <3> QED BY <2>3, <3>1, <3>4 DEF Starved
  <2> QED BY <2>1, <2>2, <2>3 DEF MainWaits
<1> QED BY <1>1, <1>2, <1>3, PTL DEF Spec
=============================================================================
