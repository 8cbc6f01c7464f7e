# A verification project for the OSISP exercises

The repository holds the programs of a course on operating systems: six
Windows programs in C++ (`sem1`) and six POSIX programs in C and shell
(`sem2`), with one report each. They share no code. What they have in common is
what makes them worth modelling: each is a small program about processes,
threads, pipes, signals, sockets or overlapped I/O, whose correctness depends
on orders of events that no test of the repository produces.

This directory holds TLA+ models of the concurrent ones, and of one sequential
program in which any allocation may fail; TLC configurations that check them on
small instances; and TLAPS proofs of what holds for every instance. The models
are translated from the code; the reports are quoted only where they promise a
behaviour.

Contents: [the system](#1-the-system) ·
[models](#2-models-and-code) · [runs](#3-runs) ·
[fairness](#4-fairness) · [proofs](#5-proofs) ·
[disagreements](#6-where-code-and-documents-disagree) ·
[limits](#7-what-is-not-modelled) · [plan](#8-plan)

## 1. The system

### Inventory

| Component | Code | State | Operations | Interaction |
|---|---|---|---|---|
| Dining philosophers | `sem1/LR4/Lab4/main.cpp` | one mutex per fork, `isRunning`, counts under `statsMutex` | round of a philosopher by one of three strategies, stop, join, report | threads share the mutexes and the counts |
| File-system analyzer | `sem2/LR5/Lab5/src/{main,manager,agent,collector}.c` | `active_agents`, process table, pipe | traverse, fork an agent per directory, wait for one child, copy lines | processes joined by one pipe and by `waitpid` |
| Remote shell, session | `sem2/LR7/Lab7/{client,server}.c` | two byte streams, where each side is in its loop | read a command, execute it, send its output and an end byte, receive | a TCP connection |
| Remote shell, server | `sem2/LR7/Lab7/server.c` | descriptors of the server and its children, pending SIGCHLD | accept, fork, close, reap | fork copies descriptors; a signal handler interrupts `main` |
| Parallel sort | `sem2/LR6/Lab6/main.c` | one array, fragment bounds, `indices`, `temp` | create threads, sort a fragment, join, merge, check | threads share the array |
| Process pipeline | `sem1/LR3/Lab3/main.cpp` | two named pipes, one block per stage | create, connect, open, read, write, close | three processes in a row, and a coordinator that waits for them |
| Overlapped file I/O | `sem1/LR2/Lab2/main.cpp` | offsets, events, operations in flight, handles | five tests, each of which writes a file and reads it | the kernel completes operations; threads share an offset and a file handle |
| Self-healing window | `sem1/LR1/Lab1/main.cpp` | `g_counter`, the state file and who has it open | load and delete the state, count, save, start the instance that replaces it | generations of one process, through a file |
| Task dispatcher | `sem1/LR1/Lab1/main2.cpp` | `g_childProcesses`: process, handle, window, mark | start, close or terminate, refresh by a timer, end | window messages, dispatched inside dialogs too; the windows it starts and ends |
| Word filter | `sem2/LR4/Lab4/src/{main,dictionary,filter}.c` | dictionary, line buffer, result | load, replace the words of a line, copy lines | files; a heap that may refuse |
| Pastebin client | `sem2/LR2/Lab2/pastebin.sh` | none | create, read, delete | an HTTP service |
| CSV statistics | `sem2/LR3/Lab3/stat_calc.sh` | none | aggregate a column | none |
| XOR signature | `sem2/LR5/Lab5/src/signature.c` | none | fold a file | called by the agents of the analyzer |
| Network monitor, system information | `sem1/LR5`, `sem1/LR6` | none | print what Windows reports | none |

### What is hard in it, and what correctness means

* **Philosophers.** A circular wait needs one interleaving of all threads; a
  timeout on the second fork must give the first one back; `main` joins threads
  that may be waiting, and closes the mutexes they use. Correct: neighbours
  never eat together, no fork is left behind, no circular wait except with the
  SIMPLE strategy, stopping ends the program, the report is final.
* **Analyzer.** The counter that limits the agents is updated on a fork, on a
  failed fork and on each `waitpid(-1)`, inside a recursion; the collector ends
  only when every copy of the write end is closed, and agents block on a full
  pipe. Correct: the counter is exact, the limit holds, nothing is left
  running, the report has each directory whole or not at all, but for entries
  whose `malloc` or `lstat` failed; nobody blocks for ever.
* **Session.** The protocol finds the end of a reply as the last byte of one
  `recv`, and sends text after it for commands without output. What a `recv`
  returns depends on timing. Correct: a prompt shows the whole output of its
  own command and no other, and is always followed by another prompt.
* **Server.** Descriptors are copied by each `fork` and must be closed by both
  sides on every path; the shell that `popen` forks copies them once more, and
  nothing is closed on exec, so that a command left in the background keeps what
  its session held; signals of several children are merged. Correct: a
  connection is held by the processes that serve it and by what they started, and
  by nobody else; the port is not left with a child or its commands; no zombie
  stays, every client is served or refused.
* **Sort.** Fragments must tile the array, also with a rest or with more threads
  than elements; the merge writes `indices[min_idx]` without testing that
  `min_idx` was found. Correct: nothing is lost, the merge never runs dry, the
  result is sorted.
* **Pipeline.** The start-up order rests on `Sleep`; a client that connects too
  early, or a server that is too late, makes a stage give up, and its neighbours
  must notice. Correct: blocks arrive once, in order and sorted; without a kill
  all or none; only `ConnectNamedPipe` can wait for ever.
* **Overlapped I/O.** Completions come late, in any order or as errors; events
  stay set; threads wait on a shared handle. Correct: no block is done twice or
  forgotten, what is counted is done, a buffer has one operation at a time,
  error paths close their handles, no wait is for ever but in two states that a
  start that fails at once can lead to (section 6).
* **Self-healing window.** The count is handed over through a file with a
  relative name that is deleted once it is read; the message box of a failed
  start has no owner, so that the window can be closed again under it, and
  `WM_CLOSE` is handled inside the handling of `WM_CLOSE`. Correct: a window is
  replaced at most once, and its count is always in exactly one place unless
  one of a few named events has lost it.
* **Dispatcher.** Its dialogs dispatch `WM_TIMER`, so that the list changes
  while a button's handler waits with a reference into it; the windows replace
  themselves behind its back. Correct: no closed handle is used, a window that
  was asked to close is seen to end, and only replacements are left at the end.
* **Word filter.** A sequential program, where any allocation and any `fopen`
  may fail, and the capacity is doubled before `realloc` has succeeded. Correct:
  the array is never overrun, exactly the words of the dictionary are replaced,
  every way out of `main` frees and closes what it has.

`PROJECT.json` lists these hazards one by one, at the line where each bites,
with the properties that would expose it.

## 2. Models and code

Every module begins with a comment that says what it abstracts. Names follow
the code; the entries of `map` in `PROJECT.json` give, for each definition, the
lines it stands for. A definition whose name is another one's with `_` and a
capitalised suffix is a *mutant*: a plausible bug, put next to the code it would
break, with which the named property is expected to fail.

| Module | Models | State ↔ code | Actions ↔ code |
|---|---|---|---|
| `Philosophers` | philosophers | `forks[f]` the owner of `forks[f]`, or no handle; `pc[p]` the next call of thread `p`; `mainPc`, `mainIndex` the loop of `main` and its variable | one per wait, release and statistics block; one per iteration of the loops of `main` |
| `DiningTable` | its abstract specification | `seat` away, hungry or eating | sit down, start eating, leave, close |
| `Analyzer` | analyzer | `mainPc`, `cur`, `entries` the recursion of `traverse_dir`; `agent`, `collector` process states; `readers`, `writers` who holds the ends of the pipe; `skipped` (history) the entries passed over | one per `fork`, `opendir`, `readdir`, `waitpid`, write, read and close, with their failures; `AgentSkips` and a branch of `Recurse` pass over an entry |
| `AgentPool` | its abstract specification | `working`, `finished`, `closed` | start, finish, close |
| `ShellSession` | a session | streams of pieces; `client`, `handler` the point of each loop; `shown` the screen since the last command; `background` what a command has left running | one per `send` and `recv`; a `recv` takes any prefix of what has arrived; the user ends the client; `BackgroundEnds` |
| `RemoteCommand` | its abstract specification | `asked`, `result`, `seen` | ask, execute, show, break, give up, leave |
| `ShellServer` | server process | `holders[c]`, `listeners` the processes with a copy of a socket; `inherited[c]` the sockets the commands of a session hold; `sigchld`, `inHandler` | accept, fork, close; enter, reap and leave the handler; `Popen`, end of a child, end of its commands |
| `ParallelSort` | sort | `array`, `indices`, `temp`, `thread`, `copy` what `qsort` has read | create, join, read and write of a fragment, one pass of the merge, copy, check |
| `Pipeline` | pipeline | `server[k]`, `client[k]`, `queue[k]` a named pipe; `pc[p]` the next call of a stage | one per pipe call with its failure; kill; start of a stage, wait for all |
| `SelfHealing` | self-healing window | `pc[p]` the point of each instance; `stateFile`, `opener` the file; `posted` queued `WM_CLOSE` | one per file call, message, and `CreateProcessW` with its failure; started and terminated from outside |
| `Dispatcher` | dispatcher, composed with `SelfHealing` | `children` the list; `dialog`, `target` the dialog that is open and what its handler refers to | the two buttons, the answer, the timer, `WM_DESTROY` |
| `WordFilter` | word filter | `words`, `capacity`, `allocated` the dictionary; `i`, `word_start`, `result` of `filter_line`; `open`, `heap` what has to be given back | one per `fopen`, `fgets` and `getline`; the loops of `filter_line` character by character; every allocation with its failure |
| `OverlappedIO` | file benchmark | `flight` operations in flight; `signalled` events and handles that are set; `done`, `lost` blocks; `handles` what is open | one per start, wait and error return of each test; `Complete` is the kernel |

`MC*` modules only extend a module (`MCAnalyzer` also defines a tree,
`MCWordFilter` texts and dictionaries); the constants are in the `.cfg` files.

Some variables are *rigid*: chosen by `Init` and never changed. They are how the
program is started (`currentStrategy`; `options`, `dictFile`, `input`) and what
may fail in an execution (`faults`), so that one run covers all of them.

Choices that matter:

* A sleep is a pure delay: a thread that sleeps has not taken its next step yet.
* The **analyzer** abstracts a line to the file it is about. `waitpid(-1)` takes
  any ended child, the collector included, as the code does. The tree does not
  change while it is traversed. With `entry` among the failures an agent's
  `malloc` or `lstat` may fail for a file, which is then not reported
  (`AgentSkips`), and the manager's for a subdirectory, which is then not
  visited (`Recurse`), both without an error; `skipped` remembers the files. A
  `readdir` that fails in the middle of a directory is that for all entries that
  remain.
* In **`ShellSession`** a command is one piece of the stream (one of at most
  1023 bytes arrives whole), a line of output is one piece, and the end byte is
  one; `Printed` stops at the first end byte as `printf("%s")` does, and
  `EndFound` looks only at the last byte, as the client does. Commands of all
  kinds occur: with output, without, with a failing `popen`, a lone carriage
  return, `exit`, and `exit` with a carriage return. The user may end the client
  at any time (`Interrupt`); if it has not read all that was sent to it, the
  connection is reset, and `HangUp` may lose the command the server has not read.
  A command may leave a process in the background that has inherited the
  connection; while that runs, the client sees no end of the stream.
* In **`ShellServer`** `Reap` may interrupt `main` between any two steps; a
  signal that arrives while one is pending is merged with it. The shell that
  `popen` forks gets copies of what the child holds, and a command may outlive
  the session (`Popen`, `CommandsEnd`); a client's connection is closed when its
  child and those have ended.
* `qsort` in **`ParallelSort`** reads its fragment in one step and writes it in a
  later one, so that overlapping fragments would lose values.
* **`Pipeline`** counts blocks; pipe semantics are those of `CreateNamedPipe`,
  `ConnectNamedPipe`, `CreateFile` and the errors the code can see. `Kill`
  closes any console window at any time.
* **`Dispatcher`** extends `SelfHealing`: a process of the list is an instance of
  the window, and `TerminateProcess` is an action on both. A dialog that only
  informs is the time before the next button; the one that asks is modelled,
  because its handler goes on afterwards. Ticks count to `MaxCounter`.
  `total` is a history variable: what the windows have counted, or `Unknown`
  after an event that may lose or double it. They are named, and there are no
  others: a call on the file that fails (an existing file that is not opened, not
  read or not deleted, a save that is not opened or not written); a window that
  has loaded a count and cannot be created; a second current instance; an
  instance killed while it holds the only copy.
* In **`WordFilter`** a character is a member of an alphabet with `isalpha`,
  `isspace` and `tolower` as constants; `fgets` cuts a line that is longer than
  the buffer, as the code lets it. `shown` and `lost` are history: which line
  each output came from and what a failed allocation has cost.
* **`OverlappedIO`** runs the five tests one after another, as `main` does, so
  that what a test leaves in flight meets the next one. The kernel is external:
  starting an operation clears its event (or the state of the file handle when
  it has none), a start that fails at once may have cleared it or not, its end
  sets it, and an operation that outlives the function
  that owns its buffer may crash the process. `MaxFailures` bounds the
  operations that fail in flight. A thread waits on the shared handle, so any
  completion wakes it.

## 3. Runs

| Run | Instance | What it shows |
|---|---|---|
| `phil_strategies` | 3 philosophers, each strategy, 2 rounds | `NoCircularWait`, `HandlesOutliveThreads`, `ForksMatchPoints`, refinement of `DiningTable`, `Termination` |
| `analyzer_faults` | 4 directories, 4 files, limit 2, pipe of 1 line; no failures; failing `fork` and `opendir`; failing `malloc` and `lstat` for an entry; all of these and a collector that may die | `CounterExact`, `ExitLeaves`, `ReportComplete`, `EofIsEnd`, refinement of `AgentPool`, `Termination` |
| `analyzer_wait` | same | *violation* of `NoChildLeft`, see section 6 |
| `session_commands` | 4 commands of 6 kinds, up to 3 lines each, with processes left in the background | `ReplyComplete`, refinement of `RemoteCommand`, `PrintsAnswered` |
| `session_hang` | 2 commands | *violation* of `Responsive`, see section 6 |
| `server_forks` | 3 clients, `fork` may fail, commands that outlive their session | `OwnConnectionOnly`, `ListenerPrivate`, `NoLostChild`, `ClientsServed` |
| `sort_threads` | all arrays of 1 to 4 of 3 values, 1 to 3 threads | `MergesSorted`, `MinIndexFound`, `NothingLost`, `EndsSorted` |
| `pipeline_kills` | 5 blocks, pipes of 2, every stage killable | `ShownInOrder`, `AllOrNothing`, `OnlyConnectWaits` |
| `overlapped_tests` | 4 blocks, 2 slots, 2 threads, failing calls that clear the handle or not, up to 2 failures in flight | `BlockOnce`, `NothingForgotten`, `CountedIsDone`, `OneOpPerBuffer`, `HandlesClosed`, `Termination` |
| `overlapped_close` | same, without failures | *violation* of `FinalWait`, see section 6 |
| `dispatcher_heals` | 2 instances, 2 of which the dispatcher may start, a counter of 0 or 1 | `OneHeir`, `CountKept`, `HandlesValid`, `OnlyHeirsLeft`, `CloseIsSeen` |
| `word_filter` | 6 characters, dictionaries of up to 3 lines, texts of up to 2 lines, buffer of 4, capacity of 1; all options and failures | `WordsFit`, `OutputFaithful`, `DictionaryObeyed`, `CleanExit` |

Each module has one type invariant, which is proved (section 5). Every property
of a passing run has a mutant that breaks it under the same configuration.

Six more properties are stated in the modules and proved, without a run of their
own: `NoCircularWait` and `StepsAreFew` of `Analyzer` and of `Pipeline`,
`NoLostCompletion` of `OverlappedIO` and `OnlyUnansweredHangs` of `ShellSession`.
They are what the liveness properties of the runs rest on: that nobody waits for
what cannot come, and that there are finitely many steps.

Why the bounds are enough:

* **Philosophers.** Three is the smallest ring in which a circular wait differs
  from a wait of two for each other, and an odd one, as the program's five. A
  wait is within a round; two rounds with timeouts let a philosopher that gave
  up meet one that did not. Every larger number is covered by proof.
* **Analyzer.** The tree has a nested directory, an empty one and one with two
  files; the limit is below the number of directories, so that the traversal
  waits, and the pipe holds less than one agent writes, so that agents block.
  The sets of failures are separate because a property may ask for more when
  less can fail: without failures every file is in the report, and where only
  entries can be passed over, the files of a directory are missing one by one.
  Other trees and limits are covered by proof.
* **Session.** A client gets out of step by a command without output and shows
  it at a later one: four commands allow two of each before and after. Up to
  three lines let a `recv` split a reply at every kind of place.
* **Server.** Three clients: one served, one ending, one in the backlog; merged
  signals need two ends. A command that outlives its session meets the fork for
  the next client.
* **Sort.** Four elements and three threads give a rest; fewer elements than
  threads give empty fragments; three values give ties. `IntMax` is the largest
  value, so that a subtraction that wraps would be seen. Larger sizes are
  covered by proof.
* **Pipeline.** Five blocks is the program's number; a capacity below it makes
  writers block (the program's capacity of ten never does, so this covers more).
  Other numbers are covered by proof.
* **Overlapped I/O.** Four blocks and two slots give a first wave, two restarts
  and an end; two threads wake each other. Two failures in flight distinguish
  the retry of a write from the end of a read and let one test fail after
  another. Larger files, and more slots and threads, are covered by proof.
* **Dispatcher.** Two instances are a window and its replacement, or two windows
  side by side that use one file; the second may be started by the dispatcher or
  by the first. An instance with *two* replacements, the first conjunct of
  `OneHeir`, takes three: with two, the second conjunct carries the property (an
  instance that has been replaced has left its loop). The same configuration
  with three instances passes too, with 749130 states, but takes longer than
  five minutes. Safety for every number of instances is covered by proof;
  `CloseIsSeen` is about one instance and the list.
* **Word filter.** The capacity of 1 must grow for the second word, and again for
  the third, so that a second `realloc` fails after a first that did not; lines
  of the dictionary are empty once trimmed, just fit the buffer or are cut by
  it; texts begin and end with a word, or have no newline. Every other alphabet,
  dictionary and text is covered by proof.

Deadlock is not checked where the system may really stop: the SIMPLE strategy
deadlocks; a remote-shell server waits for clients, and a client that the protocol
has left waiting waits for ever; so does a stage of the pipeline in
`ConnectNamedPipe`; nothing need happen once the dispatcher and all windows
have ended; and the word filter ends.

## 4. Fairness

All fairness is weak and per process: the scheduler runs what can run.

* `Philosophers`: `main` and each thread. A mutex that stays free is given to a
  waiter; weak fairness does not promise one to a philosopher that is always
  overtaken, and nothing here needs that. Rounds are bounded by `MaxRounds`.
* `Analyzer`: `main`, the collector and each agent, but not their failures: an
  agent that blocks on a full pipe does not get away by skipping the file, nor a
  collector that waits by dying.
* `ShellSession`: `recv` of the client and the handler; TCP delivers. The user
  is under no obligation to type, nor to end the client (`Interrupt`), and what a
  command leaves in the background need not end (`BackgroundEnds`).
* `ShellServer`: `main`, the handler, and a child's closing of the listener. A
  session may last for ever, and so may a command: `Exit` and `CommandsEnd` have
  no fairness, and clients are served all the same.
* `Pipeline`: the coordinator and each stage; `Kill` and failures have none.
  "Press any key" is taken to be answered.
* `OverlappedIO`: `main`, each thread, and the kernel, which ends some operation
  as long as one is in flight. `Termination` says that the program ends or is
  in one of two states in which it waits for ever, and which are described
  exactly: `Starved` and `Stranded`, both after a start that failed at once
  (section 6).
* `Dispatcher`: its timer, and for each instance the calls its thread makes and
  the `WM_CLOSE` that was posted to it. Users start, close, answer and confirm
  nothing unless they want to: `Close` and `DismissBox` by hand, the buttons and
  failing calls have no fairness, and `CloseIsSeen` allows for a message box that
  nobody answers.
* `ParallelSort` and `WordFilter` have safety properties only.

## 5. Proofs

| Module | Theorems | For |
|---|---|---|
| `PhilosophersProofs` | `TypeCorrect`, `OwnershipCorrect` (`ForksMatchPoints`), `NoCircularWaitCorrect` (`NoCircularWait`), `ReportCorrect` (`ReportIsFinal`), `HandlesCorrect` (`HandlesOutliveThreads`), `TableImplemented` (refinement of `DiningTable`) | every number of philosophers ≥ 2, strategy and bound |
| `AnalyzerProofs` | `TypeCorrect`, `CounterCorrect`, `LimitCorrect` (`AgentLimit`), `ExitCorrect` (`ExitLeaves`), `ReliableExit` (`NoChildLeft` while the collector lives), `EofCorrect` (`EofIsEnd`), `ReportCorrect` (`ReportComplete`), `PoolImplemented` (refinement of `AgentPool`), `NeverStuck` (`NoCircularWait`), `StepsCounted` (`StepsAreFew`) | every finite tree, limit, pipe capacity and set of failures |
| `ShellProofs` | `TypeCorrect`, `DescriptorsCorrect` (`OwnConnectionOnly`), `ListenerCorrect` (`ListenerPrivate`), `ReapingCorrect` (`NoLostChild`) | every set of clients, with or without failing forks |
| `ShellProofs` | `SessionTypeCorrect`, `ReplyCorrect` (`ReplyComplete`), `HangsExplained` (`OnlyUnansweredHangs`), `RemoteImplemented` (refinement of `RemoteCommand`) | every number and kind of commands, and of lines |
| `ParallelSortProofs` | `TypeCorrect`, `FragmentsSorted` (`MergesSorted`), `MergeFindsElement` (`MinIndexFound`), `SortsArray` (`EndsSorted`), `SortLosesNothing` (`NothingLost`) | every array size, number of threads and values that fit an `int` |
| `PipelineProofs` | `TypeCorrect`, `OrderCorrect` (`ShownInOrder`), `EndCorrect` (`AllOrNothing`), `OnlyConnectBlocks` (`NoCircularWait`), `StepsCounted` (`StepsAreFew`) | every number of blocks, capacity and set of stages that may be killed |
| `OverlappedIOProofs` | `TypeCorrect`, `BlocksCorrect` (`BlockOnce`), `CoverageCorrect` (`NothingForgotten`), `CountCorrect` (`CountedIsDone`), `BuffersCorrect` (`OneOpPerBuffer`), `HandlesCorrect` (`HandlesClosed`), `CompletionsSeen` (`NoLostCompletion`) | every file size, number of slots, threads and failures |
| `DispatcherProofs` | `TypeCorrect`, `OneHeirCorrect`, `CountKeptCorrect`, `HandlesValidCorrect`, `OnlyHeirsLeftCorrect` | every number of instances and starts, and every bound of the counter |
| `WordFilterProofs` | `TypeCorrect`, `WordsFitCorrect`, `OutputCorrect` (`OutputFaithful`), `OneStarPerLetter`, `DictionaryCorrect` (`DictionaryObeyed`), `ExitCorrect` (`CleanExit`) | every alphabet, buffer size, capacity, dictionary and text |

Each proof module defines an inductive invariant `IInv` (`SessionInv` for the
session) from named parts, proves
`Init => IInv` and one lemma per action that the action preserves it, and derives
the checked properties.

* **Philosophers.** `ForksMatchPoints` alone is not inductive: releasing a fork
  needs to know the handle is still open, so `MainProgress` ties the loop of
  `main` to the points the threads can be at. In the asymmetric strategy no
  circular wait is possible because who waits for a second fork waits, with odd
  number, for one its even neighbour took second (`OddWaits`), or, with even
  number, for one that another took second after at most two more steps along
  the ring (`EvenWaits`; only philosopher 0 of an odd ring sits beside another
  even one): that owner is past its waits. In the timeout
  strategy a blocked philosopher always has its timeout. The SIMPLE strategy,
  with which the program is compiled, does have a circular wait; the comment at
  `main.cpp:63` and the report say so, and it is there to be shown. What is
  proved of it is that it has no other: all hold their left fork.
* **Analyzer.** The counter is exact because a directory is entered once
  (`TraversalInv`: what is still to be visited has no agent, and none has one
  before its parent) and because `waitpid(-1)` finds the collector ended while
  agents are counted only if it died (`WriteEndInv`: `main` holds the write end
  until then), and then once. That one agent is in every statement
  (`EarlyReap`), and section 6 shows what it costs. The report is complete by
  three further invariants: a line is with its agent, in the pipe or in the
  report, and in one of them only (`LineInv`); an agent that ended has reported
  all but what it skipped, or nothing, because a collector that lives holds the
  read end open while a write end is open (`ReportInv`); and without failures a
  directory is not passed over (`VisitInv`), for what `readdir` has still to
  give is in a `traverse_dir` that is still active. `OnStack` says "active"
  without recursion: `d` is in every set that holds `cur` and, with each
  directory, the one it is in. That every directory is reached is then
  `TreeAssumption`, by which the set of directories with an agent is all of
  them. Nobody waits for ever by `HoldersInv`, which says who can hold an end of
  the pipe: an agent that blocks on a full pipe has a collector that can read, a
  collector that blocks on an empty one has `main` or an agent that can write or
  close, and `main` waits for one of them. `Work` counts what is left to do; it
  shrinks with each step because a directory is entered once and left once, and
  a tree has no circle (`NoCircle`).
* **Session.** A client out of step shows the text of an earlier command with a
  later one, so that "the reply" is not what lies between two prompts.
  `StreamInv` says what the stream is: leftovers of earlier commands, which are
  messages and never lines; then the lines of the last command that have been
  sent and not shown, in order; then, perhaps, its end and the text behind the
  end. `CommandInv` says that at most one command is under way, sent after the
  reply before it was complete up to its end. A `recv` of any length takes a
  prefix of that (`ShowsMore`), and the last byte it compares is the end only if
  all lines are before it. The refinement follows: what is shown of a command
  grows by lines that have been produced (`Seen`).
* **Server.** `main` serves one connection at a time, and those in the backlog
  are distinct and have no process. A child closes its copy of the listener
  before it runs a command, and `main` holds no other connection when it forks,
  so that what `popen` copies is the session's own connection.
* **Sort.** The fragments tile the array (`Fragments`, by division with rest);
  the merged elements are as many as the passes of the loop
  (`Cardinality(Merged) = i`), so while `i < size` one is left; and everything
  merged is below everything left (`TempInOrder`). Nothing is lost because
  `LossInv` carries a bijection from the places of the array to those of the
  input, and one from the places of `temp` to the merged elements; what `qsort`
  has read is what it finds when it writes, since no other thread writes there.
* **Pipeline.** `StageInv` ties the point of each stage to the ends it holds, and
  `FlowInv` says where each block is: the numbers run without a gap through what
  is shown, the second queue, the block the processor holds and the first queue,
  as long as somebody reads. `EndInv` says that an end closed without a kill was
  closed before the first block or after the last one. `LinkInv` says
  that an end is open only while its stage is at work: who waits in `read` or
  `write` has somebody at the other end, who can run or waits further along the
  row. `Work` counts the points a stage has still to pass, and each block for the
  two writes and two reads that are left of it.
* **Overlapped I/O.** One invariant per test: the sequential tests have at most
  one operation in flight, for the block `total` (`SequentialInv`); of the
  threads, a number below `total` is started or taken by exactly one thread that
  is about to start it (`Taken`, `ThreadInv`); the asynchronous test has one
  operation per slot, of which the event is not set (`SlotInv`). `FlightInv` is
  why they can be taken one by one: only the asynchronous test leaves operations
  behind, and those are told apart. A wait ends because an event or a handle
  that is not set has an operation in flight that will set it. A thread waits on
  the handle of the file, which another one may clear in the meantime, but who
  clears it has an operation in flight itself, or its start has failed
  (`ThreadWake`); a slot of the asynchronous test whose event will never be set
  has lost a block (`AsyncWake`), so that only a test that has lost as many
  blocks as it has slots can starve. A start that fails may clear the handle and
  leave nothing in flight: `NoLostCompletion` therefore allows `Stranded`, in
  which no operation of the test is in flight, a start has failed, and each
  thread waits or has ended.
* **Dispatcher.** `FileInv`, `WarnedInv` and `CountInv` describe the window: who
  has the file open, when a message box can be shown, and that the count in
  memory is not below `total`. `HeirInv` and `ListTrue` tie the list to the
  processes: what is started and not in the list has a parent, and what is
  marked as ended is.
* **Word filter.** `LineInv` is the loop invariant of `filter_line`: the result
  holds the first `i - 1` (in a word: `word_start - 1`) characters, each already
  as `Starred` demands (`Done`): a star for each letter of a forbidden word,
  each other character as it is. `Censored`, the promise behind
  `OutputFaithful`, leaves the number of stars open; `StarredIsCensored` shows
  it to follow, and `OneStarPerLetter` states the exact output. `ArrayInv` holds
  since a failed `realloc` ends the loading; `DictInv` says that what has been
  read is stored unless a word was lost; `ResourceInv` lists what is open and
  allocated at each point.

Only model-checked: liveness (`Termination` of three modules, `PrintsAnswered`,
`ClientsServed`, `OnlyConnectWaits`, `CloseIsSeen`), because what fairness promises
is said with `ENABLED`, which the provers do not handle. `NoCircularWait` and
`StepsAreFew` are the part of it that is about the code: a step is always
possible, and there are finitely many. All other properties of the runs that
pass are proved.

The assumptions are the named `ASSUME`s of the modules. They say that numbers are
positive where the code has them so, that the tree is one (`TreeAssumption`, for
`ReportCorrect` and `StepsCounted`) with finitely many files (`FilesAssumption`),
that values fit an `int`, and that `*` is not a letter.

## 6. Where code and documents disagree

* **`analyzer_wait`.** The report (`sem2/LR5/Lab5_Report/osisp5.typ:32`) says
  `main` waits for the end of all processes. When the collector dies early the
  manager's `waitpid(-1)` reaps it as if it were an agent
  (`manager.c:20`), `active_agents` is one too small, and the last loop stops
  with an agent running; `main` then fails in `waitpid` for the collector and
  exits.
* **`session_hang`.** The report (`sem2/LR7/Lab7_Report/osisp7.typ:48`) says the
  client reads until it meets the byte 0x00. It compares only the last byte of
  what one `recv` returned (`client.c:74`): when `(no output)` arrives with the
  end byte, the end is not last, and the client waits for ever. When the two
  arrive apart the text is shown under the next command instead. `session_commands`
  shows that a client out of step in this way still shows each line of output
  under its own command, and that a command that prints is still answered.
* **`overlapped_close`.** The report (`sem1/LR2/Lab2_Report/main.typ:34`) says
  that a final wait for the operations that remain follows the loop. There is
  none: the loop ends when the last block has been *started* (`main.cpp:516`)
  and `CloseHandle` follows (539), with operations in flight whose events,
  `OVERLAPPED`s and buffers are used again for reading. For that reason
  `OneOpPerBuffer` is a property of the writing phase only, and an operation
  that outlives its test may crash the model (`Complete`).

Differences that no run is about:

* The report of the word filter (`sem2/LR4/Lab4_Report/osisp4.typ:10`) says
  forbidden words are replaced by the sequence `***`, and the code writes one
  asterisk for each letter (`filter.c:37`). `OutputFaithful` is neutral in this:
  it asks that a forbidden word becomes asterisks, whatever their number, and
  all other characters stay. What the code writes exactly is the theorem
  `OneStarPerLetter`, which contradicts the report for every word that does not
  have three letters.
* The report of the self-healing window
  (`sem1/LR1/Lab1_Report/main.typ:20`) says the state file is deleted after it
  was read successfully. The code ignores the result of `ReadFile` and deletes
  it in any case (`main.cpp:142-145`): a read that fails loses the count.

Two states in which the overlapped benchmark waits for ever, which no document
speaks of:

* `Starved`: the asynchronous test ignores a `WriteFile` that fails at once
  (`main.cpp:510`), and waits for ever when it has lost all its slots that way.
* `Stranded`: a thread waits on the handle of the file (`main.cpp:294`, 322), its
  operation has completed, but before it runs again another thread's `ReadFile`
  or `WriteFile` clears the handle and fails at once (291, 319), and that thread
  leaves. Nobody sets the handle again, and `main` waits for the threads.

## 7. What is not modelled

Of modelled components: the text of lines and messages, time and statistics of
time; in the session, commands longer than the server's buffer, lines longer
than the client's and NUL bytes in what a command prints; in the sort, a failed
`malloc`; in the benchmark, a failed `CreateThread` or `CreateEvent`; in the
dispatcher, the list view, and processes other than self-healing windows; in the
word filter, NUL bytes, which end a C string early, and failures to write the
output.

Components that are not modelled: the pastebin client formats a text and calls
`curl`, and CSV statistics is one `awk` program with floating-point arithmetic:
neither keeps a state. The network monitor and the system information program
only print what the system reports. The XOR signature is a fold that the
repository's unit tests cover.

## 8. Plan

Modelled, in this order: `Philosophers` with `DiningTable`; `Analyzer` with
`AgentPool`; `ShellSession` with `RemoteCommand`; `ShellServer`; `ParallelSort`;
`Pipeline`; `OverlappedIO`; `SelfHealing` composed with `Dispatcher`;
`WordFilter`. All have proofs.

What is left:

1. Bounds on the steps, as for `Analyzer` and `Pipeline`, for `Philosophers` and
   `OverlappedIO`.
2. A composition of `ShellServer` and `ShellSession`: each child runs a session,
   and the end of one is the other's `Exit`.
