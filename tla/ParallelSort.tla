---------------------------- MODULE ParallelSort ----------------------------
(***************************************************************************)
(* sem2/LR6: sorting with threads.  main cuts the array in one fragment    *)
(* per thread, each thread sorts its own in place with qsort, main joins   *)
(* them, merges the fragments into temp, copies temp back and checks the   *)
(* order.  qsort is a library function: it reads its fragment and later    *)
(* writes the same values back in order, and what others write to the      *)
(* fragment in between is lost.                                            *)
(***************************************************************************)
EXTENDS Integers, Sequences, FiniteSets, Functions

CONSTANTS
    Values,             \* the values in the array, rand() % 1000000
    IntMax,             \* the greatest int
    MaxSize, MaxThreads \* bounds on the arguments of main

ASSUME SortAssumption ==
    /\ IntMax \in Nat /\ Values \subseteq 0 .. IntMax
    /\ MaxSize \in Nat \ {0} /\ MaxThreads \in Nat \ {0}

\* (A name with an underscore before a capital is a mutant: a plausible bug in
\* the code that the definition after it models.)

VARIABLES
    size, threads_count,    \* the arguments
    input,                  \* what the array was filled with
    array,
    thread,                 \* "none", "created", "sorting" or "done"
    copy,                   \* what each thread has read of its fragment
    mainPc, i,              \* the loop main is in, and its variable
    indices,                \* next element of each fragment to merge
    temp,                   \* merged so far
    sorted                  \* the verdict main prints

arguments == <<size, threads_count, input>>
threadVars == <<thread, copy>>
mergeVars == <<indices, temp>>
vars == <<arguments, array, threadVars, mainPc, i, mergeVars, sorted>>

Threads == 0 .. threads_count - 1
Places == 0 .. size - 1

\* The subtraction wraps around in an int.
compare_ints(a, b) ==
    LET d == a - b
    IN  IF d > IntMax THEN d - 2 * (IntMax + 1)
        ELSE IF d < -IntMax - 1 THEN d + 2 * (IntMax + 1) ELSE d

chunk_size == size \div threads_count
FragmentStart(t) == t * chunk_size

FragmentEnd_WithoutRest(t) == (t + 1) * chunk_size
FragmentEnd_Inclusive(t) == IF t = threads_count - 1 THEN size ELSE (t + 1) * chunk_size + 1

\* The last fragment takes what the division leaves; with more threads than
\* elements it is the only one that is not empty.
FragmentEnd(t) == IF t = threads_count - 1 THEN size ELSE (t + 1) * chunk_size

Fragment(t) == FragmentStart(t) .. FragmentEnd(t) - 1

Init ==
    /\ size \in 1 .. MaxSize /\ threads_count \in 1 .. MaxThreads
    /\ input \in [Places -> Values] /\ array = input
    /\ thread = [t \in Threads |-> "none"] /\ copy = [t \in Threads |-> << >>]
    /\ mainPc = "create" /\ i = 0
    /\ indices = [t \in Threads |-> FragmentStart(t)] /\ temp = << >>
    /\ sorted = TRUE

-----------------------------------------------------------------------------
(* sort_fragment *)

QsortReads(t) ==
    /\ thread[t] = "created"
    /\ thread' = [thread EXCEPT ![t] = "sorting"]
    /\ copy' = [copy EXCEPT ![t] = [k \in Fragment(t) |-> array[k]]]
    /\ UNCHANGED array

InOrder(a, S) == \A k, l \in S : k < l => compare_ints(a[k], a[l]) <= 0

QsortWrites(t) ==
    /\ thread[t] = "sorting"
    /\ thread' = [thread EXCEPT ![t] = "done"]
    /\ \E p \in Bijection(Fragment(t), Fragment(t)) :
          array' = [k \in Places |-> IF k \in Fragment(t) THEN copy[t][p[k]] ELSE array[k]]
    /\ InOrder(array', Fragment(t))
    /\ UNCHANGED copy

\* Threads end with the process.
sort_fragment(t) ==
    /\ mainPc \notin {"exitSuccess", "exitFailure"}
    /\ QsortReads(t) \/ QsortWrites(t)
    /\ UNCHANGED <<arguments, mainPc, i, mergeVars, sorted>>

-----------------------------------------------------------------------------
(* main *)

\* pthread_create fails for lack of resources: main returns at once.
CreateThread ==
    /\ mainPc = "create" /\ i < threads_count
    /\ \/ /\ thread' = [thread EXCEPT ![i] = "created"]
          /\ i' = i + 1 /\ UNCHANGED mainPc
       \/ /\ mainPc' = "exitFailure"
          /\ UNCHANGED <<thread, i>>
    /\ UNCHANGED <<arguments, array, copy, mergeVars, sorted>>

AllCreated ==
    /\ mainPc = "create" /\ i = threads_count
    /\ mainPc' = "join" /\ i' = 0
    /\ UNCHANGED <<arguments, array, threadVars, mergeVars, sorted>>

Join_WithoutWaiting ==
    /\ mainPc = "join" /\ i < threads_count
    /\ i' = i + 1
    /\ UNCHANGED <<arguments, array, threadVars, mainPc, mergeVars, sorted>>

Join ==
    /\ mainPc = "join" /\ i < threads_count
    /\ thread[i] = "done"
    /\ i' = i + 1
    /\ UNCHANGED <<arguments, array, threadVars, mainPc, mergeVars, sorted>>

AllJoined ==
    /\ mainPc = "join" /\ i = threads_count
    /\ mainPc' = "merge" /\ i' = 0
    /\ UNCHANGED <<arguments, array, threadVars, mergeVars, sorted>>

\* Fragments with elements left, and those whose next element is the least.
Left == {t \in Threads : indices[t] < FragmentEnd(t)}
MinIndices_FirstLeft == {t \in Left : \A u \in Left : t <= u}
MinIndices == {t \in Left : \A u \in Left : array[indices[t]] <= array[indices[u]]}

\* One pass of the outer loop of merge_sorted_fragments; the first of equal
\* elements is taken.  Without a fragment left the code writes out of bounds.
MergeNext ==
    /\ mainPc = "merge" /\ i < size
    /\ \E t \in MinIndices :
          /\ \A u \in MinIndices : t <= u
          /\ temp' = Append(temp, array[indices[t]])
          /\ indices' = [indices EXCEPT ![t] = @ + 1]
    /\ i' = i + 1
    /\ UNCHANGED <<arguments, array, threadVars, mainPc, sorted>>

CopyBack ==
    /\ mainPc = "merge" /\ i = size
    /\ array' = [k \in Places |-> temp[k + 1]]
    /\ mainPc' = "check" /\ i' = 0
    /\ UNCHANGED <<arguments, threadVars, mergeVars, sorted>>

CheckOrder ==
    /\ mainPc = "check" /\ mainPc' = "exitSuccess"
    /\ sorted' = \A k \in 0 .. size - 2 : ~(array[k] > array[k + 1])
    /\ UNCHANGED <<arguments, array, threadVars, i, mergeVars>>

main == \/ CreateThread \/ AllCreated \/ Join \/ AllJoined
        \/ MergeNext \/ CopyBack \/ CheckOrder

Exited == mainPc \in {"exitSuccess", "exitFailure"} /\ UNCHANGED vars

Next == main \/ (\E t \in Threads : sort_fragment(t)) \/ Exited

Spec == Init /\ [][Next]_vars

-----------------------------------------------------------------------------
(* Properties. *)

TypeOK ==
    /\ size \in 1 .. MaxSize /\ threads_count \in 1 .. MaxThreads
    /\ input \in [Places -> Values] /\ array \in [Places -> Values]
    /\ thread \in [Threads -> {"none", "created", "sorting", "done"}]
    /\ DOMAIN copy = Threads
    /\ \A t \in Threads : thread[t] = "sorting" => copy[t] \in [Fragment(t) -> Values]
    /\ mainPc \in {"create", "join", "merge", "check", "exitSuccess", "exitFailure"}
    /\ i \in 0 .. (IF mainPc = "merge" THEN size ELSE threads_count)
    /\ indices \in [Threads -> 0 .. size]
    /\ \A t \in Threads : indices[t] \in FragmentStart(t) .. FragmentEnd(t)
    /\ temp \in Seq(Values) /\ sorted \in BOOLEAN

\* main merges only when no thread writes to the array any more, and finds
\* every fragment in order.
MergesSorted ==
    mainPc = "merge" =>
        \A t \in Threads : thread[t] = "done" /\ InOrder(array, Fragment(t))

\* As long as elements are missing in temp a fragment has one to give, so that
\* the merge never increments indices[-1].
MinIndexFound == mainPc = "merge" /\ i < size => MinIndices # {}

Count(a, S, v) == Cardinality({k \in S : a[k] = v})

\* No thread overwrites what another one sorts: what is in the array, once no
\* thread is at work, is what was there at the beginning.
NothingLost ==
    (\A t \in Threads : thread[t] # "sorting") =>
        \A v \in Values : Count(array, Places, v) = Count(input, Places, v)

\* A run that ends well has sorted the array, and says so; the check agrees
\* with the order it is about.
EndsSorted == mainPc = "exitSuccess" => sorted /\ \A k, l \in Places : k < l => array[k] <= array[l]
=============================================================================
