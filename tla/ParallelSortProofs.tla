------------------------- MODULE ParallelSortProofs -------------------------
(***************************************************************************)
(* The parallel sort, for every size, number of threads and array: the     *)
(* merge finds every fragment in order and never runs out of elements, and *)
(* its result is in order and a rearrangement of what it was given.  The   *)
(* fragments are disjoint and cover the array, so that the elements merged *)
(* so far are as many as the passes of the merge loop, and none is taken   *)
(* twice.                                                                  *)
(***************************************************************************)
EXTENDS ParallelSort, FiniteSetTheorems, TLAPS

\* How far joining has come, and what a thread that is done has achieved, until
\* the array is overwritten.
ThreadInv ==
    /\ mainPc = "join" => \A t \in Threads : t < i => thread[t] = "done"
    /\ mainPc \in {"merge", "check", "exitSuccess"} => \A t \in Threads : thread[t] = "done"
    /\ mainPc \in {"create", "join", "merge"} =>
           \A t \in Threads : thread[t] = "done" => InOrder(array, Fragment(t))

Merged == {k \in Places : \E t \in Threads : FragmentStart(t) <= k /\ k < indices[t]}

TempInOrder ==
    /\ \A k, l \in 1 .. Len(temp) : k < l => temp[k] <= temp[l]
    /\ \A k \in 1 .. Len(temp), t \in Left : temp[k] <= array[indices[t]]

ArrayInOrder == \A k, l \in Places : k < l => array[k] <= array[l]

MergeInv ==
    /\ mainPc \in {"create", "join"} =>
           temp = << >> /\ \A t \in Threads : indices[t] = FragmentStart(t)
    /\ mainPc = "merge" => Len(temp) = i /\ Cardinality(Merged) = i /\ TempInOrder
    /\ mainPc \in {"check", "exitSuccess"} => ArrayInOrder
    /\ mainPc = "exitSuccess" => sorted

IInv == TypeOK /\ ThreadInv /\ MergeInv

-----------------------------------------------------------------------------
(* Arithmetic of the fragments. *)

LEMMA Division ==
    ASSUME NEW n \in Nat, NEW d \in Nat \ {0}
    PROVE  n \div d \in Nat /\ d * (n \div d) <= n
OBVIOUS

LEMMA Multiples ==
    ASSUME NEW c \in Nat, NEW a \in Nat, NEW b \in Nat, a <= b
    PROVE  a * c <= b * c /\ a * c \in Nat
<1>1. PICK d \in Nat : b = a + d
  <2>1. b - a \in Nat /\ b = a + (b - a) OBVIOUS
  <2> QED BY <2>1
<1>2. b * c = a * c + d * c BY <1>1
<1>3. d * c >= 0 /\ d * c \in Nat /\ a * c \in Nat OBVIOUS
<1> QED BY <1>2, <1>3

\* Every element is in exactly one fragment, with more threads than elements too.
LEMMA Fragments ==
    ASSUME size \in Nat \ {0}, threads_count \in Nat \ {0}
    PROVE  /\ \A t \in Threads : /\ FragmentStart(t) \in 0 .. size
                                 /\ FragmentEnd(t) \in FragmentStart(t) .. size
           /\ \A t, u \in Threads : t < u => FragmentEnd(t) <= FragmentStart(u)
           /\ \A k \in Places : \E t \in Threads : k \in Fragment(t)
<1> DEFINE c == chunk_size
           T == threads_count
<1>1. c \in Nat /\ T * c <= size BY Division DEF chunk_size
<1> HIDE DEF c
<1>2. \A a, b \in Nat : a <= b => a * c <= b * c /\ a * c \in Nat BY <1>1, Multiples
<1>3. \A t \in Threads : /\ FragmentStart(t) = t * c /\ t \in Nat /\ t + 1 \in Nat /\ t + 1 <= T
                         /\ FragmentEnd(t) = IF t = T - 1 THEN size ELSE (t + 1) * c
  BY DEF FragmentStart, FragmentEnd, Threads, c
<1>4. \A t \in Threads : /\ FragmentStart(t) \in 0 .. size
                         /\ FragmentEnd(t) \in FragmentStart(t) .. size
  <2> SUFFICES ASSUME NEW t \in Threads
               PROVE  FragmentStart(t) \in 0 .. size /\ FragmentEnd(t) \in FragmentStart(t) .. size
      OBVIOUS
  <2>1. t * c <= (t + 1) * c /\ (t + 1) * c <= T * c /\ t * c \in Nat /\ (t + 1) * c \in Nat
    BY <1>2, <1>3
  <2>2. t * c <= size /\ (t + 1) * c <= size
    <3>1. T * c \in Nat BY <1>2
    <3> QED BY <2>1, <3>1, <1>1
  <2> QED BY <2>1, <2>2, <1>3
<1>5. \A t, u \in Threads : t < u => FragmentEnd(t) <= FragmentStart(u)
  <2> SUFFICES ASSUME NEW t \in Threads, NEW u \in Threads, t < u
               PROVE  FragmentEnd(t) <= FragmentStart(u)
      OBVIOUS
  <2>1. t # T - 1 /\ t + 1 <= u BY DEF Threads
  <2>2. (t + 1) * c <= u * c BY <2>1, <1>2, <1>3
  <2> QED BY <2>1, <2>2, <1>3
<1>6. ASSUME NEW k \in Places PROVE \E t \in Threads : k \in Fragment(t)
  <2>1. CASE k >= (T - 1) * c
    <3>1. T - 1 \in Threads BY DEF Threads
    <3>2. FragmentStart(T - 1) = (T - 1) * c /\ FragmentEnd(T - 1) = size BY <3>1, <1>3
    <3>3. (T - 1) * c \in Nat BY <1>2
    <3> QED BY <2>1, <3>1, <3>2, <3>3 DEF Fragment, Places
  <2>2. CASE k < (T - 1) * c
    <3>1. c # 0 BY <2>2, <1>1 DEF Places
    <3> DEFINE t == k \div c
    <3>2. t \in Nat /\ t * c <= k /\ k < (t + 1) * c BY <3>1, <1>1 DEF Places
    <3> HIDE DEF t
    <3>3. t < T - 1
      <4>1. CASE t >= T - 1
        <5>1. (T - 1) * c <= t * c BY <4>1, <3>2, <1>2
        <5>2. t * c \in Nat /\ (T - 1) * c \in Nat BY <1>2, <3>2
        <5> QED BY <5>1, <5>2, <3>2, <2>2 DEF Places
      <4> QED BY <4>1, <3>2
    <3>4. t \in Threads BY <3>2, <3>3 DEF Threads
    <3>5. FragmentStart(t) = t * c /\ FragmentEnd(t) = (t + 1) * c BY <3>3, <3>4, <1>3
    <3>6. t * c \in Nat /\ (t + 1) * c \in Nat BY <1>2, <3>2
    <3> QED BY <3>2, <3>4, <3>5, <3>6 DEF Fragment, Places
  <2>3. (T - 1) * c \in Nat BY <1>2
  <2> QED BY <2>1, <2>2, <2>3 DEF Places
<1> QED BY <1>4, <1>5, <1>6

LEMMA ValuesNat == \A v \in Values : v \in Nat
BY SortAssumption

\* compare_ints orders the values it is given, since their difference is an int.
LEMMA CompareInts ==
    ASSUME NEW a \in Values, NEW b \in Values
    PROVE  compare_ints(a, b) <= 0 <=> a <= b
BY SortAssumption DEF compare_ints

-----------------------------------------------------------------------------
(* Steps that leave the arguments alone leave the fragments where they are. *)

LEMMA TypeShapes ==
    ASSUME TypeOK
    PROVE  /\ size \in Nat \ {0} /\ threads_count \in Nat \ {0}
           /\ \A t \in Threads : /\ FragmentStart(t) \in 0 .. size
                                 /\ FragmentEnd(t) \in FragmentStart(t) .. size
                                 /\ Fragment(t) \subseteq Places
           /\ \A t, u \in Threads : t < u => FragmentEnd(t) <= FragmentStart(u)
           /\ \A t, u \in Threads : t # u => Fragment(t) \cap Fragment(u) = {}
           /\ \A k \in Places : \E t \in Threads : k \in Fragment(t)
           /\ \A t \in Threads : t \in Nat
<1>1. size \in Nat \ {0} /\ threads_count \in Nat \ {0} BY SortAssumption DEF TypeOK
<1>2. /\ \A t \in Threads : /\ FragmentStart(t) \in 0 .. size
                            /\ FragmentEnd(t) \in FragmentStart(t) .. size
      /\ \A t, u \in Threads : t < u => FragmentEnd(t) <= FragmentStart(u)
      /\ \A k \in Places : \E t \in Threads : k \in Fragment(t)
  BY <1>1, Fragments
<1>3. \A t \in Threads : t \in Nat BY <1>1 DEF Threads
<1>4. \A t \in Threads : Fragment(t) \subseteq Places BY <1>1, <1>2 DEF Fragment, Places
<1>5. ASSUME NEW t \in Threads, NEW u \in Threads, t < u
      PROVE  Fragment(t) \cap Fragment(u) = {}
  <2>1. FragmentEnd(t) <= FragmentStart(u) /\ FragmentEnd(t) \in Int /\ FragmentStart(u) \in Int
    BY <1>1, <1>2, <1>5
  <2> QED BY <2>1 DEF Fragment
<1>6. \A t, u \in Threads : t # u => t < u \/ u < t BY <1>3
<1>7. \A t, u \in Threads : t # u => Fragment(t) \cap Fragment(u) = {} BY <1>5, <1>6
<1> QED BY <1>1, <1>2, <1>3, <1>4, <1>7

LEMMA SameFragments ==
    ASSUME UNCHANGED <<size, threads_count>>
    PROVE  /\ Threads' = Threads /\ Places' = Places
           /\ \A t : /\ FragmentStart(t)' = FragmentStart(t)
                     /\ FragmentEnd(t)' = FragmentEnd(t)
                     /\ Fragment(t)' = Fragment(t)
BY DEF Threads, Places, Fragment, FragmentStart, FragmentEnd, chunk_size

LEMMA InitIInv == Init => IInv
<1> SUFFICES ASSUME Init PROVE IInv OBVIOUS
<1>1. size \in Nat \ {0} /\ threads_count \in Nat \ {0} BY SortAssumption DEF Init
<1>2. \A t \in Threads : /\ FragmentStart(t) \in 0 .. size
                         /\ FragmentEnd(t) \in FragmentStart(t) .. size
  BY <1>1, Fragments
<1>3. TypeOK
  <2>1. indices \in [Threads -> 0 .. size]
    BY <1>2 DEF Init
  <2>2. \A t \in Threads : indices[t] \in FragmentStart(t) .. FragmentEnd(t)
    BY <1>1, <1>2 DEF Init
  <2>3. thread \in [Threads -> {"none", "created", "sorting", "done"}] BY DEF Init
  <2>4. \A t \in Threads : thread[t] = "none" BY DEF Init
  <2>5. i \in 0 .. threads_count BY <1>1 DEF Init
  <2>6. DOMAIN copy = Threads /\ temp \in Seq(Values) /\ sorted \in BOOLEAN
    BY DEF Init
  <2> QED BY <2>1, <2>2, <2>3, <2>4, <2>5, <2>6 DEF Init, TypeOK
<1>4. ThreadInv BY DEF Init, ThreadInv
<1>5. MergeInv BY DEF Init, MergeInv
<1> QED BY <1>3, <1>4, <1>5 DEF IInv

-----------------------------------------------------------------------------
(* The threads. *)

LEMMA ReadsKeepsIInv ==
    ASSUME IInv, NEW t \in Threads, sort_fragment(t), QsortReads(t)
    PROVE  IInv'
<1> USE DEF IInv
<1>1. /\ UNCHANGED <<arguments, mainPc, i, indices, temp, sorted, array>>
      /\ thread[t] = "created" /\ mainPc # "exitSuccess"
  BY DEF sort_fragment, QsortReads, mergeVars
<1>2. /\ Threads' = Threads /\ Places' = Places
      /\ \A u : /\ FragmentStart(u)' = FragmentStart(u)
                /\ FragmentEnd(u)' = FragmentEnd(u) /\ Fragment(u)' = Fragment(u)
  BY <1>1, SameFragments DEF arguments
<1>3. \A u \in Threads : thread'[u] = IF u = t THEN "sorting" ELSE thread[u]
  BY DEF QsortReads, TypeOK
<1>4. \A u \in Threads : copy'[u] = IF u = t THEN [k \in Fragment(t) |-> array[k]] ELSE copy[u]
  BY DEF QsortReads, TypeOK
<1>5. TypeOK'
  <2>1. thread' \in [Threads -> {"none", "created", "sorting", "done"}] /\ DOMAIN copy' = Threads
    BY DEF QsortReads, TypeOK
  <2>2. Fragment(t) \subseteq Places BY TypeShapes
  <2>3. [k \in Fragment(t) |-> array[k]] \in [Fragment(t) -> Values] BY <2>2 DEF TypeOK
  <2>4. \A u \in Threads : thread'[u] = "sorting" => copy'[u] \in [Fragment(u) -> Values]
    BY <1>3, <1>4, <2>3 DEF TypeOK
  <2> QED BY <1>1, <1>2, <2>1, <2>4 DEF TypeOK, arguments
<1>6. ThreadInv' BY <1>1, <1>2, <1>3 DEF ThreadInv, InOrder
<1>7. MergeInv'
  <2>1. mainPc \notin {"merge", "check", "exitSuccess"} BY <1>1 DEF ThreadInv
  <2> QED BY <1>1, <1>2, <2>1 DEF MergeInv
<1> QED BY <1>5, <1>6, <1>7

LEMMA WritesKeepsIInv ==
    ASSUME IInv, NEW t \in Threads, sort_fragment(t), QsortWrites(t)
    PROVE  IInv'
<1> USE DEF IInv
<1>1. /\ UNCHANGED <<arguments, mainPc, i, indices, temp, sorted, copy>>
      /\ thread[t] = "sorting"
  BY DEF sort_fragment, QsortWrites, mergeVars
<1>2. /\ Threads' = Threads /\ Places' = Places
      /\ \A u : /\ FragmentStart(u)' = FragmentStart(u)
                /\ FragmentEnd(u)' = FragmentEnd(u) /\ Fragment(u)' = Fragment(u)
  BY <1>1, SameFragments DEF arguments
<1>3. \A u \in Threads : thread'[u] = IF u = t THEN "done" ELSE thread[u]
  BY DEF QsortWrites, TypeOK
<1>4. PICK p \in [Fragment(t) -> Fragment(t)] :
          array' = [k \in Places |-> IF k \in Fragment(t) THEN copy[t][p[k]] ELSE array[k]]
  BY DEF QsortWrites, Bijection, Injection
<1>5. TypeOK'
  <2>1. thread' \in [Threads -> {"none", "created", "sorting", "done"}]
    BY DEF QsortWrites, TypeOK
  <2>2. copy[t] \in [Fragment(t) -> Values] BY <1>1 DEF TypeOK
  <2>3. \A k \in Fragment(t) : copy[t][p[k]] \in Values BY <1>4, <2>2
  <2>4. \A k \in Places : array[k] \in Values BY DEF TypeOK
  <2>5. array' \in [Places -> Values] BY <1>4, <2>3, <2>4
  <2>6. \A u \in Threads : thread'[u] = "sorting" => copy[u] \in [Fragment(u) -> Values]
    BY <1>3 DEF TypeOK
  <2> QED BY <1>1, <1>2, <2>1, <2>5, <2>6 DEF TypeOK, arguments
<1>6. mainPc \notin {"merge", "check", "exitSuccess"} BY <1>1 DEF ThreadInv
<1>7. ThreadInv'
  <2>1. ASSUME NEW u \in Threads, mainPc \in {"create", "join", "merge"}, thread'[u] = "done"
        PROVE  InOrder(array', Fragment(u))
    <3>1. CASE u = t BY <3>1 DEF QsortWrites
    <3>2. CASE u # t
      <4>1. Fragment(u) \cap Fragment(t) = {} /\ Fragment(u) \subseteq Places
        BY <3>2, TypeShapes
      <4>2. \A k \in Fragment(u) : array'[k] = array[k] BY <1>4, <4>1
      <4>3. InOrder(array, Fragment(u)) BY <1>3, <2>1, <3>2 DEF ThreadInv
      <4> QED BY <4>2, <4>3 DEF InOrder
    <3> QED BY <3>1, <3>2
  <2>2. \A u \in Threads : InOrder(array, Fragment(u))' <=> InOrder(array', Fragment(u))
    BY <1>2 DEF InOrder
  <2>3. mainPc = "join" => \A u \in Threads : u < i => thread'[u] = "done"
    BY <1>3 DEF ThreadInv
  <2> QED BY <1>1, <1>2, <1>6, <2>1, <2>2, <2>3 DEF ThreadInv
<1>8. MergeInv' BY <1>1, <1>2, <1>6 DEF MergeInv
<1> QED BY <1>5, <1>7, <1>8

-----------------------------------------------------------------------------
(* main, up to the merge. *)

LEMMA CreateThreadKeepsIInv == IInv /\ CreateThread => IInv'
<1> USE DEF IInv
<1> SUFFICES ASSUME IInv, CreateThread PROVE IInv' OBVIOUS
<1>1. /\ UNCHANGED <<arguments, array, copy, indices, temp, sorted>>
      /\ mainPc = "create" /\ i \in 0 .. threads_count - 1
  BY DEF CreateThread, mergeVars, TypeOK
<1>2. /\ Threads' = Threads /\ Places' = Places
      /\ \A u : /\ FragmentStart(u)' = FragmentStart(u)
                /\ FragmentEnd(u)' = FragmentEnd(u) /\ Fragment(u)' = Fragment(u)
  BY <1>1, SameFragments DEF arguments
<1>3. i \in Threads BY <1>1 DEF Threads
<1>4. \A u \in Threads : thread'[u] = thread[u] \/ thread'[u] = "created"
  BY DEF CreateThread, TypeOK
<1>5. mainPc' \in {"create", "exitFailure"} BY DEF CreateThread
<1>6. TypeOK'
  <2>1. thread' \in [Threads -> {"none", "created", "sorting", "done"}]
    BY <1>3 DEF CreateThread, TypeOK
  <2>2. i' \in 0 .. threads_count BY <1>1, TypeShapes DEF CreateThread
  <2>3. \A u \in Threads : thread'[u] = "sorting" => copy[u] \in [Fragment(u) -> Values]
    BY <1>4 DEF TypeOK
  <2> QED BY <1>1, <1>2, <1>5, <2>1, <2>2, <2>3 DEF TypeOK, arguments
<1>7. ThreadInv' BY <1>1, <1>2, <1>4, <1>5 DEF ThreadInv, InOrder
<1>8. MergeInv' BY <1>1, <1>2, <1>5 DEF MergeInv
<1> QED BY <1>6, <1>7, <1>8

LEMMA AllCreatedKeepsIInv == IInv /\ AllCreated => IInv'
<1> USE DEF IInv
<1> SUFFICES ASSUME IInv, AllCreated PROVE IInv' OBVIOUS
<1>1. /\ UNCHANGED <<arguments, array, thread, copy, indices, temp, sorted>>
      /\ mainPc = "create" /\ mainPc' = "join" /\ i' = 0
  BY DEF AllCreated, threadVars, mergeVars
<1>2. /\ Threads' = Threads /\ Places' = Places
      /\ \A u : /\ FragmentStart(u)' = FragmentStart(u)
                /\ FragmentEnd(u)' = FragmentEnd(u) /\ Fragment(u)' = Fragment(u)
  BY <1>1, SameFragments DEF arguments
<1>3. TypeOK'
  <2>1. 0 \in 0 .. threads_count BY TypeShapes
  <2> QED BY <1>1, <1>2, <2>1 DEF TypeOK, arguments
<1>4. ThreadInv'
  <2>1. \A u \in Threads : ~(u < 0) BY TypeShapes
  <2> QED BY <1>1, <1>2, <2>1 DEF ThreadInv, InOrder
<1>5. MergeInv' BY <1>1, <1>2 DEF MergeInv
<1> QED BY <1>3, <1>4, <1>5

LEMMA JoinKeepsIInv == IInv /\ Join => IInv'
<1> USE DEF IInv
<1> SUFFICES ASSUME IInv, Join PROVE IInv' OBVIOUS
<1>1. /\ UNCHANGED <<arguments, array, thread, copy, mainPc, indices, temp, sorted>>
      /\ mainPc = "join" /\ i \in 0 .. threads_count - 1 /\ i' = i + 1 /\ thread[i] = "done"
  BY DEF Join, threadVars, mergeVars, TypeOK
<1>2. /\ Threads' = Threads /\ Places' = Places
      /\ \A u : /\ FragmentStart(u)' = FragmentStart(u)
                /\ FragmentEnd(u)' = FragmentEnd(u) /\ Fragment(u)' = Fragment(u)
  BY <1>1, SameFragments DEF arguments
<1>3. TypeOK'
  <2>1. i + 1 \in 0 .. threads_count BY <1>1, TypeShapes
  <2> QED BY <1>1, <1>2, <2>1 DEF TypeOK, arguments
<1>4. ThreadInv'
  <2>1. \A u \in Threads : u < i + 1 => u < i \/ u = i BY <1>1, TypeShapes
  <2>2. \A u \in Threads : u < i' => thread[u] = "done" BY <1>1, <2>1 DEF ThreadInv
  <2> QED BY <1>1, <1>2, <2>2 DEF ThreadInv, InOrder
<1>5. MergeInv' BY <1>1, <1>2 DEF MergeInv
<1> QED BY <1>3, <1>4, <1>5

LEMMA AllJoinedKeepsIInv == IInv /\ AllJoined => IInv'
<1> USE DEF IInv
<1> SUFFICES ASSUME IInv, AllJoined PROVE IInv' OBVIOUS
<1>1. /\ UNCHANGED <<arguments, array, thread, copy, indices, temp, sorted>>
      /\ mainPc = "join" /\ mainPc' = "merge" /\ i = threads_count /\ i' = 0
  BY DEF AllJoined, threadVars, mergeVars
<1>2. /\ Threads' = Threads /\ Places' = Places
      /\ \A u : /\ FragmentStart(u)' = FragmentStart(u)
                /\ FragmentEnd(u)' = FragmentEnd(u) /\ Fragment(u)' = Fragment(u)
  BY <1>1, SameFragments DEF arguments
<1>3. TypeOK'
  <2>1. 0 \in 0 .. size BY TypeShapes
  <2> QED BY <1>1, <1>2, <2>1 DEF TypeOK, arguments
<1>4. \A u \in Threads : thread[u] = "done"
  <2>1. \A u \in Threads : u < i BY <1>1, TypeShapes DEF Threads
  <2> QED BY <1>1, <2>1 DEF ThreadInv
<1>5. ThreadInv' BY <1>1, <1>2, <1>4 DEF ThreadInv, InOrder
<1>6. MergeInv'
  <2>1. temp = << >> /\ \A u \in Threads : indices[u] = FragmentStart(u) BY <1>1 DEF MergeInv
  <2>2. Len(temp') = 0 BY <1>1, <2>1
  <2>3. Merged = {} BY <2>1, TypeShapes DEF Merged, Places
  <2>4. Merged' = {} BY <1>1, <1>2, <2>3 DEF Merged
  <2>5. Cardinality(Merged') = 0 BY <2>4, FS_EmptySet
  <2>6. 1 .. Len(temp') = {} BY <2>2
  <2>7. TempInOrder' BY <2>6 DEF TempInOrder
  <2> QED BY <1>1, <2>2, <2>5, <2>7 DEF MergeInv
<1> QED BY <1>3, <1>5, <1>6

-----------------------------------------------------------------------------
(* The merge. *)

\* The elements merged are the i of the loop; with i < size one is missing, and
\* it lies in a fragment that is not exhausted.
LEMMA FragmentLeft ==
    ASSUME IInv, mainPc = "merge", i < size
    PROVE  MinIndices # {}
<1> USE DEF IInv
<1>1. Left # {}
  <2> SUFFICES ASSUME Left = {} PROVE FALSE OBVIOUS
  <2>1. \A t \in Threads : indices[t] = FragmentEnd(t)
    BY TypeShapes DEF Left, TypeOK
  <2>2. \A k \in Places : \E t \in Threads : FragmentStart(t) <= k /\ k < indices[t]
    <3> SUFFICES ASSUME NEW k \in Places
                 PROVE  \E t \in Threads : FragmentStart(t) <= k /\ k < indices[t]
        OBVIOUS
    <3>1. PICK t \in Threads : k \in Fragment(t) BY TypeShapes
    <3>2. FragmentStart(t) \in Int /\ FragmentEnd(t) \in Int BY TypeShapes
    <3> QED BY <2>1, <3>1, <3>2 DEF Fragment
  <2>3. Merged = Places BY <2>2 DEF Merged
  <2>4. Cardinality(Places) = size BY TypeShapes, FS_Interval DEF Places
  <2>5. Cardinality(Merged) = i BY DEF MergeInv
  <2> QED BY <2>3, <2>4, <2>5, TypeShapes
<1>2. \A t \in Left : array[indices[t]] \in Nat
  <2>1. \A t \in Left : indices[t] \in Places BY TypeShapes DEF Left, TypeOK, Places
  <2>2. \A t \in Left : array[indices[t]] \in Values BY <2>1 DEF TypeOK
  <2> QED BY <2>2, ValuesNat
<1> DEFINE Below(t) == {n \in Nat : n < array[indices[t]]}
           S == {Below(t) : t \in Left}
<1>3. S # {} /\ S \subseteq FiniteSubsetsOf(Nat)
  <2>1. \A t \in Left : IsFiniteSet(Below(t)) BY <1>2, FS_BoundedSetOfNaturals
  <2> QED BY <1>1, <2>1 DEF FiniteSubsetsOf
<1>4. PICK X \in S : \A Y \in S : ~(<<Y, X>> \in StrictSubsetOrdering(Nat))
  <2> HIDE DEF S
  <2> QED BY <1>3, FS_StrictSubsetOrderingWellFounded, WFMin
<1>5. PICK t \in Left : X = Below(t) BY <1>4
<1>6. ASSUME NEW u \in Left PROVE array[indices[t]] <= array[indices[u]]
  <2> SUFFICES ASSUME array[indices[u]] < array[indices[t]] PROVE FALSE BY <1>2
  <2>1. Below(u) \in S /\ Below(u) \subseteq Below(t) BY <1>2
  <2>2. array[indices[u]] \in Below(t) /\ array[indices[u]] \notin Below(u) BY <1>2
  <2> HIDE DEF Below, S
  <2>3. Below(u) # Below(t) BY <2>2
  <2>4. <<Below(u), X>> \in StrictSubsetOrdering(Nat)
    <3>1. Below(u) \in SUBSET Nat /\ Below(t) \in SUBSET Nat BY DEF Below
    <3> QED BY <1>5, <2>1, <2>3, <3>1 DEF StrictSubsetOrdering
  <2> QED BY <1>4, <2>1, <2>4
<1> QED BY <1>6 DEF MinIndices

\* What one pass of the merge takes has not been taken before.
LEMMA TakenElement ==
    ASSUME IInv, MergeNext
    PROVE  \E k \in Places : /\ k \notin Merged /\ Merged' = Merged \cup {k}
                            /\ temp' = Append(temp, array[k])
<1> USE DEF IInv
<1>1. /\ Places' = Places /\ Threads' = Threads
      /\ \A u : FragmentStart(u)' = FragmentStart(u)
  BY SameFragments DEF MergeNext, arguments
<1>2. PICK t \in MinIndices : /\ temp' = Append(temp, array[indices[t]])
                              /\ indices' = [indices EXCEPT ![t] = @ + 1]
  BY DEF MergeNext
<1>3. t \in Threads /\ indices[t] < FragmentEnd(t) BY DEF MinIndices, Left
<1>4. \A u \in Threads : /\ indices[u] \in FragmentStart(u) .. FragmentEnd(u)
                         /\ FragmentStart(u) \in 0 .. size
                         /\ FragmentEnd(u) \in 0 .. size
                         /\ indices[u] \in 0 .. size
  BY TypeShapes DEF TypeOK
<1>5. \A u \in Threads : indices'[u] = IF u = t THEN indices[u] + 1 ELSE indices[u]
  BY <1>2 DEF TypeOK
<1>6. indices[t] \in Places /\ indices[t] \in Fragment(t)
  BY <1>3, <1>4, TypeShapes DEF Places, Fragment
<1>7. indices[t] \notin Merged
  <2> SUFFICES ASSUME NEW u \in Threads,
                      FragmentStart(u) <= indices[t], indices[t] < indices[u]
               PROVE  FALSE
      BY DEF Merged
  <2>1. u # t BY <1>4
  <2>2. indices[t] \in Fragment(u) BY <1>3, <1>4 DEF Fragment
  <2> QED BY <2>1, <2>2, <1>3, <1>6, TypeShapes
<1>8. Merged' = Merged \cup {indices[t]}
  <2>1. Merged' = {k \in Places : \E u \in Threads : FragmentStart(u) <= k /\ k < indices'[u]}
    BY <1>1 DEF Merged
  <2>2. ASSUME NEW k \in Places, NEW u \in Threads
        PROVE  FragmentStart(u) <= k /\ k < indices'[u]
               <=> \/ FragmentStart(u) <= k /\ k < indices[u]
                   \/ u = t /\ k = indices[t]
    <3>1. k \in Int BY TypeShapes DEF Places
    <3>2. CASE u = t BY <3>1, <3>2, <1>4, <1>5
    <3>3. CASE u # t BY <3>3, <1>5
    <3> QED BY <3>2, <3>3
  <2> QED BY <2>1, <2>2, <1>3, <1>6 DEF Merged
<1> QED BY <1>2, <1>6, <1>7, <1>8

LEMMA MergeNextKeepsIInv == IInv /\ MergeNext => IInv'
<1> USE DEF IInv
<1> SUFFICES ASSUME IInv, MergeNext PROVE IInv' OBVIOUS
<1>1. /\ UNCHANGED <<arguments, array, thread, copy, mainPc, sorted>>
      /\ mainPc = "merge" /\ i < size /\ i' = i + 1 /\ i \in 0 .. size
  BY DEF MergeNext, threadVars, TypeOK
<1>2. /\ Threads' = Threads /\ Places' = Places
      /\ \A u : /\ FragmentStart(u)' = FragmentStart(u)
                /\ FragmentEnd(u)' = FragmentEnd(u) /\ Fragment(u)' = Fragment(u)
  BY <1>1, SameFragments DEF arguments
<1>3. PICK t \in MinIndices : /\ temp' = Append(temp, array[indices[t]])
                              /\ indices' = [indices EXCEPT ![t] = @ + 1]
  BY DEF MergeNext
<1>4. t \in Threads /\ t \in Left /\ indices[t] < FragmentEnd(t) BY DEF MinIndices, Left
<1>5. /\ \A u \in Threads : /\ indices[u] \in FragmentStart(u) .. FragmentEnd(u)
                            /\ FragmentStart(u) \in 0 .. size
                            /\ FragmentEnd(u) \in 0 .. size
                            /\ indices[u] \in 0 .. size
  BY TypeShapes DEF TypeOK
<1>6. \A u \in Threads : indices'[u] = IF u = t THEN indices[u] + 1 ELSE indices[u]
  BY <1>3 DEF TypeOK
<1>7. indices[t] \in Places /\ indices[t] \in Fragment(t)
  BY <1>4, <1>5, TypeShapes DEF Places, Fragment
<1>8. array[indices[t]] \in Values BY <1>7 DEF TypeOK
<1>9. /\ Len(temp) \in Nat /\ Len(temp') = Len(temp) + 1 /\ temp' \in Seq(Values)
      /\ \A k \in 1 .. Len(temp) : temp'[k] = temp[k] /\ temp[k] \in Nat
      /\ temp'[Len(temp) + 1] = array[indices[t]]
  <2>1. temp \in Seq(Values) BY DEF TypeOK
  <2>2. \A k \in 1 .. Len(temp) : temp[k] \in Nat
    <3>1. \A k \in 1 .. Len(temp) : temp[k] \in Values BY <2>1
    <3> QED BY <3>1, ValuesNat
  <2> QED BY <1>3, <1>8, <2>1, <2>2
<1>10. TypeOK'
  <2>1. \A u \in Threads : indices'[u] \in FragmentStart(u) .. FragmentEnd(u)
    BY <1>4, <1>5, <1>6
  <2>2. indices' \in [Threads -> 0 .. size]
    <3>1. /\ indices[t] \in Int /\ indices[t] >= 0 /\ FragmentEnd(t) \in Int
          /\ FragmentEnd(t) <= size /\ size \in Int
      BY <1>4, <1>5, TypeShapes
    <3>2. indices[t] + 1 \in 0 .. size BY <1>4, <3>1
    <3> QED BY <1>3, <3>2 DEF TypeOK
  <2>3. i' \in 0 .. size BY <1>1, TypeShapes
  <2> QED BY <1>1, <1>2, <1>9, <2>1, <2>2, <2>3 DEF TypeOK, arguments
<1>11. ThreadInv' BY <1>1, <1>2 DEF ThreadInv, InOrder
<1>12. Cardinality(Merged') = i + 1
  <2>1. PICK k \in Places : k \notin Merged /\ Merged' = Merged \cup {k} BY TakenElement
  <2>2. IsFiniteSet(Merged)
    <3>1. IsFiniteSet(Places) BY TypeShapes, FS_Interval DEF Places
    <3>2. Merged \in SUBSET Places BY DEF Merged
    <3> QED BY <3>1, <3>2, FS_Subset
  <2>3. Cardinality(Merged) = i BY <1>1 DEF MergeInv
  <2> QED BY <2>1, <2>2, <2>3, FS_AddElement
<1>13. TempInOrder'
  <2>1. TempInOrder BY <1>1 DEF MergeInv
  <2>2. \A k \in 1 .. Len(temp) : temp[k] <= array[indices[t]] BY <1>4, <2>1 DEF TempInOrder
  <2>3. array[indices[t]] \in Nat BY <1>8, ValuesNat
  <2>4. \A k \in 1 .. Len(temp') : k \in 1 .. Len(temp) \/ k = Len(temp) + 1 BY <1>9
  <2>5. \A k \in 1 .. Len(temp') : temp'[k] <= array[indices[t]] /\ temp'[k] \in Nat
    BY <1>9, <2>2, <2>3, <2>4
  <2>6. \A k, l \in 1 .. Len(temp') : k < l => temp'[k] <= temp'[l]
    <3> SUFFICES ASSUME NEW k \in 1 .. Len(temp'), NEW l \in 1 .. Len(temp'), k < l
                 PROVE  temp'[k] <= temp'[l]
        OBVIOUS
    <3>1. CASE l = Len(temp) + 1 BY <3>1, <1>9, <2>5
    <3>2. CASE l \in 1 .. Len(temp)
      <4>1. k \in 1 .. Len(temp) BY <3>2, <1>9
      <4> QED BY <3>2, <4>1, <1>9, <2>1 DEF TempInOrder
    <3> QED BY <3>1, <3>2, <2>4
  <2>7. ASSUME NEW u \in Threads, indices'[u] < FragmentEnd(u)
        PROVE  array[indices[t]] <= array[indices'[u]] /\ array[indices'[u]] \in Nat
    <3>1. indices'[u] \in Places /\ indices'[u] \in Fragment(u)
      BY <2>7, <1>5, <1>6, TypeShapes DEF Places, Fragment
    <3>2. array[indices'[u]] \in Values BY <3>1 DEF TypeOK
    <3>3. array[indices'[u]] \in Nat BY <3>2, SortAssumption
    <3>4. CASE u = t
      <4>1. InOrder(array, Fragment(t)) BY <1>1, <1>4 DEF ThreadInv
      <4>2. indices[t] < indices'[t] BY <1>4, <1>5, <1>6
      <4>3. compare_ints(array[indices[t]], array[indices'[t]]) <= 0
        BY <4>1, <4>2, <3>1, <3>4, <1>7 DEF InOrder
      <4> QED BY <4>3, <3>2, <3>3, <3>4, <1>8, CompareInts
    <3>5. CASE u # t
      <4>1. u \in Left /\ indices'[u] = indices[u] BY <2>7, <3>5, <1>6 DEF Left
      <4> QED BY <4>1, <3>3 DEF MinIndices
    <3> QED BY <3>4, <3>5
  <2>8. \A u \in Left' : u \in Threads /\ indices'[u] < FragmentEnd(u) BY <1>2 DEF Left
  <2>9. \A k \in 1 .. Len(temp'), u \in Left' : temp'[k] <= array[indices'[u]]
    BY <2>3, <2>5, <2>7, <2>8
  <2>10. array' = array BY <1>1
  <2> QED BY <2>6, <2>9, <2>10 DEF TempInOrder
<1>14. MergeInv'
  <2>1. Len(temp') = i + 1 BY <1>1, <1>9 DEF MergeInv
  <2> QED BY <1>1, <1>12, <1>13, <2>1 DEF MergeInv
<1> QED BY <1>10, <1>11, <1>14

-----------------------------------------------------------------------------
(* After the merge. *)

LEMMA CopyBackKeepsIInv == IInv /\ CopyBack => IInv'
<1> USE DEF IInv
<1> SUFFICES ASSUME IInv, CopyBack PROVE IInv' OBVIOUS
<1>1. /\ UNCHANGED <<arguments, thread, copy, indices, temp, sorted>>
      /\ mainPc = "merge" /\ mainPc' = "check" /\ i = size /\ i' = 0
      /\ array' = [k \in Places |-> temp[k + 1]]
  BY DEF CopyBack, threadVars, mergeVars
<1>2. /\ Threads' = Threads /\ Places' = Places
      /\ \A u : /\ FragmentStart(u)' = FragmentStart(u)
                /\ FragmentEnd(u)' = FragmentEnd(u) /\ Fragment(u)' = Fragment(u)
  BY <1>1, SameFragments DEF arguments
<1>3. temp \in Seq(Values) /\ Len(temp) = size /\ TempInOrder BY <1>1 DEF TypeOK, MergeInv
<1>4. \A k \in Places : k \in Int /\ k + 1 \in 1 .. Len(temp) BY <1>3, TypeShapes DEF Places
<1>5. TypeOK'
  <2>1. \A k \in Places : temp[k + 1] \in Values BY <1>3, <1>4
  <2>2. array' \in [Places -> Values] BY <1>1, <2>1
  <2>3. 0 \in 0 .. threads_count BY TypeShapes
  <2> QED BY <1>1, <1>2, <2>2, <2>3 DEF TypeOK, arguments
<1>6. ThreadInv' BY <1>1, <1>2 DEF ThreadInv
<1>7. MergeInv'
  <2>1. \A k, l \in Places : k < l => temp[k + 1] <= temp[l + 1]
    BY <1>3, <1>4 DEF TempInOrder
  <2>2. \A k, l \in Places : k < l => array'[k] <= array'[l] BY <1>1, <2>1
  <2> QED BY <1>1, <1>2, <2>2 DEF MergeInv, ArrayInOrder
<1> QED BY <1>5, <1>6, <1>7

LEMMA CheckOrderKeepsIInv == IInv /\ CheckOrder => IInv'
<1> USE DEF IInv
<1> SUFFICES ASSUME IInv, CheckOrder PROVE IInv' OBVIOUS
<1>1. /\ UNCHANGED <<arguments, array, thread, copy, i, indices, temp>>
      /\ mainPc = "check" /\ mainPc' = "exitSuccess"
      /\ sorted' = \A k \in 0 .. size - 2 : ~(array[k] > array[k + 1])
  BY DEF CheckOrder, threadVars, mergeVars
<1>2. /\ Threads' = Threads /\ Places' = Places
      /\ \A u : /\ FragmentStart(u)' = FragmentStart(u)
                /\ FragmentEnd(u)' = FragmentEnd(u) /\ Fragment(u)' = Fragment(u)
  BY <1>1, SameFragments DEF arguments
<1>3. ArrayInOrder BY <1>1 DEF MergeInv
<1>4. sorted' = TRUE
  <2>1. \A k \in 0 .. size - 2 : /\ k \in Places /\ k + 1 \in Places /\ k < k + 1
    BY TypeShapes DEF Places
  <2>2. \A k \in Places : array[k] \in Nat
    <3>1. \A k \in Places : array[k] \in Values BY DEF TypeOK
    <3> QED BY <3>1, ValuesNat
  <2>3. \A k \in 0 .. size - 2 : ~(array[k] > array[k + 1])
    BY <1>3, <2>1, <2>2 DEF ArrayInOrder
  <2> QED BY <1>1, <2>3
<1>5. TypeOK' BY <1>1, <1>2, <1>4 DEF TypeOK, arguments
<1>6. ThreadInv' BY <1>1, <1>2 DEF ThreadInv
<1>7. MergeInv' BY <1>1, <1>2, <1>3, <1>4 DEF MergeInv, ArrayInOrder
<1> QED BY <1>5, <1>6, <1>7

LEMMA StutterKeepsIInv == IInv /\ UNCHANGED vars => IInv'
BY DEF IInv, TypeOK, ThreadInv, MergeInv, Merged, TempInOrder, ArrayInOrder, Left, InOrder,
       Threads, Places, Fragment, FragmentStart, FragmentEnd, chunk_size,
       vars, arguments, threadVars, mergeVars

LEMMA NextIInv == IInv /\ [Next]_vars => IInv'
<1> SUFFICES ASSUME IInv, [Next]_vars PROVE IInv' OBVIOUS
<1>1. CASE main
  BY <1>1, CreateThreadKeepsIInv, AllCreatedKeepsIInv, JoinKeepsIInv, AllJoinedKeepsIInv,
     MergeNextKeepsIInv, CopyBackKeepsIInv, CheckOrderKeepsIInv DEF main
<1>2. ASSUME NEW t \in Threads, sort_fragment(t) PROVE IInv'
  <2>1. CASE QsortReads(t) BY <1>2, <2>1, ReadsKeepsIInv
  <2>2. CASE QsortWrites(t) BY <1>2, <2>2, WritesKeepsIInv
  <2> QED BY <1>2, <2>1, <2>2 DEF sort_fragment
<1>3. CASE Exited BY <1>3, StutterKeepsIInv DEF Exited
<1>4. CASE UNCHANGED vars BY <1>4, StutterKeepsIInv
<1> QED BY <1>1, <1>2, <1>3, <1>4 DEF Next

LEMMA Inductive == Spec => []IInv
BY InitIInv, NextIInv, PTL DEF Spec

-----------------------------------------------------------------------------
(* Nothing is lost.  A second invariant, which rests on the first: the array  *)
(* is a rearrangement of the input, and what is merged one of what has been   *)
(* taken from the array.                                                      *)

Permutes(p, S) == /\ p \in [S -> S]
                  /\ \A k, l \in S : p[k] = p[l] => k = l
                  /\ \A l \in S : \E k \in S : p[k] = l

Rearranged(a, b, S) == \E p : Permutes(p, S) /\ \A k \in S : a[k] = b[p[k]]

\* temp is what has been taken from the array, each element once.
TempTaken(m) ==
    /\ m \in [1 .. Len(temp) -> Merged]
    /\ \A n, o \in 1 .. Len(temp) : m[n] = m[o] => n = o
    /\ \A k \in Merged : \E n \in 1 .. Len(temp) : m[n] = k
    /\ \A n \in 1 .. Len(temp) : temp[n] = array[m[n]]

\* The fragment of a thread is as qsort has read it: nobody else writes to it.
LossInv ==
    /\ \A t \in Threads : thread[t] = "sorting" => \A k \in Fragment(t) : copy[t][k] = array[k]
    /\ Rearranged(array, input, Places)
    /\ mainPc = "merge" => \E m : TempTaken(m)

\* Rearranging twice is rearranging once.
LEMMA RearrangedTwice ==
    ASSUME NEW S, NEW a, NEW b, NEW c, Rearranged(a, b, S), Rearranged(b, c, S)
    PROVE  Rearranged(a, c, S)
<1>1. PICK p : Permutes(p, S) /\ \A k \in S : a[k] = b[p[k]] BY DEF Rearranged
<1>2. PICK q : Permutes(q, S) /\ \A k \in S : b[k] = c[q[k]] BY DEF Rearranged
<1> DEFINE r == [k \in S |-> q[p[k]]]
<1>3. \A k \in S : p[k] \in S /\ q[p[k]] \in S /\ r[k] = q[p[k]] BY <1>1, <1>2 DEF Permutes
<1>4. Permutes(r, S)
  <2>1. r \in [S -> S] BY <1>3
  <2>2. \A k, l \in S : r[k] = r[l] => k = l
    <3>1. \A k, l \in S : r[k] = r[l] => p[k] = p[l] BY <1>2, <1>3 DEF Permutes
    <3> QED BY <1>1, <3>1 DEF Permutes
  <2>3. ASSUME NEW l \in S PROVE \E k \in S : r[k] = l
    <3>1. PICK h \in S : q[h] = l BY <1>2 DEF Permutes
    <3>2. PICK k \in S : p[k] = h BY <1>1 DEF Permutes
    <3> QED BY <1>3, <3>1, <3>2
  <2> HIDE DEF r
  <2> QED BY <2>1, <2>2, <2>3 DEF Permutes
<1>5. \A k \in S : a[k] = c[r[k]] BY <1>1, <1>2, <1>3
<1> HIDE DEF r
<1> QED BY <1>4, <1>5 DEF Rearranged

LEMMA RearrangedCount ==
    ASSUME NEW S, IsFiniteSet(S), NEW a, NEW b, Rearranged(a, b, S), NEW v
    PROVE  Count(a, S, v) = Count(b, S, v)
<1>1. PICK p : Permutes(p, S) /\ \A k \in S : a[k] = b[p[k]] BY DEF Rearranged
<1> DEFINE A == {k \in S : a[k] = v}
           B == {k \in S : b[k] = v}
           f == [k \in A |-> p[k]]
<1>2. \A k \in S : p[k] \in S BY <1>1 DEF Permutes
<1>3. f \in [A -> B] BY <1>1, <1>2
<1>4. \A k, l \in A : f[k] = f[l] => k = l BY <1>1 DEF Permutes
<1>5. ASSUME NEW l \in B PROVE \E k \in A : f[k] = l
  <2>1. PICK k \in S : p[k] = l BY <1>1 DEF Permutes
  <2> QED BY <1>1, <2>1
<1>6. DOMAIN f = A OBVIOUS
<1>7. IsFiniteSet(A)
  <2>1. A \in SUBSET S OBVIOUS
  <2> QED BY <2>1, FS_Subset
<1> HIDE DEF A, B, f
<1>8. f \in Bijection(A, B)
  BY <1>3, <1>4, <1>5, <1>6 DEF Bijection, Injection, Surjection, IsInjective
<1>9. Cardinality(B) = Cardinality(A) BY <1>7, <1>8, FS_Bijection DEF ExistsBijection
<1> QED BY <1>9 DEF Count, A, B

\* Steps that change neither the array nor what qsort has read, until the merge.
LEMMA LossFrame ==
    ASSUME LossInv, UNCHANGED <<arguments, array>>, mainPc' # "merge",
           \A t \in Threads : thread'[t] = "sorting" =>
                \A k \in Fragment(t) : copy'[t][k] = array[k]
    PROVE  LossInv'
<1>1. /\ Threads' = Threads /\ Places' = Places /\ input' = input
      /\ \A u : Fragment(u)' = Fragment(u)
  BY SameFragments DEF arguments
<1> QED BY <1>1 DEF LossInv

LEMMA ReadsLosesNothing ==
    ASSUME IInv, LossInv, NEW t \in Threads, sort_fragment(t), QsortReads(t)
    PROVE  LossInv'
<1>1. TypeOK /\ ThreadInv BY DEF IInv
<1>2. mainPc' # "merge" BY <1>1 DEF sort_fragment, QsortReads, ThreadInv
<1>3. \A u \in Threads : /\ thread'[u] = IF u = t THEN "sorting" ELSE thread[u]
                         /\ copy'[u] = IF u = t THEN [k \in Fragment(t) |-> array[k]] ELSE copy[u]
  BY <1>1 DEF QsortReads, TypeOK
<1>4. \A u \in Threads : thread'[u] = "sorting" =>
          \A k \in Fragment(u) : copy'[u][k] = array[k]
  BY <1>3 DEF LossInv
<1> QED BY <1>2, <1>4, LossFrame DEF sort_fragment, QsortReads

\* The fragments of the other threads stay as they are.
LEMMA WritesLosesNothing ==
    ASSUME IInv, LossInv, NEW t \in Threads, sort_fragment(t), QsortWrites(t)
    PROVE  LossInv'
<1>1. TypeOK /\ ThreadInv BY DEF IInv
<1>2. /\ UNCHANGED <<arguments, mainPc, copy>> /\ thread[t] = "sorting" /\ mainPc # "merge"
  BY <1>1 DEF sort_fragment, QsortWrites, ThreadInv
<1>3. /\ Threads' = Threads /\ Places' = Places /\ input' = input
      /\ \A u : Fragment(u)' = Fragment(u)
  BY <1>2, SameFragments DEF arguments
<1>4. \A u \in Threads : thread'[u] = IF u = t THEN "done" ELSE thread[u]
  BY <1>1 DEF QsortWrites, TypeOK
<1>5. PICK p \in Bijection(Fragment(t), Fragment(t)) :
          array' = [k \in Places |-> IF k \in Fragment(t) THEN copy[t][p[k]] ELSE array[k]]
  BY DEF QsortWrites
<1>6. Permutes(p, Fragment(t))
  BY DEF Permutes, Bijection, Injection, Surjection, IsInjective
<1>7. Fragment(t) \subseteq Places BY <1>1, TypeShapes
<1> DEFINE q == [k \in Places |-> IF k \in Fragment(t) THEN p[k] ELSE k]
<1>8. \A k \in Fragment(t) : p[k] \in Fragment(t) BY <1>6 DEF Permutes
<1>9. Permutes(q, Places)
  <2>1. q \in [Places -> Places] BY <1>7, <1>8
  <2>2. \A k, l \in Places : q[k] = q[l] => k = l BY <1>6, <1>8 DEF Permutes
  <2>3. \A l \in Places : \E k \in Places : q[k] = l BY <1>6, <1>7 DEF Permutes
  <2> HIDE DEF q
  <2> QED BY <2>1, <2>2, <2>3 DEF Permutes
<1>10. \A k \in Places : array'[k] = array[q[k]]
  <2>1. \A k \in Fragment(t) : copy[t][p[k]] = array[p[k]] BY <1>2, <1>8 DEF LossInv
  <2> QED BY <1>5, <1>7, <2>1
<1> HIDE DEF q
<1>11. Rearranged(array', array, Places) BY <1>9, <1>10 DEF Rearranged
<1>12. Rearranged(array', input, Places) BY <1>11, RearrangedTwice DEF LossInv
<1>13. ASSUME NEW u \in Threads, thread'[u] = "sorting", NEW k \in Fragment(u)
       PROVE  copy'[u][k] = array'[k]
  <2>1. u # t /\ thread[u] = "sorting" BY <1>4, <1>13
  <2>2. k \in Places /\ k \notin Fragment(t) BY <1>1, <1>13, <2>1, TypeShapes
  <2> QED BY <1>2, <1>5, <2>1, <2>2 DEF LossInv
<1> QED BY <1>2, <1>3, <1>12, <1>13 DEF LossInv

LEMMA MergeNextLosesNothing ==
    ASSUME IInv, LossInv, MergeNext
    PROVE  LossInv'
<1>1. TypeOK BY DEF IInv
<1>2. UNCHANGED <<arguments, array, threadVars, mainPc>> /\ mainPc = "merge" BY DEF MergeNext
<1>3. /\ Threads' = Threads /\ Places' = Places /\ input' = input
      /\ \A u : Fragment(u)' = Fragment(u)
  BY <1>2, SameFragments DEF arguments
<1>4. PICK k \in Places : /\ k \notin Merged /\ Merged' = Merged \cup {k}
                          /\ temp' = Append(temp, array[k])
  BY TakenElement
<1>5. PICK m : TempTaken(m) BY <1>2 DEF LossInv
<1>6. temp \in Seq(Values) /\ array[k] \in Values BY <1>1 DEF TypeOK
<1>7. /\ Len(temp) \in Nat /\ Len(temp') = Len(temp) + 1
      /\ \A n \in 1 .. Len(temp) : temp'[n] = temp[n]
      /\ temp'[Len(temp) + 1] = array[k]
  BY <1>4, <1>6
<1>8. \A n : n \in 1 .. Len(temp') <=> n \in 1 .. Len(temp) \/ n = Len(temp) + 1 BY <1>7
<1>9. Len(temp) + 1 \notin 1 .. Len(temp) BY <1>7
<1> PICK m2 : m2 = [n \in 1 .. Len(temp') |-> IF n = Len(temp) + 1 THEN k ELSE m[n]] OBVIOUS
<1>10. \A n \in 1 .. Len(temp) : m[n] \in Merged /\ m2[n] = m[n] BY <1>5, <1>8, <1>9 DEF TempTaken
<1>11. m2[Len(temp) + 1] = k BY <1>8
<1>12. m2 \in [1 .. Len(temp') -> Merged'] BY <1>4, <1>8, <1>10
<1>13. TempTaken(m2)'
  <2>1. \A n, o \in 1 .. Len(temp') : m2[n] = m2[o] => n = o
    BY <1>4, <1>5, <1>8, <1>10, <1>11 DEF TempTaken
  <2>2. \A l \in Merged' : \E n \in 1 .. Len(temp') : m2[n] = l
    BY <1>4, <1>5, <1>8, <1>10, <1>11 DEF TempTaken
  <2>3. \A n \in 1 .. Len(temp') : temp'[n] = array[m2[n]]
    BY <1>5, <1>7, <1>8, <1>10, <1>11 DEF TempTaken
  <2> QED BY <1>2, <1>12, <2>1, <2>2, <2>3 DEF TempTaken
<1> QED BY <1>2, <1>3, <1>13 DEF LossInv, threadVars

\* Once the loop has ended, all of the array has been taken.
LEMMA CopyBackLosesNothing ==
    ASSUME IInv, LossInv, CopyBack
    PROVE  LossInv'
<1>1. TypeOK /\ ThreadInv BY DEF IInv
<1>2. /\ UNCHANGED <<arguments, threadVars>> /\ mainPc = "merge" /\ mainPc' = "check" /\ i = size
      /\ array' = [k \in Places |-> temp[k + 1]]
  BY DEF CopyBack
<1>3. /\ Threads' = Threads /\ Places' = Places /\ input' = input
      /\ \A u : Fragment(u)' = Fragment(u)
  BY <1>2, SameFragments DEF arguments
<1>4. Len(temp) = size /\ size \in Nat BY <1>1, <1>2, TypeShapes DEF IInv, MergeInv
<1>5. Merged = Places
  <2>1. IsFiniteSet(Places) /\ Cardinality(Places) = size
    <3>1. size \in Nat \ {0} BY <1>1, TypeShapes
    <3>2. Cardinality(Places) = size BY <3>1, FS_Interval DEF Places
    <3>3. IsFiniteSet(Places) BY <3>1, FS_Interval DEF Places
    <3> QED BY <3>2, <3>3
  <2>2. Merged \in SUBSET Places BY DEF Merged
  <2>3. Cardinality(Merged) = size BY <1>2 DEF IInv, MergeInv
  <2> QED BY <2>1, <2>2, <2>3, FS_Subset
<1>6. PICK m : TempTaken(m) BY <1>2 DEF LossInv
<1>7. /\ \A k \in Places : k + 1 \in 1 .. Len(temp)
      /\ \A n \in 1 .. Len(temp) : n - 1 \in Places /\ (n - 1) + 1 = n
      /\ \A k, l \in Places : k + 1 = l + 1 => k = l
  BY <1>4 DEF Places
<1> DEFINE q == [k \in Places |-> m[k + 1]]
<1>8. Permutes(q, Places)
  <2>1. q \in [Places -> Places] BY <1>5, <1>6, <1>7 DEF TempTaken
  <2>2. \A k, l \in Places : q[k] = q[l] => k = l BY <1>6, <1>7 DEF TempTaken
  <2>3. ASSUME NEW l \in Places PROVE \E k \in Places : q[k] = l
    <3>1. PICK n \in 1 .. Len(temp) : m[n] = l BY <1>5, <1>6 DEF TempTaken
    <3>2. n - 1 \in Places /\ q[n - 1] = m[n] BY <1>7
    <3> QED BY <3>1, <3>2
  <2> HIDE DEF q
  <2> QED BY <2>1, <2>2, <2>3 DEF Permutes
<1>9. \A k \in Places : array'[k] = array[q[k]] BY <1>2, <1>6, <1>7 DEF TempTaken
<1> HIDE DEF q
<1>10. Rearranged(array', array, Places) BY <1>8, <1>9 DEF Rearranged
<1>11. Rearranged(array', input, Places) BY <1>10, RearrangedTwice DEF LossInv
<1>12. \A t \in Threads : thread[t] = "done" BY <1>1, <1>2 DEF ThreadInv
<1> QED BY <1>2, <1>3, <1>11, <1>12 DEF LossInv, threadVars

LEMMA AllJoinedLosesNothing ==
    ASSUME IInv, LossInv, AllJoined
    PROVE  LossInv'
<1>1. /\ UNCHANGED <<arguments, array, thread, copy, indices, temp>> /\ mainPc = "join"
  BY DEF AllJoined, threadVars, mergeVars
<1>2. /\ Threads' = Threads /\ Places' = Places /\ input' = input
      /\ \A u : Fragment(u)' = Fragment(u) /\ FragmentStart(u)' = FragmentStart(u)
  BY <1>1, SameFragments DEF arguments
<1>3. TypeOK BY DEF IInv
<1>4. temp = << >> /\ \A t \in Threads : indices[t] = FragmentStart(t)
  BY <1>1 DEF IInv, MergeInv
<1>5. Merged = {} BY <1>3, <1>4, TypeShapes DEF Merged, Places
<1>6. Merged' = {} BY <1>1, <1>2, <1>5 DEF Merged
<1>7. Len(temp') = 0 BY <1>1, <1>4
<1>8. 1 .. Len(temp') = {} BY <1>7
<1> DEFINE m == [n \in {} |-> 0]
<1>9. m \in [{} -> {}] OBVIOUS
<1> HIDE DEF m
<1>10. TempTaken(m)'
  <2>1. m' = m BY DEF m
  <2> QED BY <1>6, <1>8, <1>9, <2>1 DEF TempTaken
<1> QED BY <1>1, <1>2, <1>10 DEF LossInv

LEMMA NextLosesNothing == IInv /\ LossInv /\ [Next]_vars => LossInv'
<1> SUFFICES ASSUME IInv, LossInv, [Next]_vars PROVE LossInv' OBVIOUS
<1>1. ASSUME CreateThread \/ AllCreated \/ Join \/ CheckOrder PROVE LossInv'
  <2>1. UNCHANGED <<arguments, array, copy>> /\ mainPc' # "merge"
    BY <1>1 DEF CreateThread, AllCreated, Join, CheckOrder, threadVars
  <2>2. \A t \in Threads : thread'[t] = "sorting" => thread[t] = "sorting"
    BY <1>1 DEF CreateThread, AllCreated, Join, CheckOrder, threadVars, IInv, TypeOK
  <2> QED BY <2>1, <2>2, LossFrame DEF LossInv
<1>2. ASSUME NEW t \in Threads, sort_fragment(t) PROVE LossInv'
  <2>1. CASE QsortReads(t) BY <1>2, <2>1, ReadsLosesNothing
  <2>2. CASE QsortWrites(t) BY <1>2, <2>2, WritesLosesNothing
  <2> QED BY <1>2, <2>1, <2>2 DEF sort_fragment
<1>3. ASSUME UNCHANGED vars PROVE LossInv'
  <2>1. /\ Threads' = Threads /\ Places' = Places
        /\ \A u : Fragment(u)' = Fragment(u) /\ FragmentStart(u)' = FragmentStart(u)
    BY <1>3, SameFragments DEF vars, arguments
  <2> QED BY <1>3, <2>1 DEF LossInv, TempTaken, Merged, vars, arguments, threadVars, mergeVars
<1> QED BY <1>1, <1>2, <1>3, AllJoinedLosesNothing, MergeNextLosesNothing, CopyBackLosesNothing
        DEF Next, main, Exited

LEMMA InitLossInv == Init => LossInv
<1> SUFFICES ASSUME Init PROVE LossInv OBVIOUS
<1> DEFINE p == [k \in Places |-> k]
<1>1. Permutes(p, Places) BY DEF Permutes
<1>2. \A k \in Places : array[k] = input[p[k]] BY DEF Init
<1> HIDE DEF p
<1>3. Rearranged(array, input, Places) BY <1>1, <1>2 DEF Rearranged
<1> QED BY <1>3 DEF LossInv, Init

-----------------------------------------------------------------------------
(* Theorems. *)

\* The state of the sort keeps its type; no index of the merge leaves its
\* fragment.
THEOREM TypeCorrect == Spec => []TypeOK
BY Inductive, PTL DEF IInv

\* Once main merges no thread writes to the array, and every fragment is in
\* order.
THEOREM FragmentsSorted == Spec => []MergesSorted
<1>1. IInv => MergesSorted BY DEF IInv, ThreadInv, MergesSorted
<1> QED BY <1>1, Inductive, PTL

\* The merge never looks for an element that is not there: indices[-1]++ is
\* unreachable.
THEOREM MergeFindsElement == Spec => []MinIndexFound
<1>1. IInv => MinIndexFound BY FragmentLeft DEF MinIndexFound
<1> QED BY <1>1, Inductive, PTL

\* A run that ends well has sorted the array, and the check says so.
THEOREM SortsArray == Spec => []EndsSorted
<1>1. IInv => EndsSorted BY DEF IInv, MergeInv, ArrayInOrder, EndsSorted
<1> QED BY <1>1, Inductive, PTL

\* No value is lost or doubled on the way, at any time: neither by the threads,
\* whose fragments do not overlap, nor by the merge.
THEOREM SortLosesNothing == Spec => []NothingLost
<1>1. Spec => []LossInv BY Inductive, InitLossInv, NextLosesNothing, PTL DEF Spec
<1>2. ASSUME IInv, LossInv PROVE NothingLost
  <2>1. IsFiniteSet(Places) BY <1>2, TypeShapes, FS_Interval DEF IInv, Places
  <2>2. Rearranged(array, input, Places) BY <1>2 DEF LossInv
  <2> QED BY <2>1, <2>2, RearrangedCount DEF NothingLost
<1> QED BY Inductive, <1>1, <1>2, PTL
=============================================================================
