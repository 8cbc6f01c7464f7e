-------------------------- MODULE WordFilterProofs --------------------------
(***************************************************************************)
(* Proofs about WordFilter, for every alphabet, dictionary and text.       *)
(***************************************************************************)
EXTENDS WordFilter, SequenceTheorems, FiniteSetTheorems, TLAPS

Loading == {"options", "openDict", "create", "load"}
InLine == {"filter", "scan", "word"}
DictBlocks == {"dict", "words", "entries"}

\* The array in dict_load.
ArrayInv ==
    /\ pc \in {"options", "openDict", "create"} => words = << >>
    /\ pc = "load" => capacity = allocated /\ capacity >= 1
    /\ WordsFit

\* What is open and allocated at each point.
ResourceInv ==
    /\ pc \in {"options", "openDict"} => open = {} /\ heap = {}
    /\ pc = "create" => open = {"df"} /\ heap = {}
    /\ pc \in {"load", "loaded"} => open = {"df"} /\ heap \subseteq DictBlocks
    /\ pc = "openIn" => open = {} /\ heap \subseteq DictBlocks
    /\ pc = "openOut" => open \subseteq {"in"} /\ heap \subseteq DictBlocks
    /\ pc \in {"read", "filter"} =>
          open \subseteq {"in", "out"} /\ heap \subseteq DictBlocks \cup {"line"}
    /\ pc \in {"scan", "word"} =>
          open \subseteq {"in", "out"} /\ heap \subseteq DictBlocks \cup {"line", "result"}
    /\ CleanExit

\* What dict_load has read is in the array, unless a word was lost.
Stored(m) == \E k \in 1 .. Len(words) : words[k] = Trim(dictFile[m])
DictInv ==
    /\ offset > 0 => /\ next <= Len(dictFile)
                     /\ offset <= Len(dictFile[next]) /\ Len(dictFile[next]) >= BufferSize
    /\ "word" \notin lost =>
          /\ \A m \in 1 .. Len(dictFile) :
                m < next /\ Len(dictFile[m]) < BufferSize /\ Trim(dictFile[m]) # << >> => Stored(m)
          /\ pc \notin Loading /\ status # 1 => next > Len(dictFile)

\* The result holds the first n characters of the line, censored.
Done(n) ==
    /\ Len(result) = n
    /\ \A k \in 1 .. n : result[k] = IF Hidden(words, line, k) THEN "*" ELSE line[k]

\* What filter_line makes of a line s: it has one asterisk for each letter of a
\* forbidden word.
Starred(dict, s, t) ==
    Len(t) = Len(s) /\ \A k \in 1 .. Len(s) : t[k] = IF Hidden(dict, s, k) THEN "*" ELSE s[k]

\* The lines of the output, exactly.
OutputExact ==
    /\ Len(shown) = Len(output)
    /\ \A n \in 1 .. Len(output) : /\ shown[n] \in 1 .. Len(input)
                                   /\ Starred(words, input[shown[n]], output[n])
    /\ \A m, n \in 1 .. Len(output) : m < n => shown[m] < shown[n]
    /\ status = 0 /\ "line" \notin lost => Len(output) = Len(input)

\* The loops of filter_line.
LineInv ==
    /\ pc \in InLine => lines \in 1 .. Len(input) /\ line = input[lines]
    /\ pc = "scan" =>
          /\ i <= Len(line) + 1 /\ Done(i - 1)
          /\ i = 1 \/ line[i - 1] \notin Letters \/ i > Len(line) \/ line[i] \notin Letters
    /\ pc = "word" =>
          /\ word_start <= i /\ i <= Len(line) + 1
          /\ word_start <= Len(line) /\ line[word_start] \in Letters
          /\ \A k \in word_start .. i - 1 : line[k] \in Letters
          /\ word_start = 1 \/ line[word_start - 1] \notin Letters
          /\ Done(word_start - 1)

\* The lines read and shown.
OutputInv ==
    /\ pc \in Loading \cup {"loaded", "openIn", "openOut"} => lines = 0
    /\ lines = 0 => output = << >> /\ shown = << >>
    /\ status = 1 => lines = 0
    /\ (pc = "exit") = (status # -1)
    /\ lines <= Len(input)
    /\ \A n \in 1 .. Len(shown) : shown[n] <= IF pc \in InLine THEN lines - 1 ELSE lines
    /\ "line" \notin lost => Len(output) = IF pc \in InLine THEN lines - 1 ELSE lines
    /\ pc = "exit" /\ status = 0 /\ "line" \notin lost => lines = Len(input)
    /\ OutputExact

IInv == TypeOK /\ ArrayInv /\ ResourceInv /\ DictInv /\ LineInv /\ OutputInv

-----------------------------------------------------------------------------
(* Trimming and reading. *)

LEMMA TrimType ==
    ASSUME NEW b \in Seq(Char)
    PROVE  Trim(b) \in Seq(Char) /\ Len(Trim(b)) <= Len(b)
<1> DEFINE Kept == {n \in 1 .. Len(b) : \E k \in n .. Len(b) : b[k] \notin Spaces}
<1>1. Len(b) \in Nat OBVIOUS
<1>2. IsFiniteSet(1 .. Len(b)) /\ Cardinality(1 .. Len(b)) = Len(b)
  BY <1>1, FS_Interval
<1>3. Kept \subseteq 1 .. Len(b) OBVIOUS
<1> HIDE DEF Kept
<1>4. IsFiniteSet(Kept) /\ Cardinality(Kept) <= Len(b)
  BY <1>2, <1>3, FS_Subset
<1>5. Cardinality(Kept) \in Nat BY <1>4, FS_CardinalityType
<1>6. TrimmedLen(b) \in 0 .. Len(b) BY <1>1, <1>4, <1>5 DEF TrimmedLen, Kept
<1> QED BY <1>1, <1>6, SubSeqProperties DEF Trim

\* What fgets leaves and returns.
LEMMA BufferType ==
    ASSUME TypeOK, DictInv, next <= Len(dictFile)
    PROVE  /\ dictFile[next] \in Seq(Char)
           /\ Len(Rest) = Len(dictFile[next]) - offset
           /\ buffer \in Seq(Char)
           /\ offset = 0 /\ Len(dictFile[next]) < BufferSize => buffer = dictFile[next]
<1> DEFINE d == dictFile[next]
<1>1. dictFile \in Seq(Seq(Char)) /\ next \in 1 .. Len(dictFile) /\ offset \in Nat
  BY DEF TypeOK
<1>2. d \in Seq(Char) /\ Len(d) \in Nat BY <1>1
<1>3. offset <= Len(d) BY <1>1, <1>2 DEF DictInv
<1> HIDE DEF d
<1>4. Rest \in Seq(Char) /\ Len(Rest) = Len(d) - offset
  <2>1. \A k \in offset + 1 .. Len(d) : d[k] \in Char BY <1>1, <1>2
  <2>2. Rest = SubSeq(d, offset + 1, Len(d)) BY DEF Rest, d
  <2> QED BY <1>1, <1>2, <1>3, <2>1, <2>2, SubSeqProperties
<1>5. buffer \in Seq(Char)
  <2>1. CASE Len(Rest) < BufferSize BY <1>4, <2>1 DEF buffer
  <2>2. CASE ~(Len(Rest) < BufferSize)
    <3>1. BufferSize - 1 \in Int /\ \A k \in 1 .. BufferSize - 1 : Rest[k] \in Char
      BY <1>1, <1>2, <1>3, <1>4, <2>2, FilterAssumption
    <3>2. SubSeq(Rest, 1, BufferSize - 1) \in Seq(Char)
      BY <3>1, SubSeqProperties
    <3> QED BY <2>2, <3>2 DEF buffer
  <2> QED BY <2>1, <2>2
<1>6. ASSUME offset = 0, Len(d) < BufferSize PROVE buffer = d
  <2>1. Rest = d BY <1>2, <1>6, SubSeqFull DEF Rest, d
  <2> QED BY <1>6, <2>1 DEF buffer
<1> QED BY <1>2, <1>4, <1>5, <1>6 DEF d

\* Reading keeps what DictInv says of the place in the file.
LEMMA FgetsStep ==
    ASSUME TypeOK, DictInv, next <= Len(dictFile), Fgets, UNCHANGED dictFile
    PROVE  /\ next' \in Nat \ {0} /\ offset' \in Nat
           /\ offset' > 0 => /\ next' <= Len(dictFile)
                             /\ offset' <= Len(dictFile[next'])
                             /\ Len(dictFile[next']) >= BufferSize
           /\ next' \in {next, next + 1}
           /\ next' = next + 1 /\ Len(dictFile[next]) < BufferSize => buffer = dictFile[next]
<1>1. /\ dictFile[next] \in Seq(Char) /\ Len(dictFile[next]) \in Nat
      /\ Len(Rest) = Len(dictFile[next]) - offset
      /\ offset = 0 /\ Len(dictFile[next]) < BufferSize => buffer = dictFile[next]
  BY BufferType
<1>2. next \in Nat \ {0} /\ offset \in Nat BY DEF TypeOK
<1>3. offset > 0 => Len(dictFile[next]) >= BufferSize BY DEF DictInv
<1>4. CASE Len(Rest) < BufferSize
  BY <1>1, <1>2, <1>3, <1>4, FilterAssumption DEF Fgets
<1>5. CASE ~(Len(Rest) < BufferSize)
  <2>1. offset' = offset + BufferSize - 1 /\ next' = next BY <1>5 DEF Fgets
  <2> QED BY <1>1, <1>2, <1>3, <1>5, <2>1, FilterAssumption
<1> QED BY <1>4, <1>5

-----------------------------------------------------------------------------
LEMMA InitIInv == Init => IInv
<1> SUFFICES ASSUME Init PROVE IInv
    OBVIOUS
<1> USE FilterAssumption DEF Init
<1>1. TypeOK
  <2>1. dictFile \in Seq(Seq(Char)) /\ input \in Seq(Seq(Char)) OBVIOUS
  <2>2. words \in Seq(Seq(Char)) /\ line \in Seq(Char) /\ result \in Seq(Char)
        /\ output \in Seq(Seq(Char)) /\ shown \in Seq(Nat)
    OBVIOUS
  <2> QED BY <2>1, <2>2 DEF TypeOK
<1>2. ArrayInv BY DEF ArrayInv, WordsFit
<1>3. ResourceInv BY DEF ResourceInv, CleanExit
<1>4. DictInv
  <2>1. \A m \in 1 .. Len(dictFile) : ~(m < next) OBVIOUS
  <2> QED BY <2>1 DEF DictInv, Loading
<1>5. LineInv BY DEF LineInv, InLine
<1>6. OutputInv
  <2>1. Len(output) = 0 /\ Len(shown) = 0 /\ Len(input) \in Nat OBVIOUS
  <2> QED BY <2>1 DEF OutputInv, OutputExact, Loading, InLine
<1> QED BY <1>1, <1>2, <1>3, <1>4, <1>5, <1>6 DEF IInv

\* What a step that leaves the dictionary, the line and the output alone keeps.
LEMMA MainStep ==
    ASSUME IInv, pc \notin InLine, pc' \notin InLine \cup {"load", "exit"},
           pc # "exit", pc' \in Loading => pc \in Loading,
           pc \in Loading => pc' \in Loading \/ next > Len(dictFile) \/ "word" \in lost,
           pc' \in Loading \cup {"loaded", "openIn", "openOut"} => pc # "read",
           pc' \in {"options", "openDict", "create"} => pc \in {"options", "openDict", "create"},
           status' = status, UNCHANGED <<start, dictVars, lineVars, outVars, lost>>
    PROVE  ArrayInv' /\ DictInv' /\ LineInv' /\ OutputInv'
<1> USE DEF IInv, start, dictVars, lineVars, outVars
<1>1. ArrayInv' BY DEF ArrayInv, WordsFit
<1>2. DictInv' BY DEF DictInv, Stored, Loading
<1>3. LineInv' BY DEF LineInv, InLine
<1>4. OutputExact'
  <2>1. OutputExact BY DEF OutputInv
  <2>2. UNCHANGED <<input, words, output, shown, status, lost>> OBVIOUS
  <2> QED BY ONLY <2>1, <2>2
        DEF OutputExact
<1>5. OutputInv' BY <1>4 DEF OutputInv, InLine, Loading, TypeOK
<1> QED BY <1>1, <1>2, <1>3, <1>5

\* A return with an error, before any line has been read.
LEMMA ErrorStep ==
    ASSUME IInv, Return(1), pc \in Loading \cup {"openIn", "openOut"},
           UNCHANGED <<start, next, offset, words, lineVars, outVars, lost>>,
           allocated' >= allocated, allocated' \in Nat
    PROVE  ArrayInv' /\ DictInv' /\ LineInv' /\ OutputInv'
<1> USE DEF IInv, start, lineVars, outVars, Return
<1>1. ArrayInv' BY DEF ArrayInv, WordsFit, TypeOK
<1>2. DictInv' BY DEF DictInv, Stored, Loading
<1>3. LineInv' BY DEF LineInv, InLine
<1>4. OutputInv'
  <2>1. lines = 0 /\ output = << >> /\ shown = << >> BY DEF OutputInv
  <2>2. Len(output') = 0 /\ Len(shown') = 0 /\ lines' = 0 BY <2>1
  <2>3. Len(input) \in Nat BY DEF TypeOK
  <2>4. OutputExact' BY <2>2 DEF OutputExact
  <2> QED BY <2>1, <2>2, <2>3, <2>4 DEF OutputInv, InLine, Loading
<1> QED BY <1>1, <1>2, <1>3, <1>4

-----------------------------------------------------------------------------
(* main. *)

LEMMA OptionsStep == ASSUME IInv, Options PROVE IInv'
<1> USE DEF IInv, Options
<1>1. CASE Return(1)
  <2> USE <1>1
  <2>1. ArrayInv' /\ DictInv' /\ LineInv' /\ OutputInv'
    <3>1. allocated \in Nat BY DEF TypeOK
    <3> QED BY <3>1, ErrorStep DEF Loading, dictVars
  <2>2. TypeOK' BY DEF TypeOK, Return, start, dictVars, lineVars, outVars
  <2>3. ResourceInv' BY DEF ResourceInv, CleanExit, Return
  <2> QED BY <2>1, <2>2, <2>3
<1>2. CASE Goto("openDict")
  <2> USE <1>2 DEF Goto
  <2>1. ArrayInv' /\ DictInv' /\ LineInv' /\ OutputInv'
    BY MainStep DEF Loading, InLine
  <2>2. TypeOK' BY DEF TypeOK, start, dictVars, lineVars, outVars
  <2>3. ResourceInv' BY DEF ResourceInv, CleanExit
  <2> QED BY <2>1, <2>2, <2>3
<1> QED BY <1>1, <1>2

LEMMA OpenDictionaryStep == ASSUME IInv, OpenDictionary PROVE IInv'
<1> USE DEF IInv, OpenDictionary
<1>1. CASE Return(1) /\ UNCHANGED open
  <2> USE <1>1
  <2>1. ArrayInv' /\ DictInv' /\ LineInv' /\ OutputInv'
    <3>1. allocated \in Nat BY DEF TypeOK
    <3> QED BY <3>1, ErrorStep DEF Loading, dictVars
  <2>2. TypeOK' BY DEF TypeOK, Return, start, dictVars, lineVars, outVars
  <2>3. ResourceInv' BY DEF ResourceInv, CleanExit, Return
  <2> QED BY <2>1, <2>2, <2>3
<1>2. CASE Goto("create") /\ open' = {"df"}
  <2> USE <1>2 DEF Goto
  <2>1. ArrayInv' /\ DictInv' /\ LineInv' /\ OutputInv'
    BY MainStep DEF Loading, InLine
  <2>2. TypeOK' BY DEF TypeOK, start, dictVars, lineVars, outVars
  <2>3. ResourceInv' BY DEF ResourceInv, CleanExit
  <2> QED BY <2>1, <2>2, <2>3
<1> QED BY <1>1, <1>2

LEMMA CloseDictionaryStep == ASSUME IInv, CloseDictionary PROVE IInv'
<1> USE DEF IInv, CloseDictionary, Goto
<1>1. ArrayInv' /\ DictInv' /\ LineInv' /\ OutputInv'
  BY MainStep DEF Loading, InLine
<1>2. TypeOK' BY DEF TypeOK, start, dictVars, lineVars, outVars
<1>3. ResourceInv' BY DEF ResourceInv, CleanExit
<1> QED BY <1>1, <1>2, <1>3

LEMMA OpenInputStep == ASSUME IInv, OpenInput PROVE IInv'
<1> USE DEF IInv, OpenInput
<1>1. CASE Return(1) /\ heap' = AfterDictFree /\ UNCHANGED open
  <2> USE <1>1
  <2>1. ArrayInv' /\ DictInv' /\ LineInv' /\ OutputInv'
    <3>1. allocated \in Nat BY DEF TypeOK
    <3> QED BY <3>1, ErrorStep DEF Loading, dictVars
  <2>2. TypeOK' BY DEF TypeOK, Return, start, dictVars, lineVars, outVars, AfterDictFree
  <2>3. ResourceInv' BY DEF ResourceInv, CleanExit, Return, AfterDictFree, DictBlocks
  <2> QED BY <2>1, <2>2, <2>3
<1>2. CASE /\ Goto("openOut") /\ UNCHANGED heap
           /\ open' = IF "i" \in options THEN open \cup {"in"} ELSE open
  <2> USE <1>2 DEF Goto
  <2>1. ArrayInv' /\ DictInv' /\ LineInv' /\ OutputInv'
    BY MainStep DEF Loading, InLine
  <2>2. TypeOK' BY DEF TypeOK, start, dictVars, lineVars, outVars
  <2>3. ResourceInv' BY DEF ResourceInv, CleanExit
  <2> QED BY <2>1, <2>2, <2>3
<1> QED BY <1>1, <1>2

LEMMA OpenOutputStep == ASSUME IInv, OpenOutput PROVE IInv'
<1> USE DEF IInv, OpenOutput
<1>1. CASE Return(1) /\ open' = open \ {"in"} /\ heap' = AfterDictFree
  <2> USE <1>1
  <2>1. ArrayInv' /\ DictInv' /\ LineInv' /\ OutputInv'
    <3>1. allocated \in Nat BY DEF TypeOK
    <3> QED BY <3>1, ErrorStep DEF Loading, dictVars
  <2>2. TypeOK' BY DEF TypeOK, Return, start, dictVars, lineVars, outVars, AfterDictFree
  <2>3. ResourceInv' BY DEF ResourceInv, CleanExit, Return, AfterDictFree, DictBlocks
  <2> QED BY <2>1, <2>2, <2>3
<1>2. CASE /\ Goto("read") /\ UNCHANGED heap
           /\ open' = IF "o" \in options THEN open \cup {"out"} ELSE open
  <2> USE <1>2 DEF Goto
  <2>1. ArrayInv' /\ DictInv' /\ LineInv' /\ OutputInv'
    BY MainStep DEF Loading, InLine
  <2>2. TypeOK' BY DEF TypeOK, start, dictVars, lineVars, outVars
  <2>3. ResourceInv' BY DEF ResourceInv, CleanExit, DictBlocks
  <2> QED BY <2>1, <2>2, <2>3
<1> QED BY <1>1, <1>2

LEMMA FinishStep == ASSUME IInv, Finish PROVE IInv'
<1> USE DEF IInv, Finish, Return, start, dictVars, lineVars, outVars
<1>1. TypeOK' BY DEF TypeOK, AfterDictFree
<1>2. ArrayInv' BY DEF ArrayInv, WordsFit
<1>3. ResourceInv' BY DEF ResourceInv, CleanExit, AfterDictFree, DictBlocks
<1>4. DictInv'
  <2>1. "word" \in lost' <=> "word" \in lost OBVIOUS
  <2>2. status # 1 BY DEF OutputInv
  <2> QED BY <2>1, <2>2 DEF DictInv, Stored, Loading
<1>5. LineInv' BY DEF LineInv, InLine
<1>6. OutputInv'
  <2>1. lines \in Nat /\ Len(input) \in Nat BY DEF TypeOK
  <2>2. "line" \notin lost' => lines = Len(input) /\ "line" \notin lost
    BY <2>1 DEF OutputInv
  <2>3. OutputExact'
    BY <2>2 DEF OutputInv, OutputExact, InLine
  <2> QED BY <2>1, <2>2, <2>3 DEF OutputInv, InLine, Loading
<1> QED BY <1>1, <1>2, <1>3, <1>4, <1>5, <1>6

LEMMA GetLineStep == ASSUME IInv, GetLine PROVE IInv'
<1> USE DEF IInv, GetLine, Goto, start, dictVars
<1>0. input \in Seq(Seq(Char)) /\ lines + 1 \in 1 .. Len(input) /\ lines \in Nat
  BY DEF TypeOK
<1>1. TypeOK'
  <2>1. line' \in Seq(Char) BY <1>0
  <2> QED BY <1>0, <2>1 DEF TypeOK
<1>2. ArrayInv' BY DEF ArrayInv, WordsFit
<1>3. ResourceInv' BY DEF ResourceInv, CleanExit
<1>4. DictInv' BY DEF DictInv, Stored, Loading
<1>5. LineInv' BY <1>0 DEF LineInv, InLine
<1>6. OutputInv'
  <2>1. OutputExact'
    BY DEF OutputInv, OutputExact
  <2>2. shown \in Seq(Nat) BY DEF TypeOK
  <2>3. \A n \in 1 .. Len(shown) : shown[n] <= lines BY DEF OutputInv, InLine
  <2>4. lines' # 0 /\ lines' - 1 = lines BY <1>0
  <2> QED BY <1>0, <2>1, <2>2, <2>3, <2>4 DEF OutputInv, InLine, Loading
<1> QED BY <1>1, <1>2, <1>3, <1>4, <1>5, <1>6

-----------------------------------------------------------------------------
(* dictionary.c. *)

LEMMA DictCreateStep == ASSUME IInv, DictCreate PROVE IInv'
<1> USE FilterAssumption DEF IInv, DictCreate
<1>1. CASE Return(1) /\ open' = open \ {"df"} /\ UNCHANGED <<heap, capacity, allocated>>
  <2> USE <1>1
  <2>1. ArrayInv' /\ DictInv' /\ LineInv' /\ OutputInv'
    <3>1. allocated \in Nat BY DEF TypeOK
    <3> QED BY <3>1, ErrorStep DEF Loading
  <2>2. TypeOK' BY DEF TypeOK, Return, start, lineVars, outVars
  <2>3. ResourceInv' BY DEF ResourceInv, CleanExit, Return
  <2> QED BY <2>1, <2>2, <2>3
<1>2. CASE /\ Goto("load") /\ heap' = {"dict", "words"}
           /\ capacity' = InitialCapacity /\ allocated' = InitialCapacity
           /\ UNCHANGED open
  <2> USE <1>2 DEF Goto, start, lineVars, outVars
  <2>1. TypeOK' BY DEF TypeOK
  <2>2. ArrayInv' BY DEF ArrayInv, WordsFit
  <2>3. ResourceInv' BY DEF ResourceInv, CleanExit, DictBlocks
  <2>4. DictInv' BY DEF DictInv, Stored, Loading
  <2>5. LineInv' BY DEF LineInv, InLine
  <2>6. OutputInv'
    <3>1. lines = 0 /\ Len(input) \in Nat BY DEF OutputInv, Loading, TypeOK
    <3>2. OutputExact' /\ output = << >> /\ shown = << >>
      BY <3>1 DEF OutputInv, OutputExact
    <3> QED BY <3>1, <3>2 DEF OutputInv, Loading, InLine
  <2> QED BY <2>1, <2>2, <2>3, <2>4, <2>5, <2>6
<1> QED BY <1>1, <1>2

\* What reading the dictionary keeps of the line and the output.
LEMMA LoadKeeps ==
    ASSUME IInv, pc = "load", pc' \in {"load", "loaded"}, status' = status,
           UNCHANGED <<start, open, lineVars, outVars>>,
           "line" \in lost' <=> "line" \in lost
    PROVE  LineInv' /\ OutputInv'
<1> USE DEF IInv, start, lineVars, outVars
<1>1. LineInv' BY DEF LineInv, InLine
<1>2. lines = 0 /\ Len(input) \in Nat /\ output = << >> /\ shown = << >>
  BY DEF OutputInv, Loading, TypeOK
<1>3. Len(output') = 0 /\ Len(shown') = 0 BY <1>2
<1>4. status = -1 BY DEF OutputInv, TypeOK
<1>5. OutputExact' BY <1>3, <1>4 DEF OutputExact
<1>6. OutputInv' BY <1>2, <1>3, <1>4, <1>5 DEF OutputInv, Loading, InLine
<1> QED BY <1>1, <1>6

LEMMA SkipEmptyStep == ASSUME IInv, SkipEmpty PROVE IInv'
<1> USE FilterAssumption DEF IInv, SkipEmpty, start
<1>1. /\ next' \in Nat \ {0} /\ offset' \in Nat
      /\ offset' > 0 => /\ next' <= Len(dictFile)
                        /\ offset' <= Len(dictFile[next'])
                        /\ Len(dictFile[next']) >= BufferSize
      /\ next' \in {next, next + 1}
      /\ next' = next + 1 /\ Len(dictFile[next]) < BufferSize => buffer = dictFile[next]
  BY FgetsStep
<1>2. LineInv' /\ OutputInv' BY LoadKeeps
<1>3. TypeOK' BY <1>1 DEF TypeOK, lineVars, outVars
<1>4. ArrayInv' BY DEF ArrayInv, WordsFit
<1>5. ResourceInv' BY DEF ResourceInv, CleanExit
<1>6. DictInv'
  <2>1. ASSUME "word" \notin lost, NEW m \in 1 .. Len(dictFile), m < next',
               Len(dictFile[m]) < BufferSize, Trim(dictFile[m]) # << >>
        PROVE  Stored(m)
    <3>1. m # next \/ next' = next BY <1>1, <2>1
    <3>2. m < next BY <1>1, <2>1, <3>1 DEF TypeOK
    <3> QED BY <2>1, <3>2 DEF DictInv
  <2> QED BY <1>1, <2>1 DEF DictInv, Stored, Loading
<1> QED BY <1>2, <1>3, <1>4, <1>5, <1>6

\* A word that was read is stored, or one is lost, in an array with room for it.
LEMMA StoreStep ==
    ASSUME IInv, pc = "load", next <= Len(dictFile), Fgets, Store,
           UNCHANGED <<start, pc, status, open, lineVars, outVars>>,
           capacity' = allocated', allocated' \in Nat, Len(words) < allocated'
    PROVE  IInv'
<1> USE FilterAssumption DEF IInv, start
<1>1. /\ next' \in Nat \ {0} /\ offset' \in Nat
      /\ offset' > 0 => /\ next' <= Len(dictFile)
                        /\ offset' <= Len(dictFile[next'])
                        /\ Len(dictFile[next']) >= BufferSize
      /\ next' \in {next, next + 1}
      /\ next' = next + 1 /\ Len(dictFile[next]) < BufferSize => buffer = dictFile[next]
  BY FgetsStep
<1>2. buffer \in Seq(Char) BY BufferType
<1>3. Trim(buffer) \in Seq(Char) BY <1>2, TrimType
<1>4. words \in Seq(Seq(Char)) /\ Len(words) \in Nat BY DEF TypeOK
<1>5. CASE words' = Append(words, Trim(buffer)) /\ heap' = heap \cup {"entries"} /\ UNCHANGED lost
  <2> USE <1>5
  <2>1. /\ words' \in Seq(Seq(Char)) /\ Len(words') = Len(words) + 1
        /\ words'[Len(words) + 1] = Trim(buffer)
        /\ \A k \in 1 .. Len(words) : words'[k] = words[k]
    BY <1>3, <1>4
  <2>2. LineInv' /\ OutputInv' BY LoadKeeps
  <2>3. TypeOK' BY <1>1, <2>1 DEF TypeOK, lineVars, outVars
  <2>4. ArrayInv' BY <1>4, <2>1 DEF ArrayInv, WordsFit
  <2>5. ResourceInv' BY DEF ResourceInv, CleanExit, DictBlocks
  <2>6. DictInv'
    <3>1. ASSUME "word" \notin lost, NEW m \in 1 .. Len(dictFile), m < next',
                 Len(dictFile[m]) < BufferSize, Trim(dictFile[m]) # << >>
          PROVE  \E k \in 1 .. Len(words') : words'[k] = Trim(dictFile[m])
      <4>1. CASE m < next
        <5>1. PICK k \in 1 .. Len(words) : words[k] = Trim(dictFile[m])
          BY <3>1, <4>1 DEF DictInv, Stored
        <5> QED BY <1>4, <2>1, <5>1
      <4>2. CASE ~(m < next)
        <5>1. next \in Nat BY DEF TypeOK
        <5>2. m = next /\ next' = next + 1 BY <1>1, <3>1, <4>2, <5>1
        <5>3. buffer = dictFile[m] BY <1>1, <3>1, <5>2
        <5>4. words'[Len(words) + 1] = Trim(dictFile[m]) BY <2>1, <5>3
        <5>5. Len(words) + 1 \in 1 .. Len(words') BY <1>4, <2>1
        <5> QED BY <5>4, <5>5
      <4> QED BY <4>1, <4>2
    <3> QED BY <1>1, <3>1 DEF DictInv, Stored, Loading
  <2> QED BY <2>2, <2>3, <2>4, <2>5, <2>6
<1>6. CASE lost' = lost \cup {"word"} /\ UNCHANGED <<words, heap>>
  <2> USE <1>6
  <2>1. LineInv' /\ OutputInv' BY LoadKeeps
  <2>2. TypeOK' BY <1>1 DEF TypeOK, lineVars, outVars
  <2>3. ArrayInv' BY <1>4 DEF ArrayInv, WordsFit
  <2>4. ResourceInv' BY DEF ResourceInv, CleanExit
  <2>5. DictInv' BY <1>1 DEF DictInv
  <2> QED BY <2>1, <2>2, <2>3, <2>4, <2>5
<1> QED BY <1>5, <1>6 DEF Store

LEMMA AddWordStep == ASSUME IInv, AddWord PROVE IInv'
<1>1. /\ capacity' = allocated' /\ allocated' \in Nat /\ Len(words) < allocated'
  BY DEF IInv, AddWord, ArrayInv, TypeOK
<1> QED BY <1>1, StoreStep DEF AddWord

LEMMA GrowStep == ASSUME IInv, Grow PROVE IInv'
<1>1. /\ capacity = allocated /\ capacity >= 1 /\ allocated \in Nat
      /\ Len(words) \in Nat /\ Len(words) <= allocated
  BY DEF IInv, Grow, ArrayInv, WordsFit, TypeOK
<1>2. CASE allocated' = 2 * capacity /\ Store /\ UNCHANGED pc
  <2>1. capacity' = allocated' /\ allocated' \in Nat /\ Len(words) < allocated'
    BY <1>1, <1>2 DEF Grow
  <2> QED BY <1>2, <2>1, StoreStep DEF Grow
<1>3. CASE /\ pc' = "loaded" /\ lost' = lost \cup {"word"}
           /\ UNCHANGED <<allocated, words, heap>>
  <2> USE <1>3, FilterAssumption DEF IInv, Grow, start
  <2>1. /\ next' \in Nat \ {0} /\ offset' \in Nat
        /\ offset' > 0 => /\ next' <= Len(dictFile)
                          /\ offset' <= Len(dictFile[next'])
                          /\ Len(dictFile[next']) >= BufferSize
    BY FgetsStep
  <2>2. LineInv' /\ OutputInv' BY LoadKeeps
  <2>3. TypeOK' BY <1>1, <2>1 DEF TypeOK, lineVars, outVars
  <2>4. ArrayInv' BY DEF ArrayInv, WordsFit
  <2>5. ResourceInv' BY DEF ResourceInv, CleanExit
  <2>6. DictInv' BY <2>1 DEF DictInv
  <2> QED BY <2>2, <2>3, <2>4, <2>5, <2>6
<1> QED BY <1>2, <1>3 DEF Grow

LEMMA EndOfDictionaryStep == ASSUME IInv, EndOfDictionary PROVE IInv'
<1> USE DEF IInv, EndOfDictionary, Goto, start, dictVars
<1>1. LineInv' /\ OutputInv' BY LoadKeeps
<1>2. TypeOK' BY DEF TypeOK, lineVars, outVars
<1>3. ArrayInv' BY DEF ArrayInv, WordsFit
<1>4. ResourceInv' BY DEF ResourceInv, CleanExit
<1>5. DictInv' BY DEF DictInv, Stored, Loading
<1> QED BY <1>1, <1>2, <1>3, <1>4, <1>5

-----------------------------------------------------------------------------
(* filter.c. *)

\* What a step of filter_line that shows no line keeps of the dictionary and of
\* the lines shown before.
LEMMA FilterKeeps ==
    ASSUME IInv, pc \in InLine, pc' \in InLine, status' = status,
           UNCHANGED <<start, open, dictVars, outVars, lost>>
    PROVE  ArrayInv' /\ DictInv' /\ OutputInv'
<1> USE DEF IInv, start, dictVars, outVars
<1>1. ArrayInv' BY DEF ArrayInv, WordsFit, InLine
<1>2. DictInv' BY DEF DictInv, Stored, Loading, InLine
<1>3. OutputExact' BY DEF OutputInv, OutputExact
<1>4. OutputInv' BY <1>3 DEF OutputInv, Loading, InLine
<1> QED BY <1>1, <1>2, <1>4

\* An allocation fails in filter_line, and the line is lost.
LEMMA LineLost ==
    ASSUME IInv, pc \in InLine, Goto("read"), lost' = lost \cup {"line"},
           UNCHANGED <<start, open, dictVars, outVars>>
    PROVE  ArrayInv' /\ DictInv' /\ LineInv' /\ OutputInv'
<1> USE DEF IInv, start, dictVars, outVars, Goto
<1>1. ArrayInv' BY DEF ArrayInv, WordsFit, InLine
<1>2. DictInv'
  <2>1. "word" \in lost' <=> "word" \in lost OBVIOUS
  <2> QED BY <2>1 DEF DictInv, Stored, Loading, InLine
<1>3. LineInv' BY DEF LineInv, InLine
<1>4. lines \in 1 .. Len(input) /\ Len(input) \in Nat /\ shown \in Seq(Nat)
  BY DEF LineInv, TypeOK
<1>5. OutputExact' BY DEF OutputInv, OutputExact, InLine
<1>6. \A n \in 1 .. Len(shown) : shown[n] <= lines
  BY <1>4 DEF OutputInv
<1>7. OutputInv' BY <1>4, <1>5, <1>6 DEF OutputInv, Loading, InLine
<1> QED BY <1>1, <1>2, <1>3, <1>7

LEMMA FilterLineStep == ASSUME IInv, FilterLine PROVE IInv'
<1> USE DEF IInv, FilterLine
<1>1. CASE Goto("read") /\ lost' = lost \cup {"line"} /\ UNCHANGED <<heap, lineVars>>
  <2> USE <1>1
  <2>1. ArrayInv' /\ DictInv' /\ LineInv' /\ OutputInv'
    BY LineLost DEF InLine
  <2>2. TypeOK' BY DEF TypeOK, Goto, start, dictVars, lineVars, outVars
  <2>3. ResourceInv' BY DEF ResourceInv, CleanExit, Goto
  <2> QED BY <2>1, <2>2, <2>3
<1>2. CASE /\ Goto("scan") /\ heap' = heap \cup {"result"}
           /\ i' = 1 /\ result' = << >> /\ UNCHANGED <<line, word_start, lost>>
  <2> USE <1>2 DEF Goto
  <2>1. ArrayInv' /\ DictInv' /\ OutputInv' BY FilterKeeps DEF InLine
  <2>2. TypeOK' BY DEF TypeOK, start, dictVars, outVars
  <2>3. ResourceInv' BY DEF ResourceInv, CleanExit
  <2>4. LineInv'
    <3>1. Len(line) \in Nat BY DEF TypeOK
    <3> QED BY <3>1 DEF LineInv, InLine, Done, start, outVars
  <2> QED BY <2>1, <2>2, <2>3, <2>4
<1> QED BY <1>1, <1>2

\* A character that is no letter is not part of a word.
LEMMA MarkShown ==
    ASSUME NEW dict, NEW s \in Seq(Char), NEW k \in 1 .. Len(s), s[k] \notin Letters
    PROVE  ~Hidden(dict, s, k)
<1> SUFFICES ASSUME NEW a \in 1 .. k, NEW b \in k .. Len(s), IsWord(s, a, b) PROVE FALSE
    BY DEF Hidden
<1>1. k \in a .. b OBVIOUS
<1> QED BY <1>1 DEF IsWord

\* A letter is part of one word only.
LEMMA OneWord ==
    ASSUME NEW dict, NEW s \in Seq(Char), NEW a \in 1 .. Len(s), NEW b \in a .. Len(s),
           IsWord(s, a, b), NEW k \in a .. b
    PROVE  Hidden(dict, s, k) <=> dict_is_forbidden(dict, SubSeq(s, a, b))
<1>1. Len(s) \in Nat OBVIOUS
<1>2. ASSUME NEW c \in 1 .. k, NEW d \in k .. Len(s), IsWord(s, c, d)
      PROVE  c = a /\ d = b
  <2>1. ~(c < a)
    <3> SUFFICES ASSUME c < a PROVE FALSE
      OBVIOUS
    <3>1. a - 1 \in c .. d /\ a # 1 BY <1>1, <1>2
    <3> QED BY <1>2, <3>1 DEF IsWord
  <2>2. ~(a < c)
    <3> SUFFICES ASSUME a < c PROVE FALSE
      OBVIOUS
    <3>1. c - 1 \in a .. b /\ c # 1 BY <1>1, <1>2
    <3> QED BY <1>2, <3>1 DEF IsWord
  <2>3. ~(b < d)
    <3> SUFFICES ASSUME b < d PROVE FALSE
      OBVIOUS
    <3>1. b + 1 \in c .. d /\ b # Len(s) BY <1>1, <1>2
    <3> QED BY <1>2, <3>1 DEF IsWord
  <2>4. ~(d < b)
    <3> SUFFICES ASSUME d < b PROVE FALSE
      OBVIOUS
    <3>1. d + 1 \in a .. b /\ d # Len(s) BY <1>1, <1>2
    <3> QED BY <1>2, <3>1 DEF IsWord
  <2> QED BY <1>1, <2>1, <2>2, <2>3, <2>4
<1>3. a \in 1 .. k /\ b \in k .. Len(s) BY <1>1
<1> QED BY <1>2, <1>3 DEF Hidden

LEMMA CopyCharStep == ASSUME IInv, CopyChar PROVE IInv'
<1> USE DEF IInv, CopyChar
<1>1. ArrayInv' /\ DictInv' /\ OutputInv' BY FilterKeeps DEF InLine
<1>2. /\ line \in Seq(Char) /\ result \in Seq(Char) /\ i \in 1 .. Len(line)
      /\ Len(line) \in Nat /\ line[i] \in Char
  BY DEF TypeOK
<1>3. TypeOK' BY <1>2 DEF TypeOK, start, dictVars, outVars
<1>4. ResourceInv' BY DEF ResourceInv, CleanExit
<1>5. LineInv'
  <2>1. Len(result) = i - 1 /\ \A k \in 1 .. i - 1 :
          result[k] = IF Hidden(words, line, k) THEN "*" ELSE line[k]
    BY DEF LineInv, Done
  <2>2. ~Hidden(words, line, i) BY <1>2, MarkShown
  <2>3. /\ Len(result') = i /\ result'[i] = line[i]
        /\ \A k \in 1 .. i - 1 : result'[k] = result[k]
    BY <1>2, <2>1
  <2>4. \A k \in 1 .. i : k = i \/ k \in 1 .. i - 1 BY <1>2
  <2>5. /\ Len(result') = i
        /\ \A k \in 1 .. i : result'[k] = IF Hidden(words, line, k) THEN "*" ELSE line[k]
    BY <2>1, <2>2, <2>3, <2>4
  <2> QED BY <1>2, <2>5 DEF LineInv, InLine, Done, start, dictVars, outVars
<1> QED BY <1>1, <1>3, <1>4, <1>5

LEMMA WordStartStep == ASSUME IInv, WordStart PROVE IInv'
<1> USE DEF IInv, WordStart, Goto
<1>1. ArrayInv' /\ DictInv' /\ OutputInv' BY FilterKeeps DEF InLine
<1>2. TypeOK' BY DEF TypeOK, start, dictVars, outVars
<1>3. ResourceInv' BY DEF ResourceInv, CleanExit
<1>4. LineInv'
  <2>1. line \in Seq(Char) /\ Len(line) \in Nat /\ i \in 1 .. Len(line) BY DEF TypeOK
  <2>2. i .. i - 1 = {} BY <2>1
  <2> QED BY <2>1, <2>2 DEF LineInv, InLine, Done, start, dictVars, outVars
<1> QED BY <1>1, <1>2, <1>3, <1>4

LEMMA WordCharStep == ASSUME IInv, WordChar PROVE IInv'
<1> USE DEF IInv, WordChar
<1>1. ArrayInv' /\ DictInv' /\ OutputInv' BY FilterKeeps DEF InLine
<1>2. TypeOK' BY DEF TypeOK, start, dictVars, outVars
<1>3. ResourceInv' BY DEF ResourceInv, CleanExit
<1>4. LineInv'
  <2>1. Len(line) \in Nat /\ i \in 1 .. Len(line) /\ word_start \in Nat BY DEF TypeOK
  <2>2. \A k \in word_start .. i : k = i \/ k \in word_start .. i - 1 BY <2>1
  <2> QED BY <2>1, <2>2 DEF LineInv, InLine, Done, start, dictVars, outVars
<1> QED BY <1>1, <1>2, <1>3, <1>4

LEMMA WordEndStep == ASSUME IInv, WordEnd PROVE IInv'
<1> USE DEF IInv
<1> DEFINE word == SubSeq(line, word_start, i - 1)
           piece == IF dict_is_forbidden(words, word) THEN [k \in 1 .. Len(word) |-> "*"] ELSE word
<1>1. /\ pc = "word" /\ ~(i <= Len(line) /\ line[i] \in Letters)
      /\ UNCHANGED <<start, open, dictVars, line, i, word_start, outVars>>
  BY DEF WordEnd
<1>2. CASE Goto("read") /\ heap' = heap \ {"result"} /\ lost' = lost \cup {"line"} /\ UNCHANGED result
  <2> USE <1>1, <1>2
  <2>1. ArrayInv' /\ DictInv' /\ LineInv' /\ OutputInv' BY LineLost DEF InLine
  <2>2. TypeOK' BY DEF TypeOK, Goto, start, dictVars, outVars
  <2>3. ResourceInv' BY DEF ResourceInv, CleanExit, Goto
  <2> QED BY <2>1, <2>2, <2>3
<1>3. CASE Goto("scan") /\ result' = result \o piece /\ UNCHANGED <<heap, lost>>
  <2>1. ArrayInv' /\ DictInv' /\ OutputInv' BY <1>1, <1>3, FilterKeeps DEF InLine, Goto
  <2>2. ResourceInv' BY <1>1, <1>3 DEF ResourceInv, CleanExit, Goto
  <2>3. /\ line \in Seq(Char) /\ result \in Seq(Char) /\ Len(line) \in Nat
        /\ i \in Nat /\ word_start \in 1 .. Len(line)
        /\ i - 1 \in word_start .. Len(line)
        /\ IsWord(line, word_start, i - 1)
        /\ Len(result) = word_start - 1
        /\ \A k \in 1 .. word_start - 1 :
              result[k] = IF Hidden(words, line, k) THEN "*" ELSE line[k]
    <3>1. /\ line \in Seq(Char) /\ result \in Seq(Char) /\ Len(line) \in Nat
          /\ i \in Nat /\ word_start \in Nat \ {0}
      BY DEF TypeOK
    <3>2. /\ word_start <= i /\ i <= Len(line) + 1
          /\ word_start <= Len(line) /\ line[word_start] \in Letters
          /\ \A k \in word_start .. i - 1 : line[k] \in Letters
          /\ word_start = 1 \/ line[word_start - 1] \notin Letters
          /\ Done(word_start - 1)
      BY <1>1 DEF LineInv
    <3>3. word_start < i BY <1>1, <3>1, <3>2
    <3>4. IsWord(line, word_start, i - 1)
      <4>1. i - 1 = Len(line) \/ line[i] \notin Letters
        <5>1. CASE i <= Len(line) BY <1>1, <5>1
        <5>2. CASE ~(i <= Len(line)) BY <3>1, <3>2, <5>2
        <5> QED BY <5>1, <5>2
      <4>2. (i - 1) + 1 = i BY <3>1
      <4> QED BY <3>1, <3>2, <4>1, <4>2 DEF IsWord
    <3> QED BY <3>1, <3>2, <3>3, <3>4 DEF Done
  <2>4. /\ word \in Seq(Char) /\ Len(word) = i - word_start
        /\ \A k \in 1 .. i - word_start : word[k] = line[word_start + k - 1]
    <3>1. \A k \in word_start .. i - 1 : line[k] \in Char BY <2>3
    <3> QED BY <2>3, <3>1, SubSeqProperties
  <2>5. /\ piece \in Seq(Char) /\ Len(piece) = i - word_start
        /\ \A k \in 1 .. i - word_start :
              piece[k] = IF dict_is_forbidden(words, word) THEN "*" ELSE line[word_start + k - 1]
    <3> HIDE DEF word
    <3>1. CASE dict_is_forbidden(words, word)
      <4>1. piece = [k \in 1 .. Len(word) |-> "*"] BY <3>1
      <4> QED BY <2>3, <2>4, <3>1, <4>1, FilterAssumption
    <3>2. CASE ~dict_is_forbidden(words, word)
      <4>1. piece = word BY <3>2
      <4> QED BY <2>4, <3>2, <4>1
    <3> QED BY <3>1, <3>2
  <2> HIDE DEF piece
  <2>6. /\ result' \in Seq(Char) /\ Len(result') = i - 1
        /\ \A k \in 1 .. word_start - 1 : result'[k] = result[k]
        /\ \A k \in word_start .. i - 1 : result'[k] = piece[k - (word_start - 1)]
    <3>1. /\ result \o piece \in Seq(Char)
          /\ Len(result \o piece) = Len(result) + Len(piece)
          /\ \A k \in 1 .. Len(result) + Len(piece) :
                (result \o piece)[k] = IF k <= Len(result) THEN result[k]
                                                         ELSE piece[k - Len(result)]
      BY <2>3, <2>5, ConcatProperties
    <3>2. result' = result \o piece BY <1>3
    <3>3. Len(result) + Len(piece) = i - 1 BY <2>3, <2>5
    <3>4. \A k \in 1 .. word_start - 1 : k \in 1 .. i - 1 /\ k <= Len(result) BY <2>3
    <3>5. \A k \in word_start .. i - 1 : k \in 1 .. i - 1 /\ ~(k <= Len(result)) BY <2>3
    <3> QED BY <2>3, <3>1, <3>2, <3>3, <3>4, <3>5
  <2>7. \A k \in 1 .. i - 1 : result'[k] = IF Hidden(words, line, k) THEN "*" ELSE line[k]
    <3>1. ASSUME NEW k \in word_start .. i - 1
          PROVE  result'[k] = IF Hidden(words, line, k) THEN "*" ELSE line[k]
      <4>1. Hidden(words, line, k) <=> dict_is_forbidden(words, word)
        BY <2>3, OneWord
      <4>2. k - (word_start - 1) \in 1 .. i - word_start
            /\ word_start + (k - (word_start - 1)) - 1 = k
        BY <2>3
      <4> HIDE DEF word
      <4> QED BY <2>5, <2>6, <4>1, <4>2
    <3>2. \A k \in 1 .. i - 1 : k \in 1 .. word_start - 1 \/ k \in word_start .. i - 1
      BY <2>3
    <3> QED BY <2>3, <2>6, <3>1, <3>2
  <2>8. LineInv'
    <3>1. pc' = "scan" /\ line' = line /\ i' = i /\ input' = input /\ lines' = lines /\ words' = words
      BY <1>1, <1>3 DEF Goto, start, dictVars, outVars
    <3>2. lines \in 1 .. Len(input) /\ line = input[lines] BY <1>1 DEF LineInv, InLine
    <3>3. i - 1 <= Len(line) /\ Done(i - 1)'
      BY <1>1, <2>3, <2>6, <2>7, <3>1 DEF Done
    <3> QED BY <1>1, <2>3, <3>1, <3>2, <3>3 DEF LineInv, InLine
  <2>9. TypeOK' BY <1>1, <1>3, <2>6 DEF TypeOK, Goto, start, dictVars, outVars
  <2> QED BY <2>1, <2>2, <2>8, <2>9
<1> QED BY <1>2, <1>3 DEF WordEnd

LEMMA LineEndStep == ASSUME IInv, LineEnd PROVE IInv'
<1> USE DEF IInv, LineEnd, Goto, start, dictVars, lineVars
<1>1. /\ output \in Seq(Seq(Char)) /\ shown \in Seq(Nat) /\ result \in Seq(Char)
      /\ line \in Seq(Char) /\ Len(line) \in Nat /\ i \in Nat /\ lines \in Nat
      /\ Len(output) \in Nat /\ Len(shown) \in Nat /\ Len(input) \in Nat
  BY DEF TypeOK
<1>2. lines \in 1 .. Len(input) /\ line = input[lines] BY DEF LineInv, InLine
<1>3. Starred(words, input[lines], result)
  <2>1. i <= Len(line) + 1 /\ Done(i - 1) BY DEF LineInv
  <2>2. i - 1 = Len(line) BY <1>1, <2>1
  <2> QED BY <1>2, <2>1, <2>2 DEF Done, Starred
<1>4. /\ output' \in Seq(Seq(Char)) /\ Len(output') = Len(output) + 1
      /\ output'[Len(output) + 1] = result
      /\ \A n \in 1 .. Len(output) : output'[n] = output[n]
  BY <1>1
<1>5. /\ shown' \in Seq(Nat) /\ Len(shown') = Len(shown) + 1
      /\ shown'[Len(shown) + 1] = lines
      /\ \A n \in 1 .. Len(shown) : shown'[n] = shown[n]
  BY <1>1
<1>6. TypeOK' BY <1>4, <1>5 DEF TypeOK
<1>7. ArrayInv' BY DEF ArrayInv, WordsFit
<1>8. ResourceInv' BY DEF ResourceInv, CleanExit
<1>9. DictInv' BY DEF DictInv, Stored, Loading
<1>10. LineInv' BY DEF LineInv, InLine
<1>11. OutputExact /\ status = -1
       /\ \A n \in 1 .. Len(shown) : shown[n] <= lines - 1
  BY DEF OutputInv, InLine, TypeOK
<1>12. Len(shown) = Len(output) BY <1>11 DEF OutputExact
<1>13. \A n \in 1 .. Len(output') : n = Len(output) + 1 \/ n \in 1 .. Len(output)
  <2>1. Len(output) \in Nat /\ Len(output') = Len(output) + 1 BY <1>1, <1>4
  <2>2. \A k \in Nat : \A n \in 1 .. k + 1 : n = k + 1 \/ n \in 1 .. k OBVIOUS
  <2> QED BY <2>1, <2>2
<1>14. OutputExact'
  <2>1. Len(shown') = Len(output') BY <1>4, <1>5, <1>12
  <2>2. \A n \in 1 .. Len(output') : /\ shown'[n] \in 1 .. Len(input)
                                     /\ Starred(words, input[shown'[n]], output'[n])
    <3> SUFFICES ASSUME NEW n \in 1 .. Len(output')
                 PROVE  /\ shown'[n] \in 1 .. Len(input)
                        /\ Starred(words, input[shown'[n]], output'[n])
      OBVIOUS
    <3>1. CASE n = Len(output) + 1
      <4>1. shown'[n] = lines /\ output'[n] = result BY <1>4, <1>5, <1>12, <3>1
      <4> QED BY <1>2, <1>3, <4>1
    <3>2. CASE n \in 1 .. Len(output)
      <4>1. shown'[n] = shown[n] /\ output'[n] = output[n] BY <1>4, <1>5, <1>12, <3>2
      <4> QED BY <1>11, <3>2, <4>1 DEF OutputExact
    <3> QED BY <1>13, <3>1, <3>2
  <2>3. \A m, n \in 1 .. Len(output') : m < n => shown'[m] < shown'[n]
    <3> SUFFICES ASSUME NEW m \in 1 .. Len(output'), NEW n \in 1 .. Len(output'), m < n
                 PROVE  shown'[m] < shown'[n]
      OBVIOUS
    <3>1. m \in 1 .. Len(output) BY <1>1, <1>13
    <3>2. shown'[m] = shown[m] BY <1>5, <1>12, <3>1
    <3>3. CASE n = Len(output) + 1
      <4>1. shown'[n] = lines BY <1>5, <1>12, <3>3
      <4>2. shown[m] \in Nat
        <5>1. m \in 1 .. Len(shown) /\ shown \in Seq(Nat) BY <1>1, <1>12, <3>1
        <5> QED BY <5>1
      <4>3. shown[m] <= lines - 1 BY <1>11, <1>12, <3>1
      <4>4. lines \in Nat BY <1>1
      <4>5. shown[m] < lines BY <4>2, <4>3, <4>4
      <4> QED BY <3>2, <4>1, <4>5
    <3>4. CASE n \in 1 .. Len(output) BY <1>5, <1>11, <1>12, <3>1, <3>4 DEF OutputExact
    <3> QED BY <1>13, <3>3, <3>4
  <2> QED BY <1>11, <2>1, <2>2, <2>3 DEF OutputExact
<1>15. OutputInv'
  <2>1. \A n \in 1 .. Len(shown') : shown'[n] <= lines
    <3> SUFFICES ASSUME NEW n \in 1 .. Len(shown') PROVE shown'[n] <= lines
      OBVIOUS
    <3>1. CASE n = Len(shown) + 1 BY <1>1, <1>5, <3>1
    <3>2. CASE n \in 1 .. Len(shown)
      <4>1. shown'[n] = shown[n] /\ shown[n] <= lines - 1 /\ shown[n] \in Nat
        <5>1. shown'[n] = shown[n] BY <1>5, <3>2
        <5>2. shown[n] <= lines - 1 BY <1>11, <3>2
        <5>3. shown[n] \in Nat
          <6>1. shown \in Seq(Nat) BY <1>1
          <6> QED BY <3>2, <6>1
        <5> QED BY <5>1, <5>2, <5>3
      <4>2. lines \in Nat BY <1>1
      <4> QED BY <4>1, <4>2
    <3> QED BY <1>1, <1>5, <3>1, <3>2
  <2>2. "line" \notin lost => Len(output') = lines
    BY <1>1, <1>4 DEF OutputInv, InLine
  <2>3. lines # 0 BY <1>2
  <2> QED BY <1>1, <1>2, <1>11, <1>14, <2>1, <2>2, <2>3 DEF OutputInv, InLine, Loading
<1> QED BY <1>6, <1>7, <1>8, <1>9, <1>10, <1>15

LEMMA StutterStep == ASSUME IInv, UNCHANGED vars PROVE IInv'
<1> USE DEF IInv, vars, start, dictVars, lineVars, outVars
<1>1. TypeOK' BY DEF TypeOK
<1>2. ArrayInv' BY DEF ArrayInv, WordsFit
<1>3. ResourceInv' BY DEF ResourceInv, CleanExit
<1>4. DictInv' BY DEF DictInv, Stored, Loading
<1>5. LineInv' BY DEF LineInv, InLine, Done
<1>6. OutputInv'
  <2>1. OutputExact' BY DEF OutputInv, OutputExact
  <2> QED BY <2>1 DEF OutputInv, Loading, InLine
<1> QED BY <1>1, <1>2, <1>3, <1>4, <1>5, <1>6

LEMMA AlwaysIInv == Spec => []IInv
<1>1. IInv /\ [Next]_vars => IInv'
  <2> SUFFICES ASSUME IInv, [Next]_vars PROVE IInv'
    OBVIOUS
  <2>1. CASE DictLoad
    BY <2>1, SkipEmptyStep, GrowStep, AddWordStep, EndOfDictionaryStep DEF DictLoad
  <2>2. CASE filter_line
    BY <2>2, FilterLineStep, CopyCharStep, WordStartStep, WordCharStep, WordEndStep,
       LineEndStep DEF filter_line
  <2>3. CASE \/ Options \/ OpenDictionary \/ DictCreate \/ CloseDictionary
             \/ OpenInput \/ OpenOutput \/ GetLine \/ Finish
    BY <2>3, OptionsStep, OpenDictionaryStep, DictCreateStep, CloseDictionaryStep,
       OpenInputStep, OpenOutputStep, GetLineStep, FinishStep
  <2>4. CASE UNCHANGED vars BY <2>4, StutterStep
  <2> QED BY <2>1, <2>2, <2>3, <2>4 DEF Next
<1> QED BY InitIInv, <1>1, PTL DEF Spec

-----------------------------------------------------------------------------
(* The dictionary is obeyed: what is a word of the output was a word of the *)
(* line, since the neighbours of a word were no letters, or they would have *)
(* been replaced together with it.                                          *)

\* A word of a censored line is a word of the line, and it is not forbidden.
LEMMA WordsShown ==
    ASSUME NEW dict, NEW s \in Seq(Char), NEW t \in Seq(Char), Starred(dict, s, t),
           NEW a \in 1 .. Len(t), NEW b \in a .. Len(t), IsWord(t, a, b)
    PROVE  ~dict_is_forbidden(dict, SubSeq(t, a, b))
<1>1. Len(t) = Len(s) /\ Len(s) \in Nat BY DEF Starred
<1>2. \A k \in 1 .. Len(s) : t[k] = IF Hidden(dict, s, k) THEN "*" ELSE s[k]
  BY DEF Starred
<1>3. \A k \in a .. b : t[k] \in Letters /\ k \in 1 .. Len(s)
  BY <1>1 DEF IsWord
<1>4. \A k \in a .. b : ~Hidden(dict, s, k) /\ t[k] = s[k]
  BY <1>2, <1>3, FilterAssumption
<1>5. ASSUME NEW k \in 1 .. Len(s), NEW m \in a .. b, k = a - 1 \/ k = b + 1,
             m = IF k = a - 1 THEN a ELSE b, t[k] \notin Letters
      PROVE  s[k] \notin Letters
  <2> SUFFICES ASSUME s[k] \in Letters PROVE FALSE
    OBVIOUS
  <2>1. Hidden(dict, s, k) BY <1>2, <1>5
  <2>2. PICK c \in 1 .. k, d \in k .. Len(s) :
          IsWord(s, c, d) /\ dict_is_forbidden(dict, SubSeq(s, c, d))
    BY <2>1 DEF Hidden
  <2>3. s[m] \in Letters BY <1>3, <1>4
  <2>4. m \in c .. d
    <3>1. CASE k = a - 1
      <4>1. m = k + 1 /\ m <= Len(s) BY <1>1, <1>5, <3>1
      <4>2. d # k BY <2>2, <2>3, <4>1 DEF IsWord
      <4> QED BY <1>1, <4>1, <4>2
    <3>2. CASE k = b + 1
      <4>1. m = k - 1 /\ m >= 1 BY <1>1, <1>5, <3>2
      <4>2. c # k BY <2>2, <2>3, <4>1 DEF IsWord
      <4> QED BY <1>1, <4>1, <4>2
    <3> QED BY <1>5, <3>1, <3>2
  <2>5. c \in 1 .. m /\ d \in m .. Len(s) BY <1>1, <2>4
  <2>6. Hidden(dict, s, m) BY <2>2, <2>5 DEF Hidden
  <2> QED BY <1>4, <2>6
<1>6. IsWord(s, a, b)
  <2>1. a = 1 \/ s[a - 1] \notin Letters
    <3> SUFFICES ASSUME a # 1 PROVE s[a - 1] \notin Letters
      OBVIOUS
    <3>1. a - 1 \in 1 .. Len(s) /\ a \in a .. b BY <1>1
    <3> QED BY <1>5, <3>1 DEF IsWord
  <2>2. b = Len(s) \/ s[b + 1] \notin Letters
    <3> SUFFICES ASSUME b # Len(s) PROVE s[b + 1] \notin Letters
      OBVIOUS
    <3>1. b + 1 \in 1 .. Len(s) /\ b \in a .. b /\ b + 1 # a - 1 BY <1>1
    <3>2. t[b + 1] \notin Letters BY <1>1 DEF IsWord
    <3> QED BY <1>5, <3>1, <3>2
  <2> QED BY <1>3, <1>4, <2>1, <2>2 DEF IsWord
<1>7. ~dict_is_forbidden(dict, SubSeq(s, a, b))
  <2>1. a \in 1 .. Len(s) /\ b \in a .. Len(s) /\ a \in a .. b BY <1>1
  <2> QED BY <1>4, <1>6, <2>1, OneWord
<1>8. SubSeq(t, a, b) = SubSeq(s, a, b)
  <2>1. \A k \in a .. b : s[k] \in Char /\ t[k] \in Char BY <1>3, <1>4
  <2>2. /\ SubSeq(t, a, b) \in Seq(Char) /\ Len(SubSeq(t, a, b)) = b - a + 1
        /\ \A k \in 1 .. b - a + 1 : SubSeq(t, a, b)[k] = t[a + k - 1]
    BY <2>1, SubSeqProperties
  <2>3. /\ SubSeq(s, a, b) \in Seq(Char) /\ Len(SubSeq(s, a, b)) = b - a + 1
        /\ \A k \in 1 .. b - a + 1 : SubSeq(s, a, b)[k] = s[a + k - 1]
    BY <2>1, SubSeqProperties
  <2>4. \A k \in 1 .. b - a + 1 : a + k - 1 \in a .. b BY <1>1
  <2> QED BY <1>4, <2>2, <2>3, <2>4, SeqEqual
<1> QED BY <1>7, <1>8

LEMMA ObeyedFromIInv == IInv => DictionaryObeyed
<1> SUFFICES ASSUME IInv, "word" \notin lost,
                    NEW m \in 1 .. Len(dictFile), NEW n \in 1 .. Len(output),
                    Len(dictFile[m]) < BufferSize,
                    NEW a \in 1 .. Len(output[n]), NEW b \in 1 .. Len(output[n]),
                    a <= b, IsWord(output[n], a, b),
                    SameWord(Trim(dictFile[m]), SubSeq(output[n], a, b))
             PROVE  FALSE
  BY DEF DictionaryObeyed
<1> DEFINE w == SubSeq(output[n], a, b)
<1>1. /\ output \in Seq(Seq(Char)) /\ input \in Seq(Seq(Char)) /\ dictFile \in Seq(Seq(Char))
      /\ next \in Nat
  BY DEF IInv, TypeOK
<1>2. output[n] \in Seq(Char) /\ Len(output[n]) \in Nat BY <1>1
<1>3. shown[n] \in 1 .. Len(input) /\ Starred(words, input[shown[n]], output[n])
  BY DEF IInv, OutputInv, OutputExact
<1>4. input[shown[n]] \in Seq(Char) BY <1>1, <1>3
<1>5. ~dict_is_forbidden(words, w) BY <1>2, <1>3, <1>4, WordsShown
<1>6. Len(w) = b - a + 1
  <2>1. \A k \in a .. b : output[n][k] \in Char BY <1>2
  <2> QED BY <1>2, <2>1, SubSeqProperties
<1>7. Len(Trim(dictFile[m])) = Len(w) BY DEF SameWord
<1>8. Trim(dictFile[m]) # << >> BY <1>2, <1>6, <1>7
<1>9. next > Len(dictFile)
  <2>1. output # << >> BY <1>1
  <2>2. pc \notin Loading /\ status # 1 BY <2>1 DEF IInv, OutputInv
  <2> QED BY <2>2 DEF IInv, DictInv
<1>10. Stored(m) BY <1>1, <1>8, <1>9 DEF IInv, DictInv
<1>11. dict_is_forbidden(words, w) BY <1>10 DEF Stored, dict_is_forbidden
<1> QED BY <1>5, <1>11

\* With one asterisk for each letter, every character is from its own place.
LEMMA StarredIsCensored ==
    ASSUME NEW dict, NEW s \in Seq(Char), NEW t, Starred(dict, s, t)
    PROVE  Censored(dict, s, t)
<1> DEFINE from == [k \in 1 .. Len(t) |-> k]
<1>1. /\ Len(t) = Len(s) /\ Len(s) \in Nat
      /\ \A k \in 1 .. Len(s) : t[k] = IF Hidden(dict, s, k) THEN "*" ELSE s[k]
  BY DEF Starred
<1>2. from \in [1 .. Len(t) -> 1 .. Len(s)] /\ \A k \in 1 .. Len(t) : from[k] = k
  BY <1>1
<1> HIDE DEF from
<1>3. \A k, m \in 1 .. Len(t) : k < m => from[k] <= from[m] BY <1>1, <1>2
<1>4. \A k \in 1 .. Len(t) : t[k] = IF Hidden(dict, s, from[k]) THEN "*" ELSE s[from[k]]
  BY <1>1, <1>2
<1>5. \A k, m \in 1 .. Len(t) : from[k] = from[m] => k = m BY <1>2
<1>6. \A n \in 1 .. Len(s) : \E k \in 1 .. Len(t) : from[k] = n BY <1>1, <1>2
<1> QED BY <1>2, <1>3, <1>4, <1>5, <1>6 DEF Censored

-----------------------------------------------------------------------------
\* Type correctness, for every alphabet, dictionary and text (main.c).
THEOREM TypeCorrect == Spec => []TypeOK
<1>1. IInv => TypeOK BY DEF IInv
<1> QED BY AlwaysIInv, <1>1, PTL

\* dict_load writes inside of its array (dictionary.c:22-51).
THEOREM WordsFitCorrect == Spec => []WordsFit
<1>1. IInv => WordsFit BY DEF IInv, ArrayInv
<1> QED BY AlwaysIInv, <1>1, PTL

\* What filter_line computes, by its loops, and main shows, in order: one asterisk
\* for each letter of a forbidden word (filter.c:7-57, main.c:81-87).  The report
\* wants "***" for each (osisp4.typ:10).
THEOREM OneStarPerLetter == Spec => []OutputExact
<1>1. IInv => OutputExact BY DEF IInv, OutputInv
<1> QED BY AlwaysIInv, <1>1, PTL

\* The lines are shown in order with the forbidden words and nothing else replaced
\* by asterisks, for every alphabet, dictionary and text (filter.c:7-57,
\* main.c:81-87).
THEOREM OutputCorrect == Spec => []OutputFaithful
<1>1. IInv => OutputFaithful
  <2> SUFFICES ASSUME IInv PROVE OutputFaithful
    OBVIOUS
  <2>1. OutputExact /\ input \in Seq(Seq(Char)) BY DEF IInv, OutputInv, TypeOK
  <2>2. \A n \in 1 .. Len(output) : Censored(words, input[shown[n]], output[n])
    <3> SUFFICES ASSUME NEW n \in 1 .. Len(output)
                 PROVE  Censored(words, input[shown[n]], output[n])
      OBVIOUS
    <3>1. Starred(words, input[shown[n]], output[n]) /\ input[shown[n]] \in Seq(Char)
      BY <2>1 DEF OutputExact
    <3> QED BY <3>1, StarredIsCensored
  <2> QED BY <2>1, <2>2 DEF OutputExact, OutputFaithful
<1> QED BY AlwaysIInv, <1>1, PTL

\* No word of the dictionary is shown (dictionary.c:22-63, filter.c:7-57).
THEOREM DictionaryCorrect == Spec => []DictionaryObeyed
BY AlwaysIInv, ObeyedFromIInv, PTL

\* Files and memory on every way out of main (main.c:34-98).
THEOREM ExitCorrect == Spec => []CleanExit
<1>1. IInv => CleanExit BY DEF IInv, ResourceInv
<1> QED BY AlwaysIInv, <1>1, PTL
=============================================================================
