----------------------------- MODULE WordFilter -----------------------------
(***************************************************************************)
(* sem2/LR4: the word filter, a sequential program that loads a dictionary *)
(* and replaces its words in a text by asterisks.  Any allocation and any  *)
(* fopen may fail.  A text is a sequence of lines, a line a sequence of    *)
(* characters with its newline; bytes are compared in the C locale.        *)
(***************************************************************************)
EXTENDS Integers, Sequences, FiniteSets

CONSTANTS
    Char,               \* characters, one of them is "*"
    Letters,            \* those isalpha accepts
    Spaces,             \* those isspace accepts
    Lower,              \* what tolower makes of each character
    BufferSize,         \* sizeof(buffer) in dict_load
    InitialCapacity,    \* INITIAL_CAPACITY
    Dictionaries,       \* the dictionary files there may be
    Inputs              \* the input texts there may be

ASSUME FilterAssumption ==
    /\ "*" \in Char \ Letters /\ Letters \subseteq Char
    /\ BufferSize \in Nat /\ BufferSize >= 2
    /\ InitialCapacity \in Nat /\ InitialCapacity >= 1
    /\ Dictionaries \subseteq Seq(Seq(Char)) /\ Inputs \subseteq Seq(Seq(Char))

VARIABLES
    options, dictFile, input,           \* rigid: how the program is started
    pc, status,
    open,                               \* files the program has opened
    heap,                               \* live blocks; "entries" are the strdups
    next, offset,                       \* what dict_load has read
    words, capacity,                    \* the fields of Dictionary
    allocated,                          \* the true size of dict->words
    lines,                              \* lines read so far
    line, i, word_start, result,        \* in filter_line
    output,
    shown,                              \* history: the lines of the output
    lost                                \* history: what a failed allocation has cost

start == <<options, dictFile, input>>
dictVars == <<next, offset, words, capacity, allocated>>
lineVars == <<line, i, word_start, result>>
outVars == <<lines, output, shown>>
vars == <<start, pc, status, open, heap, dictVars, lineVars, outVars, lost>>

Init ==
    /\ options \in SUBSET {"d", "i", "o", "?"}
    /\ dictFile \in Dictionaries /\ input \in Inputs
    /\ pc = "options" /\ status = -1
    /\ open = {} /\ heap = {}
    /\ next = 1 /\ offset = 0 /\ words = << >> /\ capacity = 0 /\ allocated = 0
    /\ line = << >> /\ i = 1 /\ word_start = 1 /\ result = << >>
    /\ lines = 0 /\ output = << >> /\ shown = << >> /\ lost = {}

\* (A name with an underscore before a capital is a mutant: a plausible bug in
\* the code that the definition after it models.)

Return(code) == pc' = "exit" /\ status' = code
Goto(point) == pc' = point /\ UNCHANGED status

-----------------------------------------------------------------------------
(* dictionary.c *)

\* The length of what is left of b when trailing white space is cut off.
TrimmedLen(b) == Cardinality({n \in 1 .. Len(b) : \E k \in n .. Len(b) : b[k] \notin Spaces})
Trim(b) == SubSeq(b, 1, TrimmedLen(b))

\* strcasecmp(u, v) == 0
SameWord(u, v) == Len(u) = Len(v) /\ \A k \in 1 .. Len(u) : Lower[u[k]] = Lower[v[k]]

dict_is_forbidden_CaseMatters(dict, word) == \E k \in 1 .. Len(dict) : dict[k] = word
dict_is_forbidden(dict, word) == \E k \in 1 .. Len(dict) : SameWord(dict[k], word)

\* A failure of either malloc leaves nothing behind.
DictCreate ==
    /\ pc = "create"
    /\ \/ /\ Goto("load") /\ heap' = {"dict", "words"}
          /\ capacity' = InitialCapacity /\ allocated' = InitialCapacity
          /\ UNCHANGED open
       \/ Return(1) /\ open' = open \ {"df"} /\ UNCHANGED <<heap, capacity, allocated>>
    /\ UNCHANGED <<start, next, offset, words, lineVars, outVars, lost>>

\* fgets: at most BufferSize - 1 characters, of one line.
Rest == SubSeq(dictFile[next], offset + 1, Len(dictFile[next]))
buffer == IF Len(Rest) < BufferSize THEN Rest ELSE SubSeq(Rest, 1, BufferSize - 1)

Fgets == IF Len(Rest) < BufferSize
           THEN next' = next + 1 /\ offset' = 0
           ELSE offset' = offset + BufferSize - 1 /\ UNCHANGED next

SkipEmpty ==
    /\ pc = "load" /\ next <= Len(dictFile) /\ Trim(buffer) = << >>
    /\ Fgets
    /\ UNCHANGED <<start, pc, status, open, heap, words, capacity, allocated, lineVars, outVars, lost>>

\* strdup; its failure costs the word.
Store ==
    \/ words' = Append(words, Trim(buffer)) /\ heap' = heap \cup {"entries"} /\ UNCHANGED lost
    \/ lost' = lost \cup {"word"} /\ UNCHANGED <<words, heap>>

Grow_FailureIgnored ==
    /\ pc = "load" /\ next <= Len(dictFile) /\ Trim(buffer) # << >>
    /\ Len(words) >= capacity
    /\ Fgets
    /\ capacity' = 2 * capacity
    /\ allocated' \in {allocated, 2 * capacity}
    /\ Store
    /\ UNCHANGED <<start, pc, status, open, lineVars, outVars>>

\* The capacity is doubled first; a failure of realloc ends dict_load.
Grow ==
    /\ pc = "load" /\ next <= Len(dictFile) /\ Trim(buffer) # << >>
    /\ Len(words) >= capacity
    /\ Fgets
    /\ capacity' = 2 * capacity
    /\ \/ allocated' = 2 * capacity /\ Store /\ UNCHANGED pc
       \/ pc' = "loaded" /\ lost' = lost \cup {"word"} /\ UNCHANGED <<allocated, words, heap>>
    /\ UNCHANGED <<start, status, open, lineVars, outVars>>

AddWord ==
    /\ pc = "load" /\ next <= Len(dictFile) /\ Trim(buffer) # << >>
    /\ Len(words) < capacity
    /\ Fgets /\ Store
    /\ UNCHANGED <<start, pc, status, open, capacity, allocated, lineVars, outVars>>

EndOfDictionary ==
    /\ pc = "load" /\ next > Len(dictFile) /\ Goto("loaded")
    /\ UNCHANGED <<start, open, heap, dictVars, lineVars, outVars, lost>>

DictLoad == SkipEmpty \/ Grow \/ AddWord \/ EndOfDictionary

\* The blocks that dict_free leaves.
AfterDictFree == heap \ {"dict", "words", "entries"}

-----------------------------------------------------------------------------
(* filter.c *)

\* The first malloc of filter_line; without it main drops the line.
FilterLine ==
    /\ pc = "filter"
    /\ \/ /\ Goto("scan") /\ heap' = heap \cup {"result"}
          /\ i' = 1 /\ result' = << >> /\ UNCHANGED <<line, word_start, lost>>
       \/ Goto("read") /\ lost' = lost \cup {"line"} /\ UNCHANGED <<heap, lineVars>>
    /\ UNCHANGED <<start, open, dictVars, outVars>>

CopyChar ==
    /\ pc = "scan" /\ i <= Len(line) /\ line[i] \notin Letters
    /\ result' = Append(result, line[i]) /\ i' = i + 1
    /\ UNCHANGED <<start, pc, status, open, heap, dictVars, line, word_start, outVars, lost>>

WordStart ==
    /\ pc = "scan" /\ i <= Len(line) /\ line[i] \in Letters
    /\ Goto("word") /\ word_start' = i
    /\ UNCHANGED <<start, open, heap, dictVars, line, i, result, outVars, lost>>

WordChar ==
    /\ pc = "word" /\ i <= Len(line) /\ line[i] \in Letters
    /\ i' = i + 1
    /\ UNCHANGED <<start, pc, status, open, heap, dictVars, line, word_start, result, outVars, lost>>

WordEnd_LastUnchecked ==
    /\ pc = "word" /\ ~(i <= Len(line) /\ line[i] \in Letters)
    /\ Goto("scan")
    /\ LET word == SubSeq(line, word_start, i - 1)
       IN  result' = result \o IF i <= Len(line) /\ dict_is_forbidden(words, word)
                                 THEN [k \in 1 .. Len(word) |-> "*"] ELSE word
    /\ UNCHANGED <<start, open, heap, dictVars, line, i, word_start, outVars, lost>>

\* The copy of the word; without it the whole line is given up.
WordEnd ==
    /\ pc = "word" /\ ~(i <= Len(line) /\ line[i] \in Letters)
    /\ LET word == SubSeq(line, word_start, i - 1)
       IN  \/ /\ Goto("scan")
              /\ result' = result \o IF dict_is_forbidden(words, word) THEN [k \in 1 .. Len(word) |-> "*"]
                                                                ELSE word
              /\ UNCHANGED <<heap, lost>>
           \/ Goto("read") /\ heap' = heap \ {"result"} /\ lost' = lost \cup {"line"} /\ UNCHANGED result
    /\ UNCHANGED <<start, open, dictVars, line, i, word_start, outVars>>

\* filter_line returns, and main writes the line and frees it.
LineEnd ==
    /\ pc = "scan" /\ i > Len(line)
    /\ Goto("read") /\ heap' = heap \ {"result"}
    /\ output' = Append(output, result) /\ shown' = Append(shown, lines)
    /\ UNCHANGED <<start, open, dictVars, lineVars, lines, lost>>

filter_line == FilterLine \/ CopyChar \/ WordStart \/ WordChar \/ WordEnd \/ LineEnd

-----------------------------------------------------------------------------
(* main.c *)

Options ==
    /\ pc = "options"
    /\ IF "?" \in options \/ "d" \notin options THEN Return(1) ELSE Goto("openDict")
    /\ UNCHANGED <<start, open, heap, dictVars, lineVars, outVars, lost>>

OpenDictionary ==
    /\ pc = "openDict"
    /\ \/ Goto("create") /\ open' = {"df"}
       \/ Return(1) /\ UNCHANGED open
    /\ UNCHANGED <<start, heap, dictVars, lineVars, outVars, lost>>

CloseDictionary ==
    /\ pc = "loaded" /\ Goto("openIn") /\ open' = open \ {"df"}
    /\ UNCHANGED <<start, heap, dictVars, lineVars, outVars, lost>>

OpenInput ==
    /\ pc = "openIn"
    /\ \/ /\ Goto("openOut") /\ UNCHANGED heap
          /\ open' = IF "i" \in options THEN open \cup {"in"} ELSE open
       \/ "i" \in options /\ Return(1) /\ heap' = AfterDictFree /\ UNCHANGED open
    /\ UNCHANGED <<start, dictVars, lineVars, outVars, lost>>

OpenOutput_InputKept ==
    /\ pc = "openOut"
    /\ \/ /\ Goto("read") /\ UNCHANGED heap
          /\ open' = IF "o" \in options THEN open \cup {"out"} ELSE open
       \/ "o" \in options /\ Return(1) /\ heap' = AfterDictFree /\ UNCHANGED open
    /\ UNCHANGED <<start, dictVars, lineVars, outVars, lost>>

OpenOutput ==
    /\ pc = "openOut"
    /\ \/ /\ Goto("read") /\ UNCHANGED heap
          /\ open' = IF "o" \in options THEN open \cup {"out"} ELSE open
       \/ /\ "o" \in options /\ Return(1)
          /\ open' = open \ {"in"} /\ heap' = AfterDictFree
    /\ UNCHANGED <<start, dictVars, lineVars, outVars, lost>>

\* getline allocates or reuses its buffer.
GetLine ==
    /\ pc = "read" /\ lines < Len(input)
    /\ Goto("filter") /\ heap' = heap \cup {"line"}
    /\ lines' = lines + 1 /\ line' = input[lines + 1]
    /\ UNCHANGED <<start, open, dictVars, i, word_start, result, output, shown, lost>>

\* The end of the text, or a failure of getline, which is taken for the end.
Finish ==
    /\ pc = "read"
    /\ lost' = IF lines < Len(input) THEN lost \cup {"line"} ELSE lost
    /\ Return(0) /\ open' = open \ {"in", "out"} /\ heap' = AfterDictFree \ {"line"}
    /\ UNCHANGED <<start, dictVars, lineVars, outVars>>

Next == \/ Options \/ OpenDictionary \/ DictCreate \/ DictLoad \/ CloseDictionary
        \/ OpenInput \/ OpenOutput \/ GetLine \/ filter_line \/ Finish

Spec == Init /\ [][Next]_vars

-----------------------------------------------------------------------------
(* Properties. *)

TypeOK ==
    /\ options \subseteq {"d", "i", "o", "?"}
    /\ dictFile \in Seq(Seq(Char)) /\ input \in Seq(Seq(Char))
    /\ pc \in {"options", "openDict", "create", "load", "loaded", "openIn", "openOut", "read",
               "filter", "scan", "word", "exit"}
    /\ status \in {-1, 0, 1}
    /\ open \subseteq {"df", "in", "out"}
    /\ heap \subseteq {"dict", "words", "entries", "line", "result"}
    /\ next \in Nat \ {0} /\ offset \in Nat
    /\ words \in Seq(Seq(Char)) /\ capacity \in Nat /\ allocated \in Nat
    /\ line \in Seq(Char) /\ i \in Nat \ {0} /\ word_start \in Nat \ {0} /\ result \in Seq(Char)
    /\ lines \in Nat /\ output \in Seq(Seq(Char)) /\ shown \in Seq(Nat)
    /\ lost \subseteq {"word", "line"}

\* dict_load never stores a word outside of the array, although after a failed
\* realloc the capacity is larger than the array.
WordsFit == Len(words) <= allocated

\* <<a, b>> is a word of s: a run of letters that cannot be extended.
IsWord(s, a, b) ==
    /\ \A k \in a .. b : s[k] \in Letters
    /\ a = 1 \/ s[a - 1] \notin Letters
    /\ b = Len(s) \/ s[b + 1] \notin Letters

Hidden(dict, s, k) == \E a \in 1 .. k, b \in k .. Len(s) :
                    IsWord(s, a, b) /\ dict_is_forbidden(dict, SubSeq(s, a, b))

\* t is the line s with its forbidden words replaced by asterisks, of whatever
\* number, and all the rest kept: each character of t is from one of s, in the
\* order of s, from all that are kept, once, and from a letter of each forbidden
\* word, of which it shows an asterisk.
Censored(dict, s, t) ==
    \E from \in [1 .. Len(t) -> 1 .. Len(s)] :
        /\ \A k, m \in 1 .. Len(t) : k < m => from[k] <= from[m]
        /\ \A k \in 1 .. Len(t) : t[k] = IF Hidden(dict, s, from[k]) THEN "*" ELSE s[from[k]]
        /\ \A k, m \in 1 .. Len(t) : from[k] = from[m] => k = m \/ Hidden(dict, s, from[k])
        /\ \A n \in 1 .. Len(s) : \/ \E k \in 1 .. Len(t) : from[k] = n
                                  \/ /\ Hidden(dict, s, n)
                                     /\ \E a \in 1 .. n, b \in n .. Len(s) :
                                           /\ IsWord(s, a, b)
                                           /\ \E k \in 1 .. Len(t) : from[k] \in a .. b

\* Every line of the output is a line of the input, in its order, in which the
\* forbidden words and nothing else are replaced by asterisks, and none is missing
\* unless an allocation has failed.  (How many asterisks is left open: the code
\* and the report differ about it.)
OutputFaithful ==
    /\ Len(shown) = Len(output)
    /\ \A n \in 1 .. Len(output) : /\ shown[n] \in 1 .. Len(input)
                                   /\ Censored(words, input[shown[n]], output[n])
    /\ \A m, n \in 1 .. Len(output) : m < n => shown[m] < shown[n]
    /\ status = 0 /\ "line" \notin lost => Len(output) = Len(input)

\* A line of the dictionary forbids a word if it fits the buffer and is a word
\* once it has been trimmed; then no line of the output has that word, in upper
\* or lower case, unless an allocation has failed while the words were loaded.
DictionaryObeyed ==
    "word" \notin lost =>
        \A m \in 1 .. Len(dictFile), n \in 1 .. Len(output) :
            Len(dictFile[m]) < BufferSize =>
                \A a, b \in 1 .. Len(output[n]) :
                    a <= b /\ IsWord(output[n], a, b)
                        => ~SameWord(Trim(dictFile[m]), SubSeq(output[n], a, b))

\* On every way out of main the files are closed and the memory is freed.
CleanExit == pc = "exit" => open = {} /\ heap = {}
=============================================================================
