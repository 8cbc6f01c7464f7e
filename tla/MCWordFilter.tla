---------------------------- MODULE MCWordFilter ----------------------------
(***************************************************************************)
(* Instances of WordFilter.  The texts have a word in both cases, one that *)
(* is a part of another, words at both ends of a line and next to a mark,  *)
(* lines without a newline, of white space alone and longer than the       *)
(* buffer; the array of words has to grow for the second one.              *)
(***************************************************************************)
EXTENDS WordFilter, TLC

MCChar == {"a", "b", "B", "-", " ", "*"}
MCLetters == {"a", "b", "B"}
MCSpaces == {" "}
MCLower == [c \in MCChar |-> IF c = "B" THEN "b" ELSE c]

\* A newline is a space like any other.
DictionaryLines == {<<"b", " ">>, <<" ">>, <<"a", "B", " ">>, <<"a", "b", "a", "b">>, <<"b", "-">>}
MCDictionaries == {<< >>} \cup {<<l>> : l \in DictionaryLines}
                  \cup (DictionaryLines \X DictionaryLines)
                  \cup {<<<<"b", " ">>, <<"a", "B", " ">>, <<"a">>>>}

InputLines == {<<"b", " ">>, <<"a", "b", "-", "B">>, <<"a", "b", "a", " ">>}
MCInputs == {<< >>} \cup {<<l>> : l \in InputLines} \cup (InputLines \X InputLines)
=============================================================================
