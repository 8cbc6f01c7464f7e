SPECIFICATION Spec
CONSTANTS
    Char <- MCChar
    Letters <- MCLetters
    Spaces <- MCSpaces
    Lower <- MCLower
    BufferSize = 4
    InitialCapacity = 1
    Dictionaries <- MCDictionaries
    Inputs <- MCInputs
INVARIANTS WordsFit OutputFaithful DictionaryObeyed CleanExit
\* The program ends.
CHECK_DEADLOCK FALSE
