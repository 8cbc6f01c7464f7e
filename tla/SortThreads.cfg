SPECIFICATION Spec
CONSTANTS
    Values = {0, 2, 3}
    IntMax = 3
    MaxSize = 4
    MaxThreads = 3
INVARIANTS MergesSorted MinIndexFound NothingLost EndsSorted
