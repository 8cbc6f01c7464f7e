SPECIFICATION Spec
CONSTANTS
    FileBlocks = 4
    NumAsync = 2
    NumThreads = 2
    Faults = {}
    MaxFailures = 0
INVARIANTS FinalWait
