SPECIFICATION FairSpec
CONSTANTS
    FileBlocks = 4
    NumAsync = 2
    NumThreads = 2
    Faults = {"create", "start"}
    MaxFailures = 2
INVARIANTS BlockOnce NothingForgotten CountedIsDone OneOpPerBuffer HandlesClosed
PROPERTIES Termination
