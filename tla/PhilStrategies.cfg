SPECIFICATION FairSpec
CONSTANTS
    NumPhilosophers = 3
    Strategies = {"SIMPLE", "ASYMMETRIC", "WITH_TIMEOUT"}
    MaxRounds = 2
INVARIANTS NoCircularWait HandlesOutliveThreads ForksMatchPoints
PROPERTIES ImplementsTable Termination
\* The simple strategy may deadlock.
CHECK_DEADLOCK FALSE
