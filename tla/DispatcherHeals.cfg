SPECIFICATION FairSpec
CONSTANTS
    MaxInstances = 2
    MaxCounter = 1
    MaxStarts = 2
INVARIANTS OneHeir CountKept HandlesValid OnlyHeirsLeft
PROPERTIES CloseIsSeen
\* Nothing need happen once all processes have ended.
CHECK_DEADLOCK FALSE
