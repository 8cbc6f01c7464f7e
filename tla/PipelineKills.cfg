SPECIFICATION FairSpec
CONSTANTS
    totalBlocks = 5
    Capacity = 2
    Killable = {"generator", "processor", "visualizer"}
INVARIANTS ShownInOrder AllOrNothing
PROPERTIES OnlyConnectWaits
CHECK_DEADLOCK FALSE
