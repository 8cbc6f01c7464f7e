SPECIFICATION FairSpec
CONSTANTS
    Dirs <- MCDirs
    Root = "root"
    parent <- MCParent
    Files <- MCFiles
    dirOf <- MCDirOf
    max_agents = 2
    PipeCapacity = 1
    FaultCases = {{}, {"fork", "opendir"}, {"entry"}, {"fork", "opendir", "entry", "collector"}}
INVARIANTS CounterExact ExitLeaves ReportComplete EofIsEnd
PROPERTIES ImplementsPool Termination
