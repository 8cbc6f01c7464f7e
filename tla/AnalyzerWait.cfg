SPECIFICATION Spec
CONSTANTS
    Dirs <- MCDirs
    Root = "root"
    parent <- MCParent
    Files <- MCFiles
    dirOf <- MCDirOf
    max_agents = 2
    PipeCapacity = 1
    FaultCases = {{"collector"}}
INVARIANTS NoChildLeft

