SPECIFICATION SessionFairSpec
CONSTANTS
    Kinds = {"prints", "silent", "popenFails", "blank", "exit", "exitCR"}
    MaxCommands = 4
    MaxLines = 3
INVARIANTS ReplyComplete
PROPERTIES ImplementsRemote PrintsAnswered
CHECK_DEADLOCK FALSE
