SPECIFICATION SessionFairSpec
CONSTANTS
    Kinds = {"prints", "silent"}
    MaxCommands = 2
    MaxLines = 1
PROPERTIES Responsive
CHECK_DEADLOCK FALSE
