CONSTANTS
    Setups <- OddLimit
    Requests <- OneTool
    MaxInputs = 1
    MaxFailures = 0
SPECIFICATION Spec
INVARIANTS
    SorryIsFinal
CHECK_DEADLOCK FALSE
