SPECIFICATION Spec
CONSTANTS
    MaxGeneration = 1
    Cancellers = {c1}
    WriteMayFail = TRUE
    RemoveMayFail = TRUE
INVARIANTS SettledLeavesNothing
CHECK_DEADLOCK FALSE
