\* One operation over three candidates, of which the reduction tries two.
SPECIFICATION Spec
CONSTANTS
    Order <- SomeOrder
    Cost <- SomeCosts
    Chunks <- SomeChunks
    Baseline = "base"
    Attempts = 3
    Fingerprint = 1
    Limit = 9
    OutputBytes = 1
    MaxKept = 10
    MaxSignals = 1
INVARIANTS
    MinimalIsEarned
    LostGroupStops
    SuccessIsEarned
    ReportFits
PROPERTIES
    OperationEnds
CHECK_DEADLOCK FALSE
