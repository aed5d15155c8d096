\* Three submissions from two connections into a table that retains two.
SPECIFICATION Spec
CONSTANTS
    Sessions = {c1, c2}
    MaxSubmissions = 3
    Capacity = 1
    MaxStored = 2
    Verdicts = {"valid"}
    LaunchMayFail = FALSE
    CleanupMayFail = FALSE
SYMMETRY Connections
INVARIANTS
    BoundsKept
    ClosedOwnsNothing
PROPERTIES
    EvictedStaysUnknown
    NoBodyAfterCancel
    RetryMeansProgress
CHECK_DEADLOCK FALSE
