\* Two connections race over two jobs and one slot; launching may fail and a
\* body may keep a lease.  A stop that is not clean is a deadlock.
SPECIFICATION StoppingSpec
CONSTANTS
    Sessions = {c1, c2}
    NoSession = nobody
    MaxSubmissions = 2
    Capacity = 1
    MaxStored = 2
    Verdicts = {"valid"}
    LaunchMayFail = TRUE
    CleanupMayFail = TRUE
SYMMETRY Connections
INVARIANTS
    PermitsConserved
    EveryJobAnswered
    
    StopsClean
PROPERTIES
    OutcomeStable
    ImplementsOwnership
