\* A client that hangs up while its connection awaits its own job.
SPECIFICATION FairSpec
CONSTANTS
    Sessions = {c1}
    MaxSubmissions = 1
    Capacity = 1
    MaxStored = 1
    Verdicts = {"valid"}
    LaunchMayFail = FALSE
    CleanupMayFail = FALSE
PROPERTIES
    DisconnectCancelsAndEvicts
CHECK_DEADLOCK FALSE
