\* The whole pipeline of one run.
CONSTANTS
    Absent = Absent
    Bad = Bad
    Contents <- SomeReceipts
    MaxEdits = 2
    Finalizers = {f1, f2}
    First = f1
    MaxDamage = 1
    Contended = {"recovery-receipt"}
SPECIFICATION Spec
INVARIANTS
    AcceptedIsEarned
    VerifiedIsWhatWasRun
    WholeUnlessForced
    
PROPERTIES
    PublishedWhole
    EveryRunEnds
CHECK_DEADLOCK FALSE
