\* Two model-checker processes one after the other; writing a source of the
\* specification may fail and removing a directory may raise.
SPECIFICATION FairSpec
CONSTANTS
    MaxGeneration = 1
    Cancellers = {c1, c2}
    WriteMayFail = TRUE
    RemoveMayFail = TRUE
INVARIANTS
    LedgerValid
    
    CancellationKillsOnce
    
PROPERTIES
    ImplementsLedger
    
CHECK_DEADLOCK FALSE
