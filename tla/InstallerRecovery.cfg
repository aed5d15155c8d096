\* One installer, killed once.
SPECIFICATION Spec
CONSTANTS
    Installers = {i1}
    Digests = {a}
    None = none
    MaxCalls = 2
    MaxFaults = 1
    MaxMischief = 0
INVARIANTS InterruptionRecovered
CHECK_DEADLOCK FALSE
