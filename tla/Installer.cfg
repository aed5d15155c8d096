\* Two installers, two packages, four calls, three faults and two replaced
\* caches or damaged versions.
SPECIFICATION Spec
CONSTANTS
    Installers = {i1, i2}
    Digests = {a, b}
    None = none
    MaxCalls = 4
    MaxFaults = 3
    MaxMischief = 2
INVARIANTS
    InstallationConsistent
    CallKeepsOrSelects
PROPERTIES
    ImplementsSelection
CHECK_DEADLOCK FALSE
