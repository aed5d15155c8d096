\* Two workers and two silent clients, which take both workers if they come
\* first, and a queue of two places that the accept loop can find full.
SPECIFICATION SessionSpec
CONSTANTS
    Workers = {w1, w2}
    Clients = {c1, c2, c3, c4}
    Silent = {c1, c2}
    Backlog = 2
    Faults = TRUE
INVARIANTS
    PermitsAccounted
    HeldOnce
PROPERTIES
    ImplementsPool
    EveryClientFinishes
    SignalStops
CHECK_DEADLOCK FALSE
