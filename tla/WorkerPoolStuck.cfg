\* Nothing makes a session end: one worker serves, one connection is queued and
\* the accept loop holds a third when the signal comes.
SPECIFICATION ThreadSpec
CONSTANTS
    Workers = {w1}
    Clients = {c1, c2, c3}
    Silent = {}
    Backlog = 1
    Faults = FALSE
PROPERTY
    SignalAlwaysStops
CHECK_DEADLOCK FALSE
