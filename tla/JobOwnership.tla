---------------------------- MODULE JobOwnership ----------------------------
(***************************************************************************)
(* The world of connections, job entries and slots that                    *)
(* Core/AsyncOwnership.lean proves safe: what the effectful store has to   *)
(* implement.  A job's own machine (Job.step of Core/AsyncResources.lean)  *)
(* is seen through its stage and its first outcome only; JobResources      *)
(* models the rest of it.                                                  *)
(***************************************************************************)
EXTENDS Naturals, FiniteSets

CONSTANTS
    Owners,    \* the connections
    Jobs,      \* the entries that may be admitted
    Capacity,  \* bound on live entries
    Slots,     \* number of worker slots
    NoOwner,   \* the owner of an entry nobody has admitted
    NoJob      \* what a connection that awaits nothing waits for

VARIABLES
    connections,  \* open, closing or closed
    owner,        \* the connection that admitted the entry, or NoOwner
    stored,       \* whether the entry is still in the table
    stage,        \* the worker: queued, active or settled
    terminal,     \* whether an outcome is published
    waiting       \* the entry a connection awaits, or NoJob

world == <<connections, owner, stored, stage, terminal, waiting>>

Found(i) == owner[i] # NoOwner

\* In the source a slot names its job; a job holds one slot while it is active,
\* so the active jobs stand for the occupied slots.
Active == {i \in Jobs : stage[i] = "active"}

LiveJobs == {i \in Jobs : i \in stored /\ ~terminal[i]}

Initial ==
    /\ connections = [c \in Owners |-> "open"]
    /\ owner = [i \in Jobs |-> NoOwner]
    /\ stored = {}
    /\ stage = [i \in Jobs |-> "queued"]
    /\ terminal = [i \in Jobs |-> FALSE]
    /\ waiting = [c \in Owners |-> NoJob]

Admit(i, c) ==
    /\ ~Found(i)
    /\ connections[c] = "open"
    /\ Cardinality(LiveJobs) < Capacity
    /\ owner' = [owner EXCEPT ![i] = c]
    /\ stored' = stored \cup {i}
    /\ UNCHANGED <<connections, stage, terminal, waiting>>

\* Publishing a first outcome; every other local event is a stutter here.
Body(i) ==
    /\ Found(i)
    /\ terminal' = [terminal EXCEPT ![i] = TRUE]
    /\ UNCHANGED <<connections, owner, stored, stage, waiting>>

Start(i) ==
    /\ Found(i)
    /\ Cardinality(Active) < Slots
    /\ stage[i] = "queued"
    /\ stage' = [stage EXCEPT ![i] = "active"]
    /\ UNCHANGED <<connections, owner, stored, terminal, waiting>>

SettleJob(i) ==
    /\ Found(i)
    /\ stage[i] = "active"
    /\ stage' = [stage EXCEPT ![i] = "settled"]
    /\ UNCHANGED <<connections, owner, stored, terminal, waiting>>

\* Leaving the open phase also drops the connection's wait reference.
BeginClose(c) ==
    /\ connections[c] = "open"
    /\ connections' = [connections EXCEPT ![c] = "closing"]
    /\ waiting' = [waiting EXCEPT ![c] = NoJob]
    /\ UNCHANGED <<owner, stored, stage, terminal>>

Drained(c) == \A i \in Jobs : owner[i] = c => i \notin stored

FinishClose(c) ==
    /\ connections[c] = "closing"
    /\ Drained(c)
    /\ connections' = [connections EXCEPT ![c] = "closed"]
    /\ waiting' = [waiting EXCEPT ![c] = NoJob]
    /\ UNCHANGED <<owner, stored, stage, terminal>>

EvictJob(i) ==
    /\ Found(i)
    /\ \E c \in Owners : owner[i] = c /\ connections[c] = "closing"
    /\ terminal[i]
    /\ stored' = stored \ {i}
    /\ UNCHANGED <<connections, owner, stage, terminal, waiting>>

AwaitJob(c, i) ==
    /\ connections[c] = "open"
    /\ i \in stored
    /\ waiting' = [waiting EXCEPT ![c] = i]
    /\ UNCHANGED <<connections, owner, stored, stage, terminal>>

Answered(c) ==
    /\ waiting' = [waiting EXCEPT ![c] = NoJob]
    /\ UNCHANGED <<connections, owner, stored, stage, terminal>>

Step ==
    \/ \E i \in Jobs : Body(i) \/ Start(i) \/ SettleJob(i) \/ EvictJob(i)
    \/ \E c \in Owners : BeginClose(c) \/ FinishClose(c) \/ Answered(c)
    \/ \E c \in Owners, i \in Jobs : Admit(i, c) \/ AwaitJob(c, i)

World == Initial /\ [][Step]_world

-----------------------------------------------------------------------------

WorldTypeOK ==
    /\ connections \in [Owners -> {"open", "closing", "closed"}]
    /\ owner \in [Jobs -> Owners \cup {NoOwner}]
    /\ stored \in SUBSET Jobs
    /\ stage \in [Jobs -> {"queued", "active", "settled"}]
    /\ terminal \in [Jobs -> BOOLEAN]
    /\ waiting \in [Owners -> Jobs \cup {NoJob}]
=============================================================================
