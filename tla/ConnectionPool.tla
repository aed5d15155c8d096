--------------------------- MODULE ConnectionPool ---------------------------
(***************************************************************************)
(* What the connection pool of a mirror server promises: a bounded FIFO of *)
(* accepted connections and a fixed set of workers, each idle or serving   *)
(* one of them.  The code under Shell/Transport is shown to implement it   *)
(* in WorkerPool.                                                          *)
(***************************************************************************)
EXTENDS Naturals, Sequences

CONSTANTS Workers, Clients, Backlog

VARIABLES
    pending,  \* accepted connections waiting for a worker, the oldest first
    serving,  \* the connection each worker serves, or "none"
    up        \* whether the process runs

poolVars == <<pending, serving, up>>

PoolInit ==
    /\ pending = <<>>
    /\ serving = [w \in Workers |-> "none"]
    /\ up = TRUE

\* No rule applies to a full queue: an accepted connection is never dropped.
Enqueue(c) ==
    /\ up
    /\ Len(pending) < Backlog
    /\ \A w \in Workers : serving[w] # c
    /\ \A i \in DOMAIN pending : pending[i] # c
    /\ pending' = Append(pending, c)
    /\ UNCHANGED <<serving, up>>

Assign(w) ==
    /\ up
    /\ pending # <<>>
    /\ serving[w] = "none"
    /\ pending' = Tail(pending)
    /\ serving' = [serving EXCEPT ![w] = Head(pending)]
    /\ UNCHANGED up

SessionEnd(w) ==
    /\ up
    /\ serving[w] # "none"
    /\ serving' = [serving EXCEPT ![w] = "none"]
    /\ UNCHANGED <<pending, up>>

\* dsh_exit ends the process with its workers wherever they are.
Shutdown == up /\ up' = FALSE /\ UNCHANGED <<pending, serving>>

PoolNext ==
    \/ \E c \in Clients : Enqueue(c)
    \/ \E w \in Workers : Assign(w) \/ SessionEnd(w)
    \/ Shutdown

PoolSpec == PoolInit /\ [][PoolNext]_poolVars
=============================================================================
