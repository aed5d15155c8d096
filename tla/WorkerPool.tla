----------------------------- MODULE WorkerPool -----------------------------
(***************************************************************************)
(* The accept loop, the bounded connection queue and the worker pool of    *)
(* the concurrent servers (Shell/Transport/Tcp.lean, Tls.lean), with the   *)
(* signal flag of Ffi/socket_shim.c and the way serveOne leaves            *)
(* (Shell/Cli.lean).                                                       *)
(*                                                                         *)
(* Every action is one critical section or one blocking call of a thread.  *)
(* A semaphore is its number of free permits.  The workers run the TLS     *)
(* handler; the plain TCP one is the same with no handshake to fail.  What *)
(* a session says over its connection is left out.                         *)
(***************************************************************************)
EXTENDS Naturals, Sequences, FiniteSets

CONSTANTS
    Workers,   \* the pool
    Clients,   \* the clients that may connect, each once
    Silent,    \* clients that connect and never speak
    Backlog,   \* connections the queue holds; the code's default is 128
    Faults     \* whether writing to stderr, accept and poll may fail

ASSUME WorkerPoolAssumption ==
    /\ IsFiniteSet(Workers)
    /\ "none" \notin Clients
    /\ Silent \subseteq Clients
    /\ Backlog \in Nat \ {0}
    /\ Faults \in BOOLEAN

VARIABLES
    items,     \* free permits of the queue's items semaphore
    spaces,    \* free permits of its spaces semaphore
    queue,     \* the queued connections, the oldest first
    signal,    \* dsh_signaled: whether SIGINT or SIGTERM arrived
    acceptor,  \* where the accept loop, and after it serveOne, is
    hand,      \* the connection the accept loop holds
    worker,    \* where each worker is
    conn,      \* the connection each worker holds
    client     \* each client: away, knocking (kernel backlog), open, closed

queueVars    == <<items, spaces, queue>>
acceptorVars == <<acceptor, hand>>
workerVars   == <<worker, conn>>
vars == <<queueVars, signal, acceptorVars, workerVars, client>>

Running == acceptor # "exited"

Knocking == {c \in Clients : client[c] = "knocking"}

Init ==
    /\ items = 0
    /\ spaces = Backlog
    /\ queue = <<>>
    /\ signal = FALSE
    /\ acceptor = "check"
    /\ hand = "none"
    /\ worker = [w \in Workers |-> "wait"]
    /\ conn = [w \in Workers |-> "none"]
    /\ client = [c \in Clients |-> "away"]

-----------------------------------------------------------------------------
(* The clients and the operating system *)

Connect(c) ==
    /\ Running
    /\ client[c] = "away"
    /\ client' = [client EXCEPT ![c] = "knocking"]
    /\ UNCHANGED <<queueVars, signal, acceptorVars, workerVars>>

Interrupt ==
    /\ Running
    /\ ~signal
    /\ signal' = TRUE
    /\ UNCHANGED <<queueVars, acceptorVars, workerVars, client>>

-----------------------------------------------------------------------------
(* The accept loop *)

AcceptorAt(here, there) == acceptor = here /\ acceptor' = there

\* Faulty: the flag is not tested at the head of the loop.
NeverChecksSignal ==
    /\ AcceptorAt("check", "select")
    /\ UNCHANGED <<queueVars, signal, hand, workerVars, client>>

\* Each turn starts with the signal flag.
CheckSignal ==
    /\ AcceptorAt("check", IF signal THEN "returned" ELSE "select")
    /\ UNCHANGED <<queueVars, signal, hand, workerVars, client>>

Readable ==
    /\ AcceptorAt("select", "accept")
    /\ Knocking # {}
    /\ UNCHANGED <<queueVars, signal, hand, workerVars, client>>

SelectTimesOut ==
    /\ AcceptorAt("select", "check")
    /\ Knocking = {}
    /\ UNCHANGED <<queueVars, signal, hand, workerVars, client>>

\* poll returns -1 when the signal interrupts it, and for any other error.
SelectFails ==
    /\ AcceptorAt("select", "returned")
    /\ signal \/ Faults
    /\ UNCHANGED <<queueVars, signal, hand, workerVars, client>>

Accept(c) ==
    /\ AcceptorAt("accept", "push")
    /\ client[c] = "knocking"
    /\ client' = [client EXCEPT ![c] = "open"]
    /\ hand' = c
    /\ UNCHANGED <<queueVars, signal, workerVars>>

\* accept fails: on the signal the loop returns, else it logs and goes on;
\* a log line that cannot be written makes serve raise.
AcceptFails ==
    /\ acceptor = "accept"
    /\ Faults
    /\ acceptor' \in IF signal THEN {"returned"} ELSE {"check", "returned"}
    /\ UNCHANGED <<queueVars, signal, hand, workerVars, client>>

\* push waits for a space: the semaphore, not the signal flag, wakes it.
AcquireSpace ==
    /\ AcceptorAt("push", "append")
    /\ spaces > 0
    /\ spaces' = spaces - 1
    /\ UNCHANGED <<items, queue, signal, hand, workerVars, client>>

\* Faulty: the newest connection goes first.
PrependConn ==
    /\ AcceptorAt("append", "post")
    /\ queue' = <<hand>> \o queue
    /\ hand' = "none"
    /\ UNCHANGED <<items, spaces, signal, workerVars, client>>

AppendConn ==
    /\ AcceptorAt("append", "post")
    /\ queue' = Append(queue, hand)
    /\ hand' = "none"
    /\ UNCHANGED <<items, spaces, signal, workerVars, client>>

PostItem ==
    /\ AcceptorAt("post", "check")
    /\ items' = items + 1
    /\ UNCHANGED <<spaces, queue, signal, hand, workerVars, client>>

\* serveOne deregisters the service, best effort, and ends the process; the
\* kernel closes every connection.
Exit ==
    /\ AcceptorAt("returned", "exited")
    /\ client' = [c \in Clients |-> IF client[c] = "away" THEN "away" ELSE "closed"]
    /\ UNCHANGED <<queueVars, signal, hand, workerVars>>

-----------------------------------------------------------------------------
(* A worker *)

WorkerAt(w, here, there) ==
    /\ Running
    /\ worker[w] = here
    /\ worker' = [worker EXCEPT ![w] = there]

\* Faulty: the wait for an item returns at once.
ItemWithoutWaiting(w) ==
    /\ WorkerAt(w, "wait", "take")
    /\ items' = IF items = 0 THEN 0 ELSE items - 1
    /\ UNCHANGED <<spaces, queue, signal, acceptorVars, conn, client>>

\* pop waits for an item.
AcquireItem(w) ==
    /\ WorkerAt(w, "wait", "take")
    /\ items > 0
    /\ items' = items - 1
    /\ UNCHANGED <<spaces, queue, signal, acceptorVars, conn, client>>

\* Faulty: the entry is read and left in the list.
TakeAndKeep(w) ==
    /\ WorkerAt(w, "take", IF queue = <<>> THEN "wait" ELSE "free")
    /\ queue # <<>>
    /\ conn' = [conn EXCEPT ![w] = Head(queue)]
    /\ UNCHANGED <<queueVars, signal, acceptorVars, client>>

\* A permit without an entry sends pop back to wait.
Take(w) ==
    /\ WorkerAt(w, "take", IF queue = <<>> THEN "wait" ELSE "free")
    /\ IF queue = <<>> THEN UNCHANGED <<queue, conn>>
       ELSE /\ conn' = [conn EXCEPT ![w] = Head(queue)]
            /\ queue' = Tail(queue)
    /\ UNCHANGED <<items, spaces, signal, acceptorVars, client>>

ReleaseSpace(w) ==
    /\ WorkerAt(w, "free", "handshake")
    /\ spaces' = spaces + 1
    /\ UNCHANGED <<items, queue, signal, acceptorVars, conn, client>>

HandshakeSucceeds(w) ==
    /\ WorkerAt(w, "handshake", "session")
    /\ conn[w] \notin Silent
    /\ UNCHANGED <<queueVars, signal, acceptorVars, conn, client>>

\* Faulty: no receive timeout on the handshake.
HandshakeWaits(w) ==
    /\ conn[w] \notin Silent
    /\ \/ WorkerAt(w, "handshake", "close")
       \/ Faults /\ WorkerAt(w, "handshake", "dead")
    /\ UNCHANGED <<queueVars, signal, acceptorVars, conn, client>>

\* Rejected, without a fingerprint, or silent for the ten seconds of the
\* receive timeout.  A log line that cannot be written ends the worker.
HandshakeFails(w) ==
    /\ \/ WorkerAt(w, "handshake", "close")
       \/ Faults /\ WorkerAt(w, "handshake", "dead")
    /\ UNCHANGED <<queueVars, signal, acceptorVars, conn, client>>

\* The session returns or raises; its error is caught and logged.
SessionEnds(w) ==
    /\ \/ WorkerAt(w, "session", "close")
       \/ Faults /\ WorkerAt(w, "session", "dead")
    /\ UNCHANGED <<queueVars, signal, acceptorVars, conn, client>>

CloseConn(w) ==
    /\ WorkerAt(w, "close", "wait")
    /\ client' = [client EXCEPT ![conn[w]] = "closed"]
    /\ conn' = [conn EXCEPT ![w] = "none"]
    /\ UNCHANGED <<queueVars, signal, acceptorVars>>

-----------------------------------------------------------------------------
(* The specification *)

AcceptorNext ==
    \/ CheckSignal
    \/ Readable
    \/ SelectTimesOut
    \/ SelectFails
    \/ \E c \in Clients : Accept(c)
    \/ AcceptFails
    \/ AcquireSpace
    \/ AppendConn
    \/ PostItem
    \/ Exit

QueueStep(w) == AcquireItem(w) \/ Take(w) \/ ReleaseSpace(w)

Handshake(w) == HandshakeSucceeds(w) \/ HandshakeFails(w)

WorkerNext(w) ==
    QueueStep(w) \/ Handshake(w) \/ SessionEnds(w) \/ CloseConn(w)

Next ==
    \/ \E c \in Clients : Connect(c)
    \/ Interrupt
    \/ AcceptorNext
    \/ \E w \in Workers : WorkerNext(w)

Spec == Init /\ [][Next]_vars

\* The server's own threads are scheduled, and accept does not fail forever;
\* sessions last as they like.
ThreadSpec ==
    /\ Spec
    /\ WF_vars(AcceptorNext)
    /\ SF_vars(\E c \in Clients : Accept(c))
    /\ \A w \in Workers :
          WF_vars(QueueStep(w)) /\ WF_vars(Handshake(w)) /\ WF_vars(CloseConn(w))

\* Every session ends as well.
SessionSpec == ThreadSpec /\ \A w \in Workers : WF_vars(SessionEnds(w))

-----------------------------------------------------------------------------
(* Properties *)

AcceptorPlaces ==
    {"check", "select", "accept", "push", "append", "post", "returned", "exited"}

WorkerPlaces == {"wait", "take", "free", "handshake", "session", "close", "dead"}

\* The types of the variables of the queue, the loop and the workers.
TypeOK ==
    /\ items \in 0 .. Backlog
    /\ spaces \in 0 .. Backlog
    /\ queue \in Seq(Clients)
    /\ signal \in BOOLEAN
    /\ acceptor \in AcceptorPlaces
    /\ hand \in Clients \cup {"none"}
    /\ worker \in [Workers -> WorkerPlaces]
    /\ conn \in [Workers -> Clients \cup {"none"}]
    /\ client \in [Clients -> {"away", "knocking", "open", "closed"}]

WorkersAt(place) == {w \in Workers : worker[w] = place}

OneIf(b) == IF b THEN 1 ELSE 0

\* Every space is free, occupied by a queued connection, or on its way: taken
\* by the accept loop before the append, or owed by a worker after the take.
SpacesAccounted ==
    spaces + Len(queue) + OneIf(acceptor = "append") + Cardinality(WorkersAt("free"))
        = Backlog

\* Every queued connection has one permit: free, taken by a worker about to
\* dequeue, or owed by the accept loop.
ItemsAccounted ==
    items + Cardinality(WorkersAt("take")) + OneIf(acceptor = "post") = Len(queue)

\* A worker that got an item permit finds an entry: the re-wait of pop
\* ("Unreachable while the semaphore counts entries") never runs.
NoPhantomEntry == \A w \in Workers : worker[w] = "take" => queue # <<>>

\* The two semaphores of ConnQueue count what they stand for, whatever step of
\* push and pop each thread is at.
PermitsAccounted == SpacesAccounted /\ ItemsAccounted /\ NoPhantomEntry

\* Where an accepted connection can be: in the loop's hand, at one position of
\* the queue, with one worker.
PlacesOf(c) ==
    (IF hand = c THEN {<<"hand">>} ELSE {})
        \cup {<<"queue", i>> : i \in {j \in DOMAIN queue : queue[j] = c}}
        \cup {<<"worker", w>> : w \in {v \in Workers : conn[v] = c}}

\* While the server runs, an accepted connection that is not closed is in
\* exactly one place and any other client is in none: none is dropped, served
\* twice or closed while it is held.
HeldOnce ==
    Running => \A c \in Clients :
        Cardinality(PlacesOf(c)) = OneIf(client[c] = "open")

\* ConnQueue, the accept loop and connWorker implement the bounded FIFO with
\* its workers: a connection is pending from its append to its take.
Pool == INSTANCE ConnectionPool
            WITH pending <- queue, serving <- conn, up <- Running

ImplementsPool == Pool!PoolSpec

\* The guards under which the accept loop and a worker go on by themselves: the
\* loop waits for a space (push), a worker for an item (pop), and for each other
\* in no other way.
LoopGoesOn ==
    \/ acceptor \in {"check", "select", "append", "post", "returned"}
    \/ acceptor = "accept" /\ Knocking # {}
    \/ acceptor = "push" /\ spaces > 0

WorkerGoesOn(w) ==
    \/ worker[w] \in {"take", "free", "handshake", "session", "close"}
    \/ worker[w] = "wait" /\ items > 0

\* While the server runs and the loop cannot go on, every worker can that is not
\* lost, unless another one is between its two permits and about to make room
\* or to serve: loop and workers never all wait, and no wake-up is lost.
LoopNeverWaitsForIdlers ==
    Running /\ ~LoopGoesOn =>
        \/ \A w \in Workers : WorkerGoesOn(w) \/ worker[w] = "dead"
        \/ \E w \in Workers : worker[w] \in {"take", "free"}

\* A worker never idles beside a queued connection: its permit is free, with a
\* worker about to take a connection, or about to be given by the loop.
NoLostWakeUp ==
    \A w \in Workers : worker[w] = "wait" /\ queue # <<>> =>
        \/ WorkerGoesOn(w)
        \/ acceptor = "post"
        \/ \E v \in Workers : worker[v] = "take"

WorkerLost == \E w \in Workers : worker[w] = "dead"

\* Every client that knocks is eventually closed, however many silent ones
\* connect: the receive timeout on the handshake frees their worker.
EveryClientFinishes ==
    \A c \in Clients : client[c] = "knocking" ~> client[c] = "closed" \/ WorkerLost

\* If sessions end, a signal ends the server (loopAcceptPool, serveOne).
SignalStops == signal ~> ~Running \/ WorkerLost

\* What the documents say of a signal, whatever the sessions do.
SignalAlwaysStops == signal ~> ~Running
=============================================================================
