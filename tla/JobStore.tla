------------------------------ MODULE JobStore ------------------------------
(***************************************************************************)
(* The process-wide asynchronous job store (Shell/Jobs/Store.lean) with    *)
(* the connections that use it (runAsync of Shell/Mirror/Session.lean).    *)
(*                                                                         *)
(* Every action is one critical section of the code: the store mutex, a    *)
(* cancel token's mutex, the semaphore, or a promise.  Between two actions *)
(* of one thread any other thread may run.  What a job body does inside    *)
(* its slot is abstracted to the outcome it returns and to whether it      *)
(* gave all its resources back.                                            *)
(***************************************************************************)
EXTENDS Naturals, FiniteSets

CONSTANTS
    Sessions,        \* the connections
    MaxSubmissions,  \* bound of the model: ids are 0 .. MaxSubmissions - 1
    Capacity,        \* bound on live (non-terminal) entries
    MaxStored,       \* retention bound on stored entries
    Verdicts,        \* the successful outcomes a body can return
    LaunchMayFail,   \* whether starting a job's task may raise
    CleanupMayFail   \* whether a body may return with a resource still leased

ASSUME JobStoreAssumption ==
    /\ IsFiniteSet(Sessions)
    /\ MaxSubmissions \in Nat
    /\ Capacity \in Nat
    /\ MaxStored \in Nat
    /\ Verdicts \cap {"none", "failed", "cancelled"} = {}
    /\ LaunchMayFail \in BOOLEAN
    /\ CleanupMayFail \in BOOLEAN

Ids == 0 .. MaxSubmissions - 1

\* Worker slots: newJobStoreWith makes a semaphore of max 1 capacity permits.
Slots == IF Capacity = 0 THEN 1 ELSE Capacity

Outcomes == Verdicts \cup {"failed", "cancelled"}

VARIABLES
    counter,    \* the next id to give out
    stored,     \* the ids in the job table
    phase,      \* the entry's phase; the last one once the entry is evicted
    wire,       \* the terminal outcome retained for delivery
    resolved,   \* whether the entry's result promise is resolved
    cancelled,  \* whether the job's cancel token is flipped
    worker,     \* where the job's thread is
    result,     \* what the job's body returned, until it is published
    leaked,     \* whether the body kept a lease its token refuses to settle
    permits,    \* free permits of the slot semaphore
    conn,       \* the connection: open, closing (endSession) or closed
    peer,       \* whether the client is still connected
    pc,         \* where the connection's thread is
    arg,        \* the id its current call is about
    mine        \* the ids this connection submitted

storeVars   == <<counter, stored, phase, wire, resolved>>
workerVars  == <<worker, result, leaked, permits>>
sessionVars == <<conn, peer, pc, arg, mine>>
vars == <<storeVars, cancelled, workerVars, sessionVars>>

-----------------------------------------------------------------------------
(* The job table *)

IsTerminal(p) == p \in {"done", "failed", "cancelled"}

\* Faulty: an entry counts as live until it is evicted.
LiveWhileStored(j) == j \in stored

Live(j) == j \in stored /\ ~IsTerminal(phase[j])

LiveIds == {j \in stored : ~IsTerminal(phase[j])}

\* What queryJob says of an id: its phase, or "unknown" when it is not stored.
Answer(j) == IF j \in stored THEN phase[j] ELSE "unknown"

\* Faulty: no retention bound.
AdmitsUnretained == Cardinality(LiveIds) < Capacity

\* Both passes of submitJob test the same two bounds.
Admits == /\ Cardinality(LiveIds) < Capacity
          /\ Cardinality(stored) < MaxStored

\* The phase transition reaches with outcome o.
PhaseOf(o) == IF o \in Verdicts THEN "done" ELSE o

\* applyEvent under the store lock: terminal and absent entries absorb it.
Settle(j, o) ==
    IF Live(j)
    THEN /\ phase' = [phase EXCEPT ![j] = PhaseOf(o)]
         /\ wire'  = [wire EXCEPT ![j] = o]
    ELSE UNCHANGED <<phase, wire>>

\* Faulty: the promise is looked up again, and found only in the table.
ResolveStored(j) == resolved' = [resolved EXCEPT ![j] = j \in stored]

Resolve(j) == resolved' = [resolved EXCEPT ![j] = TRUE]

-----------------------------------------------------------------------------
(* The job thread: jobThread and runJobBody *)

Goto(j, w) == worker' = [worker EXCEPT ![j] = w]

AcquireSlot(j) ==
    /\ worker[j] = "waiting"
    /\ permits > 0
    /\ permits' = permits - 1
    /\ Goto(j, "pickup")
    /\ UNCHANGED <<storeVars, cancelled, result, leaked, sessionVars>>

\* Faulty: a job that is no longer live ends its thread before the finally.
PickUpLosesPermit(j) ==
    /\ worker[j] = "pickup"
    /\ IF Live(j)
       THEN phase' = [phase EXCEPT ![j] = "running"] /\ Goto(j, "check")
       ELSE UNCHANGED phase /\ Goto(j, "settled")
    /\ UNCHANGED <<counter, stored, wire, resolved, cancelled, result, leaked,
                   permits, sessionVars>>

PickUp(j) ==
    /\ worker[j] = "pickup"
    /\ IF Live(j)
       THEN phase' = [phase EXCEPT ![j] = "running"] /\ Goto(j, "check")
       ELSE UNCHANGED phase /\ Goto(j, "settle")
    /\ UNCHANGED <<counter, stored, wire, resolved, cancelled, result, leaked,
                   permits, sessionVars>>

\* Faulty: the token is not read before the body; and a cancelled job leaves
\* without its terminal transition.
CheckNothing(j) ==
    /\ worker[j] = "check"
    /\ Goto(j, "body")
    /\ UNCHANGED <<storeVars, cancelled, result, leaked, permits, sessionVars>>

\* token.isCancelled, read before the body is entered.
CheckCancelled(j) ==
    /\ worker[j] = "check"
    /\ IF cancelled[j]
       THEN Goto(j, "publish") /\ result' = [result EXCEPT ![j] = "failed"]
       ELSE Goto(j, "body") /\ UNCHANGED result
    /\ UNCHANGED <<storeVars, cancelled, leaked, permits, sessionVars>>

\* The body ends: a verdict, an error, a crash or an outcome too large to
\* retain (the last three are the same infraError outcome).
BodyReturns(j) ==
    /\ worker[j] = "body"
    /\ \E o \in Verdicts \cup {"failed"} : result' = [result EXCEPT ![j] = o]
    /\ \E l \in {FALSE, CleanupMayFail} : leaked' = [leaked EXCEPT ![j] = l]
    /\ Goto(j, "publish")
    /\ UNCHANGED <<storeVars, cancelled, permits, sessionVars>>

\* The token refuses to publish a verdict while a resource is still leased.
Refused(j) == Live(j) /\ leaked[j] /\ result[j] \in Verdicts

Publish(j) ==
    /\ worker[j] = "publish"
    /\ ~Refused(j)
    /\ Settle(j, result[j])
    /\ Goto(j, IF Live(j) THEN "resolve" ELSE "settle")
    /\ result' = [result EXCEPT ![j] = "none"]
    /\ UNCHANGED <<counter, stored, resolved, cancelled, leaked, permits,
                   sessionVars>>

\* The rejection is caught and the job is failed instead.
PublishRefused(j) ==
    /\ worker[j] = "publish"
    /\ Refused(j)
    /\ result' = [result EXCEPT ![j] = "failed"]
    /\ UNCHANGED <<storeVars, cancelled, worker, leaked, permits, sessionVars>>

\* Faulty: the worker returns without resolving.
WorkerForgetsPromise(j) ==
    /\ worker[j] = "resolve"
    /\ Goto(j, "settle")
    /\ UNCHANGED <<storeVars, cancelled, result, leaked, permits, sessionVars>>

WorkerResolve(j) ==
    /\ worker[j] = "resolve"
    /\ Resolve(j)
    /\ Goto(j, "settle")
    /\ UNCHANGED <<counter, stored, phase, wire, cancelled, result, leaked,
                   permits, sessionVars>>

\* Faulty: the permit is not given back when the token refuses to settle; and
\* the slot is given back only while the entry is stored.
ReleaseUnlessRaised(j) ==
    /\ worker[j] = "settle"
    /\ permits' = IF leaked[j] THEN permits ELSE permits + 1
    /\ Goto(j, IF leaked[j] THEN "raised" ELSE "settled")
    /\ UNCHANGED <<storeVars, cancelled, result, leaked, sessionVars>>

ReleaseWhileStored(j) ==
    /\ worker[j] = "settle"
    /\ j \in stored
    /\ permits' = permits + 1
    /\ Goto(j, IF leaked[j] THEN "raised" ELSE "settled")
    /\ UNCHANGED <<storeVars, cancelled, result, leaked, sessionVars>>

\* settle, then the finally block; the permit is returned even when the token
\* refuses to settle, and the thread then ends with its ledger still active.
ReleaseSlot(j) ==
    /\ worker[j] = "settle"
    /\ permits' = permits + 1
    /\ Goto(j, IF leaked[j] THEN "raised" ELSE "settled")
    /\ UNCHANGED <<storeVars, cancelled, result, leaked, sessionVars>>

WorkerStep(j) ==
    \/ AcquireSlot(j) \/ PickUp(j) \/ CheckCancelled(j) \/ BodyReturns(j)
    \/ Publish(j) \/ PublishRefused(j) \/ WorkerResolve(j) \/ ReleaseSlot(j)

-----------------------------------------------------------------------------
(* A connection: dispatchAsync, submitJob, awaitJob, cancelJob, endSession *)

At(c, label) == pc[c] = label

Jump(c, label) == pc' = [pc EXCEPT ![c] = label]

Call(c, label, j) == Jump(c, label) /\ arg' = [arg EXCEPT ![c] = j]

Ready(c) == conn[c] = "open" /\ At(c, "idle") /\ peer[c]

Submit(c) ==
    /\ Ready(c)
    /\ Jump(c, "reserve")
    /\ UNCHANGED <<storeVars, cancelled, workerVars, conn, peer, arg, mine>>

\* Faulty: the first pass leaves the bounds to the second.
ReserveUntested(c) ==
    /\ At(c, "reserve")
    /\ IF counter < MaxSubmissions
       THEN Call(c, "insert", counter)
       ELSE Jump(c, "idle") /\ UNCHANGED arg
    /\ UNCHANGED <<storeVars, cancelled, workerVars, conn, peer, mine>>

\* First pass: reject, or remember the counter.  The end of the bounded id
\* space counts as a rejection.
Reserve(c) ==
    /\ At(c, "reserve")
    /\ IF Admits /\ counter < MaxSubmissions
       THEN Call(c, "insert", counter)
       ELSE Jump(c, "idle") /\ UNCHANGED arg
    /\ UNCHANGED <<storeVars, cancelled, workerVars, conn, peer, mine>>

\* Faulty: the second pass trusts the id the first one chose.
InsertStaleId(c) ==
    /\ At(c, "insert")
    /\ IF Admits
       THEN /\ counter' = IF arg[c] < counter THEN counter ELSE arg[c] + 1
            /\ stored' = stored \cup {arg[c]}
            /\ Jump(c, "launch")
       ELSE /\ Jump(c, "reserve")
            /\ UNCHANGED <<counter, stored>>
    /\ UNCHANGED <<phase, wire, resolved, cancelled, workerVars, conn, peer,
                   arg, mine>>

\* Second pass: insert under the reserved id, or start over.
Insert(c) ==
    /\ At(c, "insert")
    /\ IF Admits /\ counter = arg[c]
       THEN /\ counter' = counter + 1
            /\ stored' = stored \cup {arg[c]}
            /\ Jump(c, "launch")
       ELSE /\ Jump(c, "reserve")
            /\ UNCHANGED <<counter, stored>>
    /\ UNCHANGED <<phase, wire, resolved, cancelled, workerVars, conn, peer,
                   arg, mine>>

Launch(c) ==
    /\ At(c, "launch")
    /\ Goto(arg[c], "waiting")
    /\ mine' = [mine EXCEPT ![c] = @ \cup {arg[c]}]
    /\ Jump(c, "idle")
    /\ UNCHANGED <<storeVars, cancelled, result, leaked, permits, conn, peer,
                   arg>>

LaunchFails(c) ==
    /\ LaunchMayFail
    /\ At(c, "launch")
    /\ stored' = stored \ {arg[c]}
    /\ Jump(c, "idle")
    /\ UNCHANGED <<counter, phase, wire, resolved, cancelled, workerVars, conn,
                   peer, arg, mine>>

\* Any connection may await or cancel any id given out so far.
Await(c) ==
    /\ Ready(c)
    /\ \E j \in 0 .. counter - 1, timed \in BOOLEAN :
          Call(c, IF j \in stored
                  THEN IF timed THEN "awaitTimed" ELSE "await"
                  ELSE "status", j)
    /\ UNCHANGED <<storeVars, cancelled, workerVars, conn, peer, mine>>

\* Faulty: the wait returns at once, resolved or not; and the poll goes on
\* while the entry is missing.
AwaitReadsEarly(c) ==
    /\ pc[c] \in {"await", "awaitTimed"}
    /\ Jump(c, IF arg[c] \in stored /\ wire[arg[c]] # "none" THEN "idle"
               ELSE "status")
    /\ UNCHANGED <<storeVars, cancelled, workerVars, conn, peer, arg, mine>>

AwaitReadsStored(c) ==
    /\ pc[c] \in {"await", "awaitTimed"}
    /\ resolved[arg[c]]
    /\ arg[c] \in stored
    /\ Jump(c, "idle")
    /\ UNCHANGED <<storeVars, cancelled, workerVars, conn, peer, arg, mine>>

\* The poll sees the promise resolved and reads the table again: the retained
\* outcome is the reply; an entry evicted meanwhile leaves the final query.
AwaitRead(c) ==
    /\ pc[c] \in {"await", "awaitTimed"}
    /\ resolved[arg[c]]
    /\ Jump(c, IF arg[c] \in stored /\ wire[arg[c]] # "none" THEN "idle"
               ELSE "status")
    /\ UNCHANGED <<storeVars, cancelled, workerVars, conn, peer, arg, mine>>

AwaitTimeout(c) ==
    /\ At(c, "awaitTimed")
    /\ ~resolved[arg[c]]
    /\ Jump(c, "statusTimed")
    /\ UNCHANGED <<storeVars, cancelled, workerVars, conn, peer, arg, mine>>

\* Faulty: the lookup never finds a token to flip.
CancelLookupMisses(c, j, otherwise) == Call(c, otherwise, j)

\* cancelJob looks the token up under the store lock, for a client's request
\* or for endSession, ...
CancelLookup(c, j, otherwise) ==
    Call(c, IF Live(j) THEN "flip" ELSE otherwise, j)

Cancel(c) ==
    /\ Ready(c)
    /\ \E j \in 0 .. counter - 1 : CancelLookup(c, j, "report")
    /\ UNCHANGED <<storeVars, cancelled, workerVars, conn, peer, mine>>

\* ... flips it under the token lock (its hooks run after that), ...
CancelFlip(c) ==
    /\ At(c, "flip")
    /\ cancelled' = [cancelled EXCEPT ![arg[c]] = TRUE]
    /\ Jump(c, "commit")
    /\ UNCHANGED <<storeVars, workerVars, conn, peer, arg, mine>>

\* Faulty: endSession stops after its first cancellation.
AfterCancelReports(c) == "report"

AfterCancel(c) == IF conn[c] = "closing" THEN "evict" ELSE "report"

\* ... then applies requestCancel under the store lock ...
CancelCommit(c) ==
    /\ At(c, "commit")
    /\ Settle(arg[c], "cancelled")
    /\ Jump(c, IF Live(arg[c]) THEN "resolve" ELSE AfterCancel(c))
    /\ UNCHANGED <<counter, stored, resolved, cancelled, workerVars, conn, peer,
                   arg, mine>>

\* ... and resolves the promise after unlocking.
CancelResolve(c) ==
    /\ At(c, "resolve")
    /\ Resolve(arg[c])
    /\ Jump(c, AfterCancel(c))
    /\ UNCHANGED <<counter, stored, phase, wire, cancelled, workerVars, conn,
                   peer, arg, mine>>

\* The final queryJob of await_job and cancel_job; its Answer is the reply.
Reply(c) ==
    /\ pc[c] \in {"status", "statusTimed", "report"}
    /\ Jump(c, "idle")
    /\ UNCHANGED <<storeVars, cancelled, workerVars, conn, peer, arg, mine>>

\* The client closes its end; a thread that is not reading does not see it.
HangUp(c) ==
    /\ conn[c] = "open"
    /\ peer[c]
    /\ peer' = [peer EXCEPT ![c] = FALSE]
    /\ UNCHANGED <<storeVars, cancelled, workerVars, conn, pc, arg, mine>>

\* recv returns EOF, or a line that ends the session: one that does not
\* decode, an unexpected message, a synchronous register (which runs one flow
\* inline first).
EndSession(c) ==
    /\ conn[c] = "open"
    /\ At(c, "idle")
    /\ conn' = [conn EXCEPT ![c] = "closing"]
    /\ Call(c, "next", 0)
    /\ UNCHANGED <<storeVars, cancelled, workerVars, peer, mine>>

\* Faulty: the id at the cursor is passed over.
UndrainedAfter(c) == {j \in mine[c] : j > arg[c]}

\* The ids endSession has not reached; it goes through them in the order they
\* were submitted, which is ascending.
Undrained(c) == {j \in mine[c] : j >= arg[c]}

DrainNext(c) ==
    /\ At(c, "next")
    /\ \E j \in Undrained(c) :
          /\ \A k \in Undrained(c) : j <= k
          /\ CancelLookup(c, j, "evict")
    /\ UNCHANGED <<storeVars, cancelled, workerVars, conn, peer, mine>>

Evict(c) ==
    /\ At(c, "evict")
    /\ stored' = stored \ {arg[c]}
    /\ Call(c, "next", arg[c] + 1)
    /\ UNCHANGED <<counter, phase, wire, resolved, cancelled, workerVars, conn,
                   peer, mine>>

Close(c) ==
    /\ At(c, "next")
    /\ Undrained(c) = {}
    /\ conn' = [conn EXCEPT ![c] = "closed"]
    /\ Call(c, "idle", 0)
    /\ UNCHANGED <<storeVars, cancelled, workerVars, peer, mine>>

\* Steps the connection's thread takes by itself.
SessionStep(c) ==
    \/ Reserve(c) \/ Insert(c) \/ Launch(c) \/ LaunchFails(c)
    \/ AwaitRead(c) \/ AwaitTimeout(c)
    \/ CancelFlip(c) \/ CancelCommit(c) \/ CancelResolve(c) \/ Reply(c)
    \/ DrainNext(c) \/ Evict(c) \/ Close(c)

\* What a client does.
ClientStep(c) ==
    Submit(c) \/ Await(c) \/ Cancel(c) \/ HangUp(c)

-----------------------------------------------------------------------------

Init ==
    /\ counter = 0
    /\ stored = {}
    /\ phase = [j \in Ids |-> "pending"]
    /\ wire = [j \in Ids |-> "none"]
    /\ resolved = [j \in Ids |-> FALSE]
    /\ cancelled = [j \in Ids |-> FALSE]
    /\ worker = [j \in Ids |-> "none"]
    /\ result = [j \in Ids |-> "none"]
    /\ leaked = [j \in Ids |-> FALSE]
    /\ permits = Slots
    /\ conn = [c \in Sessions |-> "open"]
    /\ peer = [c \in Sessions |-> TRUE]
    /\ pc = [c \in Sessions |-> "idle"]
    /\ arg = [c \in Sessions |-> 0]
    /\ mine = [c \in Sessions |-> {}]

Next ==
    \/ \E j \in Ids : WorkerStep(j)
    \/ \E c \in Sessions : SessionStep(c) \/ ClientStep(c) \/ EndSession(c)

Spec == Init /\ [][Next]_vars

-----------------------------------------------------------------------------
(* Properties *)

WorkerPCs == {"none", "waiting", "pickup", "check", "body", "publish",
              "resolve", "settle", "settled", "raised"}

SessionPCs == {"idle", "reserve", "insert", "launch", "await", "awaitTimed",
               "status", "statusTimed", "flip", "commit", "resolve", "report",
               "next", "evict"}

TypeOK ==
    /\ counter \in 0 .. MaxSubmissions
    /\ stored \in SUBSET Ids
    /\ phase \in [Ids -> {"pending", "running", "done", "failed", "cancelled"}]
    /\ wire \in [Ids -> Outcomes \cup {"none"}]
    /\ resolved \in [Ids -> BOOLEAN]
    /\ cancelled \in [Ids -> BOOLEAN]
    /\ worker \in [Ids -> WorkerPCs]
    /\ result \in [Ids -> Outcomes \cup {"none"}]
    /\ leaked \in [Ids -> BOOLEAN]
    /\ permits \in 0 .. Slots
    /\ conn \in [Sessions -> {"open", "closing", "closed"}]
    /\ peer \in [Sessions -> BOOLEAN]
    /\ pc \in [Sessions -> SessionPCs]
    /\ arg \in [Sessions -> 0 .. MaxSubmissions]
    /\ mine \in [Sessions -> SUBSET Ids]

LiveWithinCapacity == Cardinality(LiveIds) <= Capacity

StoredWithinRetention == Cardinality(stored) <= MaxStored

\* submitJob drops the store lock between its two passes, and any number of
\* connections may be between them: still neither the live entries exceed the
\* capacity the store was made with, nor the stored ones the retention limit.
BoundsKept == LiveWithinCapacity /\ StoredWithinRetention

\* The worker threads between acquireSlot and releaseSlot.
Holding == {j \in Ids : worker[j] \in {"pickup", "check", "body", "publish",
                                       "resolve", "settle"}}

\* A permit is either free or held by one job thread, whatever cancellation,
\* eviction, a late result or a refused settle does (jobThread's finally).
PermitsConserved == permits + Cardinality(Holding) = Slots

\* The threads that have made an entry terminal and still have to resolve its
\* promise after leaving the store lock.
Resolvers(j) ==
    {<<"worker", k>> : k \in {i \in {j} : worker[i] = "resolve"}} \cup
    {<<"session", c>> : c \in {d \in Sessions : pc[d] = "resolve" /\ arg[d] = j}}

\* Completion and any number of cancellations race to finish a job; exactly one
\* of them owes the promise its resolution, so no awaiting connection is
\* forgotten and no promise is resolved twice (applyEvent's "acts").
PromiseAccounted ==
    \A j \in Ids :
        Cardinality(Resolvers(j)) + (IF resolved[j] THEN 1 ELSE 0)
            = (IF wire[j] # "none" THEN 1 ELSE 0)

\* A live entry always has a thread that will finish it: its job thread before
\* its terminal transition, or the submitter about to start that thread.  No
\* race of eviction, cancellation and pick-up strands a live job (runJobBody).
LiveHasWorker ==
    \A j \in LiveIds :
        \/ worker[j] \in {"waiting", "pickup", "check", "body", "publish"}
        \/ \E c \in Sessions : pc[c] = "launch" /\ arg[c] = j

\* No job is stranded, whatever races: while an entry is live somebody will end
\* it, and once it is ended somebody will tell whoever awaits it, once.
EveryJobAnswered == PromiseAccounted /\ LiveHasWorker

\* Once endSession has returned, nothing the connection submitted is stored,
\* also when other connections cancelled, awaited or finished those jobs
\* meanwhile, and nothing is stored that no connection will evict.
ClosedOwnsNothing ==
    \A j \in stored : \E c \in Sessions :
        /\ conn[c] # "closed"
        /\ j \in mine[c] \/ (pc[c] = "launch" /\ arg[c] = j)

\* The reply to await_job without a timeout and to cancel_job is never a job
\* that is still pending or running (C18 of the client guide, cancelJob).
SettledAnswers ==
    \A c \in Sessions :
        pc[c] \in {"status", "report"} => Answer(arg[c]) \notin {"pending", "running"}

\* The first terminal outcome stays, in the entry and after its eviction:
\* every reply that carries an outcome of this id carries the same one.
OutcomeStable ==
    [][\A j \in Ids : wire[j] # "none" =>
          wire'[j] = wire[j] /\ phase'[j] = phase[j]]_<<wire, phase>>

\* An id that was given out and is no longer stored never names a job again,
\* although the id is chosen in one critical section and used in another.
EvictedStaysUnknown ==
    [][\A j \in Ids : j < counter /\ j \notin stored => j \notin stored']_stored

\* No body is entered for a job already reported cancelled: cancelJob flips the
\* token before it commits, and runJobBody reads the token after it commits.
NoBodyAfterCancel ==
    [][\A j \in Ids : worker[j] # "body" /\ worker'[j] = "body"
          => phase[j] # "cancelled"]_worker

\* The guards under which a thread goes on by itself: only a permit and a
\* promise are ever waited for (acquireSlot, awaitJob).
ThreadGoesOn(j) ==
    \/ worker[j] \in {"pickup", "check", "body", "publish", "resolve", "settle"}
    \/ worker[j] = "waiting" /\ permits > 0

SessionGoesOn(c) ==
    \/ pc[c] = "idle" /\ conn[c] = "open"
    \/ pc[c] \notin {"idle", "await"}
    \/ pc[c] = "await" /\ resolved[arg[c]]

SomebodyGoesOn ==
    \/ \E j \in Ids : ThreadGoesOn(j)
    \/ \E c \in Sessions : SessionGoesOn(c)

\* An await of an id whose job was never started: submitJob took the entry back
\* after the failed launch, and nobody resolves its promise.
Forgotten(c) ==
    /\ LaunchMayFail
    /\ pc[c] = "await"
    /\ arg[c] \notin stored /\ worker[arg[c]] = "none" /\ wire[arg[c]] = "none"

\* Everything was given back: every connection is closed, every thread has
\* ended, every permit is back and the table is empty, except for a connection
\* that waits for a job that was never started, and for its own entries.
AllGivenBack ==
    /\ \A c \in Sessions : conn[c] = "closed" \/ Forgotten(c)
    /\ \A j \in Ids : worker[j] \in {"none", "settled", "raised"}
    /\ permits = Slots
    /\ \A j \in stored : \E c \in Sessions : Forgotten(c) /\ j \in mine[c]

\* Nobody waits for everybody: unless everything was given back some thread
\* can go on, however jobs queue for slots, connections await each other's
\* jobs, cancel and evict them, and launches fail (acquireSlot, endSession).
StopsClean == SomebodyGoesOn \/ AllGivenBack

\* The same behaviours, with a step of their own for the states in which all
\* was given back: with it TLC's search for deadlocks finds every other stop,
\* whatever the guards above say.
Stopped == AllGivenBack /\ UNCHANGED vars

StoppingSpec == Init /\ [][Next \/ Stopped]_vars

-----------------------------------------------------------------------------
(***************************************************************************)
(* How far everybody is.  Liveness is beyond the provers; what they can    *)
(* show is that each thread has a bounded number of steps left, counted    *)
(* down by every step it takes and by no step of anybody else.             *)
(***************************************************************************)

\* The steps endSession still takes, at most: five for each id it has not
\* reached, and what is left of the one it is at.
DrainRank(label) ==
    IF label = "next" THEN 4 ELSE IF label = "flip" THEN 3
    ELSE IF label = "commit" THEN 2 ELSE IF label = "resolve" THEN 1 ELSE 0

DrainLeft(c) == 5 * Cardinality(Undrained(c)) + DrainRank(pc[c])

\* endSession waits for nothing: the guard of one of its steps holds.
DrainNeverWaits ==
    [](\A c \in Sessions : conn[c] = "closing" =>
          \/ pc[c] \in {"flip", "commit", "resolve", "evict"}
          \/ /\ pc[c] = "next"
             /\ \/ Undrained(c) = {}
                \/ \E j \in Undrained(c) : \A k \in Undrained(c) : j <= k)

\* endSession is wait-free: it closes its connection within that many steps of
\* its own, whatever the other connections and the job threads do meanwhile.
DrainCountsDown ==
    [][\A c \in Sessions : conn[c] = "closing" =>
          \/ conn'[c] = "closed"
          \/ DrainLeft(c)' < DrainLeft(c) /\ conn'[c] = "closing"
          \/ UNCHANGED <<conn[c], pc[c], arg[c], mine[c]>>]_vars

\* The steps of a job's thread: those still to take, at most.  A verdict the
\* token may refuse to publish costs one step more.
ThreadRank(place) ==
    IF place = "waiting" THEN 8 ELSE IF place = "pickup" THEN 7
    ELSE IF place = "check" THEN 6 ELSE IF place = "body" THEN 5
    ELSE IF place = "publish" THEN 3 ELSE IF place = "resolve" THEN 2
    ELSE IF place = "settle" THEN 1 ELSE 0

ThreadLeft(j) ==
    ThreadRank(worker[j])
        + IF worker[j] = "publish" /\ result[j] \in Verdicts THEN 1 ELSE 0

\* A job's thread never goes back: it reaches its end within eight steps of its
\* own, and no cancellation or eviction makes it take one more.
ThreadCountsDown ==
    [][\A j \in Ids : worker[j] # "none" =>
          \/ ThreadLeft(j)' < ThreadLeft(j)
          \/ UNCHANGED <<worker[j], result[j]>>]_vars

\* submitJob starts over only when another submission was admitted between its
\* two passes: the second test of the bounds can fail in no other way.
RetryMeansProgress ==
    [][\A c \in Sessions : pc[c] = "insert" /\ pc'[c] = "reserve"
          => arg[c] < counter]_vars

-----------------------------------------------------------------------------
(* Liveness *)

\* A connection's thread runs on; it reads the end of the stream once the
\* client has hung up.
SessionFairness ==
    \A c \in Sessions :
        /\ WF_vars(SessionStep(c))
        /\ WF_vars(~peer[c] /\ EndSession(c))

\* Job threads run on, and the semaphore serves its waiters in order, so a
\* waiter that permits keep coming back to is served.  The body of a cancelled
\* job ends, because its token's hook kills the model checker's process.
WorkerFairness ==
    \A j \in Ids :
        /\ SF_vars(AcquireSlot(j))
        /\ WF_vars(PickUp(j) \/ CheckCancelled(j) \/ Publish(j)
                   \/ PublishRefused(j) \/ WorkerResolve(j) \/ ReleaseSlot(j))
        /\ WF_vars(cancelled[j] /\ BodyReturns(j))

\* Nothing bounds the run time of a body that nobody cancels.
FairSpec == Spec /\ SessionFairness /\ WorkerFairness

\* The assumption that every body ends by itself.
BodiesEnd == \A j \in Ids : WF_vars(BodyReturns(j))

\* endSession never waits for a body: once started, it finishes even while the
\* bodies of other connections run forever.
ClosingEnds ==
    \A c \in Sessions : conn[c] = "closing" ~> conn[c] = "closed"

\* A cancelled job in a slot gives the slot back.
CancelledFreesSlot ==
    \A j \in Ids : cancelled[j] /\ j \in Holding ~> j \notin Holding

\* If bodies end, every await is answered, also when the owner of the job
\* cancels and evicts it meanwhile (awaitJob).
AwaitAnswered ==
    BodiesEnd => \A c \in Sessions :
        pc[c] \in {"await", "awaitTimed", "status", "statusTimed"} ~> pc[c] = "idle"

\* If bodies end, the connection of a client that hangs up is torn down
\* (runAsync reads the end of the stream and runs endSession).
HangUpDrains ==
    BodiesEnd => \A c \in Sessions : ~peer[c] ~> conn[c] = "closed"

\* What the documents say of a disconnect, whatever the bodies do.
DisconnectCancelsAndEvicts ==
    \A c \in Sessions : \A j \in Ids :
        ~peer[c] /\ j \in mine[c] ~> j \notin stored
=============================================================================
