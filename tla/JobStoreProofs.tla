--------------------------- MODULE JobStoreProofs ---------------------------
(***************************************************************************)
(* Safety of the job store for any number of connections, any capacity and *)
(* retention bound, and any bound on the submissions.                      *)
(***************************************************************************)
EXTENDS JobStore, FiniteSetTheorems, WellFoundedInduction, TLAPS

-----------------------------------------------------------------------------
(* The inductive invariant *)

\* TypeOK, but for the upper bound of the free permits: that bound is not a
\* matter of types, it follows from the conservation of permits.
Shape ==
    /\ counter \in 0 .. MaxSubmissions
    /\ stored \in SUBSET Ids
    /\ phase \in [Ids -> {"pending", "running", "done", "failed", "cancelled"}]
    /\ wire \in [Ids -> Outcomes \cup {"none"}]
    /\ resolved \in [Ids -> BOOLEAN]
    /\ cancelled \in [Ids -> BOOLEAN]
    /\ worker \in [Ids -> WorkerPCs]
    /\ result \in [Ids -> Outcomes \cup {"none"}]
    /\ leaked \in [Ids -> BOOLEAN]
    /\ permits \in Nat
    /\ conn \in [Sessions -> {"open", "closing", "closed"}]
    /\ peer \in [Sessions -> BOOLEAN]
    /\ pc \in [Sessions -> SessionPCs]
    /\ arg \in [Sessions -> 0 .. MaxSubmissions]
    /\ mine \in [Sessions -> SUBSET Ids]

\* A connection inside a call works on an id of the bounded id space.
ArgInRange ==
    \A c \in Sessions : pc[c] \notin {"idle", "reserve", "next"} => arg[c] \in Ids

\* A thread about to publish has an outcome to publish.
ResultReady ==
    \A j \in Ids : worker[j] = "publish" => result[j] \in Verdicts \cup {"failed"}

\* Only ids already given out have a thread, or are about to get one; two
\* submitters are never about to start a thread for the same id.
ThreadsOfGivenIds ==
    /\ \A j \in Ids : worker[j] # "none" => j < counter
    /\ \A c \in Sessions : pc[c] = "launch" =>
          arg[c] < counter /\ worker[arg[c]] = "none"
    /\ \A c, d \in Sessions :
          c # d /\ pc[c] = "launch" /\ pc[d] = "launch" => arg[c] # arg[d]

\* An entry retains an outcome only in a terminal phase.
WireIsTerminal == \A j \in Ids : wire[j] # "none" => IsTerminal(phase[j])

StoreInv ==
    /\ Shape /\ ArgInRange /\ ResultReady /\ ThreadsOfGivenIds
    /\ WireIsTerminal /\ PermitsConserved

-----------------------------------------------------------------------------
(* Facts about the constants and the slot holders *)

\* The bounded id space and its use as an index.
LEMMA IdsFacts ==
    /\ IsFiniteSet(Ids)
    /\ Ids \subseteq 0 .. MaxSubmissions /\ Ids \subseteq Nat
    /\ \A i \in 0 .. MaxSubmissions : i < MaxSubmissions => i \in Ids
    /\ Slots \in Nat
<1>1. IsFiniteSet(Ids)
    BY FS_Interval, JobStoreAssumption DEF Ids
<1> QED
    BY <1>1, JobStoreAssumption DEF Ids, Slots

\* The threads in a slot are finitely many.
LEMMA HoldingFinite == IsFiniteSet(Holding) /\ Cardinality(Holding) \in Nat
<1>1. Holding \subseteq Ids
    BY DEF Holding
<1> QED
    BY <1>1, IdsFacts, FS_Subset, FS_CardinalityType

-----------------------------------------------------------------------------
(* Shape, ArgInRange and ResultReady *)

Typed == Shape /\ ArgInRange /\ ResultReady

\* The store starts empty, idle and with every slot free.
LEMMA TypedStarts == Init => Typed
BY JobStoreAssumption, IdsFacts
   DEF Init, Typed, Shape, ArgInRange, ResultReady, WorkerPCs, SessionPCs, Outcomes

\* The job thread's steps stay in range.
LEMMA TypedWorker ==
    ASSUME Typed, NEW j \in Ids, WorkerStep(j)
    PROVE  Typed'
<1> USE JobStoreAssumption
    DEF Typed, Shape, ArgInRange, ResultReady, WorkerPCs, SessionPCs, Outcomes,
        storeVars, workerVars, sessionVars, Goto
<1>1. CASE AcquireSlot(j)
    BY <1>1 DEF AcquireSlot
<1>2. CASE PickUp(j)
    BY <1>2 DEF PickUp
<1>3. CASE CheckCancelled(j)
    BY <1>3 DEF CheckCancelled
<1>4. CASE BodyReturns(j)
    <2>1. PICK o \in Verdicts \cup {"failed"} : result' = [result EXCEPT ![j] = o]
        BY <1>4 DEF BodyReturns
    <2>2. PICK l \in BOOLEAN : leaked' = [leaked EXCEPT ![j] = l]
        BY <1>4 DEF BodyReturns
    <2>3. leaked' \in [Ids -> BOOLEAN]
        BY <2>2
    <2>4. result' \in [Ids -> Outcomes \cup {"none"}] /\ result'[j] = o
        BY <2>1
    <2> QED
        BY <1>4, <2>1, <2>3, <2>4 DEF BodyReturns
<1>5. CASE Publish(j)
    BY <1>5 DEF Publish, Settle, PhaseOf
<1>6. CASE PublishRefused(j)
    BY <1>6 DEF PublishRefused
<1>7. CASE WorkerResolve(j)
    BY <1>7 DEF WorkerResolve, Resolve
<1>8. CASE ReleaseSlot(j)
    BY <1>8 DEF ReleaseSlot
<1> QED
    BY <1>1, <1>2, <1>3, <1>4, <1>5, <1>6, <1>7, <1>8 DEF WorkerStep

\* A connection's steps stay in range.
LEMMA TypedSession ==
    ASSUME Typed, NEW c \in Sessions,
           SessionStep(c) \/ ClientStep(c) \/ EndSession(c)
    PROVE  Typed'
<1> USE JobStoreAssumption, IdsFacts
    DEF Typed, Shape, ArgInRange, ResultReady, WorkerPCs, SessionPCs, Outcomes,
        storeVars, workerVars, sessionVars, Goto, At, Jump, Call, Ready
<1>1. CASE Reserve(c)
    BY <1>1 DEF Reserve
<1>2. CASE Insert(c)
    <2>1. arg[c] \in Ids
        BY <1>2 DEF Insert
    <2>2. arg[c] + 1 \in 0 .. MaxSubmissions
        BY <2>1 DEF Ids
    <2>3. /\ counter' \in {counter, arg[c] + 1}
          /\ stored' \in {stored, stored \cup {arg[c]}}
          /\ \E l \in {"launch", "reserve"} : pc' = [pc EXCEPT ![c] = l]
        BY <1>2 DEF Insert
    <2>4. counter' \in 0 .. MaxSubmissions /\ stored' \in SUBSET Ids
        BY <2>1, <2>2, <2>3
    <2> QED
        BY <1>2, <2>1, <2>3, <2>4 DEF Insert
<1>3. CASE Launch(c)
    BY <1>3 DEF Launch
<1>4. CASE LaunchFails(c)
    BY <1>4 DEF LaunchFails
<1>5. CASE AwaitRead(c)
    BY <1>5 DEF AwaitRead
<1>6. CASE AwaitTimeout(c)
    BY <1>6 DEF AwaitTimeout
<1>7. CASE CancelFlip(c)
    BY <1>7 DEF CancelFlip
<1>8. CASE CancelCommit(c)
    BY <1>8 DEF CancelCommit, Settle, PhaseOf, AfterCancel
<1>9. CASE CancelResolve(c)
    BY <1>9 DEF CancelResolve, Resolve, AfterCancel
<1>10. CASE Reply(c)
    BY <1>10 DEF Reply
<1>11. CASE DrainNext(c)
    BY <1>11 DEF DrainNext, CancelLookup, Undrained
<1>12. CASE Evict(c)
    <2>1. arg[c] \in Ids
        BY <1>12 DEF Evict
    <2>2. arg[c] + 1 \in 0 .. MaxSubmissions
        BY <2>1 DEF Ids
    <2> QED
        BY <1>12, <2>1, <2>2 DEF Evict
<1>13. CASE Close(c)
    BY <1>13 DEF Close
<1>14. CASE Submit(c)
    BY <1>14 DEF Submit
<1>15. CASE Await(c)
    BY <1>15 DEF Await, Ids
<1>16. CASE Cancel(c)
    BY <1>16 DEF Cancel, CancelLookup, Ids
<1>17. CASE HangUp(c)
    BY <1>17 DEF HangUp
<1>18. CASE EndSession(c)
    BY <1>18 DEF EndSession
<1> QED
    BY <1>1, <1>2, <1>3, <1>4, <1>5, <1>6, <1>7, <1>8, <1>9, <1>10, <1>11,
       <1>12, <1>13, <1>14, <1>15, <1>16, <1>17, <1>18
       DEF SessionStep, ClientStep

\* The two halves together.
LEMMA TypedSteps == Typed /\ [Next]_vars => Typed'
<1> SUFFICES ASSUME Typed, [Next]_vars PROVE Typed'
    OBVIOUS
<1>1. CASE UNCHANGED vars
    BY <1>1 DEF Typed, Shape, ArgInRange, ResultReady, vars, storeVars,
       workerVars, sessionVars
<1> QED
    BY <1>1, TypedWorker, TypedSession DEF Next

-----------------------------------------------------------------------------
(* ThreadsOfGivenIds and WireIsTerminal *)

\* Nothing is given out at the start.
LEMMA ThreadsStart == Init => ThreadsOfGivenIds /\ WireIsTerminal
BY DEF Init, ThreadsOfGivenIds, WireIsTerminal

\* A job thread never starts another thread.
LEMMA ThreadsWorker ==
    ASSUME Typed, ThreadsOfGivenIds, NEW j \in Ids, WorkerStep(j)
    PROVE  ThreadsOfGivenIds'
<1>1. worker[j] # "none" /\ \E w \in WorkerPCs \ {"none"} :
          worker' = [worker EXCEPT ![j] = w]
    <2> USE DEF Typed, Shape, WorkerPCs, Goto
    <2>1. CASE PublishRefused(j)
        BY <2>1 DEF PublishRefused
    <2> QED
        BY <2>1 DEF WorkerStep, AcquireSlot, PickUp, CheckCancelled, BodyReturns,
           Publish, WorkerResolve, ReleaseSlot
<1>2. UNCHANGED <<counter, pc, arg>>
    BY DEF WorkerStep, AcquireSlot, PickUp, CheckCancelled, BodyReturns, Publish,
       PublishRefused, WorkerResolve, ReleaseSlot, storeVars, sessionVars
<1> QED
    BY <1>1, <1>2 DEF ThreadsOfGivenIds, Typed, Shape, ArgInRange

\* A submitter starts the thread of the id it inserted, and inserts only the
\* id that no submitter was given before.
LEMMA ThreadsSession ==
    ASSUME Typed, ThreadsOfGivenIds, NEW c \in Sessions,
           SessionStep(c) \/ ClientStep(c) \/ EndSession(c)
    PROVE  ThreadsOfGivenIds'
<1> USE DEF Typed, Shape, ArgInRange, ThreadsOfGivenIds, storeVars, workerVars,
            sessionVars, At, Jump, Call, Ready, Goto
<1>1. CASE Insert(c)
    <2>1. /\ arg[c] \in Ids /\ counter \in Nat
          /\ UNCHANGED <<worker, arg>>
          /\ \A d \in Sessions \ {c} : pc'[d] = pc[d]
        BY <1>1, JobStoreAssumption DEF Insert
    <2>2. CASE pc'[c] # "launch"
        BY <1>1, <2>1, <2>2 DEF Insert
    <2>3. CASE pc'[c] = "launch"
        <3>1. counter = arg[c] /\ counter' = counter + 1
            BY <1>1, <2>3 DEF Insert
        <3>2. worker[arg[c]] = "none"
            BY <2>1, <3>1, IdsFacts
        <3>3. \A j \in Ids : worker'[j] # "none" => j < counter'
            BY <2>1, <3>1, IdsFacts
        <3>4. \A d \in Sessions \ {c} : pc[d] = "launch" =>
                 /\ arg[d] < counter /\ arg[d] \in Nat
                 /\ worker[arg[d]] = "none"
            BY IdsFacts
        <3>5. \A d \in Sessions : pc'[d] = "launch" =>
                 arg'[d] < counter' /\ worker'[arg'[d]] = "none"
            BY <2>1, <3>1, <3>2, <3>4
        <3> QED
            BY <2>1, <3>1, <3>3, <3>4, <3>5
    <2> QED
        BY <2>2, <2>3
<1>2. CASE Launch(c)
    BY <1>2 DEF Launch, SessionPCs
<1>3. ASSUME UNCHANGED <<counter, worker>>,
             \A d \in Sessions : pc'[d] = "launch" => pc[d] = "launch" /\ arg'[d] = arg[d]
      PROVE  ThreadsOfGivenIds'
    BY <1>3
<1>4. CASE \/ LaunchFails(c) \/ AwaitRead(c) \/ AwaitTimeout(c) \/ CancelFlip(c)
           \/ CancelCommit(c) \/ CancelResolve(c) \/ Reply(c)
    BY <1>3, <1>4 DEF LaunchFails, AwaitRead, AwaitTimeout, CancelFlip,
       CancelCommit, CancelResolve, Reply, AfterCancel
<1>5. CASE Reserve(c) \/ DrainNext(c) \/ Evict(c) \/ Close(c) \/ EndSession(c)
    BY <1>3, <1>5 DEF Reserve, DrainNext, CancelLookup, Evict, Close, EndSession
<1>6. CASE ClientStep(c)
    BY <1>3, <1>6 DEF ClientStep, Submit, Await, Cancel, CancelLookup, HangUp
<1> QED
    BY <1>1, <1>2, <1>4, <1>5, <1>6 DEF SessionStep

\* Whoever writes the phase or the retained outcome of an entry, the first
\* outcome stays and its phase is terminal.
LEMMA PhaseSteps ==
    ASSUME Typed, WireIsTerminal, [Next]_vars, NEW i \in Ids
    PROVE  /\ wire[i] # "none" => wire'[i] = wire[i] /\ phase'[i] = phase[i]
           /\ wire'[i] # "none" => IsTerminal(phase'[i])
           /\ Live(i)' => Live(i) \/ i \notin stored
<1> USE DEF Typed, Shape, ArgInRange, WireIsTerminal, storeVars, workerVars,
            sessionVars, Live
<1>1. ASSUME NEW j \in Ids, NEW o \in Outcomes, Settle(j, o), stored' = stored
      PROVE  /\ wire[i] # "none" => wire'[i] = wire[i] /\ phase'[i] = phase[i]
             /\ wire'[i] # "none" => IsTerminal(phase'[i])
             /\ Live(i)' => Live(i) \/ i \notin stored
    BY <1>1 DEF Settle, PhaseOf, Outcomes, IsTerminal
<1>2. ASSUME NEW j \in Ids, Publish(j)
      PROVE  /\ stored' = stored /\ \E o \in Outcomes : Settle(j, o)
    BY <1>2 DEF Publish, ResultReady, Outcomes
<1>3. ASSUME NEW c \in Sessions, CancelCommit(c)
      PROVE  /\ stored' = stored
             /\ \E j \in Ids, o \in Outcomes : Settle(j, o)
    BY <1>3 DEF CancelCommit, At, Outcomes
<1>4. ASSUME NEW j \in Ids, PickUp(j)
      PROVE  /\ wire[i] # "none" => wire'[i] = wire[i] /\ phase'[i] = phase[i]
             /\ wire'[i] # "none" => IsTerminal(phase'[i])
             /\ Live(i)' => Live(i) \/ i \notin stored
    BY <1>4 DEF PickUp, IsTerminal
<1>5. ASSUME UNCHANGED <<phase, wire>>
      PROVE  /\ wire[i] # "none" => wire'[i] = wire[i] /\ phase'[i] = phase[i]
             /\ wire'[i] # "none" => IsTerminal(phase'[i])
             /\ Live(i)' => Live(i) \/ i \notin stored
    BY <1>5
<1>6. ASSUME NEW j \in Ids, WorkerStep(j)
      PROVE  \/ Publish(j) \/ PickUp(j) \/ UNCHANGED <<phase, wire>>
    BY <1>6 DEF WorkerStep, AcquireSlot, CheckCancelled, BodyReturns,
       PublishRefused, WorkerResolve, ReleaseSlot
<1>7. ASSUME NEW c \in Sessions, SessionStep(c) \/ ClientStep(c) \/ EndSession(c)
      PROVE  CancelCommit(c) \/ UNCHANGED <<phase, wire>>
    BY <1>7 DEF SessionStep, ClientStep, EndSession, Reserve, Insert, Launch,
       LaunchFails, AwaitRead, AwaitTimeout, CancelFlip, CancelResolve, Reply,
       DrainNext, Evict, Close, Submit, Await, Cancel, HangUp
<1> QED
    BY <1>1, <1>2, <1>3, <1>4, <1>5, <1>6, <1>7 DEF Next, vars

-----------------------------------------------------------------------------
(* PermitsConserved *)

\* All permits are free at the start.
LEMMA PermitsStart == Init => PermitsConserved
<1> SUFFICES ASSUME Init PROVE PermitsConserved
    OBVIOUS
<1>1. Holding = {}
    BY DEF Init, Holding
<1> QED
    BY <1>1, FS_EmptySet, IdsFacts DEF Init, PermitsConserved

\* Only acquireSlot and releaseSlot move a thread in or out of its slot, each
\* along with one permit.
LEMMA PermitsSteps ==
    ASSUME Typed, ThreadsOfGivenIds, PermitsConserved, [Next]_vars
    PROVE  PermitsConserved'
<1> USE DEF Typed, Shape, PermitsConserved
<1>1. IsFiniteSet(Holding) /\ Cardinality(Holding) \in Nat /\ Slots \in Nat
    BY HoldingFinite, IdsFacts
<1>2. ASSUME NEW j \in Ids, AcquireSlot(j) PROVE PermitsConserved'
    <2>1. j \notin Holding /\ Holding' = Holding \cup {j} /\ permits' = permits - 1
        BY <1>2 DEF AcquireSlot, Goto, Holding
    <2>2. Cardinality(Holding') = Cardinality(Holding) + 1
        BY <1>1, <2>1, FS_AddElement
    <2> QED
        BY <1>1, <2>1, <2>2
<1>3. ASSUME NEW j \in Ids, ReleaseSlot(j) PROVE PermitsConserved'
    <2>1. j \in Holding /\ Holding' = Holding \ {j} /\ permits' = permits + 1
        BY <1>3 DEF ReleaseSlot, Goto, Holding
    <2>2. Cardinality(Holding') = Cardinality(Holding) - 1
        BY <1>1, <2>1, FS_RemoveElement
    <2> QED
        BY <1>1, <2>1, <2>2
<1>4. ASSUME permits' = permits, Holding' = Holding PROVE PermitsConserved'
    BY <1>4
<1>5. ASSUME NEW j \in Ids, WorkerStep(j), ~AcquireSlot(j), ~ReleaseSlot(j)
      PROVE  permits' = permits /\ Holding' = Holding
    BY <1>5 DEF WorkerStep, PickUp, CheckCancelled, BodyReturns, Publish,
       PublishRefused, WorkerResolve, Goto, Holding
<1>6. ASSUME NEW c \in Sessions, Launch(c)
      PROVE  permits' = permits /\ Holding' = Holding
    BY <1>6 DEF Launch, At, Goto, Holding, ThreadsOfGivenIds
<1>7. ASSUME NEW c \in Sessions, SessionStep(c) \/ ClientStep(c) \/ EndSession(c)
      PROVE  Launch(c) \/ UNCHANGED <<permits, worker>>
    BY <1>7 DEF SessionStep, ClientStep, EndSession, Reserve, Insert, CancelCommit,
       LaunchFails, AwaitRead, AwaitTimeout, CancelFlip, CancelResolve, Reply,
       DrainNext, Evict, Close, Submit, Await, Cancel, HangUp, workerVars
<1>8. ASSUME UNCHANGED <<permits, worker>>
      PROVE  permits' = permits /\ Holding' = Holding
    BY <1>8 DEF Holding
<1> QED
    BY <1>2, <1>3, <1>4, <1>5, <1>6, <1>7, <1>8 DEF Next, vars, workerVars

-----------------------------------------------------------------------------
(* The theorems *)

\* The inductive invariant: permits need the threads to be those of given
\* ids, threads need the calls in range, and outcomes need terminal phases.
LEMMA StoreInvariant == Spec => []StoreInv
<1>1. Init => StoreInv
    BY TypedStarts, ThreadsStart, PermitsStart DEF StoreInv, Typed
<1>2. StoreInv /\ [Next]_vars => StoreInv'
    <2> SUFFICES ASSUME StoreInv, [Next]_vars PROVE StoreInv'
        OBVIOUS
    <2>1. Typed /\ Typed'
        BY TypedSteps DEF StoreInv, Typed
    <2>2. ThreadsOfGivenIds'
        <3>1. CASE UNCHANGED vars
            BY <3>1 DEF StoreInv, ThreadsOfGivenIds, vars, storeVars, workerVars,
               sessionVars
        <3> QED
            BY <2>1, <3>1, ThreadsWorker, ThreadsSession DEF StoreInv, Next
    <2>3. WireIsTerminal'
        BY <2>1, PhaseSteps DEF StoreInv, WireIsTerminal
    <2>4. PermitsConserved'
        BY <2>1, PermitsSteps DEF StoreInv
    <2> QED
        BY <2>1, <2>2, <2>3, <2>4 DEF StoreInv, Typed
<1> QED
    BY <1>1, <1>2, PTL DEF Spec

\* In every history of the store and its connections all variables stay in
\* range; in particular the semaphore never holds more than its permits.
THEOREM TypeCorrect == Spec => []TypeOK
<1>1. StoreInv => TypeOK
    <2> SUFFICES ASSUME StoreInv PROVE TypeOK
        OBVIOUS
    <2>1. permits \in 0 .. Slots
        BY HoldingFinite, IdsFacts DEF StoreInv, Shape, PermitsConserved
    <2> QED
        BY <2>1 DEF StoreInv, Shape, TypeOK
<1> QED
    BY <1>1, StoreInvariant, PTL

\* No permit is lost or made up by any race of cancellation, eviction, late
\* results and refused settles, for any number of slots (jobThread).
THEOREM PermitsAlwaysConserved == Spec => []PermitsConserved
BY StoreInvariant, PTL DEF StoreInv

\* A step stores at most one entry more, and only below both bounds; the
\* critical section of the second pass of submitJob decides alone.
LEMMA StoredSteps ==
    ASSUME [Next]_vars
    PROVE  \/ stored' \subseteq stored
           \/ Admits /\ \E i : stored' = stored \cup {i}
<1>1. ASSUME NEW c \in Sessions, Insert(c)
      PROVE  \/ stored' \subseteq stored
             \/ Admits /\ \E i : stored' = stored \cup {i}
    BY <1>1 DEF Insert
<1>2. ASSUME NEW c \in Sessions, SessionStep(c) \/ ClientStep(c) \/ EndSession(c),
             ~Insert(c)
      PROVE  stored' \subseteq stored
    BY <1>2 DEF SessionStep, ClientStep, EndSession, Reserve, Launch, LaunchFails,
       AwaitRead, AwaitTimeout, CancelFlip, CancelCommit, CancelResolve, Reply,
       DrainNext, Evict, Close, Submit, Await, Cancel, HangUp, storeVars
<1>3. ASSUME NEW j \in Ids, WorkerStep(j) PROVE stored' = stored
    BY <1>3 DEF WorkerStep, AcquireSlot, PickUp, CheckCancelled, BodyReturns,
       Publish, PublishRefused, WorkerResolve, ReleaseSlot, storeVars
<1> QED
    BY <1>1, <1>2, <1>3 DEF Next, vars, storeVars

\* The table never retains more entries than it was made for: submitJob checks
\* and inserts in one critical section.
LEMMA StoredBounded == Spec => []StoredWithinRetention
<1> USE DEF StoredWithinRetention
<1>1. Init => StoredWithinRetention
    BY FS_EmptySet, JobStoreAssumption DEF Init
<1>2. StoreInv /\ StoredWithinRetention /\ [Next]_vars => StoredWithinRetention'
    <2> SUFFICES ASSUME StoreInv, StoredWithinRetention, [Next]_vars
                 PROVE  StoredWithinRetention'
        OBVIOUS
    <2>1. IsFiniteSet(stored) /\ Cardinality(stored) \in Nat /\ MaxStored \in Nat
        BY IdsFacts, FS_Subset, FS_CardinalityType, JobStoreAssumption
           DEF StoreInv, Shape
    <2>2. CASE stored' \subseteq stored
        BY <2>1, <2>2, FS_Subset, FS_CardinalityType
    <2>3. ASSUME Admits, NEW i, stored' = stored \cup {i}
          PROVE  StoredWithinRetention'
        <3>1. /\ Cardinality(stored \cup {i}) <= Cardinality(stored) + 1
              /\ Cardinality(stored \cup {i}) \in Nat
            BY <2>1, FS_AddElement, FS_CardinalityType
        <3>2. Cardinality(stored) < MaxStored
            BY <2>3 DEF Admits
        <3> QED
            BY <2>1, <2>3, <3>1, <3>2
    <2> QED
        BY <2>2, <2>3, StoredSteps
<1> QED
    BY <1>1, <1>2, StoreInvariant, PTL DEF Spec

\* Likewise the live entries never exceed the capacity: nothing makes a dead
\* entry live.
LEMMA LiveBounded == Spec => []LiveWithinCapacity
<1> USE DEF LiveWithinCapacity
<1>1. Init => LiveWithinCapacity
    <2> SUFFICES ASSUME Init PROVE LiveWithinCapacity
        OBVIOUS
    <2>1. LiveIds = {}
        BY DEF Init, LiveIds
    <2> QED
        BY <2>1, FS_EmptySet, JobStoreAssumption
<1>2. StoreInv /\ LiveWithinCapacity /\ [Next]_vars => LiveWithinCapacity'
    <2> SUFFICES ASSUME StoreInv, LiveWithinCapacity, [Next]_vars
                 PROVE  LiveWithinCapacity'
        OBVIOUS
    <2>1. stored' \in SUBSET Ids /\ stored \in SUBSET Ids
        BY TypedSteps DEF StoreInv, Typed, Shape
    <2>2. /\ IsFiniteSet(LiveIds) /\ Cardinality(LiveIds) \in Nat
          /\ Capacity \in Nat
        <3>1. LiveIds \subseteq Ids
            BY <2>1 DEF LiveIds
        <3> QED
            BY <3>1, IdsFacts, FS_Subset, FS_CardinalityType, JobStoreAssumption
    <2>3. \A i \in Ids : Live(i)' => Live(i) \/ i \notin stored
        BY PhaseSteps DEF StoreInv, Typed
    <2>4. CASE stored' \subseteq stored
        <3>1. LiveIds' \subseteq LiveIds
            BY <2>1, <2>3, <2>4 DEF LiveIds, Live
        <3> QED
            BY <2>2, <3>1, FS_Subset, FS_CardinalityType
    <2>5. ASSUME Admits, NEW i, stored' = stored \cup {i}
          PROVE  LiveWithinCapacity'
        <3>1. LiveIds' \subseteq LiveIds \cup {i}
            BY <2>1, <2>3, <2>5 DEF LiveIds, Live
        <3>2. /\ IsFiniteSet(LiveIds \cup {i})
              /\ Cardinality(LiveIds \cup {i}) \in Nat
              /\ Cardinality(LiveIds \cup {i}) <= Cardinality(LiveIds) + 1
            BY <2>2, FS_AddElement, FS_CardinalityType
        <3>3. Cardinality(LiveIds) < Capacity
            BY <2>5 DEF Admits
        <3>4. /\ Cardinality(LiveIds') <= Cardinality(LiveIds \cup {i})
              /\ Cardinality(LiveIds') \in Nat
            BY <3>1, <3>2, FS_Subset, FS_CardinalityType
        <3> QED
            BY <2>2, <3>2, <3>3, <3>4
    <2> QED
        BY <2>4, <2>5, StoredSteps
<1> QED
    BY <1>1, <1>2, StoreInvariant, PTL DEF Spec

\* However many connections are between the two passes of submitJob, neither
\* bound of the table is exceeded.
THEOREM BoundsAlwaysKept == Spec => []BoundsKept
BY LiveBounded, StoredBounded, PTL DEF BoundsKept

\* The first terminal outcome stays, against every later completion or
\* cancellation, in the table and in what was told before eviction (applyEvent).
THEOREM OutcomesStable == Spec => OutcomeStable
<1>1. StoreInv /\ [Next]_vars =>
        [\A j \in Ids : wire[j] # "none" =>
            wire'[j] = wire[j] /\ phase'[j] = phase[j]]_<<wire, phase>>
    BY PhaseSteps DEF StoreInv, Typed
<1> QED
    BY <1>1, StoreInvariant, PTL DEF Spec, OutcomeStable

\* An id whose entry was evicted is never stored again, although submitJob
\* chooses an id in one critical section and inserts it in another.
THEOREM EvictedIsFinal == Spec => EvictedStaysUnknown
<1>1. StoreInv /\ [Next]_vars =>
        [\A j \in Ids : j < counter /\ j \notin stored => j \notin stored']_stored
    <2> SUFFICES ASSUME StoreInv, [Next]_vars, NEW j \in Ids, j < counter,
                        j \notin stored, j \in stored'
                 PROVE  FALSE
        OBVIOUS
    <2>1. ASSUME NEW c \in Sessions, Insert(c) PROVE FALSE
        BY <2>1, IdsFacts DEF Insert, StoreInv, Shape
    <2>2. ASSUME NEW c \in Sessions,
                 SessionStep(c) \/ ClientStep(c) \/ EndSession(c), ~Insert(c)
          PROVE  FALSE
        BY <2>2 DEF SessionStep, ClientStep, EndSession, Reserve, Launch,
           LaunchFails, AwaitRead, AwaitTimeout, CancelFlip, CancelCommit,
           CancelResolve, Reply, DrainNext, Evict, Close, Submit, Await, Cancel,
           HangUp, storeVars
    <2>3. ASSUME NEW i \in Ids, WorkerStep(i) PROVE FALSE
        BY <2>3 DEF WorkerStep, AcquireSlot, PickUp, CheckCancelled, BodyReturns,
           Publish, PublishRefused, WorkerResolve, ReleaseSlot, storeVars
    <2> QED
        BY <2>1, <2>2, <2>3 DEF Next, vars, storeVars
<1> QED
    BY <1>1, StoreInvariant, PTL DEF Spec, EvictedStaysUnknown

-----------------------------------------------------------------------------
(* Who owns an entry, who owes its promise, and what a connection knows of *)
(* the id it works on                                                      *)

\* A connection submitted an id: it remembers it, or is about to start it.
Owns(c, j) == j \in mine[c] \/ (pc[c] = "launch" /\ arg[c] = j)

\* An entry carries an outcome as soon as it is terminal.
TerminalHasWire == \A j \in Ids : IsTerminal(phase[j]) => wire[j] # "none"

\* Where a connection can be, by its state; draining is about an own id.
Places ==
    \A c \in Sessions :
        /\ conn[c] = "open" => pc[c] \notin {"next", "evict"}
        /\ conn[c] = "closing" => pc[c] \in {"next", "flip", "commit", "resolve", "evict"}
        /\ conn[c] = "closed" => pc[c] = "idle"
        /\ conn[c] = "closing" /\ pc[c] # "next" => arg[c] \in mine[c]

\* Every id in use was given out.
GivenOut ==
    /\ \A j \in stored : j < counter
    /\ \A c \in Sessions : \A j \in mine[c] : j < counter
    /\ \A c \in Sessions :
           pc[c] \notin {"idle", "reserve", "insert", "next"} => arg[c] < counter

\* An id has one owner at most, and an entry has one that will evict it.
Owned ==
    /\ \A c, d \in Sessions : \A j \in Ids : Owns(c, j) /\ Owns(d, j) => c = d
    /\ \A j \in stored : \E c \in Sessions : conn[c] # "closed" /\ Owns(c, j)
    /\ \A j \in Ids : worker[j] # "none" => \E c \in Sessions : j \in mine[c]

\* endSession has evicted everything below its cursor.
DrainedBelow ==
    \A c \in Sessions : conn[c] = "closing" =>
        \A j \in mine[c] : j < arg[c] => j \notin stored

\* Whoever reports or evicts an id has found or made it terminal.
KnownDead ==
    \A c \in Sessions :
        pc[c] \in {"status", "report", "evict"} => ~ Live(arg[c])

\* The token is flipped before the entry becomes cancelled.
FlippedFirst ==
    /\ \A c \in Sessions : pc[c] = "commit" => cancelled[arg[c]]
    /\ \A j \in Ids : phase[j] = "cancelled" => cancelled[j]

\* Exactly one of the worker, one connection or the resolved promise stands
\* for an outcome.
Owes(c, j) == pc[c] = "resolve" /\ arg[c] = j
Debt(j) ==
    /\ wire[j] # "none" <=> \/ resolved[j]
                            \/ worker[j] = "resolve"
                            \/ \E c \in Sessions : Owes(c, j)
    /\ ~ (resolved[j] /\ worker[j] = "resolve")
    /\ \A c \in Sessions : Owes(c, j) => ~ resolved[j] /\ worker[j] # "resolve"
    /\ \A c, d \in Sessions : Owes(c, j) /\ Owes(d, j) => c = d
OneDebt == \A j \in Ids : Debt(j)

AnswerInv ==
    /\ TerminalHasWire /\ Places /\ GivenOut /\ Owned /\ DrainedBelow
    /\ KnownDead /\ FlippedFirst /\ OneDebt /\ LiveHasWorker

LEMMA AnswerStarts == Init => AnswerInv
BY DEF Init, AnswerInv, TerminalHasWire, Places, GivenOut, Owned, Owns, DrainedBelow,
       KnownDead, FlippedFirst, OneDebt, Debt, Owes, LiveHasWorker, LiveIds, IsTerminal

-----------------------------------------------------------------------------
(* Frames *)

\* A step of one connection touches no other.
LEMMA OneSession ==
    ASSUME Shape, NEW c \in Sessions,
           SessionStep(c) \/ ClientStep(c) \/ EndSession(c)
    PROVE  \A d \in Sessions \ {c} :
               /\ pc'[d] = pc[d] /\ arg'[d] = arg[d]
               /\ mine'[d] = mine[d] /\ conn'[d] = conn[d]
BY DEF SessionStep, ClientStep, EndSession, Reserve, Insert, Launch, LaunchFails,
       AwaitRead, AwaitTimeout, CancelFlip, CancelCommit, CancelResolve, Reply,
       DrainNext, CancelLookup, Evict, Close, Submit, Await, Cancel, HangUp,
       Jump, Call, Shape, sessionVars

\* A step of a job's thread touches no connection and no other thread.
LEMMA OneWorker ==
    ASSUME Shape, NEW j \in Ids, WorkerStep(j)
    PROVE  /\ UNCHANGED <<counter, stored, cancelled, sessionVars>>
           /\ worker[j] # "none" /\ worker'[j] # "none"
           /\ \A i \in Ids \ {j} : worker'[i] = worker[i]
<1>1. UNCHANGED <<counter, stored, cancelled, sessionVars>>
    BY DEF WorkerStep, AcquireSlot, PickUp, CheckCancelled, BodyReturns, Publish,
           PublishRefused, WorkerResolve, ReleaseSlot, storeVars
<1>2. worker[j] # "none" /\ worker'[j] # "none"
    BY DEF WorkerStep, AcquireSlot, PickUp, CheckCancelled, BodyReturns, Publish,
           PublishRefused, WorkerResolve, ReleaseSlot, Goto, Shape
<1>3. \A i \in Ids \ {j} : worker'[i] = worker[i]
    BY DEF WorkerStep, AcquireSlot, PickUp, CheckCancelled, BodyReturns, Publish,
           PublishRefused, WorkerResolve, ReleaseSlot, Goto, Shape
<1> QED
    BY <1>1, <1>2, <1>3

\* Ids are given out for good, and only Insert stores one: the next.
LEMMA StoreGrows ==
    ASSUME StoreInv, [Next]_vars
    PROVE  /\ counter <= counter'
           /\ \A j \in stored' : j \notin stored =>
                  \E c \in Sessions : Insert(c) /\ arg[c] = j /\ j = counter
                                      /\ counter' = j + 1 /\ pc'[c] = "launch"
<1> USE DEF StoreInv, Shape
<1>1. counter \in Nat
    BY JobStoreAssumption
<1>2. ASSUME NEW j \in Ids, WorkerStep(j)
      PROVE  UNCHANGED <<counter, stored>>
    BY <1>2, OneWorker
<1>3. ASSUME NEW c \in Sessions, SessionStep(c) \/ ClientStep(c) \/ EndSession(c),
             ~ Insert(c)
      PROVE  counter' = counter /\ stored' \subseteq stored
    BY <1>3 DEF SessionStep, ClientStep, EndSession, Reserve, Launch,
       LaunchFails, AwaitRead, AwaitTimeout, CancelFlip, CancelCommit, CancelResolve,
       Reply, DrainNext, Evict, Close, Submit, Await, Cancel, HangUp, storeVars
<1>4. ASSUME NEW c \in Sessions, Insert(c)
      PROVE  \/ UNCHANGED <<counter, stored>>
             \/ /\ counter = arg[c] /\ counter' = counter + 1
                /\ stored' = stored \cup {arg[c]} /\ pc'[c] = "launch"
    BY <1>4 DEF Insert, Jump
<1> QED
    BY <1>1, <1>2, <1>3, <1>4 DEF Next, vars, storeVars

\* What is dead stays dead: no id comes back, no entry is revived.
LEMMA DeadStaysDead ==
    ASSUME StoreInv, [Next]_vars, NEW i \in Ids, i < counter, ~ Live(i)
    PROVE  ~ Live(i)'
<1>1. Live(i)' => Live(i) \/ i \notin stored
    BY PhaseSteps DEF StoreInv, Typed
<1>2. i \notin stored => i \notin stored'
    BY StoreGrows, IdsFacts DEF StoreInv, Shape
<1> QED
    BY <1>1, <1>2 DEF Live

-----------------------------------------------------------------------------
(* Steps *)

\* Phase and outcome become terminal together, in Settle; PickUp starts live
\* entries only.
LEMMA TerminalSteps ==
    ASSUME StoreInv, TerminalHasWire, [Next]_vars
    PROVE  TerminalHasWire'
<1> USE DEF StoreInv, Shape, TerminalHasWire, storeVars, workerVars, sessionVars
<1>1. ASSUME NEW j \in Ids, NEW o \in Outcomes, Settle(j, o) PROVE TerminalHasWire'
    <2>1. o # "none"
        BY JobStoreAssumption DEF Outcomes
    <2> QED
        BY <1>1, <2>1 DEF Settle
<1>2. ASSUME NEW j \in Ids, Publish(j) PROVE \E o \in Outcomes : Settle(j, o)
    BY <1>2 DEF Publish, ResultReady, Outcomes
<1>3. ASSUME NEW c \in Sessions, CancelCommit(c)
      PROVE  \E j \in Ids, o \in Outcomes : Settle(j, o)
    BY <1>3 DEF CancelCommit, At, ArgInRange, Outcomes
<1>4. ASSUME NEW j \in Ids, PickUp(j) PROVE TerminalHasWire'
    BY <1>4 DEF PickUp, IsTerminal
<1>5. ASSUME NEW j \in Ids, WorkerStep(j)
      PROVE  \/ Publish(j) \/ PickUp(j) \/ UNCHANGED <<phase, wire>>
    BY <1>5 DEF WorkerStep, AcquireSlot, CheckCancelled, BodyReturns,
       PublishRefused, WorkerResolve, ReleaseSlot
<1>6. ASSUME NEW c \in Sessions, SessionStep(c) \/ ClientStep(c) \/ EndSession(c)
      PROVE  CancelCommit(c) \/ UNCHANGED <<phase, wire>>
    BY <1>6 DEF SessionStep, ClientStep, EndSession, Reserve, Insert, Launch,
       LaunchFails, AwaitRead, AwaitTimeout, CancelFlip, CancelResolve, Reply,
       DrainNext, Evict, Close, Submit, Await, Cancel, HangUp
<1> QED
    BY <1>1, <1>2, <1>3, <1>4, <1>5, <1>6 DEF Next, vars

\* The places of a connection.
LEMMA PlacesSteps ==
    ASSUME StoreInv, Places, GivenOut, [Next]_vars
    PROVE  Places' /\ GivenOut'
<1> USE DEF StoreInv, Shape
<1>1. counter <= counter' /\ counter \in Nat /\ counter' \in Nat /\ Ids \subseteq Nat
    BY StoreGrows, TypedSteps, JobStoreAssumption, IdsFacts DEF Typed
<1>2. \A j \in stored' : j < counter'
    <2>1. ASSUME NEW j \in stored', j \in stored PROVE j < counter'
        <3>1. j < counter /\ j \in Nat
            BY <1>1, <2>1 DEF GivenOut
        <3> QED
            BY <1>1, <3>1
    <2>2. ASSUME NEW j \in stored', j \notin stored PROVE j < counter'
        <3>1. counter' = j + 1 /\ j = counter
            BY <2>2, StoreGrows
        <3> QED
            BY <1>1, <3>1
    <2> QED
        BY <2>1, <2>2
<1>3. ASSUME NEW j \in Ids, WorkerStep(j) PROVE Places' /\ GivenOut'
    BY <1>3, OneWorker DEF Places, GivenOut, sessionVars
<1>4. ASSUME NEW c \in Sessions, SessionStep(c) \/ ClientStep(c) \/ EndSession(c)
      PROVE  Places' /\ GivenOut'
    <2>1. \A d \in Sessions \ {c} :
              /\ pc'[d] = pc[d] /\ arg'[d] = arg[d]
              /\ mine'[d] = mine[d] /\ conn'[d] = conn[d]
        BY <1>4, OneSession
    <2>2. /\ conn'[c] = "open" => pc'[c] \notin {"next", "evict"}
          /\ conn'[c] = "closing" => pc'[c] \in {"next", "flip", "commit", "resolve", "evict"}
          /\ conn'[c] = "closed" => pc'[c] = "idle"
          /\ conn'[c] = "closing" /\ pc'[c] # "next" => arg'[c] \in mine'[c]
        <3> USE DEF At, Jump, Call, Ready, Places
        <3>1. CASE \/ Reserve(c) \/ Insert(c) \/ Launch(c) \/ LaunchFails(c)
                   \/ AwaitRead(c) \/ AwaitTimeout(c) \/ Reply(c)
            BY <1>4, <3>1 DEF Reserve, Insert, Launch, LaunchFails, AwaitRead,
                       AwaitTimeout, Reply
        <3>2. CASE CancelFlip(c) \/ CancelCommit(c) \/ CancelResolve(c)
            BY <3>2 DEF CancelFlip, CancelCommit, CancelResolve, AfterCancel
        <3>3. CASE DrainNext(c) \/ Evict(c) \/ Close(c)
            BY <3>3 DEF DrainNext, CancelLookup, Undrained, Evict, Close
        <3>4. CASE ClientStep(c) \/ EndSession(c)
            BY <3>4 DEF ClientStep, Submit, Await, Cancel, CancelLookup, HangUp, EndSession
        <3> QED
            BY <1>4, <3>1, <3>2, <3>3, <3>4 DEF SessionStep
    <2>3. /\ \A j \in mine'[c] : j < counter'
          /\ pc'[c] \notin {"idle", "reserve", "insert", "next"} => arg'[c] < counter'
        <3> USE DEF At, Jump, Call, Ready, GivenOut
        <3>1. CASE \/ Reserve(c) \/ LaunchFails(c) \/ AwaitRead(c) \/ AwaitTimeout(c)
                   \/ Reply(c) \/ CancelFlip(c) \/ CancelCommit(c) \/ CancelResolve(c)
            BY <3>1 DEF Reserve, LaunchFails, AwaitRead, AwaitTimeout, Reply,
                       CancelFlip, CancelCommit, CancelResolve, AfterCancel, storeVars
        <3>2. CASE Launch(c)
            BY <3>2 DEF Launch, storeVars
        <3>5. CASE Insert(c)
            <4>1. \A j \in mine'[c] : j < counter /\ j \in Nat
                BY <1>1, <3>5 DEF Insert
            <4>2. pc'[c] = "launch" => arg'[c] = counter /\ counter' = counter + 1
                BY <3>5 DEF Insert
            <4>3. pc'[c] \in {"launch", "reserve"}
                BY <3>5 DEF Insert
            <4> QED
                BY <1>1, <4>1, <4>2, <4>3
        <3>3. CASE DrainNext(c) \/ Evict(c) \/ Close(c) \/ EndSession(c)
            BY <3>3 DEF DrainNext, CancelLookup, Undrained, Evict, Close, EndSession,
                       storeVars
        <3>4. CASE Submit(c) \/ HangUp(c)
            BY <3>4 DEF Submit, HangUp, storeVars
        <3>6. ASSUME NEW j \in 0 .. counter - 1, NEW l, Call(c, l, j),
                     UNCHANGED <<counter, mine>>
              PROVE  <2>3
            BY <1>1, <3>6
        <3>7. CASE Await(c) \/ Cancel(c)
            BY <3>6, <3>7 DEF Await, Cancel, CancelLookup, storeVars
        <3> QED
            BY <1>4, <3>1, <3>2, <3>3, <3>4, <3>5, <3>7 DEF SessionStep, ClientStep
    <2>4. Places'
        BY <2>1, <2>2 DEF Places
    <2>5. GivenOut'
        <3>1. ASSUME NEW d \in Sessions \ {c}, NEW j \in mine'[d] PROVE j < counter'
            <4>1. j < counter /\ j \in Nat
                BY <1>1, <2>1, <3>1 DEF GivenOut
            <4> QED
                BY <1>1, <4>1
        <3>2. ASSUME NEW d \in Sessions \ {c},
                     pc'[d] \notin {"idle", "reserve", "insert", "next"}
              PROVE  arg'[d] < counter'
            <4>1. arg'[d] < counter /\ arg'[d] \in Nat
                BY <2>1, <3>2, JobStoreAssumption DEF GivenOut
            <4> QED
                BY <1>1, <4>1
        <3> QED
            BY <1>2, <2>3, <3>1, <3>2 DEF GivenOut
    <2> QED
        BY <2>4, <2>5
<1>5. CASE UNCHANGED vars
    BY <1>5 DEF Places, GivenOut, vars, storeVars, sessionVars
<1> QED
    BY <1>3, <1>4, <1>5 DEF Next

\* Only Insert gives a connection a new id, the one nobody was given before;
\* Launch turns the id it starts into one it remembers; nothing else changes
\* the ids of a connection but a launch that fails.
LEMMA OwnsSteps ==
    ASSUME StoreInv, Places, GivenOut, NEW c \in Sessions,
           SessionStep(c) \/ ClientStep(c) \/ EndSession(c), NEW j \in Ids
    PROVE  /\ Owns(c, j)' => Owns(c, j) \/ (Insert(c) /\ j = counter)
           /\ Owns(c, j) => Owns(c, j)' \/ (LaunchFails(c) /\ j \notin stored')
           /\ j \in mine[c] => j \in mine'[c]
           /\ worker'[j] # "none" => worker[j] # "none" \/ j \in mine'[c]
<1> USE DEF StoreInv, Shape, Owns, At, Jump, Call, Ready
<1>1. CASE Insert(c)
    BY <1>1 DEF Insert, workerVars
<1>2. CASE Launch(c)
    BY <1>2 DEF Launch, Goto
<1>3. CASE LaunchFails(c)
    BY <1>3 DEF LaunchFails, workerVars
<1>4. CASE \/ Reserve(c) \/ AwaitRead(c) \/ AwaitTimeout(c)
           \/ Reply(c) \/ CancelFlip(c) \/ CancelCommit(c) \/ CancelResolve(c)
    BY <1>4 DEF Reserve, AwaitRead, AwaitTimeout, Reply, CancelFlip, CancelCommit,
               CancelResolve, AfterCancel, workerVars
<1>5. CASE DrainNext(c) \/ Evict(c) \/ Close(c) \/ EndSession(c)
    BY <1>5 DEF DrainNext, CancelLookup, Undrained, Evict, Close, EndSession, workerVars
<1>6. CASE ClientStep(c)
    BY <1>6 DEF ClientStep, Submit, Await, Cancel, CancelLookup, HangUp, workerVars
<1> QED
    BY <1>1, <1>2, <1>3, <1>4, <1>5, <1>6 DEF SessionStep

LEMMA OwnedSteps ==
    ASSUME StoreInv, Places, GivenOut, Owned, DrainedBelow, [Next]_vars
    PROVE  Owned'
<1> USE DEF StoreInv, Shape
<1>1. Ids \subseteq Nat /\ counter \in Nat
    BY IdsFacts, JobStoreAssumption
<1>2. ASSUME NEW j \in Ids, WorkerStep(j) PROVE Owned'
    BY <1>2, OneWorker DEF Owned, Owns, sessionVars
<1>3. ASSUME NEW c \in Sessions, SessionStep(c) \/ ClientStep(c) \/ EndSession(c)
      PROVE  Owned'
    <2>1. \A d \in Sessions \ {c} : \A j : (Owns(d, j)' <=> Owns(d, j)) /\ conn'[d] = conn[d]
                                          /\ mine'[d] = mine[d]
        BY <1>3, OneSession DEF Owns
    <2>2. \A d \in Sessions : ~ Owns(d, counter)
        <3> SUFFICES ASSUME NEW d \in Sessions, Owns(d, counter) PROVE FALSE
            OBVIOUS
        <3>1. counter < counter
            BY DEF Owns, GivenOut
        <3> QED
            BY <1>1, <3>1
    <2>3. ASSUME NEW d \in Sessions, NEW e \in Sessions, NEW j \in Ids,
                 Owns(d, j)', Owns(e, j)'
          PROVE  d = e
        <3>1. ASSUME NEW f \in Sessions, Owns(f, j)'
              PROVE  Owns(f, j) \/ (f = c /\ j = counter)
            BY <1>3, <2>1, <3>1, OwnsSteps
        <3>2. CASE j = counter
            BY <2>2, <2>3, <3>1, <3>2
        <3>3. CASE j # counter
            BY <2>3, <3>1, <3>3 DEF Owned
        <3> QED
            BY <3>2, <3>3
    <2>4. ASSUME NEW j \in stored'
          PROVE  \E d \in Sessions : conn'[d] # "closed" /\ Owns(d, j)'
        <3>1. j \in Ids
            BY TypedSteps DEF Typed
        <3>2. CASE j \notin stored
            <4>1. PICK d \in Sessions : Insert(d) /\ arg[d] = j /\ pc'[d] = "launch"
                BY <2>4, <3>2, StoreGrows
            <4>2. conn'[d] = conn[d] /\ arg'[d] = arg[d] /\ conn[d] # "closed"
                BY <4>1 DEF Insert, Places, At
            <4> QED
                BY <4>1, <4>2 DEF Owns
        <3>3. CASE j \in stored
            <4>1. PICK d \in Sessions : conn[d] # "closed" /\ Owns(d, j)
                BY <3>3 DEF Owned
            <4>2. CASE d # c
                BY <2>1, <4>1, <4>2
            <4>3. CASE d = c
                <5>1. Owns(c, j)'
                    BY <1>3, <2>4, <3>1, <4>1, <4>3, OwnsSteps
                <5>2. conn'[c] # "closed"
                    <6>1. CASE Close(c)
                        <7>1. pc[c] = "next" /\ conn[c] = "closing" /\ Undrained(c) = {}
                            BY <6>1 DEF Close, At, Places
                        <7>2. j \in mine[c] /\ arg[c] \in Nat
                            BY <4>1, <4>3, <7>1, JobStoreAssumption DEF Owns
                        <7>3. j < arg[c]
                            BY <1>1, <3>1, <7>1, <7>2 DEF Undrained
                        <7> QED
                            BY <3>3, <7>1, <7>2, <7>3 DEF DrainedBelow
                    <6>2. CASE ~ Close(c)
                        BY <1>3, <4>1, <4>3, <6>2
                           DEF SessionStep, ClientStep, EndSession, Reserve, Insert,
                               Launch, LaunchFails, AwaitRead, AwaitTimeout, CancelFlip,
                               CancelCommit, CancelResolve, Reply, DrainNext, Evict,
                               Submit, Await, Cancel, HangUp, sessionVars
                    <6> QED
                        BY <6>1, <6>2
                <5> QED
                    BY <5>1, <5>2
            <4> QED
                BY <4>2, <4>3
        <3> QED
            BY <3>2, <3>3
    <2>5. ASSUME NEW j \in Ids, worker'[j] # "none"
          PROVE  \E d \in Sessions : j \in mine'[d]
        <3>1. CASE worker[j] # "none"
            <4>1. PICK d \in Sessions : j \in mine[d]
                BY <3>1 DEF Owned
            <4>2. j \in mine'[d]
                BY <1>3, <2>1, <4>1, OwnsSteps
            <4> QED
                BY <4>2
        <3>2. CASE worker[j] = "none"
            BY <1>3, <2>5, <3>2, OwnsSteps
        <3> QED
            BY <3>1, <3>2
    <2> QED
        BY <2>3, <2>4, <2>5 DEF Owned
<1>4. CASE UNCHANGED vars
    BY <1>4 DEF Owned, Owns, vars, storeVars, sessionVars, workerVars
<1> QED
    BY <1>2, <1>3, <1>4 DEF Next

\* The cursor of endSession passes an id only when its entry is evicted.
LEMMA DrainedSteps ==
    ASSUME StoreInv, Places, GivenOut, DrainedBelow, [Next]_vars
    PROVE  DrainedBelow'
<1> USE DEF StoreInv, Shape
<1>1. Ids \subseteq Nat /\ counter \in Nat
    BY IdsFacts, JobStoreAssumption
<1>2. ASSUME NEW j, j < counter, j \notin stored PROVE j \notin stored'
    BY <1>1, <1>2, StoreGrows
<1>3. ASSUME NEW j \in Ids, WorkerStep(j) PROVE DrainedBelow'
    BY <1>3, OneWorker DEF DrainedBelow, sessionVars
<1>4. ASSUME NEW c \in Sessions, SessionStep(c) \/ ClientStep(c) \/ EndSession(c)
      PROVE  DrainedBelow'
    <2>1. ASSUME NEW d \in Sessions \ {c}, conn'[d] = "closing",
                 NEW j \in mine'[d], j < arg'[d]
          PROVE  j \notin stored'
        <3>1. j \notin stored /\ j < counter
            BY <1>4, <2>1, OneSession DEF DrainedBelow, GivenOut
        <3> QED
            BY <1>2, <3>1
    <2>2. ASSUME conn'[c] = "closing", NEW j \in mine'[c], j < arg'[c]
          PROVE  j \notin stored'
        <3> USE DEF At, Jump, Call, Ready
        <3>1. CASE EndSession(c)
            BY <1>1, <2>2, <3>1 DEF EndSession
        <3>2. CASE DrainNext(c)
            <4>1. PICK i \in Undrained(c) :
                      /\ \A k \in Undrained(c) : i <= k
                      /\ arg' = [arg EXCEPT ![c] = i]
                BY <3>2 DEF DrainNext, CancelLookup
            <4>2. j \in mine[c] /\ j \in Nat /\ arg[c] \in Nat /\ i \in Nat /\ j < i
                BY <1>1, <2>2, <3>2, <4>1, JobStoreAssumption DEF DrainNext, Undrained
            <4>3. j < arg[c]
                BY <4>1, <4>2 DEF Undrained
            <4>4. j \notin stored /\ j < counter
                BY <2>2, <3>2, <4>2, <4>3 DEF DrainNext, DrainedBelow, GivenOut
            <4> QED
                BY <1>2, <4>4
        <3>3. CASE Evict(c)
            <4>1. /\ arg'[c] = arg[c] + 1 /\ stored' = stored \ {arg[c]}
                  /\ conn[c] = "closing" /\ j \in mine[c]
                BY <2>2, <3>3 DEF Evict
            <4>2. j \in Nat /\ arg[c] \in Nat
                BY <1>1, <4>1, JobStoreAssumption
            <4>3. j = arg[c] \/ j < arg[c]
                BY <2>2, <4>1, <4>2
            <4> QED
                BY <4>1, <4>3 DEF DrainedBelow
        <3>4. CASE CancelFlip(c) \/ CancelCommit(c) \/ CancelResolve(c)
            <4>1. conn[c] = "closing" /\ j \in mine[c] /\ j < arg[c] /\ stored' = stored
                BY <2>2, <3>4 DEF CancelFlip, CancelCommit, CancelResolve, storeVars
            <4> QED
                BY <4>1 DEF DrainedBelow
        <3>5. CASE Close(c)
            BY <2>2, <3>5 DEF Close
        <3>6. CASE \/ Reserve(c) \/ Insert(c) \/ Launch(c) \/ LaunchFails(c)
                   \/ AwaitRead(c) \/ AwaitTimeout(c) \/ Reply(c) \/ ClientStep(c)
            BY <2>2, <3>6
               DEF Reserve, Insert, Launch, LaunchFails, AwaitRead, AwaitTimeout, Reply,
                   ClientStep, Submit, Await, Cancel, HangUp, Places
        <3> QED
            BY <1>4, <3>1, <3>2, <3>3, <3>4, <3>5, <3>6 DEF SessionStep
    <2> QED
        BY <2>1, <2>2 DEF DrainedBelow
<1>5. CASE UNCHANGED vars
    BY <1>5 DEF DrainedBelow, vars, storeVars, sessionVars
<1> QED
    BY <1>3, <1>4, <1>5 DEF Next

\* A promise is resolved, or about to be, only for a terminal entry.
LEMMA DeadWhenTold ==
    ASSUME StoreInv, OneDebt, NEW c \in Sessions, arg[c] \in Ids,
           resolved[arg[c]] \/ pc[c] = "resolve"
    PROVE  ~ Live(arg[c])
BY DEF OneDebt, Debt, Owes, StoreInv, WireIsTerminal, Live

\* The answers of await_job and cancel_job are given for dead ids.
LEMMA KnownDeadSteps ==
    ASSUME StoreInv, Places, GivenOut, OneDebt, KnownDead, [Next]_vars
    PROVE  KnownDead'
<1> USE DEF StoreInv, Shape
<1>1. ASSUME NEW d \in Sessions, pc[d] \in {"status", "report", "evict"},
             pc'[d] = pc[d], arg'[d] = arg[d]
      PROVE  ~ Live(arg[d])'
    <2>1. arg[d] \in Ids /\ arg[d] < counter /\ ~ Live(arg[d])
        BY <1>1 DEF ArgInRange, GivenOut, KnownDead
    <2> DEFINE i == arg[d]
    <2>2. ASSUME NEW k \in Ids, k < counter, ~ Live(k) PROVE k \notin stored' \/ IsTerminal(phase'[k])
        BY <2>2, DeadStaysDead DEF Live
    <2> QED
        BY <1>1, <2>1, <2>2 DEF Live
<1>2. ASSUME NEW j \in Ids, WorkerStep(j) PROVE KnownDead'
    BY <1>1, <1>2, OneWorker DEF KnownDead, sessionVars
<1>3. ASSUME NEW c \in Sessions, SessionStep(c) \/ ClientStep(c) \/ EndSession(c)
      PROVE  KnownDead'
    <2>1. ASSUME NEW d \in Sessions \ {c}, pc'[d] \in {"status", "report", "evict"}
          PROVE  ~ Live(arg[d])'
        BY <1>1, <1>3, <2>1, OneSession
    <2>2. ASSUME pc'[c] \in {"status", "report", "evict"}
          PROVE  ~ Live(arg[c])'
        <3> USE DEF At, Jump, Call, Ready
        <3>1. CASE Await(c) \/ Cancel(c) \/ DrainNext(c)
            BY <2>2, <3>1 DEF Await, Cancel, DrainNext, CancelLookup, Live, storeVars
        <3>2. CASE AwaitRead(c)
            BY <2>2, <3>2, DeadWhenTold DEF AwaitRead, Live, storeVars, ArgInRange
        <3>3. CASE CancelResolve(c)
            BY <2>2, <3>3, DeadWhenTold DEF CancelResolve, Live, ArgInRange
        <3>4. CASE CancelCommit(c)
            BY <2>2, <3>4 DEF CancelCommit, Live, Settle
        <3>5. CASE HangUp(c)
            BY <1>1, <2>2, <3>5 DEF HangUp
        <3>6. CASE \/ Reserve(c) \/ Insert(c) \/ Launch(c) \/ LaunchFails(c)
                   \/ AwaitTimeout(c) \/ Reply(c) \/ CancelFlip(c) \/ Evict(c)
                   \/ Close(c) \/ Submit(c) \/ EndSession(c)
            BY <2>2, <3>6
               DEF Reserve, Insert, Launch, LaunchFails, AwaitTimeout, Reply, CancelFlip,
                   Evict, Close, Submit, EndSession
        <3> QED
            BY <1>3, <3>1, <3>2, <3>3, <3>4, <3>5, <3>6 DEF SessionStep, ClientStep
    <2> QED
        BY <2>1, <2>2 DEF KnownDead
<1>4. CASE UNCHANGED vars
    BY <1>4 DEF KnownDead, Live, vars, storeVars, sessionVars
<1> QED
    BY <1>2, <1>3, <1>4 DEF Next

LEMMA FlippedSteps ==
    ASSUME StoreInv, FlippedFirst, [Next]_vars
    PROVE  FlippedFirst'
<1> USE DEF StoreInv, Shape, FlippedFirst
<1>1. ASSUME NEW j \in Ids, WorkerStep(j) PROVE FlippedFirst'
    <2>1. \A i \in Ids : phase'[i] = "cancelled" => phase[i] = "cancelled"
        <3>1. CASE Publish(j)
            <4>1. PhaseOf(result[j]) # "cancelled"
                BY <3>1, JobStoreAssumption DEF Publish, ResultReady, PhaseOf
            <4> QED
                BY <3>1, <4>1 DEF Publish, Settle
        <3>2. CASE PickUp(j)
            BY <3>2 DEF PickUp
        <3> QED
            BY <1>1, <3>1, <3>2 DEF WorkerStep, AcquireSlot, CheckCancelled, BodyReturns,
               PublishRefused, WorkerResolve, ReleaseSlot, storeVars
    <2> QED
        BY <1>1, <2>1, OneWorker DEF sessionVars
<1>2. ASSUME NEW c \in Sessions, SessionStep(c) \/ ClientStep(c) \/ EndSession(c)
      PROVE  FlippedFirst'
    <2>1. \A i \in Ids : cancelled[i] => cancelled'[i]
        BY <1>2 DEF SessionStep, ClientStep, EndSession, Reserve, Insert, Launch,
           LaunchFails, AwaitRead, AwaitTimeout, CancelFlip, CancelCommit, CancelResolve,
           Reply, DrainNext, Evict, Close, Submit, Await, Cancel, HangUp
    <2>2. \A i \in Ids : phase'[i] = "cancelled" =>
              phase[i] = "cancelled" \/ (CancelCommit(c) /\ i = arg[c])
        BY <1>2 DEF SessionStep, ClientStep, EndSession, Reserve, Insert, Launch,
           LaunchFails, AwaitRead, AwaitTimeout, CancelFlip, CancelCommit, CancelResolve,
           Reply, DrainNext, Evict, Close, Submit, Await, Cancel, HangUp, storeVars, Settle
    <2>3. pc'[c] = "commit" => cancelled'[arg'[c]]
        <3> USE DEF At, Jump, Call, Ready
        <3>1. CASE CancelFlip(c)
            BY <3>1 DEF CancelFlip, ArgInRange
        <3>2. CASE HangUp(c)
            BY <3>2 DEF HangUp
        <3>3. CASE ~ CancelFlip(c) /\ ~ HangUp(c)
            BY <1>2, <3>3 DEF SessionStep, ClientStep, EndSession, Reserve, Insert, Launch,
               LaunchFails, AwaitRead, AwaitTimeout, CancelCommit, CancelResolve,
               AfterCancel, Reply, DrainNext, CancelLookup, Evict, Close, Submit, Await,
               Cancel
        <3> QED
            BY <3>1, <3>2, <3>3
    <2>4. \A d \in Sessions \ {c} : pc'[d] = "commit" => cancelled'[arg'[d]]
        BY <1>2, <2>1, OneSession DEF ArgInRange
    <2> QED
        BY <2>1, <2>2, <2>3, <2>4 DEF CancelCommit, At
<1>3. CASE UNCHANGED vars
    BY <1>3 DEF vars, storeVars, sessionVars
<1> QED
    BY <1>1, <1>2, <1>3 DEF Next

\* A live entry has no outcome yet, and what is published is one.
LEMMA PublishesOutcome ==
    ASSUME StoreInv, NEW j \in Ids, NEW o \in Outcomes, Settle(j, o), Live(j)
    PROVE  wire[j] = "none" /\ wire' = [wire EXCEPT ![j] = o] /\ o # "none"
BY JobStoreAssumption DEF StoreInv, WireIsTerminal, Live, Settle, Outcomes

\* Whoever makes an entry terminal takes the debt over, and pays it once.
LEMMA DebtSteps ==
    ASSUME StoreInv, OneDebt, [Next]_vars
    PROVE  OneDebt'
<1> USE DEF StoreInv, Shape
<1>1. ASSUME NEW j \in Ids, WorkerStep(j) PROVE OneDebt'
    <2>1. \A c \in Sessions, i \in Ids : Owes(c, i)' <=> Owes(c, i)
        BY <1>1, OneWorker DEF Owes, sessionVars
    <2>2. \A i \in Ids \ {j} : worker'[i] = worker[i]
        BY <1>1, OneWorker
    <2>3. CASE Publish(j) /\ Live(j)
        <3>1. result[j] \in Outcomes /\ Settle(j, result[j])
            BY <2>3 DEF Publish, ResultReady, Outcomes
        <3>2. wire[j] = "none" /\ wire' = [wire EXCEPT ![j] = result[j]] /\ result[j] # "none"
            BY <2>3, <3>1, PublishesOutcome
        <3>3. worker'[j] = "resolve" /\ resolved' = resolved
            BY <2>3 DEF Publish, Goto
        <3> QED
            BY <2>1, <2>2, <3>2, <3>3 DEF OneDebt, Debt
    <2>4. CASE WorkerResolve(j)
        <3>1. worker[j] = "resolve" /\ worker'[j] = "settle" /\ wire' = wire
              /\ resolved' = [resolved EXCEPT ![j] = TRUE]
            BY <2>4 DEF WorkerResolve, Resolve, Goto
        <3> QED
            BY <2>1, <2>2, <3>1 DEF OneDebt, Debt
    <2>5. CASE ~ (Publish(j) /\ Live(j)) /\ ~ WorkerResolve(j)
        <3>1. UNCHANGED <<wire, resolved>> /\ worker[j] # "resolve" /\ worker'[j] # "resolve"
            BY <1>1, <2>5
               DEF WorkerStep, AcquireSlot, PickUp, CheckCancelled, BodyReturns, Publish,
                   PublishRefused, ReleaseSlot, Settle, Goto, storeVars
        <3> QED
            BY <2>1, <2>2, <3>1 DEF OneDebt, Debt
    <2> QED
        BY <2>3, <2>4, <2>5
<1>2. ASSUME NEW c \in Sessions, SessionStep(c) \/ ClientStep(c) \/ EndSession(c)
      PROVE  OneDebt'
    <2>1. \A d \in Sessions \ {c}, i \in Ids : Owes(d, i)' <=> Owes(d, i)
        BY <1>2, OneSession DEF Owes
    <2>2. \A i \in Ids : worker'[i] = "resolve" <=> worker[i] = "resolve"
        <3>1. CASE Launch(c)
            BY <3>1 DEF Launch, Goto, ThreadsOfGivenIds, At, ArgInRange
        <3>2. CASE ~ Launch(c)
            BY <1>2, <3>2
               DEF SessionStep, ClientStep, EndSession, Reserve, Insert, LaunchFails,
                   AwaitRead, AwaitTimeout, CancelFlip, CancelCommit, CancelResolve, Reply,
                   DrainNext, Evict, Close, Submit, Await, Cancel, HangUp, workerVars
        <3> QED
            BY <3>1, <3>2
    <2>3. CASE CancelCommit(c) /\ Live(arg[c])
        <3>1. arg[c] \in Ids /\ "cancelled" \in Outcomes /\ Settle(arg[c], "cancelled")
            BY <2>3 DEF CancelCommit, At, ArgInRange, Outcomes
        <3>2. wire[arg[c]] = "none" /\ wire' = [wire EXCEPT ![arg[c]] = "cancelled"]
            BY <2>3, <3>1, PublishesOutcome
        <3>3. /\ pc[c] = "commit" /\ pc'[c] = "resolve" /\ arg'[c] = arg[c]
              /\ resolved' = resolved
            BY <2>3 DEF CancelCommit, Jump, At
        <3>4. \A i \in Ids : /\ Owes(c, i)' <=> i = arg[c]
                             /\ ~ Owes(c, i)
            BY <3>3 DEF Owes
        <3> QED
            <4> SUFFICES ASSUME NEW i \in Ids PROVE Debt(i)'
                BY DEF OneDebt
            <4>1. Debt(i)
                BY DEF OneDebt
            <4>2. CASE i = arg[c]
                <5>1. Owes(c, i)' /\ wire'[i] # "none" /\ wire[i] = "none"
                    BY <3>1, <3>2, <3>4, <4>2, JobStoreAssumption
                <5>2. /\ ~ resolved'[i] /\ worker'[i] # "resolve"
                      /\ \A d \in Sessions \ {c} : ~ Owes(d, i)'
                    BY <2>1, <2>2, <3>3, <4>1, <5>1 DEF Debt
                <5> QED
                    BY <5>1, <5>2 DEF Debt
            <4>3. CASE i # arg[c]
                <5>1. wire'[i] = wire[i] /\ (Owes(c, i)' <=> Owes(c, i))
                    BY <3>1, <3>2, <3>4, <4>3
                <5>2. \A d \in Sessions : Owes(d, i)' <=> Owes(d, i)
                    BY <2>1, <5>1
                <5> QED
                    BY <2>2, <3>3, <4>1, <5>1, <5>2 DEF Debt
            <4> QED
                BY <4>2, <4>3
    <2>4. CASE CancelResolve(c)
        <3>1. /\ pc[c] = "resolve" /\ pc'[c] # "resolve" /\ wire' = wire
              /\ arg[c] \in Ids /\ resolved' = [resolved EXCEPT ![arg[c]] = TRUE]
            BY <2>4 DEF CancelResolve, Resolve, Jump, At, AfterCancel, ArgInRange
        <3>2. \A i \in Ids : /\ Owes(c, i) <=> i = arg[c]
                             /\ ~ Owes(c, i)'
            BY <3>1 DEF Owes
        <3> QED
            <4> SUFFICES ASSUME NEW i \in Ids PROVE Debt(i)'
                BY DEF OneDebt
            <4>1. Debt(i)
                BY DEF OneDebt
            <4>2. CASE i = arg[c]
                <5>1. ~ Owes(c, i)' /\ resolved'[i] /\ wire'[i] = wire[i] /\ Owes(c, i)
                    BY <3>1, <3>2, <4>2
                <5>2. /\ wire[i] # "none" /\ worker'[i] # "resolve"
                      /\ \A d \in Sessions \ {c} : ~ Owes(d, i)'
                    BY <2>1, <2>2, <4>1, <5>1 DEF Debt
                <5> QED
                    BY <5>1, <5>2 DEF Debt
            <4>3. CASE i # arg[c]
                <5>1. resolved'[i] = resolved[i] /\ (Owes(c, i)' <=> Owes(c, i))
                    BY <3>1, <3>2, <4>3
                <5>2. \A d \in Sessions : Owes(d, i)' <=> Owes(d, i)
                    BY <2>1, <5>1
                <5> QED
                    BY <2>2, <3>1, <4>1, <5>1, <5>2 DEF Debt
            <4> QED
                BY <4>2, <4>3
    <2>5. CASE ~ (CancelCommit(c) /\ Live(arg[c])) /\ ~ CancelResolve(c)
        <3>1. UNCHANGED <<wire, resolved>>
            BY <1>2, <2>5
               DEF SessionStep, ClientStep, EndSession, Reserve, Insert, Launch, LaunchFails,
                   AwaitRead, AwaitTimeout, CancelFlip, CancelCommit, Settle, Reply,
                   DrainNext, Evict, Close, Submit, Await, Cancel, HangUp, storeVars
        <3>2. \/ pc[c] # "resolve" /\ pc'[c] # "resolve"
              \/ pc'[c] = pc[c] /\ arg'[c] = arg[c]
            BY <1>2, <2>5
               DEF SessionStep, ClientStep, EndSession, Reserve, Insert, Launch, LaunchFails,
                   AwaitRead, AwaitTimeout, CancelFlip, CancelCommit, AfterCancel, Reply,
                   DrainNext, CancelLookup, Evict, Close, Submit, Await, Cancel, HangUp,
                   At, Jump, Call, Ready
        <3>3. \A i \in Ids : Owes(c, i)' <=> Owes(c, i)
            BY <3>2 DEF Owes
        <3> QED
            <4> SUFFICES ASSUME NEW i \in Ids PROVE Debt(i)'
                BY DEF OneDebt
            <4>1. Debt(i)
                BY DEF OneDebt
            <4>2. \A d \in Sessions : Owes(d, i)' <=> Owes(d, i)
                BY <2>1, <3>3
            <4> QED
                BY <2>2, <3>1, <4>1, <4>2 DEF Debt
    <2> QED
        BY <2>3, <2>4, <2>5
<1>3. CASE UNCHANGED vars
    BY <1>3 DEF OneDebt, Debt, Owes, vars, storeVars, workerVars, sessionVars
<1> QED
    BY <1>1, <1>2, <1>3 DEF Next

\* A live entry keeps its thread until the thread makes it terminal.
LEMMA WorkerSteps ==
    ASSUME StoreInv, LiveHasWorker, [Next]_vars
    PROVE  LiveHasWorker'
<1> USE DEF StoreInv, Shape
<1> DEFINE Ends(i) == worker[i] \in {"waiting", "pickup", "check", "body", "publish"}
           Starts(c, i) == pc[c] = "launch" /\ arg[c] = i
<1>1. \A i \in Ids : Live(i) => Ends(i) \/ \E c \in Sessions : Starts(c, i)
    BY DEF LiveHasWorker, LiveIds, Live
<1>2. SUFFICES ASSUME NEW i \in Ids, Live(i)'
               PROVE  Ends(i)' \/ \E c \in Sessions : Starts(c, i)'
    <2>1. stored' \subseteq Ids
        BY TypedSteps DEF Typed
    <2> QED
        BY <1>2, <2>1 DEF LiveHasWorker, LiveIds, Live
<1>3. CASE ~ Live(i)
    <2>1. i \notin stored /\ i \in stored'
        BY <1>2, <1>3, PhaseSteps DEF Typed, Live
    <2>2. PICK c \in Sessions : Insert(c) /\ arg[c] = i /\ pc'[c] = "launch"
        BY <2>1, StoreGrows
    <2> QED
        BY <2>2 DEF Insert
<1>4. CASE Live(i)
    <2>1. CASE UNCHANGED vars
        BY <1>1, <1>4, <2>1 DEF vars, workerVars, sessionVars
    <2>2. ASSUME NEW j \in Ids, WorkerStep(j)
          PROVE  Ends(i)' \/ \E c \in Sessions : Starts(c, i)'
        <3>1. UNCHANGED <<pc, arg, stored>> /\ \A k \in Ids \ {j} : worker'[k] = worker[k]
            BY <2>2, OneWorker DEF sessionVars
        <3>2. CASE i = j /\ Ends(i)
            <4>1. phase'[i] = phase[i] \/ ~ Publish(j)
                BY <1>2, <1>4, <3>1, <3>2 DEF Publish, Settle, Live, PhaseOf, IsTerminal, ResultReady
            <4> QED
                BY <1>2, <1>4, <2>2, <3>1, <3>2
                   DEF WorkerStep, AcquireSlot, PickUp, CheckCancelled, BodyReturns,
                       Publish, PublishRefused, WorkerResolve, ReleaseSlot, Goto, Settle,
                       Live, PhaseOf, IsTerminal, ResultReady
        <3> QED
            BY <1>1, <1>4, <3>1, <3>2
    <2>3. ASSUME NEW c \in Sessions, SessionStep(c) \/ ClientStep(c) \/ EndSession(c)
          PROVE  Ends(i)' \/ \E d \in Sessions : Starts(d, i)'
        <3>1. \A d \in Sessions \ {c} : pc'[d] = pc[d] /\ arg'[d] = arg[d]
            BY <2>3, OneSession
        <3>2. CASE Launch(c)
            BY <1>1, <1>4, <3>1, <3>2 DEF Launch, Goto, At, ArgInRange
        <3>3. CASE ~ Launch(c)
            <4>1. worker' = worker
                BY <2>3, <3>3
                   DEF SessionStep, ClientStep, EndSession, Reserve, Insert, LaunchFails,
                       AwaitRead, AwaitTimeout, CancelFlip, CancelCommit, CancelResolve,
                       Reply, DrainNext, Evict, Close, Submit, Await, Cancel, HangUp,
                       workerVars
            <4>2. Starts(c, i) => Starts(c, i)'
                BY <1>2, <2>3, <3>3
                   DEF SessionStep, ClientStep, EndSession, Reserve, Insert, LaunchFails,
                       AwaitRead, AwaitTimeout, CancelFlip, CancelCommit, CancelResolve,
                       Reply, DrainNext, Evict, Close, Submit, Await, Cancel, HangUp,
                       At, Jump, Call, Ready, Live
            <4> QED
                BY <1>1, <1>4, <3>1, <4>1, <4>2
        <3> QED
            BY <3>2, <3>3
    <2> QED
        BY <2>1, <2>2, <2>3 DEF Next
<1> QED
    BY <1>3, <1>4

-----------------------------------------------------------------------------
(* What follows *)

LEMMA AnswerInvariant == Spec => [](StoreInv /\ AnswerInv)
<1>1. Init => AnswerInv
    BY AnswerStarts
<1>2. StoreInv /\ AnswerInv /\ [Next]_vars => AnswerInv'
    BY TerminalSteps, PlacesSteps, OwnedSteps, DrainedSteps, KnownDeadSteps, FlippedSteps,
       DebtSteps, WorkerSteps
       DEF AnswerInv
<1> QED
    BY <1>1, <1>2, StoreInvariant, PTL DEF Spec

\* The threads that owe a promise its resolution, counted.
LEMMA DebtCounted ==
    ASSUME NEW j \in Ids, Debt(j)
    PROVE  Cardinality(Resolvers(j)) + (IF resolved[j] THEN 1 ELSE 0)
               = (IF wire[j] # "none" THEN 1 ELSE 0)
<1>1. \A r : r \in Resolvers(j) <=>
          \/ r = <<"worker", j>> /\ worker[j] = "resolve"
          \/ \E c \in Sessions : r = <<"session", c>> /\ Owes(c, j)
    BY DEF Resolvers, Owes
<1>2. CASE wire[j] = "none" \/ resolved[j]
    <2>1. Resolvers(j) = {}
        BY <1>1, <1>2 DEF Debt
    <2>2. wire[j] # "none" <=> resolved[j]
        BY <1>2 DEF Debt
    <2> QED
        BY <2>1, <2>2, FS_EmptySet
<1>3. CASE wire[j] # "none" /\ ~ resolved[j]
    <2>1. \E r : Resolvers(j) = {r}
        <3> HIDE DEF Resolvers
        <3>1. CASE worker[j] = "resolve"
            <4>1. \A r : r \in Resolvers(j) <=> r = <<"worker", j>>
                BY <1>1, <3>1 DEF Debt
            <4>2. Resolvers(j) = {<<"worker", j>>}
                BY <4>1
            <4> QED
                BY <4>2
        <3>2. CASE worker[j] # "resolve"
            <4>1. PICK c \in Sessions : Owes(c, j)
                BY <1>3, <3>2 DEF Debt
            <4>2. \A d \in Sessions : Owes(d, j) <=> d = c
                BY <4>1 DEF Debt
            <4>3. \A r : r \in Resolvers(j) <=> r = <<"session", c>>
                BY <1>1, <3>2, <4>1, <4>2
            <4>4. Resolvers(j) = {<<"session", c>>}
                BY <4>3
            <4> QED
                BY <4>4
        <3> QED
            BY <3>1, <3>2
    <2>2. Cardinality(Resolvers(j)) = 1
        BY <2>1, FS_Singleton
    <2> QED
        BY <1>3, <2>2
<1> QED
    BY <1>2, <1>3

\* No job is stranded and no awaiting connection forgotten, whichever of
\* completion, any number of cancellations, eviction and failed launches race:
\* a live entry has a thread that will end it, and an ended one has exactly one
\* thread that resolves its promise, or a resolved promise (runJobBody,
\* cancelJob, applyEvent).
THEOREM JobsAnswered == Spec => []EveryJobAnswered
<1>1. StoreInv /\ AnswerInv => EveryJobAnswered
    BY DebtCounted DEF AnswerInv, OneDebt, EveryJobAnswered, PromiseAccounted
<1> QED
    BY <1>1, AnswerInvariant, PTL

\* await_job without a timeout and cancel_job never answer "pending" or
\* "running": what they found dead stays dead until they report it.
THEOREM AnswersSettled == Spec => []SettledAnswers
<1>1. StoreInv /\ AnswerInv => SettledAnswers
    <2> SUFFICES ASSUME StoreInv, AnswerInv, NEW c \in Sessions,
                        pc[c] \in {"status", "report"}
                 PROVE  Answer(arg[c]) \notin {"pending", "running"}
        BY DEF SettledAnswers
    <2>1. ~ Live(arg[c])
        BY DEF AnswerInv, KnownDead
    <2> QED
        BY <2>1 DEF Answer, Live, IsTerminal
<1> QED
    BY <1>1, AnswerInvariant, PTL

\* When endSession has returned nothing the connection submitted is stored,
\* and every stored entry has a connection that will evict it.
THEOREM ClosedOwnNothing == Spec => []ClosedOwnsNothing
<1>1. AnswerInv => ClosedOwnsNothing
    BY DEF AnswerInv, Owned, Owns, ClosedOwnsNothing
<1> QED
    BY <1>1, AnswerInvariant, PTL

\* A cancellation commits only after it flipped the token, and the worker
\* reads the token after it committed to running: no body is entered for a job
\* reported cancelled (cancelJob, runJobBody).
THEOREM CancelledNeverEntered == Spec => NoBodyAfterCancel
<1>1. StoreInv /\ AnswerInv /\ [Next]_vars =>
        [\A j \in Ids : worker[j] # "body" /\ worker'[j] = "body"
            => phase[j] # "cancelled"]_worker
    <2> SUFFICES ASSUME StoreInv, AnswerInv, [Next]_vars, NEW j \in Ids,
                        worker[j] # "body", worker'[j] = "body"
                 PROVE  phase[j] # "cancelled"
        OBVIOUS
    <2> USE DEF StoreInv, Shape
    <2>1. ASSUME NEW i \in Ids, WorkerStep(i) PROVE ~ cancelled[j]
        <3>1. i = j
            BY <2>1, OneWorker
        <3>2. CheckCancelled(i)
            BY <2>1, <3>1 DEF WorkerStep, AcquireSlot, PickUp, BodyReturns, Publish,
               PublishRefused, WorkerResolve, ReleaseSlot, Goto
        <3> QED
            BY <3>1, <3>2 DEF CheckCancelled, Goto
    <2>2. ASSUME NEW c \in Sessions, SessionStep(c) \/ ClientStep(c) \/ EndSession(c)
          PROVE  FALSE
        BY <2>2 DEF SessionStep, ClientStep, EndSession, Reserve, Insert, Launch,
           LaunchFails, AwaitRead, AwaitTimeout, CancelFlip, CancelCommit, CancelResolve,
           Reply, DrainNext, Evict, Close, Submit, Await, Cancel, HangUp, workerVars, Goto
    <2>3. ~ cancelled[j]
        BY <2>1, <2>2 DEF Next, vars, workerVars
    <2> QED
        BY <2>3 DEF AnswerInv, FlippedFirst
<1> QED
    BY <1>1, AnswerInvariant, PTL DEF Spec, NoBodyAfterCancel

-----------------------------------------------------------------------------
(***************************************************************************)
(* Nobody waits for everybody                                              *)
(***************************************************************************)

\* The id a connection is about to start is in the table, and not in the list
\* of the connection yet.
AboutToStart ==
    \A c \in Sessions : pc[c] = "launch" => arg[c] \in stored \ mine[c]

\* A submission was taken back: it has no thread and no owner.
Withdrawn(j) ==
    LaunchMayFail /\ worker[j] = "none" /\ \A c \in Sessions : ~ Owns(c, j)

\* An entry leaves the table with an outcome or because its launch failed.
LeavesAnswered ==
    \A j \in Ids : j < counter /\ j \notin stored /\ wire[j] = "none" => Withdrawn(j)

LEMMA AboutToStartSteps ==
    ASSUME StoreInv, AnswerInv, AboutToStart, [Next]_vars
    PROVE  AboutToStart'
<1> USE DEF StoreInv, Shape
<1> SUFFICES ASSUME NEW c \in Sessions, pc'[c] = "launch"
             PROVE  arg'[c] \in stored' \ mine'[c]
    BY DEF AboutToStart
<1>1. ASSUME NEW j \in Ids, WorkerStep(j) PROVE arg'[c] \in stored' \ mine'[c]
    BY <1>1, OneWorker DEF AboutToStart, sessionVars
<1>2. ASSUME NEW d \in Sessions, SessionStep(d) \/ ClientStep(d) \/ EndSession(d)
      PROVE  arg'[c] \in stored' \ mine'[c]
    <2>1. CASE d # c
        <3>1. pc[c] = "launch" /\ arg'[c] = arg[c] /\ mine'[c] = mine[c]
            BY <1>2, <2>1, OneSession
        <3>2. arg[c] \in stored \ mine[c] /\ Owns(c, arg[c]) /\ arg[c] \in Ids
            BY <3>1 DEF AboutToStart, Owns, ArgInRange
        <3>3. arg[c] \in stored'
            <4>1. CASE Evict(d)
                <5>1. arg[d] \in mine[d]
                    BY <4>1 DEF Evict, At, AnswerInv, Places
                <5>2. arg[d] # arg[c]
                    BY <2>1, <3>2, <5>1 DEF AnswerInv, Owned, Owns
                <5> QED
                    BY <3>2, <4>1, <5>2 DEF Evict
            <4>2. CASE LaunchFails(d)
                <5>1. arg[d] # arg[c]
                    BY <2>1, <3>1, <4>2 DEF LaunchFails, At, ThreadsOfGivenIds
                <5> QED
                    BY <3>2, <4>2, <5>1 DEF LaunchFails
            <4>3. CASE ~ Evict(d) /\ ~ LaunchFails(d)
                <5>1. UNCHANGED stored \/ Insert(d)
                    BY <1>2, <4>3
                       DEF SessionStep, ClientStep, EndSession, Reserve, Launch, AwaitRead,
                           AwaitTimeout, CancelFlip, CancelCommit, CancelResolve, Reply,
                           DrainNext, Close, Submit, Await, Cancel, HangUp, storeVars
                <5> QED
                    BY <3>2, <5>1 DEF Insert
            <4> QED
                BY <4>1, <4>2, <4>3
        <3> QED
            BY <3>1, <3>2, <3>3
    <2>2. CASE d = c
        <3>1. Insert(c) \/ HangUp(c)
            BY <1>2, <2>2 DEF SessionStep, ClientStep, EndSession, Reserve, Launch,
               LaunchFails, AwaitRead, AwaitTimeout, CancelFlip, CancelCommit,
               AfterCancel, CancelResolve, Reply, DrainNext, Evict, Close, Submit, Await,
               Cancel, CancelLookup, At, Jump, Call, Ready
        <3>2. CASE Insert(c)
            <4>1. arg[c] = counter /\ arg[c] \in stored' /\ UNCHANGED <<arg, mine>>
                BY <3>2 DEF Insert, Jump
            <4>2. counter \notin mine[c]
                BY JobStoreAssumption DEF AnswerInv, GivenOut
            <4> QED
                BY <4>1, <4>2
        <3>3. CASE HangUp(c)
            BY <3>3 DEF HangUp, AboutToStart, storeVars
        <3> QED
            BY <3>1, <3>2, <3>3
    <2> QED
        BY <2>1, <2>2
<1>3. CASE UNCHANGED vars
    BY <1>3 DEF vars, storeVars, sessionVars, AboutToStart
<1> QED
    BY <1>1, <1>2, <1>3 DEF Next

LEMMA LeavesSteps ==
    ASSUME StoreInv, AnswerInv, AboutToStart, LeavesAnswered, [Next]_vars
    PROVE  LeavesAnswered'
<1> SUFFICES ASSUME NEW j \in Ids, j < counter', j \notin stored', wire'[j] = "none"
             PROVE  Withdrawn(j)'
    BY DEF LeavesAnswered
<1> USE DEF StoreInv, Shape
<1>1. wire[j] = "none"
    BY PhaseSteps DEF Typed
<1>2. CASE \E i \in Ids : WorkerStep(i)
    <2>1. PICK i \in Ids : WorkerStep(i)
        BY <1>2
    <2>2. UNCHANGED <<counter, stored, pc, arg, mine>>
        BY <2>1, OneWorker DEF sessionVars
    <2>3. Withdrawn(j)
        BY <1>1, <2>2 DEF LeavesAnswered
    <2>4. i # j
        BY <2>1, <2>3, OneWorker DEF Withdrawn
    <2> QED
        BY <2>1, <2>2, <2>3, <2>4, OneWorker DEF Withdrawn, Owns
<1>3. ASSUME NEW c \in Sessions, SessionStep(c) \/ ClientStep(c) \/ EndSession(c)
      PROVE  Withdrawn(j)'
    <2>1. CASE Insert(c)
        <3>1. j < counter /\ j \notin stored
            BY <2>1, JobStoreAssumption, IdsFacts DEF Insert
        <3>2. Withdrawn(j)
            BY <1>1, <3>1 DEF LeavesAnswered
        <3>3. arg[c] \in stored' \/ pc'[c] # "launch"
            BY <2>1 DEF Insert, Jump
        <3>4. \A d \in Sessions : ~ Owns(d, j)'
            BY <2>1, <3>2, <3>3 DEF Withdrawn, Owns, Insert, Jump
        <3>5. UNCHANGED worker
            BY <2>1 DEF Insert, workerVars
        <3> QED
            BY <3>2, <3>4, <3>5 DEF Withdrawn
    <2>2. CASE Evict(c)
        <3>1. j < counter /\ (j \notin stored \/ j = arg[c])
            BY <2>2 DEF Evict
        <3>2. j = arg[c] => ~ Live(j)
            BY <2>2 DEF Evict, At, AnswerInv, KnownDead
        <3>3. j \notin stored
            BY <1>1, <3>1, <3>2 DEF Live, AnswerInv, TerminalHasWire
        <3>4. Withdrawn(j)
            BY <1>1, <3>1, <3>3 DEF LeavesAnswered
        <3> QED
            BY <2>2, <3>4 DEF Withdrawn, Owns, Evict, Call, Jump, workerVars
    <2>3. CASE LaunchFails(c)
        <3>1. UNCHANGED <<counter, worker, arg, mine>> /\ LaunchMayFail
            BY <2>3 DEF LaunchFails, workerVars
        <3>2. CASE j = arg[c]
            <4>1. Owns(c, j) /\ worker[j] = "none" /\ j \notin mine[c]
                BY <2>3, <3>2 DEF LaunchFails, At, Owns, ThreadsOfGivenIds, AboutToStart
            <4>2. \A d \in Sessions : d # c => ~ Owns(d, j)
                BY <4>1 DEF AnswerInv, Owned
            <4>3. \A d \in Sessions : ~ Owns(d, j)'
                BY <2>3, <4>1, <4>2 DEF LaunchFails, Jump, Owns
            <4> QED
                BY <3>1, <4>1, <4>3 DEF Withdrawn
        <3>3. CASE j # arg[c]
            <4>1. Withdrawn(j)
                BY <1>1, <2>3, <3>1, <3>3 DEF LeavesAnswered, LaunchFails
            <4> QED
                BY <2>3, <3>1, <4>1 DEF Withdrawn, Owns, LaunchFails, Jump
        <3> QED
            BY <3>2, <3>3
    <2>4. CASE ~ Insert(c) /\ ~ Evict(c) /\ ~ LaunchFails(c)
        <3>1. UNCHANGED <<counter, stored>>
            BY <1>3, <2>4
               DEF SessionStep, ClientStep, EndSession, Reserve, Launch, AwaitRead,
                   AwaitTimeout, CancelFlip, CancelCommit, CancelResolve, Reply, DrainNext,
                   Close, Submit, Await, Cancel, HangUp, storeVars
        <3>2. Withdrawn(j)
            BY <1>1, <3>1 DEF LeavesAnswered
        <3>3. ~ Owns(c, j)'
            BY <1>3, <2>4, <3>2, OwnsSteps DEF Withdrawn, AnswerInv
        <3>4. \A d \in Sessions : ~ Owns(d, j)'
            BY <1>3, <3>2, <3>3, OneSession DEF Withdrawn, Owns
        <3>5. worker'[j] = "none"
            BY <1>3, <3>2, <3>3, OwnsSteps DEF Withdrawn, AnswerInv, Owns
        <3> QED
            BY <3>2, <3>4, <3>5 DEF Withdrawn
    <2> QED
        BY <2>1, <2>2, <2>3, <2>4
<1>4. CASE UNCHANGED vars
    BY <1>4 DEF vars, storeVars, workerVars, sessionVars, LeavesAnswered, Withdrawn, Owns
<1> QED
    BY <1>2, <1>3, <1>4 DEF Next

LEMMA LeavesInvariant ==
    Spec => [](StoreInv /\ AnswerInv /\ AboutToStart /\ LeavesAnswered)
<1>1. Init => LeavesAnswered /\ AboutToStart
    BY IdsFacts DEF Init, LeavesAnswered, AboutToStart
<1>2. StoreInv /\ AnswerInv /\ AboutToStart /\ LeavesAnswered /\ [Next]_vars
          => LeavesAnswered' /\ AboutToStart'
    BY LeavesSteps, AboutToStartSteps
<1> QED
    BY <1>1, <1>2, AnswerInvariant, PTL DEF Spec

\* No set of connections and job threads ever waits on each other: some thread
\* can go on, unless everything was given back.  The exception is a connection
\* that waits for a job whose launch failed (submitJob's last catch), and its
\* entries; who else waits, waits for a thread that can go on.
THEOREM StopsAlwaysClean == Spec => []StopsClean
<1>1. ASSUME StoreInv, AnswerInv, LeavesAnswered, ~ SomebodyGoesOn
      PROVE  AllGivenBack
    <2> USE DEF StoreInv, Shape
    <2>1. Holding = {}
        BY <1>1 DEF SomebodyGoesOn, ThreadGoesOn, Holding
    <2>2. permits = Slots /\ Slots > 0
        BY <1>1, <2>1, FS_EmptySet, JobStoreAssumption DEF PermitsConserved, Slots
    <2>3. \A j \in Ids : worker[j] \in {"none", "settled", "raised"}
        BY <1>1, <2>2 DEF SomebodyGoesOn, ThreadGoesOn, WorkerPCs
    <2>4. ASSUME NEW c \in Sessions
          PROVE  conn[c] = "closed" \/ Forgotten(c)
        <3>1. CASE pc[c] = "idle"
            BY <1>1, <3>1 DEF SomebodyGoesOn, SessionGoesOn, AnswerInv, Places
        <3>2. CASE pc[c] = "await"
            <4>1. PICK j \in Ids : j = arg[c]
                BY <1>1, <3>2 DEF ArgInRange
            <4>2. j < counter /\ ~ resolved[j]
                BY <1>1, <3>2, <4>1 DEF SomebodyGoesOn, SessionGoesOn, AnswerInv, GivenOut
            <4>3. \A d \in Sessions : pc[d] \notin {"resolve", "launch"}
                BY <1>1 DEF SomebodyGoesOn, SessionGoesOn
            <4>4. wire[j] = "none"
                BY <1>1, <2>3, <4>2, <4>3 DEF AnswerInv, OneDebt, Debt, Owes
            <4>5. j \notin LiveIds
                BY <1>1, <2>3, <4>3 DEF AnswerInv, LiveHasWorker
            <4>6. j \notin stored
                BY <1>1, <4>4, <4>5 DEF AnswerInv, TerminalHasWire, LiveIds
            <4>7. Withdrawn(j)
                BY <1>1, <4>2, <4>4, <4>6 DEF LeavesAnswered
            <4> QED
                BY <3>2, <4>1, <4>4, <4>6, <4>7 DEF Withdrawn, Forgotten
        <3> QED
            BY <1>1, <3>1, <3>2 DEF SomebodyGoesOn, SessionGoesOn
    <2>5. ASSUME NEW j \in stored
          PROVE  \E c \in Sessions : Forgotten(c) /\ j \in mine[c]
        <3>1. PICK c \in Sessions : conn[c] # "closed" /\ Owns(c, j)
            BY <1>1 DEF AnswerInv, Owned
        <3>2. Forgotten(c)
            BY <2>4, <3>1
        <3> QED
            BY <3>1, <3>2 DEF Owns, Forgotten
    <2> QED
        BY <2>2, <2>3, <2>4, <2>5 DEF AllGivenBack
<1>2. StoreInv /\ AnswerInv /\ LeavesAnswered => StopsClean
    BY <1>1 DEF StopsClean
<1> QED
    BY <1>2, LeavesInvariant, PTL

\* The step that marks a clean stop adds no behaviour to the store.
LEMMA StoppingIsSpec == StoppingSpec <=> Spec
<1>1. [Next \/ Stopped]_vars <=> [Next]_vars
    BY DEF Stopped
<1> QED
    BY <1>1, PTL DEF StoppingSpec, Spec
-----------------------------------------------------------------------------
(***************************************************************************)
(* How far everybody is                                                    *)
(***************************************************************************)

\* What a connection has submitted and not yet drained can be counted.
LEMMA UndrainedFinite ==
    ASSUME Shape, NEW c \in Sessions
    PROVE  IsFiniteSet(Undrained(c)) /\ Cardinality(Undrained(c)) \in Nat
<1>1. Undrained(c) \subseteq Ids
    BY DEF Undrained, Shape
<1> QED
    BY <1>1, IdsFacts, FS_Subset, FS_CardinalityType

\* Where the steps of endSession lead, each counted by one.
LEMMA DrainSteps ==
    ASSUME StoreInv, AnswerInv, NEW c \in Sessions, conn[c] = "closing",
           SessionStep(c) \/ ClientStep(c) \/ EndSession(c)
    PROVE  \/ conn'[c] = "closed"
           \/ conn'[c] = "closing" /\ DrainLeft(c)' < DrainLeft(c)
<1> USE DEF StoreInv, Shape
<1>1. pc[c] \in {"next", "flip", "commit", "resolve", "evict"}
    BY DEF AnswerInv, Places
<1>2. Cardinality(Undrained(c)) \in Nat /\ IsFiniteSet(Undrained(c))
    BY UndrainedFinite
<1>3. \/ DrainNext(c) \/ CancelFlip(c) \/ CancelCommit(c) \/ CancelResolve(c)
      \/ Evict(c) \/ Close(c)
    BY <1>1 DEF SessionStep, ClientStep, EndSession, Reserve, Insert, Launch, LaunchFails,
       AwaitRead, AwaitTimeout, Reply, Submit, Await, Cancel, HangUp, At, Ready
<1>4. CASE DrainNext(c)
    <2>1. PICK j \in Undrained(c) : /\ \A k \in Undrained(c) : j <= k
                                    /\ CancelLookup(c, j, "evict")
        BY <1>4 DEF DrainNext
    <2>2. arg'[c] = j /\ pc'[c] \in {"flip", "evict"} /\ mine' = mine /\ conn' = conn
        BY <1>4, <2>1 DEF DrainNext, CancelLookup, Call, Jump
    <2>3. Undrained(c)' = Undrained(c)
        <3>1. j \in Nat /\ arg[c] \in Nat /\ \A k \in mine[c] : k \in Nat
            BY <2>1, IdsFacts, JobStoreAssumption DEF Undrained
        <3> QED
            BY <2>1, <2>2, <3>1 DEF Undrained
    <2>4. DrainRank(pc'[c]) < DrainRank(pc[c]) /\ DrainRank(pc'[c]) \in Nat
          /\ DrainRank(pc[c]) \in Nat
        BY <1>4, <2>2 DEF DrainNext, At, DrainRank
    <2> QED
        BY <1>2, <2>2, <2>3, <2>4 DEF DrainLeft
<1>5. CASE CancelFlip(c) \/ CancelCommit(c) \/ CancelResolve(c)
    <2>1. arg' = arg /\ mine' = mine /\ conn' = conn
        BY <1>5 DEF CancelFlip, CancelCommit, CancelResolve
    <2>2. DrainRank(pc'[c]) < DrainRank(pc[c]) /\ DrainRank(pc'[c]) \in Nat
          /\ DrainRank(pc[c]) \in Nat
        BY <1>5 DEF CancelFlip, CancelCommit, CancelResolve, AfterCancel, At, Jump, DrainRank
    <2>3. Undrained(c)' = Undrained(c)
        BY <2>1 DEF Undrained
    <2> QED
        BY <1>2, <2>1, <2>2, <2>3 DEF DrainLeft
<1>6. CASE Evict(c)
    <2>1. /\ arg'[c] = arg[c] + 1 /\ pc'[c] = "next" /\ pc[c] = "evict"
          /\ mine' = mine /\ conn' = conn
        <3>1. arg[c] \in Ids
            BY <1>6 DEF Evict, At, ArgInRange
        <3> QED
            BY <1>6, <3>1 DEF Evict, Call, Jump, At
    <2>2. arg[c] \in mine[c] /\ arg[c] \in Nat /\ \A k \in mine[c] : k \in Nat
        BY <2>1, IdsFacts, JobStoreAssumption DEF AnswerInv, Places
    <2>3. Undrained(c)' = Undrained(c) \ {arg[c]} /\ arg[c] \in Undrained(c)
        BY <2>1, <2>2 DEF Undrained
    <2>4. Cardinality(Undrained(c) \ {arg[c]}) = Cardinality(Undrained(c)) - 1
        <3> HIDE DEF StoreInv, Shape
        <3> QED
            BY <1>2, <2>3, FS_RemoveElement
    <2>5. DrainRank(pc[c]) = 0 /\ DrainRank(pc'[c]) = 4
        BY <2>1 DEF DrainRank
    <2> QED
        BY <1>2, <2>1, <2>3, <2>4, <2>5 DEF DrainLeft
<1>7. CASE Close(c)
    BY <1>7 DEF Close
<1> QED
    BY <1>3, <1>4, <1>5, <1>6, <1>7

\* Ids have a least one.
LEMMA LeastOf ==
    ASSUME NEW T \in SUBSET Nat, T # {}
    PROVE  \E x \in T : \A y \in T : x <= y
<1> DEFINE R == OpToRel(<, Nat)
<1>1. IsWellFoundedOn(R, Nat)
    BY NatLessThanWellFounded
<1>2. \E x \in T : \A y \in T : ~ (<<y, x>> \in R)
    <2> HIDE DEF R
    <2> QED
        BY <1>1, WFMin
<1>3. \A x, y \in Nat : <<y, x>> \in R <=> y < x
    BY DEF OpToRel
<1>4. \A x, y \in Nat : ~ (y < x) => x <= y
    OBVIOUS
<1> HIDE DEF R
<1> QED
    BY <1>2, <1>3, <1>4

\* endSession is wait-free: none of its steps waits for anything, and each
\* brings the connection closer to "closed", by at most five steps for an id.
THEOREM EndSessionWaitFree == Spec => DrainNeverWaits /\ DrainCountsDown
<1>1. ASSUME StoreInv, AnswerInv, [Next]_vars, NEW c \in Sessions, conn[c] = "closing"
      PROVE  \/ conn'[c] = "closed"
             \/ DrainLeft(c)' < DrainLeft(c) /\ conn'[c] = "closing"
             \/ UNCHANGED <<conn[c], pc[c], arg[c], mine[c]>>
    <2> USE <1>1 DEF StoreInv, Shape
    <2>1. ASSUME NEW j \in Ids, WorkerStep(j)
          PROVE  UNCHANGED <<conn[c], pc[c], arg[c], mine[c]>>
        BY <2>1, OneWorker DEF sessionVars
    <2>2. ASSUME NEW d \in Sessions, SessionStep(d) \/ ClientStep(d) \/ EndSession(d),
                 d # c
          PROVE  UNCHANGED <<conn[c], pc[c], arg[c], mine[c]>>
        BY <2>2, OneSession
    <2>3. CASE UNCHANGED vars
        BY <2>3 DEF vars, sessionVars
    <2> QED
        BY <2>1, <2>2, <2>3, DrainSteps DEF Next
<1>2. StoreInv /\ AnswerInv /\ [Next]_vars =>
        [\A c \in Sessions : conn[c] = "closing" =>
            \/ conn'[c] = "closed"
            \/ DrainLeft(c)' < DrainLeft(c) /\ conn'[c] = "closing"
            \/ UNCHANGED <<conn[c], pc[c], arg[c], mine[c]>>]_vars
    BY <1>1
<1>3. ASSUME StoreInv, AnswerInv, NEW c \in Sessions, conn[c] = "closing"
      PROVE  \/ pc[c] \in {"flip", "commit", "resolve", "evict"}
             \/ /\ pc[c] = "next"
                /\ \/ Undrained(c) = {}
                   \/ \E j \in Undrained(c) : \A k \in Undrained(c) : j <= k
    <2>1. Undrained(c) \in SUBSET Nat
        BY <1>3, IdsFacts DEF StoreInv, Shape, Undrained
    <2> QED
        BY <1>3, <2>1, LeastOf DEF AnswerInv, Places
<1>4. StoreInv /\ AnswerInv => \A c \in Sessions : conn[c] = "closing" =>
          \/ pc[c] \in {"flip", "commit", "resolve", "evict"}
          \/ /\ pc[c] = "next"
             /\ \/ Undrained(c) = {}
                \/ \E j \in Undrained(c) : \A k \in Undrained(c) : j <= k
    BY <1>3
<1> QED
    BY <1>2, <1>4, AnswerInvariant, PTL DEF Spec, DrainNeverWaits, DrainCountsDown

\* A job's thread reaches its end in eight steps of its own at most, whoever
\* cancels, awaits or evicts the job meanwhile (runJobBody, jobThread).
THEOREM ThreadsCountDown == Spec => ThreadCountsDown
<1>1. ASSUME StoreInv, [Next]_vars, NEW j \in Ids, worker[j] # "none"
      PROVE  \/ ThreadLeft(j)' < ThreadLeft(j)
             \/ UNCHANGED <<worker[j], result[j]>>
    <2> USE <1>1 DEF StoreInv, Shape
    <2>1. CASE WorkerStep(j)
        <3>1. CASE \/ AcquireSlot(j) \/ PickUp(j) \/ WorkerResolve(j) \/ ReleaseSlot(j)
            BY <3>1 DEF AcquireSlot, PickUp, WorkerResolve, ReleaseSlot, Goto, ThreadLeft,
                        ThreadRank
        <3>2. CASE CheckCancelled(j)
            BY <3>2 DEF CheckCancelled, Goto, ThreadLeft, ThreadRank
        <3>3. CASE BodyReturns(j)
            BY <3>3 DEF BodyReturns, Goto, ThreadLeft, ThreadRank
        <3>4. CASE Publish(j)
            BY <3>4 DEF Publish, Goto, ThreadLeft, ThreadRank
        <3>5. CASE PublishRefused(j)
            BY <3>5, JobStoreAssumption
               DEF PublishRefused, Refused, Goto, ThreadLeft, ThreadRank
        <3> QED
            BY <2>1, <3>1, <3>2, <3>3, <3>4, <3>5 DEF WorkerStep
    <2>2. ASSUME NEW i \in Ids, WorkerStep(i), i # j
          PROVE  UNCHANGED <<worker[j], result[j]>>
        BY <2>2 DEF WorkerStep, AcquireSlot, PickUp, CheckCancelled, BodyReturns, Publish,
           PublishRefused, WorkerResolve, ReleaseSlot, Goto
    <2>3. ASSUME NEW c \in Sessions, SessionStep(c) \/ ClientStep(c) \/ EndSession(c)
          PROVE  UNCHANGED <<worker[j], result[j]>>
        <3>1. CASE Launch(c)
            BY <3>1 DEF Launch, Goto, At, ThreadsOfGivenIds, ArgInRange
        <3>2. CASE ~ Launch(c)
            BY <2>3, <3>2 DEF SessionStep, ClientStep, EndSession, Reserve, Insert,
               CancelCommit, LaunchFails, AwaitRead, AwaitTimeout, CancelFlip,
               CancelResolve, Reply, DrainNext, Evict, Close, Submit, Await, Cancel,
               HangUp, workerVars
        <3> QED
            BY <3>1, <3>2
    <2>4. CASE UNCHANGED vars
        BY <2>4 DEF vars, workerVars
    <2> QED
        BY <2>1, <2>2, <2>3, <2>4 DEF Next
<1>2. StoreInv /\ [Next]_vars =>
        [\A j \in Ids : worker[j] # "none" =>
            \/ ThreadLeft(j)' < ThreadLeft(j)
            \/ UNCHANGED <<worker[j], result[j]>>]_vars
    BY <1>1
<1> QED
    BY <1>2, StoreInvariant, PTL DEF Spec, ThreadCountsDown

\* Between the two passes of submitJob: the reserved id is still the next one
\* only while the bounds that were tested still hold.
ReservationHolds ==
    \A c \in Sessions : pc[c] = "insert" =>
        arg[c] <= counter /\ (arg[c] = counter => Admits)

\* The table and its live part do not grow without the counter.
LEMMA AdmitsKept ==
    ASSUME StoreInv, [Next]_vars, Admits, counter' = counter
    PROVE  Admits'
<1> USE DEF StoreInv, Shape
<1>1. stored' \subseteq stored
    <2>1. counter \in Nat
        BY JobStoreAssumption
    <2> QED
        BY <2>1, StoreGrows
<1>2. LiveIds' \subseteq LiveIds
    BY <1>1, PhaseSteps DEF Typed, LiveIds, Live
<1>3. IsFiniteSet(stored) /\ IsFiniteSet(LiveIds)
    BY IdsFacts, FS_Subset DEF LiveIds
<1>4. Cardinality(stored') <= Cardinality(stored)
      /\ Cardinality(stored') \in Nat /\ Cardinality(stored) \in Nat
    BY <1>1, <1>3, FS_Subset, FS_CardinalityType
<1>5. Cardinality(LiveIds') <= Cardinality(LiveIds)
      /\ Cardinality(LiveIds') \in Nat /\ Cardinality(LiveIds) \in Nat
    BY <1>2, <1>3, FS_Subset, FS_CardinalityType
<1> QED
    BY <1>4, <1>5, JobStoreAssumption DEF Admits

LEMMA ReservationSteps ==
    ASSUME StoreInv, ReservationHolds, [Next]_vars
    PROVE  ReservationHolds'
<1> USE DEF StoreInv, Shape
<1> SUFFICES ASSUME NEW c \in Sessions, pc'[c] = "insert"
             PROVE  arg'[c] <= counter' /\ (arg'[c] = counter' => Admits')
    BY DEF ReservationHolds
<1>1. counter \in Nat /\ counter' \in Nat /\ counter <= counter'
    BY StoreGrows, TypedSteps, JobStoreAssumption DEF Typed
<1>2. arg'[c] <= counter /\ (arg'[c] = counter => Admits)
    <2>1. CASE pc[c] = "insert" /\ arg'[c] = arg[c]
        BY <2>1 DEF ReservationHolds
    <2>2. CASE Reserve(c)
        BY <1>1, <2>2 DEF Reserve, At, Jump, Call
    <2>3. (pc[c] = "insert" /\ arg'[c] = arg[c]) \/ Reserve(c)
        <3>1. ASSUME NEW j \in Ids, WorkerStep(j) PROVE pc[c] = "insert" /\ arg'[c] = arg[c]
            BY <3>1, OneWorker DEF sessionVars
        <3>2. ASSUME NEW d \in Sessions, SessionStep(d) \/ ClientStep(d) \/ EndSession(d)
              PROVE  (pc[c] = "insert" /\ arg'[c] = arg[c]) \/ Reserve(c)
            <4>1. CASE d # c
                BY <3>2, <4>1, OneSession
            <4>2. CASE d = c
                BY <3>2, <4>2 DEF SessionStep, ClientStep, EndSession, Insert, Launch,
                   LaunchFails, AwaitRead, AwaitTimeout, CancelFlip, CancelCommit,
                   AfterCancel, CancelResolve, Reply, DrainNext, Evict, Close, Submit, Await,
                   Cancel, CancelLookup, HangUp, At, Jump, Call, Ready
            <4> QED
                BY <4>1, <4>2
        <3>3. CASE UNCHANGED vars
            BY <3>3 DEF vars, sessionVars
        <3> QED
            BY <3>1, <3>2, <3>3 DEF Next
    <2> QED
        BY <2>1, <2>2, <2>3
<1>3. arg'[c] \in Nat
    BY TypedSteps, JobStoreAssumption DEF Typed
<1>4. CASE counter' = counter
    BY <1>2, <1>4, AdmitsKept
<1>5. CASE counter' # counter
    BY <1>1, <1>2, <1>3, <1>5
<1> QED
    BY <1>4, <1>5

\* submitJob is lock-free: a submission starts over only if another one was
\* admitted between its two passes, so of any number of racing submissions one
\* gets through.
THEOREM RetriesMeanProgress == Spec => RetryMeansProgress
<1>1. Init => ReservationHolds
    BY DEF Init, ReservationHolds
<1>2. StoreInv /\ ReservationHolds /\ [Next]_vars => ReservationHolds'
    BY ReservationSteps
<1>3. ASSUME StoreInv, ReservationHolds, [Next]_vars, NEW c \in Sessions,
             pc[c] = "insert", pc'[c] = "reserve"
      PROVE  arg[c] < counter
    <2> USE <1>3 DEF StoreInv, Shape
    <2>1. ASSUME NEW j \in Ids, WorkerStep(j) PROVE FALSE
        BY <2>1, OneWorker DEF sessionVars
    <2>2. ASSUME NEW d \in Sessions, SessionStep(d) \/ ClientStep(d) \/ EndSession(d)
          PROVE  d = c /\ Insert(c)
        <3>1. d = c
            BY <2>2, OneSession
        <3> QED
            BY <2>2, <3>1 DEF SessionStep, ClientStep, EndSession, Reserve, Launch,
               LaunchFails, AwaitRead, AwaitTimeout, CancelFlip, CancelCommit,
               CancelResolve, Reply, DrainNext, Evict, Close, Submit, Await, Cancel,
               HangUp, At, Ready
    <2>3. Insert(c)
        BY <2>1, <2>2 DEF Next, vars, sessionVars
    <2>4. ~ (Admits /\ counter = arg[c])
        BY <2>3 DEF Insert, Jump
    <2>5. counter \in Nat /\ arg[c] \in Nat
        BY JobStoreAssumption
    <2> QED
        BY <2>4, <2>5 DEF ReservationHolds
<1>4. StoreInv /\ ReservationHolds /\ [Next]_vars =>
        [\A c \in Sessions : pc[c] = "insert" /\ pc'[c] = "reserve"
            => arg[c] < counter]_vars
    BY <1>3
<1> QED
    BY <1>1, <1>2, <1>4, StoreInvariant, PTL DEF Spec, RetryMeansProgress
=============================================================================
