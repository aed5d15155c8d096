---------------------- MODULE JobStoreRefinementProofs ----------------------
(***************************************************************************)
(* The job store implements the ownership world with the two steps the     *)
(* shell adds to it, for any number of connections and any bounds; and the *)
(* Lean world itself, as long as the shell does what that world assumes of *)
(* it: a launch does not fail and a body returns its leases.               *)
(***************************************************************************)
EXTENDS JobStoreRefinement, JobStoreProofs

-----------------------------------------------------------------------------
(* The owner of an id *)

\* The connection that owns an id is the owner the mapping finds.
LEMMA OwnerIs ==
    ASSUME Owned, NEW c \in Sessions, NEW j \in Ids, Owns(c, j)
    PROVE  Owner(j) = c
<1> DEFINE P(d) == j \in mine[d] \/ (pc[d] = "launch" /\ arg[d] = j)
<1>1. \A d \in Sessions : P(d) <=> d = c
    BY DEF Owned, Owns
<1>2. (CHOOSE d \in Sessions : P(d)) = c
    <2> HIDE DEF P
    <2> QED
        BY <1>1
<1>3. \E d \in Sessions : P(d)
    BY <1>1
<1> QED
    BY <1>2, <1>3 DEF Owner

\* The same, after a step.
LEMMA OwnerWillBe ==
    ASSUME Owned', NEW c \in Sessions, NEW j \in Ids, Owns(c, j)'
    PROVE  Owner(j)' = c
<1> DEFINE P(d) == j \in mine'[d] \/ (pc'[d] = "launch" /\ arg'[d] = j)
<1>1. \A d \in Sessions : P(d) <=> d = c
    BY DEF Owned, Owns
<1>2. (CHOOSE d \in Sessions : P(d)) = c
    <2> HIDE DEF P
    <2> QED
        BY <1>1
<1>3. \E d \in Sessions : P(d)
    BY <1>1
<1> QED
    BY <1>2, <1>3 DEF Owner

\* An id nobody owns is nobody's.
LEMMA Unowned ==
    ASSUME NEW j \in Ids
    PROVE  /\ (\A c \in Sessions : ~ Owns(c, j)) => Owner(j) = NoSession
           /\ (\A c \in Sessions : ~ Owns(c, j)') => Owner(j)' = NoSession
BY DEF Owner, Owns

\* Owners do not change while what the connections own does not.
LEMMA OwnersKept ==
    ASSUME Owned, Owned',
           \A c \in Sessions : \A j \in Ids : Owns(c, j)' <=> Owns(c, j)
    PROVE  \A j \in Ids : Owner(j)' = Owner(j)
<1> SUFFICES ASSUME NEW j \in Ids PROVE Owner(j)' = Owner(j)
    OBVIOUS
<1>1. ASSUME NEW c \in Sessions, Owns(c, j) PROVE Owner(j)' = Owner(j)
    BY <1>1, OwnerIs, OwnerWillBe
<1>2. CASE \A c \in Sessions : ~ Owns(c, j)
    BY <1>2, Unowned
<1> QED
    BY <1>1, <1>2
-----------------------------------------------------------------------------
(* The mapped variables *)

OwnerOf == [j \in Ids |-> Owner(j)]
StageOf == [j \in Ids |-> Stage(j)]
Published == [j \in Ids |-> wire[j] # "none"]
WaitOf == [c \in Sessions |-> Waiting(c)]

\* A mapped variable is unchanged when it is so at every index.
LEMMA MappedKept ==
    /\ (\A j \in Ids : Owner(j)' = Owner(j)) => UNCHANGED OwnerOf
    /\ (\A j \in Ids : Stage(j)' = Stage(j)) => UNCHANGED StageOf
    /\ UNCHANGED worker => UNCHANGED StageOf
    /\ UNCHANGED wire => UNCHANGED Published
    /\ (\A c \in Sessions : Waiting(c)' = Waiting(c)) => UNCHANGED WaitOf
<1>1. UNCHANGED worker => \A j \in Ids : Stage(j)' = Stage(j)
    BY DEF Stage, Holding
<1> QED
    BY <1>1 DEF OwnerOf, StageOf, Published, WaitOf

-----------------------------------------------------------------------------
(* The steps of a job's thread *)

\* The world counts as the store does.
LEMMA SameCount == \A S : Ownership!Cardinality(S) = Cardinality(S)
BY DEF Ownership!Cardinality, Cardinality

\* The jobs in a slot are the world's active ones.
LEMMA ActiveHolding == Ownership!Active = Holding
BY DEF Ownership!Active, Stage, Holding

\* A thread that ends without settling its token has left a lease behind.
LeaksAllowed == \A j \in Ids : leaked[j] \/ worker[j] = "raised" => CleanupMayFail

\* A thread that runs is that of an owned id.
LEMMA ThreadOwned ==
    ASSUME Shape, Owned, NEW j \in Ids, worker[j] # "none"
    PROVE  OwnerOf[j] # NoSession
<1>1. PICK c \in Sessions : j \in mine[c]
    BY DEF Owned
<1>2. Owner(j) = c
    BY <1>1, OwnerIs DEF Owns
<1> QED
    BY <1>2, NoSessionAssumption DEF OwnerOf

\* acquireSlot is the world's start, under its bound on the slots; the last
\* step of the thread is its settle, or keeps its lease; an outcome published is a step of the
\* body; nothing else the thread does is seen.
LEMMA WorkerRefines ==
    ASSUME StoreInv, AnswerInv, AnswerInv', LeavesAnswered, LeaksAllowed,
           NEW j \in Ids, WorkerStep(j), UNCHANGED Withdrawals
    PROVE  [Ownership!Step]_Ownership!world \/ Ownership!KeepLease(j)
<1> USE DEF StoreInv, Shape, AnswerInv
<1>1. UNCHANGED <<conn, stored, pc, arg, mine>>
    BY OneWorker DEF sessionVars
<1>2. UNCHANGED OwnerOf
    <2>1. \A c \in Sessions : \A i \in Ids : Owns(c, i)' <=> Owns(c, i)
        BY <1>1 DEF Owns
    <2> QED
        BY <2>1, OwnersKept, MappedKept
<1>3. UNCHANGED WaitOf
    BY <1>1, MappedKept DEF Waiting
<1>4. OwnerOf[j] # NoSession
    BY OneWorker, ThreadOwned
<1>5. CASE AcquireSlot(j)
    <2>1. Ownership!Cardinality(Ownership!Active) < Slots
        BY <1>5, SameCount, ActiveHolding, HoldingFinite, IdsFacts
           DEF AcquireSlot, PermitsConserved
    <2>2. StageOf[j] = "queued"
        BY <1>5 DEF AcquireSlot, StageOf, Stage, Holding
    <2>3. StageOf' = [StageOf EXCEPT ![j] = "active"]
        BY <1>5 DEF AcquireSlot, Goto, StageOf, Stage, Holding
    <2>4. UNCHANGED Published
        BY <1>5, MappedKept DEF AcquireSlot, storeVars
    <2>5. Ownership!Start(j)
        BY <1>1, <1>2, <1>3, <1>4, <2>1, <2>2, <2>3, <2>4
           DEF Ownership!Start, Ownership!Found, OwnerOf, StageOf, Published, WaitOf
    <2> QED
        BY <2>5 DEF Ownership!Step
<1>6. CASE ReleaseSlot(j)
    <2>1. StageOf[j] = "active"
        BY <1>6 DEF ReleaseSlot, StageOf, Stage, Holding
    <2>2. UNCHANGED Published
        BY <1>6, MappedKept DEF ReleaseSlot, storeVars
    <2>3. CASE ~ leaked[j]
        <3>1. StageOf' = [StageOf EXCEPT ![j] = "settled"]
            BY <1>6, <2>3 DEF ReleaseSlot, Goto, StageOf, Stage, Holding
        <3>2. Ownership!SettleJob(j)
            BY <1>1, <1>2, <1>3, <1>4, <2>1, <2>2, <3>1
               DEF Ownership!SettleJob, Ownership!Found, OwnerOf, StageOf, Published, WaitOf
        <3> QED
            BY <3>2 DEF Ownership!Step
    <2>4. CASE leaked[j]
        <3>1. StageOf' = [StageOf EXCEPT ![j] = "kept"]
            BY <1>6, <2>4 DEF ReleaseSlot, Goto, StageOf, Stage, Holding
        <3>2. Published[j]
            <4>1. worker[j] = "settle" /\ j < counter
                BY <1>6 DEF ReleaseSlot, ThreadsOfGivenIds
            <4>2. j \notin LiveIds
                BY <4>1 DEF LiveHasWorker, ThreadsOfGivenIds
            <4>3. j \in stored => wire[j] # "none"
                BY <4>2 DEF LiveIds, TerminalHasWire
            <4>4. j \notin stored => wire[j] # "none"
                BY <4>1 DEF LeavesAnswered, Withdrawn
            <4> QED
                BY <4>3, <4>4 DEF Published
        <3>3. CleanupMayFail
            BY <2>4 DEF LeaksAllowed
        <3>4. Ownership!KeepLease(j)
            BY <1>1, <1>2, <1>3, <1>4, <2>1, <2>2, <3>1, <3>2, <3>3
               DEF Ownership!KeepLease, Ownership!Found, OwnerOf, StageOf, Published, WaitOf
        <3> QED
            BY <3>4
    <2> QED
        BY <2>3, <2>4
<1>7. CASE \/ PickUp(j) \/ CheckCancelled(j) \/ BodyReturns(j) \/ Publish(j)
           \/ PublishRefused(j) \/ WorkerResolve(j)
    <2>1. UNCHANGED StageOf
        <3>1. \A i \in Ids : Stage(i)' = Stage(i)
            BY <1>7 DEF PickUp, CheckCancelled, BodyReturns, Publish, PublishRefused,
                        WorkerResolve, Goto, Stage, Holding
        <3> QED
            BY <3>1, MappedKept
    <2>2. CASE UNCHANGED wire
        BY <1>1, <1>2, <1>3, <2>1, <2>2, MappedKept
           DEF Ownership!world, OwnerOf, StageOf, Published, WaitOf
    <2>3. CASE ~ UNCHANGED wire
        <3>1. Publish(j)
            BY <1>7, <2>3 DEF PickUp, CheckCancelled, BodyReturns, PublishRefused,
                              WorkerResolve, storeVars
        <3>2. wire' = [wire EXCEPT ![j] = result[j]] /\ result[j] # "none"
            BY <2>3, <3>1, JobStoreAssumption DEF Publish, Settle, ResultReady
        <3>3. Published' = [Published EXCEPT ![j] = TRUE]
            BY <3>2 DEF Published
        <3>4. Ownership!Body(j)
            BY <1>1, <1>2, <1>3, <1>4, <2>1, <3>3
               DEF Ownership!Body, Ownership!Found, OwnerOf, StageOf, Published, WaitOf
        <3> QED
            BY <3>4 DEF Ownership!Step
    <2> QED
        BY <2>2, <2>3
<1> QED
    BY <1>5, <1>6, <1>7 DEF WorkerStep
-----------------------------------------------------------------------------
(* The steps of a connection *)

\* An entry in the table has an owner in the world.
LEMMA EntryOwned ==
    ASSUME Shape, Owned, NEW j \in stored
    PROVE  OwnerOf[j] # NoSession
<1>1. PICK c \in Sessions : Owns(c, j)
    BY DEF Owned
<1>2. j \in Ids /\ Owner(j) = c
    BY <1>1, OwnerIs DEF Shape
<1> QED
    BY <1>2, NoSessionAssumption DEF OwnerOf

\* Unless a connection inserts or takes back, who owns what stays; unless it launches, the
\* threads stay where they are; unless it commits, outcomes do; and no step
\* touches another connection's wait.
LEMMA SessionFrame ==
    ASSUME StoreInv, AnswerInv, AnswerInv', NEW c \in Sessions,
           SessionStep(c) \/ ClientStep(c) \/ EndSession(c)
    PROVE  /\ Insert(c) \/ LaunchFails(c) \/ UNCHANGED OwnerOf
           /\ UNCHANGED StageOf
           /\ CancelCommit(c) \/ UNCHANGED Published
           /\ \A d \in Sessions \ {c} : Waiting(d)' = Waiting(d)
<1> USE DEF StoreInv, Shape, AnswerInv
<1>1. \A d \in Sessions \ {c} : /\ pc'[d] = pc[d] /\ arg'[d] = arg[d]
                                /\ mine'[d] = mine[d] /\ conn'[d] = conn[d]
    BY OneSession
<1>2. ASSUME ~ Insert(c), ~ LaunchFails(c) PROVE UNCHANGED OwnerOf
    <2>2. \A j \in Ids : Owns(c, j)' <=> Owns(c, j)
        BY <1>2, OwnsSteps
    <2>3. \A d \in Sessions : \A j \in Ids : Owns(d, j)' <=> Owns(d, j)
        BY <1>1, <2>2 DEF Owns
    <2> QED
        BY <2>3, OwnersKept, MappedKept
<1>3. CASE Launch(c)
    <2>1. \A j \in Ids : Stage(j)' = Stage(j)
        BY <1>3 DEF Launch, At, Goto, Stage, Holding, ThreadsOfGivenIds
    <2>2. UNCHANGED StageOf
        BY <2>1, MappedKept
    <2>3. UNCHANGED Published
        BY <1>3, MappedKept DEF Launch, storeVars
    <2> QED
        BY <1>1, <1>2, <2>2, <2>3 DEF Waiting
<1>4. CASE ~ Launch(c)
    <2>1. UNCHANGED worker
        BY <1>4 DEF SessionStep, ClientStep, EndSession, Reserve, Insert, CancelCommit,
           LaunchFails, AwaitRead, AwaitTimeout, CancelFlip, CancelResolve, Reply,
           DrainNext, Evict, Close, Submit, Await, Cancel, HangUp, workerVars
    <2>2. CancelCommit(c) \/ UNCHANGED wire
        BY <1>4 DEF SessionStep, ClientStep, EndSession, Reserve, Insert,
           LaunchFails, AwaitRead, AwaitTimeout, CancelFlip, CancelResolve, Reply,
           DrainNext, Evict, Close, Submit, Await, Cancel, HangUp, storeVars
    <2>3. UNCHANGED StageOf /\ (CancelCommit(c) \/ UNCHANGED Published)
        BY <2>1, <2>2, MappedKept
    <2> QED
        BY <1>1, <1>2, <2>3 DEF Waiting
<1> QED
    BY <1>3, <1>4

\* A connection that is not waiting on either side of its step waits for
\* nothing new.
LEMMA WaitKept ==
    ASSUME NEW c \in Sessions,
           \A d \in Sessions \ {c} : Waiting(d)' = Waiting(d),
           Waiting(c)' = Waiting(c)
    PROVE  UNCHANGED WaitOf
BY MappedKept

\* A connection's wait changes at its index.
LEMMA WaitSet ==
    ASSUME NEW c \in Sessions,
           \A d \in Sessions \ {c} : Waiting(d)' = Waiting(d)
    PROVE  WaitOf' = [WaitOf EXCEPT ![c] = Waiting(c)']
BY DEF WaitOf

\* An insertion makes the connection the owner of the next id, or nothing.
LEMMA InsertOwners ==
    ASSUME StoreInv, AnswerInv, AnswerInv', NEW c \in Sessions, Insert(c)
    PROVE  IF Admits /\ counter = arg[c]
           THEN /\ counter \in Ids /\ counter' = counter + 1
                /\ OwnerOf[counter] = NoSession
                /\ OwnerOf' = [OwnerOf EXCEPT ![counter] = c]
           ELSE UNCHANGED <<counter, OwnerOf>>
<1> USE DEF StoreInv, Shape, AnswerInv
<1>1. PICK i \in Ids : i = arg[c]
    BY DEF Insert, At, ArgInRange
<1>2. CASE Admits /\ counter = i
    <2>1. i \in Nat
        BY IdsFacts
    <2>2. \A d \in Sessions : ~ Owns(d, i)
        BY <1>2, <2>1 DEF GivenOut, Owns
    <2>3. OwnerOf[i] = NoSession
        BY <2>2, Unowned DEF OwnerOf
    <2>4. \A d \in Sessions : \A j \in Ids :
              Owns(d, j)' <=> Owns(d, j) \/ (d = c /\ j = i)
        BY <1>1, <1>2 DEF Insert, Jump, At, Owns
    <2>5. Owner(i)' = c
        BY <2>4, OwnerWillBe
    <2>6. ASSUME NEW j \in Ids, j # i PROVE Owner(j)' = Owner(j)
        <3>1. ASSUME NEW d \in Sessions, Owns(d, j) PROVE Owner(j)' = Owner(j)
            BY <2>4, <3>1, OwnerIs, OwnerWillBe
        <3>2. CASE \A d \in Sessions : ~ Owns(d, j)
            BY <2>4, <2>6, <3>2, Unowned
        <3> QED
            BY <3>1, <3>2
    <2>7. OwnerOf' = [OwnerOf EXCEPT ![i] = c]
        BY <2>5, <2>6 DEF OwnerOf
    <2> QED
        BY <1>1, <1>2, <2>3, <2>7 DEF Insert
<1>3. CASE ~ (Admits /\ counter = i)
    <2>1. \A d \in Sessions : \A j \in Ids : Owns(d, j)' <=> Owns(d, j)
        BY <1>1, <1>3 DEF Insert, Jump, At, Owns
    <2>2. UNCHANGED OwnerOf
        BY <2>1, OwnersKept, MappedKept
    <2> QED
        BY <1>1, <1>3, <2>2 DEF Insert
<1> QED
    BY <1>2, <1>3, <1>1

\* The second pass of a submission is the world's admission.
LEMMA InsertRefines ==
    ASSUME StoreInv, AnswerInv, AnswerInv', NEW c \in Sessions,
           Insert(c)
    PROVE  [Ownership!Step]_Ownership!world
<1> USE DEF StoreInv, Shape, AnswerInv
<1>0. PICK i \in Ids : i = arg[c]
    BY DEF Insert, At, ArgInRange
<1>1. UNCHANGED <<StageOf, Published>>
    BY SessionFrame DEF SessionStep, Insert, CancelCommit, At
<1>2. UNCHANGED WaitOf
    <2>1. Waiting(c)' = Waiting(c)
        BY DEF Insert, Jump, At, Waiting
    <2> QED
        BY <2>1, SessionFrame, WaitKept DEF SessionStep
<1>3. CASE Admits /\ counter = i
    <2>1. OwnerOf[i] = NoSession /\ OwnerOf' = [OwnerOf EXCEPT ![i] = c]
        BY <1>0, <1>3, InsertOwners
    <2>2. Ownership!LiveJobs = LiveIds
        BY DEF Ownership!LiveJobs, LiveIds, TerminalHasWire, WireIsTerminal
    <2>3. Ownership!Cardinality(Ownership!LiveJobs) < Capacity
        BY <1>3, <2>2, SameCount DEF Admits
    <2>4. conn[c] = "open" /\ UNCHANGED conn /\ stored' = stored \cup {i}
        BY <1>0, <1>3 DEF Insert, At, Places
    <2>5. Ownership!Admit(i, c)
        BY <1>1, <1>2, <2>1, <2>3, <2>4
           DEF Ownership!Admit, Ownership!Found, OwnerOf, StageOf, Published, WaitOf
    <2> QED
        BY <2>5 DEF Ownership!Step
<1>4. CASE ~ (Admits /\ counter = i)
    <2>1. UNCHANGED <<OwnerOf, conn, stored>>
        BY <1>0, <1>4, InsertOwners DEF Insert
    <2> QED
        BY <1>1, <1>2, <2>1
           DEF Ownership!world, OwnerOf, StageOf, Published, WaitOf
<1> QED
    BY <1>3, <1>4

\* What only a client, a token or a promise sees is no step of the world.
LEMMA SilentRefines ==
    ASSUME StoreInv, AnswerInv, AnswerInv', NEW c \in Sessions,
           \/ Reserve(c) \/ Launch(c) \/ CancelFlip(c) \/ CancelResolve(c)
           \/ Reply(c) \/ DrainNext(c) \/ Submit(c) \/ Cancel(c) \/ HangUp(c)
    PROVE  UNCHANGED Ownership!world
<1> USE DEF StoreInv, Shape
<1>1. SessionStep(c) \/ ClientStep(c)
    BY DEF SessionStep, ClientStep
<1>2. ~ Insert(c) /\ ~ LaunchFails(c) /\ ~ CancelCommit(c)
    <2>1. Launch(c) => ~ LaunchFails(c)
        BY DEF Launch, LaunchFails, At, Goto, ThreadsOfGivenIds, ArgInRange, workerVars
    <2> QED
        BY <2>1 DEF Reserve, Launch, CancelFlip, CancelResolve, Reply, DrainNext, Submit,
           Cancel, HangUp, CancelLookup, Insert, LaunchFails, CancelCommit, At, Jump,
           Call, Ready
<1>3. UNCHANGED <<conn, stored>>
    BY DEF Reserve, Launch, CancelFlip, CancelResolve, Reply, DrainNext, Submit,
           Cancel, HangUp, storeVars
<1>4. Waiting(c)' = Waiting(c)
    BY DEF Reserve, Launch, CancelFlip, CancelResolve, Reply, DrainNext, Submit,
           Cancel, HangUp, CancelLookup, AfterCancel, At, Jump, Call, Ready, Waiting
<1>5. UNCHANGED <<OwnerOf, StageOf, Published, WaitOf>>
    BY <1>1, <1>2, <1>4, SessionFrame, WaitKept
<1> QED
    BY <1>3, <1>5 DEF Ownership!world, OwnerOf, StageOf, Published, WaitOf

\* An await that finds its entry waits for it in the world, too.
LEMMA AwaitRefines ==
    ASSUME StoreInv, AnswerInv, AnswerInv', NEW c \in Sessions,
           Await(c)
    PROVE  [Ownership!Step]_Ownership!world
<1> USE DEF StoreInv, Shape
<1>1. UNCHANGED <<OwnerOf, StageOf, Published>>
      /\ \A d \in Sessions \ {c} : Waiting(d)' = Waiting(d)
    BY SessionFrame DEF ClientStep, Await, Insert, LaunchFails, CancelCommit, At, Ready
<1>2. UNCHANGED <<conn, stored>> /\ conn[c] = "open"
    BY DEF Await, Ready, storeVars
<1>3. \/ Waiting(c)' = Waiting(c)
      \/ \E j \in Ids : j \in stored /\ Waiting(c)' = j
    <2>1. PICK j \in 0 .. counter - 1, timed \in BOOLEAN :
              Call(c, IF j \in stored THEN IF timed THEN "awaitTimed" ELSE "await"
                      ELSE "status", j)
        BY DEF Await
    <2>2. CASE j \in stored
        BY <2>1, <2>2 DEF Call, Jump, Waiting
    <2>3. CASE j \notin stored
        BY <2>1, <2>3 DEF Call, Jump, Waiting, Await, Ready, At
    <2> QED
        BY <2>2, <2>3
<1>4. CASE Waiting(c)' = Waiting(c)
    <2>1. UNCHANGED WaitOf
        BY <1>1, <1>4, WaitKept
    <2> QED
        BY <1>1, <1>2, <2>1 DEF Ownership!world, OwnerOf, StageOf, Published, WaitOf
<1>5. ASSUME NEW j \in Ids, j \in stored, Waiting(c)' = j
      PROVE  Ownership!Step
    <2>1. WaitOf' = [WaitOf EXCEPT ![c] = j]
        BY <1>1, <1>5, WaitSet
    <2>2. Ownership!AwaitJob(c, j)
        BY <1>1, <1>2, <1>5, <2>1
           DEF Ownership!AwaitJob, OwnerOf, StageOf, Published, WaitOf
    <2> QED
        BY <2>2 DEF Ownership!Step
<1> QED
    BY <1>3, <1>4, <1>5

\* A wait that ends, with the outcome or without it, is answered.
LEMMA AnswerRefines ==
    ASSUME StoreInv, AnswerInv, AnswerInv', NEW c \in Sessions,
           AwaitRead(c) \/ AwaitTimeout(c)
    PROVE  [Ownership!Step]_Ownership!world
<1> USE DEF StoreInv, Shape
<1>1. UNCHANGED <<OwnerOf, StageOf, Published>>
      /\ \A d \in Sessions \ {c} : Waiting(d)' = Waiting(d)
    BY SessionFrame DEF SessionStep, AwaitRead, AwaitTimeout, Insert, LaunchFails,
                        CancelCommit, At
<1>2. UNCHANGED <<conn, stored>>
    BY DEF AwaitRead, AwaitTimeout, storeVars
<1>3. Waiting(c)' = MaxSubmissions
    BY DEF AwaitRead, AwaitTimeout, Jump, Waiting
<1>4. WaitOf' = [WaitOf EXCEPT ![c] = MaxSubmissions]
    BY <1>1, <1>3, WaitSet
<1>5. Ownership!Answered(c)
    BY <1>1, <1>2, <1>4 DEF Ownership!Answered, OwnerOf, StageOf, Published, WaitOf
<1> QED
    BY <1>5 DEF Ownership!Step

\* The commit of a cancellation publishes the entry's first outcome or, when
\* the entry is no longer live, nothing.
LEMMA CommitRefines ==
    ASSUME StoreInv, AnswerInv, AnswerInv', NEW c \in Sessions,
           CancelCommit(c)
    PROVE  [Ownership!Step]_Ownership!world
<1> USE DEF StoreInv, Shape
<1>1. PICK i \in Ids : i = arg[c]
    BY DEF CancelCommit, At, ArgInRange
<1>2. UNCHANGED <<OwnerOf, StageOf>>
      /\ \A d \in Sessions \ {c} : Waiting(d)' = Waiting(d)
    BY SessionFrame DEF SessionStep, CancelCommit, Insert, LaunchFails, At
<1>3. UNCHANGED <<conn, stored>> /\ Waiting(c)' = Waiting(c)
    BY DEF CancelCommit, Jump, AfterCancel, At, Waiting
<1>4. UNCHANGED WaitOf
    BY <1>2, <1>3, WaitKept
<1>5. CASE Live(i)
    <2>1. OwnerOf[i] # NoSession
        BY <1>5, EntryOwned DEF Live, AnswerInv
    <2>2. Published' = [Published EXCEPT ![i] = TRUE]
        BY <1>1, <1>5 DEF CancelCommit, Settle, Published
    <2>3. Ownership!Body(i)
        BY <1>2, <1>3, <1>4, <2>1, <2>2
           DEF Ownership!Body, Ownership!Found, OwnerOf, StageOf, Published, WaitOf
    <2> QED
        BY <2>3 DEF Ownership!Step
<1>6. CASE ~ Live(i)
    <2>1. UNCHANGED Published
        BY <1>1, <1>6, MappedKept DEF CancelCommit, Settle
    <2> QED
        BY <1>2, <1>3, <1>4, <2>1
           DEF Ownership!world, OwnerOf, StageOf, Published, WaitOf
<1> QED
    BY <1>5, <1>6

\* A connection starts to close while it waits for nothing.
LEMMA EndRefines ==
    ASSUME StoreInv, AnswerInv, AnswerInv', NEW c \in Sessions,
           EndSession(c)
    PROVE  [Ownership!Step]_Ownership!world
<1> USE DEF StoreInv, Shape
<1>1. UNCHANGED <<OwnerOf, StageOf, Published>>
      /\ \A d \in Sessions \ {c} : Waiting(d)' = Waiting(d)
    BY SessionFrame DEF EndSession, Insert, LaunchFails, CancelCommit, At
<1>2. /\ UNCHANGED stored
      /\ conn[c] = "open" /\ conn' = [conn EXCEPT ![c] = "closing"]
      /\ Waiting(c)' = MaxSubmissions
    BY DEF EndSession, Call, Jump, Waiting, storeVars
<1>3. WaitOf' = [WaitOf EXCEPT ![c] = MaxSubmissions]
    BY <1>1, <1>2, WaitSet
<1>4. Ownership!BeginClose(c)
    BY <1>1, <1>2, <1>3 DEF Ownership!BeginClose, OwnerOf, StageOf, Published, WaitOf
<1> QED
    BY <1>4 DEF Ownership!Step

\* A connection at the end of its ids has none in the table.
LEMMA CloseRefines ==
    ASSUME StoreInv, AnswerInv, AnswerInv', NEW c \in Sessions,
           Close(c)
    PROVE  [Ownership!Step]_Ownership!world
<1> USE DEF StoreInv, Shape, AnswerInv
<1>1. UNCHANGED <<OwnerOf, StageOf, Published>>
      /\ \A d \in Sessions \ {c} : Waiting(d)' = Waiting(d)
    BY SessionFrame DEF SessionStep, Close, Insert, LaunchFails, CancelCommit, At
<1>2. /\ UNCHANGED stored /\ pc[c] = "next"
      /\ conn' = [conn EXCEPT ![c] = "closed"]
      /\ Waiting(c)' = MaxSubmissions
    BY DEF Close, At, Call, Jump, Waiting, storeVars
<1>3. conn[c] = "closing"
    BY <1>2 DEF Places
<1>4. WaitOf' = [WaitOf EXCEPT ![c] = MaxSubmissions]
    BY <1>1, <1>2, WaitSet
<1>5. \A j \in Ids : OwnerOf[j] = c => j \notin stored
    <2> SUFFICES ASSUME NEW j \in Ids, OwnerOf[j] = c, j \in stored PROVE FALSE
        OBVIOUS
    <2>1. PICK d \in Sessions : Owns(d, j)
        BY DEF Owned
    <2>2. d = c
        BY <2>1, OwnerIs DEF OwnerOf
    <2>3. j \in mine[c]
        BY <1>2, <2>1, <2>2 DEF Owns
    <2>4. j < arg[c]
        BY <2>3, IdsFacts, JobStoreAssumption DEF Close, Undrained
    <2> QED
        BY <1>3, <2>3, <2>4 DEF DrainedBelow
<1>6. Ownership!FinishClose(c)
    BY <1>1, <1>2, <1>3, <1>4, <1>5
       DEF Ownership!FinishClose, Ownership!Drained, OwnerOf, StageOf, Published, WaitOf
<1> QED
    BY <1>6 DEF Ownership!Step

\* An entry is evicted by its closing owner, after its outcome.
LEMMA EvictRefines ==
    ASSUME StoreInv, AnswerInv, AnswerInv', NEW c \in Sessions,
           Evict(c)
    PROVE  [Ownership!Step]_Ownership!world
<1> USE DEF StoreInv, Shape, AnswerInv
<1>1. PICK i \in Ids : i = arg[c]
    BY DEF Evict, At, ArgInRange
<1>2. UNCHANGED <<OwnerOf, StageOf, Published>>
      /\ \A d \in Sessions \ {c} : Waiting(d)' = Waiting(d)
    BY SessionFrame DEF SessionStep, Evict, Insert, LaunchFails, CancelCommit, At
<1>3. /\ UNCHANGED conn /\ pc[c] = "evict" /\ stored' = stored \ {i}
      /\ Waiting(c)' = Waiting(c)
    BY <1>1 DEF Evict, At, Call, Jump, Waiting
<1>4. UNCHANGED WaitOf
    BY <1>2, <1>3, WaitKept
<1>5. CASE i \in stored
    <2>1. conn[c] = "closing" /\ i \in mine[c]
        BY <1>1, <1>3 DEF Places
    <2>2. OwnerOf[i] = c
        BY <2>1, OwnerIs DEF OwnerOf, Owns
    <2>3. Published[i]
        BY <1>1, <1>3, <1>5 DEF KnownDead, Live, TerminalHasWire, Published
    <2>4. Ownership!EvictJob(i)
        BY <1>2, <1>3, <1>4, <2>1, <2>2, <2>3, NoSessionAssumption
           DEF Ownership!EvictJob, Ownership!Found, OwnerOf, StageOf, Published, WaitOf
    <2> QED
        BY <2>4 DEF Ownership!Step
<1>6. CASE i \notin stored
    <2>1. UNCHANGED stored
        BY <1>3, <1>6
    <2> QED
        BY <1>2, <1>3, <1>4, <2>1
           DEF Ownership!world, OwnerOf, StageOf, Published, WaitOf
<1> QED
    BY <1>5, <1>6

-----------------------------------------------------------------------------
(* The refinement *)

\* Only a body that may fail to clean up leaves a lease.
LEMMA LeakSteps ==
    ASSUME StoreInv, LeaksAllowed, [Next]_vars
    PROVE  LeaksAllowed'
<1> USE DEF StoreInv, Shape
<1> SUFFICES ASSUME ~ CleanupMayFail, NEW i \in Ids
             PROVE  ~ leaked'[i] /\ worker'[i] # "raised"
    BY DEF LeaksAllowed
<1>0. ~ leaked[i] /\ worker[i] # "raised"
    BY DEF LeaksAllowed
<1>1. ASSUME NEW j \in Ids, WorkerStep(j) PROVE ~ leaked'[i] /\ worker'[i] # "raised"
    <2>1. leaked' = leaked \/ leaked' = [leaked EXCEPT ![j] = FALSE]
        BY <1>1, JobStoreAssumption
           DEF WorkerStep, AcquireSlot, PickUp, CheckCancelled, BodyReturns, Publish,
               PublishRefused, WorkerResolve, ReleaseSlot
    <2>2. worker'[i] # "raised"
        BY <1>0, <1>1 DEF WorkerStep, AcquireSlot, PickUp, CheckCancelled, BodyReturns,
               Publish, PublishRefused, WorkerResolve, ReleaseSlot, Goto
    <2> QED
        BY <1>0, <2>1, <2>2
<1>2. ASSUME NEW c \in Sessions, SessionStep(c) \/ ClientStep(c) \/ EndSession(c)
      PROVE  ~ leaked'[i] /\ worker'[i] # "raised"
    <2>1. CASE Launch(c)
        BY <1>0, <2>1 DEF Launch, Goto
    <2>2. CASE ~ Launch(c)
        BY <1>0, <1>2, <2>2 DEF SessionStep, ClientStep, EndSession, Reserve, Insert,
           CancelCommit, LaunchFails, AwaitRead, AwaitTimeout, CancelFlip, CancelResolve,
           Reply, DrainNext, Evict, Close, Submit, Await, Cancel, HangUp, workerVars
    <2> QED
        BY <2>1, <2>2
<1>3. CASE UNCHANGED vars
    BY <1>0, <1>3 DEF vars, workerVars
<1> QED
    BY <1>1, <1>2, <1>3 DEF Next

\* The empty store is the empty world.
LEMMA WorldStarts == Init => Ownership!Initial
<1> SUFFICES ASSUME Init PROVE Ownership!Initial
    OBVIOUS
<1>1. \A j \in Ids : Owner(j) = NoSession
    BY Unowned DEF Init, Owns
<1>2. \A j \in Ids : Stage(j) = "queued"
    BY DEF Init, Stage, Holding
<1>3. \A c \in Sessions : Waiting(c) = MaxSubmissions
    BY DEF Init, Waiting
<1> QED
    BY <1>1, <1>2, <1>3 DEF Init, Ownership!Initial

\* A launch that fails takes its entry back, which is in the table and whose
\* thread never started.
LEMMA WithdrawRefines ==
    ASSUME StoreInv, AnswerInv, AnswerInv', AboutToStart, NEW c \in Sessions,
           LaunchFails(c)
    PROVE  \E i \in Ids : Ownership!Withdraw(i)
<1> USE DEF StoreInv, Shape, AnswerInv
<1>1. PICK i \in Ids : i = arg[c]
    BY DEF LaunchFails, At, ArgInRange
<1>2. UNCHANGED <<StageOf, Published>>
      /\ \A d \in Sessions \ {c} : Waiting(d)' = Waiting(d)
    BY SessionFrame DEF SessionStep, LaunchFails, CancelCommit, At
<1>3. UNCHANGED WaitOf
    <2>1. Waiting(c)' = Waiting(c)
        BY DEF LaunchFails, Jump, At, Waiting
    <2> QED
        BY <1>2, <2>1, WaitKept
<1>4. /\ i \in stored /\ i \notin mine[c] /\ Owns(c, i) /\ worker[i] = "none"
      /\ i < counter
    BY <1>1 DEF LaunchFails, At, AboutToStart, Owns, ThreadsOfGivenIds
<1>5. StageOf[i] = "queued" /\ OwnerOf[i] = c /\ conn[c] = "open"
    BY <1>4, OwnerIs DEF StageOf, Stage, Holding, OwnerOf, LaunchFails, At, Places
<1>6. \A d \in Sessions : \A j \in Ids : Owns(d, j)' <=> Owns(d, j) /\ j # i
    <2>1. \A d \in Sessions : Owns(d, i) => d = c
        BY <1>4 DEF Owned
    <2> QED
        BY <1>1, <1>4, <2>1 DEF LaunchFails, At, Jump, Owns
<1>7. OwnerOf' = [OwnerOf EXCEPT ![i] = NoSession]
    <2>1. Owner(i)' = NoSession
        BY <1>6, Unowned
    <2>2. ASSUME NEW j \in Ids, j # i PROVE Owner(j)' = Owner(j)
        <3>1. ASSUME NEW d \in Sessions, Owns(d, j) PROVE Owner(j)' = Owner(j)
            BY <1>6, <2>2, <3>1, OwnerIs, OwnerWillBe
        <3>2. CASE \A d \in Sessions : ~ Owns(d, j)
            BY <1>6, <3>2, Unowned
        <3> QED
            BY <3>1, <3>2
    <2> QED
        BY <2>1, <2>2 DEF OwnerOf
<1>8. Withdrawals' = Withdrawals \cup {i}
    <2>1. \A j \in Ids : Owner(j)' = IF j = i THEN NoSession ELSE Owner(j)
        BY <1>7 DEF OwnerOf
    <2> QED
        BY <1>4, <2>1 DEF LaunchFails, Withdrawals
<1>9. /\ LaunchMayFail
      /\ stored' = stored \ {i} /\ UNCHANGED conn
    BY <1>1 DEF LaunchFails
<1>10. Ownership!Withdraw(i)
    BY <1>2, <1>3, <1>4, <1>5, <1>7, <1>8, <1>9
       DEF Ownership!Withdraw, OwnerOf, StageOf, Published, WaitOf
<1> QED
    BY <1>10

\* No other step changes which ids were taken back, or gives one to anybody.
LEMMA WithdrawalsKept ==
    ASSUME StoreInv, AnswerInv, AnswerInv', [Next]_vars,
           \A c \in Sessions : ~ LaunchFails(c)
    PROVE  UNCHANGED Withdrawals /\ \A j \in Withdrawals : OwnerOf'[j] = NoSession
<1> USE DEF StoreInv, Shape
<1>1. CASE UNCHANGED <<counter, OwnerOf>>
    <2>1. \A j \in Ids : Owner(j)' = Owner(j)
        BY <1>1 DEF OwnerOf
    <2> QED
        BY <1>1, <2>1 DEF Withdrawals, OwnerOf
<1>2. ASSUME NEW j \in Ids, WorkerStep(j) PROVE UNCHANGED <<counter, OwnerOf>>
    <2>1. UNCHANGED <<counter, pc, arg, mine>>
        BY <1>2, OneWorker DEF sessionVars
    <2>2. \A c \in Sessions : \A i \in Ids : Owns(c, i)' <=> Owns(c, i)
        BY <2>1 DEF Owns
    <2> QED
        BY <2>1, <2>2, OwnersKept, MappedKept DEF AnswerInv
<1>3. ASSUME NEW c \in Sessions, SessionStep(c) \/ ClientStep(c) \/ EndSession(c)
      PROVE  UNCHANGED Withdrawals /\ \A j \in Withdrawals : OwnerOf'[j] = NoSession
    <2>1. CASE Insert(c) /\ Admits /\ counter = arg[c]
        <3>1. /\ counter \in Ids /\ counter' = counter + 1
              /\ OwnerOf' = [OwnerOf EXCEPT ![counter] = c]
            BY <2>1, InsertOwners
        <3>2. \A j \in Ids : Owner(j)' = IF j = counter THEN c ELSE Owner(j)
            BY <3>1 DEF OwnerOf
        <3>3. \A j \in Ids : (j < counter' /\ Owner(j)' = NoSession)
                             <=> (j < counter /\ Owner(j) = NoSession)
            BY <3>1, <3>2, IdsFacts, NoSessionAssumption
        <3> QED
            BY <3>2, <3>3, IdsFacts DEF Withdrawals, OwnerOf
    <2>2. CASE Insert(c) /\ ~ (Admits /\ counter = arg[c])
        BY <1>1, <2>2, InsertOwners
    <2>3. CASE ~ Insert(c)
        <3>1. UNCHANGED OwnerOf
            BY <1>3, <2>3, SessionFrame
        <3>2. UNCHANGED counter
            BY <1>3, <2>3 DEF SessionStep, ClientStep, EndSession, Reserve, Launch,
               LaunchFails, AwaitRead, AwaitTimeout, CancelFlip, CancelCommit,
               CancelResolve, Reply, DrainNext, Evict, Close, Submit, Await, Cancel,
               HangUp, storeVars
        <3> QED
            BY <1>1, <3>1, <3>2
    <2> QED
        BY <2>1, <2>2, <2>3
<1>4. CASE UNCHANGED vars
    <2>1. UNCHANGED <<counter, pc, arg, mine>>
        BY <1>4 DEF vars, storeVars, sessionVars
    <2>2. \A c \in Sessions : \A i \in Ids : Owns(c, i)' <=> Owns(c, i)
        BY <2>1 DEF Owns
    <2> QED
        BY <1>1, <2>1, <2>2, OwnersKept, MappedKept DEF AnswerInv
<1> QED
    BY <1>1, <1>2, <1>3, <1>4 DEF Next

\* Every step of the store is one of the world or of the shell, or none.
LEMMA WorldSteps ==
    ASSUME StoreInv, AnswerInv, AnswerInv', AboutToStart, LeavesAnswered, LeaksAllowed,
           [Next]_vars
    PROVE  [Ownership!ShellStep]_Ownership!shell
<1>1. ASSUME NEW c \in Sessions, LaunchFails(c) PROVE Ownership!ShellStep
    BY <1>1, WithdrawRefines DEF Ownership!ShellStep
<1>2. CASE \A c \in Sessions : ~ LaunchFails(c)
    <2>1. UNCHANGED Withdrawals /\ \A j \in Withdrawals : OwnerOf'[j] = NoSession
        BY <1>2, WithdrawalsKept
    <2>2. [Ownership!Step]_Ownership!world \/ \E j \in Ids : Ownership!KeepLease(j)
        <3>1. ASSUME NEW j \in Ids, WorkerStep(j)
              PROVE  [Ownership!Step]_Ownership!world \/ Ownership!KeepLease(j)
            BY <2>1, <3>1, WorkerRefines
        <3>2. ASSUME NEW c \in Sessions, SessionStep(c) \/ ClientStep(c) \/ EndSession(c)
              PROVE  [Ownership!Step]_Ownership!world
            <4>1. CASE Insert(c)
                BY <4>1, InsertRefines
            <4>2. CASE \/ Reserve(c) \/ Launch(c) \/ CancelFlip(c) \/ CancelResolve(c)
                       \/ Reply(c) \/ DrainNext(c) \/ Submit(c) \/ Cancel(c) \/ HangUp(c)
                BY <4>2, SilentRefines
            <4>3. CASE Await(c) \/ AwaitRead(c) \/ AwaitTimeout(c)
                BY <4>3, AwaitRefines, AnswerRefines
            <4>4. CASE CancelCommit(c)
                BY <4>4, CommitRefines
            <4>5. CASE EndSession(c) \/ Close(c) \/ Evict(c)
                BY <4>5, EndRefines, CloseRefines, EvictRefines
            <4> QED
                BY <1>2, <3>2, <4>1, <4>2, <4>3, <4>4, <4>5 DEF SessionStep, ClientStep
        <3>3. CASE UNCHANGED vars
            <4>1. UNCHANGED <<conn, stored, worker, wire, pc, arg, mine>>
                BY <3>3 DEF vars, storeVars, workerVars, sessionVars
            <4>2. UNCHANGED <<OwnerOf, StageOf, Published, WaitOf>>
                BY <4>1, OwnersKept, MappedKept DEF AnswerInv, Owns, Waiting
            <4> QED
                BY <4>1, <4>2 DEF Ownership!world, OwnerOf, StageOf, Published, WaitOf
        <3> QED
            BY <3>1, <3>2, <3>3 DEF Next
    <2>3. CASE Ownership!Step
        BY <2>1, <2>3 DEF Ownership!ShellStep, OwnerOf
    <2>4. CASE UNCHANGED Ownership!world
        BY <2>1, <2>4 DEF Ownership!shell
    <2>5. CASE \E j \in Ids : Ownership!KeepLease(j)
        BY <2>5 DEF Ownership!ShellStep
    <2> QED
        BY <2>2, <2>3, <2>4, <2>5
<1> QED
    BY <1>1, <1>2

\* The critical sections of the store, of the job threads and of the
\* connections implement the world that AsyncOwnership.lean proves safe, for
\* any number of connections and any bounds, with the two steps which that
\* world leaves out: a submission that is taken back because its task cannot
\* be started, and a job whose token refuses to settle.
THEOREM OwnershipImplemented == Spec => ImplementsOwnership
<1>1. Init => Ownership!ShellInitial /\ LeaksAllowed
    <2> SUFFICES ASSUME Init PROVE Ownership!ShellInitial /\ LeaksAllowed
        OBVIOUS
    <2>1. counter = 0 /\ \A j \in Ids : ~ (j < 0)
        BY IdsFacts DEF Init
    <2>2. Withdrawals = {}
        BY <2>1 DEF Withdrawals
    <2> QED
        BY <2>2, WorldStarts DEF Ownership!ShellInitial, LeaksAllowed, Init
<1>2. StoreInv /\ LeaksAllowed /\ [Next]_vars => LeaksAllowed'
    BY LeakSteps
<1>3. StoreInv /\ AnswerInv /\ AnswerInv' /\ AboutToStart /\ LeavesAnswered
      /\ LeaksAllowed /\ [Next]_vars => [Ownership!ShellStep]_Ownership!shell
    BY WorldSteps
<1> QED
    BY <1>1, <1>2, <1>3, LeavesInvariant, PTL DEF Spec, ImplementsOwnership,
       Ownership!ShellWorld

\* Where launches do not fail and bodies return their leases this is the Lean
\* world itself: the two hypotheses are all that separates shell and core.
THEOREM LeanWorldImplemented ==
    ASSUME LaunchMayFail = FALSE, CleanupMayFail = FALSE
    PROVE  Spec => ImplementsLeanWorld
<1>1. Ownership!ShellInitial => Ownership!Initial
    BY DEF Ownership!ShellInitial
<1>2. [Ownership!ShellStep]_Ownership!shell => [Ownership!Step]_Ownership!world
    <2>1. \A i \in Ids : ~ Ownership!Withdraw(i) /\ ~ Ownership!KeepLease(i)
        BY DEF Ownership!Withdraw, Ownership!KeepLease
    <2>2. Ownership!ShellStep => Ownership!Step
        BY <2>1 DEF Ownership!ShellStep
    <2>3. UNCHANGED Ownership!shell => UNCHANGED Ownership!world
        BY DEF Ownership!shell
    <2> QED
        BY <2>2, <2>3
<1> QED
    BY <1>1, <1>2, OwnershipImplemented, PTL DEF ImplementsOwnership, ImplementsLeanWorld,
       Ownership!ShellWorld, Ownership!World
=============================================================================
