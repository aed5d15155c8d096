-------------------------- MODULE JobLedgerProofs --------------------------
(***************************************************************************)
(* The ledger of one job, for every bound on the generations: what         *)
(* Core/AsyncResources.lean proves of Job.step, proved of JobLedger.       *)
(***************************************************************************)
EXTENDS JobLedger, TLAPS

\* The slot is taken once and given back once, along with the stage.
SlotMatchesStage ==
    /\ job.stage = "queued" => job.slot = "fresh"
    /\ job.stage = "settled" => job.slot = "released"

\* The shape of the record and the coherence of the ledger are inductive
\* together: the events read leases, flags and the stage of one record.
LedgerInv == LedgerTypeOK /\ LedgerValid /\ SlotMatchesStage

\* A new job, with an inline or with a borrowed specification, is coherent.
LEMMA LedgerStarts == LedgerInit => LedgerInv
BY LedgerAssumption
   DEF LedgerInit, LedgerInv, LedgerTypeOK, LedgerValid, Jobs, InitialJob,
       Leases, Resources, JobOutcomes, SlotActive, ResourcesOwned, BorrowedSpec,
       HookActive, LateCancellation, NoResources, Held, SlotMatchesStage

\* Job.step keeps the ledger coherent, event by event.
LEMMA LedgerSteps == LedgerInv /\ [LedgerNext]_job => LedgerInv'
<1> USE LedgerAssumption
        DEF LedgerInv, LedgerTypeOK, LedgerValid, Jobs, Leases, Resources,
            JobOutcomes, SlotActive, ResourcesOwned, BorrowedSpec, HookActive,
            LateCancellation, NoResources, Held, SlotMatchesStage
<1> SUFFICES ASSUME LedgerInv, [LedgerNext]_job PROVE LedgerInv'
    OBVIOUS
<1>1. CASE Start
    BY <1>1 DEF Start, CanStart, Started
<1>2. ASSUME NEW r \in Resources, Acquire(r) PROVE LedgerInv'
    <2> DEFINE g == IF Reacquired(job, r) THEN job.generation + 1
                    ELSE job.generation
    <2>1. job' = [job EXCEPT !.lease = [job.lease EXCEPT ![r] = "held"],
                             !.generation = g]
        BY <1>2 DEF Acquire, Acquired
    <2>2. g \in 0 .. MaxGeneration
        BY <1>2 DEF Acquire, Reacquired
    <2>3. /\ job.stage = "active"
          /\ r = "spec" => job.owned
          /\ r = "child" => ~job.hook
        BY <1>2 DEF Acquire, CanAcquire
    <2> HIDE DEF g
    <2>4. /\ job'.lease = [job.lease EXCEPT ![r] = "held"]
          /\ job'.generation = g
          /\ job'.stage = job.stage /\ job'.slot = job.slot
          /\ job'.owned = job.owned /\ job'.hook = job.hook
          /\ job'.cancelled = job.cancelled /\ job'.stop = job.stop
          /\ job' \in Jobs
        BY <2>1, <2>2
    <2> QED
        BY <2>3, <2>4
<1>3. ASSUME NEW r \in Resources, Release(r) PROVE LedgerInv'
    BY <1>3 DEF Release, CanRelease, Released
<1>4. CASE InstallHook
    BY <1>4 DEF InstallHook, CanInstallHook, HookInstalled
<1>5. CASE RetireHook
    BY <1>5 DEF RetireHook, CanRetireHook, HookRetired
<1>6. CASE RequestCancel
    BY <1>6 DEF RequestCancel, Cancelled
<1>7. ASSUME NEW o \in JobOutcomes, Publish(o) PROVE LedgerInv'
    BY <1>7 DEF Publish, CanPublish, Published
<1>8. CASE SettleJob
    BY <1>8 DEF SettleJob, CanSettle, Settled
<1>9. CASE UNCHANGED job
    BY <1>9
<1> QED
    BY <1>1, <1>2, <1>3, <1>4, <1>5, <1>6, <1>7, <1>8, <1>9 DEF LedgerNext

\* The inductive invariant holds in every history.
LEMMA LedgerInvariant == LedgerSpec => []LedgerInv
BY LedgerStarts, LedgerSteps, PTL DEF LedgerSpec

\* Every history of a job keeps its record in shape.
THEOREM LedgerTyped == LedgerSpec => []LedgerTypeOK
BY LedgerInvariant, PTL DEF LedgerInv

\* Every history of a job keeps its ledger coherent (Job.step_preserves and
\* reachable_valid of the Lean core).
THEOREM LedgerCoherent == LedgerSpec => []LedgerValid
BY LedgerInvariant, PTL DEF LedgerInv

-----------------------------------------------------------------------------

\* No event reopens a settled job or gives it a resource.
LEMMA SettledStep ==
    ASSUME LedgerInv, [LedgerNext]_job, job.stage = "settled"
    PROVE  /\ job'.stage = "settled" /\ job'.slot = "released"
           /\ NoResources(job') /\ ~job'.hook
<1> USE DEF LedgerInv, LedgerTypeOK, LedgerValid, Jobs, SlotActive,
            ResourcesOwned, HookActive, NoResources, Held, SlotMatchesStage
<1>1. /\ NoResources(job) /\ ~job.hook
      /\ job.slot = "released" /\ "child" \in Resources
    BY DEF Resources
<1>2. CASE RequestCancel
    BY <1>1, <1>2 DEF RequestCancel, Cancelled
<1>3. CASE RetireHook
    BY <1>1, <1>3 DEF RetireHook, HookRetired
<1>4. ASSUME NEW o \in JobOutcomes, Publish(o)
      PROVE  /\ job'.stage = "settled" /\ job'.slot = "released"
             /\ NoResources(job') /\ ~job'.hook
    BY <1>1, <1>4 DEF Publish, Published
<1>5. CASE UNCHANGED job
    BY <1>1, <1>5
<1> QED
    BY <1>1, <1>2, <1>3, <1>4, <1>5
       DEF LedgerNext, Start, CanStart, Acquire, CanAcquire, Release, CanRelease,
           InstallHook, CanInstallHook, SettleJob, CanSettle

\* A settled ledger stays settled and empty, whatever arrives late
\* (step_does_not_reopen and settled_no_leaks of the Lean core).
THEOREM LedgerSettlesOnce == LedgerSpec => SettledIsFinal
<1>1. LedgerInv /\ [LedgerNext]_job =>
        [job.stage = "settled" =>
            /\ job'.stage = "settled" /\ job'.slot = "released"
            /\ NoResources(job') /\ ~job'.hook]_job
    BY SettledStep
<1> QED
    BY <1>1, LedgerInvariant, PTL DEF LedgerSpec, SettledIsFinal

\* An outcome is published once, and a verdict over an empty ledger only.
LEMMA OutcomeStep ==
    ASSUME LedgerInv, [LedgerNext]_job
    PROVE  /\ job.outcome # "none" => job'.outcome = job.outcome
           /\ job.outcome = "none" /\ job'.outcome \in {"valid", "invalid", "traces"}
                => NoResources(job')
<1> USE DEF LedgerInv, LedgerTypeOK, Jobs
<1>1. ASSUME NEW o \in JobOutcomes, Publish(o)
      PROVE  /\ job.outcome # "none" => job'.outcome = job.outcome
             /\ job.outcome = "none"
                /\ job'.outcome \in {"valid", "invalid", "traces"}
                  => NoResources(job')
    BY <1>1 DEF Publish, CanPublish, Published, NoResources, Held
<1>2. ASSUME NEW r \in Resources, Acquire(r) PROVE job'.outcome = job.outcome
    BY <1>2 DEF Acquire, Acquired
<1>3. ASSUME NEW r \in Resources, Release(r) PROVE job'.outcome = job.outcome
    BY <1>3 DEF Release, Released
<1>4. ASSUME \/ Start \/ InstallHook \/ RetireHook \/ RequestCancel
             \/ SettleJob \/ UNCHANGED job
      PROVE  job'.outcome = job.outcome
    BY <1>4 DEF Start, Started, InstallHook, HookInstalled, RetireHook,
       HookRetired, RequestCancel, Cancelled, SettleJob, Settled
<1> QED
    BY <1>1, <1>2, <1>3, <1>4 DEF LedgerNext

\* Completion and cancellation race to publish; the first one stays and a
\* verdict never covers a held resource (terminal_stable of the Lean core).
THEOREM LedgerOutcomeFirst == LedgerSpec => OutcomeFirst
<1>1. LedgerInv /\ [LedgerNext]_job =>
        [/\ job.outcome # "none" => job'.outcome = job.outcome
         /\ job.outcome = "none" /\ job'.outcome \in {"valid", "invalid", "traces"}
              => NoResources(job')]_job
    BY OutcomeStep
<1> QED
    BY <1>1, LedgerInvariant, PTL DEF LedgerSpec, OutcomeFirst

\* Only the child is taken again after its release, as the next generation.
LEMMA ReleaseStep ==
    ASSUME LedgerInv, [LedgerNext]_job, NEW r \in Resources,
           job.lease[r] = "released", job'.lease[r] # "released"
    PROVE  r = "child" /\ job'.generation = job.generation + 1
<1> USE DEF LedgerInv, LedgerTypeOK, Jobs
<1>1. ASSUME NEW q \in Resources, Acquire(q)
      PROVE  r = "child" /\ job'.generation = job.generation + 1
    BY <1>1 DEF Acquire, CanAcquire, Acquired, Reacquired
<1>2. ASSUME NEW q \in Resources, Release(q) PROVE job'.lease[r] = "released"
    BY <1>2 DEF Release, Released
<1>3. ASSUME NEW o \in JobOutcomes, Publish(o) PROVE job'.lease = job.lease
    BY <1>3 DEF Publish, Published
<1>4. ASSUME \/ Start \/ InstallHook \/ RetireHook \/ RequestCancel
             \/ SettleJob \/ UNCHANGED job
      PROVE  job'.lease = job.lease
    BY <1>4 DEF Start, Started, InstallHook, HookInstalled, RetireHook,
       HookRetired, RequestCancel, Cancelled, SettleJob, Settled
<1> QED
    BY <1>1, <1>2, <1>3, <1>4 DEF LedgerNext

\* No incarnation of a resource is released twice
\* (released_has_no_further_release of the Lean core).
THEOREM LedgerReleasedOnce == LedgerSpec => ReleasedOnce
<1>1. LedgerInv /\ [LedgerNext]_job =>
        [\A r \in Resources : job.lease[r] = "released" /\ job'.lease[r] # "released"
            => r = "child" /\ job'.generation = job.generation + 1]_job
    BY ReleaseStep
<1> QED
    BY <1>1, LedgerInvariant, PTL DEF LedgerSpec, ReleasedOnce
=============================================================================
