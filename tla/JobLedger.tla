----------------------------- MODULE JobLedger -----------------------------
(***************************************************************************)
(* The resource ledger of one asynchronous job (Job and Job.step of        *)
(* Core/AsyncResources.lean), under any history of accepted events.        *)
(*                                                                         *)
(* Each event is a guard and the record it leads to; the shell's job       *)
(* (module JobResources) raises an error where a guard refuses.            *)
(***************************************************************************)
EXTENDS Naturals

CONSTANT MaxGeneration  \* bound of the model on sequential child processes

ASSUME LedgerAssumption == MaxGeneration \in Nat

VARIABLE job

Resources == {"spec", "directory", "child"}

Leases == {"fresh", "held", "released"}

JobOutcomes == {"valid", "invalid", "traces", "failed", "cancelled"}

InitialJob(owned) ==
    [stage |-> "queued", slot |-> "fresh", owned |-> owned,
     lease |-> [r \in Resources |-> "fresh"], cancelled |-> FALSE,
     hook |-> FALSE, stop |-> FALSE, outcome |-> "none", generation |-> 0]

Held(j, r) == j.lease[r] = "held"

NoResources(j) == \A r \in Resources : ~Held(j, r)

CanStart(j) == j.stage = "queued" /\ j.slot = "fresh"

Started(j) == [j EXCEPT !.stage = "active", !.slot = "held"]

\* Only the child may be acquired again, and that is a new generation.
Reacquired(j, r) == r = "child" /\ j.lease[r] = "released"

CanAcquire(j, r) ==
    /\ j.stage = "active"
    /\ j.outcome \in {"none", "cancelled"}
    /\ j.lease[r] = "fresh" \/ Reacquired(j, r)
    /\ r = "spec" => j.owned
    /\ r = "child" => ~j.hook

Acquired(j, r) ==
    [j EXCEPT !.lease[r] = "held",
              !.generation = IF Reacquired(j, r) THEN @ + 1 ELSE @]

CanRelease(j, r) == Held(j, r)

Released(j, r) ==
    [j EXCEPT !.lease[r] = "released",
              !.hook = IF r = "child" THEN FALSE ELSE @]

CanInstallHook(j) == Held(j, "child") /\ ~j.hook

\* Faulty: a cancellation that came before the hook is forgotten.
HookInstalledLate(j) == [j EXCEPT !.hook = TRUE]

HookInstalled(j) == [j EXCEPT !.hook = TRUE, !.stop = j.cancelled \/ @]

CanRetireHook(j) == ~Held(j, "child")

HookRetired(j) == [j EXCEPT !.hook = FALSE]

Cancelled(j) == [j EXCEPT !.cancelled = TRUE, !.stop = j.hook \/ @]

CanPublish(j, o) ==
    \/ j.outcome # "none"
    \/ o \in {"failed", "cancelled"}
    \/ NoResources(j) /\ ~j.hook

Published(j, o) == [j EXCEPT !.outcome = IF @ = "none" THEN o ELSE @]

CanSettle(j) == j.stage = "active" /\ NoResources(j) /\ ~j.hook

Settled(j) == [j EXCEPT !.stage = "settled", !.slot = "released"]

-----------------------------------------------------------------------------
(* Any history of events *)

LedgerInit == \E owned \in BOOLEAN : job = InitialJob(owned)

Start == CanStart(job) /\ job' = Started(job)

Acquire(r) ==
    /\ CanAcquire(job, r)
    /\ Reacquired(job, r) => job.generation < MaxGeneration
    /\ job' = Acquired(job, r)

Release(r) == CanRelease(job, r) /\ job' = Released(job, r)

InstallHook == CanInstallHook(job) /\ job' = HookInstalled(job)

RetireHook == CanRetireHook(job) /\ job' = HookRetired(job)

RequestCancel == job' = Cancelled(job)

Publish(o) == CanPublish(job, o) /\ job' = Published(job, o)

SettleJob == CanSettle(job) /\ job' = Settled(job)

LedgerNext ==
    \/ Start \/ InstallHook \/ RetireHook \/ RequestCancel \/ SettleJob
    \/ \E r \in Resources : Acquire(r) \/ Release(r)
    \/ \E o \in JobOutcomes : Publish(o)

LedgerSpec == LedgerInit /\ [][LedgerNext]_job

-----------------------------------------------------------------------------
(* Properties *)

Jobs == [stage : {"queued", "active", "settled"}, slot : Leases,
         owned : BOOLEAN, lease : [Resources -> Leases],
         cancelled : BOOLEAN, hook : BOOLEAN, stop : BOOLEAN,
         outcome : JobOutcomes \cup {"none"},
         generation : 0 .. MaxGeneration]

LedgerTypeOK == job \in Jobs

\* The slot and every resource belong to an active job only.
SlotActive == job.slot = "held" <=> job.stage = "active"
ResourcesOwned == ~NoResources(job) => job.stage = "active"

\* A borrowed specification is never leased, so never deleted.
BorrowedSpec == ~job.owned => job.lease["spec"] = "fresh"

HookActive == job.hook => job.stage = "active" /\ Held(job, "child")

\* A cancelled job whose child is hooked has been asked to stop, whichever of
\* the cancellation and the hook came first.
LateCancellation == job.cancelled /\ job.hook => job.stop

\* Job.Valid of the Lean core: whatever the order of acquisitions, releases,
\* hooks, cancellations and publications (Job.step), the ledger is coherent.
LedgerValid ==
    SlotActive /\ ResourcesOwned /\ BorrowedSpec /\ HookActive /\ LateCancellation

\* A settled job holds nothing and nothing can be acquired for it any more:
\* neither a late cancellation nor a second settle reopens it (Job.step).
SettledIsFinal ==
    [][job.stage = "settled" =>
          /\ job'.stage = "settled" /\ job'.slot = "released"
          /\ NoResources(job') /\ ~job'.hook]_job

\* The published outcome never changes, whoever publishes after it, and a
\* verdict is published only when all resources are back (Job.step publish).
OutcomeFirst ==
    [][/\ job.outcome # "none" => job'.outcome = job.outcome
       /\ job.outcome = "none" /\ job'.outcome \in {"valid", "invalid", "traces"}
             => NoResources(job')]_job

\* A lease once given back is only taken again for the child, as the next
\* generation: no incarnation is released twice (Job.step acquire and release).
ReleasedOnce ==
    [][\A r \in Resources : job.lease[r] = "released" /\ job'.lease[r] # "released"
          => r = "child" /\ job'.generation = job.generation + 1]_job
=============================================================================
