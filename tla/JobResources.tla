---------------------------- MODULE JobResources ----------------------------
(***************************************************************************)
(* What a job body does inside its slot: the temporary directories and the *)
(* model-checker processes of one job, its ledger (module JobLedger), and  *)
(* the connections that cancel it at any moment.                           *)
(*                                                                         *)
(* Sources: jobThread, runJobBody and CancelToken of Shell/Jobs/Store.lean,*)
(* withAcquiredJobScope of Shell/Apalache/Runner.lean,                     *)
(* runApalacheCancellable of Shell/Apalache/Cli.lean and materializeSpec   *)
(* of Shell/Apalache/SpecSource.lean.  An action is one critical section   *)
(* of the token or of the store, or one effect on the machine.             *)
(***************************************************************************)
EXTENDS JobLedger

CONSTANTS
    Cancellers,    \* the connections that cancel the job
    WriteMayFail,  \* whether writing a source of the specification may fail
    RemoveMayFail  \* whether removing a directory may raise

ASSUME JobResourcesAssumption ==
    WriteMayFail \in BOOLEAN /\ RemoveMayFail \in BOOLEAN

\* The processes a body runs one after another: validation runs a type check
\* and then the check, trace generation one process.
Runs == 0 .. MaxGeneration

VARIABLES
    hooks,    \* the runs whose kill hook is registered with the token
    pc,       \* where the job's thread is
    run,      \* the run it is at
    result,   \* what the body will return
    proc,     \* the process of each run
    killed,   \* the runs whose process was sent a kill
    specDir,  \* whether the materialized specification is on disk
    runDir,   \* whether the run directory is on disk
    cpc,      \* where each canceller is
    claims    \* the hooks a canceller has claimed and not yet run

world == <<hooks, run, proc, killed, specDir, runDir>>
cancelVars == <<cpc, claims>>
vars == <<job, pc, result, world, cancelVars>>

Verdict == "valid"

-----------------------------------------------------------------------------
(* Steps of the thread *)

Go(here, there) == pc = here /\ pc' = there

Fail(there) == pc' = there /\ result' = "failed"

\* token.resourceEvent of the thread: an event the ledger refuses is raised.
Acknowledge(here, accepted, next, there, raised) ==
    /\ pc = here
    /\ IF accepted THEN job' = next /\ pc' = there /\ UNCHANGED result
       ELSE Fail(raised) /\ UNCHANGED job
    /\ UNCHANGED <<world, cancelVars>>

\* The finally block that releases a lease if it was acquired.
ReleaseHeld(here, r, there) ==
    /\ Go(here, there)
    /\ job' = IF Held(job, r) THEN Released(job, r) ELSE job
    /\ UNCHANGED <<result, world, cancelVars>>

\* Faulty: a token is never found cancelled.
CheckTokenMisses(here, there, bail) ==
    /\ Go(here, there)
    /\ UNCHANGED <<job, result, world, cancelVars>>

CheckToken(here, there, bail) ==
    /\ pc = here
    /\ IF job.cancelled THEN Fail(bail) ELSE pc' = there /\ UNCHANGED result
    /\ UNCHANGED <<job, world, cancelVars>>

StartJob ==
    /\ Go("queued", "pickup")
    /\ CanStart(job)
    /\ job' = Started(job)
    /\ UNCHANGED <<result, world, cancelVars>>

\* A job that was cancelled while it waited for its slot does not run.
PickUp ==
    /\ Go("pickup", IF job.outcome = "none" THEN "check" ELSE "settle")
    /\ UNCHANGED <<job, result, world, cancelVars>>

CheckBeforeBody == CheckToken("check", "enter", "publish")
CheckBeforeAcquire == CheckToken("enter", "acquire", "publish")

\* acquireSpec: a borrowed specification is used in place; an inline one is
\* refused, or written to a directory of its own.  When a write fails the
\* error leaves the new directory behind, and no lease is recorded for it.
AcquireSpec ==
    /\ pc = "acquire"
    /\ \/ ~job.owned /\ pc' = "afterSpec" /\ UNCHANGED <<result, specDir>>
       \/ job.owned /\ pc' = "ownSpec" /\ specDir' = TRUE /\ UNCHANGED result
       \/ job.owned /\ Fail("publish") /\ UNCHANGED specDir
       \/ job.owned /\ WriteMayFail /\ Fail("publish") /\ specDir' = TRUE
    /\ UNCHANGED <<job, hooks, run, proc, killed, runDir, cancelVars>>

OwnSpec ==
    Acknowledge("ownSpec", CanAcquire(job, "spec"), Acquired(job, "spec"),
                "afterSpec", "unspec")

CheckAfterSpec == CheckToken("afterSpec", "makeDir", "unspec")

MakeRunDir ==
    /\ pc = "makeDir"
    /\ \/ pc' = "ownDir" /\ runDir' = TRUE /\ UNCHANGED result
       \/ Fail("unspec") /\ UNCHANGED runDir
    /\ UNCHANGED <<job, hooks, run, proc, killed, specDir, cancelVars>>

OwnRunDir ==
    Acknowledge("ownDir", CanAcquire(job, "directory"),
                Acquired(job, "directory"), "afterDir", "undir")

CheckAfterDir == CheckToken("afterDir", "call", "undir")
CheckBeforeSpawn == CheckToken("call", "spawn", "undir")

Spawn ==
    /\ pc = "spawn"
    /\ \/ /\ proc' = [proc EXCEPT ![run] = "running"]
          /\ pc' = "ownChild"
          /\ UNCHANGED result
       \/ Fail("undir") /\ UNCHANGED proc
    /\ UNCHANGED <<job, hooks, run, killed, specDir, runDir, cancelVars>>

OwnChild ==
    Acknowledge("ownChild", CanAcquire(job, "child"), Acquired(job, "child"),
                "hook", "abort")

\* Faulty: the hook joins the registry although it has been emptied.
RegisterHookLate ==
    /\ pc = "hook"
    /\ job' = HookInstalled(job)
    /\ hooks' = hooks \cup {run}
    /\ pc' = "collect"
    /\ UNCHANGED <<result, run, proc, killed, specDir, runDir, cancelVars>>

\* registerChildCleanup: ledger and registry in one critical section; on a
\* cancelled token the hook is not registered but run, after the unlock.
RegisterHook ==
    /\ pc = "hook"
    /\ IF CanInstallHook(job)
       THEN /\ job' = HookInstalled(job)
            /\ IF job.cancelled
               THEN pc' = "killLate" /\ UNCHANGED hooks
               ELSE pc' = "collect" /\ hooks' = hooks \cup {run}
            /\ UNCHANGED result
       ELSE Fail("abort") /\ UNCHANGED <<job, hooks>>
    /\ UNCHANGED <<run, proc, killed, specDir, runDir, cancelVars>>

Kill(n) == killed' = [killed EXCEPT ![n] = TRUE]

KillLate ==
    /\ Go("killLate", "collect")
    /\ Kill(run)
    /\ UNCHANGED <<job, result, hooks, run, proc, specDir, runDir, cancelVars>>

Ended(n) == proc[n] \in {"exited", "died"}

Reap == proc' = [proc EXCEPT ![run] = "reaped"]

\* collectApalache waits for the process.  One that was killed has no verdict;
\* one that exited has one, failed, or leads to the next run.
Collect ==
    /\ Go("collect", "retire")
    /\ Ended(run)
    /\ Reap
    /\ \/ result' = "failed"
       \/ proc[run] = "exited" /\ result' = Verdict
       \/ proc[run] = "exited" /\ run < MaxGeneration /\ UNCHANGED result
    /\ UNCHANGED <<job, hooks, run, killed, specDir, runDir, cancelVars>>

\* Reading a pipe raises, whether the process still runs or not; then the
\* finally block kills and reaps it.
CollectRaises ==
    /\ pc = "collect"
    /\ Fail("abort")
    /\ UNCHANGED <<job, world, cancelVars>>

Abort ==
    /\ Go("abort", "reap")
    /\ Kill(run)
    /\ UNCHANGED <<job, result, hooks, run, proc, specDir, runDir, cancelVars>>

\* Faulty: the process is sent its kill and not waited for.
ReapAbortedAtOnce ==
    /\ Go("reap", "retire")
    /\ UNCHANGED <<job, result, world, cancelVars>>

ReapAborted ==
    /\ Go("reap", "retire")
    /\ Ended(run)
    /\ Reap
    /\ UNCHANGED <<job, result, hooks, run, killed, specDir, runDir, cancelVars>>

Retire ==
    /\ Go("retire", "release")
    /\ hooks' = hooks \ {run}
    /\ UNCHANGED <<job, result, run, proc, killed, specDir, runDir, cancelVars>>

ReleaseChild ==
    /\ pc = "release"
    /\ job' = IF Held(job, "child") THEN Released(job, "child") ELSE job
    /\ IF result = "none" THEN pc' = "call" /\ run' = run + 1
       ELSE pc' = "undir" /\ UNCHANGED run
    /\ UNCHANGED <<result, hooks, proc, killed, specDir, runDir, cancelVars>>

\* Faulty: a directory that cannot be removed is released nevertheless.
RemoveRunDirIgnoring ==
    /\ pc = "undir"
    /\ \/ pc' = "relDir" /\ runDir' = FALSE
       \/ RemoveMayFail /\ pc' = "relDir" /\ UNCHANGED runDir
    /\ UNCHANGED <<job, result, hooks, run, proc, killed, specDir, cancelVars>>

\* removeSessionDir, in the finally block of the run directory; when it raises
\* the lease is not released.
RemoveRunDir ==
    /\ pc = "undir"
    /\ \/ pc' = "relDir" /\ runDir' = FALSE /\ UNCHANGED result
       \/ RemoveMayFail /\ Fail("unspec") /\ UNCHANGED runDir
    /\ UNCHANGED <<job, hooks, run, proc, killed, specDir, cancelVars>>

ReleaseRunDir == ReleaseHeld("relDir", "directory", "unspec")

\* releaseSpec does nothing for a borrowed specification.
RemoveSpec ==
    /\ pc = "unspec"
    /\ \/ pc' = "relSpec" /\ specDir' = FALSE /\ UNCHANGED result
       \/ RemoveMayFail /\ job.owned /\ Fail("publish") /\ UNCHANGED specDir
    /\ UNCHANGED <<job, hooks, run, proc, killed, runDir, cancelVars>>

ReleaseSpec == ReleaseHeld("relSpec", "spec", "publish")

\* applyEvent: a job that is terminal already absorbs the result, and a result
\* the ledger refuses becomes a failure.
PublishResult ==
    /\ pc = "publish"
    /\ IF job.outcome = "none" /\ ~CanPublish(job, result)
       THEN Fail("publish") /\ UNCHANGED job
       ELSE pc' = "settle" /\ job' = Published(job, result) /\ UNCHANGED result
    /\ UNCHANGED <<world, cancelVars>>

Settle ==
    Acknowledge("settle", CanSettle(job), Settled(job), "done", "raised")

-----------------------------------------------------------------------------
(* The machine and the cancellers *)

Exits(n) ==
    /\ proc[n] = "running"
    /\ proc' = [proc EXCEPT ![n] = "exited"]
    /\ UNCHANGED <<job, pc, result, hooks, run, killed, specDir, runDir, cancelVars>>

Dies(n) ==
    /\ proc[n] = "running"
    /\ killed[n]
    /\ proc' = [proc EXCEPT ![n] = "died"]
    /\ UNCHANGED <<job, pc, result, hooks, run, killed, specDir, runDir, cancelVars>>

Step(c, here, there) == cpc[c] = here /\ cpc' = [cpc EXCEPT ![c] = there]

\* cancelJob finds the token of a job that is not terminal ...
FindToken(c) ==
    /\ Step(c, "idle", "flip")
    /\ job.outcome = "none"
    /\ UNCHANGED <<job, pc, result, world, claims>>

\* ... flips it and takes all its hooks in one critical section ...
Flip(c) ==
    /\ Step(c, "flip", "run")
    /\ job' = Cancelled(job)
    /\ claims' = [claims EXCEPT ![c] = hooks]
    /\ hooks' = {}
    /\ UNCHANGED <<pc, result, run, proc, killed, specDir, runDir>>

\* ... runs them outside the lock ...
RunHook(c) ==
    /\ cpc[c] = "run"
    /\ \E n \in claims[c] :
          Kill(n) /\ claims' = [claims EXCEPT ![c] = @ \ {n}]
    /\ UNCHANGED <<job, pc, result, hooks, run, proc, specDir, runDir, cpc>>

\* Faulty: the cancellation replaces an outcome published meanwhile.
CommitCancelAlways(c) ==
    /\ Step(c, "run", "done")
    /\ claims[c] = {}
    /\ job' = [job EXCEPT !.outcome = "cancelled"]
    /\ UNCHANGED <<pc, result, world, claims>>

\* ... and commits the cancellation under the store lock.
CommitCancel(c) ==
    /\ Step(c, "run", "done")
    /\ claims[c] = {}
    /\ job' = Published(job, "cancelled")
    /\ UNCHANGED <<pc, result, world, claims>>

Cancel(c) == FindToken(c) \/ Flip(c) \/ RunHook(c) \/ CommitCancel(c)

-----------------------------------------------------------------------------

Init ==
    /\ LedgerInit
    /\ hooks = {}
    /\ pc = "queued"
    /\ run = 0
    /\ result = "none"
    /\ proc = [n \in Runs |-> "none"]
    /\ killed = [n \in Runs |-> FALSE]
    /\ specDir = FALSE
    /\ runDir = FALSE
    /\ cpc = [c \in Cancellers |-> "idle"]
    /\ claims = [c \in Cancellers |-> {}]

\* What the thread does in its slot, unless a read fails.
Work ==
    \/ PickUp \/ CheckBeforeBody \/ CheckBeforeAcquire \/ AcquireSpec
    \/ OwnSpec \/ CheckAfterSpec \/ MakeRunDir \/ OwnRunDir \/ CheckAfterDir
    \/ CheckBeforeSpawn \/ Spawn \/ OwnChild \/ RegisterHook \/ KillLate
    \/ Collect \/ Abort \/ ReapAborted \/ Retire
    \/ ReleaseChild \/ RemoveRunDir \/ ReleaseRunDir \/ RemoveSpec
    \/ ReleaseSpec \/ PublishResult \/ Settle

Next ==
    \/ StartJob \/ Work \/ CollectRaises
    \/ \E n \in Runs : Exits(n) \/ Dies(n)
    \/ \E c \in Cancellers : Cancel(c)

Spec == Init /\ [][Next]_vars

\* The thread runs on, a killed process dies, and a canceller runs on once it
\* has flipped the token.  Nothing makes a process exit by itself.
Fairness ==
    /\ WF_vars(Work)
    /\ \A n \in Runs : WF_vars(Dies(n))
    /\ \A c \in Cancellers : WF_vars(RunHook(c) \/ CommitCancel(c))

FairSpec == Spec /\ Fairness

-----------------------------------------------------------------------------
(* Properties *)

Points == {"queued", "pickup", "check", "enter", "acquire", "ownSpec",
           "afterSpec", "makeDir", "ownDir", "afterDir", "call", "spawn",
           "ownChild", "hook", "killLate", "collect", "abort", "reap", "retire",
           "release", "undir", "relDir", "unspec", "relSpec", "publish",
           "settle", "done", "raised"}

TypeOK ==
    /\ LedgerTypeOK
    /\ hooks \in SUBSET Runs
    /\ pc \in Points
    /\ run \in Runs
    /\ result \in {"none", "failed", Verdict}
    /\ proc \in [Runs -> {"none", "running", "exited", "died", "reaped"}]
    /\ killed \in [Runs -> BOOLEAN]
    /\ specDir \in BOOLEAN
    /\ runDir \in BOOLEAN
    /\ cpc \in [Cancellers -> {"idle", "flip", "run", "done"}]
    /\ claims \in [Cancellers -> SUBSET Runs]

\* A cancellation racing with the start of a process never misses it: once the
\* thread waits for a process of a cancelled job, the process has been sent a
\* kill or somebody is about to send it (registerChildCleanup and cancel).
KillNotMissed ==
    job.cancelled /\ pc = "collect" =>
        killed[run] \/ \E c \in Cancellers : run \in claims[c]

\* Whatever the timing of a cancellation, the ledger refuses no event of the
\* thread; it refuses a verdict or a settle only after a removal raised.
LedgerAccepts ==
    /\ pc = "ownSpec"  => CanAcquire(job, "spec")
    /\ pc = "ownDir"   => CanAcquire(job, "directory")
    /\ pc = "ownChild" => CanAcquire(job, "child")
    /\ pc = "hook"     => CanInstallHook(job)
    /\ pc = "publish" /\ ~runDir /\ ~specDir => CanPublish(job, result)
    /\ pc = "settle"  /\ ~runDir /\ ~specDir => CanSettle(job)

\* A process that is not reaped is the current run's, and is on the ledger
\* unless it was started in this very moment; so is a run directory.  What the
\* ledger does not hold is not there (the acknowledgements of
\* runApalacheCancellable and withAcquiredJobScope).
LedgerTruthful ==
    /\ \A n \in Runs : proc[n] \notin {"none", "reaped"} =>
          n = run /\ (Held(job, "child") \/ pc = "ownChild")
    /\ runDir => Held(job, "directory") \/ pc = "ownDir"

\* Ledger and world agree at every step of the thread: the ledger takes every
\* event that is due and holds what exists (withAcquiredJobScope).
LedgerFits == LedgerAccepts /\ LedgerTruthful

\* Two cancellations never hold the same hook, and none is both claimed and
\* registered: a hook runs at most once (Cancellation.cancel).
HooksClaimedOnce ==
    \A c \in Cancellers :
        /\ claims[c] \cap hooks = {}
        /\ \A d \in Cancellers \ {c} : claims[c] \cap claims[d] = {}

\* Once a process has been sent a kill, by a cancellation that may come at any
\* time or by the thread itself, the body starts no further process.
KilledRunIsLast ==
    \A n, m \in Runs : killed[n] /\ m > n => proc[m] = "none"

\* A cancellation at any moment kills exactly the process that runs: it is not
\* missed, its hook runs once, and no further process is started.
CancellationKillsOnce == KillNotMissed /\ HooksClaimedOnce /\ KilledRunIsLast

ProcessesGone == \A n \in Runs : proc[n] \in {"none", "reaped"}

\* When a verdict is told, and when the ledger settles, every process is reaped
\* and both directories are gone, also when a removal raised on the way; but
\* for a directory no scope ever owned (runJobBody, jobThread).
NothingLeftBehind ==
    /\ job.outcome = Verdict => ~runDir /\ ~specDir /\ ProcessesGone
    /\ job.stage = "settled" =>
          ~runDir /\ ProcessesGone /\ (specDir => job.lease["spec"] = "fresh")

\* What the documents say: a settled job has left no directory of its own.
SettledLeavesNothing ==
    job.stage = "settled" => ~runDir /\ ~specDir /\ ProcessesGone

\* Every history of the job is a history of the ledger the Lean core proves
\* its theorems about.
ImplementsLedger == LedgerSpec

\* A cancelled job that has its slot ends, although its processes may run
\* forever unless killed: this is what JobStore assumes of bodies.
CancelledBodyEnds ==
    job.cancelled /\ pc # "queued" ~> pc \in {"done", "raised"}

(***************************************************************************)
(* How far the thread is.  A body has a bounded number of steps left,      *)
(* counted down by each step it takes and by no step of a canceller.       *)
(***************************************************************************)

\* The steps to the end at most, from each place, without a further process.
StepsFrom ==
    [queued |-> 27, pickup |-> 26, check |-> 25, enter |-> 24, acquire |-> 23,
     ownSpec |-> 22, afterSpec |-> 21, makeDir |-> 20, ownDir |-> 19,
     afterDir |-> 18, call |-> 17, spawn |-> 16, ownChild |-> 15, hook |-> 14,
     killLate |-> 13, collect |-> 12, abort |-> 11, reap |-> 10, retire |-> 9,
     release |-> 8, undir |-> 7, relDir |-> 6, unspec |-> 5, relSpec |-> 4,
     publish |-> 2, settle |-> 1, done |-> 0, raised |-> 0]

\* Ten more for each process that may still be started, and one for a result
\* that the ledger may refuse (applyEvent).
BodyLeft ==
    10 * (MaxGeneration - run) + StepsFrom[pc]
        + (IF pc = "publish" /\ result # "failed" THEN 1 ELSE 0)

\* Every step of the thread, whatever fails in it, brings a body nearer to its
\* end; no cancellation takes it back.
BodyCountsDown == [][BodyLeft' < BodyLeft \/ UNCHANGED <<pc, run, result>>]_vars

\* The body waits for a process and for nothing else, and in a cancelled job or
\* after a failure (runApalacheCancellable's finally) only for one that has
\* ended, was sent a kill, or is about to be sent it by a canceller.
WaitsOnlyForMortal ==
    /\ pc \in {"collect", "reap"} => proc[run] \in {"running", "exited", "died"}
    /\ pc = "reap" \/ (pc = "collect" /\ job.cancelled) =>
          \/ killed[run]
          \/ \E c \in Cancellers : cpc[c] = "run" /\ run \in claims[c]
=============================================================================
