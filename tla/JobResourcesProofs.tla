------------------------- MODULE JobResourcesProofs -------------------------
(***************************************************************************)
(* One job with its directories, processes and cancellers, for any number  *)
(* of cancellers and of runs: the ledger agrees with the world at every    *)
(* step of the thread, a cancellation kills exactly the process that runs, *)
(* and nothing but what the code never owned is left behind.               *)
(***************************************************************************)
EXTENDS JobResources, JobLedgerProofs

-----------------------------------------------------------------------------
(* Where the thread is *)

\* Before the specification, before the run directory, with it, with a child.
NoSpecYet == {"queued", "pickup", "check", "enter", "acquire"}
NoDirYet == NoSpecYet \cup {"ownSpec", "afterSpec", "makeDir"}
WithChild == {"hook", "killLate", "collect", "abort", "reap", "retire", "release"}
BeforeChild == {"call", "spawn", "ownChild"}
WithDir == {"afterDir", "undir"} \cup BeforeChild \cup WithChild
SpecTaken ==
    {"afterSpec", "makeDir", "ownDir", "relDir", "unspec"} \cup WithDir

\* The finally blocks, and what comes after them.
Unwinding == {"undir", "relDir", "unspec", "relSpec", "publish"}
Over == {"settle", "done", "raised"}

-----------------------------------------------------------------------------
(* The inductive invariant *)

Shape ==
    /\ hooks \in SUBSET Runs
    /\ pc \in Points
    /\ run \in Runs
    /\ result \in {"none", "failed", Verdict}
    /\ proc \in [Runs -> {"none", "running", "exited", "died", "reaped"}]
    /\ killed \in [Runs -> BOOLEAN]
    /\ specDir \in BOOLEAN
    /\ runDir \in BOOLEAN
    /\ cpc \in [Cancellers -> {"idle", "flip", "run", "done"}]
    /\ claims \in [Cancellers -> SUBSET Runs]

\* The stage follows the thread, and only the thread publishes anything but a
\* cancellation, at its end.
StageAt ==
    /\ job.stage = "queued" <=> pc = "queued"
    /\ job.stage = "settled" <=> pc = "done"
    /\ job.outcome \in {"none", "cancelled"} \/ pc \in Over

\* The materialized specification and its lease.  A directory without a lease
\* remains only of a write that failed.
SpecAt ==
    /\ pc \in NoSpecYet => ~specDir /\ job.lease["spec"] = "fresh"
    /\ pc = "ownSpec" => specDir /\ job.owned /\ job.lease["spec"] = "fresh"
    /\ pc \in SpecTaken =>
          /\ specDir <=> job.owned
          /\ job.lease["spec"] = IF job.owned THEN "held" ELSE "fresh"
    /\ pc = "relSpec" => ~specDir
    /\ pc \in Over \cup {"publish"} =>
          /\ Held(job, "spec") => specDir
          /\ specDir => job.lease["spec"] # "released"
          /\ specDir /\ ~Held(job, "spec") => result = "failed" /\ WriteMayFail

\* The run directory and its lease: they differ only between one effect and
\* its acknowledgement.
DirAt ==
    /\ pc \in NoDirYet \cup {"ownDir"} => job.lease["directory"] = "fresh"
    /\ pc \in NoDirYet \cup {"relDir"} => ~runDir
    /\ pc = "ownDir" => runDir
    /\ pc \in WithDir => runDir
    /\ pc \in WithDir \cup {"relDir"} => Held(job, "directory")
    /\ pc \in Over \cup {"unspec", "relSpec", "publish"} =>
          (runDir <=> Held(job, "directory"))

\* The lease of the child, its generation and its hook.
ChildAt ==
    /\ Held(job, "child") <=> pc \in WithChild
    /\ pc = "hook" => ~job.hook
    /\ job.generation <= run
    /\ pc \in BeforeChild /\ job.lease["child"] = "released" => job.generation < run
    /\ pc \in NoDirYet \cup {"ownDir", "afterDir"} => job.lease["child"] = "fresh"

ResultAt ==
    /\ pc \in NoDirYet \cup {"ownDir", "afterDir", "hook", "killLate", "collect"}
                       \cup BeforeChild => result = "none"
    /\ pc \in {"abort", "reap"} => result = "failed"
    /\ pc \in Unwinding => result # "none"
    /\ pc \in {"retire", "release"} /\ result = "none" => run < MaxGeneration

\* The earlier processes are reaped, the later ones not started.
ProcAt ==
    /\ \A n \in Runs : n > run => proc[n] = "none"
    /\ \A n \in Runs : n < run => proc[n] = "reaped"
    /\ pc \in NoDirYet \cup {"ownDir", "afterDir", "call", "spawn"} =>
          proc[run] = "none"
    /\ pc \in {"ownChild", "hook", "killLate", "collect", "abort", "reap"} =>
          proc[run] \in {"running", "exited", "died"}
    /\ pc \in {"retire", "release"} => proc[run] = "reaped"
    /\ pc \in Unwinding \cup Over => proc[run] \in {"none", "reaped"}

Claimed(n) == \E c \in Cancellers : n \in claims[c]

\* A kill of the process of a run has been sent or is due.
Doomed(n) == killed[n] \/ Claimed(n)

\* Only the current run is hooked, and no run of a cancelled job is; what a
\* canceller claimed it claimed alone.
HooksAt ==
    /\ hooks \subseteq {run}
    /\ hooks # {} => pc \in {"collect", "abort", "reap", "retire"}
    /\ job.cancelled => hooks = {}
    /\ pc = "killLate" => job.cancelled
    /\ pc = "collect" => run \in hooks \/ Doomed(run)
    /\ \A c \in Cancellers : cpc[c] # "run" => claims[c] = {}
    /\ \A n \in Runs : Claimed(n) => job.cancelled
    /\ \A c, d \in Cancellers : claims[c] # {} /\ claims[d] # {} => c = d

\* A kill comes with a cancelled token or a failed result, either of which
\* keeps the thread from the next spawn.
DoomedLast ==
    /\ \A n \in Runs : Doomed(n) => job.cancelled \/ result = "failed"
    /\ \A n \in Runs : pc = "spawn" => ~Doomed(n)
    /\ \A n, m \in Runs : Doomed(n) /\ m > n => proc[m] = "none"

VerdictAt ==
    job.outcome \notin {"none", "cancelled", "failed"} =>
        ~runDir /\ ~specDir /\ ProcessesGone

JobInv ==
    /\ LedgerInv /\ Shape /\ StageAt /\ SpecAt /\ DirAt /\ ChildAt
    /\ ResultAt /\ ProcAt /\ HooksAt /\ DoomedLast /\ VerdictAt

-----------------------------------------------------------------------------
(* What the events do to the ledger *)

\* The events of the ledger, field by field.
LEMMA AcquiredFields ==
    ASSUME NEW j \in Jobs, NEW r \in Resources
    PROVE  /\ Acquired(j, r).stage = j.stage
           /\ Acquired(j, r).owned = j.owned
           /\ Acquired(j, r).cancelled = j.cancelled
           /\ Acquired(j, r).hook = j.hook
           /\ Acquired(j, r).outcome = j.outcome
           /\ \A q \in Resources : Acquired(j, r).lease[q] = IF q = r THEN "held" ELSE j.lease[q]
           /\ Acquired(j, r).generation = IF Reacquired(j, r) THEN j.generation + 1
                                             ELSE j.generation
BY DEF Jobs, Acquired, Resources

\* What a release changes.
LEMMA ReleasedFields ==
    ASSUME NEW j \in Jobs, NEW r \in Resources
    PROVE  /\ Released(j, r).stage = j.stage
           /\ Released(j, r).owned = j.owned
           /\ Released(j, r).cancelled = j.cancelled
           /\ Released(j, r).outcome = j.outcome
           /\ Released(j, r).generation = j.generation
           /\ \A q \in Resources : Released(j, r).lease[q] = IF q = r THEN "released" ELSE j.lease[q]
           /\ Released(j, r).hook = IF r = "child" THEN FALSE ELSE j.hook
BY DEF Jobs, Released, Resources

\* What a publication changes.
LEMMA PublishedFields ==
    ASSUME NEW j \in Jobs, NEW o
    PROVE  /\ Published(j, o).stage = j.stage
           /\ Published(j, o).owned = j.owned
           /\ Published(j, o).lease = j.lease
           /\ Published(j, o).cancelled = j.cancelled
           /\ Published(j, o).hook = j.hook
           /\ Published(j, o).generation = j.generation
           /\ Published(j, o).outcome = IF j.outcome = "none" THEN o ELSE j.outcome
BY DEF Jobs, Published

\* What a request to cancel changes.
LEMMA CancelledFields ==
    ASSUME NEW j \in Jobs
    PROVE  /\ Cancelled(j).stage = j.stage
           /\ Cancelled(j).owned = j.owned
           /\ Cancelled(j).lease = j.lease
           /\ Cancelled(j).hook = j.hook
           /\ Cancelled(j).outcome = j.outcome
           /\ Cancelled(j).generation = j.generation
           /\ Cancelled(j).cancelled = TRUE
BY DEF Jobs, Cancelled

\* What a hook changes.
LEMMA HookFields ==
    ASSUME NEW j \in Jobs
    PROVE  /\ HookInstalled(j).stage = j.stage
           /\ HookInstalled(j).owned = j.owned
           /\ HookInstalled(j).lease = j.lease
           /\ HookInstalled(j).cancelled = j.cancelled
           /\ HookInstalled(j).outcome = j.outcome
           /\ HookInstalled(j).generation = j.generation
           /\ HookInstalled(j).hook = TRUE
BY DEF Jobs, HookInstalled

\* What the start changes.
LEMMA StartedFields ==
    ASSUME NEW j \in Jobs
    PROVE  /\ Started(j).owned = j.owned
           /\ Started(j).lease = j.lease
           /\ Started(j).cancelled = j.cancelled
           /\ Started(j).hook = j.hook
           /\ Started(j).outcome = j.outcome
           /\ Started(j).generation = j.generation
           /\ Started(j).stage = "active"
BY DEF Jobs, Started

\* What the settlement changes.
LEMMA SettledFields ==
    ASSUME NEW j \in Jobs
    PROVE  /\ Settled(j).owned = j.owned
           /\ Settled(j).lease = j.lease
           /\ Settled(j).cancelled = j.cancelled
           /\ Settled(j).hook = j.hook
           /\ Settled(j).outcome = j.outcome
           /\ Settled(j).generation = j.generation
           /\ Settled(j).stage = "settled"
BY DEF Jobs, Settled

-----------------------------------------------------------------------------
(* Every step is a step of the ledger *)

\* The ledger accepts what the thread reports, and what exists is on it.
LEMMA InvFits == JobInv => LedgerFits
<1> SUFFICES ASSUME JobInv PROVE LedgerAccepts /\ LedgerTruthful
    BY DEF LedgerFits
<1> USE DEF JobInv, Held
<1>1. LedgerInv /\ job \in Jobs /\ Resources = {"spec", "directory", "child"}
      /\ "spec" \in Resources /\ "directory" \in Resources /\ "child" \in Resources
    BY DEF LedgerInv, LedgerTypeOK, Resources
<1>2. pc \notin {"queued", "done"} => job.stage = "active"
    BY <1>1 DEF StageAt, Jobs
<1>3. pc \notin WithChild => ~job.hook /\ job.lease["child"] \in {"fresh", "released"}
    BY <1>1 DEF ChildAt, LedgerInv, LedgerValid, HookActive, Jobs, Leases
<1>4. LedgerAccepts
    <2>1. pc = "ownSpec" => CanAcquire(job, "spec")
        BY <1>2 DEF CanAcquire, SpecAt, StageAt, Over
    <2>2. pc = "ownDir" => CanAcquire(job, "directory")
        BY <1>2 DEF CanAcquire, DirAt, StageAt, Over
    <2>3. pc = "ownChild" => CanAcquire(job, "child")
        BY <1>2, <1>3 DEF CanAcquire, Reacquired, StageAt, Over, WithChild
    <2>4. pc = "hook" => CanInstallHook(job)
        BY DEF CanInstallHook, ChildAt, WithChild
    <2>5. pc \in {"publish", "settle"} /\ ~runDir /\ ~specDir => NoResources(job) /\ ~job.hook
        BY <1>1, <1>3 DEF NoResources, SpecAt, DirAt, WithChild, Over
    <2>6. pc = "publish" /\ ~runDir /\ ~specDir => CanPublish(job, result)
        BY <2>5 DEF CanPublish
    <2>7. pc = "settle" /\ ~runDir /\ ~specDir => CanSettle(job)
        BY <1>2, <2>5 DEF CanSettle
    <2> QED
        BY <2>1, <2>2, <2>3, <2>4, <2>6, <2>7 DEF LedgerAccepts
<1>5. LedgerTruthful
    <2>1. ASSUME NEW n \in Runs, proc[n] \notin {"none", "reaped"}
          PROVE  n = run /\ (Held(job, "child") \/ pc = "ownChild")
        <3>1. n = run
            BY <2>1, LedgerAssumption DEF ProcAt, Shape, Runs
        <3>2. pc \in {"ownChild"} \cup WithChild
            BY <2>1, <3>1 DEF ProcAt, Shape, Points, NoDirYet, NoSpecYet, Unwinding, Over,
               WithChild
        <3> QED
            BY <3>1, <3>2 DEF ChildAt
    <2>2. runDir => Held(job, "directory") \/ pc = "ownDir"
        BY DEF DirAt, Shape, Points, NoDirYet, NoSpecYet, WithDir, BeforeChild, WithChild, Over
    <2> QED
        BY <2>1, <2>2 DEF LedgerTruthful
<1> QED
    BY <1>4, <1>5

\* The event of each step, if it reports any, is one the ledger knows.
LEMMA StepOfLedger ==
    ASSUME JobInv, [Next]_vars
    PROVE  [LedgerNext]_job
<1>0. /\ job \in Jobs /\ LedgerAccepts
      /\ "spec" \in Resources /\ "directory" \in Resources /\ "child" \in Resources
      /\ "failed" \in JobOutcomes /\ Verdict \in JobOutcomes /\ "cancelled" \in JobOutcomes
    BY InvFits DEF JobInv, LedgerInv, LedgerTypeOK, LedgerFits, Resources, JobOutcomes, Verdict
<1>1. ASSUME NEW r \in Resources, Held(job, r), job' = Released(job, r)
      PROVE  \E q \in Resources : Release(q)
    BY <1>1 DEF Release, CanRelease
<1>2. CASE StartJob
    BY <1>2 DEF StartJob, Start, LedgerNext
<1>3. CASE OwnSpec \/ OwnRunDir
    <2>1. PICK r \in {"spec", "directory"} : CanAcquire(job, r) /\ job' = Acquired(job, r)
        BY <1>0, <1>3 DEF OwnSpec, OwnRunDir, Acknowledge, LedgerAccepts
    <2>2. Acquire(r) /\ r \in Resources
        BY <1>0, <2>1 DEF Acquire, Reacquired
    <2> QED
        BY <2>2 DEF LedgerNext
<1>4. CASE OwnChild
    <2>1. CanAcquire(job, "child") /\ job' = Acquired(job, "child") /\ pc = "ownChild"
        BY <1>0, <1>4 DEF OwnChild, Acknowledge, LedgerAccepts
    <2>2. Reacquired(job, "child") => job.generation < run
        BY <2>1 DEF Reacquired, JobInv, ChildAt, BeforeChild
    <2>3. job.generation \in Nat /\ run \in 0 .. MaxGeneration
        BY <1>0, LedgerAssumption DEF JobInv, Shape, Runs, Jobs
    <2>4. Acquire("child")
        BY <2>1, <2>2, <2>3, LedgerAssumption DEF Acquire
    <2> QED
        BY <1>0, <2>4 DEF LedgerNext
<1>5. CASE RegisterHook
    <2>1. InstallHook
        BY <1>0, <1>5 DEF RegisterHook, InstallHook, LedgerAccepts
    <2> QED
        BY <2>1 DEF LedgerNext
<1>6. CASE ReleaseChild \/ ReleaseRunDir \/ ReleaseSpec
    BY <1>0, <1>1, <1>6 DEF ReleaseChild, ReleaseRunDir, ReleaseSpec, ReleaseHeld, LedgerNext
<1>7. CASE PublishResult
    <2>1. result \in JobOutcomes
        BY <1>0, <1>7 DEF PublishResult, JobInv, Shape, ResultAt, Unwinding
    <2>2. UNCHANGED job \/ Publish(result)
        BY <1>7 DEF PublishResult, Publish, CanPublish
    <2> QED
        BY <2>1, <2>2 DEF LedgerNext
<1>8. CASE Settle
    BY <1>8 DEF Settle, Acknowledge, SettleJob, LedgerNext
<1>9. ASSUME NEW c \in Cancellers, Cancel(c) PROVE [LedgerNext]_job
    <2>1. CASE Flip(c)
        BY <2>1 DEF Flip, RequestCancel, LedgerNext
    <2>2. CASE CommitCancel(c)
        <3>1. Publish("cancelled")
            BY <2>2 DEF CommitCancel, Publish, CanPublish
        <3> QED
            BY <1>0, <3>1 DEF LedgerNext
    <2> QED
        BY <1>9, <2>1, <2>2 DEF Cancel, FindToken, RunHook
<1>10. CASE \/ PickUp \/ CheckBeforeBody \/ CheckBeforeAcquire \/ AcquireSpec
            \/ CheckAfterSpec \/ MakeRunDir \/ CheckAfterDir
            \/ CheckBeforeSpawn \/ Spawn \/ KillLate
            \/ Collect \/ CollectRaises \/ Abort \/ ReapAborted \/ Retire
            \/ RemoveRunDir \/ RemoveSpec
            \/ UNCHANGED vars \/ \E n \in Runs : Exits(n) \/ Dies(n)
    BY <1>10 DEF PickUp, CheckBeforeBody, CheckBeforeAcquire, AcquireSpec, CheckAfterSpec,
       MakeRunDir, CheckAfterDir, CheckBeforeSpawn, CheckToken, Spawn, KillLate, Collect,
       CollectRaises, Abort, ReapAborted, Retire, RemoveRunDir, RemoveSpec, vars, Exits,
       Dies
<1> QED
    BY <1>2, <1>3, <1>4, <1>5, <1>6, <1>7, <1>8, <1>9, <1>10 DEF Next, Work

-----------------------------------------------------------------------------
(* What a step does to the ledger, by where the thread is *)

Leaves(here) == pc = here /\ pc' # here

LeaseMoves(r, taken, given) ==
    job'.lease[r] = IF Leaves(taken) THEN "held"
                    ELSE IF Leaves(given) /\ Held(job, r) THEN "released"
                    ELSE job.lease[r]

LedgerMoves ==
    /\ job'.owned = job.owned
    /\ LeaseMoves("spec", "ownSpec", "relSpec")
    /\ LeaseMoves("directory", "ownDir", "relDir")
    /\ LeaseMoves("child", "ownChild", "release")
    /\ job'.generation = IF Leaves("ownChild") /\ job.lease["child"] = "released"
                         THEN job.generation + 1 ELSE job.generation
    /\ job'.hook <=> \/ Leaves("hook")
                     \/ ~Leaves("release") /\ job.hook
    /\ job'.stage = IF Leaves("queued") THEN "active"
                    ELSE IF pc # "done" /\ pc' = "done" THEN "settled"
                    ELSE job.stage
    /\ job.cancelled => job'.cancelled
    /\ job'.cancelled => job.cancelled \/ hooks' = {}
    /\ \/ job'.outcome = job.outcome
       \/ job.outcome = "none" /\ job'.outcome = "cancelled"
       \/ /\ job.outcome = "none" /\ job'.outcome = result
          /\ pc = "publish" /\ pc' = "settle" /\ CanPublish(job, result)

LEMMA StepMoves ==
    ASSUME JobInv, [Next]_vars
    PROVE  LedgerMoves
<1>0. /\ job \in Jobs /\ LedgerAccepts
      /\ "spec" \in Resources /\ "directory" \in Resources /\ "child" \in Resources
      /\ pc = "release" => Held(job, "child")
    BY InvFits DEF JobInv, LedgerInv, LedgerTypeOK, LedgerFits, Resources, ChildAt, WithChild
<1> USE DEF LedgerMoves, LeaseMoves, Leaves
<1>1. job.hook \in BOOLEAN
    BY <1>0 DEF Jobs
<1>2. CASE StartJob
    BY <1>0, <1>1, <1>2, StartedFields DEF StartJob, Go
<1>3. CASE OwnSpec
    <2>1. job' = Acquired(job, "spec") /\ pc = "ownSpec" /\ pc' = "afterSpec"
        BY <1>0, <1>3 DEF OwnSpec, Acknowledge, LedgerAccepts
    <2>2. ~Reacquired(job, "spec")
        BY DEF Reacquired
    <2> QED
        BY <1>0, <1>1, <2>1, <2>2, AcquiredFields
<1>4. CASE OwnRunDir
    <2>1. job' = Acquired(job, "directory") /\ pc = "ownDir" /\ pc' = "afterDir"
        BY <1>0, <1>4 DEF OwnRunDir, Acknowledge, LedgerAccepts
    <2>2. ~Reacquired(job, "directory")
        BY DEF Reacquired
    <2> QED
        BY <1>0, <1>1, <2>1, <2>2, AcquiredFields
<1>5. CASE OwnChild
    <2>1. job' = Acquired(job, "child") /\ pc = "ownChild" /\ pc' = "hook"
        BY <1>0, <1>5 DEF OwnChild, Acknowledge, LedgerAccepts
    <2>2. Reacquired(job, "child") <=> job.lease["child"] = "released"
        BY DEF Reacquired
    <2> QED
        BY <1>0, <1>1, <2>1, <2>2, AcquiredFields
<1>6. CASE RegisterHook
    <2>1. job' = HookInstalled(job) /\ pc = "hook" /\ pc' \in {"killLate", "collect"}
        BY <1>0, <1>6 DEF RegisterHook, LedgerAccepts
    <2> QED
        BY <1>0, <1>1, <2>1, HookFields
<1>7. CASE ReleaseChild
    <2>1. job' = Released(job, "child") /\ pc = "release" /\ pc' \in {"call", "undir"}
        BY <1>0, <1>7 DEF ReleaseChild
    <2> QED
        BY <1>0, <1>1, <2>1, ReleasedFields
<1>8. CASE ReleaseRunDir
    <2>1. /\ job' = IF Held(job, "directory") THEN Released(job, "directory") ELSE job
          /\ pc = "relDir" /\ pc' = "unspec"
        BY <1>8 DEF ReleaseRunDir, ReleaseHeld, Go
    <2>2. CASE Held(job, "directory")
        <3>1. job' = Released(job, "directory") /\ pc = "relDir" /\ pc' = "unspec"
            BY <2>1, <2>2
        <3>2. /\ job'.stage = job.stage /\ job'.owned = job.owned
              /\ job'.cancelled = job.cancelled /\ job'.hook = job.hook
              /\ job'.outcome = job.outcome /\ job'.generation = job.generation
              /\ job'.lease["directory"] = "released" /\ job'.lease["child"] = job.lease["child"]
              /\ job'.lease["spec"] = job.lease["spec"]
            BY <1>0, <3>1, ReleasedFields
        <3> QED
            BY <1>1, <2>2, <3>1, <3>2
    <2>3. CASE ~Held(job, "directory")
        <3>1. UNCHANGED job
            BY <2>1, <2>3
        <3> QED
            BY <1>1, <2>1, <2>3, <3>1
    <2> QED
        BY <2>2, <2>3
<1>9. CASE ReleaseSpec
    <2>1. /\ job' = IF Held(job, "spec") THEN Released(job, "spec") ELSE job
          /\ pc = "relSpec" /\ pc' = "publish"
        BY <1>9 DEF ReleaseSpec, ReleaseHeld, Go
    <2>2. CASE Held(job, "spec")
        <3>1. job' = Released(job, "spec") /\ pc = "relSpec" /\ pc' = "publish"
            BY <2>1, <2>2
        <3>2. /\ job'.stage = job.stage /\ job'.owned = job.owned
              /\ job'.cancelled = job.cancelled /\ job'.hook = job.hook
              /\ job'.outcome = job.outcome /\ job'.generation = job.generation
              /\ job'.lease["spec"] = "released" /\ job'.lease["child"] = job.lease["child"]
              /\ job'.lease["directory"] = job.lease["directory"]
            BY <1>0, <3>1, ReleasedFields
        <3> QED
            BY <1>1, <2>2, <3>1, <3>2
    <2>3. CASE ~Held(job, "spec")
        <3>1. UNCHANGED job
            BY <2>1, <2>3
        <3> QED
            BY <1>1, <2>1, <2>3, <3>1
    <2> QED
        BY <2>2, <2>3
<1>10. CASE PublishResult
    <2>1. CASE job' = Published(job, result) /\ pc = "publish" /\ pc' = "settle"
               /\ ~(job.outcome = "none" /\ ~CanPublish(job, result))
        BY <1>0, <1>1, <2>1, PublishedFields
    <2>2. CASE UNCHANGED <<job, pc>>
        BY <1>1, <2>2
    <2> QED
        BY <1>10, <2>1, <2>2 DEF PublishResult, Fail
<1>11. CASE Settle
    <2>1. CASE job' = Settled(job) /\ pc = "settle" /\ pc' = "done"
        BY <1>0, <1>1, <2>1, SettledFields
    <2>2. CASE UNCHANGED job /\ pc = "settle" /\ pc' = "raised"
        BY <1>1, <2>2
    <2> QED
        BY <1>11, <2>1, <2>2 DEF Settle, Acknowledge, Fail
<1>12. ASSUME NEW c \in Cancellers, Cancel(c) PROVE LedgerMoves
    <2>1. pc' = pc
        BY <1>12 DEF Cancel, FindToken, Flip, RunHook, CommitCancel
    <2>2. CASE job' = Cancelled(job) /\ hooks' = {}
        BY <1>0, <1>1, <2>1, <2>2, CancelledFields
    <2>3. CASE job' = Published(job, "cancelled")
        BY <1>0, <1>1, <2>1, <2>3, PublishedFields
    <2>4. CASE UNCHANGED job
        BY <1>1, <2>1, <2>4
    <2> QED
        BY <1>12, <2>2, <2>3, <2>4 DEF Cancel, FindToken, Flip, RunHook, CommitCancel
<1>13. CASE \/ PickUp \/ CheckBeforeBody \/ CheckBeforeAcquire \/ AcquireSpec
            \/ CheckAfterSpec \/ MakeRunDir \/ CheckAfterDir
            \/ CheckBeforeSpawn \/ Spawn \/ KillLate
            \/ Collect \/ CollectRaises \/ Abort \/ ReapAborted \/ Retire
            \/ RemoveRunDir \/ RemoveSpec
            \/ UNCHANGED vars \/ \E n \in Runs : Exits(n) \/ Dies(n)
    <2>1. /\ UNCHANGED job
          /\ \/ UNCHANGED pc
             \/ /\ pc \notin {"queued", "ownSpec", "relSpec", "ownDir", "relDir",
                              "ownChild", "release", "hook"}
                /\ pc' # "done"
        BY <1>13 DEF PickUp, CheckBeforeBody, CheckBeforeAcquire, AcquireSpec,
           CheckAfterSpec, MakeRunDir, CheckAfterDir, CheckBeforeSpawn, CheckToken, Spawn,
           KillLate, Collect, CollectRaises, Abort, ReapAborted, Retire, RemoveRunDir,
           RemoveSpec, Go, Fail, vars, Exits, Dies
    <2> QED
        BY <1>1, <2>1
<1> QED
    BY <1>2, <1>3, <1>4, <1>5, <1>6, <1>7, <1>8, <1>9, <1>10, <1>11, <1>12, <1>13
       DEF Next, Work

-----------------------------------------------------------------------------
(* Steps *)

\* The variables beside the ledger keep their types.
LEMMA ShapeSteps ==
    ASSUME JobInv, [Next]_vars
    PROVE  Shape'
<1> USE LedgerAssumption DEF JobInv, Shape, world, cancelVars, Points, Verdict, Runs
<1>1. CASE \/ StartJob \/ PickUp \/ CheckBeforeBody \/ CheckBeforeAcquire
           \/ CheckAfterSpec \/ CheckAfterDir \/ CheckBeforeSpawn
           \/ OwnSpec \/ OwnRunDir \/ OwnChild \/ Settle
           \/ ReleaseRunDir \/ ReleaseSpec \/ PublishResult \/ CollectRaises
    BY <1>1 DEF StartJob, PickUp, CheckBeforeBody, CheckBeforeAcquire, CheckAfterSpec,
       CheckAfterDir, CheckBeforeSpawn, CheckToken, OwnSpec, OwnRunDir, OwnChild, Settle,
       Acknowledge, ReleaseRunDir, ReleaseSpec, ReleaseHeld, PublishResult, CollectRaises,
       Go, Fail
<1>2. CASE AcquireSpec \/ MakeRunDir \/ RemoveRunDir \/ RemoveSpec
    BY <1>2 DEF AcquireSpec, MakeRunDir, RemoveRunDir, RemoveSpec, Go, Fail
<1>3. CASE Spawn \/ RegisterHook \/ KillLate \/ Abort \/ Retire
    BY <1>3 DEF Spawn, RegisterHook, KillLate, Abort, Retire, Kill, Go, Fail
<1>4. CASE Collect \/ ReapAborted
    BY <1>4 DEF Collect, ReapAborted, Reap, Go
<1>5. CASE ReleaseChild
    BY <1>5 DEF ReleaseChild, ResultAt
<1>6. ASSUME NEW n \in Runs, Exits(n) \/ Dies(n) PROVE Shape'
    BY <1>6 DEF Exits, Dies
<1>7. ASSUME NEW c \in Cancellers, Cancel(c) PROVE Shape'
    <2>1. CASE FindToken(c) \/ Flip(c) \/ CommitCancel(c)
        BY <2>1 DEF FindToken, Flip, CommitCancel, Step
    <2>2. CASE RunHook(c)
        BY <2>2 DEF RunHook, Kill
    <2> QED
        BY <1>7, <2>1, <2>2 DEF Cancel
<1>8. CASE UNCHANGED vars
    BY <1>8 DEF vars
<1> QED
    BY <1>1, <1>2, <1>3, <1>4, <1>5, <1>6, <1>7, <1>8 DEF Next, Work

\* A step that leaves the thread where it is leaves its result, its run and
\* both directories.
LEMMA OthersLeaveThread ==
    ASSUME \/ \E n \in Runs : Exits(n) \/ Dies(n)
           \/ \E c \in Cancellers : Cancel(c)
           \/ UNCHANGED vars
    PROVE  UNCHANGED <<pc, result, run, specDir, runDir>>
BY DEF Exits, Dies, Cancel, FindToken, Flip, RunHook, CommitCancel, world, vars

LEMMA StageSteps ==
    ASSUME JobInv, [Next]_vars
    PROVE  StageAt'
<1>1. /\ pc' = "queued" => pc = "queued"
      /\ pc = "queued" => pc' # "done"
      /\ pc = "done" => pc' = "done"
      /\ pc \in Over => pc' \in Over
    BY OthersLeaveThread DEF Next, Work, StartJob, PickUp, CheckBeforeBody,
       CheckBeforeAcquire, CheckAfterSpec, CheckAfterDir, CheckBeforeSpawn, CheckToken,
       OwnSpec, OwnRunDir, OwnChild, Settle, Acknowledge, ReleaseRunDir, ReleaseSpec,
       ReleaseHeld, PublishResult, CollectRaises, AcquireSpec, MakeRunDir, RemoveRunDir,
       RemoveSpec, Spawn, RegisterHook, KillLate, Abort, Retire, Collect, ReapAborted,
       ReleaseChild, Go, Fail, Over
<1> QED
    BY <1>1, StepMoves DEF LedgerMoves, Leaves, JobInv, StageAt, Over

\* The leases, the directories and the result follow the thread.
LEMMA ThreadSteps ==
    ASSUME JobInv, [Next]_vars
    PROVE  SpecAt' /\ DirAt' /\ ChildAt' /\ ResultAt'
<1> USE StepMoves, InvFits
    DEF LedgerMoves, LeaseMoves, Leaves, Held, JobInv, Shape, SpecAt, DirAt, ChildAt,
        ResultAt, NoSpecYet, NoDirYet, SpecTaken, WithDir, BeforeChild, WithChild, Over,
        Unwinding, Go, Fail, world
<1>0. job.generation \in Nat /\ run \in Nat /\ MaxGeneration \in Nat
    BY LedgerAssumption DEF LedgerInv, LedgerTypeOK, Jobs, Runs
<1>1. CASE \/ StartJob \/ PickUp \/ CheckBeforeBody \/ CheckBeforeAcquire
           \/ CheckAfterSpec \/ CheckAfterDir \/ CheckBeforeSpawn
    BY <1>0, <1>1 DEF StartJob, PickUp, CheckBeforeBody, CheckBeforeAcquire,
       CheckAfterSpec, CheckAfterDir, CheckBeforeSpawn, CheckToken
<1>2. CASE OwnSpec \/ OwnRunDir \/ OwnChild \/ Settle
    <2>1. CASE OwnSpec
        BY <1>0, <2>1 DEF OwnSpec, Acknowledge, LedgerFits, LedgerAccepts
    <2>2. CASE OwnRunDir
        BY <1>0, <2>2 DEF OwnRunDir, Acknowledge, LedgerFits, LedgerAccepts
    <2>3. CASE OwnChild
        BY <1>0, <2>3 DEF OwnChild, Acknowledge, LedgerFits, LedgerAccepts, CanAcquire
    <2>4. CASE Settle
        BY <1>0, <2>4 DEF Settle, Acknowledge
    <2> QED
        BY <1>2, <2>1, <2>2, <2>3, <2>4
<1>3. CASE AcquireSpec \/ MakeRunDir \/ RemoveRunDir \/ RemoveSpec
    BY <1>0, <1>3 DEF AcquireSpec, MakeRunDir, RemoveRunDir, RemoveSpec
<1>4. CASE ReleaseRunDir \/ ReleaseSpec \/ PublishResult \/ CollectRaises
    BY <1>0, <1>4 DEF ReleaseRunDir, ReleaseSpec, ReleaseHeld, PublishResult,
       CollectRaises
<1>5. CASE Spawn \/ RegisterHook \/ KillLate \/ Abort \/ Retire
    BY <1>0, <1>5 DEF Spawn, RegisterHook, KillLate, Abort, Retire, LedgerFits,
       LedgerAccepts
<1>6. CASE Collect \/ ReapAborted \/ ReleaseChild
    BY <1>0, <1>6 DEF Collect, ReapAborted, ReleaseChild, Verdict
<1>7. CASE \/ \E n \in Runs : Exits(n) \/ Dies(n)
           \/ \E c \in Cancellers : Cancel(c)
           \/ UNCHANGED vars
    BY <1>0, <1>7, OthersLeaveThread
<1> QED
    BY <1>1, <1>2, <1>3, <1>4, <1>5, <1>6, <1>7 DEF Next, Work

\* The steps of the thread that start, wait for, kill and hook no process.
Elsewhere ==
    \/ StartJob \/ PickUp \/ CheckBeforeBody \/ CheckBeforeAcquire
    \/ CheckAfterSpec \/ CheckAfterDir \/ CheckBeforeSpawn
    \/ OwnSpec \/ OwnRunDir \/ OwnChild \/ Settle
    \/ AcquireSpec \/ MakeRunDir \/ RemoveRunDir \/ RemoveSpec
    \/ ReleaseRunDir \/ ReleaseSpec \/ PublishResult

\* They do not reach the world of processes and go from a place before the
\* spawn to another, or from one of the unwinding to another.
LEMMA ElsewhereMoves ==
    ASSUME JobInv, Elsewhere
    PROVE  /\ UNCHANGED <<hooks, run, proc, killed, cpc, claims>>
           /\ result = "failed" => result' = "failed"
           /\ pc' \notin {"killLate", "collect", "abort", "reap", "retire", "release"}
           /\ \/ /\ {pc, pc'} \subseteq NoDirYet \cup {"ownDir", "afterDir", "call", "spawn"}
                 /\ pc' = "spawn" => ~job.cancelled /\ result = "none"
              \/ /\ pc \in NoDirYet \cup {"ownDir", "afterDir", "call", "spawn"}
                 /\ pc' \in Unwinding \cup Over
              \/ {pc, pc'} \subseteq Unwinding \cup Over
              \/ pc = "ownChild" /\ pc' = "hook"
<1> USE InvFits DEF JobInv, ResultAt, NoDirYet, NoSpecYet, BeforeChild, Unwinding, Over,
                    Go, Fail, world, cancelVars, LedgerFits, LedgerAccepts, Elsewhere
<1>1. CASE \/ StartJob \/ PickUp \/ CheckBeforeBody \/ CheckBeforeAcquire
           \/ CheckAfterSpec \/ CheckAfterDir \/ CheckBeforeSpawn
    BY <1>1 DEF StartJob, PickUp, CheckBeforeBody, CheckBeforeAcquire, CheckAfterSpec,
       CheckAfterDir, CheckBeforeSpawn, CheckToken
<1>2. CASE OwnSpec \/ OwnRunDir \/ OwnChild \/ Settle
    BY <1>2 DEF OwnSpec, OwnRunDir, OwnChild, Settle, Acknowledge
<1>3. CASE AcquireSpec \/ MakeRunDir \/ RemoveRunDir \/ RemoveSpec
    BY <1>3 DEF AcquireSpec, MakeRunDir, RemoveRunDir, RemoveSpec
<1>4. CASE ReleaseRunDir \/ ReleaseSpec \/ PublishResult
    BY <1>4 DEF ReleaseRunDir, ReleaseSpec, ReleaseHeld, PublishResult
<1> QED
    BY <1>1, <1>2, <1>3, <1>4

\* One process at a time.
LEMMA ProcSteps ==
    ASSUME JobInv, [Next]_vars
    PROVE  ProcAt'
<1> USE DEF JobInv, ProcAt, Shape, NoDirYet, NoSpecYet, Unwinding, Over, Go, Fail
<1>0. run \in Nat /\ Runs = 0 .. MaxGeneration /\ MaxGeneration \in Nat
    BY LedgerAssumption DEF Runs
<1>1. CASE Elsewhere
    BY <1>1, ElsewhereMoves
<1>2. CASE Spawn
    BY <1>0, <1>2 DEF Spawn
<1>3. CASE RegisterHook \/ KillLate \/ Abort \/ CollectRaises
    BY <1>3, InvFits DEF RegisterHook, KillLate, Abort, CollectRaises, world,
       LedgerFits, LedgerAccepts
<1>4. CASE Collect \/ ReapAborted
    BY <1>0, <1>4 DEF Collect, ReapAborted, Reap
<1>5. CASE Retire
    BY <1>5 DEF Retire
<1>6. CASE ReleaseChild
    <2>1. CASE result = "none"
        <3>1. pc' = "call" /\ run' = run + 1 /\ UNCHANGED proc /\ proc[run] = "reaped"
            BY <1>6, <2>1 DEF ReleaseChild
        <3>2. run + 1 \in Runs
            BY <1>0, <1>6, <2>1 DEF ReleaseChild, ResultAt
        <3> QED
            BY <1>0, <3>1, <3>2
    <2>2. CASE result # "none"
        BY <1>6, <2>2 DEF ReleaseChild
    <2> QED
        BY <2>1, <2>2
<1>7. ASSUME NEW n \in Runs, Exits(n) \/ Dies(n) PROVE ProcAt'
    <2>1. UNCHANGED <<pc, run>> /\ proc[n] = "running"
        BY <1>7 DEF Exits, Dies
    <2>2. n = run
        BY <1>0, <2>1
    <2>3. /\ \A m \in Runs : m # run => proc'[m] = proc[m]
          /\ proc'[run] \in {"exited", "died"}
        BY <1>7, <2>2 DEF Exits, Dies
    <2> QED
        BY <1>0, <2>1, <2>2, <2>3
<1>8. CASE (\E c \in Cancellers : Cancel(c)) \/ UNCHANGED vars
    <2>1. UNCHANGED <<pc, run, proc>>
        BY <1>8 DEF Cancel, FindToken, Flip, RunHook, CommitCancel, world, vars
    <2> QED
        BY <2>1
<1> QED
    BY <1>1, <1>2, <1>3, <1>4, <1>5, <1>6, <1>7, <1>8 DEF Next, Work, Elsewhere

\* Two steps of a canceller: the hooks it takes, and the one it runs.
LEMMA CancellerSteps ==
    ASSUME JobInv, NEW c \in Cancellers, Cancel(c)
    PROVE  /\ UNCHANGED <<pc, result, run, proc>>
           /\ \A n \in Runs : Claimed(n)' => Claimed(n) \/ (n \in hooks /\ job'.cancelled)
           /\ \A n \in Runs : Doomed(n)' <=> Doomed(n) \/ (n \in hooks /\ hooks' = {})
           /\ hooks' = hooks \/ (hooks' = {} /\ job'.cancelled)
           /\ job.cancelled => job'.cancelled
           /\ job'.cancelled => job.cancelled \/ hooks' = {}
           /\ \A d \in Cancellers : cpc'[d] # "run" => claims'[d] = {}
           /\ \A d \in Cancellers : d # c => claims'[d] = claims[d]
           /\ claims'[c] # {} => claims[c] # {} \/ (hooks # {} /\ ~job.cancelled)
<1>0. /\ job \in Jobs /\ hooks \in SUBSET Runs
      /\ killed \in [Runs -> BOOLEAN]
      /\ cpc \in [Cancellers -> {"idle", "flip", "run", "done"}]
      /\ claims \in [Cancellers -> SUBSET Runs]
      /\ job.cancelled => hooks = {}
      /\ \A d \in Cancellers : cpc[d] # "run" => claims[d] = {}
    BY DEF JobInv, LedgerInv, LedgerTypeOK, Shape, HooksAt
<1>1. CASE FindToken(c)
    <2>1. /\ UNCHANGED <<job, pc, result, hooks, run, proc, killed, claims>>
          /\ cpc[c] = "idle" /\ cpc' = [cpc EXCEPT ![c] = "flip"]
        BY <1>0, <1>1 DEF FindToken, Step, world
    <2>2. \A n \in Runs : (Claimed(n)' <=> Claimed(n)) /\ (Doomed(n)' <=> Doomed(n))
        BY <1>0, <2>1 DEF Claimed, Doomed
    <2>3. \A d \in Cancellers : cpc'[d] # "run" => claims'[d] = {}
        BY <1>0, <2>1
    <2> QED
        BY <2>1, <2>2, <2>3
<1>2. CASE Flip(c)
    <2>1. /\ cpc[c] = "flip" /\ cpc' = [cpc EXCEPT ![c] = "run"]
          /\ job' = Cancelled(job) /\ job'.cancelled
          /\ claims' = [claims EXCEPT ![c] = hooks] /\ hooks' = {}
          /\ UNCHANGED <<pc, result, run, proc, killed>>
        BY <1>0, <1>2, CancelledFields DEF Flip, Step
    <2>2. claims[c] = {} /\ claims'[c] = hooks
        BY <1>0, <2>1
    <2> QED
        BY <1>0, <2>1, <2>2 DEF Claimed, Doomed
<1>3. CASE RunHook(c)
    <2>1. PICK n \in claims[c] :
             /\ killed' = [killed EXCEPT ![n] = TRUE]
             /\ claims' = [claims EXCEPT ![c] = @ \ {n}]
        BY <1>0, <1>3 DEF RunHook, Kill
    <2>2. n \in Runs /\ killed'[n] /\ claims'[c] = claims[c] \ {n} /\ cpc[c] = "run"
        BY <1>0, <1>3, <2>1 DEF RunHook
    <2>3. UNCHANGED <<job, pc, result, hooks, run, proc, cpc>>
        BY <1>0, <1>3 DEF RunHook
    <2>4. \A m \in Runs : Claimed(m)' => Claimed(m)
        BY <1>0, <2>1, <2>2 DEF Claimed
    <2>5. \A m \in Runs : Doomed(m)' <=> Doomed(m)
        <3> SUFFICES ASSUME NEW m \in Runs, m # n PROVE Doomed(m)' <=> Doomed(m)
            BY <1>0, <2>1, <2>2 DEF Claimed, Doomed
        <3>1. killed'[m] = killed[m]
            BY <1>0, <2>1
        <3>2. \A d \in Cancellers : m \in claims'[d] <=> m \in claims[d]
            BY <1>0, <2>1, <2>2
        <3> QED
            BY <1>0, <3>1, <3>2 DEF Claimed, Doomed
    <2>6. \A d \in Cancellers : cpc'[d] # "run" => claims'[d] = {}
        BY <1>0, <2>1, <2>2, <2>3
    <2>7. claims'[c] # {} => claims[c] # {}
        BY <2>2
    <2>8. \A d \in Cancellers : d # c => claims'[d] = claims[d]
        BY <1>0, <2>1
    <2> QED
        BY <2>3, <2>4, <2>5, <2>6, <2>7, <2>8
<1>4. CASE CommitCancel(c)
    <2>1. /\ job'.cancelled = job.cancelled
          /\ UNCHANGED <<pc, result, hooks, run, proc, killed, claims>>
          /\ cpc' = [cpc EXCEPT ![c] = "done"] /\ claims[c] = {}
        BY <1>0, <1>4, PublishedFields DEF CommitCancel, Step, world
    <2>2. \A n \in Runs : (Claimed(n)' <=> Claimed(n)) /\ (Doomed(n)' <=> Doomed(n))
        BY <1>0, <2>1 DEF Claimed, Doomed
    <2>3. \A d \in Cancellers : cpc'[d] # "run" => claims'[d] = {}
        BY <1>0, <2>1
    <2> QED
        BY <2>1, <2>2, <2>3
<1> QED
    BY <1>1, <1>2, <1>3, <1>4 DEF Cancel

LEMMA DoomedKept ==
    ASSUME UNCHANGED <<killed, claims>>
    PROVE  \A n : (Claimed(n)' <=> Claimed(n)) /\ (Doomed(n)' <=> Doomed(n))
BY DEF Claimed, Doomed

\* The hooks follow the current run, and a cancelled job has none.
LEMMA HookSteps ==
    ASSUME JobInv, [Next]_vars
    PROVE  HooksAt'
<1> USE StepMoves DEF JobInv, LedgerMoves, HooksAt
<1>0. hooks \subseteq Runs /\ run \in Runs
    BY DEF Shape
<1>1. ASSUME UNCHANGED <<killed, cpc, claims, run>>,
             \/ hooks' = {}
             \/ /\ UNCHANGED hooks
                /\ pc' \in {"collect", "abort", "reap", "retire"}
             \/ hooks' \subseteq {run} /\ pc' = "collect" /\ ~job'.cancelled,
             pc' = "killLate" => job'.cancelled,
             pc' = "collect" => run \in hooks' \/ Doomed(run)
      PROVE  HooksAt'
    <2>1. \A n : (Claimed(n)' <=> Claimed(n)) /\ (Doomed(n)' <=> Doomed(n))
        BY <1>1, DoomedKept
    <2> QED
        BY <1>1, <2>1
<1>2. CASE Elsewhere
    <2>1. /\ UNCHANGED <<killed, cpc, claims, run>> /\ hooks' = {}
          /\ pc' \notin {"killLate", "collect"}
        BY <1>2, ElsewhereMoves DEF NoDirYet, NoSpecYet, Unwinding, Over
    <2> QED
        BY <1>1, <2>1
<1>3. CASE Spawn
    BY <1>1, <1>3 DEF Spawn, Go, Fail, cancelVars
<1>4. CASE RegisterHook
    <2>1. job \in Jobs /\ job' = HookInstalled(job)
        BY <1>4, InvFits DEF RegisterHook, LedgerInv, LedgerTypeOK, LedgerFits, LedgerAccepts
    <2>2. job'.cancelled = job.cancelled
        BY <2>1, HookFields
    <2>3. /\ UNCHANGED <<killed, cpc, claims, run>>
          /\ \/ job.cancelled /\ pc' = "killLate" /\ hooks' = {}
             \/ ~job.cancelled /\ pc' = "collect" /\ hooks' = {run}
        BY <1>4, InvFits DEF RegisterHook, LedgerFits, LedgerAccepts, cancelVars
    <2> QED
        BY <1>1, <2>2, <2>3
<1>5. CASE KillLate
    <2>1. /\ killed' = [killed EXCEPT ![run] = TRUE] /\ hooks' = {} /\ pc' = "collect"
          /\ UNCHANGED <<cpc, claims, run>>
        BY <1>5 DEF KillLate, Kill, Go, cancelVars
    <2>2. Doomed(run)'
        BY <1>0, <2>1 DEF Doomed, Shape
    <2>3. \A n : Claimed(n)' <=> Claimed(n)
        BY <2>1 DEF Claimed
    <2> QED
        BY <2>1, <2>2, <2>3
<1>6. CASE Abort
    <2>1. /\ UNCHANGED <<hooks, cpc, claims, run>> /\ pc' = "reap"
        BY <1>6 DEF Abort, Go, cancelVars
    <2>2. \A n : Claimed(n)' <=> Claimed(n)
        BY <2>1 DEF Claimed
    <2> QED
        BY <2>1, <2>2
<1>7. CASE CollectRaises \/ Collect \/ ReapAborted
    <2>1. UNCHANGED <<killed, cpc, claims, run, hooks>> /\ pc' \in {"abort", "retire"}
        BY <1>7 DEF CollectRaises, Collect, ReapAborted, Go, Fail, world, cancelVars
    <2> QED
        BY <1>1, <2>1
<1>8. CASE Retire
    <2>1. UNCHANGED <<killed, cpc, claims, run>> /\ hooks' = hooks \ {run} /\ pc' = "release"
        BY <1>8 DEF Retire, Go, cancelVars
    <2> QED
        BY <1>1, <2>1
<1>9. CASE ReleaseChild
    <2>1. UNCHANGED <<killed, cpc, claims, hooks>> /\ hooks = {} /\ pc' \in {"call", "undir"}
        BY <1>9 DEF ReleaseChild, cancelVars
    <2>2. \A n : Claimed(n)' <=> Claimed(n)
        BY <2>1 DEF Claimed
    <2> QED
        BY <2>1, <2>2
<1>10. CASE UNCHANGED vars \/ \E n \in Runs : Exits(n) \/ Dies(n)
    <2>1. UNCHANGED <<job, pc, killed, cpc, claims, run, hooks>>
        BY <1>10 DEF Exits, Dies, vars, world, cancelVars
    <2>2. \A n : (Claimed(n)' <=> Claimed(n)) /\ (Doomed(n)' <=> Doomed(n))
        BY <2>1, DoomedKept
    <2> QED
        BY <2>1, <2>2
<1>11. ASSUME NEW c \in Cancellers, Cancel(c) PROVE HooksAt'
    <2>1. pc' = pc /\ run' = run
        BY <1>11, CancellerSteps
    <2>2. hooks' \subseteq {run'} /\ (hooks' # {} => pc' \in {"collect", "abort", "reap", "retire"})
        BY <1>11, <2>1, CancellerSteps
    <2>3. job'.cancelled => hooks' = {}
        BY <1>11, CancellerSteps
    <2>4. pc' = "killLate" => job'.cancelled
        BY <2>1
    <2>5. pc' = "collect" => run' \in hooks' \/ Doomed(run)'
        <3>1. PICK n \in Runs : n = run
            BY <1>0
        <3>2. Doomed(n)' <=> Doomed(run)'
            BY <2>1, <3>1 DEF Doomed, Claimed
        <3> QED
            BY <1>11, <2>1, <3>1, <3>2, CancellerSteps
    <2>7. \A n \in Runs : Claimed(n)' => job'.cancelled
        BY <1>11, CancellerSteps
    <2>8. \A d, e \in Cancellers : claims'[d] # {} /\ claims'[e] # {} => d = e
        <3>1. ASSUME NEW d \in Cancellers, claims[d] # {} PROVE job.cancelled
            <4>1. PICK n \in Runs : n \in claims[d]
                BY <3>1 DEF Shape
            <4> QED
                BY <4>1 DEF Claimed
        <3>2. \A d \in Cancellers : d # c /\ claims[d] # {} => claims'[c] = {}
            BY <1>11, <3>1, CancellerSteps
        <3> QED
            BY <1>11, <3>2, CancellerSteps
    <2>9. \A d \in Cancellers : cpc'[d] # "run" => claims'[d] = {}
        BY <1>11, CancellerSteps
    <2> QED
        BY <2>1, <2>2, <2>3, <2>4, <2>5, <2>7, <2>8, <2>9
<1> QED
    BY <1>2, <1>3, <1>4, <1>5, <1>6, <1>7, <1>8, <1>9, <1>10, <1>11
       DEF Next, Work, Elsewhere

\* After a kill no process is started.
LEMMA DoomedSteps ==
    ASSUME JobInv, [Next]_vars
    PROVE  DoomedLast'
<1> USE StepMoves DEF JobInv, LedgerMoves, DoomedLast
<1>0. run \in Nat /\ run \in Runs /\ Runs = 0 .. MaxGeneration
    BY LedgerAssumption DEF Shape, Runs
<1>1. ASSUME UNCHANGED <<killed, claims, proc>>,
             result = "failed" => result' = "failed",
             pc' = "spawn" => \A n \in Runs : ~Doomed(n)
      PROVE  DoomedLast'
    <2>1. \A n : Doomed(n)' <=> Doomed(n)
        BY <1>1, DoomedKept
    <2> QED
        BY <1>1, <2>1
<1>2. CASE Elsewhere
    <2>1. pc' = "spawn" => \A n \in Runs : ~Doomed(n)
        BY <1>2, ElsewhereMoves DEF Unwinding, Over
    <2> QED
        BY <1>1, <1>2, <2>1, ElsewhereMoves
<1>3. CASE Spawn
    <2>1. UNCHANGED <<killed, claims>> /\ pc' # "spawn" /\ \A n \in Runs : ~Doomed(n)
        BY <1>3 DEF Spawn, Fail, cancelVars
    <2>2. \A n : Doomed(n)' <=> Doomed(n)
        BY <2>1, DoomedKept
    <2> QED
        BY <2>1, <2>2
<1>4. CASE RegisterHook \/ CollectRaises \/ Retire \/ ReleaseChild
    BY <1>1, <1>4 DEF RegisterHook, CollectRaises, Retire, ReleaseChild, Go, Fail, world,
       cancelVars
<1>5. CASE KillLate \/ Abort
    <2>1. /\ killed' = [killed EXCEPT ![run] = TRUE] /\ pc' # "spawn"
          /\ UNCHANGED <<job, result, claims, proc>>
          /\ job.cancelled \/ result = "failed"
        BY <1>5 DEF KillLate, Abort, Kill, Go, cancelVars, HooksAt, ResultAt
    <2>2. \A n \in Runs : Doomed(n)' => n = run \/ Doomed(n)
        BY <1>0, <2>1 DEF Doomed, Claimed, Shape
    <2>3. \A m \in Runs : m > run => proc[m] = "none"
        BY DEF ProcAt
    <2> QED
        BY <2>1, <2>2, <2>3
<1>6. CASE Collect \/ ReapAborted
    <2>1. /\ UNCHANGED <<killed, claims>> /\ pc' # "spawn"
          /\ proc' = [proc EXCEPT ![run] = "reaped"] /\ proc[run] # "none"
          /\ result = "failed" => result' = "failed"
        BY <1>6 DEF Collect, ReapAborted, Reap, Ended, Go, cancelVars, ResultAt
    <2>2. \A n : Doomed(n)' <=> Doomed(n)
        BY <2>1, DoomedKept
    <2>3. \A m \in Runs : proc[m] = "none" => proc'[m] = "none"
        BY <1>0, <2>1 DEF Shape
    <2> QED
        BY <2>1, <2>2, <2>3
<1>7. ASSUME NEW n \in Runs, Exits(n) \/ Dies(n) PROVE DoomedLast'
    <2>1. UNCHANGED <<job, pc, result, killed, claims>> /\ proc[n] = "running"
        BY <1>7 DEF Exits, Dies, cancelVars
    <2>2. \A m : Doomed(m)' <=> Doomed(m)
        BY <2>1, DoomedKept
    <2>3. \A m \in Runs : proc[m] = "none" => proc'[m] = "none"
        BY <1>7, <2>1 DEF Exits, Dies, Shape
    <2> QED
        BY <2>1, <2>2, <2>3
<1>8. CASE UNCHANGED vars
    BY <1>1, <1>8 DEF vars, world, cancelVars
<1>9. ASSUME NEW c \in Cancellers, Cancel(c) PROVE DoomedLast'
    <2>1. UNCHANGED <<pc, result, proc>>
        BY <1>9, CancellerSteps
    <2>2. ASSUME NEW n \in Runs, Doomed(n)'
          PROVE  Doomed(n) \/ (n = run /\ pc # "spawn" /\ job'.cancelled)
        BY <1>9, <2>2, CancellerSteps DEF HooksAt
    <2>3. \A m \in Runs : m > run => proc[m] = "none"
        BY DEF ProcAt
    <2> QED
        BY <2>1, <2>2, <2>3
<1> QED
    BY <1>2, <1>3, <1>4, <1>5, <1>6, <1>7, <1>8, <1>9 DEF Next, Work, Elsewhere

\* The thread that publishes a verdict has given everything back, and the
\* steps that follow touch nothing.
LEMMA VerdictSteps ==
    ASSUME JobInv, [Next]_vars, ProcAt', StageAt'
    PROVE  VerdictAt'
<1> SUFFICES ASSUME job'.outcome \notin {"none", "cancelled", "failed"}
             PROVE  ~runDir' /\ ~specDir' /\ ProcessesGone'
    BY DEF VerdictAt
<1> USE DEF JobInv
<1>1. ProcessesGone'
    <2>1. pc' \in Over
        BY DEF StageAt
    <2> QED
        BY <2>1, LedgerAssumption, ShapeSteps DEF ProcAt, ProcessesGone, Shape, Runs
<1>2. CASE pc \in Over
    <2>1. UNCHANGED <<specDir, runDir>>
        BY <1>2, OthersLeaveThread DEF Over, Next, Work, StartJob, PickUp,
           CheckBeforeBody, CheckBeforeAcquire, CheckAfterSpec, CheckAfterDir,
           CheckBeforeSpawn, CheckToken, OwnSpec, OwnRunDir, OwnChild, Settle,
           Acknowledge, ReleaseRunDir, ReleaseSpec, ReleaseHeld, PublishResult,
           CollectRaises, AcquireSpec, MakeRunDir, RemoveRunDir, RemoveSpec, Spawn,
           RegisterHook, KillLate, Abort, Retire, Collect, ReapAborted, ReleaseChild,
           Go, Fail, world
    <2>2. job'.outcome = job.outcome
        BY <1>2, StepMoves DEF LedgerMoves, Over
    <2> QED
        BY <1>1, <2>1, <2>2 DEF VerdictAt
<1>3. CASE pc \notin Over
    <2>1. /\ job'.outcome = result /\ pc = "publish" /\ pc' = "settle"
          /\ CanPublish(job, result) /\ job.outcome = "none"
        BY <1>3, StepMoves DEF LedgerMoves, StageAt
    <2>2. NoResources(job)
        BY <2>1 DEF CanPublish
    <2>3. ~runDir /\ ~specDir
        BY <2>1, <2>2 DEF NoResources, Resources, SpecAt, DirAt
    <2>4. UNCHANGED <<specDir, runDir>>
        BY <2>1 DEF Next, Work, StartJob, PickUp, CheckBeforeBody, CheckBeforeAcquire,
           CheckAfterSpec, CheckAfterDir, CheckBeforeSpawn, CheckToken, OwnSpec,
           OwnRunDir, OwnChild, Settle, Acknowledge, ReleaseRunDir, ReleaseSpec,
           ReleaseHeld, PublishResult, CollectRaises, AcquireSpec, MakeRunDir,
           RemoveRunDir, RemoveSpec, Spawn, RegisterHook, KillLate, Abort, Retire,
           Collect, ReapAborted, ReleaseChild, Go, Fail, world, Exits, Dies, Cancel,
           FindToken, Flip, RunHook, CommitCancel, vars
    <2> QED
        BY <1>1, <2>3, <2>4
<1> QED
    BY <1>2, <1>3

LEMMA JobStarts == Init => JobInv
<1> SUFFICES ASSUME Init PROVE JobInv
    OBVIOUS
<1>1. LedgerInv
    BY LedgerStarts DEF Init
<1>2. PICK owned \in BOOLEAN : job = InitialJob(owned)
    BY DEF Init, LedgerInit
<1>3. /\ job.stage = "queued" /\ job.outcome = "none" /\ ~job.hook /\ ~job.cancelled
      /\ job.lease = [r \in Resources |-> "fresh"] /\ job.generation = 0
    BY <1>2 DEF InitialJob
<1>4. /\ job.lease["spec"] = "fresh" /\ job.lease["directory"] = "fresh"
      /\ job.lease["child"] = "fresh"
    BY <1>3 DEF Resources
<1>5. Shape
    <2>1. 0 \in Runs
        BY LedgerAssumption DEF Runs
    <2> QED
        BY <2>1 DEF Init, Shape, Points
<1>6. StageAt /\ SpecAt /\ DirAt /\ ChildAt /\ ResultAt
    BY <1>3, <1>4 DEF Init, StageAt, SpecAt, DirAt, ChildAt, ResultAt, Held, NoSpecYet,
       NoDirYet, SpecTaken, WithDir, BeforeChild, WithChild, Over, Unwinding
<1>7. ProcAt /\ VerdictAt
    BY <1>3, LedgerAssumption DEF Init, ProcAt, VerdictAt, NoDirYet, NoSpecYet, Unwinding, Over, Runs
<1>8. HooksAt /\ DoomedLast
    BY <1>3 DEF Init, HooksAt, DoomedLast, Doomed, Claimed
<1> QED
    BY <1>1, <1>5, <1>6, <1>7, <1>8 DEF JobInv

LEMMA JobInvariant == Spec => []JobInv
<1>1. JobInv /\ [Next]_vars => JobInv'
    <2> SUFFICES ASSUME JobInv, [Next]_vars PROVE JobInv'
        OBVIOUS
    <2>1. LedgerInv'
        BY StepOfLedger, LedgerSteps DEF JobInv
    <2>2. Shape' /\ StageAt' /\ SpecAt' /\ DirAt' /\ ChildAt' /\ ResultAt'
        BY ShapeSteps, StageSteps, ThreadSteps
    <2>3. ProcAt' /\ HooksAt' /\ DoomedLast'
        BY ProcSteps, HookSteps, DoomedSteps
    <2> QED
        BY <2>1, <2>2, <2>3, VerdictSteps DEF JobInv
<1> QED
    BY <1>1, JobStarts, PTL DEF Spec

-----------------------------------------------------------------------------
(* The theorems *)

\* The variables of the job, its machine and its cancellers keep their types.
THEOREM JobTyped == Spec => []TypeOK
<1>1. JobInv => TypeOK
    BY DEF JobInv, LedgerInv, Shape, TypeOK
<1> QED
    BY <1>1, JobInvariant, PTL

\* However a cancellation interleaves with withAcquiredJobScope, the ledger
\* takes every event that is due and holds exactly what exists.
THEOREM LedgerAlwaysFits == Spec => []LedgerFits
BY InvFits, JobInvariant, PTL

\* A cancellation at any moment kills exactly the process that runs, by
\* whichever of registerChildCleanup and cancel comes last: it is not missed,
\* its hook runs once, and no further process is started.
THEOREM CancellationAlwaysKillsOnce == Spec => []CancellationKillsOnce
<1>1. ASSUME JobInv PROVE CancellationKillsOnce
    <2> USE <1>1 DEF JobInv
    <2>1. KillNotMissed
        BY DEF KillNotMissed, HooksAt, Doomed, Claimed
    <2>2. HooksClaimedOnce
        <3>1. ASSUME NEW c \in Cancellers, claims[c] # {} PROVE hooks = {}
            <4>1. PICK n \in Runs : n \in claims[c]
                BY <3>1 DEF Shape
            <4> QED
                BY <4>1 DEF HooksAt, Claimed
        <3>2. \A c \in Cancellers : claims[c] = {} \/ hooks = {}
            BY <3>1
        <3>3. \A c, d \in Cancellers : c # d => claims[c] = {} \/ claims[d] = {}
            BY DEF HooksAt
        <3> QED
            BY <3>2, <3>3 DEF HooksClaimedOnce
    <2>3. KilledRunIsLast
        BY DEF KilledRunIsLast, DoomedLast, Doomed
    <2> QED
        BY <2>1, <2>2, <2>3 DEF CancellationKillsOnce
<1> QED
    BY <1>1, JobInvariant, PTL

\* When runJobBody tells a verdict and when jobThread settles the ledger, no
\* process is left and no directory but one that no scope ever owned.
THEOREM NothingEverLeftBehind == Spec => []NothingLeftBehind
<1>1. ASSUME JobInv PROVE NothingLeftBehind
    <2> USE <1>1 DEF JobInv
    <2>1. job.outcome = Verdict => ~runDir /\ ~specDir /\ ProcessesGone
        BY DEF VerdictAt, Verdict
    <2>2. ASSUME job.stage = "settled"
          PROVE  ~runDir /\ ProcessesGone /\ (specDir => job.lease["spec"] = "fresh")
        <3>1. pc = "done" /\ pc \in Over
            BY <2>2 DEF StageAt, Over
        <3>2. NoResources(job)
            BY <2>2 DEF LedgerInv, LedgerValid, ResourcesOwned
        <3>3. ProcessesGone
            BY <3>1, LedgerAssumption DEF ProcAt, ProcessesGone, Shape, Runs
        <3>4. job.lease["spec"] \in {"fresh", "held", "released"}
            BY DEF LedgerInv, LedgerTypeOK, Jobs, Leases, Resources
        <3> QED
            BY <3>1, <3>2, <3>3, <3>4 DEF NoResources, Resources, Held, SpecAt, DirAt
    <2> QED
        BY <2>1, <2>2 DEF NothingLeftBehind
<1> QED
    BY <1>1, JobInvariant, PTL

\* Every history of a job, of its thread, its machine and its cancellers, is a
\* history of the ledger whose theorems Core/AsyncResources.lean proves: all of
\* LedgerSpec's theorems hold of the shell's job.
THEOREM LedgerImplemented == Spec => ImplementsLedger
<1>1. Init => LedgerInit
    BY DEF Init
<1> QED
    BY <1>1, StepOfLedger, JobInvariant, PTL DEF Spec, ImplementsLedger, LedgerSpec

\* So the ledger of the shell's job is coherent at every step.
THEOREM JobLedgerCoherent == Spec => []LedgerValid
BY LedgerImplemented, LedgerCoherent, PTL DEF ImplementsLedger

\* What the documents say of a settled job holds unless a write of
\* materializeSpec fails: that path is the only leak.
THEOREM SettledLeavesOnlyFailedWrite ==
    ASSUME WriteMayFail = FALSE
    PROVE  Spec => []SettledLeavesNothing
<1>1. ASSUME JobInv PROVE SettledLeavesNothing
    <2> USE <1>1 DEF JobInv
    <2> SUFFICES ASSUME job.stage = "settled"
                 PROVE  ~runDir /\ ~specDir /\ ProcessesGone
        BY DEF SettledLeavesNothing
    <2>1. pc = "done" /\ pc \in Over
        BY DEF StageAt, Over
    <2>2. NoResources(job)
        BY DEF LedgerInv, LedgerValid, ResourcesOwned
    <2>3. ProcessesGone
        BY <2>1, LedgerAssumption DEF ProcAt, ProcessesGone, Shape, Runs
    <2> QED
        BY <2>1, <2>2, <2>3 DEF NoResources, Resources, SpecAt, DirAt
<1> QED
    BY <1>1, JobInvariant, PTL

-----------------------------------------------------------------------------
(* The end of a body *)

\* The count of each place.
LEMMA StepValues ==
    /\ StepsFrom["queued"] = 27 /\ StepsFrom["pickup"] = 26
    /\ StepsFrom["check"] = 25 /\ StepsFrom["enter"] = 24
    /\ StepsFrom["acquire"] = 23 /\ StepsFrom["ownSpec"] = 22
    /\ StepsFrom["afterSpec"] = 21 /\ StepsFrom["makeDir"] = 20
    /\ StepsFrom["ownDir"] = 19 /\ StepsFrom["afterDir"] = 18
    /\ StepsFrom["call"] = 17 /\ StepsFrom["spawn"] = 16
    /\ StepsFrom["ownChild"] = 15 /\ StepsFrom["hook"] = 14
    /\ StepsFrom["killLate"] = 13 /\ StepsFrom["collect"] = 12
    /\ StepsFrom["abort"] = 11 /\ StepsFrom["reap"] = 10
    /\ StepsFrom["retire"] = 9 /\ StepsFrom["release"] = 8
    /\ StepsFrom["undir"] = 7 /\ StepsFrom["relDir"] = 6
    /\ StepsFrom["unspec"] = 5 /\ StepsFrom["relSpec"] = 4
    /\ StepsFrom["publish"] = 2 /\ StepsFrom["settle"] = 1
    /\ StepsFrom["done"] = 0 /\ StepsFrom["raised"] = 0
BY DEF StepsFrom

\* A body ends by itself but for its processes: each step of withAcquiredJobScope,
\* of its failures and of its unwinding counts, for any number of processes.
THEOREM BodiesCountDown == Spec => BodyCountsDown
<1>1. ASSUME JobInv, [Next]_vars
      PROVE  BodyLeft' < BodyLeft \/ UNCHANGED <<pc, run, result>>
    <2> USE <1>1, StepValues DEF BodyLeft, Go, Fail, world
    <2>0. run \in Nat /\ MaxGeneration \in Nat /\ run =< MaxGeneration
        BY LedgerAssumption DEF JobInv, Shape, Runs
    <2>1. CASE \/ StartJob \/ PickUp \/ CheckBeforeBody \/ CheckBeforeAcquire
               \/ CheckAfterSpec \/ CheckAfterDir \/ CheckBeforeSpawn
        BY <2>0, <2>1 DEF StartJob, PickUp, CheckBeforeBody, CheckBeforeAcquire,
           CheckAfterSpec, CheckAfterDir, CheckBeforeSpawn, CheckToken
    <2>2. CASE OwnSpec \/ OwnRunDir \/ OwnChild \/ Settle
        BY <2>0, <2>2 DEF OwnSpec, OwnRunDir, OwnChild, Settle, Acknowledge
    <2>3. CASE AcquireSpec \/ MakeRunDir \/ RemoveRunDir \/ RemoveSpec
        BY <2>0, <2>3 DEF AcquireSpec, MakeRunDir, RemoveRunDir, RemoveSpec
    <2>4. CASE ReleaseRunDir \/ ReleaseSpec \/ CollectRaises
        BY <2>0, <2>4 DEF ReleaseRunDir, ReleaseSpec, ReleaseHeld, CollectRaises
    <2>5. CASE PublishResult
        BY <2>0, <2>5 DEF PublishResult, CanPublish
    <2>6. CASE Spawn \/ RegisterHook \/ KillLate \/ Abort \/ Retire
        BY <2>0, <2>6 DEF Spawn, RegisterHook, KillLate, Abort, Retire
    <2>7. CASE Collect \/ ReapAborted
        BY <2>0, <2>7 DEF Collect, ReapAborted
    <2>8. CASE ReleaseChild
        BY <2>0, <2>8 DEF ReleaseChild
    <2>9. CASE \/ \E n \in Runs : Exits(n) \/ Dies(n)
               \/ \E c \in Cancellers : Cancel(c)
               \/ UNCHANGED vars
        BY <2>9, OthersLeaveThread
    <2> QED
        BY <2>1, <2>2, <2>3, <2>4, <2>5, <2>6, <2>7, <2>8, <2>9 DEF Next, Work
<1>2. JobInv /\ [Next]_vars =>
        [BodyLeft' < BodyLeft \/ UNCHANGED <<pc, run, result>>]_vars
    BY <1>1
<1> QED
    BY <1>2, JobInvariant, PTL DEF Spec, BodyCountsDown

\* The finally block sends its kill before it waits.
KilledBeforeReap == pc = "reap" => killed[run]

LEMMA ReapSteps ==
    ASSUME JobInv, KilledBeforeReap, [Next]_vars
    PROVE  KilledBeforeReap'
<1> SUFFICES ASSUME pc' = "reap" PROVE killed'[run']
    BY DEF KilledBeforeReap
<1> USE DEF JobInv, Shape
<1>1. CASE Abort
    BY <1>1 DEF Abort, Kill
<1>2. CASE pc = "reap" /\ UNCHANGED run
    <2>1. killed[run]
        BY <1>2 DEF KilledBeforeReap
    <2>2. killed' = killed \/ \E n \in Runs : killed' = [killed EXCEPT ![n] = TRUE]
        BY <1>2 DEF Next, Work, StartJob, PickUp, CheckBeforeBody, CheckBeforeAcquire,
           CheckAfterSpec, CheckAfterDir, CheckBeforeSpawn, CheckToken, OwnSpec, OwnRunDir,
           OwnChild, Settle, Acknowledge, ReleaseRunDir, ReleaseSpec, ReleaseHeld,
           PublishResult, CollectRaises, AcquireSpec, MakeRunDir, RemoveRunDir, RemoveSpec,
           Spawn, RegisterHook, KillLate, Abort, Retire, Collect, ReapAborted,
           ReleaseChild, Go, Fail, Exits, Dies, Cancel, FindToken, Flip, RunHook,
           CommitCancel, Kill, world, vars
    <2> QED
        BY <1>2, <2>1, <2>2
<1>3. Abort \/ (pc = "reap" /\ UNCHANGED run)
    BY OthersLeaveThread DEF Next, Work, StartJob, PickUp, CheckBeforeBody,
       CheckBeforeAcquire, CheckAfterSpec, CheckAfterDir, CheckBeforeSpawn, CheckToken,
       OwnSpec, OwnRunDir, OwnChild, Settle, Acknowledge, ReleaseRunDir, ReleaseSpec,
       ReleaseHeld, PublishResult, CollectRaises, AcquireSpec, MakeRunDir, RemoveRunDir,
       RemoveSpec, Spawn, RegisterHook, KillLate, Retire, Collect, ReapAborted,
       ReleaseChild, Go, Fail
<1> QED
    BY <1>1, <1>2, <1>3

\* A cancelled job and a failed one wait only for a process that dies: with the
\* theorem above, what is left to fairness is that a killed process dies and
\* that a canceller runs the hooks it claimed.
THEOREM CancelledWaitsForMortal == Spec => []WaitsOnlyForMortal
<1>1. Init => KilledBeforeReap
    BY DEF Init, KilledBeforeReap
<1>2. JobInv /\ KilledBeforeReap /\ [Next]_vars => KilledBeforeReap'
    BY ReapSteps
<1>3. ASSUME JobInv, KilledBeforeReap PROVE WaitsOnlyForMortal
    <2> USE <1>3 DEF JobInv
    <2>1. pc \in {"collect", "reap"} => proc[run] \in {"running", "exited", "died"}
        BY DEF ProcAt
    <2>2. ASSUME pc = "collect", job.cancelled
          PROVE  killed[run] \/ \E c \in Cancellers : cpc[c] = "run" /\ run \in claims[c]
        <3>1. Doomed(run)
            BY <2>2 DEF HooksAt
        <3> QED
            BY <3>1 DEF Doomed, Claimed, HooksAt
    <2> QED
        BY <2>1, <2>2 DEF WaitsOnlyForMortal, KilledBeforeReap
<1> QED
    BY <1>1, <1>2, <1>3, JobInvariant, PTL DEF Spec
=============================================================================
