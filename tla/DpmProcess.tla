---------------------------- MODULE DpmProcess ----------------------------
(***************************************************************************)
(* One owned process of the deterministic-scheduling host on POSIX, and    *)
(* the evidence budget it is charged to: owned_process, EvidenceBudget and *)
(* cancel_operation of tools/deterministic-scheduling/dpm_host.py.         *)
(*                                                                         *)
(* A byte is a unit: a request may retain OutputBytes of them, request and *)
(* schedule files and log lines of the host are less than one.             *)
(***************************************************************************)
EXTENDS Naturals, FiniteSetsExt

CONSTANTS
    Limit,        \* totalOutputBytes of the project
    OutputBytes,  \* outputBytes of the project: the bound of one request
    MaxKept       \* bound on the bytes that runners write past the limit

ASSUME BudgetAssumption ==
    /\ Limit \in Nat \ {0}
    /\ OutputBytes \in Nat \ {0}
    /\ MaxKept \in Nat
    /\ MaxKept > Limit

VARIABLES
    own,        \* where _run_owned_process stands
    cancelled,  \* the flag of the active owner
    child,      \* the process the host started
    heirs,      \* whether the rest of its group lives
    piped,      \* bytes in its pipes
    size,       \* bytes in the directory of the request
    expired,    \* the deadline of the request has passed
    primary,    \* the first failure
    cleanup,    \* what the owner says of the group
    lost,       \* a group an earlier owner left behind: "none", "alive", "gone"
    kept,       \* bytes in the output directory
    reserve     \* bytes the budget keeps for the report

processVars == <<own, cancelled, child, heirs, piped, size, expired, primary,
                 cleanup, lost>>
budgetVars == <<kept, reserve>>

\* _ACTIVE_PROCESS_CANCELLATION is set: a signal is only recorded.
Owned == own \in {"entered", "watching", "killing", "closing", "leaving"}

ProcessInit ==
    /\ own = "idle" /\ cancelled = FALSE
    /\ child = "none" /\ heirs = FALSE /\ piped = 0 /\ size = 0
    /\ expired = FALSE /\ primary = "none" /\ cleanup = "confirmed"
    /\ lost = "none" /\ kept = 0 /\ reserve = 1

ProcessTypeOK ==
    /\ own \in {"idle", "entered", "watching", "killing", "closing",
                "leaving", "returned", "raised"}
    /\ cancelled \in BOOLEAN /\ expired \in BOOLEAN
    /\ child \in {"none", "running", "exited", "failed", "dead"}
    /\ heirs \in BOOLEAN
    /\ piped \in 0..1 /\ size \in Nat /\ kept \in Nat /\ reserve \in Nat
    /\ primary \in {"none", "cancelled", "overflow", "timeout", "runner"}
    /\ cleanup \in {"confirmed", "incomplete"}
    /\ lost \in {"none", "alive", "gone"}

-----------------------------------------------------------------------------
(* The evidence budget.                                                    *)

\* audit(): the ceiling is the limit without the reserve, but for the report.
AuditFails(total, held) == total + held > Limit
RequestAuditFails(total, dir) == AuditFails(total, reserve) \/ dir > OutputBytes

\* available()
Room(held) == IF kept + held > Limit THEN 0 ELSE Limit - held - kept

\* The part of a block that the two bounds let the host retain.
Retained ==
    Min({piped, Room(reserve), IF size > OutputBytes THEN 0 ELSE OutputBytes - size})

-----------------------------------------------------------------------------
(* The runner, its descendants and the clock: not under the host's control. *)

RunnerPrints ==
    /\ child = "running" /\ piped = 0
    /\ piped' = 1
    /\ UNCHANGED <<own, cancelled, child, heirs, size, expired, primary, cleanup,
                   lost, kept, reserve>>

\* Direct writes into the request directory: nothing stops them at the bound.
RunnerWrites ==
    /\ child = "running" \/ heirs
    /\ size =< OutputBytes /\ kept < MaxKept
    /\ size' = size + 1 /\ kept' = kept + 1
    /\ UNCHANGED <<own, cancelled, child, heirs, piped, expired, primary, cleanup,
                   lost, reserve>>

RunnerForks ==
    /\ child = "running" /\ ~heirs
    /\ heirs' = TRUE
    /\ UNCHANGED <<own, cancelled, child, piped, size, expired, primary, cleanup,
                   lost, kept, reserve>>

RunnerExits ==
    /\ child = "running"
    /\ child' \in {"exited", "failed"}
    /\ UNCHANGED <<own, cancelled, heirs, piped, size, expired, primary, cleanup,
                   lost, kept, reserve>>

HeirsExit ==
    /\ heirs
    /\ heirs' = FALSE
    /\ UNCHANGED <<own, cancelled, child, piped, size, expired, primary, cleanup,
                   lost, kept, reserve>>

\* A group the host could not end: it writes on, and ends when it likes.
LostWrites ==
    /\ lost = "alive" /\ kept < MaxKept
    /\ kept' = kept + 1
    /\ UNCHANGED <<own, cancelled, child, heirs, piped, size, expired, primary,
                   cleanup, lost, reserve>>

LostExits ==
    /\ lost = "alive"
    /\ lost' = "gone"
    /\ UNCHANGED <<own, cancelled, child, heirs, piped, size, expired, primary,
                   cleanup, kept, reserve>>

Deadline ==
    /\ own = "watching" /\ ~expired
    /\ expired' = TRUE
    /\ UNCHANGED <<own, cancelled, child, heirs, piped, size, primary, cleanup,
                   lost, kept, reserve>>

Runner == RunnerPrints \/ RunnerWrites \/ RunnerForks \/ RunnerExits \/ HeirsExit
          \/ LostWrites \/ LostExits

-----------------------------------------------------------------------------
(* The owner.                                                              *)

\* __enter__: the owner is registered before anything is acquired.
Enter ==
    /\ own' = "entered" /\ cancelled' = FALSE
    /\ child' = "none" /\ heirs' = FALSE /\ piped' = 0 /\ size' = 0
    /\ expired' = FALSE /\ primary' = "none" /\ cleanup' = "confirmed"
    /\ UNCHANGED <<lost, budgetVars>>

\* The first check and audit; then the process starts, or cannot be started.
Start ==
    /\ own = "entered"
    /\ \/ /\ cancelled
          /\ primary' = "cancelled" /\ own' = "closing" /\ UNCHANGED child
       \/ /\ ~cancelled /\ RequestAuditFails(kept, size)
          /\ primary' = "overflow" /\ own' = "closing" /\ UNCHANGED child
       \/ /\ ~cancelled /\ ~RequestAuditFails(kept, size)
          /\ \/ child' = "running" /\ own' = "watching" /\ UNCHANGED primary
             \/ primary' = "runner" /\ own' = "closing" /\ UNCHANGED child
    /\ UNCHANGED <<cancelled, heirs, piped, size, expired, cleanup, lost, budgetVars>>

\* One turn of the loop: check, read and retain, audit, look at the group, at
\* the pipes (closed once the whole group is gone) and at the clock.
Turn(failure) ==
    /\ primary' = failure
    /\ own' = "killing"

\* As Watch, with the deadline looked at only before the loop.
FaultyWatch ==
    /\ own = "watching"
    /\ IF cancelled
       THEN Turn("cancelled") /\ UNCHANGED <<piped, size, kept>>
       ELSE /\ piped' = 0
            /\ size' = size + Retained
            /\ kept' = kept + Retained
            /\ CASE Retained < piped \/ RequestAuditFails(kept', size') -> Turn("overflow")
                 [] ~(Retained < piped \/ RequestAuditFails(kept', size')) ->
                    CASE child # "running" /\ heirs -> Turn("runner")
                      [] child # "running" /\ ~heirs ->
                         Turn(IF child = "failed" THEN "runner" ELSE "none")
                      [] OTHER -> UNCHANGED <<own, primary>>
    /\ UNCHANGED <<cancelled, child, heirs, expired, cleanup, lost, reserve>>

Watch ==
    /\ own = "watching"
    /\ IF cancelled
       THEN Turn("cancelled") /\ UNCHANGED <<piped, size, kept>>
       ELSE /\ piped' = 0
            /\ size' = size + Retained
            /\ kept' = kept + Retained
            /\ CASE Retained < piped \/ RequestAuditFails(kept', size') -> Turn("overflow")
                 [] ~(Retained < piped \/ RequestAuditFails(kept', size')) ->
                    CASE child # "running" /\ heirs -> Turn("runner")
                      [] child # "running" /\ ~heirs ->
                         Turn(IF child = "failed" THEN "runner" ELSE "none")
                      [] child = "running" /\ expired -> Turn("timeout")
                      [] OTHER -> UNCHANGED <<own, primary>>
    /\ UNCHANGED <<cancelled, child, heirs, expired, cleanup, lost, reserve>>

\* SIGTERM and SIGKILL to the group; the child itself is waited for, the rest
\* of the group is gone half a second later or is not.
Kill ==
    /\ own = "killing"
    /\ child' = "dead"
    /\ heirs' \in {FALSE, heirs}
    /\ cleanup' = IF heirs' THEN "incomplete" ELSE "confirmed"
    /\ own' = "closing"
    /\ UNCHANGED <<cancelled, piped, size, expired, primary, lost, budgetVars>>

\* Drain within the bounds, audit once more, and settle what failed first.
Close ==
    /\ own = "closing"
    /\ piped' = 0
    /\ size' = size + Retained
    /\ kept' = kept + Retained
    /\ primary' =
        CASE primary # "none" -> primary
          [] primary = "none" /\ (RequestAuditFails(kept', size') \/ Retained < piped) -> "overflow"
          [] primary = "none" /\ ~(RequestAuditFails(kept', size') \/ Retained < piped) ->
             IF cancelled THEN "cancelled" ELSE "none"
    /\ own' = "leaving"
    /\ UNCHANGED <<cancelled, child, heirs, expired, cleanup, lost, reserve>>

\* __exit__: the owner is gone, and a flag set since the last check still counts.
Leave ==
    /\ own = "leaving"
    /\ own' = IF primary = "none" /\ cleanup = "confirmed" /\ ~cancelled
              THEN "returned" ELSE "raised"
    /\ lost' = CASE heirs -> "alive"
                 [] ~heirs /\ cleanup = "incomplete" -> "gone"
                 [] OTHER -> lost
    /\ child' = "none" /\ heirs' = FALSE /\ size' = 0 /\ expired' = FALSE
    /\ cancelled' = FALSE /\ primary' = "none" /\ cleanup' = "confirmed"
    /\ UNCHANGED <<piped, budgetVars>>

Owner == Start \/ Watch \/ Kill \/ Close \/ Leave

\* cancel_operation while an owner is active.
Flag ==
    /\ Owned
    /\ cancelled' = TRUE
    /\ UNCHANGED <<own, child, heirs, piped, size, expired, primary, cleanup, lost, budgetVars>>
=============================================================================
