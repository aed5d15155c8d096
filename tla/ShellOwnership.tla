--------------------------- MODULE ShellOwnership ---------------------------
(***************************************************************************)
(* The ownership world as the effectful store keeps it: with the two steps *)
(* the Lean world has no constructor for.  submitJob takes an entry back   *)
(* when its thread cannot be started, and a job's thread gives its slot    *)
(* back also when the token refuses to settle.  Where neither happens this *)
(* is the Lean world.                                                      *)
(***************************************************************************)
EXTENDS JobOwnership

CONSTANTS
    MayWithdraw,  \* whether a launch may fail
    MayKeep       \* whether a body may return with a resource still leased

VARIABLE withdrawn  \* the entries taken back

shell == <<world, withdrawn>>

ShellInitial == Initial /\ withdrawn = {}

\* The submitter, still inside its call, drops the entry it inserted; another
\* connection may be waiting for it, and goes on doing so.
Withdraw(i) ==
    /\ MayWithdraw
    /\ i \in stored
    /\ stage[i] = "queued"
    /\ \E c \in Owners : owner[i] = c /\ connections[c] = "open"
    /\ owner' = [owner EXCEPT ![i] = NoOwner]
    /\ stored' = stored \ {i}
    /\ withdrawn' = withdrawn \cup {i}
    /\ UNCHANGED <<connections, stage, terminal, waiting>>

\* The slot is free again, the ledger of the job stays active.
KeepLease(i) ==
    /\ MayKeep
    /\ Found(i)
    /\ stage[i] = "active"
    /\ terminal[i]
    /\ stage' = [stage EXCEPT ![i] = "kept"]
    /\ UNCHANGED <<connections, owner, stored, terminal, waiting, withdrawn>>

\* Nobody is ever given the id of a withdrawn entry.
ShellStep ==
    \/ /\ Step
       /\ UNCHANGED withdrawn
       /\ \A i \in withdrawn : owner'[i] = NoOwner
    \/ \E i \in Jobs : Withdraw(i) \/ KeepLease(i)

ShellWorld == ShellInitial /\ [][ShellStep]_shell
=============================================================================
