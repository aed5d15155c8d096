------------------------- MODULE JobStoreRefinement -------------------------
(***************************************************************************)
(* The store implements the ownership world: the refinement mapping.  The  *)
(* source proves the world safe and says that the effectful shell is not   *)
(* claimed to refine it; here the shell's critical sections are shown to,  *)
(* with the two steps of ShellOwnership for what the shell does besides.   *)
(***************************************************************************)
EXTENDS JobStore

CONSTANT NoSession  \* the owner of an id that is not given out

ASSUME NoSessionAssumption == NoSession \notin Sessions

\* Who submitted an id: its connection remembers it from the insertion on.
Owner(j) ==
    IF \E c \in Sessions : j \in mine[c] \/ (pc[c] = "launch" /\ arg[c] = j)
    THEN CHOOSE c \in Sessions : j \in mine[c] \/ (pc[c] = "launch" /\ arg[c] = j)
    ELSE NoSession

\* The stage of the token's ledger, as resourceEvent start and settle set it; a
\* thread whose settle was refused is outside its slot with its ledger active.
Stage(j) == IF j \in Holding THEN "active"
            ELSE IF worker[j] = "settled" THEN "settled"
            ELSE IF worker[j] = "raised" THEN "kept" ELSE "queued"

\* The ids given out whose submission was taken back.
Withdrawals == {j \in Ids : j < counter /\ Owner(j) = NoSession}

Waiting(c) == IF pc[c] \in {"await", "awaitTimed"} THEN arg[c]
              ELSE MaxSubmissions

Ownership == INSTANCE ShellOwnership WITH
    Owners <- Sessions,
    Jobs <- Ids,
    NoOwner <- NoSession,
    NoJob <- MaxSubmissions,
    connections <- conn,
    owner <- [j \in Ids |-> Owner(j)],
    stage <- [j \in Ids |-> Stage(j)],
    terminal <- [j \in Ids |-> wire[j] # "none"],
    waiting <- [c \in Sessions |-> Waiting(c)],
    withdrawn <- Withdrawals,
    MayWithdraw <- LaunchMayFail,
    MayKeep <- CleanupMayFail

\* Every step of the store is a step of the ownership world or leaves it
\* unchanged: admission, start, publication, settling, closing, eviction and
\* awaiting happen in the order and under the guards the Lean world allows; an
\* entry leaves in no other way than by eviction or a failed launch.
ImplementsOwnership == Ownership!ShellWorld

\* The same without the steps of the shell.
ImplementsLeanWorld == Ownership!World

=============================================================================
