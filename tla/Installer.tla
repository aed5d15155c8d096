----------------------------- MODULE Installer -----------------------------
(***************************************************************************)
(* tools/distribution/install.py on its POSIX profile: processes that      *)
(* install a verified cache into a prefix, one at a time under a file      *)
(* lock, through a journal (transaction.json), a stage, a directory of     *)
(* published versions and a selector (active.json).                        *)
(*                                                                         *)
(* A process may be killed between any two of its file operations, a file  *)
(* operation may fail, the cache may be replaced while it is read and a    *)
(* published version may be damaged.  The code fsyncs every mutation       *)
(* before the next, so a loss of power leaves what a kill leaves.          *)
(***************************************************************************)
EXTENDS Naturals, FiniteSets

CONSTANTS
    Installers,   \* processes that call install
    Digests,      \* manifest digests of the packages there are
    None,
    MaxCalls,     \* bound on the calls of install
    MaxFaults,    \* bound on the operations that fail, kills included
    MaxMischief   \* bound on cache replacements and damaged versions

VARIABLES
    lock,       \* the holder of .install.lock, or None
    active,     \* the digest active.json names, or None
    journal,    \* transaction.json, or None
    temps,      \* temporary files lying in the prefix
    versions,   \* the trees under versions/, by digest
    stages,     \* the directories under .staging/
    cache,      \* the package the cache directory holds
    proc,       \* the installers
    calls, faults, mischief   \* what has been used of the three bounds

prefixVars == <<active, journal, temps, versions, stages>>
boundVars == <<calls, faults, mischief>>
vars == <<lock, prefixVars, cache, proc, boundVars>>

Stages == 1 .. MaxCalls
MaybeDigest == Digests \cup {None}

(***************************************************************************)
(* A tree is copied in two halves, each from the package the cache held at *)
(* that time, and the runtime is then derived from it.                     *)
(***************************************************************************)
Trees == [head: MaybeDigest, tail: MaybeDigest, runtime: MaybeDigest]
EmptyTree == [head |-> None, tail |-> None, runtime |-> None]

\* What verify accepts of a copied cache, and the digest it returns for it.
CacheVerifies(tree, d) == tree.head = d /\ tree.tail = d

\* What verify_installation accepts.  It takes no digest: the name of the
\* directory is not compared with the manifest below it.
VerifiesInstallation(tree) ==
    /\ tree # None
    /\ tree.head # None
    /\ tree.tail = tree.head
    /\ tree.runtime = tree.head

StageStates == {"staging", "staged", "verified"}
VersionStates == {"activating", "committed", "rolled-back"}
JournalStates == StageStates \cup VersionStates \cup {"abandoned-stage"}

Transactions == [digest: MaybeDigest, previous: MaybeDigest, stage: Stages \cup {0}]
NoTransaction == [digest |-> None, previous |-> None, stage |-> 0]

(***************************************************************************)
(* The writes of the journal, by the control point that makes them: the    *)
(* state written, where the installer goes on and where the exception of a *)
(* failed write takes it.                                                  *)
(***************************************************************************)
JournalWrites == [
    quarantined |-> [state |-> "abandoned-stage", next |-> "select", failed |-> "raise"],
    recommit |-> [state |-> "committed", next |-> "select", failed |-> "undo"],
    restored |-> [state |-> "rolled-back", next |-> "select", failed |-> "raise"],
    begin |-> [state |-> "staging", next |-> "copyHead", failed |-> "raise"],
    materialized |-> [state |-> "staged", next |-> "verifyStage", failed |-> "raise"],
    verified |-> [state |-> "verified", next |-> "publish", failed |-> "raise"],
    published |-> [state |-> "activating", next |-> "activate", failed |-> "raise"],
    confirmed |-> [state |-> "committed", next |-> "done", failed |-> "undo"],
    undone |-> [state |-> "rolled-back", next |-> "raise", failed |-> "raise"]]

\* The writes of the selector and the end of the transaction each one selects.
FaultySelectorWrites == [
    activate |-> [end |-> "digest", next |-> "verifyActive", failed |-> "undo"],
    restore |-> [end |-> "digest", next |-> "undone", failed |-> "raise"]]
SelectorWrites == [
    activate |-> [end |-> "digest", next |-> "verifyActive", failed |-> "undo"],
    restore |-> [end |-> "previous", next |-> "undone", failed |-> "raise"]]

Writers == DOMAIN JournalWrites \cup DOMAIN SelectorWrites
Rollback == {"undo", "restore", "undone"}
Controls == {"idle", "admit", "probing", "verifyCache", "recover", "inspect", "select",
             "copyHead", "copyTail", "verifyCopy", "materialize", "verifyStage",
             "publish", "verifyActive", "undo", "raise", "done"} \cup Writers

\* write_json names its temporary after the file, activate_selector draws a
\* fresh name for every write.
TempOf(pc) == IF pc \in DOMAIN JournalWrites THEN "transaction" ELSE pc

Idle == [pc |-> "idle", writing |-> FALSE, wanted |-> None, tx |-> NoTransaction]

\* The closed shapes load_journal accepts: a stage or a version, by the state.
Journals ==
    {j \in [state: JournalStates, digest: Digests, previous: MaybeDigest, stage: Stages \cup {0}]:
         (j.stage = 0) <=> (j.state \in VersionStates)}

\* None is no name, and no record either: "nothing" is told apart from a tree,
\* a journal and the two ends of a transaction.
ASSUME InstallerAssumption ==
    /\ {MaxCalls, MaxFaults, MaxMischief} \subseteq Nat
    /\ None \notin Installers \cup Digests
    /\ None \notin Trees \cup Journals \cup [old: MaybeDigest, new: Digests]

\* The record a write leaves: staging|staged|verified|abandoned-stage name the
\* stage, the others the version.
JournalOf(state, tx) ==
    [state |-> state, digest |-> tx.digest, previous |-> tx.previous,
     stage |-> IF state \in VersionStates THEN 0 ELSE tx.stage]

StageRecords == [status: {"unused", "open", "abandoned", "gone"}, tree: Trees]
Calls == [pc: Controls, writing: BOOLEAN, wanted: MaybeDigest, tx: Transactions]

\* Every variable is of its type; in particular load_journal accepts every
\* journal the code writes ("the closed journal record" of the contract).
TypeOK ==
    /\ lock \in Installers \cup {None}
    /\ active \in MaybeDigest
    /\ journal \in {None} \cup Journals
    /\ temps \subseteq {"probe", "transaction", "activate", "restore"}
    /\ versions \in [Digests -> Trees \cup {None}]
    /\ stages \in [Stages -> StageRecords]
    /\ cache \in Digests
    /\ proc \in [Installers -> Calls]
    /\ calls \in 0 .. MaxCalls
    /\ faults \in 0 .. MaxFaults
    /\ mischief \in 0 .. MaxMischief

Init ==
    /\ lock = None
    /\ active = None
    /\ journal = None
    /\ temps = {}
    /\ versions = [d \in Digests |-> None]
    /\ stages = [s \in Stages |-> [status |-> "unused", tree |-> EmptyTree]]
    /\ cache \in Digests
    /\ proc = [p \in Installers |-> Idle]
    /\ calls = 0
    /\ faults = 0
    /\ mischief = 0

At(p, pc) == proc[p].pc = pc
Goto(p, pc) == proc' = [proc EXCEPT ![p].pc = pc, ![p].writing = FALSE]

Fault ==
    /\ faults < MaxFaults
    /\ faults' = faults + 1

\* An operation that succeeds if ok, and that may fail although it is.
Attempt(p, ok, next, failed) ==
    \/ /\ Goto(p, IF ok THEN next ELSE failed)
       /\ UNCHANGED faults
    \/ /\ Goto(p, failed)
       /\ Fault

-----------------------------------------------------------------------------
(***************************************************************************)
(* install: the lock, the refusal of entries it does not know, the probe   *)
(* for a case-sensitive file system.                                       *)
(***************************************************************************)
FaultyBegin(p) ==
    /\ At(p, "idle")
    /\ calls < MaxCalls
    /\ calls' = calls + 1
    /\ lock' = p
    /\ Goto(p, "admit")
    /\ UNCHANGED <<prefixVars, cache, faults, mischief>>
Begin(p) ==
    /\ lock = None
    /\ FaultyBegin(p)

\* The lock is taken without waiting: the other call ends here.
Locked(p) ==
    /\ At(p, "idle")
    /\ lock # None
    /\ calls < MaxCalls
    /\ calls' = calls + 1
    /\ UNCHANGED <<lock, prefixVars, cache, proc, faults, mischief>>

RefuseUnknownEntry(p) ==
    /\ At(p, "admit")
    /\ temps # {}
    /\ Goto(p, "raise")
    /\ UNCHANGED <<lock, prefixVars, cache, boundVars>>

Probe(p) ==
    /\ At(p, "admit")
    /\ temps = {}
    /\ temps' = {"probe"}
    /\ Goto(p, "probing")
    /\ UNCHANGED <<lock, active, journal, versions, stages, cache, boundVars>>

ProbeEnds(p) ==
    /\ At(p, "probing")
    /\ temps' = temps \ {"probe"}
    /\ Attempt(p, TRUE, "verifyCache", "raise")
    /\ UNCHANGED <<lock, active, journal, versions, stages, cache, calls, mischief>>

\* _install_locked verifies the cache and takes its digest.
VerifyCache(p) ==
    /\ At(p, "verifyCache")
    /\ \/ /\ proc' = [proc EXCEPT ![p].pc = "recover", ![p].wanted = cache]
          /\ UNCHANGED faults
       \/ Goto(p, "raise") /\ Fault
    /\ UNCHANGED <<lock, prefixVars, cache, calls, mischief>>

-----------------------------------------------------------------------------
(***************************************************************************)
(* recover_internal_state.                                                 *)
(***************************************************************************)
ClearSelectorTemps(p) ==
    /\ At(p, "recover")
    /\ temps' = temps \ DOMAIN SelectorWrites
    /\ Goto(p, "inspect")
    /\ UNCHANGED <<lock, active, journal, versions, stages, cache, boundVars>>

JournalIn(states) == journal # None /\ journal.state \in states

NothingToRecover(p) ==
    /\ At(p, "inspect")
    /\ ~ JournalIn(StageStates \cup {"activating"})
    /\ Goto(p, "select")
    /\ UNCHANGED <<lock, prefixVars, cache, boundVars>>

\* Recovery goes on with the transaction of the journal, not of the caller.
Adopt(p, pc) ==
    proc' = [proc EXCEPT ![p].pc = pc,
        ![p].tx = [digest |-> journal.digest, previous |-> journal.previous,
                   stage |-> journal.stage]]

Quarantine(p) ==
    /\ At(p, "inspect")
    /\ JournalIn(StageStates)
    /\ stages' = IF stages[journal.stage].status = "open"
                 THEN [stages EXCEPT ![journal.stage].status = "abandoned"]
                 ELSE stages
    /\ Adopt(p, "quarantined")
    /\ UNCHANGED <<lock, active, journal, temps, versions, cache, boundVars>>

\* The new version is selected: commit it if it verifies, else roll back.
RecoverActivated(p) ==
    /\ At(p, "inspect")
    /\ JournalIn({"activating"})
    /\ active = journal.digest
    /\ \/ /\ Adopt(p, IF VerifiesInstallation(versions[active]) THEN "recommit" ELSE "undo")
          /\ UNCHANGED faults
       \/ Adopt(p, "undo") /\ Fault
    /\ UNCHANGED <<lock, prefixVars, cache, calls, mischief>>

\* The old selection stands.  A third one would end the call; that there is
\* none is JournalCoversSelection below.
RecoverUnactivated(p) ==
    /\ At(p, "inspect")
    /\ JournalIn({"activating"})
    /\ active # journal.digest
    /\ active = journal.previous
    /\ \/ /\ Adopt(p, IF active = None \/ VerifiesInstallation(versions[active])
                      THEN "restored" ELSE "raise")
          /\ UNCHANGED faults
       \/ active # None /\ Adopt(p, "raise") /\ Fault
    /\ UNCHANGED <<lock, prefixVars, cache, calls, mischief>>

-----------------------------------------------------------------------------
(***************************************************************************)
(* write_json and activate_selector: an exclusive temporary, then a rename *)
(* over the file, then an fsync of the directory.  Nothing removes the     *)
(* temporary of a write that fails.                                        *)
(***************************************************************************)
Failed(pc) == IF pc \in DOMAIN JournalWrites THEN JournalWrites[pc].failed
                                             ELSE SelectorWrites[pc].failed
Follow(pc) == IF pc \in DOMAIN JournalWrites THEN JournalWrites[pc].next
                                             ELSE SelectorWrites[pc].next

CreateTemp(p) ==
    /\ proc[p].pc \in Writers
    /\ ~ proc[p].writing
    /\ \/ /\ TempOf(proc[p].pc) \notin temps
          /\ temps' = temps \cup {TempOf(proc[p].pc)}
          /\ proc' = [proc EXCEPT ![p].writing = TRUE]
          /\ UNCHANGED faults
       \/ /\ TempOf(proc[p].pc) \in temps
          /\ Goto(p, Failed(proc[p].pc))
          /\ UNCHANGED <<temps, faults>>
    /\ UNCHANGED <<lock, active, journal, versions, stages, cache, calls, mischief>>

WriteFails(p) ==
    /\ proc[p].pc \in Writers
    /\ proc[p].writing
    /\ Goto(p, Failed(proc[p].pc))
    /\ Fault
    /\ UNCHANGED <<lock, prefixVars, cache, calls, mischief>>

\* The rename.  The fsync after it may still fail.
Replace(p) ==
    /\ proc[p].writing
    /\ temps' = temps \ {TempOf(proc[p].pc)}
    /\ LET pc == proc[p].pc
           tx == proc[p].tx
       IN /\ IF pc \in DOMAIN JournalWrites
             THEN /\ journal' = JournalOf(JournalWrites[pc].state, tx)
                  /\ UNCHANGED active
             ELSE /\ active' = tx[SelectorWrites[pc].end]
                  /\ UNCHANGED journal
          /\ Attempt(p, TRUE, Follow(pc), Failed(pc))
    /\ UNCHANGED <<lock, versions, stages, cache, calls, mischief>>

-----------------------------------------------------------------------------
(***************************************************************************)
(* _install_locked after recovery, and _populate_and_activate.             *)
(***************************************************************************)
\* The wanted version is selected already: verify it and write nothing.
Idempotent(p) ==
    /\ At(p, "select")
    /\ active = proc[p].wanted
    /\ Attempt(p, VerifiesInstallation(versions[active]), "done", "raise")
    /\ UNCHANGED <<lock, prefixVars, cache, calls, mischief>>

UnusedStages == {s \in Stages: stages[s].status = "unused"}

\* The stage exists before the journal names it.
MakeStage(p) ==
    /\ At(p, "select")
    /\ active # proc[p].wanted
    /\ LET s == CHOOSE s \in UnusedStages: \A t \in UnusedStages: s <= t
       IN /\ stages' = [stages EXCEPT ![s].status = "open"]
          /\ proc' = [proc EXCEPT ![p].pc = "begin",
                 ![p].tx = [digest |-> proc[p].wanted, previous |-> active, stage |-> s]]
    /\ UNCHANGED <<lock, active, journal, temps, versions, cache, boundVars>>

StageOf(p) == stages[proc[p].tx.stage].tree

\* copy_cache_tree.  Half of it may be read before the cache is replaced.
CopyHead(p) ==
    /\ At(p, "copyHead")
    /\ stages' = [stages EXCEPT ![proc[p].tx.stage].tree.head = cache]
    /\ Attempt(p, TRUE, "copyTail", "raise")
    /\ UNCHANGED <<lock, active, journal, temps, versions, cache, calls, mischief>>

CopyTail(p) ==
    /\ At(p, "copyTail")
    /\ stages' = [stages EXCEPT ![proc[p].tx.stage].tree.tail = cache]
    /\ Attempt(p, TRUE, "verifyCopy", "raise")
    /\ UNCHANGED <<lock, active, journal, temps, versions, cache, calls, mischief>>

VerifyCopy(p) ==
    /\ At(p, "verifyCopy")
    /\ Attempt(p, CacheVerifies(StageOf(p), proc[p].wanted), "materialize", "raise")
    /\ UNCHANGED <<lock, prefixVars, cache, calls, mischief>>

\* materialize and fsync_tree.  A failure leaves part of the runtime.
Materialize(p) ==
    /\ At(p, "materialize")
    /\ \/ /\ stages' = [stages EXCEPT ![proc[p].tx.stage].tree.runtime = StageOf(p).head]
          /\ Goto(p, "materialized")
          /\ UNCHANGED faults
       \/ /\ Goto(p, "raise")
          /\ Fault
          /\ UNCHANGED stages
    /\ UNCHANGED <<lock, active, journal, temps, versions, cache, calls, mischief>>

VerifyStage(p) ==
    /\ At(p, "verifyStage")
    /\ Attempt(p, VerifiesInstallation(StageOf(p)), "verified", "raise")
    /\ UNCHANGED <<lock, prefixVars, cache, calls, mischief>>

\* A version published before is verified and kept, and the stage removed.
KeepPublished(p) ==
    /\ At(p, "publish")
    /\ versions[proc[p].wanted] # None
    /\ Attempt(p, VerifiesInstallation(versions[proc[p].wanted]), "published", "raise")
    /\ stages' = IF proc'[p].pc = "published"
                 THEN [stages EXCEPT ![proc[p].tx.stage].status = "gone"] ELSE stages
    /\ UNCHANGED <<lock, active, journal, temps, versions, cache, calls, mischief>>

\* Renaming the stage publishes it.
PublishStage(p) ==
    /\ At(p, "publish")
    /\ versions[proc[p].wanted] = None
    /\ versions' = [versions EXCEPT ![proc[p].wanted] = StageOf(p)]
    /\ stages' = [stages EXCEPT ![proc[p].tx.stage].status = "gone"]
    /\ Attempt(p, TRUE, "published", "raise")
    /\ UNCHANGED <<lock, active, journal, temps, cache, calls, mischief>>

VerifyActive(p) ==
    /\ At(p, "verifyActive")
    /\ Attempt(p, VerifiesInstallation(versions[proc[p].tx.digest]), "confirmed", "undo")
    /\ UNCHANGED <<lock, prefixVars, cache, calls, mischief>>

\* The exception handler.  The previous version is verified before it is
\* selected again; if it does not verify, the new one stays selected.
FaultyUndo(p) ==
    /\ At(p, "undo")
    /\ Goto(p, "undone")
    /\ UNCHANGED <<lock, prefixVars, cache, boundVars>>
UndoFirst(p) ==
    /\ At(p, "undo")
    /\ proc[p].tx.previous = None
    /\ Attempt(p, TRUE, "undone", "raise")
    /\ active' = IF proc'[p].pc = "undone" THEN None ELSE active
    /\ UNCHANGED <<lock, journal, temps, versions, stages, cache, calls, mischief>>
UndoToPrevious(p) ==
    /\ At(p, "undo")
    /\ proc[p].tx.previous # None
    /\ Attempt(p, VerifiesInstallation(versions[proc[p].tx.previous]), "restore", "raise")
    /\ UNCHANGED <<lock, prefixVars, cache, calls, mischief>>

\* The call returns or raises, and gives the lock back.
Return(p) ==
    /\ proc[p].pc \in {"raise", "done"}
    /\ lock' = None
    /\ proc' = [proc EXCEPT ![p] = Idle]
    /\ UNCHANGED <<prefixVars, cache, boundVars>>

-----------------------------------------------------------------------------
\* The kernel releases the lock of a process it kills.
Kill(p) ==
    /\ ~ At(p, "idle")
    /\ Fault
    /\ lock' = None
    /\ proc' = [proc EXCEPT ![p] = Idle]
    /\ UNCHANGED <<prefixVars, cache, calls, mischief>>

ReplaceCache ==
    /\ mischief < MaxMischief
    /\ mischief' = mischief + 1
    /\ \E d \in Digests \ {cache}: cache' = d
    /\ UNCHANGED <<lock, prefixVars, proc, calls, faults>>

DamageVersion(d) ==
    /\ mischief < MaxMischief
    /\ mischief' = mischief + 1
    /\ versions[d] # None
    /\ versions' = [versions EXCEPT ![d].tail = None]
    /\ UNCHANGED <<lock, active, journal, temps, stages, cache, proc, calls, faults>>

Step(p) ==
    \/ Begin(p) \/ Locked(p) \/ RefuseUnknownEntry(p) \/ Probe(p) \/ ProbeEnds(p)
    \/ VerifyCache(p) \/ ClearSelectorTemps(p) \/ NothingToRecover(p) \/ Quarantine(p)
    \/ RecoverActivated(p) \/ RecoverUnactivated(p)
    \/ CreateTemp(p) \/ WriteFails(p) \/ Replace(p)
    \/ Idempotent(p) \/ MakeStage(p) \/ CopyHead(p) \/ CopyTail(p) \/ VerifyCopy(p)
    \/ Materialize(p) \/ VerifyStage(p) \/ KeepPublished(p) \/ PublishStage(p)
    \/ VerifyActive(p) \/ UndoFirst(p) \/ UndoToPrevious(p) \/ Return(p)

Next ==
    \/ \E p \in Installers: Step(p) \/ Kill(p)
    \/ ReplaceCache
    \/ \E d \in Digests: DamageVersion(d)

Spec == Init /\ [][Next]_vars

-----------------------------------------------------------------------------
(***************************************************************************)
(* Correctness.                                                            *)
(***************************************************************************)
\* Every published version was complete and is the package its directory is
\* named after (versions/<digest>), although verify_installation never
\* compares the two: only the check of the copy against the admitted digest
\* keeps a cache replaced during the copy from being published under the
\* wrong name.  Afterwards only damage changes it.
PublishedIsNamed ==
    \A d \in Digests: versions[d] # None =>
        /\ versions[d].head = d
        /\ versions[d].runtime = d
        /\ versions[d].tail \in {d, None}

\* The journal and the selector agree at every instant, after any kill and
\* any failed write: recovery finds the selection to be one of the two ends
\* of the transaction, never the "ambiguous activating transaction", and both
\* ends are still there to return to.
JournalCoversSelection ==
    /\ journal = None => active = None
    /\ JournalIn(JournalStates \ {"activating", "committed"}) => active = journal.previous
    /\ JournalIn({"activating", "committed"}) => active \in {journal.digest, journal.previous}
    /\ \A d \in {active} \cup (IF journal = None THEN {} ELSE {journal.previous}):
           d # None => versions[d] # None

\* "... write/fsync failure or interruption preserves the previous usable
\* installation": a call that raises after recovery leaves selected what was
\* selected before it, unless the rollback itself was cut short, and then the
\* journal still names the transaction.  A call that returns has selected the
\* package it admitted and left no transaction open.
CallKeepsOrSelects ==
    \A p \in Installers:
        /\ At(p, "raise") /\ proc[p].tx # NoTransaction =>
               \/ active = proc[p].tx.previous
               \/ JournalIn({"activating", "committed"}) /\ active = journal.digest
        /\ At(p, "done") =>
               /\ active = proc[p].wanted
               /\ ~ JournalIn(StageStates \cup {"activating"})

\* A stage the journal does not name holds nothing: the journal is written
\* between the creation of the stage and the first byte copied into it, and
\* recovery moves the stage away before it gives up its name.
OrphanStagesEmpty ==
    \A s \in Stages:
        stages[s].status = "open" /\ stages[s].tree # EmptyTree =>
            JournalIn(StageStates) /\ journal.stage = s

\* What recovery, the runtime and the next install find on disk after any
\* interruption is consistent.
InstallationConsistent == PublishedIsNamed /\ JournalCoversSelection /\ OrphanStagesEmpty

\* The selection as the user sees it implements InstallSelection.  While an
\* unsynced "committed" is being rolled back the transaction is still open.
RollingBack == \E p \in Installers: proc[p].pc \in Rollback
TransactionOpen ==
    JournalIn({"activating"}) \/ (RollingBack /\ JournalIn({"committed"}))
Selection == INSTANCE InstallSelection WITH
    selected <- active,
    transaction <- IF TransactionOpen
                   THEN [old |-> journal.previous, new |-> journal.digest] ELSE None
ImplementsSelection == Selection!Spec

\* The contract of activation says "Startup recovery never guesses" and that
\* an interrupted activation is verified and recorded by the next start: a
\* call is never refused while a transaction is left open.
InterruptionRecovered ==
    \A p \in Installers:
        ~ (At(p, "admit") /\ temps # {} /\ JournalIn({"activating"}))
=============================================================================
