-------------------------- MODULE InstallerProofs --------------------------
(***************************************************************************)
(* What Installer owes to its journal, for any number of installers,       *)
(* packages, calls, kills and failed operations.                           *)
(***************************************************************************)
EXTENDS Installer, TLAPS

-----------------------------------------------------------------------------
(* The inductive invariant: first what holds of the prefix alone, then what *)
(* the installer that holds the lock knows of it at each of its places.    *)

\* One installer at a time is inside of a call.
LockHeld == \A p \in Installers: proc[p].pc # "idle" => lock = p

\* Before its call makes a stage, the installer has one left to make.
BeforeStage == {"admit", "probing", "verifyCache", "recover", "inspect", "quarantined",
                "recommit", "restored", "select"}

\* Stages are made in order, one for each call at most, and empty.
StagesInOrder ==
    /\ \E n \in 0 .. calls:
           /\ \A s \in Stages: stages[s].status = "unused" <=> s > n
           /\ \A p \in Installers: proc[p].pc \in BeforeStage => n < calls
    /\ \A s \in Stages: stages[s].status = "unused" => stages[s].tree = EmptyTree

\* The journal names the transaction the installer works on.
Journalled(p) ==
    /\ journal # None
    /\ journal.digest = proc[p].tx.digest
    /\ journal.previous = proc[p].tx.previous

Resolved == ~ JournalIn(StageStates \cup {"activating"})

\* What CallKeepsOrSelects promises of a call that raises.
Kept(p) ==
    proc[p].tx # NoTransaction =>
        \/ active = proc[p].tx.previous
        \/ JournalIn({"activating", "committed"}) /\ active = journal.digest

Copied == {"materialize", "materialized", "verifyStage", "verified", "publish"}
Materialized == Copied \ {"materialize"}
Staging == {"copyHead", "copyTail", "verifyCopy", "published"} \cup Copied
Activating == {"activate", "verifyActive", "confirmed"}
Admitted == {"recover", "inspect", "quarantined", "recommit", "restored", "select",
             "begin", "done"} \cup Staging \cup Activating

\* What an installer knows that has not reached its stage.
KnowsRecovery(p) ==
    /\ proc[p].pc \in {"idle", "admit", "probing", "verifyCache", "recover", "inspect"} =>
           proc[p].tx = NoTransaction
    /\ proc[p].pc = "quarantined" =>
           /\ Journalled(p) /\ JournalIn(StageStates)
           /\ proc[p].tx.stage = journal.stage
           /\ stages[journal.stage].status # "open"
    /\ proc[p].pc = "recommit" =>
           Journalled(p) /\ JournalIn({"activating"}) /\ active = journal.digest
    /\ proc[p].pc = "restored" =>
           Journalled(p) /\ JournalIn({"activating"}) /\ active = journal.previous
    /\ proc[p].pc = "select" => Resolved /\ Kept(p)

\* What it knows while it fills the stage and publishes it.
KnowsStage(p) ==
    /\ proc[p].pc \in {"begin"} \cup Staging =>
           /\ proc[p].tx.digest = proc[p].wanted
           /\ proc[p].tx.previous = active
           /\ proc[p].tx.stage \in Stages
           /\ stages[proc[p].tx.stage].status # "unused"
           /\ active # proc[p].wanted
    /\ proc[p].pc = "begin" => Resolved /\ stages[proc[p].tx.stage].tree = EmptyTree
    /\ proc[p].pc \in Staging =>
           Journalled(p) /\ JournalIn(StageStates) /\ journal.stage = proc[p].tx.stage
    /\ proc[p].pc \in Copied => CacheVerifies(StageOf(p), proc[p].wanted)
    /\ proc[p].pc \in Materialized => StageOf(p).runtime = proc[p].wanted
    /\ proc[p].pc = "published" =>
           /\ versions[proc[p].wanted] # None
           /\ stages[proc[p].tx.stage].status = "gone"

\* What it knows from the selection of the new version to the end of the call.
KnowsSelection(p) ==
    /\ proc[p].pc \in Activating =>
           /\ Journalled(p) /\ JournalIn({"activating"})
           /\ proc[p].tx.digest = proc[p].wanted
           /\ versions[proc[p].wanted] # None
    /\ proc[p].pc \in {"verifyActive", "confirmed"} => active = proc[p].wanted
    /\ proc[p].pc \in Rollback =>
           Journalled(p) /\ JournalIn({"activating", "committed"})
    /\ proc[p].pc = "undone" => active = journal.previous
    /\ proc[p].pc = "raise" => Kept(p)
    /\ proc[p].pc = "done" => active = proc[p].wanted /\ Resolved

Knows(p) ==
    /\ proc[p].writing => proc[p].pc \in Writers
    /\ proc[p].pc \in Admitted => proc[p].wanted \in Digests
    /\ KnowsRecovery(p)
    /\ KnowsStage(p)
    /\ KnowsSelection(p)

InstallerInv ==
    /\ TypeOK
    /\ LockHeld
    /\ StagesInOrder
    /\ InstallationConsistent
    /\ \A p \in Installers: Knows(p)

-----------------------------------------------------------------------------
(* The tables of the writes *)

LEMMA JournalWriters ==
    DOMAIN JournalWrites = {"quarantined", "recommit", "restored", "begin",
                            "materialized", "verified", "published", "confirmed",
                            "undone"}
BY DEF JournalWrites

LEMMA SelectorWriters == DOMAIN SelectorWrites = {"activate", "restore"}
BY DEF SelectorWrites

\* Where the installer goes after a write of the journal, and what it wrote.
LEMMA JournalTable ==
    /\ JournalWrites["quarantined"] =
           [state |-> "abandoned-stage", next |-> "select", failed |-> "raise"]
    /\ JournalWrites["recommit"] =
           [state |-> "committed", next |-> "select", failed |-> "undo"]
    /\ JournalWrites["restored"] =
           [state |-> "rolled-back", next |-> "select", failed |-> "raise"]
    /\ JournalWrites["begin"] =
           [state |-> "staging", next |-> "copyHead", failed |-> "raise"]
    /\ JournalWrites["materialized"] =
           [state |-> "staged", next |-> "verifyStage", failed |-> "raise"]
    /\ JournalWrites["verified"] =
           [state |-> "verified", next |-> "publish", failed |-> "raise"]
    /\ JournalWrites["published"] =
           [state |-> "activating", next |-> "activate", failed |-> "raise"]
    /\ JournalWrites["confirmed"] =
           [state |-> "committed", next |-> "done", failed |-> "undo"]
    /\ JournalWrites["undone"] =
           [state |-> "rolled-back", next |-> "raise", failed |-> "raise"]
BY DEF JournalWrites

LEMMA SelectorTable ==
    /\ SelectorWrites["activate"] =
           [end |-> "digest", next |-> "verifyActive", failed |-> "undo"]
    /\ SelectorWrites["restore"] =
           [end |-> "previous", next |-> "undone", failed |-> "raise"]
BY DEF SelectorWrites

\* The control points a write can lead to.
LEMMA WritesLead ==
    ASSUME NEW pc \in Writers
    PROVE  /\ Follow(pc) \in Controls \ {"idle"}
           /\ Failed(pc) \in {"raise", "undo"}
           /\ Failed(pc) = "undo" <=> pc \in {"recommit", "activate", "confirmed"}
           /\ pc \in BeforeStage <=> pc \in {"quarantined", "recommit", "restored"}
           /\ Follow(pc) \in BeforeStage => pc \in BeforeStage
BY JournalWriters, SelectorWriters, JournalTable, SelectorTable
   DEF Writers, Follow, Failed, Controls, BeforeStage

-----------------------------------------------------------------------------
(* Moves of one installer *)

\* A move changes the control point and lays the pen down.
LEMMA Moved ==
    ASSUME TypeOK, NEW p \in Installers, NEW pc \in Controls, Goto(p, pc)
    PROVE  /\ proc' \in [Installers -> Calls]
           /\ proc'[p].pc = pc
           /\ ~ proc'[p].writing
           /\ proc'[p].tx = proc[p].tx
           /\ proc'[p].wanted = proc[p].wanted
           /\ \A q \in Installers \ {p}: proc'[q] = proc[q]
<1>1. proc \in [Installers -> Calls]
    BY DEF TypeOK
<1> QED
    BY <1>1 DEF Goto, Calls

\* The installer that acts holds the lock, and it alone is inside of a call.
LEMMA HolderAlone ==
    ASSUME LockHeld, NEW p \in Installers, proc[p].pc # "idle"
    PROVE  lock = p /\ \A q \in Installers \ {p}: proc[q].pc = "idle"
BY DEF LockHeld

\* A step of one installer has to be argued for that installer alone.
LEMMA OneMoves ==
    ASSUME InstallerInv, NEW p \in Installers,
           \A q \in Installers \ {p}: proc'[q] = proc[q] /\ proc[q].pc = "idle",
           proc'[p].pc # "idle" => lock' = p,
           TypeOK', StagesInOrder', InstallationConsistent', Knows(p)'
    PROVE  InstallerInv'
<1>1. LockHeld'
    BY DEF LockHeld
<1>2. ASSUME NEW q \in Installers \ {p} PROVE Knows(q)'
    <2>1. proc'[q].pc = "idle" /\ ~ proc'[q].writing /\ proc'[q].tx = NoTransaction
        BY JournalWriters, SelectorWriters DEF InstallerInv, Knows, KnowsRecovery, Writers
    <2> QED
        BY <2>1 DEF Knows, KnowsRecovery, KnowsStage, KnowsSelection, Admitted,
               Staging, Copied, Materialized, Activating, Rollback
<1> QED
    BY <1>1, <1>2 DEF InstallerInv

LEMMA Attempted ==
    ASSUME TypeOK, NEW p, NEW ok, NEW next, NEW failed, Attempt(p, ok, next, failed)
    PROVE  /\ (Goto(p, next) /\ ok) \/ Goto(p, failed)
           /\ faults' \in 0 .. MaxFaults
BY InstallerAssumption DEF Attempt, Fault, TypeOK

\* No step but MakeStage takes an unused stage.
LEMMA OrderKept ==
    ASSUME InstallerInv, NEW p \in Installers,
           \A s \in Stages: stages'[s].status = "unused" <=> stages[s].status = "unused",
           \A s \in Stages: stages[s].status = "unused" => stages'[s].tree = stages[s].tree,
           calls' \in {calls, calls + 1},
           \A q \in Installers \ {p}: proc'[q] = proc[q] /\ proc[q].pc = "idle",
           proc'[p].pc \in BeforeStage => proc[p].pc \in BeforeStage \/ calls' = calls + 1
    PROVE  StagesInOrder'
<1>1. PICK n \in 0 .. calls:
          /\ \A s \in Stages: stages[s].status = "unused" <=> s > n
          /\ \A q \in Installers: proc[q].pc \in BeforeStage => n < calls
    BY DEF InstallerInv, StagesInOrder
<1>2. calls \in Nat
    BY InstallerAssumption DEF InstallerInv, TypeOK
<1>3. n \in 0 .. calls'
    BY <1>2
<1>4. \A q \in Installers: proc'[q].pc \in BeforeStage => n < calls'
    <2>1. ASSUME NEW q \in Installers, q # p PROVE proc'[q].pc \notin BeforeStage
        BY <2>1 DEF BeforeStage
    <2>2. proc'[p].pc \in BeforeStage => n < calls'
        BY <1>1, <1>2
    <2> QED
        BY <2>1, <2>2
<1> QED
    BY <1>1, <1>3, <1>4 DEF InstallerInv, StagesInOrder

\* A step that leaves the prefix alone leaves it consistent.
LEMMA PrefixKept ==
    ASSUME InstallerInv, NEW p \in Installers,
           UNCHANGED <<active, journal, versions, stages>>,
           calls' \in {calls, calls + 1},
           \A q \in Installers \ {p}: proc'[q] = proc[q] /\ proc[q].pc = "idle",
           proc'[p].pc \in BeforeStage => proc[p].pc \in BeforeStage \/ calls' = calls + 1
    PROVE  InstallationConsistent' /\ StagesInOrder'
<1>1. InstallationConsistent'
    BY DEF InstallerInv, InstallationConsistent, PublishedIsNamed, JournalCoversSelection,
           OrphanStagesEmpty, JournalIn
<1> QED
    BY <1>1, OrderKept

-----------------------------------------------------------------------------
(* The call, up to its recovery *)

LEMMA CallBegins ==
    ASSUME InstallerInv, NEW p \in Installers, Begin(p)
    PROVE  InstallerInv'
<1> USE DEF Begin, FaultyBegin, At
<1>1. TypeOK /\ LockHeld
    BY DEF InstallerInv
<1>2. \A q \in Installers: proc[q].pc = "idle"
    BY <1>1, InstallerAssumption DEF LockHeld
<1>3. /\ proc' \in [Installers -> Calls]
      /\ proc'[p].pc = "admit" /\ ~ proc'[p].writing
      /\ proc'[p].tx = proc[p].tx
      /\ \A q \in Installers \ {p}: proc'[q] = proc[q]
    BY <1>1, Moved DEF Controls
<1>4. calls' = calls + 1 /\ calls' \in 0 .. MaxCalls
    BY <1>1, InstallerAssumption DEF TypeOK
<1>5. TypeOK'
    BY <1>1, <1>3, <1>4 DEF TypeOK, prefixVars
<1>6. InstallationConsistent' /\ StagesInOrder'
    BY <1>2, <1>3, <1>4, PrefixKept DEF prefixVars
<1>7. Knows(p)'
    BY <1>2, <1>3 DEF InstallerInv, Knows, KnowsRecovery, KnowsStage, KnowsSelection,
           Admitted, Staging, Copied, Materialized, Activating, Rollback
<1> QED
    BY <1>2, <1>3, <1>5, <1>6, <1>7, OneMoves

\* A step inside of a call that leaves the prefix alone but for temporaries.
LEMMA QuietStep ==
    ASSUME InstallerInv, NEW p \in Installers, proc[p].pc # "idle",
           UNCHANGED <<lock, active, journal, versions, stages, cache, calls, mischief>>,
           temps' \subseteq {"probe", "transaction", "activate", "restore"},
           faults' \in 0 .. MaxFaults,
           proc' \in [Installers -> Calls],
           \A q \in Installers \ {p}: proc'[q] = proc[q],
           proc'[p].pc \in BeforeStage => proc[p].pc \in BeforeStage,
           Knows(p)'
    PROVE  InstallerInv'
<1>1. lock = p /\ \A q \in Installers \ {p}: proc[q].pc = "idle"
    BY HolderAlone DEF InstallerInv
<1>2. TypeOK'
    BY DEF InstallerInv, TypeOK
<1>3. InstallationConsistent' /\ StagesInOrder'
    BY <1>1, PrefixKept
<1> QED
    BY <1>1, <1>2, <1>3, OneMoves

\* The same, where the installer knows nothing new at the place it goes to.
LEMMA QuietMove ==
    ASSUME InstallerInv, NEW p \in Installers, proc[p].pc # "idle",
           UNCHANGED <<lock, active, journal, versions, stages, cache, calls, mischief>>,
           temps' \subseteq {"probe", "transaction", "activate", "restore"},
           faults' \in 0 .. MaxFaults,
           NEW pc \in Controls, Goto(p, pc),
           pc \in BeforeStage => proc[p].pc \in BeforeStage,
           Knows(p)'
    PROVE  InstallerInv'
<1>1. TypeOK
    BY DEF InstallerInv
<1>2. /\ proc' \in [Installers -> Calls]
      /\ proc'[p].pc = pc
      /\ \A q \in Installers \ {p}: proc'[q] = proc[q]
    BY <1>1, Moved
<1> QED
    BY <1>2, QuietStep

LEMMA Admission ==
    ASSUME InstallerInv, NEW p \in Installers,
           RefuseUnknownEntry(p) \/ Probe(p) \/ ProbeEnds(p)
    PROVE  InstallerInv'
<1>1. TypeOK /\ Knows(p)
    BY DEF InstallerInv
<1>2. PICK pc \in {"probing", "verifyCache", "raise"}: Goto(p, pc)
    BY <1>1, Attempted DEF RefuseUnknownEntry, Probe, ProbeEnds
<1>3. pc \in Controls \ {"idle"}
    BY DEF Controls
<1>4. proc[p].pc \in {"admit", "probing"}
    BY DEF RefuseUnknownEntry, Probe, ProbeEnds, At
<1>5. faults' \in 0 .. MaxFaults
    BY <1>1, Attempted DEF RefuseUnknownEntry, Probe, ProbeEnds, TypeOK, boundVars
<1>6. temps' \subseteq {"probe", "transaction", "activate", "restore"}
    BY <1>1 DEF RefuseUnknownEntry, Probe, ProbeEnds, TypeOK, prefixVars
<1>7. UNCHANGED <<lock, active, journal, versions, stages, cache, calls, mischief>>
    BY DEF RefuseUnknownEntry, Probe, ProbeEnds, prefixVars, boundVars
<1>8. Knows(p)'
    BY <1>1, <1>2, <1>3, <1>4, Moved
       DEF Knows, KnowsRecovery, KnowsStage, KnowsSelection,
           Admitted, Staging, Copied, Materialized, Activating, Rollback, Kept
<1> QED
    BY <1>2, <1>3, <1>4, <1>5, <1>6, <1>7, <1>8, QuietMove DEF BeforeStage

LEMMA CacheAdmitted ==
    ASSUME InstallerInv, NEW p \in Installers, VerifyCache(p)
    PROVE  InstallerInv'
<1>1. TypeOK /\ Knows(p) /\ cache \in Digests
    BY DEF InstallerInv, TypeOK
<1>2. /\ proc[p].pc = "verifyCache"
      /\ UNCHANGED <<lock, active, journal, versions, stages, temps, cache, calls, mischief>>
      /\ faults' \in 0 .. MaxFaults
    BY <1>1, InstallerAssumption DEF VerifyCache, At, prefixVars, Fault, TypeOK
<1>3. CASE Goto(p, "raise")
    <2>1. "raise" \in Controls
        BY DEF Controls
    <2>2. Knows(p)'
        BY <1>1, <1>2, <1>3, <2>1, Moved
           DEF Knows, KnowsRecovery, KnowsStage, KnowsSelection,
               Admitted, Staging, Copied, Materialized, Activating, Rollback, Kept
    <2> QED
        BY <1>1, <1>2, <1>3, <2>1, <2>2, QuietMove DEF TypeOK, BeforeStage
<1>4. CASE proc' = [proc EXCEPT ![p].pc = "recover", ![p].wanted = cache]
    <2>1. /\ proc' \in [Installers -> Calls]
          /\ proc'[p].pc = "recover" /\ proc'[p].tx = proc[p].tx
          /\ proc'[p].wanted = cache /\ proc'[p].writing = proc[p].writing
          /\ \A q \in Installers \ {p}: proc'[q] = proc[q]
        BY <1>1, <1>4 DEF TypeOK, Calls, Controls, MaybeDigest
    <2>2. ~ proc[p].writing
        BY <1>1, <1>2, JournalWriters, SelectorWriters DEF Knows, Writers
    <2>3. Knows(p)'
        BY <1>1, <1>2, <2>1, <2>2
           DEF Knows, KnowsRecovery, KnowsStage, KnowsSelection,
               Admitted, Staging, Copied, Materialized, Activating, Rollback, Kept
    <2> QED
        BY <1>1, <1>2, <2>1, <2>3, QuietStep DEF TypeOK, BeforeStage
<1> QED
    BY <1>3, <1>4 DEF VerifyCache

-----------------------------------------------------------------------------
(* Recovery *)

LEMMA RecoveryStarts ==
    ASSUME InstallerInv, NEW p \in Installers, ClearSelectorTemps(p) \/ NothingToRecover(p)
    PROVE  InstallerInv'
<1>1. TypeOK /\ Knows(p)
    BY DEF InstallerInv
<1>2. PICK pc \in {"inspect", "select"}:
          Goto(p, pc) /\ (pc = "select" => NothingToRecover(p))
    BY DEF ClearSelectorTemps, NothingToRecover
<1>3. /\ pc \in Controls \ {"idle"}
      /\ proc[p].pc \in {"recover", "inspect"}
      /\ UNCHANGED <<lock, active, journal, versions, stages, cache, calls, mischief>>
      /\ temps' \subseteq temps
      /\ faults' = faults
    BY DEF Controls, ClearSelectorTemps, NothingToRecover, At, prefixVars, boundVars
<1>4. pc = "select" => Resolved' /\ Kept(p)'
    BY <1>1, <1>2, <1>3, Moved
       DEF NothingToRecover, Resolved, JournalIn, Kept, Knows, KnowsRecovery
<1>5. Knows(p)'
    BY <1>1, <1>2, <1>3, <1>4, Moved
       DEF Knows, KnowsRecovery, KnowsStage, KnowsSelection,
           Admitted, Staging, Copied, Materialized, Activating, Rollback
<1> QED
    BY <1>1, <1>2, <1>3, <1>5, QuietMove DEF TypeOK, BeforeStage

\* Recovery takes the transaction of the journal over.
LEMMA Adopted ==
    ASSUME TypeOK, journal # None, NEW p \in Installers, NEW pc \in Controls, Adopt(p, pc)
    PROVE  /\ proc' \in [Installers -> Calls]
           /\ proc'[p].pc = pc
           /\ proc'[p].writing = proc[p].writing
           /\ proc'[p].wanted = proc[p].wanted
           /\ proc'[p].tx.digest = journal.digest
           /\ proc'[p].tx.previous = journal.previous
           /\ proc'[p].tx.stage = journal.stage
           /\ \A q \in Installers \ {p}: proc'[q] = proc[q]
<1>1. proc \in [Installers -> Calls] /\ journal \in Journals
    BY DEF TypeOK
<1>2. journal.digest \in Digests /\ journal.previous \in MaybeDigest
      /\ journal.stage \in Stages \cup {0}
    BY <1>1 DEF Journals
<1>3. [digest |-> journal.digest, previous |-> journal.previous,
       stage |-> journal.stage] \in Transactions
    BY <1>2 DEF Transactions, MaybeDigest
<1> QED
    BY <1>1, <1>3 DEF Adopt, Calls

LEMMA Quarantines ==
    ASSUME InstallerInv, NEW p \in Installers, Quarantine(p)
    PROVE  InstallerInv'
<1>1. TypeOK /\ Knows(p) /\ StagesInOrder /\ InstallationConsistent
    BY DEF InstallerInv
<1>2. /\ proc[p].pc = "inspect" /\ JournalIn(StageStates) /\ Adopt(p, "quarantined")
      /\ UNCHANGED <<lock, active, journal, temps, versions, cache, calls, faults, mischief>>
    BY DEF Quarantine, At, boundVars
<1>3. /\ journal # None /\ journal \in Journals
      /\ journal.stage \in Stages
    BY <1>1, <1>2 DEF JournalIn, TypeOK, Journals, StageStates, VersionStates
<1>4. /\ proc' \in [Installers -> Calls]
      /\ proc'[p].pc = "quarantined" /\ ~ proc'[p].writing
      /\ proc'[p].wanted = proc[p].wanted
      /\ proc'[p].tx.digest = journal.digest
      /\ proc'[p].tx.previous = journal.previous
      /\ proc'[p].tx.stage = journal.stage
      /\ \A q \in Installers \ {p}: proc'[q] = proc[q]
    BY <1>1, <1>2, <1>3, Adopted, JournalWriters, SelectorWriters
       DEF Controls, Writers, Knows
<1>5. lock = p /\ \A q \in Installers \ {p}: proc[q].pc = "idle"
    BY <1>2, HolderAlone DEF InstallerInv
<1>6. /\ stages' \in [Stages -> StageRecords]
      /\ stages'[journal.stage].status # "open"
      /\ \A s \in Stages: stages'[s].tree = stages[s].tree
      /\ \A s \in Stages: stages'[s].status = "unused" <=> stages[s].status = "unused"
      /\ \A s \in Stages: stages'[s].status = "open" => stages[s].status = "open"
    BY <1>1, <1>3 DEF Quarantine, TypeOK, StageRecords
<1>7. TypeOK'
    BY <1>1, <1>2, <1>4, <1>6 DEF TypeOK
<1>8. StagesInOrder'
    BY <1>2, <1>4, <1>5, <1>6, OrderKept DEF BeforeStage
<1>9. InstallationConsistent'
    <2>1. OrphanStagesEmpty'
        BY <1>1, <1>2, <1>3, <1>6 DEF InstallationConsistent, OrphanStagesEmpty, JournalIn
    <2> QED
        BY <1>1, <1>2, <2>1
           DEF InstallationConsistent, PublishedIsNamed, JournalCoversSelection, JournalIn
<1>10. Knows(p)'
    BY <1>1, <1>2, <1>3, <1>4, <1>6
       DEF Knows, KnowsRecovery, KnowsStage, KnowsSelection, Journalled, JournalIn,
           Admitted, Staging, Copied, Materialized, Activating, Rollback
<1> QED
    BY <1>2, <1>4, <1>5, <1>7, <1>8, <1>9, <1>10, OneMoves

LEMMA RecoversActivating ==
    ASSUME InstallerInv, NEW p \in Installers,
           RecoverActivated(p) \/ RecoverUnactivated(p)
    PROVE  InstallerInv'
<1>1. TypeOK /\ Knows(p)
    BY DEF InstallerInv
<1>2. PICK pc \in {"recommit", "undo", "restored", "raise"}:
          /\ Adopt(p, pc)
          /\ pc \in {"recommit", "undo"} => active = journal.digest
          /\ pc \in {"restored", "raise"} => active = journal.previous
    BY DEF RecoverActivated, RecoverUnactivated
<1>3. /\ pc \in Controls
      /\ proc[p].pc = "inspect"
      /\ journal # None /\ journal.state = "activating"
      /\ UNCHANGED <<lock, active, journal, versions, stages, temps, cache, calls, mischief>>
      /\ faults' \in 0 .. MaxFaults
    BY <1>1, InstallerAssumption, JournalWriters, SelectorWriters
       DEF Controls, Writers, RecoverActivated, RecoverUnactivated, At, prefixVars,
           JournalIn, Fault, TypeOK
<1>4. ~ proc[p].writing
    BY <1>1, <1>3, JournalWriters, SelectorWriters DEF Writers, Knows
<1>5. Knows(p)'
    BY <1>1, <1>2, <1>3, <1>4, Adopted
       DEF Knows, KnowsRecovery, KnowsStage, KnowsSelection, Journalled, JournalIn, Kept,
           Admitted, Staging, Copied, Materialized, Activating, Rollback
<1> QED
    BY <1>1, <1>2, <1>3, <1>5, Adopted, QuietStep DEF TypeOK, BeforeStage

-----------------------------------------------------------------------------
(* Writes *)

\* At every place that writes, giving the write up leaves the call in order.
LEMMA GivenUp ==
    ASSUME InstallerInv, NEW p \in Installers, proc[p].pc \in Writers,
           UNCHANGED <<lock, active, journal, versions, stages, temps, cache, calls, mischief>>,
           faults' \in 0 .. MaxFaults,
           Goto(p, Failed(proc[p].pc))
    PROVE  InstallerInv'
<1>1. TypeOK /\ Knows(p) /\ JournalCoversSelection
    BY DEF InstallerInv, InstallationConsistent
<1>2. PICK pc \in {"raise", "undo"}:
          /\ pc = Failed(proc[p].pc)
          /\ pc = "undo" <=> proc[p].pc \in {"recommit", "activate", "confirmed"}
    BY WritesLead
<1>3. pc \in Controls /\ proc[p].pc # "idle"
    BY JournalWriters, SelectorWriters DEF Controls, Writers
<1>4. pc = "raise" => Kept(p)
    BY <1>1, <1>2, JournalWriters, SelectorWriters
       DEF Writers, Kept, Knows, KnowsRecovery, KnowsStage, KnowsSelection, Journalled,
           JournalIn, JournalCoversSelection, Staging, Copied, Activating, Rollback,
           JournalStates, StageStates, VersionStates
<1>5. Knows(p)'
    BY <1>1, <1>2, <1>3, <1>4, Moved
       DEF Knows, KnowsRecovery, KnowsStage, KnowsSelection, Journalled, JournalIn, Kept,
           Admitted, Staging, Copied, Materialized, Activating, Rollback
<1> QED
    BY <1>1, <1>2, <1>3, <1>5, QuietMove DEF TypeOK, BeforeStage

LEMMA WriteStarts ==
    ASSUME InstallerInv, NEW p \in Installers, CreateTemp(p) \/ WriteFails(p)
    PROVE  InstallerInv'
<1>1. TypeOK /\ Knows(p)
    BY DEF InstallerInv
<1>2. /\ proc[p].pc \in Writers
      /\ UNCHANGED <<lock, active, journal, versions, stages, cache, calls, mischief>>
      /\ faults' \in 0 .. MaxFaults
    BY <1>1, InstallerAssumption DEF CreateTemp, WriteFails, Fault, prefixVars, TypeOK
<1>3. CASE Goto(p, Failed(proc[p].pc)) /\ UNCHANGED temps
    BY <1>2, <1>3, GivenUp
<1>4. CASE /\ proc' = [proc EXCEPT ![p].writing = TRUE]
           /\ temps' = temps \cup {TempOf(proc[p].pc)}
    <2>1. /\ proc' \in [Installers -> Calls]
          /\ proc'[p].pc = proc[p].pc /\ proc'[p].tx = proc[p].tx
          /\ proc'[p].wanted = proc[p].wanted
          /\ \A q \in Installers \ {p}: proc'[q] = proc[q]
        BY <1>1, <1>4 DEF TypeOK, Calls
    <2>2. TempOf(proc[p].pc) \in {"probe", "transaction", "activate", "restore"}
        BY <1>2, JournalWriters, SelectorWriters DEF TempOf, Writers
    <2>3. Knows(p)'
        BY <1>1, <1>2, <2>1
           DEF Knows, KnowsRecovery, KnowsStage, KnowsSelection, Journalled, JournalIn,
               Kept, Resolved, CacheVerifies, StageOf
    <2>4. proc[p].pc # "idle"
        BY <1>2, JournalWriters, SelectorWriters DEF Writers
    <2> QED
        BY <1>1, <1>2, <1>4, <2>1, <2>2, <2>3, <2>4, QuietStep DEF TypeOK
<1> QED
    BY <1>3, <1>4 DEF CreateTemp, WriteFails, prefixVars

\* What the rename of a write changes, whether or not the fsync succeeds.
LEMMA Renamed ==
    ASSUME InstallerInv, NEW p \in Installers, Replace(p)
    PROVE  /\ proc[p].pc \in Writers
           /\ UNCHANGED <<lock, versions, stages, cache, calls, mischief>>
           /\ temps' \subseteq temps
           /\ faults' \in 0 .. MaxFaults
           /\ proc' \in [Installers -> Calls]
           /\ proc'[p].pc \in {Follow(proc[p].pc), Failed(proc[p].pc)}
           /\ ~ proc'[p].writing
           /\ proc'[p].tx = proc[p].tx
           /\ proc'[p].wanted = proc[p].wanted
           /\ lock = p
           /\ \A q \in Installers \ {p}: proc'[q] = proc[q] /\ proc[q].pc = "idle"
<1>1. TypeOK /\ LockHeld /\ Knows(p) /\ proc[p].pc \in Writers
    BY DEF InstallerInv, Replace, Knows
<1>2. PICK pc \in {Follow(proc[p].pc), Failed(proc[p].pc)}: Goto(p, pc)
    BY <1>1, Attempted DEF Replace
<1>3. pc \in Controls /\ proc[p].pc # "idle"
    BY <1>1, <1>2, WritesLead, JournalWriters, SelectorWriters DEF Controls, Writers
<1>4. faults' \in 0 .. MaxFaults
    BY <1>1, Attempted DEF Replace
<1> QED
    BY <1>1, <1>2, <1>3, <1>4, Moved, HolderAlone DEF Replace

\* A rename that leaves journal and selector in agreement is in order.
LEMMA RenameInOrder ==
    ASSUME InstallerInv, NEW p \in Installers, Replace(p),
           active' \in MaybeDigest, journal' \in {None} \cup Journals,
           JournalCoversSelection', OrphanStagesEmpty', Knows(p)'
    PROVE  InstallerInv'
<1>1. TypeOK /\ InstallationConsistent
    BY DEF InstallerInv
<1>2. TypeOK'
    BY <1>1, Renamed DEF TypeOK
<1>3. StagesInOrder'
    BY Renamed, WritesLead, OrderKept DEF BeforeStage
<1>4. InstallationConsistent'
    BY <1>1, Renamed DEF InstallationConsistent, PublishedIsNamed
<1> QED
    BY <1>2, <1>3, <1>4, Renamed, OneMoves

\* A journal that is written names the transaction of the writer.
LEMMA JournalWritten ==
    ASSUME TypeOK, NEW p \in Installers, NEW state \in JournalStates,
           proc[p].tx.digest \in Digests,
           state \notin VersionStates => proc[p].tx.stage \in Stages,
           journal' = JournalOf(state, proc[p].tx)
    PROVE  /\ journal' \in Journals
           /\ journal' # None
           /\ journal'.state = state
           /\ journal'.digest = proc[p].tx.digest
           /\ journal'.previous = proc[p].tx.previous
           /\ state \notin VersionStates => journal'.stage = proc[p].tx.stage
<1>1. proc[p].tx \in Transactions
    BY DEF TypeOK, Calls
<1>2. 0 \notin Stages
    BY InstallerAssumption DEF Stages
<1>3. journal' \in Journals
    BY <1>1, <1>2 DEF JournalOf, Journals, Transactions
<1> QED
    BY <1>3, InstallerAssumption DEF JournalOf

LEMMA ReplacesJournal ==
    ASSUME InstallerInv, NEW p \in Installers, Replace(p),
           proc[p].pc \in DOMAIN JournalWrites
    PROVE  InstallerInv'
<1> DEFINE pc == proc[p].pc
           state == JournalWrites[pc].state
<1>1. TypeOK /\ Knows(p) /\ JournalCoversSelection /\ OrphanStagesEmpty
    BY DEF InstallerInv, InstallationConsistent
<1>2. journal' = JournalOf(state, proc[p].tx) /\ active' = active
    BY DEF Replace
<1>3. journal # None => /\ journal.digest \in Digests
                        /\ journal.state \in StageStates => journal.stage \in Stages
    BY <1>1 DEF TypeOK, Journals, StageStates, VersionStates
<1>4. proc[p].tx.digest \in Digests
    BY <1>1, <1>3, JournalWriters
       DEF Knows, KnowsRecovery, KnowsStage, KnowsSelection, Journalled, Admitted,
           Staging, Copied, Activating, Rollback
<1>5. state \in JournalStates
    BY JournalWriters, JournalTable DEF JournalStates, StageStates, VersionStates
<1>6. state \notin VersionStates => proc[p].tx.stage \in Stages
    BY <1>1, <1>3, JournalWriters, JournalTable
       DEF VersionStates, Knows, KnowsRecovery, KnowsStage, Staging, Copied, JournalIn
<1>7. /\ journal' \in Journals
      /\ journal' # None
      /\ journal'.state = state
      /\ journal'.digest = proc[p].tx.digest
      /\ journal'.previous = proc[p].tx.previous
      /\ state \notin VersionStates => journal'.stage = proc[p].tx.stage
    <2> HIDE DEF state
    <2> QED
        BY <1>1, <1>2, <1>4, <1>5, <1>6, JournalWritten
<1>8. \/ active = proc[p].tx.previous
      \/ state = "committed" /\ active = proc[p].tx.digest
      \/ state = "activating" /\ active = proc[p].tx.digest
    BY <1>1, JournalWriters, JournalTable
       DEF Knows, KnowsRecovery, KnowsStage, KnowsSelection, Journalled, JournalIn,
           JournalCoversSelection, Staging, Copied, Activating, Rollback, StageStates,
           JournalStates, VersionStates
<1>9. proc[p].tx.previous # None => versions[proc[p].tx.previous] # None
    BY <1>1, JournalWriters
       DEF Knows, KnowsRecovery, KnowsStage, KnowsSelection, Journalled,
           JournalCoversSelection, Staging, Copied, Activating, Rollback
<1>10. JournalCoversSelection'
    BY <1>1, <1>2, <1>7, <1>8, <1>9, Renamed
       DEF JournalCoversSelection, JournalIn
<1>11. OrphanStagesEmpty'
    BY <1>1, <1>2, <1>7, Renamed, JournalWriters, JournalTable
       DEF OrphanStagesEmpty, JournalIn, Knows, KnowsRecovery, KnowsStage, KnowsSelection,
           Staging, Copied, Activating, Rollback, StageStates, VersionStates, Resolved
<1>12. /\ proc'[p].pc \in {JournalWrites[pc].next, JournalWrites[pc].failed}
       /\ ~ proc'[p].writing
       /\ proc'[p].tx = proc[p].tx
       /\ proc'[p].wanted = proc[p].wanted
       /\ UNCHANGED <<active, versions, stages>>
    BY <1>2, Renamed DEF Follow, Failed
<1>13. Knows(p)'
    <2> USE <1>1, <1>7, <1>8, <1>12, JournalTable
        DEF Knows, KnowsRecovery, KnowsStage, KnowsSelection, JournalIn, Journalled,
            Staging, Copied, Materialized, Activating, Rollback, Admitted
    <2>1. CASE pc = "quarantined"
        BY <2>1 DEF Resolved, Kept, StageStates
    <2>2. CASE pc = "recommit"
        BY <2>2 DEF Resolved, Kept, StageStates
    <2>3. CASE pc = "restored"
        BY <2>3 DEF Resolved, Kept, StageStates
    <2>4. CASE pc \in {"begin", "materialized", "verified"}
        BY <2>4 DEF StageStates, VersionStates, Kept, CacheVerifies, StageOf
    <2>5. CASE pc = "published"
        BY <2>5 DEF Kept
    <2>6. CASE pc = "confirmed"
        BY <2>6 DEF Resolved, Kept, StageStates
    <2>7. CASE pc = "undone"
        BY <2>7 DEF Kept
    <2> QED
        BY <2>1, <2>2, <2>3, <2>4, <2>5, <2>6, <2>7, JournalWriters
<1> QED
    BY <1>1, <1>2, <1>7, <1>10, <1>11, <1>13, RenameInOrder DEF TypeOK

LEMMA ReplacesSelector ==
    ASSUME InstallerInv, NEW p \in Installers, Replace(p),
           proc[p].pc \in DOMAIN SelectorWrites
    PROVE  InstallerInv'
<1> DEFINE pc == proc[p].pc
<1>1. TypeOK /\ Knows(p) /\ JournalCoversSelection /\ OrphanStagesEmpty
    BY DEF InstallerInv, InstallationConsistent
<1>2. pc \in {"activate", "restore"} /\ pc \notin DOMAIN JournalWrites
    BY JournalWriters, SelectorWriters
<1>3. /\ journal' = journal
      /\ active' = IF pc = "activate" THEN proc[p].tx.digest ELSE proc[p].tx.previous
    BY <1>2, SelectorTable DEF Replace
<1>4. /\ proc'[p].pc \in {SelectorWrites[pc].next, SelectorWrites[pc].failed}
      /\ ~ proc'[p].writing
      /\ proc'[p].tx = proc[p].tx
      /\ proc'[p].wanted = proc[p].wanted
      /\ UNCHANGED <<versions, stages>>
    BY <1>2, Renamed DEF Follow, Failed
<1>5. /\ Journalled(p) /\ JournalIn({"activating", "committed"})
      /\ pc = "activate" =>
             /\ JournalIn({"activating"})
             /\ proc[p].tx.digest = proc[p].wanted
             /\ proc[p].wanted \in Digests
             /\ versions[proc[p].wanted] # None
    BY <1>1, <1>2 DEF Knows, KnowsSelection, Activating, Rollback, JournalIn, Admitted
<1>6. active' \in MaybeDigest
    BY <1>1, <1>3 DEF TypeOK, Calls, Transactions, MaybeDigest
<1>7. JournalCoversSelection'
    BY <1>1, <1>2, <1>3, <1>4, <1>5
       DEF JournalCoversSelection, JournalIn, Journalled
<1>8. OrphanStagesEmpty'
    BY <1>1, <1>3, <1>4 DEF OrphanStagesEmpty, JournalIn
<1>9. Knows(p)'
    BY <1>1, <1>2, <1>3, <1>4, <1>5, SelectorTable
       DEF Knows, KnowsRecovery, KnowsStage, KnowsSelection, JournalIn, Journalled,
           Staging, Copied, Materialized, Activating, Rollback, Admitted, Kept
<1> QED
    BY <1>1, <1>3, <1>6, <1>7, <1>8, <1>9, RenameInOrder DEF TypeOK

LEMMA Replaces ==
    ASSUME InstallerInv, NEW p \in Installers, Replace(p)
    PROVE  InstallerInv'
BY Renamed, ReplacesJournal, ReplacesSelector DEF Writers

-----------------------------------------------------------------------------
(* The stage *)

LEMMA Repeats ==
    ASSUME InstallerInv, NEW p \in Installers, Idempotent(p)
    PROVE  InstallerInv'
<1>1. TypeOK /\ Knows(p)
    BY DEF InstallerInv
<1>2. PICK pc \in {"done", "raise"}: Goto(p, pc)
    BY <1>1, Attempted DEF Idempotent
<1>3. /\ proc[p].pc = "select" /\ active = proc[p].wanted /\ pc \in Controls
      /\ UNCHANGED <<lock, active, journal, versions, stages, temps, cache, calls, mischief>>
      /\ faults' \in 0 .. MaxFaults
    BY <1>1, Attempted DEF Idempotent, At, prefixVars, Controls
<1>4. Knows(p)'
    BY <1>1, <1>2, <1>3, Moved
       DEF Knows, KnowsRecovery, KnowsStage, KnowsSelection, JournalIn, Resolved, Kept,
           Staging, Copied, Materialized, Activating, Rollback, Admitted
<1> QED
    BY <1>1, <1>2, <1>3, <1>4, QuietMove DEF TypeOK, BeforeStage

\* The first of the unused stages, which come after the used ones.
LEMMA NextStage ==
    ASSUME NEW n \in Nat, n < MaxCalls,
           \A s \in Stages: stages[s].status = "unused" <=> s > n
    PROVE  (CHOOSE s \in UnusedStages: \A t \in UnusedStages: s <= t) = n + 1
<1>1. MaxCalls \in Nat
    BY InstallerAssumption
<1>2. UnusedStages = {s \in Stages: s > n}
    BY DEF UnusedStages
<1>3. n + 1 \in UnusedStages /\ \A t \in UnusedStages: t \in Nat /\ n + 1 <= t
    BY <1>1, <1>2 DEF Stages
<1> QED
    BY <1>3

LEMMA StageMade ==
    ASSUME InstallerInv, NEW p \in Installers, MakeStage(p)
    PROVE  InstallerInv'
<1>1. TypeOK /\ Knows(p) /\ StagesInOrder /\ InstallationConsistent
    BY DEF InstallerInv
<1>2. /\ proc[p].pc = "select" /\ active # proc[p].wanted
      /\ proc[p].wanted \in Digests /\ active \in MaybeDigest /\ Resolved
      /\ ~ proc[p].writing
    BY <1>1, JournalWriters, SelectorWriters
       DEF MakeStage, At, Knows, KnowsRecovery, Admitted, TypeOK, Writers
<1>3. PICK n \in 0 .. calls:
          /\ \A s \in Stages: stages[s].status = "unused" <=> s > n
          /\ \A q \in Installers: proc[q].pc \in BeforeStage => n < calls
    BY <1>1 DEF StagesInOrder
<1>4. n < calls /\ calls \in 0 .. MaxCalls /\ MaxCalls \in Nat
    BY <1>1, <1>2, <1>3, InstallerAssumption DEF BeforeStage, TypeOK
<1> DEFINE s == n + 1
<1>5. s \in Stages /\ s \in 0 .. calls /\ stages[s].status = "unused"
      /\ stages[s].tree = EmptyTree
    BY <1>1, <1>3, <1>4 DEF Stages, StagesInOrder
<1>6. /\ stages' = [stages EXCEPT ![s].status = "open"]
      /\ proc' = [proc EXCEPT ![p].pc = "begin",
             ![p].tx = [digest |-> proc[p].wanted, previous |-> active, stage |-> s]]
      /\ UNCHANGED <<lock, active, journal, temps, versions, cache, calls, faults, mischief>>
    <2>1. (CHOOSE t \in UnusedStages: \A u \in UnusedStages: t <= u) = s
        BY <1>3, <1>4, NextStage
    <2> QED
        BY <2>1 DEF MakeStage, boundVars
<1>7. /\ stages' \in [Stages -> StageRecords]
      /\ stages'[s].status = "open" /\ stages'[s].tree = EmptyTree
      /\ \A t \in Stages \ {s}: stages'[t] = stages[t]
    BY <1>1, <1>5, <1>6 DEF TypeOK, StageRecords
<1>8. /\ proc' \in [Installers -> Calls]
      /\ proc'[p].pc = "begin" /\ ~ proc'[p].writing
      /\ proc'[p].wanted = proc[p].wanted
      /\ proc'[p].tx.digest = proc[p].wanted
      /\ proc'[p].tx.previous = active
      /\ proc'[p].tx.stage = s
      /\ \A q \in Installers \ {p}: proc'[q] = proc[q]
    <2>1. [digest |-> proc[p].wanted, previous |-> active, stage |-> s] \in Transactions
        BY <1>2, <1>5 DEF Transactions, MaybeDigest
    <2>2. "begin" \in Controls
        BY JournalWriters DEF Controls, Writers
    <2> QED
        BY <1>1, <1>2, <1>6, <2>1, <2>2 DEF TypeOK, Calls
<1>9. lock = p /\ \A q \in Installers \ {p}: proc[q].pc = "idle"
    BY <1>2, HolderAlone DEF InstallerInv
<1>10. TypeOK'
    BY <1>1, <1>6, <1>7, <1>8 DEF TypeOK
<1>11. StagesInOrder'
    <2>1. \A t \in Stages: stages'[t].status = "unused" <=> t > s
        BY <1>3, <1>4, <1>5, <1>7 DEF Stages
    <2>2. \A q \in Installers: proc'[q].pc \notin BeforeStage
        BY <1>8, <1>9 DEF BeforeStage
    <2>3. \A t \in Stages: stages'[t].status = "unused" => stages'[t].tree = EmptyTree
        BY <1>1, <1>7 DEF StagesInOrder
    <2> HIDE DEF s
    <2> QED
        BY <1>5, <1>6, <2>1, <2>2, <2>3 DEF StagesInOrder
<1>12. InstallationConsistent'
    BY <1>1, <1>6, <1>7
       DEF InstallationConsistent, PublishedIsNamed, JournalCoversSelection,
           OrphanStagesEmpty, JournalIn
<1>13. Knows(p)'
    BY <1>2, <1>5, <1>6, <1>7, <1>8, JournalWriters
       DEF Knows, KnowsRecovery, KnowsStage, KnowsSelection, JournalIn, Resolved, Writers,
           Staging, Copied, Materialized, Activating, Rollback, Admitted
<1> QED
    BY <1>6, <1>8, <1>9, <1>10, <1>11, <1>12, <1>13, OneMoves

\* Filling the stage the journal names disturbs no other stage.
LEMMA StageFilled ==
    ASSUME InstallerInv, NEW p \in Installers, proc[p].pc \in Staging \ {"published"},
           UNCHANGED <<lock, active, journal, temps, versions, cache, calls, mischief>>,
           faults' \in 0 .. MaxFaults,
           stages' \in [Stages -> StageRecords],
           \A s \in Stages: s # proc[p].tx.stage => stages'[s] = stages[s],
           stages'[proc[p].tx.stage].status # "unused",
           NEW pc \in Controls, Goto(p, pc), pc \notin BeforeStage,
           Knows(p)'
    PROVE  InstallerInv'
<1>1. TypeOK /\ Knows(p) /\ InstallationConsistent
    BY DEF InstallerInv
<1>2. /\ proc[p].pc # "idle" /\ journal # None /\ journal.state \in StageStates
      /\ journal.stage = proc[p].tx.stage
      /\ stages[proc[p].tx.stage].status # "unused"
    BY <1>1 DEF Knows, KnowsStage, Staging, Copied, JournalIn
<1>3. lock = p /\ \A q \in Installers \ {p}: proc[q].pc = "idle"
    BY <1>2, HolderAlone DEF InstallerInv
<1>4. /\ proc' \in [Installers -> Calls] /\ proc'[p].pc = pc
      /\ \A q \in Installers \ {p}: proc'[q] = proc[q]
    BY <1>1, Moved
<1>5. TypeOK'
    BY <1>1, <1>4 DEF TypeOK
<1>6. StagesInOrder'
    BY <1>2, <1>3, <1>4, OrderKept
<1>7. InstallationConsistent'
    BY <1>1, <1>2
       DEF InstallationConsistent, PublishedIsNamed, JournalCoversSelection,
           OrphanStagesEmpty, JournalIn
<1> QED
    BY <1>3, <1>4, <1>5, <1>6, <1>7, OneMoves

\* What it means to work on a stage.
LEMMA AtStage ==
    ASSUME InstallerInv, NEW p \in Installers, proc[p].pc \in Staging
    PROVE  /\ proc[p].wanted \in Digests
           /\ proc[p].tx.digest = proc[p].wanted
           /\ proc[p].tx.previous = active
           /\ proc[p].tx.stage \in Stages
           /\ stages[proc[p].tx.stage] \in StageRecords
           /\ stages[proc[p].tx.stage].status # "unused"
           /\ active # proc[p].wanted
           /\ Journalled(p)
           /\ JournalIn(StageStates)
           /\ journal.stage = proc[p].tx.stage
BY DEF InstallerInv, TypeOK, Knows, KnowsStage, Admitted, Staging, Copied

\* A call that gives up on its stage has changed no selection.
LEMMA StageGivenUp ==
    ASSUME InstallerInv, NEW p \in Installers, proc[p].pc \in Staging,
           UNCHANGED <<active, journal>>,
           proc'[p].pc = "raise", ~ proc'[p].writing, proc'[p].tx = proc[p].tx
    PROVE  Knows(p)'
BY AtStage DEF Knows, KnowsRecovery, KnowsStage, KnowsSelection, Kept, Staging, Copied,
               Materialized, Activating, Rollback, Admitted

LEMMA StageCopied ==
    ASSUME InstallerInv, NEW p \in Installers, CopyHead(p) \/ CopyTail(p)
    PROVE  InstallerInv'
<1>1. TypeOK
    BY DEF InstallerInv
<1>2. PICK pc \in {"copyTail", "verifyCopy", "raise"}: Goto(p, pc)
    BY <1>1, Attempted DEF CopyHead, CopyTail
<1>3. /\ proc[p].pc \in {"copyHead", "copyTail"} /\ pc \in Controls
      /\ UNCHANGED <<lock, active, journal, temps, versions, cache, calls, mischief>>
      /\ faults' \in 0 .. MaxFaults
    BY <1>1, Attempted DEF CopyHead, CopyTail, At, Controls
<1>4. proc[p].pc \in Staging
    BY <1>3 DEF Staging
<1>5. /\ stages' \in [Stages -> StageRecords]
      /\ stages'[proc[p].tx.stage].status = stages[proc[p].tx.stage].status
      /\ \A s \in Stages: s # proc[p].tx.stage => stages'[s] = stages[s]
    <2>1. cache \in MaybeDigest /\ stages \in [Stages -> StageRecords]
        BY <1>1 DEF TypeOK, MaybeDigest
    <2>2. ASSUME NEW r \in StageRecords
          PROVE  /\ [r EXCEPT !.tree.head = cache] \in StageRecords
                 /\ [r EXCEPT !.tree.tail = cache] \in StageRecords
        BY <2>1 DEF StageRecords, Trees
    <2>3. \/ stages' = [stages EXCEPT ![proc[p].tx.stage] = [@ EXCEPT !.tree.head = cache]]
          \/ stages' = [stages EXCEPT ![proc[p].tx.stage] = [@ EXCEPT !.tree.tail = cache]]
        BY DEF CopyHead, CopyTail
    <2>4. stages[proc[p].tx.stage].status
              = [stages[proc[p].tx.stage] EXCEPT !.tree.head = cache].status
          /\ stages[proc[p].tx.stage].status
              = [stages[proc[p].tx.stage] EXCEPT !.tree.tail = cache].status
        BY <1>4, AtStage DEF StageRecords
    <2> QED
        BY <1>4, <2>1, <2>2, <2>3, <2>4, AtStage
<1>6. Knows(p)'
    <2>1. CASE pc = "raise"
        BY <1>1, <1>2, <1>3, <1>4, <2>1, Moved, StageGivenUp
    <2>2. CASE pc # "raise"
        BY <1>1, <1>2, <1>3, <1>4, <1>5, <2>2, Moved, AtStage
           DEF Knows, KnowsRecovery, KnowsStage, KnowsSelection, Journalled, JournalIn,
               Staging, Copied, Materialized, Activating, Rollback, Admitted
    <2> QED
        BY <2>1, <2>2
<1> QED
    BY <1>1, <1>2, <1>3, <1>4, <1>5, <1>6, AtStage, StageFilled DEF BeforeStage

LEMMA StageMaterialized ==
    ASSUME InstallerInv, NEW p \in Installers, Materialize(p)
    PROVE  InstallerInv'
<1>1. TypeOK /\ Knows(p)
    BY DEF InstallerInv
<1>2. PICK pc \in {"materialized", "raise"}: 
          /\ Goto(p, pc)
          /\ \/ /\ pc = "materialized"
                /\ stages' = [stages EXCEPT ![proc[p].tx.stage].tree.runtime =
                                  stages[proc[p].tx.stage].tree.head]
             \/ pc = "raise" /\ stages' = stages
    BY DEF Materialize, StageOf
<1>3. /\ proc[p].pc = "materialize" /\ pc \in Controls
      /\ UNCHANGED <<lock, active, journal, temps, versions, cache, calls, mischief>>
      /\ faults' \in 0 .. MaxFaults
    BY <1>1, InstallerAssumption, JournalWriters
       DEF Materialize, At, Controls, Writers, Fault, TypeOK
<1>4. proc[p].pc \in Staging /\ proc[p].pc # "published"
    BY <1>3 DEF Staging, Copied
<1>5. CacheVerifies(stages[proc[p].tx.stage].tree, proc[p].wanted)
    BY <1>1, <1>3 DEF Knows, KnowsStage, Copied, StageOf
<1>6. /\ stages' \in [Stages -> StageRecords]
      /\ stages'[proc[p].tx.stage].status = stages[proc[p].tx.stage].status
      /\ \A s \in Stages: s # proc[p].tx.stage => stages'[s] = stages[s]
      /\ CacheVerifies(stages'[proc[p].tx.stage].tree, proc[p].wanted)
      /\ pc = "materialized" =>
             stages'[proc[p].tx.stage].tree.runtime = proc[p].wanted
    BY <1>1, <1>2, <1>4, <1>5, AtStage
       DEF TypeOK, StageRecords, Trees, MaybeDigest, CacheVerifies
<1>7. Knows(p)'
    <2>1. CASE pc = "raise"
        BY <1>1, <1>2, <1>3, <1>4, <2>1, Moved, StageGivenUp
    <2>2. CASE pc = "materialized"
        BY <1>1, <1>2, <1>3, <1>4, <1>6, <2>2, Moved, AtStage
           DEF Knows, KnowsRecovery, KnowsStage, KnowsSelection, Journalled, JournalIn,
               StageOf, CacheVerifies, Staging, Copied, Materialized, Activating,
               Rollback, Admitted
    <2> QED
        BY <2>1, <2>2
<1> QED
    BY <1>1, <1>2, <1>3, <1>4, <1>6, <1>7, AtStage, StageFilled DEF BeforeStage

LEMMA StageVerified ==
    ASSUME InstallerInv, NEW p \in Installers, VerifyCopy(p) \/ VerifyStage(p)
    PROVE  InstallerInv'
<1>1. TypeOK /\ Knows(p)
    BY DEF InstallerInv
<1>2. PICK pc \in {"materialize", "verified", "raise"}:
          /\ Goto(p, pc)
          /\ pc = "materialize" => CacheVerifies(StageOf(p), proc[p].wanted)
          /\ pc = "verified" => proc[p].pc = "verifyStage"
    BY <1>1, Attempted DEF VerifyCopy, VerifyStage, At
<1>3. /\ proc[p].pc \in {"verifyCopy", "verifyStage"} /\ pc \in Controls
      /\ UNCHANGED <<lock, active, journal, temps, versions, stages, cache, calls, mischief>>
      /\ faults' \in 0 .. MaxFaults
    BY <1>1, Attempted, JournalWriters
       DEF VerifyCopy, VerifyStage, At, prefixVars, Controls, Writers
<1>4. proc[p].pc \in Staging
    BY <1>3 DEF Staging, Copied
<1>5. Knows(p)'
    <2>1. CASE pc = "raise"
        BY <1>1, <1>2, <1>3, <1>4, <2>1, Moved, StageGivenUp
    <2>2. CASE pc # "raise"
        BY <1>1, <1>2, <1>3, <1>4, <2>2, Moved, AtStage, JournalWriters
           DEF Knows, KnowsRecovery, KnowsStage, KnowsSelection, Journalled, JournalIn,
               StageOf, CacheVerifies, Staging, Copied, Materialized, Activating,
               Rollback, Admitted, Writers
    <2> QED
        BY <2>1, <2>2
<1> QED
    BY <1>1, <1>2, <1>3, <1>5, QuietMove DEF TypeOK, BeforeStage

LEMMA VersionKept ==
    ASSUME InstallerInv, NEW p \in Installers, KeepPublished(p)
    PROVE  InstallerInv'
<1>1. TypeOK /\ Knows(p)
    BY DEF InstallerInv
<1>2. PICK pc \in {"published", "raise"}: Goto(p, pc)
    BY <1>1, Attempted DEF KeepPublished
<1>3. /\ proc[p].pc = "publish" /\ pc \in Controls
      /\ versions[proc[p].wanted] # None
      /\ UNCHANGED <<lock, active, journal, temps, versions, cache, calls, mischief>>
      /\ faults' \in 0 .. MaxFaults
    BY <1>1, Attempted, JournalWriters DEF KeepPublished, At, Controls, Writers
<1>4. proc[p].pc \in Staging /\ proc[p].pc # "published"
    BY <1>3 DEF Staging, Copied
<1>5. proc'[p].pc = pc
    BY <1>1, <1>2, <1>3, Moved
<1>6. /\ stages' \in [Stages -> StageRecords]
      /\ stages'[proc[p].tx.stage].status # "unused"
      /\ \A s \in Stages: s # proc[p].tx.stage => stages'[s] = stages[s]
      /\ pc = "published" => stages'[proc[p].tx.stage].status = "gone"
    BY <1>1, <1>4, <1>5, AtStage DEF KeepPublished, TypeOK, StageRecords
<1>7. Knows(p)'
    <2>1. CASE pc = "raise"
        BY <1>1, <1>2, <1>3, <1>4, <2>1, Moved, StageGivenUp
    <2>2. CASE pc = "published"
        BY <1>1, <1>2, <1>3, <1>4, <1>6, <2>2, Moved, AtStage
           DEF Knows, KnowsRecovery, KnowsStage, KnowsSelection, Journalled, JournalIn,
               Staging, Copied, Materialized, Activating, Rollback, Admitted
    <2> QED
        BY <2>1, <2>2
<1> QED
    BY <1>1, <1>2, <1>3, <1>4, <1>6, <1>7, StageFilled DEF BeforeStage

\* Only a tree that is the wanted package is published.
LEMMA VersionPublished ==
    ASSUME InstallerInv, NEW p \in Installers, PublishStage(p)
    PROVE  InstallerInv'
<1>1. TypeOK /\ Knows(p) /\ InstallationConsistent
    BY DEF InstallerInv
<1>2. PICK pc \in {"published", "raise"}: Goto(p, pc)
    BY <1>1, Attempted DEF PublishStage
<1> DEFINE s == proc[p].tx.stage
           d == proc[p].wanted
           tree == stages[s].tree
<1>3. /\ proc[p].pc = "publish" /\ pc \in Controls
      /\ versions' = [versions EXCEPT ![d] = tree]
      /\ stages' = [stages EXCEPT ![s].status = "gone"]
      /\ UNCHANGED <<lock, active, journal, temps, cache, calls, mischief>>
      /\ faults' \in 0 .. MaxFaults
    BY <1>1, Attempted, JournalWriters DEF PublishStage, At, Controls, Writers, StageOf
<1>4. proc[p].pc \in Staging /\ proc[p].pc # "idle"
    BY <1>3 DEF Staging, Copied
<1>5. s \in Stages /\ d \in Digests /\ tree \in Trees
    BY <1>4, AtStage DEF StageRecords
<1>6. tree.head = d /\ tree.tail = d /\ tree.runtime = d /\ tree # None
    BY <1>1, <1>3, <1>5, InstallerAssumption
       DEF Knows, KnowsStage, Copied, Materialized, StageOf, CacheVerifies
<1>7. /\ stages' \in [Stages -> StageRecords]
      /\ stages'[s].status = "gone"
      /\ \A t \in Stages: t # s => stages'[t] = stages[t]
    BY <1>1, <1>3, <1>5 DEF TypeOK, StageRecords
<1>8. /\ versions' \in [Digests -> Trees \cup {None}]
      /\ versions'[d] = tree
      /\ \A e \in Digests: e # d => versions'[e] = versions[e]
    <2> HIDE DEF d, tree
    <2> QED
        BY <1>1, <1>3, <1>5 DEF TypeOK
<1>9. /\ proc' \in [Installers -> Calls] /\ proc'[p].pc = pc /\ ~ proc'[p].writing
      /\ proc'[p].tx = proc[p].tx /\ proc'[p].wanted = proc[p].wanted
      /\ \A q \in Installers \ {p}: proc'[q] = proc[q]
    BY <1>1, <1>2, <1>3, Moved
<1>10. lock = p /\ \A q \in Installers \ {p}: proc[q].pc = "idle"
    BY <1>4, HolderAlone DEF InstallerInv
<1>11. TypeOK'
    BY <1>1, <1>3, <1>7, <1>8, <1>9 DEF TypeOK
<1>12. StagesInOrder'
    <2> HIDE DEF s
    <2> QED
        BY <1>3, <1>4, <1>7, <1>9, <1>10, AtStage, OrderKept DEF s, BeforeStage
<1>13. InstallationConsistent'
    <2>1. PublishedIsNamed'
        BY <1>1, <1>6, <1>8 DEF InstallationConsistent, PublishedIsNamed
    <2>2. JournalCoversSelection'
        <3>1. active \in MaybeDigest /\ journal \in {None} \cup Journals
            BY <1>1 DEF TypeOK
        <3>2. \A e \in Digests: versions[e] # None => versions'[e] # None
            BY <1>6, <1>8
        <3>3. journal # None => journal.previous \in MaybeDigest
            BY <3>1 DEF Journals
        <3> QED
            BY <1>1, <1>3, <3>1, <3>2, <3>3
               DEF InstallationConsistent, JournalCoversSelection, JournalIn, MaybeDigest
    <2>3. OrphanStagesEmpty'
        BY <1>1, <1>3, <1>7 DEF InstallationConsistent, OrphanStagesEmpty, JournalIn
    <2> QED
        BY <2>1, <2>2, <2>3 DEF InstallationConsistent
<1>14. Knows(p)'
    <2>1. CASE pc = "raise"
        BY <1>3, <1>4, <1>9, <2>1, StageGivenUp
    <2>2. CASE pc = "published"
        BY <1>3, <1>4, <1>6, <1>7, <1>8, <1>9, <2>2, AtStage
           DEF Knows, KnowsRecovery, KnowsStage, KnowsSelection, Journalled, JournalIn,
               Staging, Copied, Materialized, Activating, Rollback, Admitted
    <2> QED
        BY <2>1, <2>2
<1> QED
    BY <1>3, <1>9, <1>10, <1>11, <1>12, <1>13, <1>14, OneMoves

-----------------------------------------------------------------------------
(* Confirmation, rollback and the end of the call *)

LEMMA ActiveVerified ==
    ASSUME InstallerInv, NEW p \in Installers, VerifyActive(p) \/ UndoToPrevious(p)
    PROVE  InstallerInv'
<1>1. TypeOK /\ Knows(p) /\ JournalCoversSelection
    BY DEF InstallerInv, InstallationConsistent
<1>2. PICK pc \in {"confirmed", "undo", "restore", "raise"}:
          /\ Goto(p, pc)
          /\ pc \in {"confirmed", "undo"} => proc[p].pc = "verifyActive"
          /\ pc \in {"restore", "raise"} => proc[p].pc = "undo"
    BY <1>1, Attempted DEF VerifyActive, UndoToPrevious, At
<1>3. /\ proc[p].pc \in {"verifyActive", "undo"} /\ pc \in Controls
      /\ UNCHANGED <<lock, active, journal, temps, versions, stages, cache, calls, mischief>>
      /\ faults' \in 0 .. MaxFaults
    BY <1>1, Attempted, JournalWriters, SelectorWriters
       DEF VerifyActive, UndoToPrevious, At, prefixVars, Controls, Writers
<1>4. Knows(p)'
    BY <1>1, <1>2, <1>3, Moved
       DEF Knows, KnowsRecovery, KnowsStage, KnowsSelection, Journalled, JournalIn, Kept,
           JournalCoversSelection, Staging, Copied, Materialized, Activating, Rollback,
           Admitted
<1> QED
    BY <1>1, <1>2, <1>3, <1>4, QuietMove DEF TypeOK, BeforeStage

\* The first version of a prefix is undone by removing the selector.
LEMMA FirstUndone ==
    ASSUME InstallerInv, NEW p \in Installers, UndoFirst(p)
    PROVE  InstallerInv'
<1>1. TypeOK /\ Knows(p) /\ InstallationConsistent
    BY DEF InstallerInv
<1>2. PICK pc \in {"undone", "raise"}: Goto(p, pc)
    BY <1>1, Attempted DEF UndoFirst
<1>3. /\ proc[p].pc = "undo" /\ pc \in Controls
      /\ proc[p].tx.previous = None
      /\ UNCHANGED <<lock, journal, temps, versions, stages, cache, calls, mischief>>
      /\ faults' \in 0 .. MaxFaults
    BY <1>1, Attempted, JournalWriters DEF UndoFirst, At, Controls, Writers
<1>4. /\ proc' \in [Installers -> Calls] /\ proc'[p].pc = pc /\ ~ proc'[p].writing
      /\ proc'[p].tx = proc[p].tx /\ proc'[p].wanted = proc[p].wanted
      /\ \A q \in Installers \ {p}: proc'[q] = proc[q]
    BY <1>1, <1>2, <1>3, Moved
<1>5. active' = IF pc = "undone" THEN None ELSE active
    BY <1>4 DEF UndoFirst
<1>6. lock = p /\ \A q \in Installers \ {p}: proc[q].pc = "idle"
    BY <1>3, HolderAlone DEF InstallerInv
<1>7. TypeOK'
    BY <1>1, <1>3, <1>4, <1>5 DEF TypeOK, MaybeDigest
<1>8. StagesInOrder'
    BY <1>3, <1>4, <1>6, OrderKept DEF BeforeStage
<1>9. Journalled(p) /\ JournalIn({"activating", "committed"})
    BY <1>1, <1>3 DEF Knows, KnowsSelection, Rollback
<1>10. InstallationConsistent'
    BY <1>1, <1>3, <1>5, <1>9
       DEF InstallationConsistent, PublishedIsNamed, JournalCoversSelection,
           OrphanStagesEmpty, JournalIn, Journalled
<1>11. Knows(p)'
    BY <1>1, <1>3, <1>4, <1>5, <1>9
       DEF Knows, KnowsRecovery, KnowsStage, KnowsSelection, Journalled, JournalIn, Kept,
           InstallationConsistent, JournalCoversSelection, Staging, Copied, Materialized,
           Activating, Rollback, Admitted
<1> QED
    BY <1>3, <1>4, <1>6, <1>7, <1>8, <1>10, <1>11, OneMoves

LEMMA CallEnds ==
    ASSUME InstallerInv, NEW p \in Installers, Return(p) \/ Kill(p)
    PROVE  InstallerInv'
<1>1. TypeOK /\ proc[p].pc # "idle"
    BY DEF InstallerInv, Return, Kill, At
<1>2. /\ proc' = [proc EXCEPT ![p] = Idle] /\ lock' = None
      /\ UNCHANGED <<active, journal, temps, versions, stages, cache, calls, mischief>>
      /\ faults' \in 0 .. MaxFaults
    BY <1>1, InstallerAssumption DEF Return, Kill, prefixVars, boundVars, Fault, TypeOK
<1>3. Idle \in Calls
    BY DEF Idle, Calls, Controls, MaybeDigest, NoTransaction, Transactions
<1>4. /\ proc' \in [Installers -> Calls] /\ proc'[p] = Idle
      /\ \A q \in Installers \ {p}: proc'[q] = proc[q]
    BY <1>1, <1>2, <1>3 DEF TypeOK
<1>5. \A q \in Installers \ {p}: proc[q].pc = "idle"
    BY <1>1, HolderAlone DEF InstallerInv
<1>6. Idle.pc = "idle" /\ ~ Idle.writing /\ Idle.tx = NoTransaction
    BY DEF Idle
<1>7. TypeOK'
    BY <1>1, <1>2, <1>4 DEF TypeOK
<1>8. InstallationConsistent' /\ StagesInOrder'
    <2>1. calls' = calls /\ proc'[p].pc \notin BeforeStage
        BY <1>2, <1>4, <1>6 DEF BeforeStage
    <2> QED
        BY <1>2, <1>4, <1>5, <2>1, PrefixKept
<1>9. Knows(p)'
    BY <1>4, <1>6
       DEF Knows, KnowsRecovery, KnowsStage, KnowsSelection, Staging, Copied,
           Materialized, Activating, Rollback, Admitted
<1> QED
    BY <1>4, <1>5, <1>6, <1>7, <1>8, <1>9, OneMoves

\* What happens beside the installer: a call that finds the lock taken, a
\* replaced cache, a damaged version.
LEMMA Surroundings ==
    ASSUME InstallerInv,
           \/ \E p \in Installers: Locked(p)
           \/ ReplaceCache
           \/ \E d \in Digests: DamageVersion(d)
           \/ UNCHANGED vars
    PROVE  InstallerInv'
<1>1. TypeOK /\ InstallationConsistent
    BY DEF InstallerInv
<1>2. /\ UNCHANGED <<lock, active, journal, temps, stages, proc, faults>>
      /\ calls' \in {calls, calls + 1} /\ calls' \in 0 .. MaxCalls
      /\ mischief' \in 0 .. MaxMischief
      /\ cache' \in Digests
    BY <1>1, InstallerAssumption
       DEF Locked, ReplaceCache, DamageVersion, vars, prefixVars, boundVars, TypeOK
<1>3. /\ versions' \in [Digests -> Trees \cup {None}]
      /\ \A d \in Digests: versions'[d] # None <=> versions[d] # None
      /\ \A d \in Digests: versions[d] # None =>
             /\ versions'[d].head = versions[d].head
             /\ versions'[d].runtime = versions[d].runtime
             /\ versions'[d].tail \in {versions[d].tail, None}
    <2>1. CASE UNCHANGED versions
        BY <1>1, <2>1 DEF TypeOK
    <2>2. ASSUME NEW d \in Digests, DamageVersion(d)
          PROVE  <1>3!1 /\ <1>3!2 /\ <1>3!3
        <3>1. /\ versions \in [Digests -> Trees \cup {None}] /\ versions[d] \in Trees
              /\ versions' = [versions EXCEPT ![d] = [versions[d] EXCEPT !.tail = None]]
            BY <1>1, <2>2 DEF TypeOK, DamageVersion
        <3>2. /\ [versions[d] EXCEPT !.tail = None] \in Trees
              /\ [versions[d] EXCEPT !.tail = None].head = versions[d].head
              /\ [versions[d] EXCEPT !.tail = None].runtime = versions[d].runtime
              /\ [versions[d] EXCEPT !.tail = None].tail = None
            BY <3>1 DEF Trees, MaybeDigest
        <3>3. [versions[d] EXCEPT !.tail = None] # None
            BY <3>2, InstallerAssumption
        <3> QED
            BY <3>1, <3>2, <3>3, InstallerAssumption
    <2> QED
        BY <2>1, <2>2 DEF Locked, ReplaceCache, vars, prefixVars
<1>4. TypeOK'
    BY <1>1, <1>2, <1>3 DEF TypeOK
<1>5. LockHeld'
    BY <1>2 DEF InstallerInv, LockHeld
<1>6. StagesInOrder'
    <2>1. calls \in Nat
        BY <1>1, InstallerAssumption DEF TypeOK
    <2>2. PICK n \in 0 .. calls:
              /\ \A s \in Stages: stages[s].status = "unused" <=> s > n
              /\ \A q \in Installers: proc[q].pc \in BeforeStage => n < calls
        BY DEF InstallerInv, StagesInOrder
    <2>3. n \in 0 .. calls' /\ (n < calls => n < calls')
        BY <1>2, <2>1
    <2> QED
        BY <1>2, <2>2, <2>3 DEF InstallerInv, StagesInOrder
<1>7. InstallationConsistent'
    <2>1. PublishedIsNamed'
        BY <1>1, <1>3 DEF InstallationConsistent, PublishedIsNamed
    <2>2. journal # None => journal.previous \in MaybeDigest
        BY <1>1 DEF TypeOK, Journals
    <2>3. JournalCoversSelection'
        BY <1>1, <1>2, <1>3, <2>2
           DEF InstallationConsistent, JournalCoversSelection, JournalIn, TypeOK, MaybeDigest
    <2>4. OrphanStagesEmpty'
        BY <1>1, <1>2 DEF InstallationConsistent, OrphanStagesEmpty, JournalIn
    <2> QED
        BY <2>1, <2>3, <2>4 DEF InstallationConsistent
<1>8. ASSUME NEW p \in Installers PROVE Knows(p)'
    <2>1. Knows(p)
        BY DEF InstallerInv
    <2>2. KnowsRecovery(p)'
        BY <1>2, <2>1
           DEF Knows, KnowsRecovery, Journalled, JournalIn, Resolved, Kept
    <2>3. KnowsStage(p)' /\ KnowsSelection(p)'
        BY <1>2, <1>3, <2>1
           DEF Knows, KnowsStage, KnowsSelection, Journalled, JournalIn, Resolved, Kept,
               CacheVerifies, StageOf, Admitted, Staging, Copied, Activating
    <2> QED
        BY <1>2, <2>1, <2>2, <2>3 DEF Knows
<1> QED
    BY <1>4, <1>5, <1>6, <1>7, <1>8 DEF InstallerInv

-----------------------------------------------------------------------------
(* The invariant, and what follows from it *)

LEMMA InstallerStarts == Init => InstallerInv
<1> SUFFICES ASSUME Init PROVE InstallerInv
    OBVIOUS
<1> USE DEF Init
<1>1. Idle \in Calls /\ Idle.pc = "idle" /\ ~ Idle.writing /\ Idle.tx = NoTransaction
    BY DEF Idle, Calls, Controls, MaybeDigest, NoTransaction, Transactions
<1>2. [status |-> "unused", tree |-> EmptyTree] \in StageRecords
    BY DEF StageRecords, EmptyTree, Trees, MaybeDigest
<1>3. TypeOK
    BY <1>1, <1>2, InstallerAssumption DEF TypeOK, MaybeDigest
<1>4. StagesInOrder
    <2>1. \A s \in Stages: s > 0
        BY InstallerAssumption DEF Stages
    <2>2. \A p \in Installers: proc[p].pc \notin BeforeStage
        BY <1>1 DEF BeforeStage
    <2>3. 0 \in 0 .. calls
        OBVIOUS
    <2> QED
        BY <2>1, <2>2, <2>3 DEF StagesInOrder
<1>5. InstallationConsistent
    BY DEF InstallationConsistent, PublishedIsNamed, JournalCoversSelection,
           OrphanStagesEmpty, JournalIn
<1>6. \A p \in Installers: Knows(p)
    BY <1>1
       DEF Knows, KnowsRecovery, KnowsStage, KnowsSelection, Staging, Copied,
           Materialized, Activating, Rollback, Admitted
<1> QED
    BY <1>1, <1>3, <1>4, <1>5, <1>6 DEF InstallerInv, LockHeld

LEMMA InstallerSteps == InstallerInv /\ [Next]_vars => InstallerInv'
<1> SUFFICES ASSUME InstallerInv, [Next]_vars PROVE InstallerInv'
    OBVIOUS
<1>1. ASSUME NEW p \in Installers, Step(p) PROVE InstallerInv'
    BY <1>1, CallBegins, Surroundings, Admission, CacheAdmitted, RecoveryStarts, Quarantines,
       RecoversActivating, WriteStarts, Replaces, Repeats, StageMade, StageCopied,
       StageVerified, StageMaterialized, VersionKept, VersionPublished, ActiveVerified,
       FirstUndone, CallEnds
       DEF Step
<1> QED
    BY <1>1, CallEnds, Surroundings DEF Next

LEMMA InstallerInvariant == Spec => []InstallerInv
<1>1. Init => InstallerInv
    BY InstallerStarts
<1>2. InstallerInv /\ [Next]_vars => InstallerInv'
    BY InstallerSteps
<1> QED
    BY <1>1, <1>2, PTL DEF Spec

\* The variables stay in their types; in particular every journal the code
\* writes is one load_journal accepts, and a stage is left for every call.
THEOREM InstallerTypeCorrect == Spec => []TypeOK
<1>1. InstallerInv => TypeOK
    BY DEF InstallerInv
<1> QED
    BY <1>1, InstallerInvariant, PTL

\* After any kill, failed write or fsync and damaged version, what recovery
\* finds on disk is consistent: every published version is the package it is
\* named after, the journal covers the selection, and both ends of an open
\* transaction are there to go to (recover_internal_state never meets its
\* "ambiguous activating transaction").
THEOREM PrefixConsistent == Spec => []InstallationConsistent
<1>1. InstallerInv => InstallationConsistent
    BY DEF InstallerInv
<1> QED
    BY <1>1, InstallerInvariant, PTL

\* A call of install that raises keeps the selection it found, or leaves the
\* journal naming the transaction it could not undo; one that returns has
\* selected the package it admitted (_install_locked,
\* _populate_and_activate and their exception handlers).
THEOREM CallsKeepOrSelect == Spec => []CallKeepsOrSelects
<1>1. InstallerInv => CallKeepsOrSelects
    BY DEF InstallerInv, Knows, KnowsSelection, Kept, Resolved, CallKeepsOrSelects, At
<1> QED
    BY <1>1, InstallerInvariant, PTL

-----------------------------------------------------------------------------
(* The selection implements InstallSelection *)

\* The transaction of InstallSelection, as the mapping of Selection has it.
Ends == IF TransactionOpen
        THEN [old |-> journal.previous, new |-> journal.digest] ELSE None

\* An open transaction has two ends.
LEMMA EndsApart ==
    ASSUME TypeOK, TransactionOpen
    PROVE  /\ journal.digest \in Digests
           /\ Ends # None
           /\ Ends.old = journal.previous
           /\ Ends.new = journal.digest
<1>1. journal \in Journals
    BY DEF TypeOK, TransactionOpen, JournalIn
<1>2. journal.digest \in Digests /\ journal.previous \in MaybeDigest
    BY <1>1 DEF Journals
<1> QED
    BY <1>2, InstallerAssumption DEF Ends

\* Whether the transaction is open depends on the journal and on the one
\* installer that is inside of a call.
LEMMA OpenOf ==
    ASSUME LockHeld, NEW p \in Installers, proc[p].pc # "idle"
    PROVE  TransactionOpen <=> \/ JournalIn({"activating"})
                               \/ JournalIn({"committed"}) /\ proc[p].pc \in Rollback
BY HolderAlone DEF TransactionOpen, RollingBack, Rollback

\* A rollback begins in an activating transaction.
LEMMA RollbackBegins ==
    ASSUME InstallerInv, NEW p \in Installers, Step(p) \/ Kill(p),
           UNCHANGED journal, proc'[p].pc \in Rollback
    PROVE  proc[p].pc \in Rollback \/ JournalIn({"activating"})
<1>1. TypeOK /\ Knows(p) /\ proc \in [Installers -> Calls]
    BY DEF InstallerInv, TypeOK
<1>2. CASE RecoverActivated(p) \/ RecoverUnactivated(p)
    BY <1>2 DEF RecoverActivated, RecoverUnactivated
<1>3. CASE CreateTemp(p) \/ WriteFails(p) \/ Replace(p)
    <2>1. proc[p].pc \in Writers
        BY <1>1, <1>3 DEF CreateTemp, WriteFails, Replace, Knows
    <2>2. \/ proc'[p].pc = proc[p].pc
          \/ proc'[p].pc \in {Follow(proc[p].pc), Failed(proc[p].pc)}
        BY <1>1, <1>3, <2>1, Renamed DEF CreateTemp, WriteFails, Goto, Calls
    <2>3. proc[p].pc \in {"recommit", "activate", "confirmed", "restore", "undone"}
        BY <2>1, <2>2, JournalWriters, SelectorWriters, JournalTable, SelectorTable
           DEF Writers, Follow, Failed, Rollback
    <2> QED
        BY <1>1, <2>3
           DEF Knows, KnowsRecovery, KnowsSelection, Activating, Rollback
<1>4. CASE VerifyActive(p)
    BY <1>1, <1>4 DEF VerifyActive, At, Knows, KnowsSelection, Activating
<1>5. CASE UndoFirst(p) \/ UndoToPrevious(p)
    BY <1>5 DEF UndoFirst, UndoToPrevious, At, Rollback
<1>6. CASE Begin(p) \/ Locked(p) \/ RefuseUnknownEntry(p) \/ Probe(p) \/ ProbeEnds(p)
           \/ VerifyCache(p) \/ ClearSelectorTemps(p) \/ NothingToRecover(p)
           \/ Quarantine(p) \/ Return(p) \/ Kill(p)
    BY <1>1, <1>6
       DEF Begin, FaultyBegin, Locked, RefuseUnknownEntry, Probe, ProbeEnds, VerifyCache,
           ClearSelectorTemps, NothingToRecover, Quarantine, Return, Kill, Adopt, Attempt,
           Goto, At, Rollback, Idle, Calls
<1>7. CASE Idempotent(p) \/ MakeStage(p) \/ CopyHead(p) \/ CopyTail(p) \/ VerifyCopy(p)
           \/ Materialize(p) \/ VerifyStage(p) \/ KeepPublished(p) \/ PublishStage(p)
    BY <1>1, <1>7
       DEF Idempotent, MakeStage, CopyHead, CopyTail, VerifyCopy, Materialize,
           VerifyStage, KeepPublished, PublishStage, Attempt, Goto, Rollback, Calls
<1> QED
    BY <1>2, <1>3, <1>4, <1>5, <1>6, <1>7 DEF Step

\* A step that touches neither file leaves the transaction open, or closes it
\* with the selection it has.
LEMMA QuietSelection ==
    ASSUME InstallerInv, UNCHANGED <<active, journal>>,
           TransactionOpen' => TransactionOpen
    PROVE  [Selection!Next]_<<active, Ends>>
<1>1. CASE TransactionOpen' = TransactionOpen
    BY <1>1 DEF Ends
<1>2. CASE TransactionOpen /\ ~ TransactionOpen'
    BY <1>2, EndsApart DEF Selection!Next, Selection!Close, Ends, InstallerInv
<1> QED
    BY <1>1, <1>2 DEF TransactionOpen, RollingBack, JournalIn

\* The writes of the journal open, keep and close the transaction.
LEMMA JournalSelection ==
    ASSUME InstallerInv, InstallerInv', NEW p \in Installers, Replace(p),
           proc[p].pc \in DOMAIN JournalWrites
    PROVE  [Selection!Next]_<<active, Ends>>
<1> DEFINE pc == proc[p].pc
<1>1. /\ TypeOK /\ Knows(p) /\ JournalCoversSelection /\ LockHeld
      /\ TypeOK' /\ LockHeld'
    BY DEF InstallerInv, InstallationConsistent
<1>2. /\ journal' = JournalOf(JournalWrites[pc].state, proc[p].tx) /\ active' = active
      /\ proc'[p].pc \in {JournalWrites[pc].next, JournalWrites[pc].failed}
    BY Renamed DEF Replace, Follow, Failed
<1>3. /\ journal' # None => /\ journal'.state = JournalWrites[pc].state
                            /\ journal'.digest = proc[p].tx.digest
                            /\ journal'.previous = proc[p].tx.previous
    BY <1>2 DEF JournalOf
<1>4. TransactionOpen <=> \/ JournalIn({"activating"})
                          \/ JournalIn({"committed"}) /\ pc \in Rollback
    BY <1>1, OpenOf, JournalWriters
<1>5. TransactionOpen' <=> \/ JournalIn({"activating"})'
                           \/ JournalIn({"committed"})' /\ proc'[p].pc \in Rollback
    <2>1. \A q \in Installers \ {p}: proc'[q].pc = "idle"
        BY Renamed
    <2> QED
        BY <2>1 DEF TransactionOpen, RollingBack, Rollback
<1>6. CASE pc \in {"quarantined", "begin", "materialized", "verified"}
    <2>1. ~ TransactionOpen /\ ~ TransactionOpen'
        BY <1>1, <1>3, <1>4, <1>5, <1>6, JournalTable
           DEF Knows, KnowsRecovery, KnowsStage, Staging, Copied, JournalIn, Resolved,
               StageStates, Rollback
    <2> QED
        BY <1>2, <2>1 DEF Ends
<1>7. CASE pc = "published"
    <2>1. ~ TransactionOpen
        BY <1>1, <1>4, <1>7
           DEF Knows, KnowsStage, Staging, JournalIn, StageStates, Rollback
    <2>2. /\ proc[p].tx.digest = proc[p].wanted /\ proc[p].tx.previous = active
          /\ active # proc[p].wanted /\ proc[p].wanted \in Digests
        BY <1>1, <1>7 DEF Knows, KnowsStage, Staging, Admitted
    <2>3. CASE TransactionOpen'
        <3>1. Ends' = [old |-> active, new |-> proc[p].wanted]
            BY <1>3, <2>2, <2>3 DEF Ends, TransactionOpen, JournalIn
        <3> QED
            BY <1>2, <2>1, <2>2, <3>1 DEF Selection!Next, Selection!Open, Ends
    <2> QED
        BY <1>2, <2>1, <2>3 DEF Ends
<1>8. CASE pc \in {"recommit", "confirmed"}
    <2>1. TransactionOpen /\ Journalled(p)
        BY <1>1, <1>4, <1>8 DEF Knows, KnowsRecovery, KnowsSelection, Activating
    <2>2. CASE TransactionOpen'
        BY <1>2, <1>3, <2>1, <2>2 DEF Ends, Journalled, TransactionOpen, JournalIn
    <2>3. CASE ~ TransactionOpen'
        BY <1>1, <1>2, <2>1, <2>3, EndsApart DEF Selection!Next, Selection!Close, Ends
    <2> QED
        BY <2>2, <2>3
<1>9. CASE pc \in {"restored", "undone"}
    <2>1. TransactionOpen
        BY <1>1, <1>4, <1>9
           DEF Knows, KnowsRecovery, KnowsSelection, Rollback, JournalIn
    <2>2. ~ TransactionOpen'
        BY <1>3, <1>5, <1>9, JournalTable DEF JournalIn
    <2> QED
        BY <1>1, <1>2, <2>1, <2>2, EndsApart DEF Selection!Next, Selection!Close, Ends
<1> QED
    BY <1>6, <1>7, <1>8, <1>9, JournalWriters

\* Activation and its reversal select an end of the open transaction.
LEMMA SelectorSelection ==
    ASSUME InstallerInv, NEW p \in Installers,
           \/ Replace(p) /\ proc[p].pc \in DOMAIN SelectorWrites
           \/ UndoFirst(p)
    PROVE  [Selection!Next]_<<active, Ends>>
<1> DEFINE pc == proc[p].pc
<1>1. TypeOK /\ Knows(p) /\ JournalCoversSelection /\ LockHeld
    BY DEF InstallerInv, InstallationConsistent
<1>2. pc \in {"activate", "restore", "undo"}
    BY SelectorWriters DEF UndoFirst, At
<1>3. Journalled(p) /\ TransactionOpen
      /\ (pc = "activate" => JournalIn({"activating"}))
    BY <1>1, <1>2, OpenOf
       DEF Knows, KnowsSelection, Activating, Rollback, JournalIn
<1>4. /\ journal' = journal
      /\ \/ active' \in {active, journal.previous}
         \/ active' = journal.digest /\ pc = "activate"
    <2>1. CASE Replace(p) /\ pc \in DOMAIN SelectorWrites
        BY <1>3, <2>1, JournalWriters, SelectorWriters, SelectorTable
           DEF Replace, Journalled
    <2>2. CASE UndoFirst(p)
        BY <1>3, <2>2 DEF UndoFirst, Journalled
    <2> QED
        BY <2>1, <2>2
<1>5. active \in {journal.digest, journal.previous}
    BY <1>1, <1>3
       DEF JournalCoversSelection, TransactionOpen, JournalIn
<1>6. CASE TransactionOpen'
    <2>1. Ends' = Ends
        BY <1>3, <1>4, <1>6 DEF Ends
    <2> QED
        BY <1>1, <1>3, <1>4, <1>5, <2>1, EndsApart DEF Selection!Next, Selection!Select, Ends
<1>7. CASE ~ TransactionOpen'
    <2>1. pc # "activate"
        BY <1>3, <1>4, <1>7 DEF TransactionOpen, JournalIn
    <2>2. Ends' = None
        BY <1>7 DEF Ends
    <2> QED
        BY <1>1, <1>3, <1>4, <2>1, <2>2, EndsApart DEF Selection!Next, Selection!Close, Ends
<1> QED
    BY <1>6, <1>7

LEMMA SelectionSteps ==
    ASSUME InstallerInv, InstallerInv', [Next]_vars
    PROVE  [Selection!Next]_<<active, Ends>>
<1>1. CASE ReplaceCache \/ (\E d \in Digests: DamageVersion(d)) \/ UNCHANGED vars
           \/ \E p \in Installers: Locked(p)
    <2>1. UNCHANGED <<active, journal, proc>>
        BY <1>1 DEF ReplaceCache, DamageVersion, vars, prefixVars, Locked
    <2> QED
        BY <2>1 DEF Ends, TransactionOpen, RollingBack, JournalIn
<1>2. ASSUME NEW p \in Installers, Step(p) \/ Kill(p), ~ Locked(p)
      PROVE  [Selection!Next]_<<active, Ends>>
    <2>1. CASE UNCHANGED <<active, journal>>
        <3>1. \A q \in Installers \ {p}: proc'[q] = proc[q]
            BY <1>2
               DEF Step, Kill, Begin, FaultyBegin, Locked, RefuseUnknownEntry, Probe,
                   ProbeEnds, VerifyCache, ClearSelectorTemps, NothingToRecover,
                   Quarantine, RecoverActivated, RecoverUnactivated, CreateTemp,
                   WriteFails, Replace, Idempotent, MakeStage, CopyHead, CopyTail,
                   VerifyCopy, Materialize, VerifyStage, KeepPublished, PublishStage,
                   VerifyActive, UndoFirst, UndoToPrevious, Return, Adopt, Attempt, Goto,
                   InstallerInv, TypeOK
        <3>2. TransactionOpen' => TransactionOpen
            <4>1. CASE JournalIn({"activating"})
                BY <4>1 DEF TransactionOpen
            <4>2. ASSUME TransactionOpen', ~ JournalIn({"activating"})
                  PROVE  TransactionOpen
                <5>1. JournalIn({"committed"}) /\ RollingBack'
                    BY <2>1, <4>2 DEF TransactionOpen, JournalIn
                <5>2. PICK q \in Installers: proc'[q].pc \in Rollback
                    BY <5>1 DEF RollingBack
                <5>3. proc[q].pc \in Rollback
                    BY <1>2, <2>1, <3>1, <4>2, <5>2, RollbackBegins
                <5> QED
                    BY <5>1, <5>3 DEF TransactionOpen, RollingBack
            <4> QED
                BY <4>1, <4>2
        <3> QED
            BY <2>1, <3>2, QuietSelection
    <2>2. CASE Replace(p)
        BY <2>2, Renamed, JournalSelection, SelectorSelection DEF Writers
    <2>3. CASE UndoFirst(p)
        BY <2>3, SelectorSelection
    <2>4. Replace(p) \/ UndoFirst(p) \/ UNCHANGED <<active, journal>>
        BY <1>2
           DEF Step, Kill, Begin, FaultyBegin, Locked, RefuseUnknownEntry, Probe,
               ProbeEnds, VerifyCache, ClearSelectorTemps, NothingToRecover, Quarantine,
               RecoverActivated, RecoverUnactivated, CreateTemp, WriteFails, Idempotent,
               MakeStage, CopyHead, CopyTail, VerifyCopy, Materialize, VerifyStage,
               KeepPublished, PublishStage, VerifyActive, UndoToPrevious, Return,
               prefixVars
    <2> QED
        BY <2>1, <2>2, <2>3, <2>4
<1> QED
    BY <1>1, <1>2 DEF Next

\* The selection the user of a prefix sees implements InstallSelection: it
\* changes only inside of a transaction that the journal names, between the
\* version selected before and the one being installed (activate_selector, as
\* recover_internal_state and _populate_and_activate call it).
THEOREM SelectionImplemented == Spec => ImplementsSelection
<1>1. Init => Selection!Init
    BY DEF Init, Selection!Init, TransactionOpen, JournalIn
<1>2. InstallerInv /\ InstallerInv' /\ [Next]_vars => [Selection!Next]_<<active, Ends>>
    BY SelectionSteps
<1>3. Spec => []InstallerInv
    BY InstallerInvariant
<1> QED
    BY <1>1, <1>2, <1>3, PTL DEF Spec, ImplementsSelection, Selection!Spec, Ends
=============================================================================
