--------------------------- MODULE EvidenceProofs ---------------------------
(***************************************************************************)
(* What the evidence pipeline owes to its rules, for any receipts, any     *)
(* number of finalizers, edits and damaged files: the envelope of a        *)
(* collection is valid, what is accepted is earned and is what was         *)
(* observed, a log is whole unless the command was forced to end, and an   *)
(* index stands for a whole bundle.                                        *)
(***************************************************************************)
EXTENDS EvidenceStore, TLAPS

-----------------------------------------------------------------------------
(* What the adapters record.                                               *)

\* The work of the command is accepted as far as its outcome says.
PassedOutcome(o) ==
    /\ o.behavior = "passed" /\ o.tier = "passed"
    /\ o.cleanup \in {"confirmed", "not_applicable"}

\* The receipts that Earned relies on.
ReliedAccepted ==
    \A a \in Relied: /\ Held(captured, a) /\ captured[a].sound
                     /\ adapter # "installed-audit" => captured[a].cleanup = "confirmed"
                     /\ adapter # "recovery-receipt" => captured[a].verdict

\* A confirmed clean-up is backed by a receipt that was captured.
Backed(o) ==
    o.cleanup = "confirmed" =>
        \E a \in o.cited: IsReceiptRole(adapter, a) /\ captured[a] # Absent

ReproducedWithoutCleanup ==
    /\ adapter = "reproduction" /\ captured["second"] = Absent
    /\ AcceptedOf(captured, "receipt")

ThisNative == Native(adapter, captured, Observed)
ThisRecord == Recorded(adapter, captured, Observed)

LEMMA ProcessPasses ==
    /\ ProcessOutcome(Observed).behavior = "passed" => child = "0" /\ ~timedOut
    /\ ProcessOutcome(Observed).cleanup = "not_applicable"
    /\ ProcessOutcome(Observed).cited = {}
<1> DEFINE of(b, t) == Outcome(b, t, "not_applicable", {})
<1>1. ProcessOutcome(Observed) =
        CASE child = "none" -> of("inconclusive", "unavailable")
          [] child # "none" /\ timedOut -> of("inconclusive", "failed")
          [] child = "0" /\ ~timedOut -> of("passed", "passed")
          [] OTHER -> of("failed", "failed")
    BY DEF ProcessOutcome, Observed
<1>2. CASE child = "none"
    BY <1>1, <1>2 DEF Outcome
<1>3. CASE child # "none" /\ timedOut
    BY <1>1, <1>3 DEF Outcome
<1>4. CASE child = "0" /\ ~timedOut
    BY <1>1, <1>4 DEF Outcome
<1>5. CASE child \notin {"none", "0"} /\ ~timedOut
    BY <1>1, <1>5 DEF Outcome
<1> QED
    BY <1>2, <1>3, <1>4, <1>5

-----------------------------------------------------------------------------
(* The adapters, one by one.  An outcome keeps to the attachments of its   *)
(* command, backs its clean-up, and passes only on accepted receipts.      *)

Sincere(o) ==
    /\ \E b, t, c, s: o = Outcome(b, t, c, s)
    /\ o.cited \subseteq AttachmentsOf(adapter)
    /\ Backed(o) \/ ReproducedWithoutCleanup
    /\ PassedOutcome(o) => ReliedAccepted /\ adapter # "recovery-origin"

LEMMA SincereOutcome ==
    ASSUME NEW b, NEW t, NEW c, NEW s,
           s \subseteq AttachmentsOf(adapter),
           \/ c # "confirmed"
           \/ \E a \in s: IsReceiptRole(adapter, a) /\ captured[a] # Absent
           \/ ReproducedWithoutCleanup,
           b = "passed" /\ t = "passed" /\ c \in {"confirmed", "not_applicable"} =>
               ReliedAccepted /\ adapter # "recovery-origin"
    PROVE  Sincere(Outcome(b, t, c, s))
<1> DEFINE o == Outcome(b, t, c, s)
<1>1. o.behavior = b /\ o.tier = t /\ o.cleanup = c /\ o.cited = s
    BY DEF Outcome
<1>2. \E bb, tt, cc, ss: o = Outcome(bb, tt, cc, ss)
    OBVIOUS
<1> HIDE DEF o
<1>3. Backed(o) \/ ReproducedWithoutCleanup
    BY <1>1 DEF Backed
<1>4. PassedOutcome(o) => ReliedAccepted /\ adapter # "recovery-origin"
    BY <1>1 DEF PassedOutcome
<1>5. Sincere(o)
    BY <1>1, <1>2, <1>3, <1>4 DEF Sincere
<1> QED
    BY <1>5 DEF o

\* Every campaign passes on the receipts it relies on and cites them.
LEMMA CampaignSincere ==
    ASSUME adapter \in Campaigns
    PROVE  Sincere(CampaignOutcome(adapter, captured))
<1> DEFINE cites == CampaignCites(adapter, captured)
<1>1. cites \subseteq AttachmentsOf(adapter)
    BY DEF CampaignCites, AttachmentsOf, Campaigns, WithSecond
<1>2. CASE AcceptedOf(captured, "receipt") /\ SecondAgrees(adapter, captured)
    <2>1. CampaignOutcome(adapter, captured) = Outcome("passed", "passed", "confirmed", cites)
        BY <1>2 DEF CampaignOutcome
    <2>2. "receipt" \in cites /\ captured["receipt"] # Absent
        BY <1>2 DEF CampaignCites, AcceptedOf, Held
    <2>3. adapter = "gate-aggregate" => AcceptedOf(captured, "second")
        BY <1>2 DEF SecondAgrees
    <2>4. ReliedAccepted
        <3> SUFFICES ASSUME NEW a \in Relied PROVE AcceptedOf(captured, a)
            BY DEF ReliedAccepted, AcceptedOf, Accepted
        <3>1. a = "receipt" \/ (a = "second" /\ adapter = "gate-aggregate")
            BY DEF Relied, AttachmentsOf, Campaigns
        <3> QED
            BY <3>1, <1>2, <2>3
    <2>5. \E a \in cites: IsReceiptRole(adapter, a) /\ captured[a] # Absent
        BY <2>2 DEF IsReceiptRole
    <2> HIDE DEF cites
    <2> QED
        BY <2>1, <1>1, <2>4, <2>5, SincereOutcome DEF Campaigns
<1>3. CASE ~(AcceptedOf(captured, "receipt") /\ SecondAgrees(adapter, captured))
    <2>1. PICK c \in {"failed", "unconfirmed"}:
            CampaignOutcome(adapter, captured) = Outcome("inconclusive", "failed", c, cites)
        BY <1>3 DEF CampaignOutcome
    <2> HIDE DEF cites
    <2> QED
        BY <2>1, <1>1, SincereOutcome
<1> QED
    BY <1>2, <1>3

LEMMA InvalidSincere == Sincere(Invalid)
BY SincereOutcome DEF Invalid

LEMMA SuiteSincere ==
    ASSUME adapter \in Suites
    PROVE  Sincere(SuiteOutcome(adapter, captured, Observed))
<1>1. CASE AcceptedOf(captured, "receipt") /\ SecondAgrees(adapter, captured)
    <2>1. AttachmentsOf(adapter) \in {{"receipt"}, {"receipt", "second"}}
        BY DEF AttachmentsOf, Suites
    <2>2. adapter = "suite-lease-faulty" => AcceptedOf(captured, "second")
        BY <1>1 DEF SecondAgrees
    <2>3. ReliedAccepted
        <3> SUFFICES ASSUME NEW a \in Relied PROVE AcceptedOf(captured, a)
            BY DEF ReliedAccepted, AcceptedOf, Accepted
        <3>1. a = "receipt" \/ (a = "second" /\ adapter = "suite-lease-faulty")
            BY DEF Relied, AttachmentsOf, Suites
        <3> QED
            BY <3>1, <1>1, <2>2
    <2>4. \E a \in AttachmentsOf(adapter): IsReceiptRole(adapter, a) /\ captured[a] # Absent
        BY <1>1, <2>1 DEF IsReceiptRole, AcceptedOf, Held
    <2>5. SuiteOutcome(adapter, captured, Observed) \in
            {Invalid, Outcome("passed", "passed", "confirmed", AttachmentsOf(adapter))}
        BY <1>1 DEF SuiteOutcome, SuiteVerdict
    <2> QED
        BY <2>3, <2>4, <2>5, InvalidSincere, SincereOutcome DEF Suites
<1>2. CASE ~(AcceptedOf(captured, "receipt") /\ SecondAgrees(adapter, captured))
    BY <1>2, InvalidSincere DEF SuiteOutcome, SuiteVerdict
<1> QED
    BY <1>1, <1>2

LEMMA RecoverySincere ==
    ASSUME adapter = "recovery-receipt"
    PROVE  Sincere(RecoveryOutcome(captured))
<1>0. AttachmentsOf(adapter) = {"receipt"} /\ Relied = {"receipt"}
    BY DEF AttachmentsOf, WithSecond, Relied
<1>1. CASE Held(captured, "receipt") /\ captured["receipt"].sound
    <2> DEFINE tier == IF captured["receipt"].cleanup = "confirmed" THEN "passed" ELSE "failed"
               cleanup == captured["receipt"].cleanup
    <2>1. RecoveryOutcome(captured) = Outcome("passed", tier, cleanup, {"receipt"})
        BY <1>1 DEF RecoveryOutcome
    <2>2. tier = "passed" => ReliedAccepted
        BY <1>0, <1>1 DEF ReliedAccepted
    <2>3. IsReceiptRole(adapter, "receipt") /\ captured["receipt"] # Absent
        BY <1>1 DEF IsReceiptRole, Held
    <2> HIDE DEF tier, cleanup
    <2> QED
        BY <1>0, <2>1, <2>2, <2>3, SincereOutcome
<1>2. CASE ~(Held(captured, "receipt") /\ captured["receipt"].sound)
    <2>1. RecoveryOutcome(captured) =
            Outcome("inconclusive", "failed", "unconfirmed", {"receipt"})
        BY <1>2 DEF RecoveryOutcome
    <2> QED
        BY <1>0, <2>1, SincereOutcome
<1> QED
    BY <1>1, <1>2

LEMMA RecoveryOriginSincere ==
    ASSUME adapter = "recovery-origin"
    PROVE  Sincere(RecoveryOriginOutcome)
<1>1. AttachmentsOf(adapter) = {"receipt"}
    BY DEF AttachmentsOf, WithSecond
<1> QED
    BY <1>1, SincereOutcome DEF RecoveryOriginOutcome

\* A reproduction cites its clean-up receipt, which need not be there.
LEMMA ReproductionSincere ==
    ASSUME adapter = "reproduction"
    PROVE  Sincere(ReproductionOutcome(captured))
<1>0. AttachmentsOf(adapter) = {"receipt", "second"} /\ Relied = {"receipt"}
    BY DEF AttachmentsOf, WithSecond, Relied
<1>1. CASE ~Held(captured, "receipt") \/ ~captured["receipt"].sound
    BY <1>1, InvalidSincere DEF ReproductionOutcome
<1>2. CASE ~(~Held(captured, "receipt") \/ ~captured["receipt"].sound)
    <2> DEFINE status == IF captured["receipt"].verdict THEN "passed" ELSE "failed"
               cleanup == IF Accepted(captured["receipt"]) THEN "confirmed" ELSE "failed"
    <2>1. ReproductionOutcome(captured) = Outcome(status, status, cleanup, {"second"})
        BY <1>2 DEF ReproductionOutcome
    <2>2. cleanup = "confirmed" => AcceptedOf(captured, "receipt") /\ ReliedAccepted
        BY <1>0, <1>2 DEF AcceptedOf, ReliedAccepted, Accepted
    <2>3. IsReceiptRole(adapter, "second")
        BY DEF IsReceiptRole
    <2>4. cleanup \in {"confirmed", "failed"}
        OBVIOUS
    <2> HIDE DEF status, cleanup
    <2>5. CASE captured["second"] # Absent
        BY <1>0, <2>1, <2>2, <2>3, <2>4, <2>5, SincereOutcome
    <2>6. CASE captured["second"] = Absent
        <3>1. cleanup # "confirmed" \/ ReproducedWithoutCleanup
            BY <2>2, <2>6 DEF ReproducedWithoutCleanup
        <3> QED
            BY <1>0, <2>1, <2>2, <2>4, <3>1, SincereOutcome
    <2> QED
        BY <2>5, <2>6
<1> QED
    BY <1>1, <1>2

LEMMA AuditSincere ==
    ASSUME adapter = "installed-audit"
    PROVE  Sincere(AuditOutcome(captured, Observed))
<1>0. AttachmentsOf(adapter) = {"receipt", "second"} /\ Relied = {"receipt"}
    BY DEF AttachmentsOf, WithSecond, Relied
<1>1. CASE AuditOutcome(captured, Observed) = Invalid
    BY <1>1, InvalidSincere
<1>2. CASE AuditOutcome(captured, Observed) # Invalid
    <2>1. /\ AuditOutcome(captured, Observed) = Outcome("passed", "passed", "confirmed", {"receipt"})
          /\ Held(captured, "receipt") /\ captured["receipt"].sound
          /\ captured["receipt"].verdict
        BY <1>2 DEF AuditOutcome
    <2>2. ReliedAccepted
        BY <1>0, <2>1 DEF ReliedAccepted
    <2>3. IsReceiptRole(adapter, "receipt") /\ captured["receipt"] # Absent
        BY <2>1 DEF IsReceiptRole, Held
    <2> QED
        BY <1>0, <2>1, <2>2, <2>3, SincereOutcome
<1> QED
    BY <1>1, <1>2

\* Whatever adapter a registered command has, its outcome is sincere.
LEMMA NativeSincere ==
    ASSUME adapter \in Adapters, adapter # "none"
    PROVE  Sincere(ThisNative)
<1>1. CASE adapter \in Campaigns
    <2>1. ThisNative = CampaignOutcome(adapter, captured)
        BY <1>1 DEF ThisNative, Native, Campaigns, Suites
    <2> QED
        BY <1>1, <2>1, CampaignSincere
<1>2. CASE adapter \in Suites
    <2>1. ThisNative = SuiteOutcome(adapter, captured, Observed)
        BY <1>2 DEF ThisNative, Native, Campaigns, Suites
    <2> QED
        BY <1>2, <2>1, SuiteSincere
<1>3. CASE adapter = "recovery-receipt"
    <2>1. ThisNative = RecoveryOutcome(captured)
        BY <1>3 DEF ThisNative, Native, Campaigns, Suites
    <2> QED
        BY <1>3, <2>1, RecoverySincere
<1>4. CASE adapter = "recovery-origin"
    <2>1. ThisNative = RecoveryOriginOutcome
        BY <1>4 DEF ThisNative, Native, Campaigns, Suites
    <2> QED
        BY <1>4, <2>1, RecoveryOriginSincere
<1>5. CASE adapter = "reproduction"
    <2>1. ThisNative = ReproductionOutcome(captured)
        BY <1>5 DEF ThisNative, Native, Campaigns, Suites
    <2> QED
        BY <1>5, <2>1, ReproductionSincere
<1>6. CASE adapter = "installed-audit"
    <2>1. ThisNative = AuditOutcome(captured, Observed)
        BY <1>6 DEF ThisNative, Native, Campaigns, Suites
    <2> QED
        BY <1>6, <2>1, AuditSincere
<1> QED
    BY <1>1, <1>2, <1>3, <1>4, <1>5, <1>6 DEF Adapters, AlwaysNative

-----------------------------------------------------------------------------
(* The record and the envelope.                                            *)

ExitedAsExpected == child = ExpectedExit(adapter) /\ ~timedOut

LEMMA SuiteExits ==
    ASSUME adapter \in Suites, PassedOutcome(SuiteOutcome(adapter, captured, Observed))
    PROVE  ExitedAsExpected
<1>1. ~PassedOutcome(Invalid)
    BY DEF PassedOutcome, Invalid, Outcome
<1>2. ~Observed.timedOut /\ Observed.code = ExpectedExit(adapter)
    BY <1>1 DEF SuiteOutcome
<1> QED
    BY <1>2 DEF Observed, ExitedAsExpected

\* The outcomes that _stage records keep what the adapters promise, and pass
\* only when the process ended as its adapter expects.
LEMMA RecordSincere ==
    ASSUME adapter \in Adapters
    PROVE  /\ ThisRecord.cited \subseteq AttachmentsOf(adapter)
           /\ Backed(ThisRecord) \/ ReproducedWithoutCleanup
           /\ PassedOutcome(ThisRecord) =>
                ExitedAsExpected /\ ReliedAccepted /\ adapter # "recovery-origin"
<1>1. CASE adapter = "none"
    <2>1. ThisRecord = ProcessOutcome(Observed)
        BY <1>1 DEF ThisRecord, Recorded
    <2>2. Relied = {} /\ ExpectedExit(adapter) = "0"
        BY <1>1 DEF Relied, AttachmentsOf, ExpectedExit
    <2> QED
        BY <1>1, <2>1, <2>2, ProcessPasses
           DEF Backed, PassedOutcome, ReliedAccepted, ExitedAsExpected
<1>2. CASE adapter # "none"
    <2> DEFINE process == ProcessOutcome(Observed)
    <2>1. Sincere(ThisNative)
        BY <1>2, NativeSincere
    <2>2. PICK b, t, c, s: ThisNative = Outcome(b, t, c, s)
        BY <2>1 DEF Sincere
    <2>3. CASE process.behavior = "passed" \/ adapter \in AlwaysNative
        <3>1. ThisRecord = ThisNative
            BY <1>2, <2>3 DEF ThisRecord, ThisNative, Recorded
        <3>2. PassedOutcome(ThisNative) => ExitedAsExpected
            <4>1. CASE adapter \in Suites
                <5>1. ThisNative = SuiteOutcome(adapter, captured, Observed)
                    BY <4>1 DEF ThisNative, Native, Campaigns, Suites
                <5> QED
                    BY <4>1, <5>1, SuiteExits
            <4>2. CASE adapter = "recovery-origin"
                BY <2>1, <4>2 DEF Sincere
            <4>3. CASE adapter \notin AlwaysNative
                <5>1. ExpectedExit(adapter) = "0"
                    BY <4>3 DEF ExpectedExit, AlwaysNative, Suites
                <5> QED
                    BY <2>3, <4>3, <5>1, ProcessPasses DEF ExitedAsExpected
            <4> QED
                BY <4>1, <4>2, <4>3 DEF AlwaysNative
        <3> QED
            BY <2>1, <3>1, <3>2 DEF Sincere
    <2>4. CASE ~(process.behavior = "passed" \/ adapter \in AlwaysNative)
        <3> DEFINE bb == process.behavior
                   tt == process.tier
        <3>1. ThisRecord = [ThisNative EXCEPT !.behavior = bb, !.tier = tt]
            BY <1>2, <2>4 DEF ThisRecord, ThisNative, Recorded
        <3>2. bb # "passed"
            BY <2>4
        <3> HIDE DEF bb, tt, process
        <3>3. /\ ThisRecord.behavior = bb
              /\ ThisRecord.cleanup = ThisNative.cleanup
              /\ ThisRecord.cited = ThisNative.cited
            BY <2>2, <3>1 DEF Outcome
        <3> QED
            BY <2>1, <3>2, <3>3 DEF Sincere, Backed, PassedOutcome
    <2> QED
        BY <2>3, <2>4
<1> QED
    BY <1>1, <1>2

LEMMA CollectedFields ==
    /\ Collected.adapter = adapter
    /\ Collected.outcome = ThisRecord
    /\ Collected.artifacts = [a \in Artifacts |-> captured[a]]
    /\ Collected.missing = {a \in Artifacts: captured[a] = Absent}
    /\ Collected.changed = (ContentAt(before) # ContentAt(after))
    /\ Collected.persistence \in {"incomplete", "failed"}
    /\ Collected = [adapter |-> Collected.adapter, outcome |-> Collected.outcome,
                    artifacts |-> Collected.artifacts, missing |-> Collected.missing,
                    changed |-> Collected.changed, persistence |-> Collected.persistence]
BY DEF Collected, Envelope, ThisRecord, Artifacts

LEMMA CollectedValid ==
    ASSUME adapter \in Adapters
    PROVE  ValidEnvelope(Collected) \/ ReproducedWithoutCleanup
<1>1. AttachmentsOf(adapter) \subseteq Artifacts
    BY DEF Artifacts, ArtifactsOf
<1>2. ASSUME NEW a \in ThisRecord.cited
      PROVE  a \in Collected.missing \/ Collected.artifacts[a] # Absent
    BY <1>1, RecordSincere, CollectedFields
<1>3. ASSUME Backed(ThisRecord), ThisRecord.cleanup = "confirmed"
      PROVE  \E a \in ThisRecord.cited: IsReceiptRole(adapter, a) /\ Collected.artifacts[a] # Absent
    BY <1>1, <1>3, RecordSincere, CollectedFields DEF Backed
<1>4. Collected.persistence # "complete"
    BY CollectedFields
<1>5. Backed(ThisRecord) => ValidEnvelope(Collected)
    BY <1>2, <1>3, <1>4, CollectedFields DEF ValidEnvelope
<1> QED
    BY <1>5, RecordSincere

LEMMA AdapterFixed == Spec => [](adapter \in Adapters)
<1>1. Init => adapter \in Adapters
    BY DEF Init, CollectorInit
<1>2. [Next]_vars => UNCHANGED adapter
    BY DEF Next, vars, collectorVars, Collect, CollectorNext, Surroundings, Loop, Staging,
           Fork, LetGo, Exit, Flood, Edit, Preflight, Forward, Notice, Deadline, Kill,
           GiveUp, Reap, Observe, WaitRaises, Sample, Capture, Stage, StoreFails,
           StageRaises, KillCollector, Finalize, ReadStaging, CheckSources, Claim, Copy,
           CheckCopies, WriteEnvelope, Publish, Finish, Stop, OnlyFinalizer, HarmStaging,
           HarmBundle, Verify, Link
<1>3. adapter \in Adapters /\ [Next]_vars => (adapter \in Adapters)'
    BY <1>2
<1> QED
    BY <1>1, <1>3, PTL DEF Spec

\* Whatever a command of any adapter leaves behind, its evidence can be kept:
\* the envelope that _stage makes is one that validate_document accepts, save
\* for a reproduction that succeeded and whose clean-up receipt is not there.
THEOREM EvidenceAlwaysSurvives == Spec => []EvidenceSurvives
<1>1. adapter \in Adapters => EvidenceSurvives
    BY CollectedValid DEF EvidenceSurvives, ReproducedWithoutCleanup
<1> QED
    BY <1>1, AdapterFixed, PTL

-----------------------------------------------------------------------------
(***************************************************************************)
(* From the stage to the link.  Once a collection is staged nothing of it  *)
(* changes, and until then nobody holds an envelope.  Whatever is damaged  *)
(* afterwards, an envelope in the hands of a finalizer, an index that is   *)
(* not damaged and a verification are of that collection.                  *)
(***************************************************************************)
Final == Finalized(Collected)
Places == {"idle", "read", "checked", "copying", "copied", "described", "published", "done",
           "refused", "stopped"}
Admitted == pc = "staged" /\ Finalizable(Collected)
\* What the finalizers may hold.
Hands == [Finalizers -> [at: Places, env: {Absent, Final}, todo: SUBSET AllArtifacts]]

BundleShape ==
    \E claimed, bytes, env, index:
        bundle = [claimed |-> claimed, payload |-> bytes, env |-> env, index |-> index]
ConsumerShape ==
    \E at, env, bytes: consumer = [at |-> at, env |-> env, payload |-> bytes]

PipelineInv ==
    /\ adapter \in Adapters
    /\ staged \in {Absent, Bad, Collected}
    /\ staged # Absent => pc = "staged"
    /\ finalizer \in Hands
    /\ \A f \in Finalizers: finalizer[f].env # Absent => Admitted
    /\ BundleShape
    /\ bundle.index \in {Absent, Bad, Final}
    /\ bundle.index # Absent => Admitted
    /\ ConsumerShape
    /\ consumer.at \in {"verified", "accepted"} =>
           /\ Admitted
           /\ consumer.env = Final
           /\ \A a \in Artifacts: consumer.payload[a] = captured[a] /\ captured[a] # Absent
    /\ consumer.at = "accepted" => Qualified(Final)

LEMMA FinalFields ==
    /\ Final.outcome = ThisRecord
    /\ Final.artifacts = [a \in Artifacts |-> captured[a]]
<1>1. PICK aa, oo, rr, mm, cc, pp: Collected = [adapter |-> aa, outcome |-> oo,
           artifacts |-> rr, missing |-> mm, changed |-> cc, persistence |-> pp]
    BY CollectedFields
<1>2. Final.outcome = Collected.outcome /\ Final.artifacts = Collected.artifacts
    BY <1>1 DEF Final, Finalized
<1> QED
    BY <1>2, CollectedFields

LEMMA PipelineStarts == Init => PipelineInv
<1> SUFFICES ASSUME Init PROVE PipelineInv
    OBVIOUS
<1>1. finalizer \in Hands
    <2>1. Waiting \in [at: Places, env: {Absent, Final}, todo: SUBSET AllArtifacts]
        BY DEF Waiting, Places
    <2>2. finalizer = [f \in Finalizers |-> Waiting]
        BY DEF Init
    <2> QED
        BY <2>1, <2>2 DEF Hands
<1>2. BundleShape /\ ConsumerShape
    BY DEF Init, NoBundle, NoVerification, BundleShape, ConsumerShape
<1> QED
    BY <1>1, <1>2 DEF Init, CollectorInit, PipelineInv, Waiting, NoBundle, NoVerification

\* What the record of a staged collection is made of.
recordVars == <<adapter, child, timedOut, before, after, captured, pc>>

LEMMA RecordFixed ==
    ASSUME UNCHANGED recordVars
    PROVE  /\ UNCHANGED <<Collected, Final>>
           /\ Admitted' <=> Admitted
           /\ Artifacts' = Artifacts
BY DEF recordVars, Collected, Observed, Final, Admitted, Artifacts

\* While the command is collected nobody holds an envelope; the last step of
\* the collection stages the right one.
LEMMA CollectSteps ==
    ASSUME PipelineInv, Collect
    PROVE  PipelineInv'
<1>1. pc # "staged" /\ CollectorNext /\ UNCHANGED storeVars
    BY DEF Collect
<1>2. staged = Absent /\ ~Admitted
    BY <1>1 DEF PipelineInv, Admitted
<1>3. adapter' = adapter
    BY <1>1 DEF CollectorNext, Surroundings, Loop, Staging, Fork, LetGo, Exit, Flood, Edit,
           Preflight, Forward, Notice, Deadline, Kill, GiveUp, Reap, Observe, WaitRaises,
           Sample, Capture, Stage, StoreFails, StageRaises, KillCollector
<1>4. staged' = Absent \/ (staged' = Collected' /\ pc' = "staged")
    <2>1. CASE Stage
        <3>1. UNCHANGED <<adapter, child, timedOut, before, after, captured>>
            BY <2>1 DEF Stage, processVars
        <3>2. Collected' = Collected
            BY <3>1 DEF Collected, Observed
        <3> QED
            BY <1>2, <2>1, <3>2 DEF Stage
    <2>2. CASE ~Stage
        BY <1>1, <1>2, <2>2 DEF CollectorNext, Surroundings, Loop, Staging, Fork, LetGo,
           Exit, Flood, Edit, Preflight, Forward, Notice, Deadline, Kill, GiveUp, Reap,
           Observe, WaitRaises, Sample, Capture, StoreFails, StageRaises, KillCollector,
           stagingVars
    <2> QED
        BY <2>1, <2>2
<1>5. UNCHANGED <<finalizer, bundle, consumer>>
    BY <1>1 DEF storeVars
<1>6. finalizer' \in Hands'
    BY <1>2, <1>5 DEF PipelineInv, Hands
<1>7. \A f \in Finalizers: finalizer[f].env = Absent
    BY <1>2 DEF PipelineInv
<1>8. bundle.index = Absent /\ consumer.at \notin {"verified", "accepted"}
    BY <1>2 DEF PipelineInv
<1> QED
    BY <1>3, <1>4, <1>5, <1>6, <1>7, <1>8 DEF PipelineInv, BundleShape, ConsumerShape

\* The records of finalizers and of the bundle, updated.
LEMMA FinalizerGoes ==
    ASSUME PipelineInv, NEW f \in Finalizers, NEW place \in Places, Goto(f, place)
    PROVE  /\ finalizer' \in Hands
           /\ \A g \in Finalizers: finalizer'[g].env = finalizer[g].env
           /\ \A g \in Finalizers: finalizer'[g].env # Absent => Admitted
<1>1. finalizer' \in Hands /\ \A g \in Finalizers: finalizer'[g].env = finalizer[g].env
    BY DEF PipelineInv, Goto, Hands
<1> QED
    BY <1>1 DEF PipelineInv

LEMMA BundleKeepsIndex ==
    ASSUME BundleShape, NEW x, NEW a,
           \/ bundle' = [bundle EXCEPT !.claimed = TRUE]
           \/ bundle' = [bundle EXCEPT !.payload[a] = x]
           \/ bundle' = [bundle EXCEPT !.env = x]
    PROVE  BundleShape' /\ bundle'.index = bundle.index
<1> PICK claimed, bytes, env, index:
        bundle = [claimed |-> claimed, payload |-> bytes, env |-> env, index |-> index]
    BY DEF BundleShape
<1>1. \E c, p, e: bundle' = [claimed |-> c, payload |-> p, env |-> e, index |-> index]
    <2>1. CASE bundle' = [bundle EXCEPT !.claimed = TRUE]
        <3>1. bundle' = [claimed |-> TRUE, payload |-> bytes, env |-> env, index |-> index]
            BY <2>1
        <3> QED BY <3>1
    <2>2. CASE bundle' = [bundle EXCEPT !.payload[a] = x]
        <3>1. bundle' = [claimed |-> claimed, payload |-> [bytes EXCEPT ![a] = x],
                         env |-> env, index |-> index]
            BY <2>2
        <3> QED BY <3>1
    <2>3. CASE bundle' = [bundle EXCEPT !.env = x]
        <3>1. bundle' = [claimed |-> claimed, payload |-> bytes, env |-> x, index |-> index]
            BY <2>3
        <3> QED BY <3>1
    <2> QED
        BY <2>1, <2>2, <2>3
<1> QED
    BY <1>1 DEF BundleShape

LEMMA BundleIndexed ==
    ASSUME BundleShape, NEW x, bundle' = [bundle EXCEPT !.index = x]
    PROVE  BundleShape' /\ bundle'.index = x
<1> PICK claimed, bytes, env, index:
        bundle = [claimed |-> claimed, payload |-> bytes, env |-> env, index |-> index]
    BY DEF BundleShape
<1>1. bundle' = [claimed |-> claimed, payload |-> bytes, env |-> env, index |-> x]
    OBVIOUS
<1> QED
    BY <1>1 DEF BundleShape

\* What a step that leaves the record of the collection alone must keep.
LEMMA HandsKept ==
    ASSUME PipelineInv, UNCHANGED recordVars,
           staged' \in {staged, Bad}, staged' # staged => staged # Absent,
           finalizer' \in Hands,
           \A f \in Finalizers: finalizer'[f].env # Absent => Admitted,
           BundleShape', bundle'.index \in {Absent, Bad, Final},
           bundle'.index # Absent => Admitted,
           UNCHANGED consumer
    PROVE  PipelineInv'
BY RecordFixed DEF PipelineInv, recordVars, ConsumerShape, Hands

LEMMA FinalizeSteps ==
    ASSUME PipelineInv, NEW f \in Finalizers, Finalize(f)
    PROVE  PipelineInv'
<1>0. UNCHANGED <<collectorVars, consumer>>
    BY DEF Finalize, ReadStaging, CheckSources, Claim, Copy, CheckCopies, WriteEnvelope,
           Publish, Finish, OnlyFinalizer
<1>1. UNCHANGED recordVars /\ staged' = staged
    BY <1>0 DEF recordVars, collectorVars, processVars, stagingVars
<1>2. CASE ReadStaging(f)
    <2>1. CASE staged # Bad /\ ValidEnvelope(staged) /\ Finalizable(staged)
        <3>1. staged = Collected /\ Admitted
            BY <1>2, <2>1 DEF ReadStaging, PipelineInv, Admitted
        <3>2. finalizer' = [finalizer EXCEPT ![f] =
                              [at |-> "read", env |-> Final, todo |-> Artifacts]]
            BY <1>2, <2>1, <3>1 DEF ReadStaging, Final
        <3>3. Artifacts \subseteq AllArtifacts
            BY DEF Artifacts, ArtifactsOf, AttachmentsOf, AllArtifacts, Attachments
        <3>4. [at |-> "read", env |-> Final, todo |-> Artifacts]
                \in [at: Places, env: {Absent, Final}, todo: SUBSET AllArtifacts]
            BY <3>3 DEF Places
        <3>5. finalizer' \in Hands
            BY <3>2, <3>4 DEF PipelineInv, Hands
        <3> QED
            BY <1>0, <1>1, <1>2, <3>1, <3>5, HandsKept
               DEF ReadStaging, OnlyFinalizer, PipelineInv, BundleShape
    <2>2. CASE ~(staged # Bad /\ ValidEnvelope(staged) /\ Finalizable(staged))
        <3>1. Goto(f, "refused") /\ UNCHANGED bundle
            BY <1>2, <2>2 DEF ReadStaging, OnlyFinalizer
        <3>2. finalizer' \in Hands /\ \A g \in Finalizers: finalizer'[g].env # Absent => Admitted
            BY <3>1, FinalizerGoes DEF Places
        <3> QED
            BY <1>0, <1>1, <3>1, <3>2, HandsKept DEF PipelineInv, BundleShape
    <2> QED
        BY <2>1, <2>2
<1>3. CASE CheckSources(f) \/ CheckCopies(f) \/ Finish(f)
    <2>1. UNCHANGED bundle /\ \E place \in Places: Goto(f, place)
        BY <1>3 DEF CheckSources, CheckCopies, Finish, OnlyFinalizer, Places
    <2>2. finalizer' \in Hands /\ \A g \in Finalizers: finalizer'[g].env # Absent => Admitted
        BY <2>1, FinalizerGoes
    <2> QED
        BY <1>0, <1>1, <2>1, <2>2, HandsKept DEF PipelineInv, BundleShape
<1>4. CASE Claim(f)
    <2>1. \/ UNCHANGED bundle /\ Goto(f, "refused")
          \/ bundle' = [bundle EXCEPT !.claimed = TRUE] /\ Goto(f, "copying")
        BY <1>4 DEF Claim
    <2>2. BundleShape' /\ bundle'.index = bundle.index
        BY <2>1, BundleKeepsIndex DEF PipelineInv, BundleShape
    <2>3. finalizer' \in Hands /\ \A g \in Finalizers: finalizer'[g].env # Absent => Admitted
        BY <2>1, FinalizerGoes DEF Places
    <2> QED
        BY <1>0, <1>1, <2>2, <2>3, HandsKept DEF PipelineInv
<1>5. ASSUME NEW a \in Artifacts, Copy(f, a)
      PROVE  PipelineInv'
    <2>1. BundleShape' /\ bundle'.index = bundle.index
        BY <1>5, BundleKeepsIndex DEF Copy, PipelineInv, BundleShape
    <2>2. /\ finalizer' \in Hands
          /\ \A g \in Finalizers: finalizer'[g].env = finalizer[g].env
        <3>1. CASE Goto(f, "refused")
            BY <3>1, FinalizerGoes DEF Places
        <3>2. CASE finalizer' = [finalizer EXCEPT ![f].todo = @ \ {a}]
            BY <3>2 DEF PipelineInv, Hands
        <3> QED
            BY <1>5, <3>1, <3>2 DEF Copy
    <2> QED
        BY <1>0, <1>1, <2>1, <2>2, HandsKept DEF PipelineInv
<1>6. CASE WriteEnvelope(f)
    <2>1. BundleShape' /\ bundle'.index = bundle.index /\ Goto(f, "described")
        BY <1>6, BundleKeepsIndex DEF WriteEnvelope, PipelineInv
    <2>2. finalizer' \in Hands /\ \A g \in Finalizers: finalizer'[g].env # Absent => Admitted
        BY <2>1, FinalizerGoes DEF Places
    <2> QED
        BY <1>0, <1>1, <2>1, <2>2, HandsKept DEF PipelineInv
<1>7. CASE Publish(f)
    <2>1. bundle' = [bundle EXCEPT !.index = finalizer[f].env] /\ Goto(f, "published")
        BY <1>7 DEF Publish
    <2>2. BundleShape' /\ bundle'.index = finalizer[f].env
        BY <2>1, BundleIndexed DEF PipelineInv
    <2>3. finalizer[f].env \in {Absent, Final} /\ (finalizer[f].env # Absent => Admitted)
        BY DEF PipelineInv, Hands
    <2>4. finalizer' \in Hands /\ \A g \in Finalizers: finalizer'[g].env # Absent => Admitted
        BY <2>1, FinalizerGoes DEF Places
    <2> QED
        BY <1>0, <1>1, <2>2, <2>3, <2>4, HandsKept
<1> QED
    BY <1>2, <1>3, <1>4, <1>5, <1>6, <1>7 DEF Finalize

\* A finalizer that is killed or fails leaves its directory, and no index.
LEMMA StopSteps ==
    ASSUME PipelineInv, NEW f \in Finalizers, NEW torn, Stop(f, torn)
    PROVE  PipelineInv'
<1>1. UNCHANGED recordVars /\ staged' = staged /\ UNCHANGED consumer
    BY DEF Stop, recordVars, collectorVars, processVars, stagingVars
<1>2. BundleShape' /\ bundle'.index = bundle.index
    <2>1. \/ UNCHANGED bundle
          \/ bundle' = [bundle EXCEPT !.env = Bad]
          \/ bundle' = [bundle EXCEPT !.payload[torn] = Bad]
        BY DEF Stop
    <2> QED
        BY <2>1, BundleKeepsIndex DEF PipelineInv, BundleShape
<1>3. finalizer' \in Hands /\ \A g \in Finalizers: finalizer'[g].env # Absent => Admitted
    BY FinalizerGoes DEF Stop, Places
<1> QED
    BY <1>1, <1>2, <1>3, HandsKept DEF PipelineInv

\* Damage makes a stage or an index bad, never another one.
LEMMA HarmSteps ==
    ASSUME PipelineInv, HarmStaging \/ HarmBundle
    PROVE  PipelineInv'
<1>1. UNCHANGED recordVars /\ UNCHANGED <<consumer, finalizer>>
    BY DEF HarmStaging, HarmBundle, recordVars, collectorVars, processVars, stagingVars
<1>2. CASE HarmStaging
    <2>1. staged' \in {staged, Bad} /\ staged # Absent /\ UNCHANGED bundle
        BY <1>2 DEF HarmStaging, Harm
    <2> QED
        BY <1>1, <2>1, HandsKept DEF PipelineInv, BundleShape
<1>3. CASE HarmBundle
    <2>1. staged' = staged
        BY <1>3 DEF HarmBundle, collectorVars, stagingVars
    <2>2. CASE bundle.index # Absent /\ bundle' = [bundle EXCEPT !.index = Bad]
        <3>1. BundleShape' /\ bundle'.index = Bad
            BY <2>2, BundleIndexed DEF PipelineInv
        <3> QED
            BY <1>1, <2>1, <2>2, <3>1, HandsKept DEF PipelineInv
    <2>3. CASE \/ bundle' = [bundle EXCEPT !.env = Bad]
               \/ \E a \in Artifacts: bundle' = [bundle EXCEPT !.payload[a] = Bad]
        <3>1. BundleShape' /\ bundle'.index = bundle.index
            BY <2>3, BundleKeepsIndex DEF PipelineInv
        <3> QED
            BY <1>1, <2>1, <3>1, HandsKept DEF PipelineInv
    <2> QED
        BY <1>3, <2>2, <2>3 DEF HarmBundle
<1> QED
    BY <1>2, <1>3

\* What passes verification is the whole of the collection.
LEMMA VerifySteps ==
    ASSUME PipelineInv, Verify
    PROVE  PipelineInv'
<1>1. UNCHANGED recordVars /\ UNCHANGED <<staged, finalizer, bundle>>
    BY DEF Verify, recordVars, collectorVars, processVars, stagingVars
<1>2. bundle.index = Final /\ bundle.env = Final /\ Admitted
    BY DEF Verify, PipelineInv
<1>3. consumer' = [at |-> "verified", env |-> Final, payload |-> bundle.payload]
    BY <1>2 DEF Verify
<1>4. ASSUME NEW a \in Artifacts
      PROVE  bundle.payload[a] = captured[a] /\ captured[a] # Absent
    <2>1. bundle.payload[a] = Final.artifacts[a]
        BY <1>2 DEF Verify, Intact
    <2>2. captured[a] # Absent
        BY <1>2, CollectedFields DEF Admitted, Finalizable
    <2> QED
        BY <2>1, <2>2, FinalFields
<1>5. consumer'.at = "verified" /\ consumer'.env = Final /\ ConsumerShape'
    BY <1>3 DEF ConsumerShape
<1>6. \A a \in Artifacts: consumer'.payload[a] = captured[a] /\ captured[a] # Absent
    BY <1>3, <1>4
<1>7. UNCHANGED <<adapter, captured, pc>>
    BY <1>1 DEF recordVars
<1> QED
    BY <1>1, <1>2, <1>5, <1>6, <1>7, RecordFixed DEF PipelineInv, BundleShape, Hands

LEMMA LinkSteps ==
    ASSUME PipelineInv, Link
    PROVE  PipelineInv'
<1>1. UNCHANGED recordVars /\ UNCHANGED <<staged, finalizer, bundle>>
    BY DEF Link, recordVars, collectorVars, processVars, stagingVars
<1>2. consumer.at = "verified" /\ consumer.env = Final
    BY DEF Link, PipelineInv
<1>3. PICK at, env, bytes: consumer = [at |-> at, env |-> env, payload |-> bytes]
    BY DEF PipelineInv, ConsumerShape
<1>4. PICK verdict \in {"accepted", "declined"}:
        /\ consumer' = [consumer EXCEPT !.at = verdict]
        /\ verdict = "accepted" => bundle.env = consumer.env /\ Qualified(bundle.env)
    BY DEF Link
<1>5. consumer' = [at |-> verdict, env |-> env, payload |-> bytes]
    BY <1>3, <1>4
<1>6. /\ consumer'.at = verdict /\ consumer'.env = consumer.env
      /\ consumer'.payload = consumer.payload /\ ConsumerShape'
    BY <1>3, <1>5 DEF ConsumerShape
<1>7. verdict = "accepted" => Qualified(Final)
    BY <1>2, <1>4
<1>8. UNCHANGED <<adapter, captured, pc>>
    BY <1>1 DEF recordVars
<1> QED
    BY <1>1, <1>2, <1>6, <1>7, <1>8, RecordFixed DEF PipelineInv, BundleShape, Hands, Qualified

LEMMA PipelineInvariant == Spec => []PipelineInv
<1>1. PipelineInv /\ [Next]_vars => PipelineInv'
    <2> SUFFICES ASSUME PipelineInv, [Next]_vars PROVE PipelineInv'
        OBVIOUS
    <2>1. CASE UNCHANGED vars
        <3>1. UNCHANGED recordVars /\ UNCHANGED <<staged, finalizer, bundle, consumer>>
            BY <2>1 DEF vars, recordVars, collectorVars, processVars, stagingVars, storeVars
        <3> QED
            BY <3>1, HandsKept DEF PipelineInv, BundleShape
    <2>2. CASE Next
        BY <2>2, CollectSteps, FinalizeSteps, StopSteps, HarmSteps, VerifySteps, LinkSteps
           DEF Next
    <2> QED
        BY <2>1, <2>2
<1> QED
    BY PipelineStarts, <1>1, PTL DEF Spec

-----------------------------------------------------------------------------
\* What verify.py confirms is what the collector observed, no artifact missing,
\* damaged or exchanged on the way, whatever happens to the files.
THEOREM VerifiedAlwaysWhatWasRun == Spec => []VerifiedIsWhatWasRun
<1>1. PipelineInv => VerifiedIsWhatWasRun
    BY DEF PipelineInv, VerifiedIsWhatWasRun, Final
<1> QED
    BY <1>1, PipelineInvariant, PTL

\* Evidence that evaluate_catalog_link accepts comes from a run that deserves
\* it: for every adapter, any receipts, any number of edits, finalizers and
\* damaged files.
THEOREM AcceptedAlwaysEarned == Spec => []AcceptedIsEarned
<1>1. PipelineInv => AcceptedIsEarned
    <2> SUFFICES ASSUME PipelineInv, consumer.at = "accepted" PROVE Earned
        BY DEF AcceptedIsEarned
    <2>1. adapter \in Adapters /\ Admitted /\ Qualified(Final)
        BY DEF PipelineInv
    <2>2. PassedOutcome(ThisRecord)
        BY <2>1, FinalFields DEF Qualified, PassedOutcome
    <2>3. ContentAt(before) = ContentAt(after)
        BY <2>1, CollectedFields DEF Admitted, Finalizable
    <2> QED
        BY <2>1, <2>2, <2>3, RecordSincere DEF Earned, ExitedAsExpected, ReliedAccepted
<1> QED
    BY <1>1, PipelineInvariant, PTL

-----------------------------------------------------------------------------
(***************************************************************************)
(* The collection itself.  A log is cut short only by a loop that gave up, *)
(* and the loop gives up only on a command that a deadline or a signal to  *)
(* the collector had it terminate.                                         *)
(***************************************************************************)
ForcedLoop == loop \in {"terminating", "killed", "broken"} => timedOut \/ forwarded
Captures == [AllArtifacts -> {Absent, "whole", "cut"} \cup Contents]

CollectionInv ==
    /\ CollectorTypeOK
    /\ captured \in Captures
    /\ ForcedLoop
    /\ WholeUnlessForced

LEMMA CollectionStarts == Init => CollectionInv
<1> SUFFICES ASSUME Init PROVE CollectionInv
    OBVIOUS
<1>1. captured = NoPayload /\ loop = "waiting"
    BY DEF Init, CollectorInit
<1>2. captured \in Captures /\ captured["log"] # "cut"
    BY <1>1, AbsentAssumption DEF NoPayload, Captures, AllArtifacts
<1>3. CollectorTypeOK
    <2>1. \A a \in AllArtifacts: captured[a] = Absent
        BY <1>1 DEF NoPayload
    <2>2. captured["log"] = Absent /\ \A a \in Attachments: captured[a] = Absent
        BY <2>1 DEF AllArtifacts
    <2>3. {timedOut, forwarded, exceeded} \subseteq BOOLEAN
        BY DEF Init, CollectorInit
    <2>4. {checkout, before, after} \subseteq 0..MaxEdits
        BY MaxEditsAssumption DEF Init, CollectorInit
    <2> QED
        BY <2>2, <2>3, <2>4 DEF Init, CollectorInit, CollectorTypeOK
<1> QED
    BY <1>1, <1>2, <1>3 DEF CollectionInv, ForcedLoop, WholeUnlessForced

\* The command, its descendants and whoever edits the checkout.
LEMMA SurroundingsKeep ==
    ASSUME CollectionInv, Surroundings
    PROVE  CollectionInv'
<1>1. UNCHANGED <<adapter, loop, timedOut, forwarded, captured, before, after, todo>>
    BY DEF Surroundings, Fork, LetGo, Exit, Flood, Edit, KillCollector, processVars, stagingVars
<1>2. child' \in {child} \cup Exits /\ heirs' \subseteq heirs \cup Descendants
    BY DEF Surroundings, Fork, LetGo, Exit, Flood, Edit, KillCollector, processVars
<1>3. exceeded' \in {exceeded, TRUE} /\ pc' \in {pc, "killed"}
    BY DEF Surroundings, Fork, LetGo, Exit, Flood, Edit, KillCollector, processVars
<1>4. checkout' \in 0..MaxEdits
    BY MaxEditsAssumption DEF CollectionInv, CollectorTypeOK, Surroundings, Fork, LetGo, Exit,
       Flood, Edit, KillCollector
<1>5. {timedOut, forwarded, exceeded}' \subseteq BOOLEAN
    BY <1>1, <1>3 DEF CollectionInv, CollectorTypeOK
<1>6. CollectorTypeOK'
    BY <1>1, <1>2, <1>3, <1>4, <1>5 DEF CollectionInv, CollectorTypeOK
<1> QED
    BY <1>1, <1>6 DEF CollectionInv, Captures, ForcedLoop, WholeUnlessForced

\* The checkout is sampled, and the command is started or is not.
LEMMA PreflightKeeps ==
    ASSUME CollectionInv, NEW end, Preflight(end)
    PROVE  CollectionInv'
<1>1. UNCHANGED <<adapter, heirs, loop, timedOut, forwarded, exceeded, checkout, after, todo>>
    BY DEF Preflight
<1>2. captured' = captured \/ captured' = [captured EXCEPT !["log"] = "whole"]
    BY DEF Preflight
<1>3. /\ captured' \in Captures
      /\ captured'["log"] \in {captured["log"], "whole"}
      /\ \A a \in Attachments: captured'[a] = captured[a]
    BY <1>2 DEF CollectionInv, Captures, AllArtifacts, Attachments
<1>4. {checkout, before, after}' \subseteq 0..MaxEdits
    BY <1>1 DEF Preflight, CollectionInv, CollectorTypeOK
<1>5. {timedOut, forwarded, exceeded}' \subseteq BOOLEAN
    BY <1>1 DEF CollectionInv, CollectorTypeOK
<1>6. child' \in {child, "running", "none"} /\ pc' \in {"running", "sampling", "refused"}
    BY DEF Preflight
<1>7. CollectorTypeOK'
    BY <1>1, <1>3, <1>4, <1>5, <1>6 DEF CollectionInv, CollectorTypeOK
<1> QED
    BY <1>1, <1>3, <1>7 DEF CollectionInv, ForcedLoop, WholeUnlessForced

\* A signal arrives, the deadline passes, the loop kills, gives up or raises.
LEMMA LoopKeeps ==
    ASSUME CollectionInv, Forward \/ Notice \/ Deadline \/ Kill \/ GiveUp \/ WaitRaises
    PROVE  CollectionInv'
<1>1. UNCHANGED <<adapter, exceeded, checkout, before, after, captured, todo>>
    BY DEF Forward, Notice, Deadline, Kill, GiveUp, WaitRaises, processVars, stagingVars
<1>2. /\ child' \in {child, "dying"} /\ heirs' \subseteq heirs
      /\ pc' \in {pc, "raised"}
      /\ loop' \in {loop, "terminating", "killed", "broken"}
    BY DEF Forward, Notice, Deadline, Kill, GiveUp, WaitRaises, processVars
<1>3. timedOut' \in {timedOut, TRUE} /\ forwarded' \in {forwarded, TRUE}
    BY DEF Forward, Notice, Deadline, Kill, GiveUp, WaitRaises, processVars
<1>4. ForcedLoop'
    BY DEF Forward, Notice, Deadline, Kill, GiveUp, WaitRaises, processVars, CollectionInv,
           ForcedLoop
<1>5. {timedOut, forwarded, exceeded}' \subseteq BOOLEAN
    BY <1>1, <1>3 DEF CollectionInv, CollectorTypeOK
<1>6. CollectorTypeOK'
    BY <1>1, <1>2, <1>5 DEF CollectionInv, CollectorTypeOK
<1>7. timedOut \/ forwarded => (timedOut \/ forwarded)'
    BY DEF Forward, Notice, Deadline, Kill, GiveUp, WaitRaises, processVars
<1>8. WholeUnlessForced'
    BY <1>1, <1>7 DEF CollectionInv, WholeUnlessForced
<1>9. (captured \in Captures)'
    BY <1>1 DEF CollectionInv, Captures
<1> QED
    BY <1>4, <1>6, <1>8, <1>9 DEF CollectionInv

\* The observation: a log is cut only where the loop gave up on its pipes.
LEMMA ReapKeeps ==
    ASSUME CollectionInv, Reap
    PROVE  CollectionInv'
<1>1. /\ UNCHANGED <<adapter, child, timedOut, forwarded, exceeded, checkout, before, after, todo>>
      /\ loop' = "over" /\ pc' = "sampling" /\ heirs' = {}
    BY DEF Reap, Observe
<1>2. PICK log \in {Absent, "whole", "cut"}:
        /\ captured' = [captured EXCEPT !["log"] = log]
        /\ log = "cut" => heirs # {}
    BY AbsentAssumption DEF Reap, Observe
<1>3. /\ captured' \in Captures /\ captured'["log"] = log
      /\ \A a \in Attachments: captured'[a] = captured[a]
    BY <1>2 DEF CollectionInv, Captures, AllArtifacts, Attachments
<1>4. log = "cut" => timedOut \/ forwarded
    <2>1. log = "cut" => loop \in {"terminating", "killed", "broken"}
        BY <1>2 DEF Reap
    <2> QED
        BY <2>1 DEF CollectionInv, ForcedLoop
<1>5. {timedOut, forwarded, exceeded}' \subseteq BOOLEAN
    BY <1>1 DEF CollectionInv, CollectorTypeOK
<1>6. CollectorTypeOK'
    BY <1>1, <1>3, <1>5 DEF CollectionInv, CollectorTypeOK
<1> QED
    BY <1>1, <1>3, <1>4, <1>6 DEF CollectionInv, ForcedLoop, WholeUnlessForced

\* Staging captures attachments, never the log again.
LEMMA StagingKeeps ==
    ASSUME CollectionInv, Staging
    PROVE  CollectionInv'
<1>1. UNCHANGED <<adapter, processVars, checkout, before>>
    BY DEF Staging, Sample, Capture, Stage, StoreFails, StageRaises
<1>2. /\ after' \in {after, checkout} /\ todo' \subseteq todo \cup Attachments
      /\ pc' \in {pc, "lost", "capturing", "staged", "raised"}
    BY DEF Staging, Sample, Capture, Stage, StoreFails, StageRaises, stagingVars,
           AttachmentsOf, Attachments
<1>3. /\ captured' \in Captures /\ captured'["log"] = captured["log"]
      /\ \A a \in Attachments: captured'[a] \in {captured[a]} \cup Contents \cup {Absent}
    <2>1. CASE \E a \in Attachments: \E content \in Contents \cup {Absent}: Capture(a, content)
        <3>1. PICK a \in Attachments, content \in Contents \cup {Absent}:
                captured' = [captured EXCEPT ![a] = content]
            BY <2>1 DEF Capture
        <3> QED
            BY <3>1 DEF CollectionInv, Captures, AllArtifacts, Attachments
    <2>2. CASE ~ \E a \in Attachments: \E content \in Contents \cup {Absent}: Capture(a, content)
        <3>1. captured' = captured
            BY <2>2 DEF Staging, Sample, Stage, StoreFails, StageRaises, stagingVars
        <3> QED
            BY <3>1 DEF CollectionInv
    <2> QED
        BY <2>1, <2>2
<1>4. {timedOut, forwarded, exceeded}' \subseteq BOOLEAN
    BY <1>1 DEF CollectionInv, CollectorTypeOK, processVars
<1>5. CollectorTypeOK'
    BY <1>1, <1>2, <1>3, <1>4 DEF CollectionInv, CollectorTypeOK, processVars
<1> QED
    BY <1>1, <1>3, <1>5 DEF CollectionInv, ForcedLoop, WholeUnlessForced, processVars

\* Finalizers, damage and consumers leave what was observed alone.
LEMMA StoreKeepsCollection ==
    ASSUME CollectionInv, UNCHANGED <<adapter, processVars, checkout, before, after, pc, todo, captured>>
    PROVE  CollectionInv'
BY DEF CollectionInv, CollectorTypeOK, Captures, ForcedLoop, WholeUnlessForced, processVars

LEMMA CollectionInvariant == Spec => []CollectionInv
<1>1. CollectionInv /\ [Next]_vars => CollectionInv'
    <2> SUFFICES ASSUME CollectionInv, [Next]_vars PROVE CollectionInv'
        OBVIOUS
    <2>1. CASE Collect
        <3>1. CollectorNext
            BY <2>1 DEF Collect
        <3> QED
            BY <3>1, SurroundingsKeep, PreflightKeeps, LoopKeeps, ReapKeeps, StagingKeeps
               DEF CollectorNext, Loop
    <2>2. CASE ~Collect
        <3>1. UNCHANGED <<adapter, processVars, checkout, before, after, pc, todo, captured>>
            BY <2>2 DEF Next, vars, collectorVars, stagingVars, Finalize, ReadStaging,
               CheckSources, Claim, Copy, CheckCopies, WriteEnvelope, Publish, Finish, Stop,
               OnlyFinalizer, HarmStaging, HarmBundle, Verify, Link
        <3> QED
            BY <3>1, StoreKeepsCollection
    <2> QED
        BY <2>1, <2>2
<1> QED
    BY CollectionStarts, <1>1, PTL DEF Spec

\* A log that run_child reports as complete was cut short only by a deadline or
\* by a signal to the collector, whatever descendants keep the pipes.
THEOREM CutOnlyWhenForced == Spec => []WholeUnlessForced
<1>1. CollectionInv => WholeUnlessForced
    BY DEF CollectionInv
<1> QED
    BY <1>1, CollectionInvariant, PTL

-----------------------------------------------------------------------------
(***************************************************************************)
(* The finalizers of one run.  The directory of the run lets one of them   *)
(* in, and while it writes there is no index; what it has written is what  *)
(* it was given, as long as nothing but these programs touches the files.  *)
(***************************************************************************)
Writing(f) == finalizer[f].at \in {"copying", "copied", "described"}
WritesWhole(f) ==
    /\ finalizer[f].at \in {"copied", "described"} => Intact(bundle.payload, finalizer[f].env)
    /\ finalizer[f].at = "described" => bundle.env = finalizer[f].env

WriterInv ==
    /\ \A f \in Finalizers: Writing(f) => bundle.claimed /\ bundle.index = Absent
    /\ \A f, g \in Finalizers: Writing(f) /\ Writing(g) => f = g
    /\ bundle.index # Absent => bundle.claimed
    /\ damage = 0 => \A f \in Finalizers: WritesWhole(f)
    /\ bundle.claimed \in BOOLEAN
    /\ damage \in 0..MaxDamage
    /\ consumer.at \in {"idle", "verified", "accepted", "declined"}

LEMMA WriterStarts == Init => WriterInv
<1> SUFFICES ASSUME Init PROVE WriterInv
    OBVIOUS
<1>1. \A f \in Finalizers: finalizer[f].at = "idle"
    BY DEF Init, Waiting
<1>2. bundle.index = Absent /\ bundle.claimed = FALSE /\ consumer.at = "idle" /\ damage = 0
    BY DEF Init, NoBundle, NoVerification
<1>3. \A f \in Finalizers: ~Writing(f) /\ WritesWhole(f)
    BY <1>1 DEF Writing, WritesWhole
<1>4. damage \in 0..MaxDamage
    BY <1>2, MaxDamageAssumption
<1>5. bundle.claimed \in BOOLEAN
    BY <1>2
<1> QED
    BY <1>2, <1>3, <1>4, <1>5 DEF WriterInv

\* What an update of the record of one finalizer, or of the bundle, leaves.
LEMMA OneFinalizerGoes ==
    ASSUME finalizer \in Hands, NEW f \in Finalizers, NEW place, Goto(f, place)
    PROVE  /\ finalizer'[f].at = place /\ finalizer'[f].env = finalizer[f].env
           /\ \A g \in Finalizers \ {f}: finalizer'[g] = finalizer[g]
BY DEF Goto, Hands

LEMMA BundleFields ==
    ASSUME BundleShape, NEW x, NEW a
    PROVE  /\ bundle' = [bundle EXCEPT !.claimed = x] =>
                  /\ bundle'.claimed = x
                  /\ bundle'.payload = bundle.payload /\ bundle'.env = bundle.env
                  /\ bundle'.index = bundle.index
           /\ bundle' = [bundle EXCEPT !.payload[a] = x] =>
                  /\ bundle'.claimed = bundle.claimed /\ bundle'.env = bundle.env
                  /\ bundle'.index = bundle.index
           /\ bundle' = [bundle EXCEPT !.env = x] =>
                  /\ bundle'.claimed = bundle.claimed
                  /\ bundle'.payload = bundle.payload /\ bundle'.env = x
                  /\ bundle'.index = bundle.index
           /\ bundle' = [bundle EXCEPT !.index = x] =>
                  /\ bundle'.claimed = bundle.claimed
                  /\ bundle'.payload = bundle.payload /\ bundle'.env = bundle.env
                  /\ bundle'.index = x
<1> PICK claimed, bytes, env, index:
        bundle = [claimed |-> claimed, payload |-> bytes, env |-> env, index |-> index]
    BY DEF BundleShape
<1> QED
    OBVIOUS

\* A finalizer that is not writing after a step that leaves the bundle alone.
LEMMA StandsAside ==
    ASSUME WriterInv, NEW f \in Finalizers, ~Writing(f)',
           \A g \in Finalizers \ {f}: finalizer'[g] = finalizer[g],
           UNCHANGED <<adapter, bundle, damage, consumer>>
    PROVE  WriterInv'
<1>1. Artifacts' = Artifacts
    BY DEF Artifacts
<1>2. \A g \in Finalizers: Writing(g)' => g # f /\ Writing(g)
    BY DEF Writing
<1>3. WritesWhole(f)'
    BY DEF WritesWhole, Writing
<1>4. \A g \in Finalizers \ {f}: WritesWhole(g) => WritesWhole(g)'
    BY <1>1 DEF WritesWhole, Intact
<1> QED
    BY <1>2, <1>3, <1>4 DEF WriterInv

\* The one that is writing goes on, and the others stay where they are.
LEMMA WritesOn ==
    ASSUME WriterInv, NEW f \in Finalizers, Writing(f),
           \A g \in Finalizers \ {f}: finalizer'[g] = finalizer[g],
           UNCHANGED <<damage, consumer>>, bundle'.claimed = bundle.claimed,
           Writing(f)' => bundle'.index = bundle.index,
           damage = 0 => WritesWhole(f)'
    PROVE  WriterInv'
<1>1. \A g \in Finalizers: Writing(g)' => g = f
    BY DEF WriterInv, Writing
<1>2. \A g \in Finalizers \ {f}: WritesWhole(g)'
    BY <1>1 DEF WritesWhole, Writing
<1>3. bundle.claimed /\ bundle.index = Absent
    BY DEF WriterInv
<1>4. damage = 0 => \A g \in Finalizers: WritesWhole(g)'
    BY <1>2
<1> QED
    BY <1>1, <1>3, <1>4 DEF WriterInv

LEMMA FinalizeWrites ==
    ASSUME PipelineInv, WriterInv, NEW f \in Finalizers, Finalize(f)
    PROVE  WriterInv'
<1>0. UNCHANGED <<adapter, damage, consumer>> /\ Artifacts' = Artifacts
    BY DEF Finalize, ReadStaging, CheckSources, Claim, Copy, CheckCopies, WriteEnvelope,
           Publish, Finish, OnlyFinalizer, collectorVars, Artifacts
<1>1. finalizer \in Hands /\ BundleShape
    BY DEF PipelineInv
<1>2. CASE ReadStaging(f) \/ CheckSources(f) \/ Finish(f)
    <2>1. UNCHANGED bundle
        BY <1>2 DEF ReadStaging, CheckSources, Finish, OnlyFinalizer
    <2>2. /\ finalizer'[f].at \in {"read", "checked", "refused", "done"}
          /\ \A g \in Finalizers \ {f}: finalizer'[g] = finalizer[g]
        <3>1. CASE \E place \in {"read", "checked", "refused", "done"}: Goto(f, place)
            BY <1>1, <3>1, OneFinalizerGoes
        <3>2. CASE finalizer' = [finalizer EXCEPT ![f] =
                      [at |-> "read", env |-> Finalized(staged), todo |-> Artifacts]]
            BY <1>1, <3>2 DEF Hands
        <3> QED
            BY <1>2, <3>1, <3>2 DEF ReadStaging, CheckSources, Finish
    <2>3. ~Writing(f)'
        BY <2>2 DEF Writing
    <2> QED
        BY <1>0, <2>1, <2>2, <2>3, StandsAside
<1>3. CASE Claim(f)
    <2>1. CASE bundle.claimed
        <3>1. Goto(f, "refused") /\ UNCHANGED bundle
            BY <1>3, <2>1 DEF Claim
        <3>2. ~Writing(f)' /\ \A g \in Finalizers \ {f}: finalizer'[g] = finalizer[g]
            BY <1>1, <3>1, OneFinalizerGoes DEF Writing
        <3> QED
            BY <1>0, <3>1, <3>2, StandsAside
    <2>2. CASE ~bundle.claimed
        <3>1. Goto(f, "copying") /\ bundle' = [bundle EXCEPT !.claimed = TRUE]
            BY <1>3, <2>2 DEF Claim
        <3>2. /\ finalizer'[f].at = "copying"
              /\ \A g \in Finalizers \ {f}: finalizer'[g] = finalizer[g]
            BY <1>1, <3>1, OneFinalizerGoes
        <3>3. bundle'.claimed = TRUE /\ bundle'.index = bundle.index
            BY <1>1, <3>1, BundleFields
        <3>4. bundle.index = Absent /\ \A g \in Finalizers: ~Writing(g)
            BY <2>2 DEF WriterInv
        <3>5. \A g \in Finalizers: Writing(g)' => g = f
            BY <3>2, <3>4 DEF Writing
        <3>6. \A g \in Finalizers: WritesWhole(g)'
            BY <3>2, <3>5 DEF WritesWhole, Writing
        <3> QED
            BY <1>0, <3>3, <3>4, <3>5, <3>6 DEF WriterInv
    <2> QED
        BY <2>1, <2>2
<1>4. ASSUME NEW a \in Artifacts, Copy(f, a)
      PROVE  WriterInv'
    <2>1. CASE Goto(f, "refused") /\ UNCHANGED bundle
        <3>1. ~Writing(f)' /\ \A g \in Finalizers \ {f}: finalizer'[g] = finalizer[g]
            BY <1>1, <2>1, OneFinalizerGoes DEF Writing
        <3> QED
            BY <1>0, <2>1, <3>1, StandsAside
    <2>2. CASE /\ bundle' = [bundle EXCEPT !.payload[a] = payload[a]]
               /\ finalizer' = [finalizer EXCEPT ![f].todo = @ \ {a}]
        <3>1. finalizer[f].at = "copying"
            BY <1>4 DEF Copy, At
        <3>2. /\ finalizer'[f].at = "copying"
              /\ \A g \in Finalizers \ {f}: finalizer'[g] = finalizer[g]
            BY <1>1, <2>2, <3>1 DEF Hands
        <3>3. bundle'.claimed = bundle.claimed /\ bundle'.index = bundle.index
            BY <1>1, <2>2, BundleFields
        <3>4. Writing(f) /\ WritesWhole(f)'
            BY <3>1, <3>2 DEF Writing, WritesWhole
        <3> QED
            BY <1>0, <3>2, <3>3, <3>4, WritesOn DEF WriterInv
    <2> QED
        BY <1>4, <2>1, <2>2 DEF Copy
<1>5. CASE CheckCopies(f)
    <2>1. finalizer[f].at = "copying" /\ UNCHANGED bundle
        BY <1>5 DEF CheckCopies, At, OnlyFinalizer
    <2>2. CASE Intact(bundle.payload, finalizer[f].env)
        <3>1. Goto(f, "copied")
            BY <1>5, <2>2 DEF CheckCopies
        <3>2. /\ finalizer'[f].at = "copied" /\ finalizer'[f].env = finalizer[f].env
              /\ \A g \in Finalizers \ {f}: finalizer'[g] = finalizer[g]
            BY <1>1, <3>1, OneFinalizerGoes
        <3>3. Writing(f) /\ WritesWhole(f)'
            BY <1>0, <2>1, <2>2, <3>2 DEF Writing, WritesWhole, Intact
        <3> QED
            BY <1>0, <2>1, <3>2, <3>3, WritesOn DEF WriterInv
    <2>3. CASE ~Intact(bundle.payload, finalizer[f].env)
        <3>1. Goto(f, "refused")
            BY <1>5, <2>3 DEF CheckCopies
        <3>2. ~Writing(f)' /\ \A g \in Finalizers \ {f}: finalizer'[g] = finalizer[g]
            BY <1>1, <3>1, OneFinalizerGoes DEF Writing
        <3> QED
            BY <1>0, <2>1, <3>2, StandsAside
    <2> QED
        BY <2>2, <2>3
<1>6. CASE WriteEnvelope(f)
    <2>1. finalizer[f].at = "copied" /\ Goto(f, "described")
          /\ bundle' = [bundle EXCEPT !.env = finalizer[f].env]
        BY <1>6 DEF WriteEnvelope, At
    <2>2. /\ finalizer'[f].at = "described" /\ finalizer'[f].env = finalizer[f].env
          /\ \A g \in Finalizers \ {f}: finalizer'[g] = finalizer[g]
        BY <1>1, <2>1, OneFinalizerGoes
    <2>3. /\ bundle'.claimed = bundle.claimed /\ bundle'.index = bundle.index
          /\ bundle'.payload = bundle.payload /\ bundle'.env = finalizer[f].env
        BY <1>1, <2>1, BundleFields
    <2>4. damage = 0 => Intact(bundle.payload, finalizer[f].env)
        BY <2>1 DEF WriterInv, WritesWhole
    <2>5. damage = 0 => WritesWhole(f)'
        BY <1>0, <2>2, <2>3, <2>4 DEF WritesWhole, Intact
    <2>6. Writing(f)
        BY <2>1 DEF Writing
    <2> QED
        BY <1>0, <2>2, <2>3, <2>5, <2>6, WritesOn DEF WriterInv
<1>7. CASE Publish(f)
    <2>1. finalizer[f].at = "described" /\ Goto(f, "published")
          /\ bundle' = [bundle EXCEPT !.index = finalizer[f].env]
        BY <1>7 DEF Publish, At
    <2>2. /\ finalizer'[f].at = "published"
          /\ \A g \in Finalizers \ {f}: finalizer'[g] = finalizer[g]
        BY <1>1, <2>1, OneFinalizerGoes
    <2>3. bundle'.claimed = bundle.claimed
        BY <1>1, <2>1, BundleFields
    <2>4. Writing(f) /\ ~Writing(f)' /\ WritesWhole(f)'
        BY <2>1, <2>2 DEF Writing, WritesWhole
    <2> QED
        BY <1>0, <2>2, <2>3, <2>4, WritesOn
<1> QED
    BY <1>2, <1>3, <1>4, <1>5, <1>6, <1>7 DEF Finalize

\* A finalizer that stops leaves what it was writing, and writes no more.
LEMMA StopWrites ==
    ASSUME PipelineInv, WriterInv, NEW f \in Finalizers, NEW torn, Stop(f, torn)
    PROVE  WriterInv'
<1>0. UNCHANGED <<adapter, damage, consumer>>
    BY DEF Stop, collectorVars
<1>1. finalizer \in Hands /\ BundleShape
    BY DEF PipelineInv
<1>2. /\ finalizer'[f].at = "stopped"
      /\ \A g \in Finalizers \ {f}: finalizer'[g] = finalizer[g]
    BY <1>1, OneFinalizerGoes DEF Stop
<1>3. ~Writing(f)' /\ WritesWhole(f)'
    BY <1>2 DEF Writing, WritesWhole
<1>4. CASE torn = "none"
    BY <1>0, <1>2, <1>3, <1>4, StandsAside DEF Stop
<1>5. CASE torn # "none"
    <2>1. Writing(f)
        BY <1>5 DEF Stop, At, Writing
    <2>2. \/ bundle' = [bundle EXCEPT !.env = Bad]
          \/ bundle' = [bundle EXCEPT !.payload[torn] = Bad]
        BY <1>5 DEF Stop
    <2>3. bundle'.claimed = bundle.claimed
        BY <1>1, <2>2, BundleFields
    <2> QED
        BY <1>0, <1>2, <1>3, <2>1, <2>3, WritesOn
<1> QED
    BY <1>4, <1>5

\* Damage changes no file's existence and nobody's place.
LEMMA HarmWrites ==
    ASSUME PipelineInv, WriterInv, HarmStaging \/ HarmBundle
    PROVE  WriterInv'
<1>1. UNCHANGED <<finalizer, consumer>>
    BY DEF HarmStaging, HarmBundle
<1>2. damage' \in 0..MaxDamage /\ damage' # 0
    BY MaxDamageAssumption DEF HarmStaging, HarmBundle, Harm, WriterInv
<1>3. /\ bundle'.claimed = bundle.claimed
      /\ bundle'.index = bundle.index \/ bundle.index # Absent
    <2>1. CASE HarmStaging
        BY <2>1 DEF HarmStaging
    <2>2. CASE HarmBundle
        <3>1. \/ bundle.index # Absent /\ bundle' = [bundle EXCEPT !.index = Bad]
              \/ bundle' = [bundle EXCEPT !.env = Bad]
              \/ \E a \in Artifacts: bundle' = [bundle EXCEPT !.payload[a] = Bad]
            BY <2>2 DEF HarmBundle
        <3> QED
            BY <3>1, BundleFields DEF PipelineInv
    <2> QED
        BY <2>1, <2>2
<1>4. \A f \in Finalizers: Writing(f)' <=> Writing(f)
    BY <1>1 DEF Writing
<1> QED
    BY <1>1, <1>2, <1>3, <1>4 DEF WriterInv

LEMMA WriterInvariant == Spec => [](PipelineInv /\ CollectionInv /\ WriterInv)
<1>1. PipelineInv /\ WriterInv /\ [Next]_vars => WriterInv'
    <2> SUFFICES ASSUME PipelineInv, WriterInv, [Next]_vars PROVE WriterInv'
        OBVIOUS
    <2>1. CASE Collect \/ Verify \/ Link \/ UNCHANGED vars
        <3>1. UNCHANGED <<finalizer, bundle, damage>>
            BY <2>1 DEF Collect, Verify, Link, storeVars, vars
        <3>2. consumer'.at \in {consumer.at, "verified", "accepted", "declined"}
            <4>1. PICK at, env, bytes: consumer = [at |-> at, env |-> env, payload |-> bytes]
                BY DEF PipelineInv, ConsumerShape
            <4>2. CASE Link
                <5>1. PICK verdict \in {"accepted", "declined"}:
                        consumer' = [consumer EXCEPT !.at = verdict]
                    BY <4>2 DEF Link
                <5> QED
                    BY <4>1, <5>1
            <4> QED
                BY <2>1, <4>2 DEF Collect, Verify, storeVars, vars
        <3>3. adapter' = adapter
            BY <2>1 DEF Collect, Verify, Link, vars, collectorVars, CollectorNext,
               Surroundings, Loop, Staging, Fork, LetGo, Exit, Flood, Edit, Preflight, Forward,
               Notice, Deadline, Kill, GiveUp, Reap, Observe, WaitRaises, Sample, Capture, Stage,
               StoreFails, StageRaises, KillCollector
        <3>4. Artifacts' = Artifacts
            BY <3>3 DEF Artifacts
        <3>5. \A f \in Finalizers: (Writing(f)' <=> Writing(f)) /\ (WritesWhole(f)' <=> WritesWhole(f))
            BY <3>1, <3>4 DEF Writing, WritesWhole, Intact
        <3> QED
            BY <3>1, <3>2, <3>5 DEF WriterInv
    <2> QED
        BY <2>1, FinalizeWrites, StopWrites, HarmWrites DEF Next
<1> QED
    BY WriterStarts, PipelineInvariant, CollectionInvariant, <1>1, PTL DEF Spec

\* Every variable of the pipeline holds a value of its kind.
THEOREM EvidenceTyped == Spec => []TypeOK
<1>1. PipelineInv /\ CollectionInv /\ WriterInv => TypeOK
    <2> SUFFICES ASSUME PipelineInv, CollectionInv, WriterInv PROVE TypeOK
        OBVIOUS
    <2>1. \A f \in Finalizers: finalizer[f].at \in Places /\ finalizer[f].todo \subseteq AllArtifacts
        BY DEF PipelineInv, Hands
    <2> QED
        BY <2>1 DEF CollectionInv, WriterInv, TypeOK, Places, AllArtifacts
<1> QED
    BY <1>1, WriterInvariant, PTL

\* The index comes last and stands for a whole bundle, whoever else finalizes
\* the same run and wherever each of them fails or is killed; no finalizer
\* changes a bundle that has its index.
THEOREM PublishedAlwaysWhole == Spec => PublishedWhole
<1> DEFINE Whole ==
        /\ bundle.index # Absent /\ damage' = damage => bundle' = bundle
        /\ bundle.index = Absent /\ bundle'.index # Absent /\ damage = 0 =>
               bundle.env = bundle'.index /\ Intact(bundle.payload, bundle'.index)
<1>1. PipelineInv /\ WriterInv /\ [Next]_vars => [Whole]_vars
    <2> SUFFICES ASSUME PipelineInv, WriterInv, Next PROVE Whole
        OBVIOUS
    <2>0. BundleShape /\ finalizer \in Hands /\ damage \in Nat
        BY MaxDamageAssumption DEF PipelineInv, WriterInv
    <2>1. CASE Collect \/ Verify \/ Link \/ HarmStaging
        BY <2>1 DEF Collect, Verify, Link, HarmStaging, storeVars
    <2>2. CASE HarmBundle
        <3>1. damage' # damage
            BY <2>0, <2>2 DEF HarmBundle, Harm
        <3>2. bundle.index = Absent => bundle'.index = bundle.index
            BY <2>0, <2>2, BundleFields DEF HarmBundle
        <3> QED
            BY <3>1, <3>2
    <2>3. ASSUME NEW f \in Finalizers, Finalize(f)
          PROVE  Whole
        <3>1. CASE Publish(f)
            <4>1. finalizer[f].at = "described" /\ bundle' = [bundle EXCEPT !.index = finalizer[f].env]
                BY <3>1 DEF Publish, At
            <4>2. bundle'.index = finalizer[f].env
                BY <2>0, <4>1, BundleFields
            <4>3. bundle.index = Absent
                BY <4>1 DEF WriterInv, Writing
            <4>4. damage = 0 =>
                    bundle.env = finalizer[f].env /\ Intact(bundle.payload, finalizer[f].env)
                BY <4>1 DEF WriterInv, WritesWhole
            <4> QED
                BY <4>2, <4>3, <4>4
        <3>2. CASE ~Publish(f)
            <4>1. bundle' = bundle \/ bundle.index = Absent
                BY <2>3, <3>2 DEF Finalize, ReadStaging, CheckSources, Claim, Copy, CheckCopies,
                   WriteEnvelope, Finish, OnlyFinalizer, WriterInv, Writing, At
            <4>2. bundle'.index = bundle.index
                <5>1. \/ bundle' = bundle
                      \/ bundle' = [bundle EXCEPT !.claimed = TRUE]
                      \/ \E a \in Artifacts: bundle' = [bundle EXCEPT !.payload[a] = payload[a]]
                      \/ bundle' = [bundle EXCEPT !.env = finalizer[f].env]
                    BY <2>3, <3>2 DEF Finalize, ReadStaging, CheckSources, Claim, Copy,
                       CheckCopies, WriteEnvelope, Finish, OnlyFinalizer
                <5> QED
                    BY <2>0, <5>1, BundleFields
            <4> QED
                BY <4>1, <4>2
        <3> QED
            BY <3>1, <3>2
    <2>4. ASSUME NEW f \in Finalizers, NEW torn, Stop(f, torn)
          PROVE  Whole
        <3>1. CASE torn = "none"
            BY <2>4, <3>1 DEF Stop
        <3>2. CASE torn # "none"
            <4>1. Writing(f)
                BY <2>4, <3>2 DEF Stop, At, Writing
            <4>2. bundle'.index = bundle.index
                <5>1. \/ bundle' = [bundle EXCEPT !.env = Bad]
                      \/ bundle' = [bundle EXCEPT !.payload[torn] = Bad]
                    BY <2>4, <3>2 DEF Stop
                <5> QED
                    BY <2>0, <5>1, BundleFields
            <4> QED
                BY <4>1, <4>2 DEF WriterInv
        <3> QED
            BY <3>1, <3>2
    <2> QED
        BY <2>1, <2>2, <2>3, <2>4 DEF Next
<1> QED
    BY <1>1, WriterInvariant, PTL DEF Spec, PublishedWhole
=============================================================================
