--------------------------- MODULE EvidenceRules ---------------------------
(***************************************************************************)
(* The rules of tools/evidence that turn what was observed of a command    *)
(* into recorded outcomes: the adapters of collect.py, the semantic rules  *)
(* of validate.py and the qualification of finalize.py.                    *)
(*                                                                         *)
(* A receipt is abstracted to what its validators tell apart: whether its  *)
(* closed shape, its identities and its case lists are right ("sound"),    *)
(* whether the work it reports was accepted ("verdict") and what it says   *)
(* of the clean-up.  A digest is the content it is of.                     *)
(***************************************************************************)
EXTENDS Naturals

CONSTANT Absent

Receipts == [sound: BOOLEAN, verdict: BOOLEAN,
             cleanup: {"confirmed", "unconfirmed", "failed"}]

\* What was not captured is no receipt and no log, whole or cut short.
ASSUME AbsentAssumption == Absent \notin Receipts \cup {"whole", "cut"}

\* The adapters whose receipt replaces the outcome of the process only when
\* the process passed, and those that always replace it.
Campaigns == {"gate-campaign", "local-aggregate", "gate-aggregate",
              "lease-reduction", "prefix-reduction"}
Suites == {"suite-correct", "suite-faulty", "suite-lease-faulty"}
AlwaysNative == Suites \cup {"recovery-origin"}
Adapters == {"none", "recovery-receipt", "reproduction", "installed-audit"}
                \cup Campaigns \cup AlwaysNative

(***************************************************************************)
(* The attachments of a registered command, all of them required.  Besides *)
(* the receipt of the adapter: the second receipt of an aggregate, the     *)
(* bundle a reduction started from, the baseline of a faulty suite, the    *)
(* distribution manifest of an audit, the clean-up receipt of a            *)
(* reproduction.                                                           *)
(***************************************************************************)
WithSecond == {"gate-aggregate", "lease-reduction", "prefix-reduction",
               "suite-lease-faulty", "reproduction", "installed-audit"}
AttachmentsOf(adapter) ==
    IF adapter = "none" THEN {}
    ELSE {"receipt"} \cup (IF adapter \in WithSecond THEN {"second"} ELSE {})

\* The roles that can stand for a confirmed clean-up.
IsReceiptRole(adapter, a) ==
    \/ a = "receipt"
    \/ a = "second" /\ adapter \in {"gate-aggregate", "suite-lease-faulty", "reproduction"}

\* What run_child reports.
Observations == [code: {"none", "0", "1", "74", "signal"}, timedOut: BOOLEAN]

Outcomes == [behavior: {"passed", "failed", "inconclusive"},
             tier: {"passed", "failed", "unavailable"},
             cleanup: {"not_applicable", "confirmed", "unconfirmed", "failed"},
             cited: SUBSET {"receipt", "second"}]

Outcome(behavior, tier, cleanup, cited) ==
    [behavior |-> behavior, tier |-> tier, cleanup |-> cleanup, cited |-> cited]

-----------------------------------------------------------------------------
\* _outcomes: the process alone.
ProcessOutcome(seen) ==
    LET of(behavior, tier) == Outcome(behavior, tier, "not_applicable", {})
    IN CASE seen.code = "none" -> of("inconclusive", "unavailable")
         [] seen.code # "none" /\ seen.timedOut -> of("inconclusive", "failed")
         [] seen.code = "0" /\ ~ seen.timedOut -> of("passed", "passed")
         [] OTHER -> of("failed", "failed")

Held(captured, a) == captured[a] # Absent

\* The work is accepted and everything it used is confirmed to be gone.
Accepted(receipt) == receipt.sound /\ receipt.verdict /\ receipt.cleanup = "confirmed"
AcceptedOf(captured, a) == Held(captured, a) /\ Accepted(captured[a])

\* A sound second attachment, where the adapter reads it.
SecondAgrees(adapter, captured) ==
    CASE adapter \in {"gate-aggregate", "suite-lease-faulty"} -> AcceptedOf(captured, "second")
      [] adapter \in {"lease-reduction", "prefix-reduction", "installed-audit"} ->
             Held(captured, "second") /\ captured["second"].sound
      [] OTHER -> TRUE

\* The scans that run before a receipt is validated (_receipt_reports_failed_
\* physical_cleanup, _local_reports_failed_cleanup, _prefix_reports_cleanup_
\* uncertainty).  A reduction counts anything unconfirmed as failed.
ReportsFailedCleanup(adapter, captured) ==
    LET bad == {"failed"} \cup (IF adapter \in {"lease-reduction", "prefix-reduction"}
                               THEN {"unconfirmed"} ELSE {})
    IN \/ Held(captured, "receipt") /\ captured["receipt"].cleanup \in bad
       \/ /\ adapter = "gate-aggregate"
          /\ AcceptedOf(captured, "receipt")
          /\ Held(captured, "second") /\ captured["second"].cleanup \in bad

\* An aggregate cites the receipts it got to, the others cite their receipt.
CampaignCites(adapter, captured) ==
    IF adapter # "gate-aggregate" THEN {"receipt"}
    ELSE {a \in {"receipt", "second"}:
              Held(captured, a) /\ (a = "second" => AcceptedOf(captured, "receipt"))}

CampaignOutcome(adapter, captured) ==
    IF AcceptedOf(captured, "receipt") /\ SecondAgrees(adapter, captured)
    THEN Outcome("passed", "passed", "confirmed", CampaignCites(adapter, captured))
    ELSE Outcome("inconclusive", "failed",
                 IF ReportsFailedCleanup(adapter, captured) THEN "failed" ELSE "unconfirmed",
                 CampaignCites(adapter, captured))

\* The receipt of a recovery is behavior enough when it is valid; whether the
\* recovery succeeded is its clean-up.
FaultyRecoveryOutcome(captured) ==
    IF Held(captured, "receipt") /\ ~ captured["receipt"].sound
    THEN Outcome("inconclusive", "failed", "unconfirmed", {"receipt"})
    ELSE Outcome("passed", "passed", "confirmed", {"receipt"})
RecoveryOutcome(captured) ==
    IF Held(captured, "receipt") /\ captured["receipt"].sound
    THEN Outcome("passed", IF captured["receipt"].cleanup = "confirmed" THEN "passed" ELSE "failed",
                 captured["receipt"].cleanup, {"receipt"})
    ELSE Outcome("inconclusive", "failed", "unconfirmed", {"receipt"})

RecoveryOriginOutcome == Outcome("failed", "failed", "unconfirmed", {"receipt"})

Invalid == Outcome("failed", "failed", "failed", {})

\* A faulty suite is expected to exit 1.
ExpectedExit(adapter) == IF adapter \in {"suite-faulty", "suite-lease-faulty"} THEN "1" ELSE "0"

SuiteVerdict(adapter, captured) ==
    IF AcceptedOf(captured, "receipt") /\ SecondAgrees(adapter, captured)
    THEN Outcome("passed", "passed", "confirmed", AttachmentsOf(adapter))
    ELSE Invalid
FaultySuiteOutcome(adapter, captured, seen) == SuiteVerdict(adapter, captured)
SuiteOutcome(adapter, captured, seen) ==
    IF ~ seen.timedOut /\ seen.code = ExpectedExit(adapter)
    THEN SuiteVerdict(adapter, captured)
    ELSE Invalid

ReproductionOutcome(captured) ==
    IF ~ Held(captured, "receipt") \/ ~ captured["receipt"].sound THEN Invalid
    ELSE LET reproduced == captured["receipt"].verdict
             status == IF reproduced THEN "passed" ELSE "failed"
         IN Outcome(status, status,
                    IF Accepted(captured["receipt"]) THEN "confirmed" ELSE "failed", {"second"})

AuditOutcome(captured, seen) ==
    IF /\ ~ seen.timedOut /\ seen.code = "0"
       /\ Held(captured, "receipt") /\ captured["receipt"].sound /\ captured["receipt"].verdict
       /\ SecondAgrees("installed-audit", captured)
    THEN Outcome("passed", "passed", "confirmed", {"receipt"})
    ELSE Invalid

Native(adapter, captured, seen) ==
    CASE adapter \in Campaigns -> CampaignOutcome(adapter, captured)
      [] adapter \in Suites -> SuiteOutcome(adapter, captured, seen)
      [] adapter = "recovery-receipt" -> RecoveryOutcome(captured)
      [] adapter = "recovery-origin" -> RecoveryOriginOutcome
      [] adapter = "reproduction" -> ReproductionOutcome(captured)
      [] adapter = "installed-audit" -> AuditOutcome(captured, seen)

\* _stage: the clean-up is the adapter's own; behavior and tier are taken over
\* from it if the process passed, or always.
Recorded(adapter, captured, seen) ==
    LET process == ProcessOutcome(seen)
    IN IF adapter = "none" THEN process
       ELSE LET native == Native(adapter, captured, seen)
            IN IF process.behavior = "passed" \/ adapter \in AlwaysNative THEN native
               ELSE [native EXCEPT !.behavior = process.behavior, !.tier = process.tier]

-----------------------------------------------------------------------------
(***************************************************************************)
(* The private envelope.  "artifacts" gives the digest of every retained   *)
(* artifact, the log of the command among them.                            *)
(***************************************************************************)
ArtifactsOf(adapter) == {"log"} \cup AttachmentsOf(adapter)

Envelope(adapter, outcome, contents, changed) ==
    LET missing == {a \in ArtifactsOf(adapter): contents[a] = Absent}
    IN [adapter |-> adapter, outcome |-> outcome, artifacts |-> contents,
        missing |-> missing, changed |-> changed,
        persistence |-> IF missing = {} THEN "incomplete" ELSE "failed"]

\* validate_document: what is referred to is there or declared missing, and a
\* confirmed clean-up has a receipt.
ValidEnvelope(e) ==
    /\ \A a \in e.outcome.cited: a \in e.missing \/ e.artifacts[a] # Absent
    /\ e.outcome.cleanup = "confirmed" =>
           \E a \in e.outcome.cited: IsReceiptRole(e.adapter, a) /\ e.artifacts[a] # Absent
    /\ e.persistence = "complete" => e.missing = {}

\* finalized_envelope: what it refuses, and what it makes of the rest.
Finalizable(e) == e.missing = {} /\ e.persistence # "failed" /\ ~ e.changed
Finalized(e) == [e EXCEPT !.persistence = "complete"]

\* _qualification.
Qualified(e) ==
    /\ e.outcome.behavior = "passed"
    /\ e.outcome.tier = "passed"
    /\ e.outcome.cleanup \in {"confirmed", "not_applicable"}
    /\ e.persistence = "complete"
=============================================================================
