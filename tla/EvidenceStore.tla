--------------------------- MODULE EvidenceStore ---------------------------
(***************************************************************************)
(* From a staged collection to accepted evidence: finalizers (finalize.py) *)
(* that copy it into runs/<runId> and publish the index last, and a        *)
(* consumer that verifies the bundle (verify.py) and then links it to a    *)
(* catalog (catalog_links.py).                                             *)
(*                                                                         *)
(* Processes may be killed and calls may fail at any step, and a file may  *)
(* be damaged: it then holds bytes that are neither a valid envelope nor   *)
(* the content of any digest.  A digest is the content it is of, so the    *)
(* index is the record of what was written.                                *)
(***************************************************************************)
EXTENDS EvidenceCollector

CONSTANTS Finalizers, First,  \* the finalizers, one of them
          Bad,                \* damaged bytes
          MaxDamage,          \* files damaged after staging
          Contended           \* the commands whose run meets damage and a second
                              \* finalizer: a bound, neither depends on the adapter

ASSUME FirstAssumption == First \in Finalizers
ASSUME MaxDamageAssumption == MaxDamage \in Nat
ASSUME ContendedAssumption == Contended \subseteq Adapters

VARIABLES finalizer,    \* finalizer |-> [at, env, todo]
          bundle,       \* runs/<runId>: [claimed, payload, env, index]
          damage,       \* files damaged so far
          consumer      \* [at, env, payload]: the verification in memory

storeVars == <<finalizer, bundle, damage, consumer>>
vars == <<collectorVars, storeVars>>

Waiting == [at |-> "idle", env |-> Absent, todo |-> {}]
NoBundle == [claimed |-> FALSE, payload |-> NoPayload, env |-> Absent, index |-> Absent]
NoVerification == [at |-> "idle", env |-> Absent, payload |-> NoPayload]

Init ==
    /\ CollectorInit
    /\ finalizer = [f \in Finalizers |-> Waiting]
    /\ bundle = NoBundle /\ damage = 0 /\ consumer = NoVerification

Artifacts == ArtifactsOf(adapter)
\* The payload holds, of every artifact, the bytes of which the digest is recorded.
FaultyIntact(bytes, e) == \A a \in Artifacts \ {"log"}: bytes[a] = e.artifacts[a]
Intact(bytes, e) == \A a \in Artifacts: bytes[a] = e.artifacts[a]

-----------------------------------------------------------------------------
At(f, place) == finalizer[f].at = place
Goto(f, place) == finalizer' = [finalizer EXCEPT ![f].at = place]
OnlyFinalizer == UNCHANGED <<collectorVars, bundle, damage, consumer>>

\* The staging envelope is read, validated and turned into the final one.
ReadStaging(f) ==
    /\ f = First \/ adapter \in Contended
    /\ At(f, "idle") /\ staged # Absent
    /\ IF staged # Bad /\ ValidEnvelope(staged) /\ Finalizable(staged)
       THEN finalizer' = [finalizer EXCEPT ![f] =
                [at |-> "read", env |-> Finalized(staged), todo |-> Artifacts]]
       ELSE Goto(f, "refused")
    /\ OnlyFinalizer

\* Every staged artifact is read and compared with the envelope.
CheckSources(f) ==
    /\ At(f, "read")
    /\ Goto(f, IF Intact(payload, finalizer[f].env) THEN "checked" ELSE "refused")
    /\ OnlyFinalizer

\* mkdir of runs/<runId>, which must not exist.
Claim(f) ==
    /\ At(f, "checked")
    /\ IF bundle.claimed THEN Goto(f, "refused") /\ UNCHANGED bundle
       ELSE bundle' = [bundle EXCEPT !.claimed = TRUE] /\ Goto(f, "copying")
    /\ UNCHANGED <<collectorVars, damage, consumer>>

\* One artifact is read again, compared again and written to a new file.
Copy(f, a) ==
    /\ At(f, "copying") /\ a \in finalizer[f].todo
    /\ IF payload[a] = finalizer[f].env.artifacts[a] /\ bundle.payload[a] = Absent
       THEN /\ bundle' = [bundle EXCEPT !.payload[a] = payload[a]]
            /\ finalizer' = [finalizer EXCEPT ![f].todo = @ \ {a}]
       ELSE Goto(f, "refused") /\ UNCHANGED bundle
    /\ UNCHANGED <<collectorVars, damage, consumer>>

CheckCopies(f) ==
    /\ At(f, "copying") /\ finalizer[f].todo = {}
    /\ Goto(f, IF Intact(bundle.payload, finalizer[f].env) THEN "copied" ELSE "refused")
    /\ OnlyFinalizer

\* The envelope and its public projection.
WriteEnvelope(f) ==
    /\ At(f, "copied")
    /\ bundle' = [bundle EXCEPT !.env = finalizer[f].env] /\ Goto(f, "described")
    /\ UNCHANGED <<collectorVars, damage, consumer>>

FaultyPublish(f) ==
    /\ At(f, "copied")
    /\ bundle' = [bundle EXCEPT !.index = finalizer[f].env] /\ Goto(f, "published")
    /\ UNCHANGED <<collectorVars, damage, consumer>>
\* The index is written under a temporary name and linked to its own.
Publish(f) ==
    /\ At(f, "described")
    /\ bundle' = [bundle EXCEPT !.index = finalizer[f].env] /\ Goto(f, "published")
    /\ UNCHANGED <<collectorVars, damage, consumer>>

\* The directories are synchronised and the result is printed.
Finish(f) == At(f, "published") /\ Goto(f, "done") /\ OnlyFinalizer

\* A system call fails, or the finalizer is killed.  The file that was being
\* written may be left incomplete.
Working(f) == finalizer[f].at \in {"read", "checked", "copying", "copied", "described", "published"}
Stop(f, torn) ==
    /\ Working(f) /\ Goto(f, "stopped")
    /\ bundle' = IF torn = "none" THEN bundle
                 ELSE IF torn = "env" THEN [bundle EXCEPT !.env = Bad]
                 ELSE [bundle EXCEPT !.payload[torn] = Bad]
    /\ \/ torn = "none"
       \/ torn = "env" /\ At(f, "copied")
       \/ torn \in finalizer[f].todo /\ At(f, "copying") /\ bundle.payload[torn] = Absent
    /\ UNCHANGED <<collectorVars, damage, consumer>>

-----------------------------------------------------------------------------
\* Something other than these programs replaces the bytes of a file.
Harm == adapter \in Contended /\ damage < MaxDamage /\ staged # Absent /\ damage' = damage + 1
HarmStaging ==
    /\ Harm
    /\ \/ staged' = Bad /\ UNCHANGED payload
       \/ \E a \in Artifacts: payload' = [payload EXCEPT ![a] = Bad] /\ UNCHANGED staged
    /\ UNCHANGED <<adapter, processVars, checkout, before, after, pc, todo, captured,
                   finalizer, bundle, consumer>>
HarmBundle ==
    /\ Harm
    /\ \/ bundle.index # Absent /\ bundle' = [bundle EXCEPT !.index = Bad]
       \/ bundle.env # Absent /\ bundle' = [bundle EXCEPT !.env = Bad]
       \/ \E a \in Artifacts: bundle.payload[a] # Absent
                              /\ bundle' = [bundle EXCEPT !.payload[a] = Bad]
    /\ UNCHANGED <<collectorVars, finalizer, consumer>>

-----------------------------------------------------------------------------
\* verify: the index is there, every record has its bytes and digest, the
\* envelope is valid and claims complete persistence.
Verify ==
    /\ consumer.at = "idle" /\ bundle.index \notin {Absent, Bad}
    /\ bundle.env = bundle.index /\ Intact(bundle.payload, bundle.index)
    /\ ValidEnvelope(bundle.env) /\ bundle.env.persistence = "complete"
    /\ consumer' = [at |-> "verified", env |-> bundle.env, payload |-> bundle.payload]
    /\ UNCHANGED <<collectorVars, finalizer, bundle, damage>>

\* evaluate_catalog_link: the envelope is read again and must be the verified
\* one, and the outcomes it records must qualify.
Link ==
    /\ consumer.at = "verified"
    /\ consumer' = [consumer EXCEPT !.at =
           IF bundle.env = consumer.env /\ Qualified(bundle.env) THEN "accepted" ELSE "declined"]
    /\ UNCHANGED <<collectorVars, finalizer, bundle, damage>>

Finalize(f) ==
    \/ ReadStaging(f) \/ CheckSources(f) \/ Claim(f)
    \/ \E a \in Artifacts: Copy(f, a)
    \/ CheckCopies(f) \/ WriteEnvelope(f) \/ Publish(f) \/ Finish(f)

\* After staging, nothing of the command is of interest any more.
Collect == pc # "staged" /\ CollectorNext /\ UNCHANGED storeVars
Next ==
    \/ Collect
    \/ \E f \in Finalizers: Finalize(f) \/ \E torn \in {"none", "env"} \cup Artifacts: Stop(f, torn)
    \/ HarmStaging \/ HarmBundle \/ Verify \/ Link

Spec == Init /\ [][Next]_vars
            /\ WF_vars(Loop /\ UNCHANGED storeVars)
            /\ WF_vars(Staging /\ UNCHANGED storeVars)

-----------------------------------------------------------------------------
\* TypeOK: every variable holds a value of its kind.
TypeOK ==
    /\ CollectorTypeOK
    /\ \A f \in Finalizers:
           /\ finalizer[f].at \in {"idle", "read", "checked", "copying", "copied", "described",
                                   "published", "done", "refused", "stopped"}
           /\ finalizer[f].todo \subseteq {"log"} \cup Attachments
    /\ bundle.claimed \in BOOLEAN /\ damage \in 0..MaxDamage
    /\ consumer.at \in {"idle", "verified", "accepted", "declined"}

\* The run deserves what its evidence is accepted for: the command ended as its
\* adapter expects, in time, on an unchanged checkout, and the receipts that
\* the adapter relies on say that the work was accepted and cleaned up.
Relied == IF adapter \in {"gate-aggregate", "suite-lease-faulty"}
          THEN {"receipt", "second"} ELSE AttachmentsOf(adapter) \ {"second"}
Earned ==
    /\ child = ExpectedExit(adapter) /\ ~ timedOut
    /\ ContentAt(before) = ContentAt(after)
    /\ \A a \in Relied: /\ Held(captured, a) /\ captured[a].sound
                        /\ adapter # "installed-audit" => captured[a].cleanup = "confirmed"
                        /\ adapter # "recovery-receipt" => captured[a].verdict
    /\ adapter # "recovery-origin"

\* AcceptedIsEarned: evidence accepted by a catalog link (verify.py,
\* evaluate_catalog_link) comes from a run that deserves it, whichever adapter
\* of collect.py recorded its outcomes and whatever happened on the way.
AcceptedIsEarned == consumer.at = "accepted" => Earned

\* VerifiedIsWhatWasRun: what verify.py confirms is what the collector observed,
\* no artifact missing, damaged or exchanged between capture, copy and index.
VerifiedIsWhatWasRun ==
    consumer.at \in {"verified", "accepted"} =>
        /\ consumer.env = Finalized(Collected)
        /\ \A a \in Artifacts: consumer.payload[a] = captured[a] /\ captured[a] # Absent

\* PublishedWhole: the index of finalize.py comes last, so it never stands for a
\* bundle that lacks a record, and no program changes a committed bundle.
PublishedWhole ==
    [][/\ bundle.index # Absent /\ damage' = damage => bundle' = bundle
       /\ bundle.index = Absent /\ bundle'.index # Absent /\ damage = 0 =>
              bundle.env = bundle'.index /\ Intact(bundle.payload, bundle'.index)]_vars

\* WholeUnlessForced: a log that verifies as complete was cut short only by a
\* deadline or by a signal to the collector (run_child gives up on the pipes two
\* seconds later); a descendant that keeps the pipes of a command that exited
\* is waited for.
WholeUnlessForced == captured["log"] = "cut" => timedOut \/ forwarded

\* EvidenceSurvives: whatever a command leaves behind, the envelope that _stage
\* makes of it is one that validate_document accepts, except for a reproduction
\* that succeeded and whose clean-up receipt was not captured.
EvidenceSurvives ==
    pc = "capturing" /\ todo = {} =>
        ValidEnvelope(Collected) \/
            /\ adapter = "reproduction" /\ captured["second"] = Absent
            /\ AcceptedOf(captured, "receipt")

\* EveryRunEnds: a collection ends, whatever the command ignores and whoever
\* keeps its pipes (the two-second limit of run_child).
EveryRunEnds == pc \in {"running", "sampling", "capturing"} ~>
                    pc \in {"staged", "lost", "raised", "killed"}
=============================================================================
