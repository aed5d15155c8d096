------------------------- MODULE EvidenceCollector -------------------------
(***************************************************************************)
(* One collection of tools/evidence/collect.py: the command it starts, the *)
(* descendants that may outlive the command and hold its pipes, the loop   *)
(* of run_child with its deadline and forwarded signals, and the staging   *)
(* of what was observed.                                                   *)
(*                                                                         *)
(* The clock of the loop is abstract: a deadline may pass at any time.  A  *)
(* descendant in the "group" dies with the group of the command, an        *)
(* "escaped" one has a session of its own.  The log of the command is      *)
(* "whole" when everything that was written to the pipes was read.         *)
(***************************************************************************)
EXTENDS EvidenceRules

CONSTANTS Contents,    \* the receipts that the command may write
          MaxEdits     \* edits of the component's checkout

ASSUME ContentsAssumption == Contents \subseteq Receipts
ASSUME MaxEditsAssumption == MaxEdits \in Nat

VARIABLES adapter,     \* the adapter of the registered command
          child,       \* "unborn", "running", "dying" or how it exited
          heirs,       \* the descendants that hold the pipes
          loop,        \* where run_child is
          timedOut, forwarded, exceeded,
          checkout,    \* the state of the component's checkout, and the two
          before, after,    \* samples taken of it
          pc,          \* where the collector is
          todo,        \* the attachments still to be captured
          captured,    \* and what was captured of the others
          staged,      \* the staging envelope, or Absent
          payload      \* the staged artifacts

processVars == <<child, heirs, loop, timedOut, forwarded, exceeded>>
stagingVars == <<todo, captured, staged, payload>>
collectorVars == <<adapter, processVars, checkout, before, after, pc, stagingVars>>

Descendants == {"group", "escaped"}
Exits == {"0", "1", "74", "signal"}
Attachments == {"receipt", "second"}
AllArtifacts == {"log"} \cup Attachments
NoPayload == [a \in AllArtifacts |-> Absent]

Exited == child \in Exits

CollectorTypeOK ==
    /\ adapter \in Adapters
    /\ child \in {"unborn", "none", "running", "dying"} \cup Exits
    /\ heirs \subseteq Descendants
    /\ loop \in {"waiting", "terminating", "killed", "broken", "over"}
    /\ {timedOut, forwarded, exceeded} \subseteq BOOLEAN
    /\ \A a \in Attachments: captured[a] \in Contents \cup {Absent}
    /\ captured["log"] \in {"whole", "cut", Absent} /\ todo \subseteq Attachments
    /\ {checkout, before, after} \subseteq 0..MaxEdits
    /\ pc \in {"preflight", "running", "sampling", "capturing", "staged",
               "refused", "lost", "raised", "killed"}

CollectorInit ==
    /\ adapter \in Adapters
    /\ child = "unborn" /\ heirs = {} /\ loop = "waiting"
    /\ timedOut = FALSE /\ forwarded = FALSE /\ exceeded = FALSE
    /\ checkout = 0 /\ before = 0 /\ after = 0
    /\ pc = "preflight"
    /\ todo = {} /\ captured = NoPayload /\ staged = Absent /\ payload = NoPayload

-----------------------------------------------------------------------------
(* The command and its surroundings. *)

\* A descendant keeps the pipes, or lets go of them.
Fork(h) ==
    /\ pc = "running" /\ child = "running" /\ h \notin heirs
    /\ heirs' = heirs \cup {h}
    /\ UNCHANGED <<adapter, child, loop, timedOut, forwarded, exceeded,
                   checkout, before, after, pc, stagingVars>>
LetGo(h) ==
    /\ h \in heirs
    /\ heirs' = heirs \ {h}
    /\ UNCHANGED <<adapter, child, loop, timedOut, forwarded, exceeded,
                   checkout, before, after, pc, stagingVars>>

\* The command exits, by itself or on a signal that was sent to it.
Exit(code) ==
    /\ \/ child = "running"
       \/ child = "dying" /\ code = "signal"
    /\ child' = code
    /\ UNCHANGED <<adapter, heirs, loop, timedOut, forwarded, exceeded,
                   checkout, before, after, pc, stagingVars>>

\* More output than is kept of a stream (chunks read by the loop).
Flood ==
    /\ child = "running" \/ heirs # {}
    /\ pc = "running" /\ ~ exceeded
    /\ exceeded' = TRUE
    /\ UNCHANGED <<adapter, child, heirs, loop, timedOut, forwarded,
                   checkout, before, after, pc, stagingVars>>

\* Somebody edits the checkout; the second edit restores the first content.
Edit ==
    /\ pc \in {"running", "sampling"} /\ checkout < MaxEdits
    /\ checkout' = checkout + 1
    /\ UNCHANGED <<adapter, processVars, before, after, pc, stagingVars>>
ContentAt(sample) == sample % 2

-----------------------------------------------------------------------------
(* main and run_child. *)

Preflight(end) ==
    /\ pc = "preflight"
    /\ \/ end = "started" /\ child' = "running" /\ pc' = "running"
       \/ end = "unavailable" /\ child' = "none" /\ pc' = "sampling"
       \/ end = "refused" /\ UNCHANGED child /\ pc' = "refused"
    /\ before' = checkout
    \* an unavailable executable leaves its error as the log
    /\ captured' = IF end = "unavailable" THEN [captured EXCEPT !["log"] = "whole"] ELSE captured
    /\ UNCHANGED <<adapter, heirs, loop, timedOut, forwarded, exceeded,
                   checkout, after, todo, staged, payload>>

\* The handler of a signal that the collector receives sends it on.
Forward ==
    /\ pc = "running" /\ ~ forwarded
    /\ forwarded' = TRUE
    /\ UNCHANGED <<adapter, child, heirs, loop, timedOut, exceeded,
                   checkout, before, after, pc, stagingVars>>
Notice ==
    /\ pc = "running" /\ forwarded /\ loop = "waiting"
    /\ loop' = "terminating"
    /\ UNCHANGED <<adapter, child, heirs, timedOut, forwarded, exceeded,
                   checkout, before, after, pc, stagingVars>>

\* now >= deadline and no termination under way: SIGTERM to the group.
Deadline ==
    /\ pc = "running" /\ loop = "waiting"
    /\ timedOut' = TRUE /\ loop' = "terminating"
    /\ UNCHANGED <<adapter, child, heirs, forwarded, exceeded,
                   checkout, before, after, pc, stagingVars>>

\* One second later: SIGKILL to the group.
Kill ==
    /\ pc = "running" /\ loop = "terminating"
    /\ loop' = "killed"
    /\ child' = IF Exited THEN child ELSE "dying"
    /\ heirs' = heirs \ {"group"}
    /\ UNCHANGED <<adapter, timedOut, forwarded, exceeded,
                   checkout, before, after, pc, stagingVars>>

\* Another second later the loop gives up, whoever still holds the pipes.
FaultyGiveUp ==
    /\ pc = "running" /\ loop = "killed" /\ heirs = {}
    /\ loop' = "broken"
    /\ UNCHANGED <<adapter, child, heirs, timedOut, forwarded, exceeded,
                   checkout, before, after, pc, stagingVars>>
GiveUp ==
    /\ pc = "running" /\ loop = "killed"
    /\ loop' = "broken"
    /\ UNCHANGED <<adapter, child, heirs, timedOut, forwarded, exceeded,
                   checkout, before, after, pc, stagingVars>>

\* What was read until now is the observation.
Observe ==
    /\ pc = "running" /\ Exited
    /\ loop' = "over" /\ pc' = "sampling"
    /\ captured' = [captured EXCEPT !["log"] =
                        IF exceeded THEN Absent ELSE IF heirs = {} THEN "whole" ELSE "cut"]
    /\ heirs' = {}      \* the collector closes its ends of the pipes
    /\ UNCHANGED <<adapter, child, timedOut, forwarded, exceeded,
                   checkout, before, after, todo, staged, payload>>
\* The loop ends by itself: the command was reaped and the pipes are at their
\* end; or child.wait returns after the loop gave up.
FaultyReap == Observe
Reap == (heirs = {} \/ loop = "broken") /\ Observe

\* child.wait(timeout=1.0) runs out: nobody catches TimeoutExpired.
WaitRaises ==
    /\ pc = "running" /\ loop = "broken" /\ ~ Exited
    /\ pc' = "raised"
    /\ UNCHANGED <<adapter, processVars, checkout, before, after, stagingVars>>

\* The registry is read again, then the checkout is sampled again.
Sample(registryChanged) ==
    /\ pc = "sampling"
    /\ IF registryChanged
       THEN pc' = "lost" /\ UNCHANGED <<after, todo, payload>>
       ELSE /\ pc' = "capturing" /\ after' = checkout
            /\ todo' = AttachmentsOf(adapter)
            /\ payload' = [payload EXCEPT !["log"] = captured["log"]]
    /\ UNCHANGED <<adapter, processVars, checkout, before, captured, staged>>

\* capture_attachments: one attachment is copied, whatever the command or a
\* descendant wrote there until now, or it is Absent: not there, not private, too
\* large or changed while it was read.
Capture(a, content) ==
    /\ pc = "capturing" /\ a \in todo
    /\ todo' = todo \ {a}
    /\ captured' = [captured EXCEPT ![a] = content]
    /\ payload' = [payload EXCEPT ![a] = content]
    /\ UNCHANGED <<adapter, processVars, checkout, before, after, pc, staged>>

Observed == [code |-> child, timedOut |-> timedOut]
Collected == Envelope(adapter, Recorded(adapter, captured, Observed),
                      [a \in ArtifactsOf(adapter) |-> captured[a]],
                      ContentAt(before) # ContentAt(after))

\* _stage: the envelope is written last, and only a valid one.
Stage ==
    /\ pc = "capturing" /\ todo = {}
    /\ IF ValidEnvelope(Collected)
       THEN pc' = "staged" /\ staged' = Collected
       ELSE pc' = "lost" /\ UNCHANGED staged
    /\ UNCHANGED <<adapter, processVars, checkout, before, after, todo, captured, payload>>

\* The store fails: reported, and the status of the command is returned.
StoreFails ==
    /\ pc \in {"sampling", "capturing"}
    /\ pc' = "lost"
    /\ UNCHANGED <<adapter, processVars, checkout, before, after, stagingVars>>

\* The result of a reproduction is JSON but no object: nobody catches the
\* AttributeError.
StageRaises ==
    /\ pc = "capturing" /\ todo = {}
    /\ adapter = "reproduction" /\ Held(captured, "receipt") /\ ~ captured["receipt"].sound
    /\ pc' = "raised"
    /\ UNCHANGED <<adapter, processVars, checkout, before, after, stagingVars>>

KillCollector ==
    /\ pc \in {"running", "sampling", "capturing"}
    /\ pc' = "killed"
    /\ UNCHANGED <<adapter, processVars, checkout, before, after, stagingVars>>

-----------------------------------------------------------------------------
Surroundings ==
    \/ \E h \in Descendants: Fork(h) \/ LetGo(h)
    \/ \E code \in Exits: Exit(code)
    \/ Flood \/ Edit \/ KillCollector

Loop == Notice \/ Deadline \/ Kill \/ GiveUp \/ Reap \/ WaitRaises
Staging ==
    \/ \E changed \in BOOLEAN: Sample(changed)
    \/ \E a \in Attachments: \E content \in Contents \cup {Absent}: Capture(a, content)
    \/ Stage \/ StoreFails \/ StageRaises
CollectorNext ==
    \/ Surroundings
    \/ \E end \in {"started", "unavailable", "refused"}: Preflight(end)
    \/ Forward \/ Loop \/ Staging
=============================================================================
