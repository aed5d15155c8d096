------------------------------ MODULE DpmHost ------------------------------
(***************************************************************************)
(* One operation of the installed mirrors-dpm command: reduce, replay, or  *)
(* explore over the catalog or over the space of the SDK, from the new     *)
(* output directory to the exit status (Project and reduce in dpm_host.py, *)
(* main and the entry point of cli.py).  Processes are those of            *)
(* DpmProcess; a signal may arrive at any point.                           *)
(***************************************************************************)
EXTENDS DpmProcess, Sequences

CONSTANTS
    Order,        \* the candidates as the plan orders them
    Cost,         \* the rank of its cost, never decreasing along Order
    Chunks,       \* the value checks that the schedule of a candidate needs
    Baseline,     \* the candidate to reduce
    Attempts,     \* the trials the project admits
    Fingerprint,  \* the bytes of a serialized failure
    MaxSignals    \* bound on the signals

Candidates == {Order[i] : i \in 1..Len(Order)}

ASSUME CatalogAssumption ==
    /\ Order \in Seq(Candidates)
    /\ Cost \in [Candidates -> Nat]
    /\ Chunks \in [Candidates -> Nat \ {0}]
    /\ Fingerprint \in Nat /\ MaxSignals \in Nat
    /\ Baseline \in Candidates
    /\ \A i, j \in 1..Len(Order) :
        i < j => Order[i] # Order[j] /\ Cost[Order[i]] =< Cost[Order[j]]

VARIABLES
    op,        \* the operation
    pc,        \* where the host stands
    stage,     \* what the running replay is for
    cand,      \* the candidate it replays
    phase,     \* the request of the replay
    left,      \* value checks still to be made
    answer,    \* what the runner answered
    reused,    \* and whether under an execution identity of before
    at,        \* the position of the search in Order
    first,     \* the verdict of the first baseline replay
    best,
    trials,    \* what each trial came to
    complete, failure, bestReplay,  \* as in the report
    rows,      \* the verdicts of a catalog exploration
    seen,      \* an execution identity has been recorded
    result,    \* result.json
    exit,      \* the exit status
    signals,
    evidence   \* what fresh executions showed: <<stage, candidate, verdict>>

searchVars == <<at, first, best, trials, complete, failure, bestReplay, rows>>
replayVars == <<stage, cand, phase, left, answer, reused>>
endVars == <<result, exit>>
hostVars == <<op, pc, replayVars, searchVars, seen, signals, endVars, evidence>>
vars == <<processVars, budgetVars, hostVars>>

Mismatches == {"A", "B"}
Verdicts == {"matched"} \cup Mismatches

-----------------------------------------------------------------------------
(* The start of an operation, after Project admitted its inputs.           *)

BeginReplay(purpose, c) ==
    /\ stage' = purpose /\ cand' = c
    /\ phase' = IF purpose = "sdk" THEN "explore" ELSE "materialize"
    /\ left' = 0 /\ answer' = "none" /\ reused' = FALSE
    /\ pc' = "request"

Init ==
    /\ ProcessInit
    /\ op \in {"reduce", "replay", "explore", "sdk"}
    /\ pc = (IF op = "explore" THEN "search" ELSE "request")
    /\ stage = (CASE op = "reduce" -> "baseline-0" [] op = "explore" -> "candidate"
                  [] OTHER -> op)
    /\ cand = Baseline
    /\ phase = (IF op = "sdk" THEN "explore" ELSE "materialize")
    /\ left = 0 /\ answer = "none" /\ reused = FALSE
    /\ at = 1 /\ first = "none" /\ best = Baseline
    /\ trials = [c \in Candidates |-> "none"]
    /\ complete = TRUE /\ failure = FALSE /\ bestReplay = FALSE
    /\ rows = <<>> /\ seen = FALSE
    /\ signals = 0
    /\ result = "none" /\ exit = "none" /\ evidence = {}

TypeOK ==
    /\ ProcessTypeOK
    /\ op \in {"reduce", "replay", "explore", "sdk"}
    /\ pc \in {"request", "running", "answered", "classify", "receipt", "search",
               "finish", "writing", "printing", "failing", "refusing", "refused",
               "ended"}
    /\ stage \in {"baseline-0", "baseline-1", "trial", "best", "replay",
                  "candidate", "sdk"}
    /\ cand \in Candidates /\ best \in Candidates
    /\ phase \in {"materialize", "replay", "explore", "values"}
    /\ left \in Nat /\ at \in 1..Len(Order) + 1
    /\ answer \in Verdicts \cup {"none", "complete", "partial"}
    /\ first \in Verdicts \cup {"none"}
    /\ trials \in [Candidates -> {"none", "matched", "same", "different", "unresolved"}]
    /\ {complete, failure, bestReplay, reused, seen} \subseteq BOOLEAN
    /\ rows \in Seq(Verdicts)
    /\ result \in {"none", "partial", "whole", "refusal", "cut"}
    /\ exit \in {"none", "0", "1", "2"}
    /\ signals \in 0..MaxSignals

-----------------------------------------------------------------------------
(* Where an exception of the host goes.                                    *)

Replaying == pc \in {"request", "running", "answered", "classify"}

\* As Raise, with a failed trial skipped instead of ending the search.
FaultyRaise ==
    \/ /\ Replaying /\ stage = "trial"
       /\ trials' = [trials EXCEPT ![cand] = "unresolved"]
       /\ complete' = FALSE
       /\ pc' = "search"
       /\ UNCHANGED <<failure, at, first, best, bestReplay, rows>>
    \/ /\ Replaying /\ stage = "best"
       /\ failure' = TRUE /\ complete' = FALSE
       /\ pc' = "finish"
       /\ UNCHANGED <<at, first, best, trials, bestReplay, rows>>
    \/ /\ ~Replaying \/ stage \notin {"trial", "best"}
       /\ pc' = "failing"
       /\ UNCHANGED searchVars

\* reduce catches what a trial or the best replay raises; everything else
\* reaches the handler of the entry point.
Raise ==
    \/ /\ Replaying /\ stage = "trial"
       /\ trials' = [trials EXCEPT ![cand] = "unresolved"]
       /\ failure' = TRUE /\ complete' = FALSE
       /\ pc' = "finish"
       /\ UNCHANGED <<at, first, best, bestReplay, rows>>
    \/ /\ Replaying /\ stage = "best"
       /\ failure' = TRUE /\ complete' = FALSE
       /\ pc' = "finish"
       /\ UNCHANGED <<at, first, best, trials, bestReplay, rows>>
    \/ /\ ~Replaying \/ stage \notin {"trial", "best"}
       /\ pc' = "failing"
       /\ UNCHANGED searchVars

-----------------------------------------------------------------------------
(* A request: its prologue, its process, its response.                     *)

\* The deadline of the operation has passed, or an admitted input changed, or a
\* candidate is not the one its oracle was captured for.
Inadmissible ==
    /\ pc = "request"
    /\ Raise
    /\ UNCHANGED <<op, replayVars, seen, signals, endVars, evidence, processVars, budgetVars>>

Request ==
    /\ pc = "request"
    /\ Enter /\ pc' = "running"
    /\ UNCHANGED <<op, searchVars, replayVars, seen, signals, endVars, evidence>>

Run ==
    /\ pc = "running" /\ Owner
    /\ UNCHANGED hostVars

Ran ==
    /\ pc = "running" /\ own \in {"returned", "raised"}
    /\ IF own = "returned" THEN pc' = "answered" /\ UNCHANGED searchVars ELSE Raise
    /\ own' = "idle" /\ piped' = 0
    /\ UNCHANGED <<op, replayVars, seen, signals, endVars, evidence, budgetVars,
                   cancelled, child, heirs, size, expired, primary, cleanup, lost>>

\* What a runner or the value checker may answer of the right form.
Answers ==
    CASE phase = "materialize" -> {"none"}
      [] phase = "replay" -> Verdicts
      [] phase = "explore" -> {"complete", "partial"}
      [] phase = "values" -> {answer}

\* A response that is malformed, answers another request or contradicts the
\* candidate or its oracle.
Malformed ==
    /\ pc = "answered" /\ phase # "explore"
    /\ Raise
    /\ UNCHANGED <<op, replayVars, seen, signals, endVars, evidence, processVars, budgetVars>>

\* An exploration whose counts, rows and claims do not agree.
Contradictory ==
    /\ pc = "answered" /\ phase = "explore"
    /\ Raise
    /\ UNCHANGED <<op, replayVars, seen, signals, endVars, evidence, processVars, budgetVars>>

\* A response that passes; a replay and an exploration then make their value
\* checks, of which an exploration cut off before its first run has none.
Answered ==
    /\ pc = "answered"
    /\ answer' \in Answers
    /\ reused' \in IF phase = "replay" THEN {FALSE, seen} ELSE {reused}
    /\ \/ /\ phase = "materialize"
          /\ phase' = "replay" /\ pc' = "request" /\ left' = left
       \/ /\ phase \in {"replay", "explore"}
          /\ phase' = "values" /\ pc' = "request" /\ left' = Chunks[cand]
       \/ /\ phase = "explore" /\ answer' = "partial"
          /\ phase' = "values" /\ pc' = "classify" /\ left' = 0
       \/ /\ phase = "values"
          /\ phase' = phase /\ left' = left - 1
          /\ pc' = IF left > 1 THEN "request" ELSE "classify"
    /\ UNCHANGED <<op, stage, cand, searchVars, seen, signals, endVars, evidence,
                   processVars, budgetVars>>

-----------------------------------------------------------------------------
(* What a replay is worth.                                                 *)

Disposition(verdict) ==
    IF verdict = "matched" THEN "matched"
    ELSE IF verdict = first THEN "same" ELSE "different"

Cheaper(c) == Cost[c] < Cost[best]

Reuse ==
    /\ pc = "classify" /\ reused
    /\ Raise
    /\ UNCHANGED <<op, replayVars, seen, signals, endVars, evidence, processVars, budgetVars>>

\* As FirstBaseline, without room for the fingerprint in the report.
FaultyFirstBaseline ==
    /\ stage = "baseline-0"
    /\ first' = answer
    /\ reserve' = reserve
    /\ IF AuditFails(kept, reserve')
       THEN pc' = "failing" /\ UNCHANGED replayVars
       ELSE BeginReplay("baseline-1", Baseline)
    /\ UNCHANGED <<at, best, trials, complete, failure, bestReplay, rows, kept>>

\* The fingerprint of the first failure is reserved for the report.
FirstBaseline ==
    /\ stage = "baseline-0"
    /\ first' = answer
    /\ reserve' = reserve + (IF answer \in Mismatches THEN Fingerprint ELSE 0)
    /\ IF AuditFails(kept, reserve')
       THEN pc' = "failing" /\ UNCHANGED replayVars
       ELSE BeginReplay("baseline-1", Baseline)
    /\ UNCHANGED <<at, best, trials, complete, failure, bestReplay, rows, kept>>

SecondBaseline ==
    /\ stage = "baseline-1"
    /\ pc' = IF first \in Mismatches /\ answer = first THEN "search" ELSE "failing"
    /\ UNCHANGED <<replayVars, searchVars, budgetVars>>

Tried ==
    /\ stage = "trial"
    /\ trials' = [trials EXCEPT ![cand] = Disposition(answer)]
    /\ best' = IF Disposition(answer) = "same" /\ Cheaper(cand) THEN cand ELSE best
    /\ pc' = "search"
    /\ UNCHANGED <<replayVars, at, first, complete, failure, bestReplay, rows, budgetVars>>

BestReplayed ==
    /\ stage = "best"
    /\ bestReplay' = (answer = first)
    /\ failure' = (answer # first)
    /\ complete' = (complete /\ answer = first)
    /\ pc' = "finish"
    /\ UNCHANGED <<replayVars, at, first, best, trials, rows, budgetVars>>

Compared ==
    /\ stage \in {"replay", "sdk"}
    /\ pc' = "receipt"
    /\ UNCHANGED <<replayVars, searchVars, budgetVars>>

Row ==
    /\ stage = "candidate"
    /\ rows' = Append(rows, answer)
    /\ pc' = "search"
    /\ UNCHANGED <<replayVars, at, first, best, trials, complete, failure, bestReplay,
                   budgetVars>>

Classify ==
    /\ pc = "classify" /\ ~reused
    /\ FirstBaseline \/ SecondBaseline \/ Tried \/ BestReplayed \/ Compared \/ Row
    /\ seen' = TRUE
    /\ evidence' = evidence \cup {<<stage, cand, answer>>}
    /\ UNCHANGED <<op, signals, endVars, processVars>>

-----------------------------------------------------------------------------
(* The search of reduce and the catalog of explore.                        *)

Worthwhile(c) == Cost[c] < Cost[Baseline]

\* The positions still to visit.
Ahead == {i \in at..Len(Order) : op = "explore" \/ Worthwhile(Order[i])}

\* What a trial must find: itself and the replay of the best, for a row
\* of the catalog three requests.
Need(c) ==
    OutputBytes * (IF op = "explore" THEN 3 ELSE 4 + Chunks[c] + Chunks[best])

Short(c) ==
    \/ Attempts =< IF op = "explore" THEN Len(rows)
                   ELSE Cardinality({d \in Candidates : trials[d] # "none"})
    \/ Room(reserve) < Need(c)

EndSearch ==
    IF op = "explore" THEN pc' = "finish" /\ UNCHANGED replayVars
    ELSE BeginReplay("best", best)

\* As Search, with a search that was cut off still called complete.
FaultySearch ==
    /\ pc = "search"
    /\ \/ /\ Ahead = {}
          /\ EndSearch /\ UNCHANGED <<at, complete>>
       \/ /\ Ahead # {}
          /\ complete' = complete
          /\ EndSearch /\ UNCHANGED at
       \/ /\ Ahead # {} /\ ~Short(Order[Min(Ahead)])
          /\ BeginReplay(IF op = "explore" THEN "candidate" ELSE "trial", Order[Min(Ahead)])
          /\ at' = Min(Ahead) + 1 /\ UNCHANGED complete
    /\ UNCHANGED <<op, first, best, trials, failure, bestReplay, rows, seen, signals,
                   endVars, evidence, processVars, budgetVars>>

\* The search is cut off by the attempts, the budget or, at any point, the clock.
Search ==
    /\ pc = "search"
    /\ \/ /\ Ahead = {}
          /\ EndSearch /\ UNCHANGED <<at, complete>>
       \/ /\ Ahead # {}
          /\ complete' = FALSE
          /\ EndSearch /\ UNCHANGED at
       \/ /\ Ahead # {} /\ ~Short(Order[Min(Ahead)])
          /\ BeginReplay(IF op = "explore" THEN "candidate" ELSE "trial", Order[Min(Ahead)])
          /\ at' = Min(Ahead) + 1 /\ UNCHANGED complete
    /\ UNCHANGED <<op, first, best, trials, failure, bestReplay, rows, seen, signals,
                   endVars, evidence, processVars, budgetVars>>

-----------------------------------------------------------------------------
(* The end: receipt, last check and audit, result.json, exit status.       *)

\* A replay and an SDK exploration keep a copy of the runner's receipt.
Receipt ==
    /\ pc = "receipt"
    /\ \E bytes \in 0..OutputBytes :
        IF bytes =< Room(reserve)
        THEN kept' = kept + bytes /\ pc' = "finish"
        ELSE kept' = kept /\ pc' = "failing"
    /\ UNCHANGED <<op, replayVars, searchVars, seen, signals, endVars, evidence,
                   processVars, reserve>>

Report ==
    1 + (IF op = "reduce" \/ (op = "replay" /\ answer \in Mismatches) THEN Fingerprint ELSE 0)

\* Inputs that changed, the audit or the size of the report may refuse it.
Finish ==
    /\ pc = "finish"
    /\ \/ pc' = "failing" /\ UNCHANGED result
       \/ /\ ~AuditFails(kept, 0) /\ Report =< Room(0)
          /\ pc' = "writing" /\ result' = "partial"
    /\ UNCHANGED <<op, replayVars, searchVars, seen, signals, exit, evidence,
                   processVars, budgetVars>>

\* The file is complete and audited once more, or writing it fails.
Write ==
    /\ pc = "writing"
    /\ \/ /\ result' = "whole"
          /\ kept' = kept + Report
          /\ pc' = IF AuditFails(kept', 0) THEN "failing" ELSE "printing"
       \/ pc' = "failing" /\ UNCHANGED <<result, kept>>
    /\ UNCHANGED <<op, replayVars, searchVars, seen, signals, exit, evidence,
                   processVars, reserve>>

\* As Status, with the rows of a truncated catalog alone deciding.
FaultyStatus ==
    CASE op = "reduce" -> IF failure THEN "2" ELSE "0"
      [] op = "replay" -> IF answer = "matched" THEN "0" ELSE "1"
      [] op = "explore" -> IF \A i \in 1..Len(rows) : rows[i] = "matched" THEN "0"
                           ELSE "1"
      [] op = "sdk" -> IF answer = "complete" THEN "0" ELSE "2"

Status ==
    CASE op = "reduce" -> IF failure THEN "2" ELSE "0"
      [] op = "replay" -> IF answer = "matched" THEN "0" ELSE "1"
      [] op = "explore" -> IF ~complete THEN "2"
                           ELSE IF \A i \in 1..Len(rows) : rows[i] = "matched" THEN "0"
                           ELSE "1"
      [] op = "sdk" -> IF answer = "complete" THEN "0" ELSE "2"

PrintResult ==
    /\ pc = "printing"
    /\ \/ pc' = "ended" /\ exit' = Status
       \/ pc' = "failing" /\ exit' = exit
    /\ UNCHANGED <<op, replayVars, searchVars, seen, signals, result, evidence,
                   processVars, budgetVars>>

\* record_failure: a report that exists is left alone, whatever it holds.
RecordFailure ==
    /\ pc = "failing"
    /\ IF result = "none" THEN pc' = "refusing" /\ result' = "cut"
       ELSE pc' = "refused" /\ result' = result
    /\ UNCHANGED <<op, replayVars, searchVars, seen, signals, exit, evidence,
                   processVars, budgetVars>>

Recorded ==
    /\ pc = "refusing"
    /\ pc' = "refused"
    /\ \/ result' = "refusal" /\ kept' = kept + 1
       \/ UNCHANGED <<result, kept>>
    /\ UNCHANGED <<op, replayVars, searchVars, seen, signals, exit, evidence,
                   processVars, reserve>>

Refused ==
    /\ pc = "refused"
    /\ pc' = "ended" /\ exit' = "2"
    /\ UNCHANGED <<op, replayVars, searchVars, seen, signals, result, evidence,
                   processVars, budgetVars>>

-----------------------------------------------------------------------------
(* Signals.                                                                *)

\* With an owner the signal is a flag; without one it raises where the host
\* stands.  The handler of the entry point swallows it inside of
\* record_failure and is ended by it elsewhere, with the status of a traceback.
Signal ==
    /\ pc # "ended" /\ signals < MaxSignals
    /\ signals' = signals + 1
    /\ \/ /\ Owned
          /\ Flag
          /\ UNCHANGED <<pc, searchVars, exit>>
       \/ /\ ~Owned /\ pc \notin {"failing", "refusing", "refused"}
          /\ Raise
          /\ own' = "idle" /\ piped' = 0
          /\ UNCHANGED <<exit, budgetVars, cancelled, child, heirs, size, expired,
                         primary, cleanup, lost>>
       \/ /\ pc \in {"failing", "refusing"}
          /\ pc' = "refused"
          /\ UNCHANGED <<searchVars, exit, processVars, budgetVars>>
       \/ /\ pc \in {"failing", "refused"}
          /\ pc' = "ended" /\ exit' = "1"
          /\ UNCHANGED <<searchVars, processVars, budgetVars>>
    /\ UNCHANGED <<op, replayVars, seen, result, evidence>>

-----------------------------------------------------------------------------

Host ==
    \/ Inadmissible \/ Request \/ Run \/ Ran
    \/ Malformed \/ Contradictory \/ Answered
    \/ Reuse \/ Classify \/ Search
    \/ Receipt \/ Finish \/ Write \/ PrintResult
    \/ RecordFailure \/ Recorded \/ Refused

World ==
    \/ Signal
    \/ Runner /\ UNCHANGED hostVars
    \/ Deadline /\ UNCHANGED hostVars

Next == Host \/ World

\* The host takes its steps, and the clock of a request runs out.  Nothing is
\* assumed of runners: they may print, write and fork for ever.
Spec == Init /\ [][Next]_vars /\ WF_vars(Host) /\ WF_vars(Deadline /\ UNCHANGED hostVars)

-----------------------------------------------------------------------------
(* Properties.                                                             *)

\* A report that claims a minimum of the admitted catalog (reduce) rests on
\* fresh executions alone: two of the baseline and one of the best with one
\* and the same failure, one conclusive trial of every cheaper candidate, none
\* cheaper than the best with that failure.  No group was left behind, the
\* evidence is within the limit, and the report command accepts the claim.
MinimalIsEarned ==
    op = "reduce" /\ result = "whole" /\ complete =>
        /\ ~failure /\ bestReplay
        /\ lost = "none" /\ kept =< Limit
        /\ \E fault \in Mismatches :
            /\ {<<"baseline-0", Baseline, fault>>, <<"baseline-1", Baseline, fault>>,
                <<"best", best, fault>>} \subseteq evidence
            /\ \A c \in Candidates :
                Worthwhile(c) =>
                    /\ \E v \in Verdicts : <<"trial", c, v>> \in evidence
                    /\ Cheaper(c) => <<"trial", c, fault>> \notin evidence
            /\ best = Baseline \/ <<"trial", best, fault>> \in evidence

\* After a group could not be ended no runner is started again in the
\* operation: every exception of owned_process ends the acquisition.
LostGroupStops == lost # "none" => child # "running"

\* Status 0 is given only with a complete report that supports it: a match, a
\* reproduced reduction, a catalog of which every candidate matched.
SuccessIsEarned ==
    exit = "0" =>
        /\ result = "whole" /\ lost = "none" /\ kept =< Limit
        /\ op = "reduce" => <<"best", best, first>> \in evidence /\ first \in Mismatches
        /\ op = "replay" => <<"replay", Baseline, "matched">> \in evidence
        /\ op = "explore" =>
            \A c \in Candidates : <<"candidate", c, "matched">> \in evidence
        /\ op = "sdk" => <<"sdk", Baseline, "complete">> \in evidence

\* The reserve is enough: a reduction that did not fail finds room for its
\* report, however much its last replay retained.
ReportFits == op = "reduce" /\ pc = "finish" /\ ~failure => Report =< Room(0)

\* Every operation ends, whatever its runners, their descendants and the
\* signals do, since each request has a deadline and each clean-up a bound.
OperationEnds == <>(pc = "ended")
=============================================================================
