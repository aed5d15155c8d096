--------------------------- MODULE DpmHostProofs ---------------------------
(***************************************************************************)
(* What DpmHost owes to its machine and to its reader, for any catalog,    *)
(* budget and number of signals: beside a group that could not be ended it *)
(* starts nothing, its report finds the room that was reserved, and what   *)
(* it claims rests on fresh executions.                                    *)
(***************************************************************************)
EXTENDS DpmHost, WellFoundedInduction, SequenceTheorems, TLAPS

\* The host on its way out: no request follows.
Leaving == {"finish", "writing", "printing", "failing", "refusing", "refused", "ended"}

(***************************************************************************)
(* An owner is inside of its call exactly while the host runs a request,   *)
(* its child lives only between start and clean-up, a group that outlives  *)
(* the clean-up is reported, and the call of an owner that lost its group  *)
(* raises, which ends the search.                                          *)
(***************************************************************************)
OwnerInv ==
    /\ pc = "running" <=> own # "idle"
    /\ child = "running" => own \in {"watching", "killing"}
    /\ heirs => own \in {"watching", "killing"} \/ cleanup = "incomplete"
    /\ lost # "none" => own = "raised" \/ pc \in Leaving

LEMMA OwnerStarts == Init => OwnerInv
BY DEF Init, ProcessInit, OwnerInv

\* Raise leads out when the host stands in a replay, since reduce gives up
\* its search and every other operation its command.
LEMMA RaiseLeaves == Raise => pc' \in {"finish", "failing"}
BY DEF Raise

LEMMA RaiseFromLeaving == Raise => pc' \in Leaving /\ pc' # "running"
BY RaiseLeaves DEF Leaving

\* The steps of the host outside of a request touch no process.
LEMMA BetweenRequests ==
    ASSUME OwnerInv,
           \/ Inadmissible \/ Malformed \/ Contradictory \/ Answered \/ Reuse
           \/ Classify \/ Search \/ Receipt \/ Finish \/ Write \/ PrintResult
           \/ RecordFailure \/ Recorded \/ Refused
    PROVE  OwnerInv'
<1>1. UNCHANGED processVars
    BY DEF Inadmissible, Malformed, Contradictory, Answered, Reuse, Classify, Search,
           Receipt, Finish, Write, PrintResult, RecordFailure, Recorded, Refused
<1>2. pc # "running" /\ pc' # "running"
    <2>1. CASE Inadmissible \/ Malformed \/ Contradictory \/ Reuse
        BY <2>1, RaiseFromLeaving DEF Inadmissible, Malformed, Contradictory, Reuse
    <2>2. CASE Answered
        BY <2>2 DEF Answered
    <2>3. CASE Classify
        BY <2>3 DEF Classify, FirstBaseline, SecondBaseline, Tried, BestReplayed,
                    Compared, Row, BeginReplay
    <2>4. CASE Search
        BY <2>4 DEF Search, EndSearch, BeginReplay
    <2>5. CASE Receipt \/ Finish \/ Write \/ PrintResult \/ RecordFailure \/ Recorded
               \/ Refused
        BY <2>5 DEF Receipt, Finish, Write, PrintResult, RecordFailure, Recorded, Refused
    <2> QED
        BY <2>1, <2>2, <2>3, <2>4, <2>5
<1>3. pc \in Leaving => pc' \in Leaving
    <2> SUFFICES ASSUME pc \in Leaving PROVE pc' \in Leaving
        OBVIOUS
    <2>1. Finish \/ Write \/ PrintResult \/ RecordFailure \/ Recorded \/ Refused
        BY DEF Leaving, Inadmissible, Malformed, Contradictory, Answered, Reuse,
               Classify, Search, Receipt
    <2> QED
        BY <2>1 DEF Leaving, Finish, Write, PrintResult, RecordFailure, Recorded, Refused
<1> QED
    BY <1>1, <1>2, <1>3 DEF OwnerInv, processVars

\* The owner itself: the group is given up only by a call that raises.
LEMMA OwnerSteps ==
    ASSUME OwnerInv, Run
    PROVE  OwnerInv'
<1>1. pc = "running" /\ pc' = "running" /\ Owner
    BY DEF Run, hostVars
<1>2. CASE Start
    BY <1>1, <1>2 DEF Start, OwnerInv, Leaving
<1>3. CASE Watch
    BY <1>1, <1>3 DEF Watch, Turn, OwnerInv, Leaving
<1>4. CASE Kill
    BY <1>1, <1>4 DEF Kill, OwnerInv, Leaving
<1>5. CASE Close
    BY <1>1, <1>5 DEF Close, OwnerInv, Leaving
<1>6. CASE Leave
    <2>1. lost # "none" => own = "raised"
        BY <1>1 DEF OwnerInv, Leaving
    <2>2. lost = "none" /\ own = "leaving"
        BY <1>6, <2>1 DEF Leave
    <2> QED
        BY <1>1, <1>6, <2>2 DEF Leave, OwnerInv, Leaving
<1> QED
    BY <1>1, <1>2, <1>3, <1>4, <1>5, <1>6 DEF Owner

\* The runner, its group and the clock.
LEMMA RunnerSteps ==
    ASSUME OwnerInv, Runner \/ Deadline, UNCHANGED hostVars
    PROVE  OwnerInv'
BY DEF Runner, RunnerPrints, RunnerWrites, RunnerForks, RunnerExits, HeirsExit,
       LostWrites, LostExits, Deadline, hostVars, OwnerInv, Leaving

\* A request registers its owner; when its process failed the exception ends
\* the search.
LEMMA RequestSteps ==
    ASSUME OwnerInv, Request \/ Ran
    PROVE  OwnerInv'
<1>1. CASE Request
    BY <1>1 DEF Request, Enter, OwnerInv, Leaving
<1>2. CASE Ran
    <2>1. pc' # "running" /\ (own = "raised" => pc' \in Leaving)
        BY <1>2, RaiseFromLeaving DEF Ran
    <2> QED
        BY <1>2, <2>1 DEF Ran, OwnerInv, Leaving
<1> QED
    BY <1>1, <1>2

\* A signal, whether an owner records it or it raises.
LEMMA SignalSteps ==
    ASSUME OwnerInv, Signal
    PROVE  OwnerInv'
<1>1. CASE Owned /\ Flag /\ UNCHANGED pc
    BY <1>1 DEF Flag, OwnerInv, Leaving
<1>2. CASE /\ ~Owned /\ Raise /\ own' = "idle"
           /\ UNCHANGED <<child, heirs, cleanup, lost>>
    <2>1. pc' \in Leaving /\ pc' # "running"
        BY <1>2, RaiseFromLeaving
    <2> QED
        BY <1>2, <2>1 DEF OwnerInv, Owned
<1>3. CASE /\ pc \in {"failing", "refusing", "refused"} /\ pc' \in {"refused", "ended"}
           /\ UNCHANGED processVars
    BY <1>3 DEF OwnerInv, Leaving, processVars
<1> QED
    BY <1>1, <1>2, <1>3 DEF Signal

LEMMA OwnerInvariant == Spec => []OwnerInv
<1>1. OwnerInv /\ [Next]_vars => OwnerInv'
    <2> SUFFICES ASSUME OwnerInv, [Next]_vars PROVE OwnerInv'
        OBVIOUS
    <2>1. CASE Host
        BY <2>1, RequestSteps, OwnerSteps, BetweenRequests DEF Host
    <2>2. CASE World
        BY <2>2, SignalSteps, RunnerSteps DEF World
    <2>3. CASE UNCHANGED vars
        BY <2>3 DEF vars, processVars, hostVars, OwnerInv
    <2> QED
        BY <2>1, <2>2, <2>3 DEF Next
<1> QED
    BY OwnerStarts, <1>1, PTL DEF Spec

\* After a group could not be ended no runner is started again in the
\* operation: every exception of owned_process ends the acquisition in reduce,
\* and the command in the other operations, whatever signals arrive meanwhile.
THEOREM LostGroupAlwaysStops == Spec => []LostGroupStops
<1>1. OwnerInv => LostGroupStops
    BY DEF OwnerInv, LostGroupStops, Leaving
<1> QED
    BY <1>1, OwnerInvariant, PTL

-----------------------------------------------------------------------------
(* What the evidence, the budget and the search have come to               *)

\* The command is over for a reason other than its report.
Given == {"failing", "refusing", "refused", "ended"}
Reporting == {"finish", "writing", "printing"}

Within == kept + reserve =< Limit

Numbers ==
    /\ kept \in Nat /\ reserve \in Nat /\ size \in Nat /\ piped \in 0..1
    /\ at \in Nat \ {0} /\ rows \in Seq(Verdicts)
    /\ best \in Candidates /\ cand \in Candidates

\* An owner says that a group was left behind only until it leaves.
Groups == cleanup = "incomplete" => own \in {"closing", "leaving"}

(***************************************************************************)
(* What an owner returns has passed the audit of its end, nothing writes   *)
(* between two owners, and the report is admitted only with its size.      *)
(***************************************************************************)
Budget ==
    /\ own = "returned" => Within
    /\ own = "leaving" /\ primary = "none" /\ cleanup = "confirmed" => Within
    /\ own = "idle" /\ pc \notin Leaving => Within
    /\ pc = "finish" /\ op = "reduce" /\ ~failure => Within
    /\ lost = "none" /\ pc = "writing" => kept + Report =< Limit
    /\ lost = "none" /\ result = "whole" => kept =< Limit

\* The reserve holds the fingerprint from the first baseline on.
Reserved ==
    /\ stage = "baseline-0" /\ pc \notin Leaving => reserve = 1
    /\ op = "reduce" /\ stage # "baseline-0" /\ first \in Mismatches =>
        reserve = 1 + Fingerprint

\* Where an operation is in its sequence of replays, and with which candidate.
Stages ==
    /\ op = "reduce" => stage \in {"baseline-0", "baseline-1", "trial", "best"}
    /\ op = "replay" => stage = "replay"
    /\ op = "explore" => stage = "candidate"
    /\ op = "sdk" => stage = "sdk"
    /\ op \in {"reduce", "replay", "explore", "sdk"}
    /\ stage \in {"baseline-0", "baseline-1", "replay", "sdk"} => cand = Baseline
    /\ stage = "best" => cand = best
    /\ stage = "sdk" => phase \in {"explore", "values"}
    /\ stage # "sdk" => phase \in {"materialize", "replay", "values"}
    /\ pc = "classify" => phase = "values"
    /\ stage # "sdk" /\ phase = "values" => answer \in Verdicts
    /\ pc = "search" => op = "explore" \/ stage \in {"baseline-1", "trial"}
    /\ pc = "receipt" => op \in {"replay", "sdk"}
    /\ (pc \in Reporting \/ result = "whole") /\ op = "reduce" /\ ~failure => stage = "best"

\* The failure to reproduce was seen twice before the search begins.
Faulted ==
    /\ stage = "baseline-0" => evidence = {} \/ pc \in Leaving
    /\ stage = "baseline-1" => <<"baseline-0", Baseline, first>> \in evidence
    /\ op = "reduce" /\ (pc = "search" \/ stage \in {"trial", "best"}) =>
        /\ first \in Mismatches
        /\ {<<"baseline-0", Baseline, first>>, <<"baseline-1", Baseline, first>>}
               \subseteq evidence

\* No candidate known to fail like the baseline is cheaper than the best.
Best ==
    /\ stage # "baseline-0" \/ pc \notin Leaving =>
        \A c \in Candidates : <<"trial", c, first>> \in evidence => Cost[best] =< Cost[c]
    /\ best = Baseline \/ <<"trial", best, first>> \in evidence

\* A position of the order that the operation has to visit.
Wanted(i) == op = "explore" \/ Worthwhile(Order[i])

\* What a fresh execution has shown of a candidate.
Tested(c) ==
    IF op = "explore" THEN \E k \in 1..Len(rows) : <<"candidate", c, rows[k]>> \in evidence
    ELSE \E v \in Verdicts : <<"trial", c, v>> \in evidence

\* The replay of the position before the cursor is under way.
Visiting(i) == i + 1 = at /\ Replaying /\ stage \in {"trial", "candidate"} /\ cand = Order[i]

\* Behind the cursor everything wanted was executed, or is being executed.
Visited ==
    pc \notin Given /\ ~failure =>
        \A i \in 1..Len(Order) : i < at /\ Wanted(i) => Tested(Order[i]) \/ Visiting(i)

\* A search that is still called complete has left nothing ahead.
Exhausted ==
    pc \notin Given /\ ~failure /\ complete
    /\ (stage = "best" \/ (op = "explore" /\ pc \in Reporting)) =>
        \A i \in 1..Len(Order) : Wanted(i) => i < at

\* What a report states without a failure, it states on evidence.
Supported ==
    /\ op = "reduce" /\ ~failure =>
        /\ lost = "none" /\ bestReplay /\ first \in Mismatches
        /\ {<<"baseline-0", Baseline, first>>, <<"baseline-1", Baseline, first>>,
            <<"best", best, first>>} \subseteq evidence
        /\ complete => \A c \in Candidates : Worthwhile(c) => Tested(c)
    /\ op # "reduce" => lost = "none"
    /\ op \in {"replay", "sdk"} => <<op, Baseline, answer>> \in evidence
    /\ op = "explore" /\ complete => \A c \in Candidates : Tested(c)

Reports ==
    /\ pc \in Reporting \/ result = "whole" => Supported
    /\ pc = "receipt" => <<op, Baseline, answer>> \in evidence
    /\ result = "whole" => pc \in {"printing", "failing", "refused", "ended"}
    /\ result # "none" => pc \in Given \cup {"writing", "printing"}
    /\ pc = "printing" => result = "whole"
    /\ pc = "refusing" => result = "cut"
    /\ failure => ~complete /\ pc \in Leaving
    /\ exit = "0" => pc = "ended" /\ result = "whole" /\ Status = "0"

HostInv ==
    /\ OwnerInv /\ Numbers /\ Groups /\ Budget /\ Reserved
    /\ Stages /\ Faulted /\ Best /\ Visited /\ Exhausted /\ Reports

-----------------------------------------------------------------------------
(* Numbers                                                                 *)

\* A non-empty set of naturals has a least element, which Min chooses.
LEMMA MinIsLeast ==
    ASSUME NEW S, S \subseteq Nat, S # {}
    PROVE  Min(S) \in S /\ \A y \in S : Min(S) =< y
<1> DEFINE LT == {p \in Nat \X Nat : p[1] < p[2]}
<1>1. IsWellFoundedOn(LT, Nat)
    BY NatLessThanWellFounded DEF OpToRel
<1>2. PICK x \in S : \A y \in S : <<y, x>> \notin LT
    <2> HIDE DEF LT
    <2> QED
        BY <1>1, WFMin
<1>3. \A y \in S : ~ (y < x)
    BY <1>2
<1>4. \A y \in S : x =< y
    BY <1>3
<1> QED
    BY <1>4 DEF Min

\* An audit that passes.
LEMMA AuditPassed ==
    ASSUME NEW total \in Nat, NEW held \in Nat
    PROVE  AuditFails(total, held) <=> ~ (total + held =< Limit)
BY BudgetAssumption DEF AuditFails

\* The host retains a natural number of bytes.
LEMMA RetainedType ==
    ASSUME Numbers
    PROVE  Retained \in Nat
<1> DEFINE dir == IF size > OutputBytes THEN 0 ELSE OutputBytes - size
<1>1. piped \in Nat /\ Room(reserve) \in Nat /\ dir \in Nat
    BY BudgetAssumption DEF Numbers, Room
<1>2. {piped, Room(reserve), dir} \subseteq Nat /\ {piped, Room(reserve), dir} # {}
    BY <1>1
<1>3. Min({piped, Room(reserve), dir}) \in Nat
    <2> HIDE DEF dir
    <2> QED
        BY <1>2, MinIsLeast
<1> QED
    BY <1>3 DEF Retained

-----------------------------------------------------------------------------
(* The steps of the processes                                              *)

\* A command starts with the whole budget and nothing shown.
LEMMA HostStarts == Init => HostInv
<1> SUFFICES ASSUME Init PROVE HostInv
    OBVIOUS
<1>1. OwnerInv
    BY OwnerStarts
<1>2. Numbers /\ Groups /\ Budget /\ Reserved
    BY BudgetAssumption, CatalogAssumption
       DEF Init, ProcessInit, Numbers, Groups, Budget, Reserved, Within, Leaving, Verdicts,
           Mismatches
<1>3. Stages /\ Faulted /\ Best
    BY DEF Init, Stages, Faulted, Best, Reporting, Mismatches
<1>4. Visited /\ Exhausted /\ Reports
    BY DEF Init, Visited, Exhausted, Reports, Reporting, Given
<1> QED
    BY <1>1, <1>2, <1>3, <1>4 DEF HostInv

\* What the host knows does not depend on the processes, but for a group that
\* is lost, and then the host has still to learn of it.
LEMMA HostFrame ==
    ASSUME HostInv, UNCHANGED <<hostVars, reserve>>,
           lost = "none" => lost' = "none" \/ pc = "running"
    PROVE  Reserved' /\ Stages' /\ Faulted' /\ Best' /\ Visited' /\ Exhausted' /\ Reports'
<1>1. Reserved' /\ Stages' /\ Faulted' /\ Best'
    BY DEF HostInv, hostVars, replayVars, searchVars, endVars, Reserved, Stages, Faulted, Best
<1>2. Visited' /\ Exhausted'
    BY DEF HostInv, hostVars, replayVars, searchVars, endVars, Visited, Exhausted, Tested,
           Visiting, Replaying, Wanted
<1>3. Reports'
    BY DEF HostInv, hostVars, replayVars, searchVars, endVars, Reports, Supported, Tested,
           Reporting, Given, Status
<1> QED
    BY <1>1, <1>2, <1>3

\* Runners and their descendants write only while an owner watches them, or
\* after the owner has said that they are left behind.
LEMMA RunnerKeeps ==
    ASSUME HostInv, Runner \/ Deadline, UNCHANGED hostVars
    PROVE  HostInv'
<1> USE DEF HostInv, Numbers, Groups
<1>1. OwnerInv'
    BY RunnerSteps
<1>2. UNCHANGED <<own, cleanup, primary, reserve, pc, op, failure, result, at, rows, best, cand>>
      /\ (lost = "none" <=> lost' = "none")
    BY DEF Runner, RunnerPrints, RunnerWrites, RunnerForks, RunnerExits, HeirsExit,
           LostWrites, LostExits, Deadline, hostVars, searchVars, replayVars, endVars
<1>3. kept' = kept \/ child = "running" \/ heirs \/ lost = "alive"
    BY DEF Runner, RunnerPrints, RunnerWrites, RunnerForks, RunnerExits, HeirsExit,
           LostWrites, LostExits, Deadline
<1>4. Numbers' /\ Groups'
    BY <1>2 DEF Runner, RunnerPrints, RunnerWrites, RunnerForks, RunnerExits, HeirsExit,
           LostWrites, LostExits, Deadline
<1>5. Report' = Report
    BY DEF hostVars, replayVars, Report
<1>6. Budget'
    <2>1. CASE kept' = kept
        BY <1>2, <1>5, <2>1 DEF Budget, Within
    <2>2. CASE child = "running" \/ heirs
        <3>1. own \in {"watching", "killing", "closing", "leaving"}
              /\ (own \in {"closing", "leaving"} => cleanup = "incomplete")
            BY <2>2 DEF OwnerInv
        <3>2. pc = "running"
            BY <3>1 DEF OwnerInv
        <3> QED
            BY <1>2, <3>1, <3>2 DEF Budget, Reports
    <2>3. CASE lost = "alive"
        <3>1. own = "raised" \/ pc \in Leaving
            BY <2>3 DEF OwnerInv
        <3>2. pc \in Leaving => own = "idle"
            BY DEF OwnerInv, Leaving
        <3>3. pc = "finish" /\ op = "reduce" /\ ~failure => lost = "none"
            BY DEF Reports, Supported, Reporting
        <3> QED
            BY <1>2, <2>3, <3>1, <3>2, <3>3 DEF Budget
    <2> QED
        BY <1>3, <2>1, <2>2, <2>3
<1> QED
    BY <1>1, <1>2, <1>4, <1>6, HostFrame DEF HostInv

\* The owner's audit at the end of a request covers all that was written.
LEMMA OwnerKeeps ==
    ASSUME HostInv, Run
    PROVE  HostInv'
<1> USE DEF HostInv, Numbers
<1>1. OwnerInv'
    BY OwnerSteps
<1>2. /\ pc = "running" /\ Owner /\ UNCHANGED hostVars
      /\ UNCHANGED <<pc, op, failure, result, at, rows, best, cand>>
    BY DEF Run, hostVars, replayVars, searchVars, endVars
<1>3. Retained \in Nat
    BY RetainedType
<1>4. reserve' = reserve /\ kept' \in Nat /\ size' \in Nat /\ piped' \in 0..1
    <2>1. CASE Start \/ Kill \/ Leave
        <3>1. UNCHANGED <<piped, kept, reserve>> /\ (size' = size \/ size' = 0)
            BY <2>1, Zenon DEF Start, Kill, Leave, budgetVars
        <3> QED
            BY <3>1
    <2>2. CASE Watch
        <3>1. CASE cancelled
            BY <2>2, <3>1 DEF Watch
        <3>2. CASE ~ cancelled
            <4>1. /\ piped' = 0 /\ size' = size + Retained /\ kept' = kept + Retained
                  /\ reserve' = reserve
                BY <2>2, <3>2 DEF Watch
            <4> QED
                BY <1>3, <4>1
        <3> QED
            BY <3>1, <3>2
    <2>3. CASE Close
        <3>1. /\ piped' = 0 /\ size' = size + Retained /\ kept' = kept + Retained
              /\ reserve' = reserve
            BY <2>3 DEF Close
        <3> QED
            BY <1>3, <3>1
    <2> QED
        BY <1>2, <2>1, <2>2, <2>3 DEF Owner
<1>5. Groups'
    BY <1>2 DEF Owner, Start, Watch, Turn, Kill, Close, Leave, Groups
<1>6. Budget'
    <2>1. result # "whole" /\ own' # "idle"
        BY <1>1, <1>2 DEF Reports, OwnerInv
    <2>2. CASE own' \notin {"leaving", "returned"}
        BY <1>2, <2>1, <2>2 DEF Budget
    <2>3. CASE Close
        <3>1. own' = "leaving"
              /\ (primary' = "none" => ~ RequestAuditFails(kept', size'))
            <4>1. CASE primary # "none" \/ ~ RequestAuditFails(kept', size')
                BY <2>3, <4>1 DEF Close
            <4>2. CASE primary = "none" /\ RequestAuditFails(kept', size')
                BY <2>3, <4>2 DEF Close
            <4> QED
                BY <4>1, <4>2
        <3>2. primary' = "none" => Within'
            <4>1. primary' = "none" => ~ AuditFails(kept', reserve)
                BY <3>1 DEF RequestAuditFails
            <4>2. kept' \in Nat /\ reserve \in Nat /\ reserve' = reserve
                BY <1>4
            <4>3. ~ AuditFails(kept', reserve) => kept' + reserve =< Limit
                BY <4>2, AuditPassed
            <4> QED
                BY <4>1, <4>2, <4>3, Zenon DEF Within
        <3> QED
            BY <1>2, <2>1, <3>1, <3>2 DEF Budget
    <2>4. CASE Leave
        BY <1>2, <1>4, <2>1, <2>4 DEF Leave, Budget, Within, budgetVars
    <2>5. Start \/ Watch \/ Kill => own' \notin {"leaving", "returned"}
        BY DEF Start, Watch, Turn, Kill
    <2> QED
        BY <1>2, <2>2, <2>3, <2>4, <2>5 DEF Owner
<1> QED
    BY <1>1, <1>2, <1>4, <1>5, <1>6, HostFrame DEF HostInv

-----------------------------------------------------------------------------
(* The steps of the host                                                   *)

\* An exception leaves the evidence as it is; in a trial or in the replay of
\* the best it is the reported failure, elsewhere it ends the command.
LEMMA RaiseKeeps ==
    ASSUME HostInv, Raise, OwnerInv', own' = "idle", lost' = lost, cleanup' = cleanup,
           own \notin {"closing", "leaving"},
           UNCHANGED <<op, replayVars, endVars, evidence, budgetVars, size>>,
           piped' \in 0..1, pc \notin Given
    PROVE  HostInv'
<1> USE DEF HostInv, replayVars, endVars, budgetVars
<1>1. Numbers' /\ Groups'
    BY DEF Raise, searchVars, Numbers, Groups
<1>2. CASE pc' = "failing" /\ UNCHANGED searchVars
    <2>1. Budget'
        BY <1>2 DEF Budget, Leaving
    <2>2. Reserved' /\ Stages' /\ Faulted'
        BY <1>2 DEF searchVars, Reserved, Stages, Faulted, Leaving, Reporting
    <2>3. Best'
        BY <1>2 DEF searchVars, Best, Leaving
    <2>4. Visited' /\ Exhausted'
        BY <1>2 DEF Visited, Exhausted, Given
    <2>5. Reports'
        BY <1>2 DEF searchVars, Reports, Supported, Tested, Reporting, Given, Leaving, Status
    <2> QED
        BY <1>1, <2>1, <2>2, <2>3, <2>4, <2>5
<1>3. CASE /\ Replaying /\ stage \in {"trial", "best"} /\ pc' = "finish"
           /\ failure' = TRUE /\ complete' = FALSE
           /\ UNCHANGED <<at, first, best, bestReplay, rows>>
    <2>1. op = "reduce"
        BY <1>3 DEF Stages
    <2>2. pc \notin Leaving /\ result = "none"
        BY <1>3 DEF Replaying, Leaving, Reports, Given
    <2>3. Budget'
        BY <1>3, <2>2 DEF Budget, Leaving
    <2>4. Reserved' /\ Stages' /\ Faulted'
        BY <1>3, <2>1, <2>2 DEF Reserved, Stages, Faulted, Leaving, Reporting
    <2>5. Best'
        BY <1>3, <2>2 DEF Best, Leaving
    <2>6. Visited' /\ Exhausted'
        BY <1>3 DEF Visited, Exhausted
    <2>7. Reports'
        BY <1>3, <2>1, <2>2 DEF Reports, Supported, Reporting, Given, Leaving
    <2> QED
        BY <1>1, <2>3, <2>4, <2>5, <2>6, <2>7
<1> QED
    BY <1>2, <1>3 DEF Raise

\* The host does not raise within a call of its owner, nor after its report.
LEMMA HostRaises ==
    ASSUME HostInv, \/ Inadmissible \/ Malformed \/ Contradictory \/ Reuse
                    \/ Ran /\ own = "raised"
    PROVE  HostInv'
<1>1. OwnerInv'
    BY BetweenRequests, RequestSteps DEF HostInv
<1>2. own \notin {"closing", "leaving"} /\ own' = "idle" /\ pc \notin Given
    BY DEF Inadmissible, Malformed, Contradictory, Reuse, Ran, HostInv, OwnerInv, processVars,
           Given
<1>3. piped' \in 0..1 /\ lost' = lost /\ cleanup' = cleanup /\ size' = size
    BY DEF Inadmissible, Malformed, Contradictory, Reuse, Ran, processVars, HostInv, Numbers
<1> QED
    BY <1>1, <1>2, <1>3, RaiseKeeps DEF Inadmissible, Malformed, Contradictory, Reuse, Ran

\* A request starts from nothing and a response that passes moves the replay on.
LEMMA RequestKeeps ==
    ASSUME HostInv, Request \/ (Ran /\ own = "returned")
    PROVE  HostInv'
<1> USE DEF HostInv, searchVars, replayVars, endVars, budgetVars
<1>1. OwnerInv'
    BY RequestSteps
<1>2. /\ UNCHANGED <<op, searchVars, replayVars, endVars, evidence, budgetVars>>
      /\ pc \in {"request", "running"} /\ pc' \in {"running", "answered"}
      /\ lost' = lost /\ size' \in {size, 0} /\ piped' = 0
      /\ \/ own' = "entered" /\ cleanup' = "confirmed"
         \/ own = "returned" /\ own' = "idle" /\ cleanup' = cleanup
    BY DEF Request, Enter, Ran
<1>3. Numbers'
    BY <1>2 DEF Numbers
<1>4. Groups'
    BY <1>2 DEF Groups
<1>5. Budget'
    BY <1>2 DEF Budget, Within, Report, Reports, Given
<1>6. Reserved' /\ Stages' /\ Faulted' /\ Best'
    BY <1>2 DEF Reserved, Stages, Faulted, Best, Leaving, Reporting
<1>7. Visited' /\ Exhausted'
    BY <1>2 DEF Visited, Exhausted, Tested, Visiting, Wanted, Replaying, Given, Reporting
<1>8. Reports'
    BY <1>2 DEF Reports, Reporting, Given, Leaving
<1> QED
    BY <1>1, <1>3, <1>4, <1>5, <1>6, <1>7, <1>8

\* The response of a replay brings a verdict, which the value checks keep.
LEMMA AnsweredKeeps ==
    ASSUME HostInv, Answered
    PROVE  HostInv'
<1> USE DEF HostInv, searchVars, endVars, budgetVars, processVars
<1>1. OwnerInv'
    BY BetweenRequests
<1>2. /\ UNCHANGED <<op, stage, cand, searchVars, endVars, evidence, budgetVars>>
      /\ UNCHANGED <<own, lost, cleanup, size, piped, primary>>
      /\ pc = "answered" /\ pc' \in {"request", "classify"}
      /\ pc' = "classify" => phase' = "values"
    BY DEF Answered
<1>3. Numbers' /\ Groups'
    BY <1>2 DEF Numbers, Groups
<1>4. Budget'
    BY <1>1, <1>2 DEF Budget, Within, Leaving, OwnerInv
<1>5. /\ stage = "sdk" => phase' \in {"explore", "values"}
      /\ stage # "sdk" => phase' \in {"materialize", "replay", "values"}
      /\ stage # "sdk" /\ phase' = "values" => answer' \in Verdicts
    BY <1>2 DEF Answered, Answers, Stages
<1>6. Stages'
    BY <1>2, <1>5 DEF Stages, Reporting
<1>7. Reserved' /\ Faulted' /\ Best'
    BY <1>2 DEF Reserved, Faulted, Best, Leaving
<1>8. Visited' /\ Exhausted'
    BY <1>2 DEF Visited, Exhausted, Tested, Visiting, Wanted, Replaying, Given, Reporting
<1>9. Reports'
    BY <1>2 DEF Reports, Reporting, Given, Leaving
<1> QED
    BY <1>1, <1>3, <1>4, <1>6, <1>7, <1>8, <1>9

\* What is shown once stays shown.
LEMMA EvidenceGrows == Classify => evidence \subseteq evidence'
BY DEF Classify

\* The two replays of the baseline.
LEMMA BaselineKeeps ==
    ASSUME HostInv, Classify, FirstBaseline \/ SecondBaseline
    PROVE  HostInv'
<1> USE DEF HostInv, endVars, processVars, budgetVars
<1>1. OwnerInv'
    BY BetweenRequests
<1>2. /\ UNCHANGED <<op, endVars, processVars>> /\ pc = "classify"
      /\ evidence' = evidence \cup {<<stage, cand, answer>>}
      /\ kept' = kept /\ own = "idle" /\ Within /\ result = "none" /\ exit # "0" /\ ~failure
      /\ op = "reduce" /\ cand = Baseline /\ answer \in Verdicts
    BY DEF Classify, FirstBaseline, SecondBaseline, OwnerInv, Budget, Leaving, Reports, Given,
           Stages
<1>3. CASE FirstBaseline
    <2>1. /\ stage = "baseline-0" /\ evidence = {} /\ reserve = 1 /\ first' = answer
          /\ UNCHANGED <<at, best, complete, failure, bestReplay, rows>>
          /\ reserve' = reserve + (IF answer \in Mismatches THEN Fingerprint ELSE 0)
          /\ reserve' \in Nat
        BY <1>2, <1>3, CatalogAssumption DEF FirstBaseline, Faulted, Reserved, Leaving
    <2>2. \/ pc' = "failing" /\ UNCHANGED replayVars
          \/ /\ Within' /\ pc' = "request" /\ stage' = "baseline-1" /\ cand' = Baseline
             /\ phase' = "materialize"
        <3>1. Within' <=> ~ AuditFails(kept, reserve')
            BY <1>2, <2>1, AuditPassed DEF Within, Numbers
        <3> QED
            BY <1>3, <3>1 DEF FirstBaseline, BeginReplay
    <2>3. Numbers' /\ Groups'
        BY <1>2, <2>1, <2>2, CatalogAssumption DEF Numbers, Groups, replayVars
    <2>4. Budget'
        BY <1>2, <2>2 DEF Budget, Leaving
    <2>5. Reserved'
        BY <1>2, <2>1, <2>2 DEF Reserved, Leaving, replayVars
    <2>6. Stages'
        BY <1>2, <2>1, <2>2 DEF Stages, Reporting, replayVars
    <2>7. Faulted' /\ Best'
        BY <1>2, <2>1, <2>2 DEF Faulted, Best, Leaving, replayVars
    <2>8. Visited' /\ Exhausted'
        BY <1>2, <2>1, <2>2 DEF Visited, Exhausted, Visiting, Tested, Wanted, Given, Reporting,
           Replaying, replayVars
    <2>9. Reports'
        BY <1>2, <2>1, <2>2 DEF Reports, Reporting, Given, Leaving
    <2> QED
        BY <1>1, <2>3, <2>4, <2>5, <2>6, <2>7, <2>8, <2>9
<1>4. CASE SecondBaseline
    <2>1. /\ stage = "baseline-1" /\ UNCHANGED <<replayVars, searchVars, reserve>>
          /\ \/ pc' = "failing"
             \/ pc' = "search" /\ first \in Mismatches /\ answer = first
        BY <1>4 DEF SecondBaseline
    <2> USE DEF replayVars, searchVars
    <2>2. Numbers' /\ Groups'
        BY <1>2, <2>1 DEF Numbers, Groups
    <2>3. Budget'
        BY <1>2, <2>1 DEF Budget, Leaving, Within
    <2>4. Reserved' /\ Stages'
        BY <1>2, <2>1 DEF Reserved, Stages, Leaving, Reporting
    <2>5. Faulted' /\ Best'
        BY <1>2, <2>1 DEF Faulted, Best, Leaving
    <2>6. Visited' /\ Exhausted'
        BY <1>2, <2>1 DEF Visited, Exhausted, Visiting, Tested, Wanted, Given, Reporting,
           Replaying
    <2>7. Reports'
        BY <1>2, <2>1 DEF Reports, Reporting, Given, Leaving
    <2> QED
        BY <1>1, <2>2, <2>3, <2>4, <2>5, <2>6, <2>7
<1> QED
    BY <1>3, <1>4

\* A conclusive trial: what fails like the baseline is the best, or not cheaper.
LEMMA TriedKeeps ==
    ASSUME HostInv, Classify, Tried
    PROVE  HostInv'
<1> USE DEF HostInv, endVars, processVars, budgetVars, replayVars
<1>1. OwnerInv'
    BY BetweenRequests
<1>2. /\ UNCHANGED <<op, endVars, processVars, budgetVars, replayVars>> /\ pc = "classify"
      /\ UNCHANGED <<at, first, complete, failure, bestReplay, rows>>
      /\ evidence' = evidence \cup {<<stage, cand, answer>>}
      /\ pc' = "search" /\ own = "idle" /\ Within /\ result = "none" /\ exit # "0" /\ ~failure
      /\ op = "reduce" /\ stage = "trial" /\ answer \in Verdicts /\ first \in Mismatches
      /\ best' = IF Disposition(answer) = "same" /\ Cheaper(cand) THEN cand ELSE best
    BY DEF Classify, Tried, OwnerInv, Budget, Leaving, Reports, Given, Stages, Faulted
<1>3. Disposition(answer) = "same" <=> answer = first
    BY <1>2 DEF Disposition, Mismatches
<1>4. Numbers' /\ Groups'
    BY <1>2 DEF Numbers, Groups
<1>5. Budget'
    BY <1>2 DEF Budget, Leaving, Within
<1>6. Reserved' /\ Stages'
    BY <1>2 DEF Reserved, Stages, Leaving, Reporting
<1>7. Faulted'
    BY <1>2 DEF Faulted, Leaving
<1>8. Best'
    <2>1. Cost[best] \in Nat /\ Cost[cand] \in Nat /\ \A c \in Candidates : Cost[c] \in Nat
        BY CatalogAssumption DEF Numbers
    <2>2. ASSUME NEW c \in Candidates, <<"trial", c, first>> \in evidence'
          PROVE  Cost[best'] =< Cost[c]
        <3>1. CASE <<"trial", c, first>> \in evidence
            BY <1>2, <2>1, <3>1 DEF Best, Cheaper
        <3>2. CASE c = cand /\ answer = first
            BY <1>2, <1>3, <2>1, <3>2 DEF Cheaper
        <3> QED
            BY <1>2, <2>2, <3>1, <3>2
    <2>3. best' = Baseline \/ <<"trial", best', first>> \in evidence'
        BY <1>2, <1>3 DEF Best
    <2> QED
        BY <1>2, <2>2, <2>3 DEF Best
<1>9. Visited'
    <2>1. ASSUME NEW i \in 1..Len(Order), i < at, Wanted(i)
          PROVE  Tested(Order[i])'
        <3>1. CASE Tested(Order[i])
            BY <1>2, <3>1 DEF Tested
        <3>2. CASE Visiting(i)
            BY <1>2, <3>2 DEF Visiting, Tested
        <3> QED
            BY <1>2, <2>1, <3>1, <3>2 DEF Visited, Given
    <2> QED
        BY <1>2, <2>1 DEF Visited, Wanted
<1>10. Exhausted'
    BY <1>2 DEF Exhausted
<1>11. Reports'
    BY <1>2 DEF Reports, Reporting, Given, Leaving
<1> QED
    BY <1>1, <1>4, <1>5, <1>6, <1>7, <1>8, <1>9, <1>10, <1>11

\* A replay of the best that does not fail like the baseline is a failure; one
\* that does completes what the search has shown.
LEMMA BestReplayedKeeps ==
    ASSUME HostInv, Classify, BestReplayed
    PROVE  HostInv'
<1> USE DEF HostInv, endVars, processVars, budgetVars, replayVars
<1>1. OwnerInv'
    BY BetweenRequests
<1>2. /\ UNCHANGED <<op, endVars, processVars, budgetVars, replayVars>> /\ pc = "classify"
      /\ UNCHANGED <<at, first, best, rows>>
      /\ evidence' = evidence \cup {<<stage, cand, answer>>}
      /\ pc' = "finish" /\ own = "idle" /\ Within /\ result = "none" /\ exit # "0" /\ ~failure
      /\ op = "reduce" /\ stage = "best" /\ cand = best
      /\ bestReplay' = (answer = first) /\ failure' = (answer # first)
      /\ complete' = (complete /\ answer = first)
    BY DEF Classify, BestReplayed, OwnerInv, Budget, Leaving, Reports, Given, Stages
<1>3. Numbers' /\ Groups'
    BY <1>2 DEF Numbers, Groups
<1>4. Budget'
    BY <1>2 DEF Budget, Leaving, Within
<1>5. Reserved' /\ Stages'
    BY <1>2 DEF Reserved, Stages, Leaving, Reporting
<1>6. Faulted' /\ Best'
    BY <1>2 DEF Faulted, Best, Leaving
<1>7. \A i \in 1..Len(Order) : Wanted(i) /\ i < at => Tested(Order[i])
    BY <1>2 DEF Visited, Visiting, Given
<1>8. \A c \in Candidates : Tested(c) => Tested(c)'
    BY <1>2 DEF Tested
<1>9. \A i \in 1..Len(Order) : Order[i] \in Candidates
    BY DEF Candidates
<1>10. Visited'
    BY <1>2, <1>7, <1>8, <1>9 DEF Visited, Wanted
<1>11. Exhausted'
    BY <1>2 DEF Exhausted, Wanted, Given, Reporting
<1>12. Reports'
    <2>1. complete' => \A c \in Candidates : Worthwhile(c) => Tested(c)'
        <3> SUFFICES ASSUME complete', NEW i \in 1..Len(Order), Worthwhile(Order[i])
                     PROVE  Tested(Order[i])'
            BY DEF Candidates
        <3>1. i < at
            BY <1>2 DEF Exhausted, Wanted, Given
        <3> QED
            BY <1>7, <1>8, <1>9, <3>1 DEF Wanted
    <2>2. failure' \/ (answer = first /\ bestReplay')
        BY <1>2
    <2>3. failure' => ~ complete'
        BY <1>2
    <2>4. lost' = "none"
        BY <1>2 DEF OwnerInv, Leaving
    <2>5. Supported'
        BY <1>2, <2>1, <2>2, <2>4 DEF Supported, Faulted
    <2> QED
        BY <1>2, <2>3, <2>5 DEF Reports, Reporting, Given, Leaving
<1> QED
    BY <1>1, <1>3, <1>4, <1>5, <1>6, <1>10, <1>11, <1>12

\* A single replay and an exploration of the SDK's space are their own evidence.
LEMMA ComparedKeeps ==
    ASSUME HostInv, Classify, Compared
    PROVE  HostInv'
<1> USE DEF HostInv, endVars, processVars, budgetVars, replayVars, searchVars
<1>1. OwnerInv'
    BY BetweenRequests
<1>2. /\ UNCHANGED <<op, endVars, processVars, budgetVars, replayVars, searchVars>>
      /\ evidence' = evidence \cup {<<stage, cand, answer>>} /\ pc = "classify"
      /\ pc' = "receipt" /\ own = "idle" /\ Within /\ result = "none" /\ exit # "0" /\ ~failure
      /\ op \in {"replay", "sdk"} /\ stage = op /\ cand = Baseline
    BY DEF Classify, Compared, OwnerInv, Budget, Leaving, Reports, Given, Stages
<1>3. Numbers' /\ Groups'
    BY <1>2 DEF Numbers, Groups
<1>4. Budget'
    BY <1>2 DEF Budget, Leaving, Within
<1>5. Reserved' /\ Stages'
    BY <1>2 DEF Reserved, Stages, Leaving, Reporting
<1>6. Faulted' /\ Best'
    BY <1>2 DEF Faulted, Best, Leaving
<1>7. Visited'
    BY <1>2 DEF Visited, Visiting, Tested, Wanted, Given, Replaying
<1>8. Exhausted'
    BY <1>2 DEF Exhausted, Reporting
<1>9. Reports'
    BY <1>2 DEF Reports, Reporting, Given, Leaving
<1> QED
    BY <1>1, <1>3, <1>4, <1>5, <1>6, <1>7, <1>8, <1>9

\* A row more of the catalog.
LEMMA RowKeeps ==
    ASSUME HostInv, Classify, Row
    PROVE  HostInv'
<1> USE DEF HostInv, endVars, processVars, budgetVars, replayVars
<1>1. OwnerInv'
    BY BetweenRequests
<1>2. /\ UNCHANGED <<op, endVars, processVars, budgetVars, replayVars>> /\ pc = "classify"
      /\ UNCHANGED <<at, first, best, complete, failure, bestReplay>>
      /\ rows' = Append(rows, answer) /\ answer \in Verdicts
      /\ evidence' = evidence \cup {<<stage, cand, answer>>}
      /\ pc' = "search" /\ own = "idle" /\ Within /\ result = "none" /\ exit # "0" /\ ~failure
      /\ op = "explore" /\ stage = "candidate"
    BY DEF Classify, Row, OwnerInv, Budget, Leaving, Reports, Given, Stages
<1>3. /\ rows' \in Seq(Verdicts) /\ Len(rows) \in Nat /\ Len(rows') = Len(rows) + 1
      /\ rows'[Len(rows) + 1] = answer /\ \A k \in 1..Len(rows) : rows'[k] = rows[k]
    BY <1>2 DEF Numbers
<1>4. Numbers' /\ Groups'
    BY <1>2, <1>3 DEF Numbers, Groups
<1>5. Budget'
    BY <1>2 DEF Budget, Leaving, Within
<1>6. Reserved' /\ Stages'
    BY <1>2 DEF Reserved, Stages, Leaving, Reporting
<1>7. Faulted' /\ Best'
    BY <1>2 DEF Faulted, Best, Leaving
<1>8. Visited'
    <2>1. ASSUME NEW i \in 1..Len(Order), i < at
          PROVE  Tested(Order[i])'
        <3>1. CASE Tested(Order[i])
            <4>1. PICK k \in 1..Len(rows) : <<"candidate", Order[i], rows[k]>> \in evidence
                BY <1>2, <3>1 DEF Tested
            <4>2. k \in 1..Len(rows') /\ <<"candidate", Order[i], rows'[k]>> \in evidence'
                BY <1>2, <1>3, <4>1
            <4> QED
                BY <1>2, <4>2 DEF Tested
        <3>2. CASE Visiting(i)
            <4>1. Len(rows') \in 1..Len(rows') /\ rows'[Len(rows')] = answer
                BY <1>3
            <4>2. <<"candidate", Order[i], answer>> \in evidence'
                BY <1>2, <3>2 DEF Visiting
            <4> QED
                BY <1>2, <4>1, <4>2 DEF Tested
        <3> QED
            BY <1>2, <2>1, <3>1, <3>2 DEF Visited, Given, Wanted
    <2> QED
        BY <1>2, <2>1 DEF Visited
<1>9. Exhausted'
    BY <1>2 DEF Exhausted, Reporting
<1>10. Reports'
    BY <1>2 DEF Reports, Reporting, Given, Leaving
<1> QED
    BY <1>1, <1>4, <1>5, <1>6, <1>7, <1>8, <1>9, <1>10

\* The search passes over what is not wanted, and only what is ahead is left.
LEMMA SearchKeeps ==
    ASSUME HostInv, Search
    PROVE  HostInv'
<1> USE DEF HostInv, endVars, processVars, budgetVars
<1>1. OwnerInv'
    BY BetweenRequests
<1>2. /\ UNCHANGED <<op, first, best, failure, bestReplay, rows, endVars, evidence>>
      /\ UNCHANGED <<processVars, budgetVars>>
      /\ pc = "search" /\ own = "idle" /\ Within /\ result = "none" /\ exit # "0" /\ ~failure
      /\ op \in {"reduce", "explore"} /\ lost = "none"
      /\ stage = "candidate" \/ first \in Mismatches
    BY DEF Search, OwnerInv, Budget, Leaving, Reports, Given, Stages, Faulted
<1>3. Numbers /\ Ahead \subseteq Nat /\ Len(Order) \in Nat
    BY CatalogAssumption DEF Ahead, Numbers
<1>4. \A i \in 1..Len(Order) : i < at /\ Wanted(i) => Tested(Order[i])
    BY <1>2 DEF Visited, Visiting, Given, Replaying
<1>5. \A c : Tested(c)' <=> Tested(c)
    BY <1>2 DEF Tested
<1>6. CASE EndSearch /\ UNCHANGED at /\ ((Ahead = {} /\ complete' = complete) \/ complete' = FALSE)
    <2>1. \/ op = "explore" /\ pc' = "finish" /\ UNCHANGED replayVars
          \/ /\ op = "reduce" /\ pc' = "request" /\ stage' = "best" /\ cand' = best
             /\ phase' = "materialize"
        BY <1>2, <1>6 DEF EndSearch, BeginReplay
    <2> USE DEF replayVars
    <2>2. Numbers' /\ Groups'
        BY <1>2, <1>6, <2>1 DEF Numbers, Groups
    <2>3. Budget'
        BY <1>2, <2>1 DEF Budget, Leaving, Within
    <2>4. Reserved' /\ Stages'
        BY <1>2, <2>1 DEF Reserved, Stages, Leaving, Reporting
    <2>5. Faulted' /\ Best'
        BY <1>2, <2>1 DEF Faulted, Best, Leaving
    <2>6. Visited'
        BY <1>2, <1>4, <1>5, <1>6 DEF Visited, Wanted
    <2>7. complete' => \A i \in 1..Len(Order) : Wanted(i) => i < at
        BY <1>3, <1>6 DEF Ahead, Wanted, Numbers
    <2>8. Exhausted'
        BY <1>2, <1>6, <2>7 DEF Exhausted, Wanted
    <2>9. Supported' \/ op = "reduce"
        <3> SUFFICES ASSUME op = "explore", complete', NEW i \in 1..Len(Order)
                     PROVE  Tested(Order[i])'
            BY <1>2 DEF Supported, Candidates
        <3> QED
            BY <1>4, <1>5, <2>7 DEF Wanted
    <2>10. Reports'
        BY <1>2, <2>1, <2>9 DEF Reports, Reporting, Given, Leaving
    <2> QED
        BY <1>1, <2>2, <2>3, <2>4, <2>5, <2>6, <2>8, <2>10
<1>7. CASE /\ Ahead # {} /\ at' = Min(Ahead) + 1 /\ complete' = complete
           /\ BeginReplay(IF op = "explore" THEN "candidate" ELSE "trial", Order[Min(Ahead)])
    <2>1. PICK m \in Ahead : m = Min(Ahead) /\ \A i \in Ahead : m =< i
        BY <1>3, <1>7, MinIsLeast
    <2>2. m \in 1..Len(Order) /\ m >= at
        BY <1>3, <2>1 DEF Ahead, Numbers
    <2>3. /\ pc' = "request" /\ stage' = (IF op = "explore" THEN "candidate" ELSE "trial")
          /\ cand' = Order[m] /\ phase' = "materialize" /\ at' = m + 1
        BY <1>7, <2>1 DEF BeginReplay
    <2>4. Order[m] \in Candidates /\ at' \in Nat \ {0}
        BY <2>2, <2>3 DEF Candidates
    <2>5. Numbers' /\ Groups'
        BY <1>2, <2>3, <2>4 DEF Numbers, Groups
    <2>6. Budget'
        BY <1>2, <2>3 DEF Budget, Leaving, Within
    <2>7. Reserved' /\ Stages'
        BY <1>2, <2>3 DEF Reserved, Stages, Leaving, Reporting
    <2>8. Faulted' /\ Best'
        BY <1>2, <2>3 DEF Faulted, Best, Leaving
    <2>9. Visited'
        <3>1. ASSUME NEW i \in 1..Len(Order), i < at', Wanted(i), ~ Tested(Order[i])
              PROVE  i = m
            <4>1. i >= at /\ i =< m
                BY <1>3, <1>4, <2>2, <2>3, <3>1 DEF Numbers
            <4>2. i \in Ahead
                BY <1>3, <3>1, <4>1 DEF Ahead, Wanted, Numbers
            <4> QED
                BY <1>3, <2>1, <2>2, <4>1, <4>2
        <3>2. Visiting(m)'
            BY <2>3 DEF Visiting, Replaying
        <3> QED
            BY <1>2, <1>5, <3>1, <3>2 DEF Visited, Wanted
    <2>10. Exhausted'
        BY <1>2, <2>3 DEF Exhausted, Reporting
    <2>11. Reports'
        BY <1>2, <1>7, <2>3 DEF Reports, Reporting, Given, Leaving
    <2> QED
        BY <1>1, <2>5, <2>6, <2>7, <2>8, <2>9, <2>10, <2>11
<1> QED
    BY <1>6, <1>7 DEF Search

\* The end of a command moves through the report and leaves the search alone.
LEMMA EndFrame ==
    ASSUME HostInv, \/ Receipt \/ Finish \/ Write \/ PrintResult \/ RecordFailure
                    \/ Recorded \/ Refused
    PROVE  /\ OwnerInv' /\ Groups' /\ Faulted' /\ Best' /\ Visited' /\ Exhausted'
           /\ Reserved' /\ own' = "idle" /\ lost' = lost
           /\ UNCHANGED <<op, replayVars, searchVars, evidence>>
<1> USE DEF HostInv, processVars, replayVars, searchVars, budgetVars
<1>1. OwnerInv'
    BY BetweenRequests
<1>2. /\ UNCHANGED <<op, replayVars, searchVars, evidence, processVars>>
      /\ pc # "running" /\ reserve' = reserve
    BY DEF Receipt, Finish, Write, PrintResult, RecordFailure, Recorded, Refused
<1>3. own = "idle" /\ own' = "idle" /\ lost' = lost
    BY <1>2 DEF OwnerInv
<1>4. \/ pc = "receipt" /\ pc' \in {"finish", "failing"}
      \/ pc \in Reporting \cup Given /\ pc' \in Reporting \cup Given
         /\ (pc' \in Reporting => pc \in Reporting)
    BY DEF Receipt, Finish, Write, PrintResult, RecordFailure, Recorded, Refused, Reporting,
           Given
<1>5. pc' \in Leaving /\ (pc = "receipt" \/ pc \in Leaving) /\ pc' # "search"
    BY <1>4 DEF Leaving, Reporting, Given
<1>6. Groups' /\ Reserved' /\ Faulted' /\ Best'
    BY <1>2, <1>5 DEF Groups, Reserved, Faulted, Best, Leaving
<1>7. Visited'
    BY <1>2, <1>4 DEF Visited, Visiting, Tested, Wanted, Reporting, Given, Replaying
<1>8. Exhausted'
    BY <1>2, <1>4 DEF Exhausted, Wanted, Reporting, Given, Stages
<1> QED
    BY <1>1, <1>2, <1>3, <1>6, <1>7, <1>8

\* The receipt is kept within the room for it, and the report is admitted with
\* its size before it is written.
LEMMA ReportKeeps ==
    ASSUME HostInv, Receipt \/ Finish \/ Write
    PROVE  HostInv'
<1> USE DEF HostInv, endVars, replayVars, searchVars, budgetVars, processVars
<1>1. /\ OwnerInv' /\ Groups' /\ Faulted' /\ Best' /\ Visited' /\ Exhausted'
      /\ Reserved' /\ own' = "idle" /\ lost' = lost
      /\ UNCHANGED <<op, replayVars, searchVars, evidence>>
    BY EndFrame
<1>2. Report \in Nat /\ Report' = Report
    BY <1>1, CatalogAssumption DEF Report
<1>3. CASE Receipt
    <2>1. /\ pc = "receipt" /\ pc' \in {"finish", "failing"} /\ kept' \in Nat
          /\ UNCHANGED <<size, piped, reserve, endVars>> /\ lost = "none"
          /\ op \in {"replay", "sdk"} /\ result = "none" /\ exit # "0" /\ ~ failure
        BY <1>3, BudgetAssumption
           DEF Receipt, Numbers, Stages, Reports, Given, Leaving, OwnerInv
    <2>2. Numbers'
        BY <1>1, <2>1 DEF Numbers
    <2>3. Budget'
        BY <1>1, <2>1 DEF Budget, Leaving
    <2>4. Stages'
        BY <1>1, <2>1 DEF Stages, Reporting
    <2>5. Reports'
        BY <1>1, <2>1 DEF Reports, Supported, Reporting, Given, Leaving
    <2> QED
        BY <1>1, <2>2, <2>3, <2>4, <2>5
<1>4. CASE Finish
    <2>1. /\ pc = "finish" /\ UNCHANGED <<size, piped, kept, reserve, exit>>
          /\ result = "none" /\ exit # "0"
          /\ \/ pc' = "failing" /\ result' = "none"
             \/ /\ pc' = "writing" /\ result' = "partial"
                /\ ~ AuditFails(kept, 0) /\ Report =< Room(0)
        BY <1>4 DEF Finish, Reports, Given
    <2>2. pc' = "writing" => kept + Report =< Limit
        <3> SUFFICES ASSUME ~ AuditFails(kept, 0), Report =< Room(0)
                     PROVE  kept + Report =< Limit
            BY <2>1
        <3>1. kept + 0 =< Limit
            BY AuditPassed DEF Numbers
        <3>2. Room(0) = Limit - kept
            BY <3>1, BudgetAssumption DEF Room, Numbers
        <3> QED
            BY <1>2, <3>2, BudgetAssumption DEF Numbers
    <2>3. Numbers'
        BY <1>1, <2>1 DEF Numbers
    <2>4. Budget'
        BY <1>1, <1>2, <2>1, <2>2 DEF Budget, Leaving
    <2>5. Stages'
        BY <1>1, <2>1 DEF Stages, Reporting
    <2>6. Reports'
        BY <1>1, <2>1 DEF Reports, Supported, Tested, Reporting, Given, Leaving
    <2> QED
        BY <1>1, <2>3, <2>4, <2>5, <2>6
<1>5. CASE Write
    <2>1. /\ pc = "writing" /\ UNCHANGED <<size, piped, reserve, exit>> /\ exit # "0"
          /\ result # "whole"
          /\ \/ /\ pc' \in {"failing", "printing"} /\ result' = "whole"
                /\ kept' = kept + Report
             \/ pc' = "failing" /\ UNCHANGED <<result, kept>>
        BY <1>5 DEF Write, Reports
    <2>2. kept' \in Nat
        BY <1>2, <2>1 DEF Numbers
    <2>3. Numbers'
        BY <1>1, <2>1, <2>2 DEF Numbers
    <2>4. lost' = "none" /\ result' = "whole" => kept' =< Limit
        BY <1>1, <1>2, <2>1 DEF Budget
    <2>5. Budget'
        BY <1>1, <2>1, <2>4 DEF Budget, Leaving
    <2>6. Stages'
        BY <1>1, <2>1 DEF Stages, Reporting
    <2>7. Reports'
        BY <1>1, <2>1 DEF Reports, Supported, Tested, Reporting, Given, Leaving
    <2> QED
        BY <1>1, <2>3, <2>5, <2>6, <2>7
<1> QED
    BY <1>3, <1>4, <1>5

\* The status is that of the report, and a refusal takes no report back.
LEMMA ExitKeeps ==
    ASSUME HostInv, PrintResult \/ RecordFailure \/ Recorded \/ Refused
    PROVE  HostInv'
<1> USE DEF HostInv, endVars, replayVars, searchVars, budgetVars, processVars
<1>1. /\ OwnerInv' /\ Groups' /\ Faulted' /\ Best' /\ Visited' /\ Exhausted'
      /\ Reserved' /\ own' = "idle" /\ lost' = lost
      /\ UNCHANGED <<op, replayVars, searchVars, evidence>>
    BY EndFrame
<1>2. /\ UNCHANGED <<size, piped, reserve>>
      /\ pc \in {"printing", "failing", "refusing", "refused"}
      /\ pc' \in {"failing", "refusing", "refused", "ended"}
      /\ kept' \in Nat /\ (kept' = kept \/ result' = "refusal")
      /\ result' \in {result, "cut", "refusal"}
    BY DEF PrintResult, RecordFailure, Recorded, Refused, Numbers
<1>3. Numbers'
    BY <1>1, <1>2 DEF Numbers
<1>4. Budget'
    BY <1>1, <1>2 DEF Budget, Leaving, Numbers
<1>5. Stages'
    BY <1>1, <1>2 DEF Stages, Reporting
<1>6. /\ result' = "whole" => pc' \in {"failing", "refused", "ended"}
      /\ pc' = "refusing" => result' = "cut"
      /\ exit' = "0" => pc' = "ended" /\ result' = "whole" /\ Status = "0"
    BY DEF PrintResult, RecordFailure, Recorded, Refused, Reports
<1>7. Supported' <=> Supported
    BY <1>1 DEF Supported, Tested
<1>8. Reports'
    BY <1>1, <1>2, <1>6, <1>7 DEF Reports, Status, Reporting, Given, Leaving
<1> QED
    BY <1>1, <1>3, <1>4, <1>5, <1>8

\* A signal is recorded by an owner or ends what the host does.
LEMMA SignalKeeps ==
    ASSUME HostInv, Signal
    PROVE  HostInv'
<1> USE DEF HostInv
<1>1. OwnerInv'
    BY SignalSteps
<1>2. CASE Owned /\ Flag /\ UNCHANGED <<pc, searchVars, exit>>
    <2>1. /\ UNCHANGED <<op, pc, replayVars, searchVars, endVars, evidence, budgetVars>>
          /\ UNCHANGED <<own, lost, cleanup, size, piped, primary>>
        BY <1>2 DEF Signal, Flag, endVars
    <2> USE DEF replayVars, searchVars, endVars, budgetVars
    <2>2. Numbers' /\ Groups'
        BY <2>1 DEF Numbers, Groups
    <2>3. Budget'
        BY <2>1, <2>2 DEF Budget, Within, Report, Numbers
    <2>4. Reserved' /\ Stages' /\ Faulted' /\ Best'
        BY <2>1 DEF Reserved, Stages, Faulted, Best
    <2>5. Visited' /\ Exhausted'
        BY <2>1 DEF Visited, Exhausted, Tested, Visiting, Replaying, Wanted
    <2>6. Reports'
        BY <2>1 DEF Reports, Supported, Tested, Status
    <2> QED
        BY <1>1, <2>2, <2>3, <2>4, <2>5, <2>6
<1>3. CASE /\ ~Owned /\ pc \notin {"failing", "refusing", "refused"} /\ Raise
           /\ own' = "idle" /\ piped' = 0
           /\ UNCHANGED <<exit, budgetVars, cleanup, lost, size>>
    <2>1. own \notin {"closing", "leaving"} /\ pc \notin Given
        BY <1>3 DEF Owned, Signal, Given
    <2>2. UNCHANGED <<op, replayVars, endVars, evidence>>
        BY <1>3 DEF Signal, endVars
    <2> QED
        BY <1>1, <1>3, <2>1, <2>2, RaiseKeeps
<1>4. CASE /\ UNCHANGED <<searchVars, processVars, budgetVars>>
           /\ pc \in {"failing", "refusing", "refused"}
           /\ \/ pc' = "refused" /\ UNCHANGED exit
              \/ pc' = "ended" /\ exit' = "1" /\ pc \in {"failing", "refused"}
    <2>1. /\ UNCHANGED <<op, replayVars, searchVars, evidence, budgetVars, result>>
          /\ UNCHANGED <<own, lost, cleanup, size, piped, primary>> /\ exit # "0"
        BY <1>4 DEF Signal, processVars, Reports
    <2> USE DEF replayVars, searchVars, budgetVars
    <2>2. Numbers' /\ Groups'
        BY <2>1 DEF Numbers, Groups
    <2>3. Budget'
        BY <1>4, <2>1, <2>2 DEF Budget, Within, Leaving, OwnerInv, Numbers
    <2>4. Reserved' /\ Stages' /\ Faulted' /\ Best'
        BY <1>4, <2>1 DEF Reserved, Stages, Faulted, Best, Leaving, Reporting
    <2>5. Visited' /\ Exhausted'
        BY <1>4 DEF Visited, Exhausted, Given
    <2>6. Reports'
        BY <1>4, <2>1 DEF Reports, Supported, Tested, Reporting, Given, Leaving
    <2> QED
        BY <1>1, <2>2, <2>3, <2>4, <2>5, <2>6
<1> QED
    BY <1>2, <1>3, <1>4 DEF Signal

-----------------------------------------------------------------------------
(* What follows                                                            *)

LEMMA HostInvariant == Spec => []HostInv
<1>1. HostInv /\ [Next]_vars => HostInv'
    <2> SUFFICES ASSUME HostInv, [Next]_vars PROVE HostInv'
        OBVIOUS
    <2>1. CASE Host
        <3>1. Ran => own \in {"returned", "raised"}
            BY DEF Ran
        <3>2. CASE Classify
            <4>1. \/ FirstBaseline \/ SecondBaseline \/ Tried \/ BestReplayed \/ Compared \/ Row
                BY <3>2 DEF Classify
            <4> QED
                BY <3>2, <4>1, BaselineKeeps, TriedKeeps, BestReplayedKeeps, ComparedKeeps,
                   RowKeeps
        <3> QED
            BY <2>1, <3>1, <3>2, HostRaises, RequestKeeps, OwnerKeeps, AnsweredKeeps,
               SearchKeeps, ReportKeeps, ExitKeeps DEF Host
    <2>2. CASE World
        BY <2>2, SignalKeeps, RunnerKeeps DEF World
    <2>3. CASE UNCHANGED vars
        <3>1. OwnerInv' /\ Numbers' /\ Groups' /\ Budget'
            BY <2>3 DEF vars, processVars, budgetVars, hostVars, replayVars, searchVars, endVars,
               HostInv, OwnerInv, Numbers, Groups, Budget, Within, Report
        <3> QED
            BY <2>3, <3>1, HostFrame DEF HostInv, vars, processVars, budgetVars
    <2> QED
        BY <2>1, <2>2, <2>3 DEF Next
<1> QED
    BY HostStarts, <1>1, PTL DEF Spec

\* The bytes reserved for the report and for the fingerprint of the failure are
\* still there when a reduction that did not fail comes to its report, however
\* much its replays retained (reserve and audit of EvidenceBudget in reduce).
THEOREM ReportAlwaysFits == Spec => []ReportFits
<1>1. HostInv => ReportFits
    <2> SUFFICES ASSUME HostInv, op = "reduce", pc = "finish", ~failure
                 PROVE  Report =< Room(0)
        BY DEF ReportFits
    <2>1. Within /\ reserve = 1 + Fingerprint
        BY DEF HostInv, Budget, Reserved, Stages, Faulted, Reporting
    <2>2. kept \in Nat /\ Report = reserve
        BY <2>1 DEF HostInv, Numbers, Report
    <2>3. kept + reserve =< Limit /\ reserve \in Nat
        BY <2>1 DEF Within, HostInv, Numbers
    <2> QED
        BY <2>2, <2>3, BudgetAssumption DEF Room
<1> QED
    BY <1>1, HostInvariant, PTL

\* Status 0 is given only with a whole report within the limit, without a lost
\* group, and on evidence of this operation's own executions: the reproduced
\* best of a reduction, the match of a replay, a match of every candidate of an
\* explored catalog (the return codes of reduce, main and the entry point).
THEOREM SuccessAlwaysEarned == Spec => []SuccessIsEarned
<1>1. HostInv => SuccessIsEarned
    <2> SUFFICES ASSUME HostInv, exit = "0" PROVE SuccessIsEarned
        BY DEF SuccessIsEarned
    <2>1. result = "whole" /\ Status = "0" /\ Supported /\ op \in {"reduce", "replay", "explore", "sdk"}
        BY DEF HostInv, Reports, Stages
    <2>2. CASE op = "reduce"
        <3>1. ~failure
            BY <2>1, <2>2 DEF Status
        <3> QED
            BY <2>1, <2>2, <3>1 DEF SuccessIsEarned, Supported, HostInv, Budget
    <2>3. CASE op \in {"replay", "sdk"}
        <3>1. answer = IF op = "replay" THEN "matched" ELSE "complete"
            BY <2>1, <2>3 DEF Status
        <3> QED
            BY <2>1, <2>3, <3>1 DEF SuccessIsEarned, Supported, HostInv, Budget
    <2>4. CASE op = "explore"
        <3>1. complete /\ \A i \in 1..Len(rows) : rows[i] = "matched"
            BY <2>1, <2>4 DEF Status
        <3>2. \A c \in Candidates : <<"candidate", c, "matched">> \in evidence
            BY <2>1, <2>4, <3>1 DEF Supported, Tested
        <3> QED
            BY <2>1, <2>4, <3>2 DEF SuccessIsEarned, Supported, HostInv, Budget
    <2> QED
        BY <2>1, <2>2, <2>3, <2>4
<1> QED
    BY <1>1, HostInvariant, PTL

\* The claim minimal_in_admitted_catalog of a reduction rests on executions of
\* this operation alone: the failure seen twice in the baseline and once more
\* in the best, a conclusive trial of every cheaper candidate, and none of
\* those cheaper than the best with that failure (reduce and Project.replay).
THEOREM MinimalAlwaysEarned == Spec => []MinimalIsEarned
<1>1. HostInv => MinimalIsEarned
    <2> SUFFICES ASSUME HostInv, op = "reduce", result = "whole", complete
                 PROVE  MinimalIsEarned
        BY DEF MinimalIsEarned
    <2>1. ~failure /\ Supported
        BY DEF HostInv, Reports
    <2>2. /\ bestReplay /\ lost = "none" /\ kept =< Limit /\ first \in Mismatches
          /\ {<<"baseline-0", Baseline, first>>, <<"baseline-1", Baseline, first>>,
              <<"best", best, first>>} \subseteq evidence
          /\ \A c \in Candidates : Worthwhile(c) => \E v \in Verdicts : <<"trial", c, v>> \in evidence
        BY <2>1 DEF Supported, Tested, HostInv, Budget
    <2>3. stage # "baseline-0"
        BY <2>1 DEF HostInv, Stages
    <2>4. \A c \in Candidates : Cheaper(c) => <<"trial", c, first>> \notin evidence
        <3> SUFFICES ASSUME NEW c \in Candidates, Cost[c] < Cost[best],
                            <<"trial", c, first>> \in evidence
                     PROVE  FALSE
            BY DEF Cheaper
        <3>1. Cost[best] =< Cost[c] /\ Cost[best] \in Nat /\ Cost[c] \in Nat
            BY <2>3, CatalogAssumption DEF HostInv, Best, Numbers
        <3> QED
            BY <3>1
    <2>5. best = Baseline \/ <<"trial", best, first>> \in evidence
        BY DEF HostInv, Best
    <2> QED
        BY <2>1, <2>2, <2>4, <2>5 DEF MinimalIsEarned
<1> QED
    BY <1>1, HostInvariant, PTL

-----------------------------------------------------------------------------
(* The types                                                               *)

\* The value checks of a replay are counted down to the last one.
Counted == phase = "values" /\ pc \in {"request", "running", "answered"} => left # 0

LEMMA TypesStart == Init => TypeOK /\ Counted
<1> SUFFICES ASSUME Init PROVE TypeOK /\ Counted
    OBVIOUS
<1>1. ProcessTypeOK
    <2>1. piped \in 0..1 /\ size \in Nat /\ kept \in Nat /\ reserve \in Nat
        BY DEF Init, ProcessInit
    <2> QED
        BY <2>1, Zenon DEF Init, ProcessInit, ProcessTypeOK
<1>2. at \in 1..Len(Order) + 1 /\ signals \in 0..MaxSignals /\ Baseline \in Candidates
    BY CatalogAssumption DEF Init
<1>3. trials \in [Candidates -> {"none", "matched", "same", "different", "unresolved"}]
    BY DEF Init
<1>4. rows \in Seq(Verdicts)
    BY DEF Init
<1>5. stage \in {"baseline-0", "replay", "candidate", "sdk"}
    BY DEF Init
<1> QED
    BY <1>1, <1>2, <1>3, <1>4, <1>5 DEF Init, TypeOK, Counted

\* The processes keep their types; the numbers among them are in HostInv.
LEMMA ProcessTyped ==
    ASSUME ProcessTypeOK, Numbers', [Next]_vars
    PROVE  ProcessTypeOK'
<1>1. size' \in Nat /\ piped' \in 0..1 /\ kept' \in Nat /\ reserve' \in Nat
    BY DEF Numbers
<1> DEFINE Places == /\ own \in {"idle", "entered", "watching", "killing", "closing",
                                 "leaving", "returned", "raised"}
                     /\ child \in {"none", "running", "exited", "failed", "dead"}
                     /\ primary \in {"none", "cancelled", "overflow", "timeout", "runner"}
                     /\ cleanup \in {"confirmed", "incomplete"}
                     /\ lost \in {"none", "alive", "gone"}
           Flags == cancelled \in BOOLEAN /\ expired \in BOOLEAN /\ heirs \in BOOLEAN
<1>2. Places /\ Flags
    BY DEF ProcessTypeOK
<1>3. Places' /\ Flags'
    <2>1. CASE Run
        <3>1. CASE Start
            BY <1>2, <3>1 DEF Start
        <3>2. CASE Watch
            BY <1>2, <3>2 DEF Watch, Turn
        <3>3. CASE Kill
            BY <1>2, <3>3 DEF Kill
        <3>4. CASE Close
            BY <1>2, <3>4 DEF Close
        <3>5. CASE Leave
            BY <1>2, <3>5 DEF Leave
        <3> QED
            BY <2>1, <3>1, <3>2, <3>3, <3>4, <3>5 DEF Run, Owner
    <2>2. CASE Request \/ Ran
        BY <1>2, <2>2 DEF Request, Enter, Ran
    <2>3. CASE Signal
        BY <1>2, <2>3 DEF Signal, Flag, processVars
    <2>4. CASE Runner \/ Deadline
        BY <1>2, <2>4 DEF Runner, RunnerPrints, RunnerWrites, RunnerForks, RunnerExits,
               HeirsExit, LostWrites, LostExits, Deadline
    <2>5. CASE UNCHANGED processVars
        BY <1>2, <2>5 DEF processVars
    <2>6. \/ Run \/ Request \/ Ran \/ Signal \/ Runner \/ Deadline \/ UNCHANGED processVars
        BY DEF Next, Host, World, vars, Inadmissible, Malformed, Contradictory, Answered, Reuse,
               Classify, Search, Receipt, Finish, Write, PrintResult, RecordFailure, Recorded,
               Refused
    <2> QED
        BY <2>1, <2>2, <2>3, <2>4, <2>5, <2>6
<1> QED
    BY <1>1, <1>3 DEF ProcessTypeOK

\* What the search and the replay of the host range over.
SearchTyped ==
    /\ at \in 1..Len(Order) + 1
    /\ first \in Verdicts \cup {"none"}
    /\ trials \in [Candidates -> {"none", "matched", "same", "different", "unresolved"}]
    /\ {complete, failure, bestReplay} \subseteq BOOLEAN

ReplayTyped ==
    /\ phase \in {"materialize", "replay", "explore", "values"}
    /\ left \in Nat
    /\ answer \in Verdicts \cup {"none", "complete", "partial"}
    /\ {reused, seen} \subseteq BOOLEAN

PlaceTyped ==
    /\ pc \in {"request", "running", "answered", "classify", "receipt", "search",
               "finish", "writing", "printing", "failing", "refusing", "refused",
               "ended"}
    /\ result \in {"none", "partial", "whole", "refusal", "cut"}
    /\ exit \in {"none", "0", "1", "2"}
    /\ signals \in 0..MaxSignals

LEMMA RaiseTyped ==
    ASSUME SearchTyped, cand \in Candidates, Raise
    PROVE  SearchTyped' /\ pc' \in {"finish", "failing"}
BY DEF SearchTyped, Raise, searchVars

LEMMA SearchTypes ==
    ASSUME HostInv, SearchTyped, [Next]_vars
    PROVE  SearchTyped'
<1>1. cand \in Candidates
    BY DEF HostInv, Numbers
<1>2. CASE UNCHANGED searchVars
    BY <1>2 DEF searchVars, SearchTyped
<1>3. CASE Raise
    BY <1>1, <1>3, RaiseTyped
<1>4. CASE Classify
    <2>1. answer \in Verdicts \/ op = "sdk"
        BY <1>4 DEF Classify, HostInv, Stages
    <2>2. CASE FirstBaseline
        <3>1. answer \in Verdicts
            BY <2>1, <2>2 DEF FirstBaseline, HostInv, Stages
        <3> QED
            BY <2>2, <3>1 DEF FirstBaseline, SearchTyped
    <2>3. CASE Tried
        BY <1>1, <2>3 DEF Tried, Disposition, SearchTyped
    <2>4. CASE BestReplayed
        BY <2>4 DEF BestReplayed, SearchTyped
    <2>5. CASE Row
        BY <2>5 DEF Row, SearchTyped
    <2>6. CASE SecondBaseline \/ Compared
        BY <2>6, <1>2 DEF SecondBaseline, Compared
    <2> QED
        BY <1>4, <2>2, <2>3, <2>4, <2>5, <2>6 DEF Classify
<1>5. CASE Search
    <2>1. UNCHANGED <<first, trials, failure, bestReplay>> /\ complete' \in {complete, FALSE}
        BY <1>5 DEF Search
    <2>2. at' \in 1..Len(Order) + 1
        <3>1. CASE at' = at
            BY <3>1 DEF SearchTyped
        <3>2. CASE Ahead # {} /\ at' = Min(Ahead) + 1
            <4>1. Ahead \subseteq 1..Len(Order) /\ Ahead \subseteq Nat /\ Len(Order) \in Nat
                BY CatalogAssumption DEF Ahead, SearchTyped
            <4>2. Min(Ahead) \in 1..Len(Order)
                BY <3>2, <4>1, MinIsLeast
            <4> QED
                BY <3>2, <4>1, <4>2
        <3> QED
            BY <1>5, <3>1, <3>2 DEF Search
    <2> QED
        BY <2>1, <2>2 DEF SearchTyped
<1>6. Raise \/ Classify \/ Search \/ UNCHANGED searchVars
    BY DEF Next, Host, World, vars, hostVars, Inadmissible, Request, Run, Ran, Malformed,
           Contradictory, Answered, Reuse, Receipt, Finish, Write, PrintResult, RecordFailure,
           Recorded, Refused, Signal
<1> QED
    BY <1>2, <1>3, <1>4, <1>5, <1>6

LEMMA ReplayTypes ==
    ASSUME HostInv, ReplayTyped, Counted, [Next]_vars
    PROVE  ReplayTyped' /\ Counted'
<1>1. cand \in Candidates /\ Chunks \in [Candidates -> Nat \ {0}]
    BY CatalogAssumption DEF HostInv, Numbers
<1>2. CASE UNCHANGED <<replayVars, seen>>
          /\ (pc' \in {"request", "running", "answered"} =>
                  pc \in {"request", "running", "answered"})
    BY <1>2 DEF replayVars, ReplayTyped, Counted
<1>3. CASE Answered
    <2>1. phase \in {"replay", "explore", "values", "materialize"} /\ pc = "answered"
          /\ left \in Nat /\ (phase = "values" => left # 0) /\ seen' = seen
        BY <1>3 DEF Answered, ReplayTyped, Counted
    <2>2. /\ answer' \in Verdicts \cup {"none", "complete", "partial"}
          /\ reused' \in {FALSE, seen, reused}
        BY <1>3, <2>1 DEF Answered, Answers, ReplayTyped
    <2>3. \/ phase' = "replay" /\ left' = left
          \/ phase' = "values" /\ left' = Chunks[cand]
          \/ phase' = "values" /\ left' = 0 /\ pc' = "classify"
          \/ phase' = "values" /\ left' = left - 1 /\ phase = "values"
             /\ pc' = IF left > 1 THEN "request" ELSE "classify"
        BY <1>3 DEF Answered
    <2>4. left' \in Nat /\ Counted'
        BY <1>1, <2>1, <2>3 DEF Counted
    <2> QED
        BY <2>2, <2>3, <2>4, <2>1 DEF ReplayTyped
<1>4. CASE Classify \/ Search
    <2>1. seen' \in BOOLEAN /\ reused \in BOOLEAN
        BY <1>4, Zenon DEF Classify, Search, ReplayTyped
    <2>2. \/ UNCHANGED replayVars /\ pc' \notin {"request", "running", "answered"}
          \/ /\ phase' \in {"materialize", "explore"}
             /\ left' = 0 /\ answer' = "none" /\ reused' = FALSE
        BY <1>4 DEF Classify, FirstBaseline, SecondBaseline, Tried, BestReplayed, Compared, Row,
                    Search, EndSearch, BeginReplay
    <2>3. reused' \in BOOLEAN
        BY <2>1, <2>2, Zenon DEF replayVars
    <2>4. left' \in Nat /\ Counted'
        BY <2>2 DEF replayVars, ReplayTyped, Counted
    <2> QED
        BY <2>1, <2>2, <2>3, <2>4, Zenon DEF replayVars, ReplayTyped
<1>5. Raise => pc' \notin {"request", "running", "answered"}
    BY RaiseFromLeaving DEF Leaving
<1>6. CASE Host
    BY <1>2, <1>3, <1>4, <1>5, <1>6
       DEF Host, hostVars, Inadmissible, Request, Run, Ran, Malformed, Contradictory, Reuse,
           Receipt, Finish, Write, PrintResult, RecordFailure, Recorded, Refused
<1>7. CASE World
    BY <1>2, <1>5, <1>7 DEF World, hostVars, Signal
<1>8. CASE UNCHANGED vars
    BY <1>2, <1>8 DEF vars, hostVars
<1> QED
    BY <1>6, <1>7, <1>8 DEF Next

LEMMA PlaceTypes ==
    ASSUME HostInv, PlaceTyped, [Next]_vars
    PROVE  PlaceTyped'
<1>1. Status \in {"0", "1", "2"}
    BY DEF Status, HostInv, Stages
<1>2. signals' \in 0..MaxSignals
    <2>1. signals' = signals \/ (signals < MaxSignals /\ signals' = signals + 1)
        BY DEF Next, Host, World, vars, hostVars, Inadmissible, Request, Run, Ran, Malformed,
               Contradictory, Answered, Reuse, Classify, Search, Receipt, Finish, Write,
               PrintResult, RecordFailure, Recorded, Refused, Signal
    <2> QED
        BY <2>1, CatalogAssumption DEF PlaceTyped
<1>3. /\ result' \in {result, "partial", "whole", "refusal", "cut"}
      /\ exit' \in {exit, "1", "2", Status}
    BY DEF Next, Host, World, vars, hostVars, endVars, Inadmissible, Request, Run, Ran,
           Malformed, Contradictory, Answered, Reuse, Classify, Search, Receipt, Finish, Write,
           PrintResult, RecordFailure, Recorded, Refused, Signal
<1>4. pc' \in {pc, "request", "running", "answered", "classify", "receipt", "search",
               "finish", "writing", "printing", "failing", "refusing", "refused", "ended"}
    <2>1. Raise => pc' \in {"finish", "failing"}
        BY RaiseLeaves
    <2>2. CASE Classify
        BY <2>2 DEF Classify, FirstBaseline, SecondBaseline, Tried, BestReplayed, Compared, Row,
                    BeginReplay
    <2>3. CASE Search
        BY <2>3 DEF Search, EndSearch, BeginReplay
    <2>4. CASE Answered
        BY <2>4 DEF Answered
    <2>5. CASE World \/ UNCHANGED vars
        BY <2>1, <2>5 DEF World, Signal, vars, hostVars
    <2>6. CASE \/ Inadmissible \/ Request \/ Run \/ Ran \/ Malformed \/ Contradictory
               \/ Reuse \/ Receipt \/ Finish \/ Write \/ PrintResult \/ RecordFailure
               \/ Recorded \/ Refused
        BY <2>1, <2>6 DEF hostVars, Inadmissible, Request, Run, Ran, Malformed, Contradictory,
                          Reuse, Receipt, Finish, Write, PrintResult, RecordFailure, Recorded,
                          Refused
    <2> QED
        BY <2>2, <2>3, <2>4, <2>5, <2>6 DEF Next, Host
<1> QED
    BY <1>1, <1>2, <1>3, <1>4 DEF PlaceTyped

\* Every variable of the host and of its processes keeps its type; that a
\* count of value checks stays a natural number needs that none is made
\* beyond the last (Project.values), the rest what HostInv knows.
THEOREM DpmTyped == Spec => []TypeOK
<1> DEFINE Typed == TypeOK /\ Counted
<1>1. Init => Typed
    BY TypesStart
<1>2. HostInv /\ HostInv' /\ Typed /\ [Next]_vars => Typed'
    <2> SUFFICES ASSUME HostInv, HostInv', Typed, [Next]_vars PROVE Typed'
        OBVIOUS
    <2>1. ProcessTypeOK /\ SearchTyped /\ ReplayTyped /\ PlaceTyped /\ Counted
        BY DEF TypeOK, SearchTyped, ReplayTyped, PlaceTyped
    <2>2. ProcessTypeOK'
        BY <2>1, ProcessTyped DEF HostInv
    <2>3. SearchTyped' /\ ReplayTyped' /\ PlaceTyped' /\ Counted'
        BY <2>1, SearchTypes, ReplayTypes, PlaceTypes
    <2>4. /\ op' \in {"reduce", "replay", "explore", "sdk"}
          /\ stage' \in {"baseline-0", "baseline-1", "trial", "best", "replay", "candidate", "sdk"}
          /\ cand' \in Candidates /\ best' \in Candidates /\ rows' \in Seq(Verdicts)
        BY DEF HostInv, Stages, Numbers
    <2> QED
        BY <2>2, <2>3, <2>4 DEF TypeOK, SearchTyped, ReplayTyped, PlaceTyped
<1> QED
    BY <1>1, <1>2, HostInvariant, PTL DEF Spec
=============================================================================
