------------------------------ MODULE Planning ------------------------------
(***************************************************************************)
(* Planning one case and reconsidering the plan: internal/planning and     *)
(* internal/planningstate, used by the Radarr case store and by            *)
(* internal/lidarrrepair, and internal/reconsideration.  Processes observe *)
(* the case, plan it once, and answer the newest request of an operator    *)
(* to think again.  Time is a counter; the planner answers as it likes.    *)
(***************************************************************************)
EXTENDS Naturals, FiniteSets, FiniteSetsExt

CONSTANTS Processes, CaseStates, Decisions,
          Requests,          \* positive numbers, in the order of their creation
          Initial, Maximum,  \* Backoff
          MaxClock,          \* bound on time
          Missing

Unrequested == 0

VARIABLES clock, world, \* the time and the state the case would be found in
          case,         \* the stored case: its state and StableSince, or Missing
          seenAt,       \* auxiliary: when each state was last recorded
          result,       \* the planning result, or Missing
          requests,     \* the requests submitted
          results,      \* the result of each request, or Missing
          proc,         \* each process: step and local variables
          report        \* what each process last handed on: decision, request; or Missing

planningVars == <<clock, world, case, seenAt, result, requests, results, proc, report>>
stored == <<case, seenAt, result, results>>

Idle == [pc |-> "idle"]

PlanningInit ==
    /\ clock = 0 /\ world \in CaseStates
    /\ case = Missing /\ seenAt = [s \in CaseStates |-> 0]
    /\ result = Missing
    /\ requests = {} /\ results = [r \in Requests |-> Missing]
    /\ proc = [p \in Processes |-> Idle]
    /\ report = [p \in Processes |-> Missing]

\* What the proofs need of the constants
PlanningConstantsOK == Requests \subseteq Nat

Goto(p, step) == proc' = [proc EXCEPT ![p] = step]

-----------------------------------------------------------------------------
(* Results *)

\* Backoff.Delay: doubled for each earlier attempt, up to the maximum
Delay(prior) ==
    LET delay[n \in 0..prior] ==
            IF n = 0 THEN Initial
            ELSE IF delay[n - 1] >= Maximum THEN delay[n - 1]
            ELSE IF delay[n - 1] > Maximum \div 2 THEN Maximum ELSE 2 * delay[n - 1]
    IN  IF delay[prior] > Maximum THEN Maximum ELSE delay[prior]

Decided(r) == r # Missing /\ r.decision # Missing

Attempts(r) == IF r = Missing THEN 0 ELSE r.attempts

\* The results to store: {} is an error, the previous one is left alone.
NextFailure(previous, at, retryAfter) ==
    IF Decided(previous) THEN {previous}
    ELSE {[attempts |-> Attempts(previous) + 1, at |-> at, retryAfter |-> retryAfter,
           decision |-> Missing]}

NextDecision(previous, decision, at) ==
    IF Decided(previous) THEN IF previous.decision = decision THEN {previous} ELSE {}
    ELSE {[attempts |-> Attempts(previous) + 1, at |-> at, retryAfter |-> 0,
           decision |-> decision]}

Deferred(r) == r # Missing /\ ~Decided(r) /\ clock < r.retryAfter

\* A planner's answer: a failure, or a decision (Missing stands for the failure)
Answers == Decisions \cup {Missing}

\* The result of an answer
NextResult(previous, answer, at, prior) ==
    IF answer = Missing THEN NextFailure(previous, at, at + Delay(prior))
    ELSE NextDecision(previous, answer, at)

-----------------------------------------------------------------------------
(* The case: CaseStore.Observe *)

\* Mutant: a new observation does not restart the time it has been stable.
mergeRadarrCaseObservationKeeps(o) == [state |-> o.state, since |-> case.since]

mergeRadarrCaseObservation(o) ==
    [state |-> o.state, since |-> IF case.state = o.state THEN case.since ELSE o.at]

Observe(p) ==
    /\ proc[p].pc = "idle"
    /\ Goto(p, [pc |-> "put", observation |-> [state |-> world, at |-> clock], known |-> requests])
    /\ UNCHANGED <<clock, world, stored, requests, report>>

PutCase(p) ==
    LET o == proc[p].observation
    IN  /\ proc[p].pc = "put"
        /\ case' = IF case = Missing THEN [state |-> o.state, since |-> o.at]
                   ELSE mergeRadarrCaseObservation(o)
        /\ seenAt' = [seenAt EXCEPT ![o.state] = o.at]
        /\ Goto(p, [pc |-> "status", known |-> proc[p].known])
        /\ UNCHANGED <<clock, world, result, results, requests, report>>

-----------------------------------------------------------------------------
(* planning.Runner.Process *)

reconsider(p, decision) ==
    Goto(p, [pc |-> "latest", known |-> proc[p].known, decision |-> decision])

GetStatus(p) ==
    /\ proc[p].pc = "status"
    /\ \/ Decided(result) /\ reconsider(p, result.decision)
       \/ Deferred(result) /\ Goto(p, Idle)
       \/ /\ ~Decided(result) /\ ~Deferred(result)
          /\ Goto(p, [pc |-> "plan", known |-> proc[p].known, prior |-> Attempts(result)])
    /\ UNCHANGED <<clock, world, stored, requests, report>>

\* The planner answers; an answer for another case is an error.
Plan(p) ==
    /\ proc[p].pc = "plan"
    /\ \/ \E a \in Answers : Goto(p, [pc |-> "store", known |-> proc[p].known,
                                      prior |-> proc[p].prior, answer |-> a, at |-> clock])
       \/ Goto(p, Idle)
    /\ UNCHANGED <<clock, world, stored, requests, report>>

\* PutFailure, PutDecision: under the lock
PutResult(p) ==
    LET answer == proc[p].answer
        next == NextResult(result, answer, proc[p].at, proc[p].prior)
    IN  /\ proc[p].pc = "store"
        /\ \/ \E n \in next : /\ result' = n
                              /\ IF answer = Missing THEN Goto(p, Idle)
                                 ELSE reconsider(p, n.decision)
           \/ next = {} /\ Goto(p, Idle) /\ UNCHANGED result
        /\ UNCHANGED <<clock, world, case, seenAt, results, requests, report>>

-----------------------------------------------------------------------------
(* Reconsideration: Store.Latest, Processor.Process, ResultStore *)

Return(p, decision, request) ==
    /\ report' = [report EXCEPT ![p] = [decision |-> decision, request |-> request,
                                        known |-> proc[p].known]]
    /\ Goto(p, Idle)

Latest(p) ==
    /\ proc[p].pc = "latest"
    /\ \/ requests = {} /\ Return(p, proc[p].decision, Unrequested)
       \/ /\ requests # {}
          /\ Goto(p, [pc |-> "process", known |-> proc[p].known, request |-> Max(requests),
                      prior |-> proc[p].decision])
          /\ UNCHANGED report
    /\ UNCHANGED <<clock, world, stored, requests>>

\* Mutant: the prior decision stands until the request is answered.
ProcessPrior(p) ==
    LET r == results[proc[p].request]
    IN  /\ proc[p].pc = "process"
        /\ \/ Decided(r) /\ Return(p, r.decision, proc[p].request)
           \/ Deferred(r) /\ Return(p, proc[p].prior, Unrequested)
           \/ /\ ~Decided(r) /\ ~Deferred(r)
              /\ \E a \in Answers :
                    Goto(p, [pc |-> "get", known |-> proc[p].known, request |-> proc[p].request,
                             attempts |-> Attempts(r), answer |-> a, at |-> clock])
              /\ UNCHANGED report
        /\ UNCHANGED <<clock, world, stored, requests>>

\* A request that is not answered yields no decision.
Process(p) ==
    LET r == results[proc[p].request]
    IN  /\ proc[p].pc = "process"
        /\ \/ Decided(r) /\ Return(p, r.decision, proc[p].request)
           \/ Deferred(r) /\ Goto(p, Idle) /\ UNCHANGED report
           \/ /\ ~Decided(r) /\ ~Deferred(r)
              /\ \E a \in Answers :
                    Goto(p, [pc |-> "get", known |-> proc[p].known, request |-> proc[p].request,
                             attempts |-> Attempts(r), answer |-> a, at |-> clock])
              /\ UNCHANGED report
        /\ UNCHANGED <<clock, world, stored, requests>>

\* ResultStore.update takes no lock: it reads the result ...
GetResult(p) ==
    LET next == NextResult(results[proc[p].request], proc[p].answer, proc[p].at, proc[p].attempts)
    IN  /\ proc[p].pc = "get"
        /\ \/ \E n \in next : Goto(p, [pc |-> "replace", known |-> proc[p].known,
                                       request |-> proc[p].request, new |-> n,
                                       answer |-> proc[p].answer])
           \/ next = {} /\ Goto(p, Idle)
        /\ UNCHANGED <<clock, world, stored, requests, report>>

\* ... and replaces it.
ReplaceResult(p) ==
    LET new == proc[p].new
    IN  /\ proc[p].pc = "replace"
        /\ results' = [results EXCEPT ![proc[p].request] = new]
        /\ IF proc[p].answer = Missing THEN Goto(p, Idle) /\ UNCHANGED report
           ELSE Return(p, new.decision, proc[p].request)
        /\ UNCHANGED <<clock, world, case, seenAt, result, requests>>

-----------------------------------------------------------------------------
(* Everything else *)

\* Store.Submit: a request already there stays, whether the second submission is
\* taken for the first or refused.
Submit(r) ==
    /\ requests' = requests \cup {r}
    /\ UNCHANGED <<clock, world, stored, proc, report>>

\* A request to the planner or a write fails, or the process dies.
Fail(p) ==
    /\ proc[p].pc # "idle"
    /\ Goto(p, Idle)
    /\ UNCHANGED <<clock, world, stored, requests, report>>

WorldChanges(s) ==
    /\ world' = s
    /\ UNCHANGED <<clock, stored, requests, proc, report>>

Wait ==
    /\ clock < MaxClock /\ clock' = clock + 1
    /\ UNCHANGED <<world, stored, requests, proc, report>>

PlanningNext ==
    \/ \E p \in Processes :
        \/ Observe(p) \/ PutCase(p) \/ GetStatus(p) \/ Plan(p) \/ PutResult(p)
        \/ Latest(p) \/ Process(p) \/ GetResult(p) \/ ReplaceResult(p) \/ Fail(p)
    \/ \E r \in Requests : Submit(r)
    \/ \E s \in CaseStates : WorldChanges(s)
    \/ Wait

PlanningSpec == PlanningInit /\ [][PlanningNext]_planningVars

-----------------------------------------------------------------------------
(* Properties *)

\* NextDecision, NextFailure: once a case is decided its decision stays, whatever
\* other processes answer later.
KeepsDecision == Decided(result) => result' = result

\* The same of every step
DecisionIsFinal == [][KeepsDecision]_planningVars

\* Processor.Process: no decision is handed on that leaves unanswered a request which
\* was there when the call began.
AnswersLatest ==
    \A p \in DOMAIN report : report[p] # Missing =>
        \A r \in report[p].known : r <= report[p].request

\* mergeRadarrCaseObservation: a case is not called stable since a time after which it
\* was recorded in another state.
StableSinceIsSound ==
    case # Missing => \A s \in DOMAIN seenAt \ {case.state} : seenAt[s] <= case.since
=============================================================================
