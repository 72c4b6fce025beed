---------------------------- MODULE CasesProofs ----------------------------
(***************************************************************************)
(* A case from its observation to the end of its repair.                   *)
(*                                                                         *)
(* Planning, for any processes, requests, states and times: a stored       *)
(* decision is final, and what a process hands on answers every request it *)
(* found.  With one process observing the case, the time since which it is *)
(* called stable is sound as well.                                         *)
(*                                                                         *)
(* The grace period suffices: with quick checks, an import whose files are *)
(* in the library is never recorded as failed, whatever the lengths of the *)
(* grace period, of the lag of history and of a check.                     *)
(*                                                                         *)
(* The execution record, for any files, artifacts, times and commands and  *)
(* after any sequence of calls: every outcome of an operation is a record  *)
(* its decoder accepts, an execution is imported only on proof, and it     *)
(* stays bound to its plan, its command and its end.  The decoders alone   *)
(* do not suffice: that the outcomes are valid rests on what the earlier   *)
(* operations left besides, such as the history before a request, which a  *)
(* decoder of discs does not compare.                                      *)
(***************************************************************************)
EXTENDS Executions, ImportWindow, Planning, TLAPS

-----------------------------------------------------------------------------
(* Requests and decisions *)

\* The newest of the requests, if there are any
Newest == requests # {} => \E m \in requests : \A r \in requests : r <= m

\* What holds of a process between the steps of a call
Asked(q) ==
    /\ q.pc # "idle" => q.known \subseteq requests
    /\ q.pc \in {"process", "get", "replace"} =>
          q.request \in Nat /\ \A r \in q.known : r <= q.request

Answered(a) == a # Missing => \A r \in a.known : r <= a.request

\* The invariant behind AnswersLatest
RequestInv ==
    /\ requests \subseteq Nat /\ Newest
    /\ proc = [p \in Processes |-> proc[p]] /\ \A p \in Processes : Asked(proc[p])
    /\ report = [p \in Processes |-> report[p]] /\ \A p \in Processes : Answered(report[p])

-----------------------------------------------------------------------------
(* Requests *)

\* Max of the requests is the newest one.
LEMMA MaxIsNewest ==
    ASSUME Newest, requests # {}
    PROVE  Max(requests) \in requests /\ \A r \in requests : Max(requests) >= r
<1>1. PICK m \in requests : \A r \in requests : r <= m
  BY Zenon DEF Newest
<1>2. \E x \in requests : \A y \in requests : x >= y
  BY Zenon, <1>1
<1> QED BY Zenon, <1>2 DEF Max

\* Whatever is asked first, there stays a newest request.
LEMMA SubmitKeepsNewest ==
    ASSUME NEW r \in Nat, requests \subseteq Nat, Newest, requests' = requests \cup {r}
    PROVE  Newest'
<1>1. CASE requests = {}
  BY <1>1 DEF Newest
<1>2. CASE requests # {}
  <2>1. PICK m \in requests : \A x \in requests : x <= m
    BY Zenon, <1>2 DEF Newest
  <2>2. CASE r <= m
    BY Zenon, <2>1, <2>2 DEF Newest
  <2>3. CASE ~(r <= m)
    <3>1. m \in Nat /\ m <= r /\ \A x \in requests : x \in Nat
      BY <2>1, <2>3
    <3>2. \A x \in requests' : x <= r
      BY <2>1, <3>1
    <3> QED BY Zenon, <3>2 DEF Newest
  <2> QED BY Zenon, <2>2, <2>3
<1> QED BY Zenon, <1>1, <1>2

-----------------------------------------------------------------------------
(* Steps of a process *)

\* A step of one process that goes on soundly, and what it hands on, keep the
\* invariant.
LEMMA ProcessStep ==
    ASSUME RequestInv, NEW p \in Processes, NEW q, Goto(p, q), Asked(q), UNCHANGED requests,
           \/ UNCHANGED report
           \/ \E a : report' = [report EXCEPT ![p] = a] /\ Answered(a)
    PROVE  RequestInv'
<1>1. /\ proc' = [x \in Processes |-> proc'[x]]
      /\ \A x \in Processes : proc'[x] = IF x = p THEN q ELSE proc[x]
  BY Zenon DEF RequestInv, Goto
<1>2. \A x \in Processes : Asked(proc[x])'
  BY Zenon, <1>1 DEF RequestInv, Asked
<1>3. report' = [x \in Processes |-> report'[x]] /\ \A x \in Processes : Answered(report[x])'
  BY Zenon DEF RequestInv, Answered
<1> QED BY Zenon, <1>1, <1>2, <1>3 DEF RequestInv, Newest

\* Idle needs nothing.
LEMMA IdleIsSound ==
    Asked(Idle)
BY Zenon DEF Asked, Idle

\* A return of the decision for the newest request
LEMMA ReturnStep ==
    ASSUME RequestInv, NEW p \in Processes, NEW decision, NEW request, Return(p, decision, request),
           UNCHANGED requests, \A r \in proc[p].known : r <= request
    PROVE  RequestInv'
<1> DEFINE a == [decision |-> decision, request |-> request, known |-> proc[p].known]
<1>1. Answered(a) /\ report' = [report EXCEPT ![p] = a] /\ Goto(p, Idle)
  BY Zenon DEF Answered, Return
<1> QED BY Zenon, <1>1, IdleIsSound, ProcessStep

\* Every step of the system keeps the invariant.
LEMMA PlanningStep ==
    ASSUME PlanningConstantsOK PROVE RequestInv /\ [PlanningNext]_planningVars => RequestInv'
<1> SUFFICES ASSUME RequestInv, [PlanningNext]_planningVars PROVE RequestInv'
  BY Zenon
<1>1. ASSUME NEW p \in Processes, Observe(p) PROVE RequestInv'
  <2> DEFINE q == [pc |-> "put", observation |-> [state |-> world, at |-> clock], known |-> requests]
  <2>1. Asked(q)
    BY Zenon DEF Asked
  <2> QED BY Zenon, <1>1, <2>1, ProcessStep DEF Observe
<1>2. ASSUME NEW p \in Processes, PutCase(p) PROVE RequestInv'
  <2> DEFINE q == [pc |-> "status", known |-> proc[p].known]
  <2>1. Asked(q)
    BY Zenon, <1>2 DEF Asked, RequestInv, PutCase
  <2> QED BY Zenon, <1>2, <2>1, ProcessStep DEF PutCase
<1>3. ASSUME NEW p \in Processes, NEW d, proc[p].pc # "idle", reconsider(p, d),
             UNCHANGED <<requests, report>>
      PROVE  RequestInv'
  <2> DEFINE q == [pc |-> "latest", known |-> proc[p].known, decision |-> d]
  <2>1. Asked(q)
    BY Zenon, <1>3 DEF Asked, RequestInv
  <2> QED BY Zenon, <1>3, <2>1, ProcessStep DEF reconsider
<1>4. ASSUME NEW p \in Processes, GetStatus(p) PROVE RequestInv'
  <2> DEFINE q == [pc |-> "plan", known |-> proc[p].known, prior |-> Attempts(result)]
  <2>1. Asked(q)
    BY Zenon, <1>4 DEF Asked, RequestInv, GetStatus
  <2> HIDE DEF q
  <2>2. CASE Goto(p, q)
    BY Zenon, <1>4, <2>1, <2>2, ProcessStep DEF GetStatus
  <2>3. CASE Goto(p, Idle)
    BY Zenon, <1>4, <2>3, IdleIsSound, ProcessStep DEF GetStatus
  <2>4. CASE reconsider(p, result.decision)
    BY Zenon, <1>3, <1>4, <2>4 DEF GetStatus
  <2> QED BY Zenon, <1>4, <2>2, <2>3, <2>4 DEF GetStatus, q
<1>5. ASSUME NEW p \in Processes, Plan(p) PROVE RequestInv'
  <2>1. CASE Goto(p, Idle)
    BY Zenon, <1>5, <2>1, IdleIsSound, ProcessStep DEF Plan
  <2>2. ASSUME NEW a, Goto(p, [pc |-> "store", known |-> proc[p].known, prior |-> proc[p].prior,
                             answer |-> a, at |-> clock])
        PROVE  RequestInv'
    <3> DEFINE q == [pc |-> "store", known |-> proc[p].known, prior |-> proc[p].prior,
                     answer |-> a, at |-> clock]
    <3>1. Asked(q)
      BY Zenon, <1>5 DEF Asked, RequestInv, Plan
    <3> QED BY Zenon, <1>5, <2>2, <3>1, ProcessStep DEF Plan
  <2> QED BY Zenon, <1>5, <2>1, <2>2 DEF Plan
<1>6. ASSUME NEW p \in Processes, PutResult(p) PROVE RequestInv'
  <2>1. CASE Goto(p, Idle)
    BY Zenon, <1>6, <2>1, IdleIsSound, ProcessStep DEF PutResult
  <2>2. ASSUME NEW n, reconsider(p, n.decision) PROVE RequestInv'
    BY Zenon, <1>3, <1>6, <2>2 DEF PutResult
  <2> QED BY Zenon, <1>6, <2>1, <2>2 DEF PutResult
<1>7. ASSUME NEW p \in Processes, Latest(p) PROVE RequestInv'
  <2> DEFINE q == [pc |-> "process", known |-> proc[p].known, request |-> Max(requests),
                   prior |-> proc[p].decision]
  <2>1. Asked(proc[p]) /\ proc[p].pc = "latest" /\ UNCHANGED requests
    BY Zenon, <1>7 DEF RequestInv, Latest
  <2>2. CASE requests = {} /\ Return(p, proc[p].decision, Unrequested)
    <3>1. proc[p].known = {}
      BY Zenon, <2>1, <2>2 DEF Asked
    <3> QED BY Zenon, <2>1, <2>2, <3>1, ReturnStep
  <2>3. CASE requests # {} /\ Goto(p, q) /\ UNCHANGED report
    <3>1. Max(requests) \in requests /\ \A r \in requests : Max(requests) >= r
      BY Zenon, <2>3, MaxIsNewest DEF RequestInv
    <3>2. Asked(q)
      BY Zenon, <2>1, <3>1 DEF Asked, RequestInv
    <3> QED BY Zenon, <2>1, <2>3, <3>2, ProcessStep
  <2> QED BY Zenon, <1>7, <2>2, <2>3 DEF Latest
<1>8. ASSUME NEW p \in Processes, Process(p) PROVE RequestInv'
  <2>1. Asked(proc[p]) /\ proc[p].pc = "process" /\ UNCHANGED requests
    BY Zenon, <1>8 DEF RequestInv, Process
  <2>2. CASE Return(p, results[proc[p].request].decision, proc[p].request)
    BY Zenon, <2>1, <2>2, ReturnStep DEF Asked
  <2>3. CASE Goto(p, Idle) /\ UNCHANGED report
    BY Zenon, <2>1, <2>3, IdleIsSound, ProcessStep
  <2>4. ASSUME NEW a, UNCHANGED report,
               Goto(p, [pc |-> "get", known |-> proc[p].known, request |-> proc[p].request,
                      attempts |-> Attempts(results[proc[p].request]), answer |-> a, at |-> clock])
        PROVE  RequestInv'
    <3> DEFINE q == [pc |-> "get", known |-> proc[p].known, request |-> proc[p].request,
                     attempts |-> Attempts(results[proc[p].request]), answer |-> a, at |-> clock]
    <3>1. Asked(q)
      BY Zenon, <2>1 DEF Asked
    <3> QED BY Zenon, <2>1, <2>4, <3>1, ProcessStep
  <2> QED BY Zenon, <1>8, <2>2, <2>3, <2>4 DEF Process
<1>9. ASSUME NEW p \in Processes, GetResult(p) PROVE RequestInv'
  <2>1. Asked(proc[p]) /\ proc[p].pc = "get" /\ UNCHANGED requests /\ UNCHANGED report
    BY Zenon, <1>9 DEF RequestInv, GetResult
  <2>2. CASE Goto(p, Idle)
    BY Zenon, <2>1, <2>2, IdleIsSound, ProcessStep
  <2>3. ASSUME NEW n, Goto(p, [pc |-> "replace", known |-> proc[p].known, request |-> proc[p].request,
                             new |-> n, answer |-> proc[p].answer])
        PROVE  RequestInv'
    <3> DEFINE q == [pc |-> "replace", known |-> proc[p].known, request |-> proc[p].request,
                     new |-> n, answer |-> proc[p].answer]
    <3>1. Asked(q)
      BY Zenon, <2>1 DEF Asked
    <3> QED BY Zenon, <2>1, <2>3, <3>1, ProcessStep
  <2> QED BY Zenon, <1>9, <2>2, <2>3 DEF GetResult
<1>10. ASSUME NEW p \in Processes, ReplaceResult(p) PROVE RequestInv'
  <2>1. Asked(proc[p]) /\ proc[p].pc = "replace" /\ UNCHANGED requests
    BY Zenon, <1>10 DEF RequestInv, ReplaceResult
  <2>2. CASE Return(p, proc[p].new.decision, proc[p].request)
    BY Zenon, <2>1, <2>2, ReturnStep DEF Asked
  <2>3. CASE Goto(p, Idle) /\ UNCHANGED report
    BY Zenon, <2>1, <2>3, IdleIsSound, ProcessStep
  <2> QED BY Zenon, <1>10, <2>2, <2>3 DEF ReplaceResult
<1>11. ASSUME NEW p \in Processes, Fail(p) PROVE RequestInv'
  BY Zenon, <1>11, IdleIsSound, ProcessStep DEF Fail
<1>12. ASSUME NEW r \in Requests, Submit(r) PROVE RequestInv'
  <2>1. r \in Nat /\ Newest' /\ requests' \subseteq Nat /\ requests \subseteq requests'
    BY Zenon, <1>12, SubmitKeepsNewest DEF PlanningConstantsOK, RequestInv, Submit
  <2> QED BY Zenon, <1>12, <2>1 DEF RequestInv, Submit, Asked, Answered
<1>13. CASE UNCHANGED <<requests, proc, report>>
  BY Zenon, <1>13 DEF RequestInv, Newest, Asked, Answered
<1>14. CASE PlanningNext
  BY Zenon, <1>1, <1>2, <1>4, <1>5, <1>6, <1>7, <1>8, <1>9, <1>10, <1>11, <1>12, <1>13, <1>14
     DEF PlanningNext, WorldChanges, Wait
<1> QED BY Zenon, <1>13, <1>14 DEF planningVars

-----------------------------------------------------------------------------
(* The theorems *)

\* Processor.Process: a decision handed on answers every request that was there
\* when the call began, whatever other processes and operators do meanwhile.
THEOREM RequestsAreAnswered ==
    ASSUME PlanningConstantsOK PROVE PlanningSpec => []AnswersLatest
<1>1. PlanningInit => RequestInv
  BY DEF PlanningInit, RequestInv, Newest, Asked, Answered, Idle
<1>2. RequestInv /\ [PlanningNext]_planningVars => RequestInv'
  BY Zenon, PlanningStep
<1>3. RequestInv => AnswersLatest
  BY Zenon DEF RequestInv, Answered, AnswersLatest
<1> QED BY <1>1, <1>2, <1>3, PTL DEF PlanningSpec

\* NextDecision and NextFailure leave a decided result alone.
LEMMA DecidedIsKept ==
    ASSUME NEW earlier, NEW answer, NEW at, NEW prior, Decided(earlier),
           NEW n \in NextResult(earlier, answer, at, prior)
    PROVE  n = earlier
BY Zenon DEF NextResult, NextFailure, NextDecision

\* PutDecision, PutFailure: the first decision stored for a case is final, however
\* many processes plan the case at once.
THEOREM FirstDecisionStands ==
    PlanningSpec => DecisionIsFinal
<1>1. [PlanningNext]_planningVars => [KeepsDecision]_planningVars
  <2> SUFFICES ASSUME PlanningNext, Decided(result) PROVE result' = result
    BY Zenon DEF KeepsDecision
  <2>1. ASSUME NEW p \in Processes, PutResult(p) PROVE result' = result
    <3>1. ASSUME NEW n \in NextResult(result, proc[p].answer, proc[p].at, proc[p].prior) PROVE n = result
      BY Zenon, <3>1, DecidedIsKept
    <3> QED BY Zenon, <2>1, <3>1 DEF PutResult
  <2> QED BY Zenon, <2>1 DEF PlanningNext, Observe, PutCase, GetStatus, Plan, Latest, Process,
             GetResult, ReplaceResult, Fail, Submit, WorldChanges, Wait, stored
<1> QED BY <1>1, PTL DEF PlanningSpec, DecisionIsFinal

-----------------------------------------------------------------------------
(* Stability, for the one process that observes *)

\* The time of a state not yet recorded is no earlier than any recorded one.
Fresh(q) ==
    q.pc = "put" => /\ q.observation.state \in CaseStates
                    /\ q.observation.at \in Nat /\ q.observation.at <= clock
                    /\ \A s \in CaseStates : seenAt[s] <= q.observation.at

\* StableSinceIsSound where seenAt is defined
Stable == case # Missing => \A s \in CaseStates \ {case.state} : seenAt[s] <= case.since

\* The invariant behind StableSinceIsSound
Recorded ==
    /\ clock \in Nat /\ world \in CaseStates /\ seenAt \in [CaseStates -> Nat]
    /\ \A s \in CaseStates : seenAt[s] <= clock
    /\ case # Missing => case.since \in Nat
    /\ proc = [p \in Processes |-> proc[p]] /\ \A p \in Processes : Fresh(proc[p])
    /\ Stable

\* What a process does after it recorded its observation
LEMMA LaterStep ==
    ASSUME Recorded, NEW p \in Processes, NEW q, Goto(p, q), q.pc # "put",
           UNCHANGED <<clock, world, case, seenAt>>
    PROVE  Recorded'
<1>1. /\ proc' = [x \in Processes |-> proc'[x]]
      /\ \A x \in Processes : proc'[x] = IF x = p THEN q ELSE proc[x]
  BY Zenon DEF Recorded, Goto
<1>2. \A x \in Processes : Fresh(proc[x])'
  BY Zenon, <1>1 DEF Recorded, Fresh
<1> QED BY Zenon, <1>1, <1>2 DEF Recorded, Stable

\* Every step of one process keeps it.
LEMMA RecordedStep ==
    ASSUME \A p, q \in Processes : p = q
    PROVE  Recorded /\ [PlanningNext]_planningVars => Recorded'
<1> SUFFICES ASSUME Recorded, [PlanningNext]_planningVars PROVE Recorded'
  BY Zenon
<1>1. ASSUME NEW p \in Processes, Observe(p) PROVE Recorded'
  <2> DEFINE q == [pc |-> "put", observation |-> [state |-> world, at |-> clock], known |-> requests]
  <2>1. Fresh(q)
    BY DEF Fresh, Recorded
  <2>2. /\ proc' = [x \in Processes |-> proc'[x]]
        /\ \A x \in Processes : proc'[x] = IF x = p THEN q ELSE proc[x]
    BY Zenon, <1>1 DEF Recorded, Observe, Goto
  <2>3. UNCHANGED <<clock, world, case, seenAt>>
    BY Zenon, <1>1 DEF Observe, stored
  <2> HIDE DEF q
  <2>4. \A x \in Processes : Fresh(proc[x])'
    BY Zenon, <2>1, <2>2, <2>3 DEF Recorded, Fresh
  <2> QED BY Zenon, <2>2, <2>3, <2>4 DEF Recorded, Stable
<1>2. ASSUME NEW p \in Processes, PutCase(p) PROVE Recorded'
  <2> DEFINE o == proc[p].observation
  <2>1. /\ o.state \in CaseStates /\ o.at \in Nat /\ o.at <= clock /\ \A s \in CaseStates : seenAt[s] <= o.at
    BY Zenon, <1>2 DEF Recorded, Fresh, PutCase
  <2>2. /\ seenAt' = [seenAt EXCEPT ![o.state] = o.at] /\ clock' = clock /\ world' = world
        /\ case' = IF case = Missing THEN [state |-> o.state, since |-> o.at]
                   ELSE mergeRadarrCaseObservation(o)
        /\ Goto(p, [pc |-> "status", known |-> proc[p].known])
    BY Zenon, <1>2 DEF PutCase
  <2> HIDE DEF o
  <2>3. seenAt' \in [CaseStates -> Nat] /\ \A s \in CaseStates : seenAt'[s] <= clock
    BY Zenon, <2>1, <2>2 DEF Recorded
  <2>4. proc' = [x \in Processes |-> proc'[x]] /\ \A x \in Processes : Fresh(proc[x])'
    BY Zenon, <2>2 DEF Recorded, Goto, Fresh
  <2>5. (case # Missing => case.since \in Nat)' /\ Stable'
    <3>1. CASE case # Missing /\ case.state = o.state
      <4>1. case'.state = o.state /\ case'.since = case.since
        BY Zenon, <2>2, <3>1 DEF mergeRadarrCaseObservation
      <4>2. \A s \in CaseStates \ {o.state} : seenAt'[s] <= case.since
        BY Zenon, <2>1, <2>2, <3>1 DEF Recorded, Stable
      <4> QED BY Zenon, <3>1, <4>1, <4>2 DEF Recorded, Stable
    <3>2. CASE ~(case # Missing /\ case.state = o.state)
      <4>1. case'.state = o.state /\ case'.since = o.at
        BY Zenon, <2>2, <3>2 DEF mergeRadarrCaseObservation
      <4>2. \A s \in CaseStates \ {o.state} : seenAt'[s] <= o.at
        BY Zenon, <2>1, <2>2 DEF Recorded
      <4> QED BY Zenon, <2>1, <4>1, <4>2 DEF Stable
    <3> QED BY Zenon, <3>1, <3>2
  <2> QED BY Zenon, <2>2, <2>3, <2>4, <2>5 DEF Recorded
<1>3. ASSUME NEW p \in Processes,
             GetStatus(p) \/ Plan(p) \/ PutResult(p) \/ Latest(p)
             \/ Process(p) \/ GetResult(p) \/ ReplaceResult(p) \/ Fail(p)
      PROVE  Recorded'
  <2>1. UNCHANGED <<clock, world, case, seenAt>>
    BY Zenon, <1>3 DEF GetStatus, Plan, PutResult, Latest, Process, GetResult,
                ReplaceResult, Fail, stored
  <2>2. \E q : Goto(p, q) /\ q.pc # "put"
    <3>1. CASE GetStatus(p)
      BY <3>1 DEF GetStatus, reconsider, Idle
    <3>2. CASE Plan(p)
      <4> DEFINE q(x) == [pc |-> "store", known |-> proc[p].known, prior |-> proc[p].prior,
                         answer |-> x, at |-> clock]
      <4>1. \A x : q(x).pc # "put"
        BY Zenon
      <4> HIDE DEF q
      <4>2. Goto(p, Idle) \/ \E x : Goto(p, q(x))
        BY Zenon, <3>2 DEF Plan, q
      <4> QED BY <4>1, <4>2 DEF Idle
    <3>3. CASE PutResult(p)
      <4> DEFINE q(x) == [pc |-> "latest", known |-> proc[p].known, decision |-> x]
      <4>1. \A x : q(x).pc # "put"
        BY Zenon
      <4> HIDE DEF q
      <4>2. Goto(p, Idle) \/ \E x : Goto(p, q(x))
        BY Zenon, <3>3 DEF PutResult, reconsider, q
      <4> QED BY <4>1, <4>2 DEF Idle
    <3>4. CASE Latest(p)
      BY <3>4 DEF Latest, Return, Idle
    <3>5. CASE Process(p)
      <4> DEFINE q(x) == [pc |-> "get", known |-> proc[p].known, request |-> proc[p].request,
                         attempts |-> Attempts(results[proc[p].request]), answer |-> x, at |-> clock]
      <4>1. \A x : q(x).pc # "put"
        BY Zenon
      <4> HIDE DEF q
      <4>2. Goto(p, Idle) \/ \E x : Goto(p, q(x))
        BY Zenon, <3>5 DEF Process, Return, q
      <4> QED BY <4>1, <4>2 DEF Idle
    <3>6. CASE GetResult(p)
      <4> DEFINE q(x) == [pc |-> "replace", known |-> proc[p].known, request |-> proc[p].request,
                         new |-> x, answer |-> proc[p].answer]
      <4>1. \A x : q(x).pc # "put"
        BY Zenon
      <4> HIDE DEF q
      <4>2. Goto(p, Idle) \/ \E x : Goto(p, q(x))
        BY Zenon, <3>6 DEF GetResult, q
      <4> QED BY <4>1, <4>2 DEF Idle
    <3>7. CASE ReplaceResult(p)
      <4>1. Goto(p, Idle)
        BY Zenon, <3>7 DEF ReplaceResult, Return
      <4>2. Idle.pc # "put"
        BY Zenon DEF Idle
      <4> QED BY Zenon, <4>1, <4>2
    <3>8. CASE Fail(p)
      BY <3>8 DEF Fail, Idle
    <3> QED BY Zenon, <1>3, <3>1, <3>2, <3>3, <3>4, <3>5, <3>6, <3>7, <3>8
  <2> QED BY Zenon, <2>1, <2>2, LaterStep
<1>4. ASSUME NEW s \in CaseStates, WorldChanges(s) PROVE Recorded'
  BY Zenon, <1>4 DEF WorldChanges, stored, Recorded, Fresh, Stable
<1>5. ASSUME Wait PROVE Recorded'
  <2>1. clock' \in Nat /\ clock <= clock' /\ UNCHANGED <<world, case, seenAt, proc>>
    BY <1>5 DEF Wait, stored, Recorded
  <2>2. \A p \in Processes : Fresh(proc[p])'
    BY <2>1 DEF Recorded, Fresh
  <2> QED BY <2>1, <2>2 DEF Recorded, Stable
<1>6. CASE UNCHANGED <<clock, world, case, seenAt, proc>>
  BY Zenon, <1>6 DEF Recorded, Fresh, Stable
<1>7. ASSUME NEW r \in Requests, Submit(r) PROVE Recorded'
  BY Zenon, <1>6, <1>7 DEF Submit, stored
<1> QED BY Zenon, <1>1, <1>2, <1>3, <1>4, <1>5, <1>6, <1>7 DEF PlanningNext, planningVars

\* mergeRadarrCaseObservation: with one process observing, a case is not called
\* stable since a time after which it was recorded in another state.
THEOREM StabilityIsSound ==
    ASSUME \A p, q \in Processes : p = q
    PROVE  PlanningSpec => []StableSinceIsSound
<1>1. PlanningInit => Recorded
  BY DEF PlanningInit, Recorded, Fresh, Idle, Stable
<1>2. Recorded /\ [PlanningNext]_planningVars => Recorded'
  BY Zenon, RecordedStep
<1>3. Recorded => StableSinceIsSound
  BY Zenon DEF Recorded, Stable, StableSinceIsSound
<1> QED BY <1>1, <1>2, <1>3, PTL DEF PlanningSpec

-----------------------------------------------------------------------------
(* The grace period *)

\* The clock of the model: history keeps its deadline and a check is not older
\* than CheckTime.
Deadlines ==
    /\ command.ended => command.endedAt <= now
    /\ command.ended /\ command.files /\ ~command.listed
           => now <= command.endedAt + HistoryLag
    /\ check.step = "status" => check.readAt <= now /\ now <= check.readAt + CheckTime

\* A check that found no receipt read history before the record was due.
ReadTooEarly ==
    check.step = "status" /\ command.ended /\ command.files
        => check.readAt <= command.endedAt + HistoryLag

\* The grace period starts no earlier than the command ended.
GraceAfterEnd ==
    attempt.terminal => command.ended /\ command.endedAt <= attempt.terminalAt

WindowInv ==
    /\ WindowTypeOK /\ Deadlines /\ ReadTooEarly /\ GraceAfterEnd
    /\ attempt.state = "failed" => command.ended /\ ~command.files

USE DEF idle

\* The invariant holds of a freshly submitted import.
LEMMA InitWindowInv ==
    ASSUME WindowConstantsOK PROVE WindowInit => WindowInv
  BY DEF WindowConstantsOK, WindowInit, WindowInv, WindowTypeOK, Deadlines,
                                ReadTooEarly, GraceAfterEnd

\* Every step of Servarr, of the clock and of the engine preserves it.
LEMMA WindowStep ==
    ASSUME WindowConstantsOK, QuickChecks, WindowInv, [WindowNext]_windowVars
    PROVE  WindowInv'
<1> USE DEF WindowConstantsOK, WindowInv, WindowTypeOK, Deadlines, ReadTooEarly, GraceAfterEnd
<1>1. CASE Tick
  BY <1>1 DEF Tick
<1>2. CASE ImportFiles
  BY Zenon, <1>2 DEF ImportFiles
<1>3. CASE EndCommand
  <2>1. /\ ~command.ended /\ now' = now /\ attempt' = attempt /\ check' = check
        /\ command'.ended /\ command'.endedAt = now
        /\ command'.files = command.files /\ command'.listed = command.listed
    BY Zenon, <1>3 DEF EndCommand
  <2>2. WindowTypeOK'
    BY Zenon, <1>3 DEF EndCommand
  <2>3. Deadlines' /\ ReadTooEarly'
    BY <2>1, <2>2
  \* No check has seen the end of the command, and none has given the import up.
  <2>4. ~attempt.terminal /\ attempt.state # "failed"
    BY Zenon, <2>1
  <2> QED
    BY Zenon, <2>1, <2>2, <2>3, <2>4
<1>4. CASE ListImport
  BY Zenon, <1>4 DEF ListImport
<1>5. CASE ReadHistory
  BY <1>5 DEF ReadHistory
<1>6. CASE ReadCommand
  <2>1. CASE ~command.ended
    BY Zenon, <1>6, <2>1 DEF ReadCommand
  <2>2. CASE command.ended
    <3>1. /\ terminalSince \in Nat
          /\ command.endedAt <= terminalSince
      BY Zenon, <2>2 DEF terminalSince
    \* Both the lag and the check fit into the grace period.
    <3>2. now >= terminalSince + Grace => ~command.files
      BY <1>6, <2>2, <3>1 DEF ReadCommand, QuickChecks
    <3> QED
      BY Zenon, <1>6, <2>2, <3>1, <3>2 DEF ReadCommand
  <2> QED
    BY Zenon, <2>1, <2>2
<1>7. CASE AbandonCheck
  BY Zenon, <1>7 DEF AbandonCheck
<1>8. CASE UNCHANGED windowVars
  BY Zenon, <1>8 DEF windowVars
<1> QED
  BY Zenon, <1>1, <1>2, <1>3, <1>4, <1>5, <1>6, <1>7, <1>8 DEF WindowNext

\* The state of an import keeps its shape, however slow the checks are.
THEOREM WindowTypeCorrect == WindowSpec => []WindowTypeOK
<1>1. WindowInit => WindowTypeOK
  BY DEF WindowInit, WindowTypeOK
<1>2. ASSUME WindowTypeOK, [WindowNext]_windowVars PROVE WindowTypeOK'
  <2>1. CASE Tick
    BY <1>2, <2>1 DEF WindowTypeOK, Tick
  <2>2. CASE ImportFiles \/ ListImport
    BY Zenon, <1>2, <2>2 DEF WindowTypeOK, ImportFiles, ListImport
  <2>3. CASE EndCommand
    BY Zenon, <1>2, <2>3 DEF WindowTypeOK, EndCommand
  <2>4. CASE ReadHistory
    BY <1>2, <2>4 DEF WindowTypeOK, ReadHistory
  <2>5. CASE ReadCommand
    <3>1. terminalSince \in Nat
      BY Zenon, <1>2 DEF WindowTypeOK, terminalSince
    <3> QED
      BY Zenon, <1>2, <2>5, <3>1 DEF WindowTypeOK, ReadCommand
  <2>6. CASE AbandonCheck
    BY Zenon, <1>2, <2>6 DEF WindowTypeOK, AbandonCheck
  <2>7. CASE UNCHANGED windowVars
    BY Zenon, <1>2, <2>7 DEF WindowTypeOK, windowVars
  <2> QED
    BY Zenon, <1>2, <2>1, <2>2, <2>3, <2>4, <2>5, <2>6, <2>7 DEF WindowNext
<1> QED
  BY <1>1, <1>2, PTL DEF WindowSpec

\* Engine.reconcile never records an import whose files reached the library as
\* failed, if history lags and checks last less than the grace period together.
THEOREM GraceSuffices ==
    ASSUME WindowConstantsOK, QuickChecks
    PROVE  WindowSpec => []NoFalseFailure
<1>1. WindowInv => NoFalseFailure
  BY Zenon DEF WindowInv, NoFalseFailure
<1> QED
  BY <1>1, InitWindowInv, WindowStep, PTL DEF WindowSpec

-----------------------------------------------------------------------------
(* The execution record *)


\* What a record has to be besides valid
Kept(r) ==
    /\ r.state \in StatesOf[r.kind] /\ r.kind = r.auth.kind
    /\ r.kind \in Discs => r.stage \in Places \cup {None}
    /\ r.kind = "join" => r.stage \in Verdicts \cup {None}
    /\ r.kind = "manual" => r.path = None /\ r.before \in Histories
    /\ r.path # None => /\ r.before \in Histories /\ r.importAt \in Times
                        /\ r.published # None /\ r.artifact # None /\ r.stage \notin Rejections
    /\ r.state = "imported" =>
          /\ r.confirmation \in Confirmations /\ r.confirmation.history > r.before
          /\ r.confirmation.path = IF r.kind = "manual" THEN r.auth.file ELSE r.path

Sound(r) == r \in ExecutionRecord /\ validateExecution(r) /\ Kept(r)

Final == {"imported", "import_failed", "failed"}

\* What an operation may make of a record
Follows(r, n) ==
    /\ n.auth = r.auth
    /\ r.command # None => n.command = r.command
    /\ r.state \in Final => n = r
    /\ r.state = "discarded" /\ ~r.legacy => n = r

Inv ==
    /\ base \in Authorizations
    /\ execution # Absent => Sound(execution)

-----------------------------------------------------------------------------
(* The calls *)

\* The arguments of a call
WellFormed(o) ==
    /\ o.at \in Times
    /\ \A k \in Kinds : o.op = Preparation[k] =>
          o.auth \in [kind : {k}, file : Files] /\ o.before \in Histories
    /\ o.op = "RecordJoinStage" =>
          o.reason \in Reasons \cup {None} /\ o.artifact \in Artifacts /\ o.verdict \in Verdicts
    /\ o.op \in {"RecordRemuxStage", "RecordDVDStage"} =>
          o.place \in Places /\ o.reason \in Reasons \cup {None} /\ o.artifact \in Artifacts
    /\ o.op \in {"RecordJoinPublish", "RecordRemuxPublish", "RecordDVDPublish"} =>
          o.place \in Places /\ o.reason \in Reasons \cup {None} /\ o.artifact \in Artifacts
    /\ o.op = "RecordJoinDiscard" => o.reason \in Reasons \cup {None}
    /\ o.op \in {"PrepareJoinImport", "PrepareRemuxImport"} =>
          o.path \in Files /\ o.before \in Histories
    /\ o.op \in {"MarkManualImportRequested", "MarkJoinImportRequested",
                 "MarkRemuxImportRequested"} => o.command \in Commands
    /\ o.op \in {"MarkManualImportImported", "MarkJoinImported", "MarkRemuxImported"} =>
          o.path \in Files /\ o.history \in Histories

\* Every call has them.
LEMMA CallShape ==
    ASSUME NEW o \in Calls
    PROVE  WellFormed(o)
<1>1. ASSUME NEW k \in Kinds, o \in PrepareCallsOf(k)
      PROVE  o.op = Preparation[k] /\ o.auth \in [kind : {k}, file : Files]
             /\ o.before \in Histories /\ o.at \in Times
  BY Zenon, <1>1 DEF PrepareCallsOf
<1>2. CASE o \in PrepareCalls
  BY <1>1, <1>2 DEF WellFormed, PrepareCalls, Preparation, Kinds
<1>3. CASE o \in JoinStageCalls
  BY <1>3 DEF WellFormed, JoinStageCalls, Preparation, Kinds
<1>4. CASE o \in DiscStageCalls
  BY <1>4 DEF WellFormed, DiscStageCalls, Preparation, Kinds
<1>5. CASE o \in PublishCalls
  BY <1>5 DEF WellFormed, PublishCalls, Preparation, Kinds
<1>6. CASE o \in DiscardCalls
  BY <1>6 DEF WellFormed, DiscardCalls, Preparation, Kinds
<1>7. CASE o \in ImportCalls
  BY <1>7 DEF WellFormed, ImportCalls, Preparation, Kinds
<1>8. CASE o \in RequestedCalls
  BY <1>8 DEF WellFormed, RequestedCalls, Preparation, Kinds
<1>9. CASE o \in ImportedCalls
  BY <1>9 DEF WellFormed, ImportedCalls, Preparation, Kinds
<1>10. CASE o \in FailedCalls
  BY <1>10 DEF WellFormed, FailedCalls, Preparation, Kinds
<1>11. \/ o \in PrepareCalls
       \/ o \in JoinStageCalls \/ o \in DiscStageCalls \/ o \in PublishCalls \/ o \in DiscardCalls
       \/ o \in ImportCalls \/ o \in RequestedCalls \/ o \in ImportedCalls \/ o \in FailedCalls
  BY Zenon DEF Calls, UpdateCalls
<1> QED
  BY Zenon, <1>2, <1>3, <1>4, <1>5, <1>6, <1>7, <1>8, <1>9, <1>10, <1>11

\* What an update leaves is what the operation made of the record, stamped.
Stamped(m, o, r) == IF m = r THEN r ELSE [m EXCEPT !.updatedAt = o.at]

May(r, o) == Sound(r) /\ o.at \in Times /\ o.at >= r.updatedAt

\* What no update changes
Base(n, r, o) ==
    /\ n \in ExecutionRecord /\ n.updatedAt = o.at /\ o.at >= r.updatedAt /\ n.updatedAt >= n.preparedAt
    /\ n.kind = r.kind /\ n.auth = r.auth /\ n.legacy = r.legacy /\ n.preparedAt = r.preparedAt

-----------------------------------------------------------------------------
(* The forms an update has: what the stamped record holds *)

Move(r, s) == [r EXCEPT !.state = s]

\* An update of the state alone
LEMMA Moved ==
    ASSUME ConstantsOK, NEW o, NEW r, May(r, o), NEW s \in States \ {r.state},
           NEW m, NEW n, n = Stamped(m, o, r),
           m = Move(r, s)
    PROVE  /\ Base(n, r, o) /\ n.state = s /\ n.stage = r.stage /\ n.artifact = r.artifact
           /\ n.published = r.published /\ n.failure = r.failure /\ n.path = r.path
           /\ n.before = r.before /\ n.importAt = r.importAt /\ n.command = r.command
           /\ n.confirmation = r.confirmation
<1>1. r \in ExecutionRecord /\ o.at \in Times
  BY Zenon DEF May, Sound
<1>2. n = [r EXCEPT !.state = s, !.updatedAt = o.at]
  BY Zenon, <1>1 DEF Stamped, ExecutionRecord, Move
<1>3. n \in ExecutionRecord
  BY ZenonT(60), <1>1, <1>2 DEF ExecutionRecord
<1>4. o.at >= r.updatedAt /\ o.at >= r.preparedAt
  BY <1>1 DEF May, Sound, validateExecution, ExecutionRecord, ConstantsOK
<1>5. n.kind = r.kind /\ n.auth = r.auth /\ n.legacy = r.legacy /\ n.preparedAt = r.preparedAt
      /\ n.updatedAt = o.at
  BY Zenon, <1>1, <1>2 DEF ExecutionRecord
<1>6. /\ n.state = s /\ n.stage = r.stage /\ n.artifact = r.artifact /\ n.published = r.published
      /\ n.failure = r.failure /\ n.path = r.path /\ n.before = r.before /\ n.importAt = r.importAt
      /\ n.command = r.command /\ n.confirmation = r.confirmation
  BY Zenon, <1>1, <1>2 DEF ExecutionRecord
<1> QED
  BY Zenon, <1>3, <1>4, <1>5, <1>6 DEF Base

\* A record that has failed
WithFailure(r, s, f) == [r EXCEPT !.state = s, !.failure = f]

\* An update of the state and the failure
LEMMA FailedBy ==
    ASSUME ConstantsOK, NEW o, NEW r, May(r, o), NEW s \in States \ {r.state},
           NEW m, NEW n, n = Stamped(m, o, r),
           NEW f \in Failures,
           m = WithFailure(r, s, f)
    PROVE  /\ Base(n, r, o) /\ n.state = s /\ n.failure = f /\ n.stage = r.stage
           /\ n.artifact = r.artifact /\ n.published = r.published /\ n.path = r.path
           /\ n.before = r.before /\ n.importAt = r.importAt /\ n.command = r.command
           /\ n.confirmation = r.confirmation
<1>1. r \in ExecutionRecord /\ o.at \in Times
  BY Zenon DEF May, Sound
<1>2. n = [r EXCEPT !.state = s, !.failure = f, !.updatedAt = o.at]
  BY Zenon, <1>1 DEF Stamped, ExecutionRecord, WithFailure
<1>3. n \in ExecutionRecord
  BY ZenonT(60), <1>1, <1>2 DEF ExecutionRecord
<1>4. o.at >= r.updatedAt /\ o.at >= r.preparedAt
  BY <1>1 DEF May, Sound, validateExecution, ExecutionRecord, ConstantsOK
<1>5. n.kind = r.kind /\ n.auth = r.auth /\ n.legacy = r.legacy /\ n.preparedAt = r.preparedAt
      /\ n.updatedAt = o.at
  BY Zenon, <1>1, <1>2 DEF ExecutionRecord
<1>6. /\ n.state = s /\ n.failure = f /\ n.stage = r.stage /\ n.artifact = r.artifact
      /\ n.published = r.published /\ n.path = r.path /\ n.before = r.before
      /\ n.importAt = r.importAt /\ n.command = r.command /\ n.confirmation = r.confirmation
  BY Zenon, <1>1, <1>2 DEF ExecutionRecord
<1> QED
  BY Zenon, <1>3, <1>4, <1>5, <1>6 DEF Base

FailStage(r, s, g, f) == [r EXCEPT !.state = s, !.stage = g, !.failure = f]

\* An update of the outcome of a stage that failed
LEMMA FailedStage ==
    ASSUME ConstantsOK, NEW o, NEW r, May(r, o), NEW s \in States \ {r.state},
           NEW m, NEW n, n = Stamped(m, o, r),
           NEW g \in Verdicts \cup Places, NEW f \in Failures,
           m = FailStage(r, s, g, f)
    PROVE  /\ Base(n, r, o) /\ n.state = s /\ n.stage = g /\ n.failure = f
           /\ n.artifact = r.artifact /\ n.published = r.published /\ n.path = r.path
           /\ n.before = r.before /\ n.importAt = r.importAt /\ n.command = r.command
           /\ n.confirmation = r.confirmation
<1>1. r \in ExecutionRecord /\ o.at \in Times
  BY Zenon DEF May, Sound
<1>2. n = [r EXCEPT !.state = s, !.stage = g, !.failure = f, !.updatedAt = o.at]
  BY Zenon, <1>1 DEF Stamped, ExecutionRecord, FailStage
<1>3. n \in ExecutionRecord
  BY ZenonT(60), <1>1, <1>2 DEF ExecutionRecord
<1>4. o.at >= r.updatedAt /\ o.at >= r.preparedAt
  BY <1>1 DEF May, Sound, validateExecution, ExecutionRecord, ConstantsOK
<1>5. n.kind = r.kind /\ n.auth = r.auth /\ n.legacy = r.legacy /\ n.preparedAt = r.preparedAt
      /\ n.updatedAt = o.at
  BY Zenon, <1>1, <1>2 DEF ExecutionRecord
<1>6. /\ n.state = s /\ n.stage = g /\ n.failure = f /\ n.artifact = r.artifact
      /\ n.published = r.published /\ n.path = r.path /\ n.before = r.before
      /\ n.importAt = r.importAt /\ n.command = r.command /\ n.confirmation = r.confirmation
  BY Zenon, <1>1, <1>2 DEF ExecutionRecord
<1> QED
  BY Zenon, <1>3, <1>4, <1>5, <1>6 DEF Base

Stage(r, s, g, a) == [r EXCEPT !.state = s, !.stage = g, !.artifact = a]

\* An update of a staged artifact
LEMMA StagedAs ==
    ASSUME ConstantsOK, NEW o, NEW r, May(r, o), NEW s \in States \ {r.state},
           NEW m, NEW n, n = Stamped(m, o, r),
           NEW g \in Verdicts \cup Places, NEW a \in Artifacts,
           m = Stage(r, s, g, a)
    PROVE  /\ Base(n, r, o) /\ n.state = s /\ n.stage = g /\ n.artifact = a
           /\ n.published = r.published /\ n.failure = r.failure /\ n.path = r.path
           /\ n.before = r.before /\ n.importAt = r.importAt /\ n.command = r.command
           /\ n.confirmation = r.confirmation
<1>1. r \in ExecutionRecord /\ o.at \in Times
  BY Zenon DEF May, Sound
<1>2. n = [r EXCEPT !.state = s, !.stage = g, !.artifact = a, !.updatedAt = o.at]
  BY Zenon, <1>1 DEF Stamped, ExecutionRecord, Stage
<1>3. n \in ExecutionRecord
  BY ZenonT(60), <1>1, <1>2 DEF ExecutionRecord
<1>4. o.at >= r.updatedAt /\ o.at >= r.preparedAt
  BY <1>1 DEF May, Sound, validateExecution, ExecutionRecord, ConstantsOK
<1>5. n.kind = r.kind /\ n.auth = r.auth /\ n.legacy = r.legacy /\ n.preparedAt = r.preparedAt
      /\ n.updatedAt = o.at
  BY Zenon, <1>1, <1>2 DEF ExecutionRecord
<1>6. /\ n.state = s /\ n.stage = g /\ n.artifact = a /\ n.published = r.published
      /\ n.failure = r.failure /\ n.path = r.path /\ n.before = r.before /\ n.importAt = r.importAt
      /\ n.command = r.command /\ n.confirmation = r.confirmation
  BY Zenon, <1>1, <1>2 DEF ExecutionRecord
<1> QED
  BY Zenon, <1>3, <1>4, <1>5, <1>6 DEF Base

Publish(r, s, p) == [r EXCEPT !.state = s, !.published = p]

\* An update of a published artifact
LEMMA PublishedAs ==
    ASSUME ConstantsOK, NEW o, NEW r, May(r, o), NEW s \in States \ {r.state},
           NEW m, NEW n, n = Stamped(m, o, r),
           NEW p \in Places,
           m = Publish(r, s, p)
    PROVE  /\ Base(n, r, o) /\ n.state = s /\ n.published = p /\ n.stage = r.stage
           /\ n.artifact = r.artifact /\ n.failure = r.failure /\ n.path = r.path
           /\ n.before = r.before /\ n.importAt = r.importAt /\ n.command = r.command
           /\ n.confirmation = r.confirmation
<1>1. r \in ExecutionRecord /\ o.at \in Times
  BY Zenon DEF May, Sound
<1>2. n = [r EXCEPT !.state = s, !.published = p, !.updatedAt = o.at]
  BY Zenon, <1>1 DEF Stamped, ExecutionRecord, Publish
<1>3. n \in ExecutionRecord
  BY ZenonT(60), <1>1, <1>2 DEF ExecutionRecord
<1>4. o.at >= r.updatedAt /\ o.at >= r.preparedAt
  BY <1>1 DEF May, Sound, validateExecution, ExecutionRecord, ConstantsOK
<1>5. n.kind = r.kind /\ n.auth = r.auth /\ n.legacy = r.legacy /\ n.preparedAt = r.preparedAt
      /\ n.updatedAt = o.at
  BY Zenon, <1>1, <1>2 DEF ExecutionRecord
<1>6. /\ n.state = s /\ n.published = p /\ n.stage = r.stage /\ n.artifact = r.artifact
      /\ n.failure = r.failure /\ n.path = r.path /\ n.before = r.before /\ n.importAt = r.importAt
      /\ n.command = r.command /\ n.confirmation = r.confirmation
  BY Zenon, <1>1, <1>2 DEF ExecutionRecord
<1> QED
  BY Zenon, <1>3, <1>4, <1>5, <1>6 DEF Base

Expect(r, s, w, b, t) == [r EXCEPT !.state = s, !.path = w, !.before = b, !.importAt = t]

\* An update of the import it waits for
LEMMA PreparedFor ==
    ASSUME ConstantsOK, NEW o, NEW r, May(r, o), NEW s \in States \ {r.state},
           NEW m, NEW n, n = Stamped(m, o, r),
           NEW w \in Files, NEW b \in Histories, NEW t \in Times,
           m = Expect(r, s, w, b, t)
    PROVE  /\ Base(n, r, o) /\ n.state = s /\ n.path = w /\ n.before = b /\ n.importAt = t
           /\ n.stage = r.stage /\ n.artifact = r.artifact /\ n.published = r.published
           /\ n.failure = r.failure /\ n.command = r.command /\ n.confirmation = r.confirmation
<1>1. r \in ExecutionRecord /\ o.at \in Times
  BY Zenon DEF May, Sound
<1>2. n = [r EXCEPT !.state = s, !.path = w, !.before = b, !.importAt = t, !.updatedAt = o.at]
  BY Zenon, <1>1 DEF Stamped, ExecutionRecord, Expect
<1>3. n \in ExecutionRecord
  BY ZenonT(60), <1>1, <1>2 DEF ExecutionRecord
<1>4. o.at >= r.updatedAt /\ o.at >= r.preparedAt
  BY <1>1 DEF May, Sound, validateExecution, ExecutionRecord, ConstantsOK
<1>5. n.kind = r.kind /\ n.auth = r.auth /\ n.legacy = r.legacy /\ n.preparedAt = r.preparedAt
      /\ n.updatedAt = o.at
  BY Zenon, <1>1, <1>2 DEF ExecutionRecord
<1>6. /\ n.state = s /\ n.path = w /\ n.before = b /\ n.importAt = t /\ n.stage = r.stage
      /\ n.artifact = r.artifact /\ n.published = r.published /\ n.failure = r.failure
      /\ n.command = r.command /\ n.confirmation = r.confirmation
  BY Zenon, <1>1, <1>2 DEF ExecutionRecord
<1> QED
  BY Zenon, <1>3, <1>4, <1>5, <1>6 DEF Base

Request(r, s, c) == [r EXCEPT !.state = s, !.command = c]

\* An update of the command
LEMMA RequestedAs ==
    ASSUME ConstantsOK, NEW o, NEW r, May(r, o), NEW s \in States \ {r.state},
           NEW m, NEW n, n = Stamped(m, o, r),
           NEW c \in Commands,
           m = Request(r, s, c)
    PROVE  /\ Base(n, r, o) /\ n.state = s /\ n.command = c /\ n.stage = r.stage
           /\ n.artifact = r.artifact /\ n.published = r.published /\ n.failure = r.failure
           /\ n.path = r.path /\ n.before = r.before /\ n.importAt = r.importAt
           /\ n.confirmation = r.confirmation
<1>1. r \in ExecutionRecord /\ o.at \in Times
  BY Zenon DEF May, Sound
<1>2. n = [r EXCEPT !.state = s, !.command = c, !.updatedAt = o.at]
  BY Zenon, <1>1 DEF Stamped, ExecutionRecord, Request
<1>3. n \in ExecutionRecord
  BY ZenonT(60), <1>1, <1>2 DEF ExecutionRecord
<1>4. o.at >= r.updatedAt /\ o.at >= r.preparedAt
  BY <1>1 DEF May, Sound, validateExecution, ExecutionRecord, ConstantsOK
<1>5. n.kind = r.kind /\ n.auth = r.auth /\ n.legacy = r.legacy /\ n.preparedAt = r.preparedAt
      /\ n.updatedAt = o.at
  BY Zenon, <1>1, <1>2 DEF ExecutionRecord
<1>6. /\ n.state = s /\ n.command = c /\ n.stage = r.stage /\ n.artifact = r.artifact
      /\ n.published = r.published /\ n.failure = r.failure /\ n.path = r.path
      /\ n.before = r.before /\ n.importAt = r.importAt /\ n.confirmation = r.confirmation
  BY Zenon, <1>1, <1>2 DEF ExecutionRecord
<1> QED
  BY Zenon, <1>3, <1>4, <1>5, <1>6 DEF Base

Import(r, s, h) == [r EXCEPT !.state = s, !.confirmation = h]

\* An update of the confirmation
LEMMA ConfirmedBy ==
    ASSUME ConstantsOK, NEW o, NEW r, May(r, o), NEW s \in States \ {r.state},
           NEW m, NEW n, n = Stamped(m, o, r),
           NEW h \in Confirmations,
           m = Import(r, s, h)
    PROVE  /\ Base(n, r, o) /\ n.state = s /\ n.confirmation = h /\ n.stage = r.stage
           /\ n.artifact = r.artifact /\ n.published = r.published /\ n.failure = r.failure
           /\ n.path = r.path /\ n.before = r.before /\ n.importAt = r.importAt
           /\ n.command = r.command
<1>1. r \in ExecutionRecord /\ o.at \in Times
  BY Zenon DEF May, Sound
<1>2. n = [r EXCEPT !.state = s, !.confirmation = h, !.updatedAt = o.at]
  BY Zenon, <1>1 DEF Stamped, ExecutionRecord, Import
<1>3. n \in ExecutionRecord
  BY ZenonT(60), <1>1, <1>2 DEF ExecutionRecord
<1>4. o.at >= r.updatedAt /\ o.at >= r.preparedAt
  BY <1>1 DEF May, Sound, validateExecution, ExecutionRecord, ConstantsOK
<1>5. n.kind = r.kind /\ n.auth = r.auth /\ n.legacy = r.legacy /\ n.preparedAt = r.preparedAt
      /\ n.updatedAt = o.at
  BY Zenon, <1>1, <1>2 DEF ExecutionRecord
<1>6. /\ n.state = s /\ n.confirmation = h /\ n.stage = r.stage /\ n.artifact = r.artifact
      /\ n.published = r.published /\ n.failure = r.failure /\ n.path = r.path
      /\ n.before = r.before /\ n.importAt = r.importAt /\ n.command = r.command
  BY Zenon, <1>1, <1>2 DEF ExecutionRecord
<1> QED
  BY Zenon, <1>3, <1>4, <1>5, <1>6 DEF Base

-----------------------------------------------------------------------------
(* Joins *)

\* A join that is valid and kept is sound.
LEMMA JoinSound ==
    ASSUME NEW n, NEW r, NEW o, Base(n, r, o), r.kind = "join", validateJoinExecution(n), Kept(n)
    PROVE  Sound(n)
BY Zenon DEF Base, Sound, validateExecution

\* What is known of a sound join
LEMMA JoinFacts ==
    ASSUME NEW r, NEW o, May(r, o), r.kind = "join"
    PROVE  validateJoinExecution(r) /\ Kept(r) /\ r \in ExecutionRecord
BY Zenon DEF May, Sound, validateExecution

\* RecordJoinStage
LEMMA JoinStaged ==
    ASSUME ConstantsOK, NEW o \in Calls, NEW r, May(r, o), r.kind = "join", o.op = "RecordJoinStage",
           NEW m \in RecordJoinStage(o, r), NEW n, n = Stamped(m, o, r)
    PROVE  Sound(n) /\ Follows(r, n)
<1>1. o.reason \in Reasons \cup {None} /\ o.artifact \in Artifacts /\ o.verdict \in Verdicts
  BY Zenon, CallShape DEF WellFormed
<1>2. validateJoinExecution(r) /\ Kept(r)
  BY Zenon, JoinFacts
<1>3. CASE m = r
  BY Zenon, <1>3 DEF May, Stamped, Follows
<1>4. CASE r.state = "prepared" /\ m = joinStageOutcome(o, r) /\ o.reason # None
  <2> DEFINE f == [op |-> "stage", reason |-> o.reason]
  <2>1. f \in Failures /\ f.op = "stage" /\ f # None /\ "failed" \in States
        /\ "stage_failed" \in Verdicts /\ "stage_failed" # None
    BY <1>1, <1>4 DEF Failures, ConstantsOK, Verdicts, Rejections, States, DiscStates
  <2> HIDE DEF f
  <2>2. m = FailStage(r, "failed", "stage_failed", f)
    BY Zenon, <1>4 DEF joinStageOutcome, f, FailStage
  <2>3. /\ Base(n, r, o) /\ n.state = "failed" /\ n.stage = "stage_failed" /\ n.failure = f
        /\ n.artifact = r.artifact /\ n.published = r.published /\ n.path = r.path
        /\ n.before = r.before /\ n.importAt = r.importAt /\ n.command = r.command
        /\ n.confirmation = r.confirmation
    <3>1. "failed" \in States \ {r.state} /\ "stage_failed" \in Verdicts \cup Places
      BY Zenon, <1>4, <2>1
    <3> QED BY <2>1, <2>2, <3>1, FailedStage
  <2>4. validateJoinExecution(n)
    BY ZenonT(60), <1>2, <1>4, <2>1, <2>3 DEF validateJoinExecution, failedJoin, Unimported, Rejections
  <2>5. Kept(n)
    <3>1. n.state \in StatesOf["join"] /\ n.path = None
      BY Zenon, <1>2, <1>4, <2>3 DEF StatesOf, validateJoinExecution, Unimported
    <3> QED BY Zenon, <1>2, <2>1, <2>3, <3>1 DEF Kept, Base, Discs
  <2> QED BY Zenon, <1>4, <2>3, <2>4, <2>5, JoinSound DEF Follows, Final, Base
<1>5. CASE r.state = "prepared" /\ m = joinStageOutcome(o, r) /\ o.reason = None
  <2> DEFINE s == IF o.verdict = "accepted" THEN "artifact_ready" ELSE "discard_pending"
  <2>1. s \in {"artifact_ready", "discard_pending"} /\ s \in States /\ o.artifact # None /\ o.verdict # None
        /\ (s = "artifact_ready") = (o.verdict \notin Rejections)
    BY Zenon, <1>1 DEF ConstantsOK, Verdicts, Rejections, States, StatesOf
  <2>2. m = Stage(r, s, o.verdict, o.artifact)
    BY Zenon, <1>5 DEF joinStageOutcome, Stage
  <2> HIDE DEF s
  <2>3. /\ Base(n, r, o) /\ n.state = s /\ n.stage = o.verdict /\ n.artifact = o.artifact
        /\ n.published = r.published /\ n.failure = r.failure /\ n.path = r.path
        /\ n.before = r.before /\ n.importAt = r.importAt /\ n.command = r.command
        /\ n.confirmation = r.confirmation
    <3>1. s \in States \ {r.state} /\ o.verdict \in Verdicts \cup Places
      BY Zenon, <1>1, <1>5, <2>1
    <3> QED BY <1>1, <2>2, <3>1, StagedAs
  <2>4. validateJoinExecution(n)
    BY <1>2, <1>5, <2>1, <2>3 DEF validateJoinExecution, requireJoinBeforeImport, requireJoinArtifact,
       Unimported
  <2>5. Kept(n)
    <3>1. n.state \in StatesOf["join"] /\ n.path = None
      BY Zenon, <1>2, <1>5, <2>1, <2>3 DEF StatesOf, validateJoinExecution, Unimported
    <3> QED BY Zenon, <1>1, <1>2, <2>1, <2>3, <3>1 DEF Kept, Base, Discs
  <2> QED BY Zenon, <1>5, <2>3, <2>4, <2>5, JoinSound DEF Follows, Final, Base
<1> QED
  BY Zenon, <1>3, <1>4, <1>5 DEF RecordJoinStage, Step

\* RecordJoinPublish
LEMMA JoinPublished ==
    ASSUME ConstantsOK, NEW o \in Calls, NEW r, May(r, o), r.kind = "join", o.op = "RecordJoinPublish",
           NEW m \in RecordJoinPublish(o, r), NEW n, n = Stamped(m, o, r)
    PROVE  Sound(n) /\ Follows(r, n)
<1>1. o.reason \in Reasons \cup {None} /\ o.place \in Places
  BY Zenon, CallShape DEF WellFormed
<1>2. validateJoinExecution(r) /\ Kept(r)
  BY Zenon, JoinFacts
<1>3. CASE m = r
  BY Zenon, <1>3 DEF May, Stamped, Follows
<1>4. CASE r.state = "artifact_ready" /\ o.reason # None
           /\ m = [r EXCEPT !.state = "failed", !.failure = [op |-> "publish", reason |-> o.reason]]
  <2> DEFINE f == [op |-> "publish", reason |-> o.reason]
  <2>1. f \in Failures /\ f.op = "publish" /\ f # None /\ "failed" \in States \ {r.state}
    BY <1>1, <1>4 DEF Failures, ConstantsOK, States, DiscStates
  <2>2. m = WithFailure(r, "failed", f)
    BY Zenon, <1>4 DEF WithFailure
  <2> HIDE DEF f
  <2>3. /\ Base(n, r, o) /\ n.state = "failed" /\ n.failure = f
        /\ n.stage = r.stage /\ n.artifact = r.artifact /\ n.published = r.published
        /\ n.path = r.path /\ n.before = r.before /\ n.importAt = r.importAt
        /\ n.command = r.command /\ n.confirmation = r.confirmation
    BY <2>1, <2>2, FailedBy
  <2>4. validateJoinExecution(n)
    BY ZenonT(60), <1>2, <1>4, <2>1, <2>3 DEF validateJoinExecution, failedJoin, requireJoinBeforeImport,
       requireJoinArtifact, Unimported
  <2>5. Kept(n)
    <3>1. n.state \in StatesOf["join"]
      BY Zenon, <2>3 DEF StatesOf
    <3> QED BY Zenon, <1>2, <2>3, <3>1 DEF Kept, Base, Discs
  <2> QED BY Zenon, <1>4, <2>3, <2>4, <2>5, JoinSound DEF Follows, Final, Base
<1>5. CASE r.state = "artifact_ready" /\ m = [r EXCEPT !.state = "published", !.published = o.place]
  <2>1. "published" \in States \ {r.state} /\ o.place # None
    BY Zenon, <1>1, <1>5 DEF ConstantsOK, States, DiscStates
  <2>2. m = Publish(r, "published", o.place)
    BY Zenon, <1>5 DEF Publish
  <2>3. /\ Base(n, r, o) /\ n.state = "published" /\ n.published = o.place
        /\ n.stage = r.stage /\ n.artifact = r.artifact /\ n.failure = r.failure
        /\ n.path = r.path /\ n.before = r.before /\ n.importAt = r.importAt
        /\ n.command = r.command /\ n.confirmation = r.confirmation
    BY <1>1, <2>1, <2>2, PublishedAs
  <2>4. validateJoinExecution(n)
    BY Zenon, <1>2, <1>5, <2>1, <2>3 DEF validateJoinExecution, requireJoinBeforeImport,
       requireJoinArtifact, Unimported
  <2>5. Kept(n)
    <3>1. n.state \in StatesOf["join"] /\ n.path = None
      BY Zenon, <1>2, <1>5, <2>3 DEF StatesOf, validateJoinExecution, requireJoinBeforeImport, Unimported
    <3> QED BY Zenon, <1>2, <2>3, <3>1 DEF Kept, Base, Discs
  <2> QED BY Zenon, <1>5, <2>3, <2>4, <2>5, JoinSound DEF Follows, Final, Base
<1> QED
  BY Zenon, <1>3, <1>4, <1>5 DEF RecordJoinPublish, Step

\* RecordJoinDiscard
LEMMA JoinDiscarded ==
    ASSUME ConstantsOK, NEW o \in Calls, NEW r, May(r, o), r.kind = "join", o.op = "RecordJoinDiscard",
           NEW m \in RecordJoinDiscard(o, r), NEW n, n = Stamped(m, o, r)
    PROVE  Sound(n) /\ Follows(r, n)
<1>1. o.reason \in Reasons \cup {None}
  BY Zenon, CallShape DEF WellFormed
<1>2. validateJoinExecution(r) /\ Kept(r)
  BY Zenon, JoinFacts
<1>3. CASE m = r
  BY Zenon, <1>3 DEF May, Stamped, Follows
<1>4. CASE r.state = "discard_pending" /\ o.reason # None
           /\ m = [r EXCEPT !.state = "failed", !.failure = [op |-> "discard", reason |-> o.reason]]
  <2> DEFINE f == [op |-> "discard", reason |-> o.reason]
  <2>1. f \in Failures /\ f.op = "discard" /\ f # None /\ "failed" \in States \ {r.state}
    BY <1>1, <1>4 DEF Failures, ConstantsOK, States, DiscStates
  <2>2. m = WithFailure(r, "failed", f)
    BY Zenon, <1>4 DEF WithFailure
  <2> HIDE DEF f
  <2>3. /\ Base(n, r, o) /\ n.state = "failed" /\ n.failure = f
        /\ n.stage = r.stage /\ n.artifact = r.artifact /\ n.published = r.published
        /\ n.path = r.path /\ n.before = r.before /\ n.importAt = r.importAt
        /\ n.command = r.command /\ n.confirmation = r.confirmation
    BY <2>1, <2>2, FailedBy
  <2>4. validateJoinExecution(n)
    BY ZenonT(60), <1>2, <1>4, <2>1, <2>3 DEF validateJoinExecution, failedJoin, requireJoinBeforeImport,
       requireJoinArtifact, Unimported
  <2>5. Kept(n)
    <3>1. n.state \in StatesOf["join"]
      BY Zenon, <2>3 DEF StatesOf
    <3> QED BY Zenon, <1>2, <2>3, <3>1 DEF Kept, Base, Discs
  <2> QED BY Zenon, <1>4, <2>3, <2>4, <2>5, JoinSound DEF Follows, Final, Base
<1>5. CASE r.state = "discard_pending" /\ m = [r EXCEPT !.state = "discarded"]
  <2>1. "discarded" \in States \ {r.state}
    BY Zenon, <1>5 DEF States, StatesOf
  <2>2. m = Move(r, "discarded")
    BY Zenon, <1>5 DEF Move
  <2>3. /\ Base(n, r, o) /\ n.state = "discarded" /\ n.published = r.published
        /\ n.stage = r.stage /\ n.artifact = r.artifact /\ n.failure = r.failure
        /\ n.path = r.path /\ n.before = r.before /\ n.importAt = r.importAt
        /\ n.command = r.command /\ n.confirmation = r.confirmation
    BY <2>1, <2>2, Moved
  <2>4. validateJoinExecution(n)
    BY Zenon, <1>2, <1>5, <2>3 DEF validateJoinExecution, requireJoinBeforeImport, requireJoinArtifact,
       Unimported
  <2>5. Kept(n)
    <3>1. n.state \in StatesOf["join"]
      BY Zenon, <2>3 DEF StatesOf
    <3> QED BY Zenon, <1>2, <2>3, <3>1 DEF Kept, Base, Discs
  <2> QED BY Zenon, <1>5, <2>3, <2>4, <2>5, JoinSound DEF Follows, Final, Base
<1> QED
  BY Zenon, <1>3, <1>4, <1>5 DEF RecordJoinDiscard, Step

\* PrepareJoinImport
LEMMA JoinImportPrepared ==
    ASSUME ConstantsOK, NEW o \in Calls, NEW r, May(r, o), r.kind = "join", o.op = "PrepareJoinImport",
           NEW m \in PrepareJoinImport(o, r), NEW n, n = Stamped(m, o, r)
    PROVE  Sound(n) /\ Follows(r, n)
<1>1. o.path \in Files /\ o.before \in Histories /\ o.at \in Times
  BY Zenon, CallShape DEF WellFormed
<1>2. validateJoinExecution(r) /\ Kept(r)
  BY Zenon, JoinFacts
<1>3. CASE m = r
  BY Zenon, <1>3 DEF May, Stamped, Follows
<1>4. CASE r.state = "published" /\ m = importPrepared(o, r)
  <2>1. "import_prepared" \in States \ {r.state} /\ o.path # None
    BY Zenon, <1>1, <1>4 DEF ConstantsOK, States, DiscStates, ImportStates
  <2>2. m = Expect(r, "import_prepared", o.path, o.before, o.at)
    BY Zenon, <1>4 DEF Expect, importPrepared
  <2>3. /\ Base(n, r, o) /\ n.state = "import_prepared" /\ n.path = o.path /\ n.before = o.before
        /\ n.importAt = o.at /\ n.stage = r.stage /\ n.artifact = r.artifact
        /\ n.published = r.published /\ n.failure = r.failure /\ n.command = r.command
        /\ n.confirmation = r.confirmation
    BY <1>1, <2>1, <2>2, PreparedFor
  <2>4. n.importAt <= n.updatedAt /\ n.preparedAt <= n.importAt
    BY <1>1, <2>3 DEF Base, ConstantsOK
  <2>5. validateJoinExecution(n)
    BY Zenon, <1>2, <1>4, <2>1, <2>3, <2>4 DEF validateJoinExecution, requireJoinImport, requireJoinArtifact, validateStoredJoinImport, requireJoinBeforeImport, Unimported
  <2>6. Kept(n)
    <3>1. n.state \in StatesOf["join"] /\ n.published # None /\ n.artifact # None /\ n.stage \notin Rejections
      BY Zenon, <1>2, <1>4, <2>3 DEF StatesOf, ImportStates, validateJoinExecution, requireJoinBeforeImport, requireJoinArtifact
    <3> QED BY Zenon, <1>1, <1>2, <2>3, <3>1 DEF Kept, Base, Discs
  <2> QED BY Zenon, <1>4, <2>3, <2>5, <2>6, JoinSound DEF Follows, Final, Base
<1> QED
  BY Zenon, <1>3, <1>4 DEF PrepareJoinImport, Step

\* MarkJoinImportRequested
LEMMA JoinImportRequested ==
    ASSUME ConstantsOK, NEW o \in Calls, NEW r, May(r, o), r.kind = "join", o.op = "MarkJoinImportRequested",
           NEW m \in MarkJoinImportRequested(o, r), NEW n, n = Stamped(m, o, r)
    PROVE  Sound(n) /\ Follows(r, n)
<1>1. o.command \in Commands /\ o.at \in Times
  BY Zenon, CallShape DEF WellFormed
<1>2. validateJoinExecution(r) /\ Kept(r) /\ r \in ExecutionRecord
  BY Zenon, JoinFacts
<1>3. CASE m = r
  BY Zenon, <1>3 DEF May, Stamped, Follows
<1>4. CASE r.state = "import_prepared" /\ m = [r EXCEPT !.state = "import_requested", !.command = o.command]
  <2>1. "import_requested" \in States \ {r.state} /\ o.command # None
    BY Zenon, <1>1, <1>4 DEF ConstantsOK, States, DiscStates, ImportStates
  <2>2. m = Request(r, "import_requested", o.command)
    BY Zenon, <1>4 DEF Request
  <2>3. /\ Base(n, r, o) /\ n.state = "import_requested" /\ n.command = o.command
        /\ n.stage = r.stage /\ n.artifact = r.artifact /\ n.published = r.published
        /\ n.failure = r.failure /\ n.path = r.path /\ n.before = r.before
        /\ n.importAt = r.importAt /\ n.confirmation = r.confirmation
    BY <1>1, <2>1, <2>2, RequestedAs
  <2>4. r.path # None /\ r.command = None /\ n.importAt <= n.updatedAt
    BY <1>1, <1>2, <1>4, <2>3 DEF validateJoinExecution, requireJoinImport, requireJoinArtifact, validateStoredJoinImport, Base, Kept,
       ConstantsOK, ExecutionRecord
  <2>5. validateJoinExecution(n)
    <3>1. r.stage # None /\ r.failure = None /\ requireJoinImport(r)
      BY Zenon, <1>2, <1>4 DEF validateJoinExecution
    <3>2. requireJoinImport(n)
      BY ZenonT(60), <1>2, <1>4, <2>1, <2>3, <2>4, <3>1 DEF requireJoinImport, requireJoinArtifact, validateStoredJoinImport, Base
    <3> QED BY Zenon, <2>3, <3>1, <3>2 DEF validateJoinExecution
  <2>6. Kept(n)
    <3>1. n.state \in StatesOf["join"]
      BY Zenon, <2>3 DEF StatesOf, ImportStates
    <3> QED BY Zenon, <1>2, <2>3, <3>1 DEF Kept, Base, Discs
  <2> QED BY Zenon, <1>4, <2>3, <2>4, <2>5, <2>6, JoinSound DEF Follows, Final, Base
<1> QED
  BY Zenon, <1>3, <1>4 DEF MarkJoinImportRequested, MarkRequested, Step

\* MarkJoinImported
LEMMA JoinImported ==
    ASSUME ConstantsOK, NEW o \in Calls, NEW r, May(r, o), r.kind = "join", o.op = "MarkJoinImported",
           NEW m \in MarkJoinImported(o, r), NEW n, n = Stamped(m, o, r)
    PROVE  Sound(n) /\ Follows(r, n)
<1>1. o.path \in Files /\ o.history \in Histories /\ o.at \in Times
  BY Zenon, CallShape DEF WellFormed
<1>2. validateJoinExecution(r) /\ Kept(r) /\ r \in ExecutionRecord
  BY Zenon, JoinFacts
<1>3. CASE m = r
  BY Zenon, <1>3 DEF May, Stamped, Follows
<1>4. CASE /\ r.state \in {"import_prepared", "import_requested"}
           /\ o.history > r.before /\ r.path = o.path
           /\ m = [r EXCEPT !.state = "imported", !.confirmation = radarrImportConfirmation(o)]
  <2> DEFINE h == radarrImportConfirmation(o)
  <2>1. /\ "imported" \in States \ {r.state} /\ h \in Confirmations /\ h # None
        /\ h.history = o.history /\ h.path = o.path
    BY <1>1, <1>4 DEF ConstantsOK, States, DiscStates, ImportStates, radarrImportConfirmation, Confirmations
  <2>2. m = Import(r, "imported", h)
    BY Zenon, <1>4 DEF Import
  <2> HIDE DEF h
  <2>3. /\ Base(n, r, o) /\ n.state = "imported" /\ n.confirmation = h
        /\ n.stage = r.stage /\ n.artifact = r.artifact /\ n.published = r.published
        /\ n.failure = r.failure /\ n.path = r.path /\ n.before = r.before
        /\ n.importAt = r.importAt /\ n.command = r.command
    BY SMTT(30), <2>1, <2>2, ConfirmedBy
  <2>4. r.path # None /\ n.importAt <= n.updatedAt /\ h.history > r.before
    BY <1>1, <1>2, <1>4, <2>1, <2>3 DEF validateJoinExecution, requireJoinImport, requireJoinArtifact, validateStoredJoinImport, Base, Kept,
       ConstantsOK, ExecutionRecord
  <2>5. validateJoinExecution(n)
    <3>1. r.stage # None /\ r.failure = None /\ requireJoinImport(r)
      BY Zenon, <1>2, <1>4 DEF validateJoinExecution
    <3>2. requireJoinImport(n)
      BY <1>2, <1>4, <2>1, <2>3, <2>4, <3>1 DEF requireJoinImport, requireJoinArtifact, validateStoredJoinImport, Base
    <3> QED BY Zenon, <2>3, <3>1, <3>2 DEF validateJoinExecution
  <2>6. Kept(n)
    <3>1. n.state \in StatesOf["join"]
      BY Zenon, <2>3 DEF StatesOf, ImportStates
    <3> QED BY ZenonT(60), <1>2, <1>4, <2>1, <2>3, <2>4, <3>1 DEF Kept, Base, Discs
  <2> QED BY Zenon, <1>4, <2>3, <2>5, <2>6, JoinSound DEF Follows, Final, Base
<1> QED
  BY Zenon, <1>3, <1>4 DEF MarkJoinImported, Step

\* MarkJoinImportFailed
LEMMA JoinImportFailed ==
    ASSUME ConstantsOK, NEW o \in Calls, NEW r, May(r, o), r.kind = "join", o.op = "MarkJoinImportFailed",
           NEW m \in MarkJoinImportFailed(o, r), NEW n, n = Stamped(m, o, r)
    PROVE  Sound(n) /\ Follows(r, n)
<1>1. o.at \in Times
  BY Zenon, CallShape DEF WellFormed
<1>2. validateJoinExecution(r) /\ Kept(r) /\ r \in ExecutionRecord
  BY Zenon, JoinFacts
<1>3. CASE m = r
  BY Zenon, <1>3 DEF May, Stamped, Follows
<1>4. CASE r.state = "import_requested" /\ m = [r EXCEPT !.state = "import_failed"]
  <2>1. "import_failed" \in States \ {r.state}
    BY Zenon, <1>4 DEF States, DiscStates, ImportStates
  <2>2. m = Move(r, "import_failed")
    BY Zenon, <1>4 DEF Move
  <2>3. /\ Base(n, r, o) /\ n.state = "import_failed" /\ n.stage = r.stage
        /\ n.artifact = r.artifact /\ n.published = r.published /\ n.failure = r.failure
        /\ n.path = r.path /\ n.before = r.before /\ n.importAt = r.importAt
        /\ n.command = r.command /\ n.confirmation = r.confirmation
    BY SMTT(30), <2>1, <2>2, Moved
  <2>4. r.path # None /\ n.importAt <= n.updatedAt
    BY <1>1, <1>2, <1>4, <2>3 DEF validateJoinExecution, requireJoinImport, requireJoinArtifact, validateStoredJoinImport, Base, Kept,
       ConstantsOK, ExecutionRecord
  <2>5. validateJoinExecution(n)
    <3>1. r.stage # None /\ r.failure = None /\ requireJoinImport(r)
      BY Zenon, <1>2, <1>4 DEF validateJoinExecution
    <3>2. requireJoinImport(n)
      BY Zenon, <1>2, <1>4, <2>3, <2>4, <3>1 DEF requireJoinImport, requireJoinArtifact, validateStoredJoinImport, Base
    <3> QED BY Zenon, <2>3, <3>1, <3>2 DEF validateJoinExecution
  <2>6. Kept(n)
    <3>1. n.state \in StatesOf["join"]
      BY Zenon, <2>3 DEF StatesOf, ImportStates
    <3> QED BY Zenon, <1>2, <2>3, <3>1 DEF Kept, Base, Discs
  <2> QED BY Zenon, <1>4, <2>3, <2>5, <2>6, JoinSound DEF Follows, Final, Base
<1> QED
  BY Zenon, <1>3, <1>4 DEF MarkJoinImportFailed, Step

-----------------------------------------------------------------------------
(* Discs *)

\* The two decoders of discs accept the same records.
LEMMA DVDAsRemux ==
    ASSUME NEW r, r.state \in DiscStates
    PROVE  validateDVDExecution(r) = validateRemuxExecution(r)
BY Zenon DEF validateDVDExecution, validateRemuxExecution, DiscStates, ImportStates, Unimported

\* A disc that is valid and kept is sound.
LEMMA DiscSound ==
    ASSUME NEW n, NEW r, NEW o, Base(n, r, o), r.kind \in Discs, validateRemuxExecution(n), Kept(n)
    PROVE  Sound(n)
<1>1. n.kind \in Discs /\ n.state \in DiscStates
  BY DEF Base, Kept, StatesOf, Discs
<1> QED BY Zenon, <1>1, DVDAsRemux DEF Base, Sound, validateExecution, Discs

\* What is known of a sound disc
LEMMA DiscFacts ==
    ASSUME NEW r, NEW o, May(r, o), r.kind \in Discs
    PROVE  validateRemuxExecution(r) /\ Kept(r) /\ r \in ExecutionRecord
<1>1. r.state \in DiscStates
  BY DEF May, Sound, Kept, StatesOf, Discs
<1> QED BY Zenon, <1>1, DVDAsRemux DEF May, Sound, validateExecution, Discs

\* RecordRemuxStage, RecordDVDStage
LEMMA DiscStaged ==
    ASSUME ConstantsOK, NEW o \in Calls, NEW r, May(r, o), r.kind \in Discs,
           o.op \in {"RecordRemuxStage", "RecordDVDStage"}, r.state = "prepared",
           NEW m \in discStaged(o, r), NEW n, n = Stamped(m, o, r)
    PROVE  Sound(n) /\ Follows(r, n)
<1>1. o.place \in Places /\ o.reason \in Reasons \cup {None} /\ o.artifact \in Artifacts
  BY Zenon, CallShape DEF WellFormed
<1>2. validateRemuxExecution(r) /\ Kept(r)
  BY Zenon, DiscFacts
<1>3. o.place # None /\ o.place \in Verdicts \cup Places /\ o.artifact # None
  BY Zenon, <1>1 DEF ConstantsOK
<1>4. CASE o.reason # None
           /\ m = [r EXCEPT !.state = "failed", !.stage = o.place,
                            !.failure = [op |-> "stage", reason |-> o.reason]]
  <2> DEFINE f == [op |-> "stage", reason |-> o.reason]
  <2>1. f \in Failures /\ f.op = "stage" /\ f # None /\ "failed" \in States \ {r.state}
    BY <1>1, <1>4 DEF Failures, ConstantsOK, States, DiscStates
  <2>2. m = FailStage(r, "failed", o.place, f)
    BY Zenon, <1>4 DEF FailStage
  <2> HIDE DEF f
  <2>3. /\ Base(n, r, o) /\ n.state = "failed" /\ n.stage = o.place /\ n.failure = f
        /\ n.artifact = r.artifact /\ n.published = r.published /\ n.path = r.path
        /\ n.before = r.before /\ n.importAt = r.importAt /\ n.command = r.command
        /\ n.confirmation = r.confirmation
    BY <1>3, <2>1, <2>2, FailedStage
  <2>4. validateRemuxExecution(n)
    BY Zenon, <1>2, <1>3, <2>1, <2>3 DEF validateRemuxExecution, Unimported
  <2>5. Kept(n)
    <3>1. n.state \in DiscStates /\ n.path = None
      BY Zenon, <1>2, <2>3 DEF DiscStates, validateRemuxExecution, Unimported
    <3> QED BY <1>1, <1>2, <2>3, <3>1 DEF Kept, Base, StatesOf, Discs
  <2> QED BY Zenon, <2>3, <2>4, <2>5, DiscSound DEF Follows, Final, Base
<1>5. CASE m = [r EXCEPT !.state = "staged", !.stage = o.place, !.artifact = o.artifact]
  <2>1. "staged" \in States \ {r.state}
    BY Zenon DEF States, DiscStates
  <2>2. m = Stage(r, "staged", o.place, o.artifact)
    BY Zenon, <1>5 DEF Stage
  <2>3. /\ Base(n, r, o) /\ n.state = "staged" /\ n.stage = o.place /\ n.artifact = o.artifact
        /\ n.published = r.published /\ n.failure = r.failure /\ n.path = r.path
        /\ n.before = r.before /\ n.importAt = r.importAt /\ n.command = r.command
        /\ n.confirmation = r.confirmation
    BY <1>1, <1>3, <2>1, <2>2, StagedAs
  <2>4. validateRemuxExecution(n)
    BY Zenon, <1>2, <1>3, <2>3 DEF validateRemuxExecution, Unimported
  <2>5. Kept(n)
    <3>1. n.state \in DiscStates /\ n.path = None
      BY Zenon, <1>2, <2>3 DEF DiscStates, validateRemuxExecution, Unimported
    <3> QED BY <1>1, <1>2, <2>3, <3>1 DEF Kept, Base, StatesOf, Discs
  <2> QED BY Zenon, <2>3, <2>4, <2>5, DiscSound DEF Follows, Final, Base
<1> QED
  BY Zenon, <1>4, <1>5 DEF discStaged

\* RecordRemuxPublish, RecordDVDPublish
LEMMA DiscPublished ==
    ASSUME ConstantsOK, NEW o \in Calls, NEW r, May(r, o), r.kind \in Discs,
           o.op \in {"RecordRemuxPublish", "RecordDVDPublish"}, r.state = "staged",
           NEW m \in discPublished(o, r), NEW n, n = Stamped(m, o, r)
    PROVE  Sound(n) /\ Follows(r, n)
<1>1. o.place \in Places /\ o.reason \in Reasons \cup {None} /\ o.place # None
  BY Zenon, CallShape DEF WellFormed, ConstantsOK
<1>2. validateRemuxExecution(r) /\ Kept(r)
  BY Zenon, DiscFacts
<1>4. CASE o.reason # None
           /\ m = [r EXCEPT !.state = "failed", !.failure = [op |-> "publish", reason |-> o.reason]]
  <2> DEFINE f == [op |-> "publish", reason |-> o.reason]
  <2>1. f \in Failures /\ f.op = "publish" /\ f # None /\ "failed" \in States \ {r.state}
    BY <1>1, <1>4 DEF Failures, ConstantsOK, States, DiscStates
  <2>2. m = WithFailure(r, "failed", f)
    BY Zenon, <1>4 DEF WithFailure
  <2> HIDE DEF f
  <2>3. /\ Base(n, r, o) /\ n.state = "failed" /\ n.failure = f /\ n.stage = r.stage
        /\ n.artifact = r.artifact /\ n.published = r.published /\ n.path = r.path
        /\ n.before = r.before /\ n.importAt = r.importAt /\ n.command = r.command
        /\ n.confirmation = r.confirmation
    BY <2>1, <2>2, FailedBy
  <2>4. validateRemuxExecution(n)
    BY Zenon, <1>2, <2>1, <2>3 DEF validateRemuxExecution, Unimported
  <2>5. Kept(n)
    <3>1. n.state \in DiscStates /\ n.path = None
      BY Zenon, <1>2, <2>3 DEF DiscStates, validateRemuxExecution, Unimported
    <3> QED BY <1>2, <2>3, <3>1 DEF Kept, Base, StatesOf, Discs
  <2> QED BY Zenon, <2>3, <2>4, <2>5, DiscSound DEF Follows, Final, Base
<1>5. CASE o.place = r.stage /\ m = [r EXCEPT !.state = "published", !.published = o.place]
  <2>1. "published" \in States \ {r.state}
    BY Zenon DEF States, DiscStates
  <2>2. m = Publish(r, "published", o.place)
    BY Zenon, <1>5 DEF Publish
  <2>3. /\ Base(n, r, o) /\ n.state = "published" /\ n.published = o.place /\ n.stage = r.stage
        /\ n.artifact = r.artifact /\ n.failure = r.failure /\ n.path = r.path
        /\ n.before = r.before /\ n.importAt = r.importAt /\ n.command = r.command
        /\ n.confirmation = r.confirmation
    BY <1>1, <2>1, <2>2, PublishedAs
  <2>4. validateRemuxExecution(n)
    BY Zenon, <1>1, <1>2, <1>5, <2>3 DEF validateRemuxExecution, Unimported
  <2>5. Kept(n)
    <3>1. n.state \in DiscStates /\ n.path = None
      BY Zenon, <1>2, <2>3 DEF DiscStates, validateRemuxExecution, Unimported
    <3> QED BY <1>1, <1>2, <2>3, <3>1 DEF Kept, Base, StatesOf, Discs
  <2> QED BY Zenon, <2>3, <2>4, <2>5, DiscSound DEF Follows, Final, Base
<1> QED
  BY Zenon, <1>4, <1>5 DEF discPublished

\* PrepareRemuxImport
LEMMA DiscImportPrepared ==
    ASSUME ConstantsOK, NEW o \in Calls, NEW r, May(r, o), r.kind \in Discs, o.op = "PrepareRemuxImport",
           NEW m \in PrepareRemuxImport(o, r), NEW n, n = Stamped(m, o, r)
    PROVE  Sound(n) /\ Follows(r, n)
<1>1. o.path \in Files /\ o.before \in Histories /\ o.at \in Times
  BY Zenon, CallShape DEF WellFormed
<1>2. validateRemuxExecution(r) /\ Kept(r)
  BY Zenon, DiscFacts
<1>3. CASE m = r
  BY Zenon, <1>3 DEF May, Stamped, Follows
<1>4. CASE r.state = "published" /\ m = importPrepared(o, r)
  <2>1. "import_prepared" \in States \ {r.state} /\ o.path # None
    BY Zenon, <1>1, <1>4 DEF ConstantsOK, States, DiscStates, ImportStates
  <2>2. m = Expect(r, "import_prepared", o.path, o.before, o.at)
    BY Zenon, <1>4 DEF Expect, importPrepared
  <2>3. /\ Base(n, r, o) /\ n.state = "import_prepared" /\ n.path = o.path /\ n.before = o.before
        /\ n.importAt = o.at /\ n.stage = r.stage /\ n.artifact = r.artifact
        /\ n.published = r.published /\ n.failure = r.failure /\ n.command = r.command
        /\ n.confirmation = r.confirmation
    BY SMTT(30), <1>1, <2>1, <2>2, PreparedFor
  <2>4. n.importAt <= n.updatedAt /\ n.preparedAt <= n.importAt
    BY <1>1, <2>3 DEF Base, ConstantsOK
  <2>5. validateRemuxExecution(n)
    BY ZenonT(90), <1>2, <1>4, <2>1, <2>3, <2>4 DEF validateRemuxExecution, validateStoredJoinImport, Unimported
  <2>6. Kept(n)
    <3>1. n.state \in DiscStates /\ n.published # None /\ n.artifact # None /\ n.stage \notin Rejections
      BY Zenon, <1>2, <1>4, <2>3 DEF DiscStates, ImportStates, validateRemuxExecution, Kept, ConstantsOK
    <3> QED BY <1>1, <1>2, <2>3, <3>1 DEF Kept, Base, StatesOf, Discs
  <2> QED BY Zenon, <1>4, <2>3, <2>5, <2>6, DiscSound DEF Follows, Final, Base
<1> QED
  BY Zenon, <1>3, <1>4 DEF PrepareRemuxImport, Step

\* MarkRemuxImportRequested
LEMMA DiscImportRequested ==
    ASSUME ConstantsOK, NEW o \in Calls, NEW r, May(r, o), r.kind \in Discs, o.op = "MarkRemuxImportRequested",
           NEW m \in MarkRemuxImportRequested(o, r), NEW n, n = Stamped(m, o, r)
    PROVE  Sound(n) /\ Follows(r, n)
<1>1. o.command \in Commands /\ o.at \in Times
  BY Zenon, CallShape DEF WellFormed
<1>2. validateRemuxExecution(r) /\ Kept(r) /\ r \in ExecutionRecord
  BY Zenon, DiscFacts
<1>3. CASE m = r
  BY Zenon, <1>3 DEF May, Stamped, Follows
<1>4. CASE r.state = "import_prepared" /\ m = [r EXCEPT !.state = "import_requested", !.command = o.command]
  <2>1. "import_requested" \in States \ {r.state} /\ o.command # None
    BY Zenon, <1>1, <1>4 DEF ConstantsOK, States, DiscStates, ImportStates
  <2>2. m = Request(r, "import_requested", o.command)
    BY Zenon, <1>4 DEF Request
  <2>3. /\ Base(n, r, o) /\ n.state = "import_requested" /\ n.command = o.command
        /\ n.stage = r.stage /\ n.artifact = r.artifact /\ n.published = r.published
        /\ n.failure = r.failure /\ n.path = r.path /\ n.before = r.before
        /\ n.importAt = r.importAt /\ n.confirmation = r.confirmation
    BY SMTT(30), <1>1, <2>1, <2>2, RequestedAs
  <2>4. r.path # None /\ r.command = None /\ n.importAt <= n.updatedAt
    BY SMTT(30), <1>1, <1>2, <1>4, <2>3 DEF validateRemuxExecution, validateStoredJoinImport, Base, Kept,
       ConstantsOK, ExecutionRecord
  <2>5. validateRemuxExecution(n)
    BY SMTT(30), <1>2, <1>4, <2>1, <2>3, <2>4 DEF validateRemuxExecution, validateStoredJoinImport, Base
  <2>6. Kept(n)
    <3>1. n.state \in DiscStates
      BY Zenon, <2>3 DEF DiscStates, ImportStates
    <3> QED BY <1>2, <2>3, <3>1 DEF Kept, Base, StatesOf, Discs
  <2> QED BY Zenon, <1>4, <2>3, <2>4, <2>5, <2>6, DiscSound DEF Follows, Final, Base
<1> QED
  BY Zenon, <1>3, <1>4 DEF MarkRemuxImportRequested, MarkRequested, Step

\* MarkRemuxImported
LEMMA DiscImported ==
    ASSUME ConstantsOK, NEW o \in Calls, NEW r, May(r, o), r.kind \in Discs, o.op = "MarkRemuxImported",
           NEW m \in MarkRemuxImported(o, r), NEW n, n = Stamped(m, o, r)
    PROVE  Sound(n) /\ Follows(r, n)
<1>1. o.path \in Files /\ o.history \in Histories /\ o.at \in Times
  BY Zenon, CallShape DEF WellFormed
<1>2. validateRemuxExecution(r) /\ Kept(r) /\ r \in ExecutionRecord
  BY Zenon, DiscFacts
<1>3. CASE m = r
  BY Zenon, <1>3 DEF May, Stamped, Follows
<1>4. CASE /\ r.state \in {"import_prepared", "import_requested"}
           /\ ~(o.history <= r.before) /\ r.path = o.path
           /\ m = [r EXCEPT !.state = "imported", !.confirmation = radarrImportConfirmation(o)]
  <2> DEFINE h == radarrImportConfirmation(o)
  <2>1. /\ "imported" \in States \ {r.state} /\ h \in Confirmations /\ h # None
        /\ h.history = o.history /\ h.path = o.path
    BY <1>1, <1>4 DEF ConstantsOK, States, DiscStates, ImportStates, radarrImportConfirmation, Confirmations
  <2>2. m = Import(r, "imported", h)
    BY Zenon, <1>4 DEF Import
  <2> HIDE DEF h
  <2>3. /\ Base(n, r, o) /\ n.state = "imported" /\ n.confirmation = h
        /\ n.stage = r.stage /\ n.artifact = r.artifact /\ n.published = r.published
        /\ n.failure = r.failure /\ n.path = r.path /\ n.before = r.before
        /\ n.importAt = r.importAt /\ n.command = r.command
    BY SMTT(30), <2>1, <2>2, ConfirmedBy
  <2>4. r.path # None /\ n.importAt <= n.updatedAt /\ h.history > r.before
    BY SMTT(30), <1>1, <1>2, <1>4, <2>1, <2>3 DEF validateRemuxExecution, validateStoredJoinImport, Base, Kept,
       ConstantsOK, ExecutionRecord
  <2>5. validateRemuxExecution(n)
    BY SMTT(30), <1>2, <1>4, <2>1, <2>3, <2>4 DEF validateRemuxExecution, validateStoredJoinImport, Base
  <2>6. Kept(n)
    <3>1. n.state \in DiscStates
      BY Zenon, <2>3 DEF DiscStates, ImportStates
    <3> QED BY <1>2, <1>4, <2>1, <2>3, <2>4, <3>1 DEF Kept, Base, StatesOf, Discs
  <2> QED BY Zenon, <1>4, <2>3, <2>5, <2>6, DiscSound DEF Follows, Final, Base
<1> QED
  BY Zenon, <1>3, <1>4 DEF MarkRemuxImported, Step

\* MarkRemuxImportFailed
LEMMA DiscImportFailed ==
    ASSUME ConstantsOK, NEW o \in Calls, NEW r, May(r, o), r.kind \in Discs, o.op = "MarkRemuxImportFailed",
           NEW m \in MarkRemuxImportFailed(o, r), NEW n, n = Stamped(m, o, r)
    PROVE  Sound(n) /\ Follows(r, n)
<1>1. o.at \in Times
  BY Zenon, CallShape DEF WellFormed
<1>2. validateRemuxExecution(r) /\ Kept(r) /\ r \in ExecutionRecord
  BY Zenon, DiscFacts
<1>3. CASE m = r
  BY Zenon, <1>3 DEF May, Stamped, Follows
<1>4. CASE r.state = "import_requested" /\ m = [r EXCEPT !.state = "import_failed"]
  <2>1. "import_failed" \in States \ {r.state}
    BY Zenon, <1>4 DEF States, DiscStates, ImportStates
  <2>2. m = Move(r, "import_failed")
    BY Zenon, <1>4 DEF Move
  <2>3. /\ Base(n, r, o) /\ n.state = "import_failed" /\ n.stage = r.stage
        /\ n.artifact = r.artifact /\ n.published = r.published /\ n.failure = r.failure
        /\ n.path = r.path /\ n.before = r.before /\ n.importAt = r.importAt
        /\ n.command = r.command /\ n.confirmation = r.confirmation
    BY SMTT(30), <2>1, <2>2, Moved
  <2>4. r.path # None /\ n.importAt <= n.updatedAt
    BY SMTT(30), <1>1, <1>2, <1>4, <2>3 DEF validateRemuxExecution, validateStoredJoinImport, Base, Kept,
       ConstantsOK, ExecutionRecord
  <2>5. validateRemuxExecution(n)
    BY SMTT(30), <1>2, <1>4, <2>3, <2>4 DEF validateRemuxExecution, validateStoredJoinImport, Base
  <2>6. Kept(n)
    <3>1. n.state \in DiscStates
      BY Zenon, <2>3 DEF DiscStates, ImportStates
    <3> QED BY <1>2, <2>3, <3>1 DEF Kept, Base, StatesOf, Discs
  <2> QED BY Zenon, <1>4, <2>3, <2>5, <2>6, DiscSound DEF Follows, Final, Base
<1> QED
  BY Zenon, <1>3, <1>4 DEF MarkRemuxImportFailed, Step

-----------------------------------------------------------------------------
(* Manual imports *)

\* A manual import that is valid and kept is sound.
LEMMA ManualSound ==
    ASSUME NEW n, NEW r, NEW o, Base(n, r, o), r.kind = "manual", validateManualImportExecution(n), Kept(n)
    PROVE  Sound(n)
BY Zenon DEF Base, Sound, validateExecution

\* What is known of a sound manual import
LEMMA ManualFacts ==
    ASSUME NEW r, NEW o, May(r, o), r.kind = "manual"
    PROVE  validateManualImportExecution(r) /\ Kept(r)
BY Zenon DEF May, Sound, validateExecution

\* MarkManualImportRequested
LEMMA ManualRequested ==
    ASSUME ConstantsOK, NEW o \in Calls, NEW r, May(r, o), r.kind = "manual",
           o.op = "MarkManualImportRequested",
           NEW m \in MarkManualImportRequested(o, r), NEW n, n = Stamped(m, o, r)
    PROVE  Sound(n) /\ Follows(r, n)
<1>1. o.command \in Commands
  BY Zenon, CallShape DEF WellFormed
<1>2. validateManualImportExecution(r) /\ Kept(r)
  BY Zenon, ManualFacts
<1>3. CASE m = r
  BY Zenon, <1>3 DEF May, Stamped, Follows
<1>4. CASE r.state = "manual_prepared" /\ m = [r EXCEPT !.state = "manual_requested", !.command = o.command]
  <2>1. "manual_requested" \in States \ {r.state} /\ o.command # None
    BY Zenon, <1>1, <1>4 DEF ConstantsOK, States, StatesOf
  <2>2. m = Request(r, "manual_requested", o.command)
    BY Zenon, <1>4 DEF Request
  <2>3. /\ Base(n, r, o) /\ n.state = "manual_requested" /\ n.command = o.command
        /\ n.path = r.path /\ n.before = r.before /\ n.confirmation = r.confirmation
    BY <1>1, <2>1, <2>2, RequestedAs
  <2>4. validateManualImportExecution(n)
    BY Zenon, <1>2, <1>4, <2>1, <2>3 DEF validateManualImportExecution
  <2>5. Kept(n)
    <3>1. n.state \in StatesOf["manual"]
      BY Zenon, <2>3 DEF StatesOf
    <3> QED BY Zenon, <1>2, <2>3, <3>1 DEF Kept, Base, Discs
  <2> QED BY Zenon, <1>2, <1>4, <2>3, <2>4, <2>5, ManualSound
          DEF Follows, Final, Base, validateManualImportExecution
<1> QED
  BY Zenon, <1>3, <1>4 DEF MarkManualImportRequested, MarkRequested, Step

\* MarkManualImportImported
LEMMA ManualImported ==
    ASSUME ConstantsOK, NEW o \in Calls, NEW r, May(r, o), r.kind = "manual",
           o.op = "MarkManualImportImported",
           NEW m \in MarkManualImportImported(o, r), NEW n, n = Stamped(m, o, r)
    PROVE  Sound(n) /\ Follows(r, n)
<1>1. o.path \in Files /\ o.history \in Histories
  BY Zenon, CallShape DEF WellFormed
<1>2. validateManualImportExecution(r) /\ Kept(r)
  BY Zenon, ManualFacts
<1>3. CASE m = r
  BY Zenon, <1>3 DEF May, Stamped, Follows
<1>4. CASE /\ r.state \in {"manual_prepared", "manual_requested"} /\ o.history > r.before
           /\ r.auth = o.auth /\ o.path = o.auth.file
           /\ m = [r EXCEPT !.state = "imported", !.confirmation = radarrImportConfirmation(o)]
  <2> DEFINE h == radarrImportConfirmation(o)
  <2>1. /\ "imported" \in States \ {r.state} /\ h \in Confirmations /\ h # None
        /\ h.history = o.history /\ h.path = o.path
    BY <1>1, <1>4 DEF ConstantsOK, States, StatesOf, radarrImportConfirmation, Confirmations
  <2>2. m = Import(r, "imported", h)
    BY Zenon, <1>4 DEF Import
  <2> HIDE DEF h
  <2>3. /\ Base(n, r, o) /\ n.state = "imported" /\ n.confirmation = h
        /\ n.path = r.path /\ n.before = r.before /\ n.command = r.command
    BY <2>1, <2>2, ConfirmedBy
  <2>4. validateManualImportExecution(n)
    BY Zenon, <1>2, <1>4, <2>1, <2>3 DEF validateManualImportExecution
  <2>5. Kept(n)
    <3>1. n.state \in StatesOf["manual"]
      BY Zenon, <2>3 DEF StatesOf
    <3> QED BY <1>2, <1>4, <2>1, <2>3, <3>1 DEF Kept, Base, Discs
  <2> QED BY Zenon, <1>4, <2>3, <2>4, <2>5, ManualSound DEF Follows, Final, Base
<1> QED
  BY Zenon, <1>3, <1>4 DEF MarkManualImportImported, Step

\* MarkManualImportFailed
LEMMA ManualFailed ==
    ASSUME ConstantsOK, NEW o \in Calls, NEW r, May(r, o), r.kind = "manual",
           o.op = "MarkManualImportFailed",
           NEW m \in MarkManualImportFailed(o, r), NEW n, n = Stamped(m, o, r)
    PROVE  Sound(n) /\ Follows(r, n)
<1>1. validateManualImportExecution(r) /\ Kept(r)
  BY Zenon, ManualFacts
<1>2. CASE m = r
  BY Zenon, <1>2 DEF May, Stamped, Follows
<1>3. CASE r.state \in {"manual_prepared", "manual_requested"} /\ m = [r EXCEPT !.state = "import_failed"]
  <2>1. "import_failed" \in States \ {r.state}
    BY Zenon, <1>3 DEF States, StatesOf
  <2>2. m = Move(r, "import_failed")
    BY Zenon, <1>3 DEF Move
  <2>3. /\ Base(n, r, o) /\ n.state = "import_failed" /\ n.command = r.command
        /\ n.path = r.path /\ n.before = r.before /\ n.confirmation = r.confirmation
    BY <2>1, <2>2, Moved
  <2>4. validateManualImportExecution(n)
    BY Zenon, <1>1, <1>3, <2>3 DEF validateManualImportExecution
  <2>5. Kept(n)
    <3>1. n.state \in StatesOf["manual"]
      BY Zenon, <2>3 DEF StatesOf
    <3> QED BY Zenon, <1>1, <2>3, <3>1 DEF Kept, Base, Discs
  <2> QED BY Zenon, <1>3, <2>3, <2>4, <2>5, ManualSound DEF Follows, Final, Base
<1> QED
  BY Zenon, <1>2, <1>3 DEF MarkManualImportFailed, Step

-----------------------------------------------------------------------------
(* Preparation *)

\* A prepared record is sound, in the state of its kind.
LEMMA PreparedIsSound ==
    ASSUME ConstantsOK, NEW auth \in Authorizations, NEW legacy \in BOOLEAN, NEW at \in Times,
           NEW state, NEW before, NEW n, n = Prepared(auth, legacy, state, before, at),
           \/ auth.kind = "manual" /\ state = "manual_prepared" /\ before \in Histories
           \/ auth.kind # "manual" /\ state = "prepared" /\ before = None
    PROVE  Sound(n) /\ n.auth = auth
<1>1. /\ n.kind = auth.kind /\ n.auth = auth /\ n.legacy = legacy /\ n.state = state
      /\ n.stage = None /\ n.artifact = None /\ n.published = None /\ n.failure = None
      /\ n.path = None /\ n.before = before /\ n.importAt = None /\ n.command = None
      /\ n.confirmation = None /\ n.preparedAt = at /\ n.updatedAt = at
  BY Zenon DEF Prepared
<1>2. auth.kind \in Kinds /\ state \in States /\ state \in StatesOf[auth.kind]
  BY DEF Authorizations, Kinds, States, StatesOf, DiscStates
<1>3. n \in ExecutionRecord
  BY Zenon, <1>2 DEF Prepared, ExecutionRecord
<1>4. at \in Nat
  BY Zenon DEF ConstantsOK
<1>5. validateExecution(n)
  <2>1. CASE auth.kind = "manual"
    BY <1>1, <1>4, <2>1 DEF validateExecution, validateManualImportExecution
  <2>2. CASE auth.kind = "join"
    BY <1>1, <1>4, <2>2 DEF validateExecution, validateJoinExecution, Unimported
  <2>3. CASE auth.kind = "remux"
    BY <1>1, <1>4, <2>3 DEF validateExecution, validateRemuxExecution, Unimported
  <2>4. CASE auth.kind = "dvd"
    BY <1>1, <1>4, <2>4 DEF validateExecution, validateDVDExecution, Unimported
  <2> QED BY Zenon, <1>2, <2>1, <2>2, <2>3, <2>4 DEF Kinds
<1>6. Kept(n)
  BY Zenon, <1>1, <1>2 DEF Kept, Discs, Kinds
<1> QED BY Zenon, <1>1, <1>3, <1>5, <1>6 DEF Sound

\* The four Prepare operations
LEMMA PreparationIsSound ==
    ASSUME ConstantsOK, NEW o \in Calls, NEW r, r = Absent \/ Sound(r),
           NEW k \in Kinds, o.op = Preparation[k],
           NEW n \in Outcome(o, r)
    PROVE  Sound(n) /\ (r # Absent => Follows(r, n))
<1>1. o.auth \in [kind : {k}, file : Files] /\ o.before \in Histories /\ o.at \in Times
  BY Zenon, CallShape DEF WellFormed
<1>2. o.auth \in Authorizations /\ o.auth.kind = k
  BY Zenon, <1>1 DEF Authorizations
<1>3. \/ r # Absent /\ n = r
      \/ /\ r = Absent \/ (r.kind = "join" /\ r.auth = o.auth /\ needsRecheck(r))
         /\ n = IF k = "manual" THEN Prepared(o.auth, FALSE, "manual_prepared", o.before, o.at)
                ELSE Prepared(o.auth, FALSE, "prepared", None, o.at)
  <2>1. CASE k = "manual"
    BY Zenon, <2>1 DEF Outcome, Preparation, PrepareManualImport
  <2>2. CASE k = "join"
    BY Zenon, <2>2 DEF Outcome, Preparation, PrepareJoin
  <2>3. CASE k = "remux"
    BY Zenon, <2>3 DEF Outcome, Preparation, PrepareRemux
  <2>4. CASE k = "dvd"
    BY Zenon, <2>4 DEF Outcome, Preparation, PrepareDVD
  <2> QED BY Zenon, <2>1, <2>2, <2>3, <2>4 DEF Kinds
<1>4. CASE r # Absent /\ n = r
  BY Zenon, <1>4 DEF Follows
<1>5. CASE /\ r = Absent \/ (r.kind = "join" /\ r.auth = o.auth /\ needsRecheck(r))
           /\ n = IF k = "manual" THEN Prepared(o.auth, FALSE, "manual_prepared", o.before, o.at)
                  ELSE Prepared(o.auth, FALSE, "prepared", None, o.at)
  <2>1. Sound(n) /\ n.auth = o.auth
    <3>1. CASE k = "manual"
      <4>1. PICK b \in BOOLEAN : n = Prepared(o.auth, b, "manual_prepared", o.before, o.at)
        BY Zenon, <1>5, <3>1
      <4> QED BY <1>1, <1>2, <3>1, <4>1, PreparedIsSound
    <3>2. CASE k # "manual"
      <4>1. PICK b \in BOOLEAN : n = Prepared(o.auth, b, "prepared", None, o.at)
        BY Zenon, <1>5, <3>2
      <4> QED BY <1>1, <1>2, <3>2, <4>1, PreparedIsSound
    <3> QED BY Zenon, <3>1, <3>2
  <2>2. ASSUME r # Absent PROVE Follows(r, n)
    <3>1. r.command = None
      BY Zenon, <1>5, <2>2 DEF Sound, validateExecution, validateJoinExecution, requireJoinBeforeImport,
         Unimported, needsRecheck
    <3> QED BY Zenon, <1>5, <2>1, <2>2, <3>1 DEF Follows, Final, needsRecheck
  <2> QED BY Zenon, <2>1, <2>2
<1> QED BY Zenon, <1>3, <1>4, <1>5

-----------------------------------------------------------------------------
(* Every operation *)

\* updateManualImportExecution
LEMMA ManualUpdateIsSound ==
    ASSUME ConstantsOK, NEW o \in Calls, NEW r, r = Absent \/ Sound(r),
           o.op \in {"MarkManualImportRequested", "MarkManualImportImported", "MarkManualImportFailed"},
           NEW n \in updateManualImportExecution(o, r)
    PROVE  r # Absent /\ Sound(n) /\ Follows(r, n)
<1> DEFINE S == CASE o.op = "MarkManualImportRequested" -> MarkManualImportRequested(o, r)
                  [] o.op = "MarkManualImportImported"  -> MarkManualImportImported(o, r)
                  [] o.op = "MarkManualImportFailed"    -> MarkManualImportFailed(o, r)
<1>1. /\ r # Absent /\ r.kind = "manual" /\ ~(o.at < r.updatedAt)
      /\ \E m \in S : n = Stamped(m, o, r)
  BY Zenon DEF updateManualImportExecution, Updated, Stamped
<1>2. PICK m \in S : n = Stamped(m, o, r)
  BY Zenon, <1>1
<1>3. May(r, o)
  BY <1>1, CallShape DEF May, WellFormed, Sound, ExecutionRecord, ConstantsOK
<1>4. CASE o.op = "MarkManualImportRequested"
  <2>1. m \in MarkManualImportRequested(o, r) BY Zenon, <1>4
  <2> QED BY Zenon, <1>1, <1>2, <1>3, <1>4, <2>1, ManualRequested
<1>5. CASE o.op = "MarkManualImportImported"
  <2>1. m \in MarkManualImportImported(o, r) BY Zenon, <1>5
  <2> QED BY Zenon, <1>1, <1>2, <1>3, <1>5, <2>1, ManualImported
<1>6. CASE o.op = "MarkManualImportFailed"
  <2>1. m \in MarkManualImportFailed(o, r) BY Zenon, <1>6
  <2> QED BY Zenon, <1>1, <1>2, <1>3, <1>6, <2>1, ManualFailed
<1> QED BY Zenon, <1>4, <1>5, <1>6

\* updateJoinExecution
LEMMA JoinUpdateIsSound ==
    ASSUME ConstantsOK, NEW o \in Calls, NEW r, r = Absent \/ Sound(r),
           o.op \in {"RecordJoinStage", "RecordJoinPublish", "RecordJoinDiscard",
                     "PrepareJoinImport", "MarkJoinImportRequested", "MarkJoinImported",
                     "MarkJoinImportFailed"},
           NEW n \in updateJoinExecution(o, r)
    PROVE  r # Absent /\ Sound(n) /\ Follows(r, n)
<1> DEFINE S == CASE o.op = "RecordJoinStage"         -> RecordJoinStage(o, r)
                  [] o.op = "RecordJoinPublish"       -> RecordJoinPublish(o, r)
                  [] o.op = "RecordJoinDiscard"       -> RecordJoinDiscard(o, r)
                  [] o.op = "PrepareJoinImport"       -> PrepareJoinImport(o, r)
                  [] o.op = "MarkJoinImportRequested" -> MarkJoinImportRequested(o, r)
                  [] o.op = "MarkJoinImported"        -> MarkJoinImported(o, r)
                  [] o.op = "MarkJoinImportFailed"    -> MarkJoinImportFailed(o, r)
<1>1. /\ r # Absent /\ r.kind = "join" /\ ~(o.at < r.updatedAt)
      /\ \E m \in S : n = Stamped(m, o, r)
  BY Zenon DEF updateJoinExecution, Updated, Stamped
<1>2. PICK m \in S : n = Stamped(m, o, r)
  BY Zenon, <1>1
<1>3. May(r, o)
  BY <1>1, CallShape DEF May, WellFormed, Sound, ExecutionRecord, ConstantsOK
<1>4. CASE o.op = "RecordJoinStage"
  <2>1. m \in RecordJoinStage(o, r) BY Zenon, <1>4
  <2> QED BY Zenon, <1>1, <1>2, <1>3, <1>4, <2>1, JoinStaged
<1>5. CASE o.op = "RecordJoinPublish"
  <2>1. m \in RecordJoinPublish(o, r) BY Zenon, <1>5
  <2> QED BY Zenon, <1>1, <1>2, <1>3, <1>5, <2>1, JoinPublished
<1>6. CASE o.op = "RecordJoinDiscard"
  <2>1. m \in RecordJoinDiscard(o, r) BY Zenon, <1>6
  <2> QED BY Zenon, <1>1, <1>2, <1>3, <1>6, <2>1, JoinDiscarded
<1>7. CASE o.op = "PrepareJoinImport"
  <2>1. m \in PrepareJoinImport(o, r) BY Zenon, <1>7
  <2> QED BY Zenon, <1>1, <1>2, <1>3, <1>7, <2>1, JoinImportPrepared
<1>8. CASE o.op = "MarkJoinImportRequested"
  <2>1. m \in MarkJoinImportRequested(o, r) BY Zenon, <1>8
  <2> QED BY Zenon, <1>1, <1>2, <1>3, <1>8, <2>1, JoinImportRequested
<1>9. CASE o.op = "MarkJoinImported"
  <2>1. m \in MarkJoinImported(o, r) BY Zenon, <1>9
  <2> QED BY Zenon, <1>1, <1>2, <1>3, <1>9, <2>1, JoinImported
<1>10. CASE o.op = "MarkJoinImportFailed"
  <2>1. m \in MarkJoinImportFailed(o, r) BY Zenon, <1>10
  <2> QED BY Zenon, <1>1, <1>2, <1>3, <1>10, <2>1, JoinImportFailed
<1> QED BY Zenon, <1>4, <1>5, <1>6, <1>7, <1>8, <1>9, <1>10

\* updateRemuxExecution, for both kinds of disc
LEMMA DiscUpdateIsSound ==
    ASSUME ConstantsOK, NEW o \in Calls, NEW r, r = Absent \/ Sound(r),
           o.op \in {"RecordRemuxStage", "RecordRemuxPublish", "RecordDVDStage",
                     "RecordDVDPublish", "PrepareRemuxImport", "MarkRemuxImportRequested",
                     "MarkRemuxImported", "MarkRemuxImportFailed"},
           NEW n \in updateRemuxExecution(o, r)
    PROVE  r # Absent /\ Sound(n) /\ Follows(r, n)
<1> DEFINE S == CASE o.op = "RecordRemuxStage"         -> RecordRemuxStage(o, r)
                  [] o.op = "RecordRemuxPublish"       -> RecordRemuxPublish(o, r)
                  [] o.op = "RecordDVDStage"           -> RecordDVDStage(o, r)
                  [] o.op = "RecordDVDPublish"         -> RecordDVDPublish(o, r)
                  [] o.op = "PrepareRemuxImport"       -> PrepareRemuxImport(o, r)
                  [] o.op = "MarkRemuxImportRequested" -> MarkRemuxImportRequested(o, r)
                  [] o.op = "MarkRemuxImported"        -> MarkRemuxImported(o, r)
                  [] o.op = "MarkRemuxImportFailed"    -> MarkRemuxImportFailed(o, r)
<1>1. /\ r # Absent /\ r.kind \in Discs /\ ~(o.at < r.updatedAt)
      /\ \E m \in S : n = Stamped(m, o, r)
  BY Zenon DEF updateRemuxExecution, Updated, Stamped
<1>2. PICK m \in S : n = Stamped(m, o, r)
  BY Zenon, <1>1
<1>3. May(r, o)
  BY <1>1, CallShape DEF May, WellFormed, Sound, ExecutionRecord, ConstantsOK
<1>4. CASE o.op = "RecordRemuxStage"
  <2>1. m \in RecordRemuxStage(o, r) BY Zenon, <1>4
  <2>2. r.state = "prepared" /\ m \in discStaged(o, r) BY Zenon, <2>1 DEF RecordRemuxStage
  <2> QED BY Zenon, <1>1, <1>2, <1>3, <1>4, <2>2, DiscStaged
<1>5. CASE o.op = "RecordRemuxPublish"
  <2>1. m \in RecordRemuxPublish(o, r) BY Zenon, <1>5
  <2>2. r.state = "staged" /\ m \in discPublished(o, r) BY Zenon, <2>1 DEF RecordRemuxPublish
  <2> QED BY Zenon, <1>1, <1>2, <1>3, <1>5, <2>2, DiscPublished
<1>6. CASE o.op = "RecordDVDStage"
  <2>1. m \in RecordDVDStage(o, r) BY Zenon, <1>6
  <2>2. r.state = "prepared" /\ m \in discStaged(o, r) BY Zenon, <2>1 DEF RecordDVDStage
  <2> QED BY Zenon, <1>1, <1>2, <1>3, <1>6, <2>2, DiscStaged
<1>7. CASE o.op = "RecordDVDPublish"
  <2>1. m \in RecordDVDPublish(o, r) BY Zenon, <1>7
  <2>2. r.state = "staged" /\ m \in discPublished(o, r) BY Zenon, <2>1 DEF RecordDVDPublish
  <2> QED BY Zenon, <1>1, <1>2, <1>3, <1>7, <2>2, DiscPublished
<1>8. CASE o.op = "PrepareRemuxImport"
  <2>1. m \in PrepareRemuxImport(o, r) BY Zenon, <1>8
  <2> QED BY Zenon, <1>1, <1>2, <1>3, <1>8, <2>1, DiscImportPrepared
<1>9. CASE o.op = "MarkRemuxImportRequested"
  <2>1. m \in MarkRemuxImportRequested(o, r) BY Zenon, <1>9
  <2> QED BY Zenon, <1>1, <1>2, <1>3, <1>9, <2>1, DiscImportRequested
<1>10. CASE o.op = "MarkRemuxImported"
  <2>1. m \in MarkRemuxImported(o, r) BY Zenon, <1>10
  <2> QED BY Zenon, <1>1, <1>2, <1>3, <1>10, <2>1, DiscImported
<1>11. CASE o.op = "MarkRemuxImportFailed"
  <2>1. m \in MarkRemuxImportFailed(o, r) BY Zenon, <1>11
  <2> QED BY Zenon, <1>1, <1>2, <1>3, <1>11, <2>1, DiscImportFailed
<1> QED BY Zenon, <1>4, <1>5, <1>6, <1>7, <1>8, <1>9, <1>10, <1>11

\* Whatever the record holds, an operation makes a sound record of it.
LEMMA OutcomeIsSound ==
    ASSUME ConstantsOK, NEW o \in Calls, NEW r, r = Absent \/ Sound(r), NEW n \in Outcome(o, r)
    PROVE  Sound(n) /\ (r # Absent => Follows(r, n))
<1>1. ASSUME NEW k \in Kinds, o.op = Preparation[k]
      PROVE  Sound(n) /\ (r # Absent => Follows(r, n))
  BY Zenon, <1>1, PreparationIsSound
<1>2. CASE o.op \in {"MarkManualImportRequested", "MarkManualImportImported",
                     "MarkManualImportFailed"}
  <2>1. n \in updateManualImportExecution(o, r)
    BY Zenon, <1>2 DEF Outcome
  <2> QED BY Zenon, <1>2, <2>1, ManualUpdateIsSound
<1>3. CASE o.op \in {"RecordJoinStage", "RecordJoinPublish", "RecordJoinDiscard",
                     "PrepareJoinImport", "MarkJoinImportRequested", "MarkJoinImported",
                     "MarkJoinImportFailed"}
  <2>1. n \in updateJoinExecution(o, r)
    BY Zenon, <1>3 DEF Outcome
  <2> QED BY Zenon, <1>3, <2>1, JoinUpdateIsSound
<1>4. CASE o.op \in {"RecordRemuxStage", "RecordRemuxPublish", "RecordDVDStage",
                     "RecordDVDPublish", "PrepareRemuxImport", "MarkRemuxImportRequested",
                     "MarkRemuxImported", "MarkRemuxImportFailed"}
  <2>1. n \in updateRemuxExecution(o, r)
    BY Zenon, <1>4 DEF Outcome
  <2> QED BY Zenon, <1>4, <2>1, DiscUpdateIsSound
<1>5. \/ \E k \in Kinds : o.op = Preparation[k]
      \/ o.op \in {"MarkManualImportRequested", "MarkManualImportImported",
                   "MarkManualImportFailed"}
      \/ o.op \in {"RecordJoinStage", "RecordJoinPublish", "RecordJoinDiscard",
                   "PrepareJoinImport", "MarkJoinImportRequested", "MarkJoinImported",
                   "MarkJoinImportFailed"}
      \/ o.op \in {"RecordRemuxStage", "RecordRemuxPublish", "RecordDVDStage",
                   "RecordDVDPublish", "PrepareRemuxImport", "MarkRemuxImportRequested",
                   "MarkRemuxImported", "MarkRemuxImportFailed"}
  <2>1. ASSUME o \in PrepareCalls PROVE \E k \in Kinds : o.op = Preparation[k]
    BY <2>1 DEF PrepareCalls, PrepareCallsOf
  <2> QED BY Zenon, <2>1 DEF Calls, UpdateCalls, JoinStageCalls, DiscStageCalls, PublishCalls, DiscardCalls, ImportCalls,
             RequestedCalls, ImportedCalls, FailedCalls
<1> QED BY Zenon, <1>1, <1>2, <1>3, <1>4, <1>5

\* What is written is an outcome.
LEMMA WrittenIsSound ==
    ASSUME ConstantsOK, NEW o \in Calls, NEW r, r = Absent \/ Sound(r), NEW n \in Written(o, r)
    PROVE  Sound(n) /\ (r # Absent => Follows(r, n))
<1>1. n \in Outcome(o, r)
  BY Zenon DEF Written
<1> QED BY Zenon, <1>1, OutcomeIsSound

\* The invariant holds at first: a join of an older release is a prepared one.
LEMMA InvInit ==
    ASSUME ConstantsOK PROVE Init => Inv
<1> SUFFICES ASSUME Init PROVE Inv
  BY Zenon
<1>1. base \in Authorizations /\ (execution = Absent \/ (base.kind = "join" /\ execution \in Legacy(base)))
  BY Zenon DEF Init
<1>2. ASSUME base.kind = "join", execution \in Legacy(base) PROVE Sound(execution)
  <2>1. PICK at \in Times, b \in BOOLEAN : execution = Prepared(base, b, "prepared", None, at)
    BY Zenon, <1>2 DEF Legacy
  <2> QED BY Zenon, <1>1, <1>2, <2>1, PreparedIsSound
<1> QED BY Zenon, <1>1, <1>2 DEF Inv

\* Every step keeps the invariant, and the execution it finds.
LEMMA InvStep ==
    ASSUME ConstantsOK PROVE Inv /\ [Next]_vars => Inv' /\ (execution # Absent => Follows(execution, execution'))
<1> SUFFICES ASSUME Inv, [Next]_vars
             PROVE  Inv' /\ (execution # Absent => Follows(execution, execution'))
  BY Zenon
<1>1. CASE base' = base /\ execution' = execution
  BY Zenon, <1>1 DEF Inv, Follows, Sound
<1>2. ASSUME NEW o \in Calls, base' = base, execution' \in Written(o, execution)
      PROVE  Inv' /\ (execution # Absent => Follows(execution, execution'))
  <2>1. Sound(execution') /\ (execution # Absent => Follows(execution, execution'))
    BY Zenon, <1>2, WrittenIsSound DEF Inv
  <2>2. (execution # Absent => Sound(execution))'
    BY Zenon, <2>1 DEF Sound
  <2> QED BY Zenon, <1>2, <2>1, <2>2 DEF Inv
<1>3. CASE UNCHANGED vars
  BY Zenon, <1>1, <1>3 DEF vars
<1>4. CASE \E p \in Plans : BindExecutionPlan(p)
  BY Zenon, <1>1, <1>4 DEF BindExecutionPlan
<1>5. CASE \E a \in Authorizations : validateManualImportAuthorization(a)
  BY Zenon, <1>1, <1>5 DEF validateManualImportAuthorization
<1>6. CASE \/ \E o \in PrepareCalls : Prepare(o)
           \/ \E o \in ImportedCalls : Confirm(o)
           \/ \E o \in UpdateCalls : Update(o)
  <2>1. PICK o \in Calls : Prepare(o) \/ Confirm(o) \/ Update(o)
    BY Zenon, <1>6 DEF Calls, UpdateCalls
  <2>2. base' = base /\ execution' \in Written(o, execution)
    BY Zenon, <2>1 DEF Prepare, Confirm, Update
  <2> QED BY Zenon, <1>2, <2>2
<1> QED BY Zenon, <1>3, <1>4, <1>5, <1>6 DEF Next

-----------------------------------------------------------------------------
(* The theorems *)

\* The invariant of the execution record holds always.
THEOREM InvAlways ==
    ASSUME ConstantsOK PROVE Spec => []Inv
<1>1. Init => Inv
  BY Zenon, InvInit
<1>2. Inv /\ [Next]_vars => Inv'
  BY Zenon, InvStep
<1> QED BY <1>1, <1>2, PTL DEF Spec

\* The encoders and decoders of internal/casestore: whatever calls came before,
\* every record an operation makes passes its decoder, so that no execution
\* becomes one that can neither be continued nor read.
THEOREM RecordsReadBack ==
    ASSUME ConstantsOK PROVE Spec => []OutcomesReadBack
<1>1. Inv => OutcomesReadBack
  <2> SUFFICES ASSUME Inv PROVE OutcomesReadBack
    BY Zenon
  <2>1. execution = Absent \/ Sound(execution)
    BY Zenon DEF Inv
  <2>2. ASSUME NEW o \in Calls, NEW n \in Outcome(o, execution) PROVE validateExecution(n)
    BY Zenon, <2>1, <2>2, OutcomeIsSound DEF Sound
  <2> QED BY Zenon, <2>1, <2>2 DEF OutcomesReadBack, Sound
<1> QED BY <1>1, InvAlways, PTL

\* MarkJoinImported, MarkRemuxImported and MarkManualImportImported: an import is
\* recorded only with a history entry newer than the request, of the requested
\* file, and the import of a worker's output only once it is verified and published.
THEOREM ImportsNeedProof ==
    ASSUME ConstantsOK PROVE Spec => []ImportsAreProven
<1>1. Inv => ImportsAreProven
  BY Zenon DEF Inv, ImportsAreProven, Sound, Kept
<1> QED BY <1>1, InvAlways, PTL

\* The repeated calls: no step changes the plan, the accepted command or the end
\* of an execution, but for a join an older release discarded.
THEOREM ExecutionStaysBound ==
    ASSUME ConstantsOK PROVE Spec => StaysBound
<1>1. Inv /\ [Next]_vars => KeepsBound
  BY Zenon, InvStep DEF Follows, KeepsBound, Final
<1>2. Inv /\ [Next]_vars => [KeepsBound]_vars
  BY Zenon, <1>1
<1> QED BY <1>2, InvAlways, PTL DEF Spec, StaysBound
=============================================================================
