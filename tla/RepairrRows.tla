----------------------------- MODULE RepairrRows -----------------------------
(***************************************************************************)
(* The inductive invariant of Repairr and type correctness, and that every *)
(* step keeps what relates a job's row to its latest attempt, to its       *)
(* pending request and to its planning results.                            *)
(***************************************************************************)
EXTENDS Repairr, TLAPS

-----------------------------------------------------------------------------
(* The inductive invariant *)

\* Attempts are created Running and end in one of these states.
AttemptStates == {Absent, Running, Importing, Imported, Blocked, Failed}

AttemptInv ==
    /\ JobMatchesAttempt
    /\ \A j \in Jobs : attempt[j].state \in AttemptStates

\* A decision on the current revision has cleared the reconsideration that led
\* to it, so that restorePlanning finds none while the request is pending.
ResultsInv ==
    \A j \in Jobs :
        /\ jobs[j].state = Absent => results[j] = {}
        /\ \A r \in results[j] :
              /\ r.rev <= jobs[j].rev
              /\ jobs[j].action = Reconsider /\ r.rev = jobs[j].rev => ~r.complete

\* What the engine holds is the latest attempt of the job at hand.
EngineInv ==
    /\ pc \in {"plan", "run", "start", "authorize", "transform", "submit", "record",
              "check", "status"} => cur \in Jobs
    /\ pc = "plan" => held.state = Observed /\ held.src # NoSource
    /\ pc \in {"authorize", "transform"} =>
          draft = attempt[cur] /\ draft.state = Running
    /\ pc = "submit" =>
          /\ draft = attempt[cur] /\ draft.state = Importing
          /\ \A c \in commands : c.job = cur => c.num # draft.num
    /\ pc = "record" =>
          /\ draft.state = Importing /\ attempt[cur].state = Importing
          /\ draft.num = attempt[cur].num /\ draft.before = attempt[cur].before
    /\ pc \in {"check", "status"} =>
          draft = attempt[cur] /\ draft.state = Importing

\* The job the actions goroutine works on is Removing until it is done.
RemovalInv ==
    apc \in {"remove", "finish"} =>
        requested.job \in Jobs /\ jobs[requested.job].state = Removing

AnswerInv == answer # NoAnswer => answer.job \in Jobs

\* A settled command will not show up in history any more.
settled(c) == c.files = "listed" \/ (c.ended /\ c.files = "out")

\* Commands belong to attempts, one each; only the latest attempt, while it is
\* Importing, may have an unsettled one, and history older than that attempt is
\* not taken for its receipt.
CommandInv ==
    /\ \A c \in commands :
          /\ c.num <= attempt[c.job].num /\ c.post <= posts[c.job]
          /\ c.num = attempt[c.job].num => attempt[c.job].state # Running
          /\ c.num < attempt[c.job].num \/ attempt[c.job].state # Importing => settled(c)
          /\ c.num < attempt[c.job].num /\ attempt[c.job].state = Importing
                /\ c.files = "listed" => c.num \in attempt[c.job].before
    /\ \A c, d \in commands : c.job = d.job =>
          /\ c.num = d.num => c = d
          /\ c.post < d.post => c.num < d.num

SafetyInv ==
    /\ TypeOK /\ AttemptInv /\ PendingActionServed /\ ResultsInv
    /\ EngineInv /\ RemovalInv /\ AnswerInv /\ CommandInv

-----------------------------------------------------------------------------
(* What the transactions do to a row *)

USE DEF Absent, Observed, Ready, Running, Importing, Imported, Blocked, Failed,
        Removed, Removing, NoAction, Reconsider, Delete

\* A transaction that is no request
KeepsRequest(row, new) == new \in Row /\ new.rev = row.rev /\ new.action = row.action

\* The results of a job after the one of its row may have been remembered
OwnResults(known, row, after) ==
    /\ after \in SUBSET Result
    /\ \A r \in after :
          r \in known \/ (r.rev = row.rev /\ (r.complete <=> row.state # Observed))

hasDecision(known, row) == \E r \in known : r.rev = row.rev /\ r.complete

\* rememberPlanning adds the result of the row and keeps others of the job.
LEMMA RememberResults ==
    ASSUME NEW known \in SUBSET Result, NEW row \in Row
    PROVE  OwnResults(known, row, rememberPlanning(known, row))
<1> USE DEF OwnResults
<1>1. CASE row.key = NoKey
  BY Zenon, <1>1 DEF rememberPlanning
<1>2. CASE row.key # NoKey
  <2> DEFINE new == [key |-> row.key, rev |-> row.rev,
                     complete |-> row.state # Observed, tries |-> row.tries,
                     retry |-> row.retry, plan |-> row.plan]
  <2>1. new \in Result
    BY Zenon, <1>2 DEF Row, Result
  <2>2. rememberPlanning(known, row) =
           {r \in known : r.key # row.key \/ r.rev # row.rev} \cup {new}
    BY Zenon, <1>2 DEF rememberPlanning
  <2>3. new.rev = row.rev /\ (new.complete <=> row.state # Observed)
    BY Zenon
  <2> HIDE DEF new
  <2> QED
    BY Zenon, <2>1, <2>2, <2>3
<1> QED
  BY Zenon, <1>1, <1>2

\* restorePlanning makes a row Blocked when there is a decision on its inputs.
LEMMA RestoreRow ==
    ASSUME NEW known \in SUBSET Result, NEW row \in Row, NEW due \in BOOLEAN
    PROVE  /\ KeepsRequest(row, restorePlanning(known, row, due))
           /\ \/ restorePlanning(known, row, due).state = row.state
              \/ /\ restorePlanning(known, row, due).state = Blocked
                 /\ hasDecision(known, row)
<1> USE DEF KeepsRequest, hasDecision
<1>1. CASE row.key = NoKey \/ rememberedFor(known, row) = {}
  BY Zenon, <1>1 DEF restorePlanning
<1>2. CASE ~(row.key = NoKey \/ rememberedFor(known, row) = {})
  <2> DEFINE r == CHOOSE x \in rememberedFor(known, row) : TRUE
             backoff == [row EXCEPT !.tries = r.tries, !.retry = r.retry /\ ~due]
             blocked == [backoff EXCEPT !.state = Blocked, !.plan = r.plan]
  <2>1. r \in rememberedFor(known, row)
    BY Zenon, <1>2
  <2>2. r \in known /\ r \in Result /\ r.rev = row.rev
    BY Zenon, <2>1 DEF rememberedFor
  <2>3. restorePlanning(known, row, due) = IF r.complete THEN blocked ELSE backoff
    BY Zenon, <1>2 DEF restorePlanning
  <2> HIDE DEF r
  <2>4. backoff \in Row /\ backoff.rev = row.rev /\ backoff.action = row.action
        /\ backoff.state = row.state
    BY ZenonT(60), <2>2 DEF Row, Result
  <2> HIDE DEF backoff
  <2>5. blocked \in Row /\ blocked.rev = row.rev /\ blocked.action = row.action
        /\ blocked.state = Blocked
    BY ZenonT(60), <2>2, <2>4 DEF Row, Result, States
  <2> HIDE DEF blocked
  <2> QED
    BY Zenon, <2>2, <2>3, <2>4, <2>5
<1> QED
  BY Zenon, <1>1, <1>2

\* observePlanning touches the planning key alone and remembers the row's result.
LEMMA ObservePlanningRow ==
    ASSUME NEW known \in SUBSET Result, NEW row \in Row, NEW src \in Sources
    PROVE  /\ KeepsRequest(row, observePlanning(known, row, src).row)
           /\ observePlanning(known, row, src).row.state = row.state
           /\ OwnResults(known, row, observePlanning(known, row, src).results)
<1> USE DEF KeepsRequest
<1>1. CASE PlanningKey[src] = NoKey
  BY Zenon, <1>1 DEF observePlanning, OwnResults
<1>2. CASE PlanningKey[src] # NoKey
  <2> DEFINE based == [row EXCEPT !.key = bootstrapKey(row, src)]
             keyed == [based EXCEPT !.key = PlanningKey[src]]
             p == observePlanning(known, row, src)
  <2>1. bootstrapKey(row, src) \in Keys \cup {NoKey} /\ PlanningKey[src] \in Keys \cup {NoKey}
    BY Zenon, StoreAssumption DEF bootstrapKey, Row
  <2>2. KeepsRequest(row, based) /\ based.state = row.state
    BY Zenon, <2>1 DEF Row
  <2>3. p.row = keyed /\ p.results \in {known, rememberPlanning(known, based)}
    BY Zenon, <1>2 DEF observePlanning
  <2> HIDE DEF based, p
  <2>4. KeepsRequest(row, keyed) /\ keyed.state = row.state
    BY Zenon, <2>1, <2>2 DEF Row
  <2> HIDE DEF keyed
  <2>5. OwnResults(known, row, p.results)
    BY Zenon, <2>2, <2>3, RememberResults DEF OwnResults
  <2> QED
    BY Zenon, <2>3, <2>4, <2>5 DEF p
<1> QED
  BY Zenon, <1>1, <1>2

\* A changed source puts the row back to Observed, or to Blocked by a decision on
\* these inputs, unless it is settled.
LEMMA ReplannedRow ==
    ASSUME NEW known \in SUBSET Result, NEW row \in Row, NEW due \in BOOLEAN
    PROVE  /\ KeepsRequest(row, replanned(known, row, due))
           /\ \/ replanned(known, row, due).state = row.state
              \/ /\ row.state \notin {Imported, Removed}
                 /\ \/ replanned(known, row, due).state = Observed
                    \/ /\ replanned(known, row, due).state = Blocked
                       /\ hasDecision(known, row)
<1> USE DEF KeepsRequest
<1>1. CASE row.state \in {Imported, Removed}
  BY Zenon, <1>1 DEF replanned
<1>2. CASE row.state \notin {Imported, Removed}
  <2> DEFINE fresh == [row EXCEPT !.plan = NoPlan, !.state = Observed,
                                  !.stable = FALSE, !.retry = FALSE, !.tries = 0]
  <2>1. KeepsRequest(row, fresh) /\ fresh.state = Observed
    <3>1. 0 \in 0..MaxTries
      BY StoreAssumption
    <3>2. fresh \in Row
      BY Zenon, <3>1 DEF Row, States
    <3> QED
      BY Zenon, <3>2 DEF Row
  <2>2. replanned(known, row, due) = restorePlanning(known, fresh, due)
    BY Zenon, <1>2 DEF replanned
  <2> HIDE DEF fresh
  <2> QED
    BY <1>2, <2>1, <2>2, RestoreRow DEF hasDecision
<1> QED
  BY Zenon, <1>1, <1>2

\* Store.Observe of an existing row
LEMMA ObserveRow ==
    ASSUME NEW known \in SUBSET Result, NEW row \in Row, NEW seen \in Seen,
           NEW due \in BOOLEAN
    PROVE  /\ KeepsRequest(row, observeRow(known, row, seen, due).row)
           /\ OwnResults(known, row, observeRow(known, row, seen, due).results)
           /\ \/ observeRow(known, row, seen, due).row.state = row.state
              \/ /\ ~active(row.state) /\ row.state \notin {Imported, Removed}
                 /\ \/ observeRow(known, row, seen, due).row.state = Observed
                    \/ /\ observeRow(known, row, seen, due).row.state = Blocked
                       /\ hasDecision(observeRow(known, row, seen, due).results, row)
<1> DEFINE listed == [row EXCEPT !.inQueue = TRUE, !.err = seen.err]
           o == observeRow(known, row, seen, due)
<1>1. KeepsRequest(row, listed) /\ listed.state = row.state
  BY Zenon DEF Row, Seen, KeepsRequest
<1>2. CASE active(row.state) \/ seen.src = NoSource
  <2>1. o = [row |-> listed, results |-> known]
    BY Zenon, <1>2 DEF observeRow
  <2> HIDE DEF listed, o
  <2>2. OwnResults(known, row, known)
    BY Zenon DEF OwnResults
  <2> QED
    BY <1>1, <2>1, <2>2 DEF o
<1>3. CASE ~(active(row.state) \/ seen.src = NoSource)
  <2> DEFINE p == observePlanning(known, listed, seen.src)
             next == IF p.changed THEN replanned(p.results, p.row, due) ELSE p.row
  <2>1. o = [row |-> IF keepsEvidence(next, p.changed, seen.src) THEN next
                     ELSE [next EXCEPT !.src = seen.src],
             results |-> p.results]
    BY Zenon, <1>3 DEF observeRow
  <2> HIDE DEF listed, o
  <2>2. seen.src \in Sources
    BY Zenon, <1>3 DEF Seen
  <2>3. /\ KeepsRequest(row, p.row) /\ p.row.state = row.state
        /\ OwnResults(known, row, p.results)
    <3>1. listed \in Row
      BY Zenon, <1>1 DEF KeepsRequest
    <3>2. /\ KeepsRequest(listed, p.row) /\ p.row.state = listed.state
          /\ OwnResults(known, listed, p.results)
      BY Zenon, <2>2, <3>1, ObservePlanningRow
    <3> HIDE DEF p
    <3> QED
      BY Zenon, <1>1, <3>2 DEF KeepsRequest, OwnResults
  <2> HIDE DEF p
  <2>4. /\ KeepsRequest(row, next)
        /\ \/ next.state = row.state
           \/ /\ row.state \notin {Imported, Removed}
              /\ \/ next.state = Observed
                 \/ next.state = Blocked /\ hasDecision(p.results, row)
    BY <2>3, ReplannedRow DEF KeepsRequest, OwnResults, hasDecision
  <2> HIDE DEF next
  <2>5. KeepsRequest(row, o.row) /\ o.row.state = next.state /\ o.results = p.results
    BY Zenon, <2>1, <2>2, <2>4 DEF Row, KeepsRequest
  <2> QED
    BY Zenon, <1>3, <2>3, <2>4, <2>5 DEF o
<1> QED
  BY Zenon, <1>2, <1>3

\* Store.Observe of an entry without a row
LEMMA CreatedRow ==
    ASSUME NEW seen \in Seen
    PROVE  /\ createRow(seen) \in Row /\ createRow(seen).state = Observed
           /\ createRow(seen).rev = 0 /\ createRow(seen).action = NoAction
<1>1. NoRow \in Row
  BY StoreAssumption DEF NoRow, Row, States
<1>2. seen.err \in BOOLEAN /\ seen.src \in Sources \cup {NoSource}
  BY Zenon DEF Seen
<1>3. PlanningKey[seen.src] \in Keys \cup {NoKey}
  BY Zenon, <1>2, StoreAssumption
<1>4. createRow(seen) \in Row
  BY Zenon, <1>1, <1>2, <1>3 DEF createRow, Row, States
<1> QED
  BY Zenon, <1>4 DEF createRow, NoRow

\* Store.Observe stores a row and results.
LEMMA ObservedRow ==
    ASSUME NEW known \in SUBSET Result, NEW row \in Row, NEW seen \in Seen,
           NEW due \in BOOLEAN
    PROVE  /\ Observe(known, row, seen, due).row \in Row
           /\ Observe(known, row, seen, due).results \in SUBSET Result
<1>1. CASE row.state = Absent
  BY Zenon, <1>1, CreatedRow DEF Observe
<1>2. CASE row.state # Absent
  <2>1. Observe(known, row, seen, due) = observeRow(known, row, seen, due)
    BY Zenon, <1>2 DEF Observe
  <2>2. /\ KeepsRequest(row, observeRow(known, row, seen, due).row)
        /\ OwnResults(known, row, observeRow(known, row, seen, due).results)
    BY Zenon, ObserveRow
  <2> QED
    BY Zenon, <2>1, <2>2 DEF KeepsRequest, OwnResults
<1> QED
  BY Zenon, <1>1, <1>2

\* ReconcileQueue: a job that is not worked on is Removed with its entry, and
\* Blocked when the entry is back.
LEMMA ReconciledRow ==
    ASSUME NEW row \in Row, NEW here \in BOOLEAN
    PROVE  /\ ReconcileQueue(row, here) \in Row
           /\ ReconcileQueue(row, here).rev = row.rev
           /\ \/ /\ ReconcileQueue(row, here).state = row.state
                 /\ ReconcileQueue(row, here).action = row.action
              \/ /\ row.state = Removed /\ ReconcileQueue(row, here).state = Blocked
                 /\ ReconcileQueue(row, here).action = row.action
              \/ /\ ~active(row.state) /\ row.state # Absent
                 /\ ReconcileQueue(row, here).state = Removed
                 /\ ReconcileQueue(row, here).action = NoAction
           /\ row.state = Absent => ReconcileQueue(row, here) = row
<1>1. CASE here
  BY ZenonT(60), <1>1 DEF ReconcileQueue, Row, States
<1>2. CASE ~here
  <2>1. CASE row.state = Absent \/ ~row.inQueue
    BY Zenon, <1>2, <2>1 DEF ReconcileQueue
  <2>2. CASE row.state # Absent /\ row.inQueue /\ (active(row.state) \/ row.state = Imported)
    <3>1. ReconcileQueue(row, here) = [row EXCEPT !.inQueue = FALSE]
      BY Zenon, <1>2, <2>2 DEF ReconcileQueue
    <3> QED
      BY Zenon, <2>2, <3>1 DEF Row
  <2>3. CASE row.state # Absent /\ row.inQueue /\ ~active(row.state) /\ row.state # Imported
    <3>1. ReconcileQueue(row, here) =
             [row EXCEPT !.inQueue = FALSE, !.state = Removed, !.action = NoAction]
      BY Zenon, <1>2, <2>3 DEF ReconcileQueue
    <3> QED
      BY ZenonT(60), <2>3, <3>1 DEF Row, States
  <2> QED
    BY Zenon, <2>1, <2>2, <2>3 DEF Row
<1> QED
  BY Zenon, <1>1, <1>2

\* A stored request
LEMMA RequestedRow ==
    ASSUME NEW row \in Row, NEW action \in {Reconsider, Delete}
    PROVE  /\ requestAction(row, action) \in Row
           /\ requestAction(row, action).rev = row.rev + 1
           /\ requestAction(row, action).action = action
           /\ requestAction(row, action).state =
                 IF action = Reconsider THEN Observed ELSE row.state
<1> DEFINE asked == [row EXCEPT !.rev = row.rev + 1, !.action = action, !.retry = FALSE]
           again == [asked EXCEPT !.tries = 0, !.state = Observed]
<1>1. row.rev + 1 \in Nat /\ 0 \in 0..MaxTries
  BY StoreAssumption DEF Row
<1>2. requestAction(row, action) = IF action = Reconsider THEN again ELSE asked
  BY Zenon DEF requestAction
<1>3. asked \in Row
  BY Zenon, <1>1 DEF Row
<1>4. asked.rev = row.rev + 1 /\ asked.action = action /\ asked.state = row.state
  BY Zenon DEF Row
<1> HIDE DEF asked
<1>5. again \in Row
  BY Zenon, <1>1, <1>3 DEF Row, States
<1>6. again.rev = asked.rev /\ again.action = asked.action /\ again.state = Observed
  BY Zenon, <1>3 DEF Row
<1> HIDE DEF again
<1> QED
  BY Zenon, <1>2, <1>3, <1>4, <1>5, <1>6

\* PlanningAttempts stays within its bound.
LEMMA Saturates ==
    ASSUME NEW m \in Nat, NEW n \in 0..m
    PROVE  (IF n < m THEN n + 1 ELSE n) \in 0..m
  OBVIOUS

\* What scheduler.plan hands to FinishPlanning
LEMMA PlannedRow ==
    ASSUME NEW row \in Row, row.src # NoSource,
           NEW outcome \in {"error", "no repair", "repair"}
    PROVE  /\ planned(row, outcome) \in Row
           /\ planned(row, outcome).state \in {row.state, Blocked, Ready}
           /\ planned(row, outcome).state \in {Blocked, Ready} \/ outcome = "error"
<1> DEFINE tried == [row EXCEPT !.tries = IF row.tries < MaxTries THEN row.tries + 1
                                          ELSE row.tries]
           decision == [src |-> row.src, rev |-> row.rev]
<1>1. decision \in Plans
  BY Zenon DEF Row, Plans
<1>2. tried \in Row /\ tried.state = row.state
  <2>1. row.tries \in 0..MaxTries /\ MaxTries \in Nat
    BY Zenon, StoreAssumption DEF Row
  <2>2. (IF row.tries < MaxTries THEN row.tries + 1 ELSE row.tries) \in 0..MaxTries
    BY Zenon, <2>1, Saturates
  <2> QED
    BY Zenon, <2>2 DEF Row
<1>3. planned(row, outcome) =
         CASE outcome = "error"     -> [tried EXCEPT !.retry = TRUE]
           [] outcome = "no repair" -> [tried EXCEPT !.state = Blocked, !.plan = decision]
           [] outcome = "repair"    -> [tried EXCEPT !.state = Ready, !.plan = decision]
  BY Zenon DEF planned
<1> HIDE DEF tried, decision
<1>4. CASE outcome = "error"
  BY ZenonT(60), <1>2, <1>3, <1>4 DEF Row
<1>5. CASE outcome = "no repair"
  BY ZenonT(60), <1>1, <1>2, <1>3, <1>5 DEF Row, States
<1>6. CASE outcome = "repair"
  BY ZenonT(60), <1>1, <1>2, <1>3, <1>6 DEF Row, States
<1> QED
  BY Zenon, <1>4, <1>5, <1>6

\* FinishPlanning clears the request when the planner has decided.
LEMMA FinishedPlanningRow ==
    ASSUME NEW row \in Row, NEW plan \in Row
    PROVE  /\ FinishPlanning(row, plan) \in Row
           /\ FinishPlanning(row, plan).rev = row.rev
           /\ FinishPlanning(row, plan).state = plan.state
           /\ FinishPlanning(row, plan).action =
                 IF plan.state \in {Ready, Blocked} THEN NoAction ELSE row.action
<1>1. FinishPlanning(row, plan) \in Row
  BY ZenonT(60) DEF FinishPlanning, Row
<1> QED
  BY Zenon, <1>1 DEF FinishPlanning, Row

\* Start, UpdateAttempt, StartRemoval and the clock change nothing but what they
\* are for.
LEMMA SteppedRow ==
    ASSUME NEW row \in Row, NEW state \in States
    PROVE  /\ KeepsRequest(row, [row EXCEPT !.state = state])
           /\ [row EXCEPT !.state = state].state = state
           /\ KeepsRequest(row, [row EXCEPT !.retry = FALSE])
           /\ [row EXCEPT !.retry = FALSE].state = row.state
           /\ KeepsRequest(row, [row EXCEPT !.stable = TRUE])
           /\ [row EXCEPT !.stable = TRUE].state = row.state
  BY Zenon DEF Row, KeepsRequest

\* FinishRemoval
LEMMA FinishedRemovalRow ==
    ASSUME NEW row \in Row, NEW failed \in BOOLEAN
    PROVE  /\ FinishRemoval(row, failed) \in Row
           /\ FinishRemoval(row, failed).rev = row.rev
           /\ FinishRemoval(row, failed).state = IF failed THEN Blocked ELSE Removed
           /\ FinishRemoval(row, failed).action = IF failed THEN row.action ELSE NoAction
<1>1. CASE failed
  BY Zenon, <1>1 DEF FinishRemoval, Row, States
<1>2. CASE ~failed
  BY Zenon, <1>2 DEF FinishRemoval, Row, States
<1> QED
  BY Zenon, <1>1, <1>2

-----------------------------------------------------------------------------
(* Type correctness *)

\* The values of an idle goroutine are well formed.
LEMMA NoRowType == NoRow \in Row /\ NoAttempt \in Attempt /\ Unseen \in Seen
<1>1. NoRow \in Row
  BY StoreAssumption DEF NoRow, Row, States
<1>2. NoAttempt \in Attempt
  BY Zenon DEF NoAttempt, Attempt, States
<1>3. Unseen \in Seen
  BY Zenon DEF Unseen, Seen
<1> QED
  BY Zenon, <1>1, <1>2, <1>3

\* Counting a fault keeps the counter a number.
LEMMA FaultType ==
    ASSUME faults \in Nat, Fault \/ faults' = faults
    PROVE  faults' \in Nat
  BY SMTT(60) DEF Fault

\* The steps of an observation keep the type.
LEMMA ObservationType ==
    ASSUME SafetyInv, Observation
    PROVE  TypeOK'
<1> USE NoRowType DEF SafetyInv, TypeOK, MainSteps
<1>1. CASE ObserveQueue
  BY ZenonT(60), <1>1 DEF ObserveQueue, NoObservation, database, actions, operator, world
<1>2. CASE Collect
  <2>1. PICK complete \in SUBSET {j \in Jobs : queued[j]}, seen \in [obs.queue -> Seen] :
           /\ obs' = [obs EXCEPT !.complete = complete,
                                 !.seen = [j \in Jobs |->
                                     IF j \in obs.queue THEN seen[j] ELSE Unseen]]
           /\ faults' = IF \E j \in obs.queue : seen[j].err /\ queued[j]
                        THEN faults + 1 ELSE faults
    BY Zenon, <1>2 DEF Collect
  <2>2. [j \in Jobs |-> IF j \in obs.queue THEN seen[j] ELSE Unseen] \in [Jobs -> Seen]
    BY Zenon
  <2>3. obs' \in [queue : SUBSET Jobs, complete : SUBSET Jobs, seen : [Jobs -> Seen]]
    BY Zenon, <2>1, <2>2
  <2>4. faults' \in Nat
    BY <2>1
  <2> QED
    BY ZenonT(60), <1>2, <2>3, <2>4 DEF Collect, database, actions, operator, world
<1>3. CASE ObservationFails
  <2>1. NoObservation \in [queue : SUBSET Jobs, complete : SUBSET Jobs, seen : [Jobs -> Seen]]
    <3>1. [j \in Jobs |-> Unseen] \in [Jobs -> Seen]
      BY Zenon
    <3> QED
      BY Zenon, <3>1 DEF NoObservation
  <2>2. faults' \in Nat /\ pc' \in MainSteps /\ list' \in [Jobs -> Row]
    BY Zenon, <1>3, FaultType DEF ObservationFails
  <2> QED
    BY <1>3, <2>1, <2>2 DEF ObservationFails, database, actions, operator, world
<1>4. CASE Reconcile
  <2>1. ASSUME NEW j \in Jobs PROVE ReconcileQueue(jobs[j], j \in obs.queue) \in Row
    <3>1. jobs[j] \in Row /\ (j \in obs.queue) \in BOOLEAN
      OBVIOUS
    <3> HIDE DEF SafetyInv, TypeOK
    <3> QED
      BY Zenon, <3>1, ReconciledRow
  <2>2. jobs' \in [Jobs -> Row]
    BY Zenon, <1>4, <2>1 DEF Reconcile
  <2> QED
    BY ZenonT(60), <1>4, <2>2 DEF Reconcile, actions, operator, world
<1>5. ASSUME NEW j \in Jobs, ObserveJob(j) PROVE TypeOK'
  <2>1. PICK due \in BOOLEAN :
           /\ jobs' = [jobs EXCEPT ![j] =
                          Observe(results[j], jobs[j], obs.seen[j], due).row]
           /\ results' = [results EXCEPT ![j] =
                             Observe(results[j], jobs[j], obs.seen[j], due).results]
    BY Zenon, <1>5 DEF ObserveJob
  <2>2. /\ Observe(results[j], jobs[j], obs.seen[j], due).row \in Row
        /\ Observe(results[j], jobs[j], obs.seen[j], due).results \in SUBSET Result
    BY Zenon, ObservedRow
  <2>3. jobs' \in [Jobs -> Row] /\ results' \in [Jobs -> SUBSET Result]
    BY Zenon, <2>1, <2>2
  <2> QED
    BY SMTT(60), <1>5, <2>3 DEF ObserveJob, actions, operator, world
<1>6. ASSUME NEW j \in Jobs, RequestCleanup(j) PROVE TypeOK'
  BY SMTT(60), <1>6, RequestedRow DEF RequestCleanup, actions, operator, world
<1>7. CASE ListComplete
  BY ZenonT(60), <1>7 DEF ListComplete, NoObservation, database, actions, operator, world
<1>8. CASE EndCleanup
  BY SMTT(60), <1>8 DEF EndCleanup, database, actions, operator, world
<1> QED
  BY Zenon, <1>1, <1>2, <1>3, <1>4, <1>5, <1>6, <1>7, <1>8 DEF Observation

\* Listing the jobs and planning keep the type.
LEMMA AdvanceType ==
    ASSUME SafetyInv, Advance
    PROVE  TypeOK'
<1> USE NoRowType DEF SafetyInv, TypeOK, MainSteps
<1>1. CASE ListJobs
  BY Zenon, <1>1 DEF ListJobs, database, actions, operator, world
<1>2. CASE EndPass
  BY Zenon, <1>2 DEF EndPass, database, actions, operator, world
<1>3. ASSUME NEW j \in Jobs, AdvanceJob(j) PROVE TypeOK'
  <2>1. pc' \in MainSteps
    BY Zenon, <1>3 DEF AdvanceJob, advanceStep
  <2>2. cur' \in Jobs \cup {NoJob} /\ held' \in Row /\ list' \in [Jobs -> Row]
        /\ todo' \subseteq Jobs
    BY Zenon, <1>3 DEF AdvanceJob
  <2> QED
    BY Zenon, <1>3, <2>1, <2>2 DEF AdvanceJob, database, actions, operator, world
<1>4. ASSUME NEW o \in {"error", "no repair", "repair"}, Plan(o) PROVE TypeOK'
  <2>1. cur \in Jobs /\ held.src # NoSource
    BY Zenon, <1>4 DEF Plan, EngineInv
  <2>2. planned(held, o) \in Row
    BY Zenon, <2>1, PlannedRow
  <2> DEFINE saved == FinishPlanning(jobs[cur], planned(held, o))
  <2>3. saved \in Row
    BY Zenon, <2>1, <2>2, FinishedPlanningRow
  <2>4. rememberPlanning(results[cur], saved) \in SUBSET Result
    BY Zenon, <2>1, <2>3, RememberResults DEF OwnResults
  <2>5. \/ /\ jobs' = [jobs EXCEPT ![cur] = saved]
           /\ results' = [results EXCEPT ![cur] = rememberPlanning(results[cur], saved)]
           /\ decided' = IF o = "error" THEN decided
                         ELSE [decided EXCEPT ![cur] = @ \cup ({held.key} \ {NoKey})]
        \/ UNCHANGED <<jobs, results, decided>>
    BY Zenon, <1>4 DEF Plan
  <2> HIDE DEF saved
  <2> DEFINE remembered == rememberPlanning(results[cur], saved)
  <2>6. remembered \in SUBSET Result
    BY Zenon, <2>4
  <2> HIDE DEF remembered
  <2>7. /\ jobs' \in [Jobs -> Row] /\ results' \in [Jobs -> SUBSET Result]
        /\ decided' \in [Jobs -> SUBSET Keys]
    <3>1. CASE UNCHANGED <<jobs, results, decided>>
      BY Zenon, <3>1
    <3>2. CASE jobs' = [jobs EXCEPT ![cur] = saved]
      <4>1. jobs' \in [Jobs -> Row]
        BY Zenon, <2>3, <3>2
      <4>2. results' = results \/ results' = [results EXCEPT ![cur] = remembered]
        BY Zenon, <2>5 DEF remembered
      <4>3. results' \in [Jobs -> SUBSET Result]
        BY Zenon, <2>6, <4>2
      <4>4. decided' = decided
            \/ decided' = [decided EXCEPT ![cur] = decided[cur] \cup ({held.key} \ {NoKey})]
        BY Zenon, <2>5
      <4>5. decided[cur] \cup ({held.key} \ {NoKey}) \in SUBSET Keys
        BY ZenonT(60), <2>1 DEF Row
      <4>6. decided' \in [Jobs -> SUBSET Keys]
        BY ZenonT(60), <4>4, <4>5
      <4> QED
        BY Zenon, <4>1, <4>3, <4>6
    <3> QED
      BY Zenon, <2>5, <3>1, <3>2
  <2>8. faults' \in Nat
    <3>1. Fault \/ faults' = faults
      BY Zenon, <1>4 DEF Plan
    <3> QED
      BY Zenon, <3>1, FaultType
  <2> QED
    BY Zenon, <1>4, <2>7, <2>8 DEF Plan, Return, actions, operator, world
<1>5. CASE PlanLost
  BY SMTT(60), <1>5 DEF PlanLost, Fault, Return, database, actions, operator, world
<1> QED
  BY Zenon, <1>1, <1>2, <1>3, <1>4, <1>5 DEF Advance

\* A saved attempt is well formed if the engine's copy is.
LEMMA SavedAttempt ==
    ASSUME TypeOK, cur \in Jobs, NEW a \in Attempt, SaveAttempt(a)
    PROVE  attempt' \in [Jobs -> Attempt] /\ jobs' \in [Jobs -> Row]
<1>1. [jobs[cur] EXCEPT !.state = a.state] \in Row
  <2>1. jobs[cur] \in Row /\ a.state \in States
    BY Zenon DEF TypeOK, Attempt
  <2> QED
    BY Zenon, <2>1, SteppedRow DEF KeepsRequest
<1>2. \/ /\ attempt' = [attempt EXCEPT ![cur] = a]
         /\ jobs' = [jobs EXCEPT ![cur] = [jobs[cur] EXCEPT !.state = a.state]]
      \/ UNCHANGED <<attempt, jobs>>
  BY Zenon DEF SaveAttempt, UpdateAttempt
<1>3. CASE UNCHANGED <<attempt, jobs>>
  BY Zenon, <1>3 DEF TypeOK
<1>4. CASE /\ attempt' = [attempt EXCEPT ![cur] = a]
           /\ jobs' = [jobs EXCEPT ![cur] = [jobs[cur] EXCEPT !.state = a.state]]
  <2>1. attempt \in [Jobs -> Attempt] /\ jobs \in [Jobs -> Row]
    BY Zenon DEF TypeOK
  <2>2. attempt' \in [Jobs -> Attempt]
    BY Zenon, <1>4, <2>1
  <2>3. jobs' \in [Jobs -> Row]
    BY Zenon, <1>1, <1>4, <2>1
  <2> QED
    BY Zenon, <2>2, <2>3
<1> QED
  BY Zenon, <1>2, <1>3, <1>4

\* A write that ends the work on a job keeps the type.
LEMMA SavedAndReturned ==
    ASSUME SafetyInv, cur \in Jobs, NEW a \in Attempt, SaveAndReturn(a),
           UNCHANGED <<actions, operator, world, decided, changes>>
    PROVE  TypeOK'
<1>1. attempt' \in [Jobs -> Attempt] /\ jobs' \in [Jobs -> Row]
  BY Zenon, SavedAttempt DEF SafetyInv, SaveAndReturn, TypeOK
<1>2. faults' \in Nat
  BY DEF SafetyInv, SaveAndReturn, TypeOK, Fault
<1> QED
  BY Zenon, <1>1, <1>2, NoRowType
     DEF SafetyInv, SaveAndReturn, TypeOK, MainSteps, Return, actions, operator, world

\* The steps of Engine.Run keep the type.
LEMMA EngineType ==
    ASSUME SafetyInv, Engine
    PROVE  TypeOK'
<1> USE NoRowType
<1>1. TypeOK /\ EngineInv
  BY Zenon DEF SafetyInv
<1>2. CASE RunReady
  BY Zenon, <1>1, <1>2 DEF RunReady, EngineInv, TypeOK, MainSteps, database, actions, operator, world
<1>3. CASE RunInterrupted
  <2>1. cur \in Jobs
    BY Zenon, <1>1, <1>3 DEF RunInterrupted, EngineInv
  <2>2. [attempt[cur] EXCEPT !.state = Failed] \in Attempt
    BY ZenonT(60), <1>1, <2>1 DEF TypeOK, Attempt, States
  <2> QED
    BY Zenon, <1>3, <2>1, <2>2, SavedAndReturned DEF RunInterrupted
<1>4. CASE RunImporting
  BY ZenonT(60), <1>1, <1>4 DEF RunImporting, EngineInv, TypeOK, MainSteps, database, actions, operator, world
<1>5. CASE RunNothing
  BY Zenon, <1>1, <1>5 DEF RunNothing, Return, TypeOK, MainSteps, database, actions, operator, world
<1>6. CASE StartAttempt
  <2>1. cur \in Jobs
    BY Zenon, <1>1, <1>6 DEF StartAttempt, EngineInv
  <2>2. CASE Return /\ UNCHANGED <<attempt, jobs>> /\ (Fault \/ faults' = faults)
    <3>1. faults' \in Nat
      BY Zenon, <1>1, <2>2, FaultType DEF TypeOK
    <3> QED
      BY SMTT(60), <1>1, <1>6, <2>2, <3>1 DEF StartAttempt, Return, TypeOK, MainSteps, actions, operator, world
  <2>3. CASE /\ attempt' = [attempt EXCEPT ![cur] = startedAttempt(jobs[cur], attempt[cur])]
             /\ draft' = startedAttempt(jobs[cur], attempt[cur])
             /\ jobs' = [jobs EXCEPT ![cur] = Start(jobs[cur])]
             /\ pc' = "authorize"
             /\ UNCHANGED <<cur, list, off, todo, obs, held, faults>>
    <3>1. startedAttempt(jobs[cur], attempt[cur]) \in Attempt
      <4>1. jobs[cur].plan \in Plans \cup {NoPlan} /\ attempt[cur].num + 1 \in Nat
        <5>1. jobs[cur] \in Row /\ attempt[cur] \in Attempt
          BY Zenon, <1>1, <2>1 DEF TypeOK
        <5>2. jobs[cur].plan \in Plans \cup {NoPlan}
          BY Zenon, <5>1 DEF Row
        <5>3. attempt[cur].num \in Nat
          BY Zenon, <5>1 DEF Attempt
        <5> QED
          BY SMTT(60), <5>2, <5>3
      <4> QED
        BY Zenon, <4>1 DEF startedAttempt, NoAttempt, Attempt, States
    <3>2. Start(jobs[cur]) \in Row
      <4>1. jobs[cur] \in Row /\ Running \in States
        BY Zenon, <1>1, <2>1 DEF TypeOK, States
      <4> QED
        BY Zenon, <4>1, SteppedRow DEF Start, KeepsRequest
    <3>3. draft' \in Attempt /\ attempt' \in [Jobs -> Attempt] /\ jobs' \in [Jobs -> Row]
      BY Zenon, <1>1, <2>3, <3>1, <3>2 DEF TypeOK
    <3> QED
      BY ZenonT(60), <1>1, <1>6, <2>3, <3>3 DEF StartAttempt, TypeOK, MainSteps, actions, operator, world
  <2> QED
    BY Zenon, <1>6, <2>2, <2>3 DEF StartAttempt
<1>7. CASE Authorize
  BY Zenon, <1>1, <1>7 DEF Authorize, TypeOK, MainSteps, database, actions, operator, world
<1>8. CASE AuthorizeBlocked
  <2>1. cur \in Jobs
    BY Zenon, <1>1, <1>8 DEF AuthorizeBlocked, EngineInv
  <2>2. [draft EXCEPT !.state = Blocked] \in Attempt
    BY Zenon, <1>1 DEF TypeOK, Attempt, States
  <2> QED
    BY Zenon, <1>8, <2>1, <2>2, SavedAndReturned DEF AuthorizeBlocked
<1>9. CASE RepairFails
  <2>1. cur \in Jobs
    BY Zenon, <1>1, <1>9 DEF RepairFails, EngineInv
  <2>2. [draft EXCEPT !.state = Failed] \in Attempt
    BY Zenon, <1>1 DEF TypeOK, Attempt, States
  <2>3. attempt' \in [Jobs -> Attempt] /\ jobs' \in [Jobs -> Row]
    BY Zenon, <1>1, <1>9, <2>1, <2>2, SavedAttempt DEF RepairFails
  <2>4. faults' \in Nat
    BY Zenon, <1>1, <1>9, FaultType DEF TypeOK, RepairFails
  <2> QED
    BY Zenon, <1>1, <1>9, <2>3, <2>4 DEF RepairFails, Return, TypeOK, MainSteps, actions, operator, world
<1>10. CASE PersistIntent
  <2>1. cur \in Jobs
    BY Zenon, <1>1, <1>10 DEF PersistIntent, EngineInv
  <2> DEFINE a == [draft EXCEPT !.state = Importing, !.before = history(cur)]
  <2>2. a \in Attempt
    <3>1. history(cur) \in SUBSET Nat
      <4>1. \A c \in commands : c.num \in Nat
        BY Zenon, <1>1 DEF TypeOK, Command
      <4> QED
        BY Zenon, <4>1 DEF history
    <3> QED
      BY Zenon, <1>1, <3>1 DEF TypeOK, Attempt, States
  <2>3. \/ SaveAttempt(a) /\ draft' = a /\ pc' = "submit"
           /\ UNCHANGED <<cur, list, off, todo, obs, held, faults>>
        \/ Return /\ UNCHANGED <<attempt, jobs>> /\ (Fault \/ faults' = faults)
    BY Zenon, <1>10 DEF PersistIntent
  <2> HIDE DEF a
  <2>4. CASE Return /\ UNCHANGED <<attempt, jobs>> /\ (Fault \/ faults' = faults)
    <3>1. faults' \in Nat
      BY Zenon, <1>1, <2>4, FaultType DEF TypeOK
    <3> QED
      BY SMTT(60), <1>1, <1>10, <2>4, <3>1 DEF PersistIntent, Return, TypeOK, MainSteps, actions, operator, world
  <2>5. CASE SaveAttempt(a) /\ draft' = a /\ pc' = "submit"
             /\ UNCHANGED <<cur, list, off, todo, obs, held, faults>>
    <3>1. attempt' \in [Jobs -> Attempt] /\ jobs' \in [Jobs -> Row]
      BY Zenon, <1>1, <2>1, <2>2, <2>5, SavedAttempt
    <3> QED
      BY <1>1, <1>10, <2>2, <2>5, <3>1 DEF PersistIntent, TypeOK, MainSteps, actions, operator, world
  <2> QED
    BY Zenon, <2>3, <2>4, <2>5
<1>11. CASE Submit
  <2>1. cur \in Jobs
    BY Zenon, <1>1, <1>11 DEF Submit, EngineInv
  <2>2. accepted \in Command
    BY SMTT(60), <1>1, <2>1 DEF TypeOK, accepted, Command, Attempt
  <2>3. commands' \subseteq Command
    BY Zenon, <1>1, <1>11, <2>2 DEF Submit, TypeOK
  <2>4. posts' \in [Jobs -> Nat]
    <3>1. posts' = posts \/ posts' = [posts EXCEPT ![cur] = posts[cur] + 1]
      BY Zenon, <1>11 DEF Submit
    <3> QED
      BY SMTT(60), <1>1, <2>1, <3>1 DEF TypeOK
  <2>5. draft' \in Attempt
    <3>1. draft' = draft \/ draft' = [draft EXCEPT !.command = TRUE]
      BY Zenon, <1>11 DEF Submit
    <3> QED
      BY ZenonT(60), <1>1, <3>1 DEF TypeOK, Attempt
  <2>6. faults' \in Nat
    BY Zenon, <1>1, <1>11, FaultType DEF Submit, TypeOK
  <2> QED
    BY ZenonT(60), <1>1, <1>11, <2>3, <2>4, <2>5, <2>6 DEF Submit, TypeOK, MainSteps, database, actions, operator
<1>12. CASE RecordCommand
  <2>1. cur \in Jobs /\ draft \in Attempt
    BY Zenon, <1>1, <1>12 DEF RecordCommand, EngineInv, TypeOK
  <2>2. \/ SaveAttempt(draft) /\ pc' = "check"
           /\ UNCHANGED <<cur, list, off, todo, obs, held, draft, faults>>
        \/ Return /\ UNCHANGED <<attempt, jobs>> /\ (Fault \/ faults' = faults)
    BY Zenon, <1>12 DEF RecordCommand
  <2>3. CASE Return /\ UNCHANGED <<attempt, jobs>> /\ (Fault \/ faults' = faults)
    <3>1. faults' \in Nat
      BY Zenon, <1>1, <2>3, FaultType DEF TypeOK
    <3> QED
      BY SMTT(60), <1>1, <1>12, <2>3, <3>1 DEF RecordCommand, Return, TypeOK, MainSteps, actions, operator, world
  <2>4. CASE SaveAttempt(draft) /\ pc' = "check"
             /\ UNCHANGED <<cur, list, off, todo, obs, held, draft, faults>>
    <3>1. attempt' \in [Jobs -> Attempt] /\ jobs' \in [Jobs -> Row]
      BY Zenon, <1>1, <2>1, <2>4, SavedAttempt
    <3> QED
      BY SMTT(60), <1>1, <1>12, <2>4, <3>1 DEF RecordCommand, TypeOK, MainSteps, actions, operator, world
  <2> QED
    BY Zenon, <2>2, <2>3, <2>4
<1>13. ASSUME pc \in {"check", "status"}, NEW a \in Attempt, SaveAndReturn(a),
              UNCHANGED <<actions, operator, world, decided, changes>>
       PROVE  TypeOK'
  BY Zenon, <1>1, <1>13, SavedAndReturned DEF EngineInv
<1>14. ASSUME Fault, Return, UNCHANGED database,
              UNCHANGED <<actions, operator, world, decided, changes>>
       PROVE  TypeOK'
  <2>1. faults' \in Nat
    BY Zenon, <1>1, <1>14, FaultType DEF TypeOK
  <2> QED
    BY Zenon, <1>1, <1>14, <2>1 DEF Return, TypeOK, MainSteps, database, actions, operator, world
<1>15. /\ draft \in Attempt /\ [draft EXCEPT !.state = Imported] \in Attempt
       /\ [draft EXCEPT !.state = Failed] \in Attempt
       /\ [draft EXCEPT !.terminal = TRUE] \in Attempt
  BY Zenon, <1>1 DEF TypeOK, Attempt, States
<1>16. CASE CheckHistory
  <2>1. CASE pc' = "status" /\ UNCHANGED <<database, cur, list, off, todo, obs, held, draft, faults>>
    BY <1>1, <1>16, <2>1 DEF CheckHistory, TypeOK, MainSteps, database, actions, operator, world
  <2> QED
    BY Zenon, <1>13, <1>14, <1>15, <1>16, <2>1 DEF CheckHistory
<1>17. CASE CheckCommand
  BY Zenon, <1>13, <1>14, <1>15, <1>17 DEF CheckCommand
<1>18. CASE GiveUpImport
  BY Zenon, <1>13, <1>15, <1>18 DEF GiveUpImport
<1> QED
  BY Zenon, <1>2, <1>3, <1>4, <1>5, <1>6, <1>7, <1>8, <1>9, <1>10, <1>11, <1>12, <1>16,
     <1>17, <1>18 DEF Engine

\* The actions goroutine keeps the type.
LEMMA RemovalType ==
    ASSUME SafetyInv, Removal
    PROVE  TypeOK'
<1> USE NoRowType
<1>1. TypeOK /\ RemovalInv
  BY Zenon DEF SafetyInv
<1>2. CASE ListRemovals
  BY Zenon, <1>1, <1>2 DEF ListRemovals, TypeOK, database, engine, operator, world
<1>3. CASE EndRemovals
  BY Zenon, <1>1, <1>3 DEF EndRemovals, TypeOK, database, engine, operator, world
<1>4. ASSUME NEW j \in Jobs, BeginRemoval(j) PROVE TypeOK'
  <2>1. StartRemoval(jobs[j]) \in Row
    <3>1. jobs[j] \in Row /\ Removing \in States
      BY Zenon, <1>1 DEF TypeOK, States
    <3> QED
      BY Zenon, <3>1, SteppedRow DEF StartRemoval, KeepsRequest
  <2>2. jobs' \in [Jobs -> Row]
    <3>1. jobs' = jobs \/ jobs' = [jobs EXCEPT ![j] = StartRemoval(jobs[j])]
      BY Zenon, <1>4 DEF BeginRemoval
    <3> QED
      BY Zenon, <1>1, <2>1, <3>1 DEF TypeOK
  <2>3. requested' \in [job : Jobs \cup {NoJob}, row : Row]
    <3>1. requested' = requested \/ requested' = [job |-> j, row |-> StartRemoval(jobs[j])]
      BY Zenon, <1>4 DEF BeginRemoval
    <3> QED
      BY <1>1, <2>1, <3>1 DEF TypeOK
  <2>4. faults' \in Nat
    BY Zenon, <1>1, <1>4, FaultType DEF BeginRemoval, TypeOK
  <2>5. apc' \in {"idle", "pick", "remove", "finish"} /\ atodo' \subseteq Jobs
    BY Zenon, <1>1, <1>4 DEF BeginRemoval, TypeOK
  <2> QED
    BY Zenon, <1>1, <1>4, <2>2, <2>3, <2>4, <2>5 DEF BeginRemoval, TypeOK, engine, operator, world
<1>5. CASE RemoveTracking
  <2>1. queued' \in [Jobs -> BOOLEAN] /\ failure' \in BOOLEAN
    BY Zenon, <1>1, <1>5 DEF RemoveTracking, TypeOK
  <2>2. faults' \in Nat
    BY Zenon, <1>1, <1>5, FaultType DEF RemoveTracking, TypeOK
  <2> QED
    BY Zenon, <1>1, <1>5, <2>1, <2>2 DEF RemoveTracking, TypeOK, database, engine, operator
<1>6. CASE EndRemoval
  <2>1. requested.job \in Jobs /\ failure \in BOOLEAN
    BY Zenon, <1>1, <1>6 DEF EndRemoval, RemovalInv, TypeOK
  <2>2. FinishRemoval(jobs[requested.job], failure) \in Row
    BY Zenon, <1>1, <2>1, FinishedRemovalRow DEF TypeOK
  <2>3. jobs' \in [Jobs -> Row]
    <3>1. jobs' = jobs \/ jobs' = [jobs EXCEPT ![requested.job] =
                                     FinishRemoval(jobs[requested.job], failure)]
      BY Zenon, <1>6 DEF EndRemoval
    <3> QED
      BY Zenon, <1>1, <2>2, <3>1 DEF TypeOK
  <2>4. faults' \in Nat
    BY Zenon, <1>1, <1>6, FaultType DEF EndRemoval, TypeOK
  <2> QED
    BY Zenon, <1>1, <1>6, <2>3, <2>4 DEF EndRemoval, NoAnswer, TypeOK, engine, operator, world
<1> QED
  BY Zenon, <1>2, <1>3, <1>4, <1>5, <1>6 DEF Removal

\* A request on the row of a job
LEMMA RequestType ==
    ASSUME TypeOK, NEW j \in Jobs, NEW action \in {Reconsider, Delete},
           jobs' = [jobs EXCEPT ![j] = requestAction(jobs[j], action)]
    PROVE  jobs' \in [Jobs -> Row]
<1>1. jobs[j] \in Row
  BY Zenon DEF TypeOK
<1>2. requestAction(jobs[j], action) \in Row
  BY Zenon, <1>1, RequestedRow
<1> QED
  BY Zenon, <1>2 DEF TypeOK

\* The operator's handlers keep the type.
LEMMA OperatorType ==
    ASSUME SafetyInv, Operator
    PROVE  TypeOK'
<1>1. TypeOK /\ AnswerInv
  BY Zenon DEF SafetyInv
<1>2. ASSUME NEW j \in Jobs, OpenPage(j) PROVE TypeOK'
  <2>1. jobs[j].rev \in Nat /\ jobs[j].src \in Sources \cup {NoSource}
    <3>1. jobs[j] \in Row
      BY Zenon, <1>1 DEF TypeOK
    <3> QED
      BY Zenon, <3>1 DEF Row
  <2>2. page' \in [Jobs -> [open : BOOLEAN, rev : Nat, src : Sources \cup {NoSource}]]
    BY Zenon, <1>1, <1>2, <2>1 DEF OpenPage, TypeOK
  <2> QED
    BY ZenonT(60), <1>1, <1>2, <2>2 DEF OpenPage, TypeOK, database, engine, actions, world
<1>3. ASSUME NEW j \in Jobs, ReadAnswer(j) PROVE TypeOK'
  BY Zenon, <1>1, <1>3 DEF ReadAnswer, TypeOK, NoPage, database, engine, actions, world
<1>4. ASSUME NEW j \in Jobs, NEW a \in {Reconsider, Delete}, PostAction(j, a) PROVE TypeOK'
  <2>1. jobs' \in [Jobs -> Row]
    BY Zenon, <1>1, <1>4, RequestType DEF PostAction
  <2> QED
    BY SMTT(60), <1>1, <1>4, <2>1 DEF PostAction, TypeOK, NoPage, engine, actions, world
<1>5. CASE PostAnswer
  <2>1. answer.job \in Jobs
    BY Zenon, <1>1, <1>5 DEF PostAnswer, AnswerInv
  <2>2. jobs' = jobs \/ jobs' = [jobs EXCEPT ![answer.job] =
                                   requestAction(jobs[answer.job], Reconsider)]
    BY Zenon, <1>5 DEF PostAnswer
  <2>3. jobs' \in [Jobs -> Row]
    BY Zenon, <1>1, <2>1, <2>2, RequestType DEF TypeOK
  <2>4. decided' \in [Jobs -> SUBSET Keys]
    BY Zenon, <1>1, <1>5 DEF PostAnswer, TypeOK
  <2> QED
    BY Zenon, <1>1, <1>5, <2>3, <2>4, NoRowType
       DEF PostAnswer, TypeOK, NoAnswer, engine, actions, world
<1> QED
  BY Zenon, <1>2, <1>3, <1>4, <1>5 DEF Operator

\* A step of Servarr on a command: it ends, imports the files or lists them.
LEMMA CommandSteps ==
    ASSUME NEW c \in Command, NEW d \in commandSteps(c)
    PROVE  /\ d \in Command /\ d.job = c.job /\ d.num = c.num /\ d.post = c.post
           /\ c.ended => d.ended
           /\ d.files = c.files \/ (c.files = "out" /\ ~c.ended) \/ d.files = "listed"
           /\ d.files = "listed" => c.files \in {"in", "listed"}
           /\ c.files = "listed" => d.files = "listed"
  BY ZenonT(60) DEF commandSteps, Command

\* Servarr, the files and the clock keep the type.
LEMMA EnvironmentType ==
    ASSUME SafetyInv, Environment
    PROVE  TypeOK'
<1>1. TypeOK
  BY Zenon DEF SafetyInv
<1>2. ASSUME NEW j \in Jobs, SourceChanges(j) PROVE TypeOK'
  <2>1. source' \in [Jobs -> Sources] /\ changes' \in Nat
    BY SMTT(60), <1>1, <1>2 DEF SourceChanges, Change, TypeOK
  <2> QED
    BY SMTT(60), <1>1, <1>2, <2>1 DEF SourceChanges, TypeOK, database, engine, actions, operator
<1>3. ASSUME NEW j \in Jobs, QueueChanges(j) PROVE TypeOK'
  <2>1. queued' \in [Jobs -> BOOLEAN] /\ changes' \in Nat
    BY <1>1, <1>3 DEF QueueChanges, Change, TypeOK
  <2> QED
    BY ZenonT(60), <1>1, <1>3, <2>1 DEF QueueChanges, TypeOK, database, engine, actions, operator
<1>4. ASSUME NEW j \in Jobs, RetryDue(j) PROVE TypeOK'
  <2>1. jobs[j] \in Row
    BY Zenon, <1>1 DEF TypeOK
  <2>2. [jobs[j] EXCEPT !.retry = FALSE] \in Row
    BY Zenon, <2>1 DEF Row
  <2>3. jobs' \in [Jobs -> Row]
    BY Zenon, <1>1, <1>4, <2>2 DEF RetryDue, TypeOK
  <2> QED
    BY SMTT(60), <1>1, <1>4, <2>3 DEF RetryDue, TypeOK, engine, actions, operator, world
<1>5. ASSUME NEW j \in Jobs, Stabilizes(j) PROVE TypeOK'
  <2>1. jobs[j] \in Row
    BY Zenon, <1>1 DEF TypeOK
  <2>2. [jobs[j] EXCEPT !.stable = TRUE] \in Row
    BY Zenon, <2>1 DEF Row
  <2>3. jobs' \in [Jobs -> Row]
    BY Zenon, <1>1, <1>5, <2>2 DEF Stabilizes, TypeOK
  <2> QED
    BY <1>1, <1>5, <2>3 DEF Stabilizes, TypeOK, engine, actions, operator, world
<1>6. CASE ToggleDisabled
  <2>1. disabled' \in BOOLEAN /\ changes' \in Nat
    BY SMTT(60), <1>1, <1>6 DEF ToggleDisabled, Change, TypeOK
  <2> QED
    BY Zenon, <1>1, <1>6, <2>1 DEF ToggleDisabled, TypeOK, database, engine, actions, operator
<1>7. CASE CommandStep
  <2>1. PICK c \in commands : \E d \in commandSteps(c) :
           commands' = (commands \ {c}) \cup {d}
    BY Zenon, <1>7 DEF CommandStep
  <2>2. PICK d \in commandSteps(c) : commands' = (commands \ {c}) \cup {d}
    BY Zenon, <2>1
  <2>3. c \in Command
    BY Zenon, <1>1 DEF TypeOK
  <2>4. d \in Command
    BY Zenon, <2>3, CommandSteps
  <2>5. commands' \subseteq Command
    BY Zenon, <1>1, <2>2, <2>4 DEF TypeOK
  <2> QED
    BY Zenon, <1>1, <1>7, <2>5 DEF CommandStep, TypeOK, database, engine, actions, operator
<1> QED
  BY Zenon, <1>2, <1>3, <1>4, <1>5, <1>6, <1>7 DEF Environment

\* TypeOK is inductive relative to SafetyInv: that the job at hand is one, that
\* what is planned has evidence.
LEMMA TypeStep ==
    ASSUME SafetyInv, [Next]_vars
    PROVE  TypeOK'
<1>1. CASE UNCHANGED vars
  BY SMTT(60), <1>1 DEF SafetyInv, TypeOK, vars, database, engine, actions, operator, world
<1>2. CASE Crash
  <2>1. TypeOK
    BY Zenon DEF SafetyInv
  <2>2. obs' \in [queue : SUBSET Jobs, complete : SUBSET Jobs, seen : [Jobs -> Seen]]
    BY Zenon, <1>2, NoRowType DEF Crash, NoObservation
  <2>3. faults' \in Nat
    BY Zenon, <1>2, <2>1, FaultType DEF Crash, TypeOK
  <2>4. page' \in [Jobs -> [open : BOOLEAN, rev : Nat, src : Sources \cup {NoSource}]]
    BY Zenon, <1>2 DEF Crash, NoPage
  <2> QED
    BY Zenon, <1>2, <2>1, <2>2, <2>3, <2>4, NoRowType
       DEF Crash, TypeOK, MainSteps, NoAnswer, database, world
<1> QED
  BY Zenon, <1>1, <1>2, ObservationType, AdvanceType, EngineType, RemovalType, OperatorType,
               EnvironmentType DEF Next

-----------------------------------------------------------------------------
(* The invariant of one row, its latest attempt and its planning results *)

RowInv(row, a, known) ==
    /\ active(a.state) => row.state = a.state
    /\ row.state \in {Running, Importing} => active(a.state)
    /\ a.state \in AttemptStates
    /\ row.action = Reconsider => row.state = Observed
    /\ row.state = Removing => row.action = Delete
    /\ row.state \in {Running, Importing, Removed} => row.action = NoAction
    /\ row.state = Absent => known = {}
    /\ \A r \in known :
          /\ r.rev <= row.rev
          /\ row.action = Reconsider /\ r.rev = row.rev => ~r.complete

\* What every transaction but the end of a removal does: a row that is being
\* removed stays so.
RowKept(row, new, a, known) ==
    RowInv(new, a, known) /\ (row.state = Removing => new.state = Removing)

\* The invariants about rows are the row invariant of every job.
LEMMA RowsInv ==
    AttemptInv /\ PendingActionServed /\ ResultsInv
        <=> \A j \in Jobs : RowInv(jobs[j], attempt[j], results[j])
  BY Zenon DEF AttemptInv, JobMatchesAttempt, PendingActionServed, ResultsInv, RowInv

\* ReconcileQueue
LEMMA ReconcileKeeps ==
    ASSUME NEW row \in Row, NEW a \in Attempt, NEW known \in SUBSET Result,
           RowInv(row, a, known), NEW here \in BOOLEAN
    PROVE  RowKept(row, ReconcileQueue(row, here), a, known)
<1> DEFINE new == ReconcileQueue(row, here)
<1>1. /\ new.rev = row.rev
      /\ \/ new.state = row.state /\ new.action = row.action
         \/ row.state = Removed /\ new.state = Blocked /\ new.action = row.action
         \/ /\ ~active(row.state) /\ row.state # Absent
            /\ new.state = Removed /\ new.action = NoAction
  BY Zenon, ReconciledRow
<1> HIDE DEF new
<1>2. RowKept(row, new, a, known)
  BY Zenon, <1>1 DEF RowKept, RowInv, active
<1> QED
  BY Zenon, <1>2 DEF new

\* Store.Observe: a row with a pending reconsideration is not made Blocked,
\* because no decision is remembered for its revision.
LEMMA ObserveKeeps ==
    ASSUME NEW row \in Row, NEW a \in Attempt, NEW known \in SUBSET Result,
           RowInv(row, a, known), NEW seen \in Seen, NEW due \in BOOLEAN
    PROVE  RowKept(row, Observe(known, row, seen, due).row, a,
                   Observe(known, row, seen, due).results)
<1>1. CASE row.state = Absent
  <2>1. /\ Observe(known, row, seen, due).row = createRow(seen)
        /\ Observe(known, row, seen, due).results = known
    BY Zenon, <1>1 DEF Observe
  <2>2. createRow(seen).state = Observed /\ createRow(seen).action = NoAction
    BY Zenon, CreatedRow
  <2>3. RowKept(row, createRow(seen), a, known)
    BY Zenon, <1>1, <2>2 DEF RowKept, RowInv, active
  <2> QED
    BY Zenon, <2>1, <2>3
<1>2. CASE row.state # Absent
  <2> DEFINE o == observeRow(known, row, seen, due)
  <2>1. Observe(known, row, seen, due) = o
    BY Zenon, <1>2 DEF Observe
  <2>2. /\ KeepsRequest(row, o.row) /\ OwnResults(known, row, o.results)
        /\ \/ o.row.state = row.state
           \/ /\ ~active(row.state) /\ row.state \notin {Imported, Removed}
              /\ \/ o.row.state = Observed
                 \/ o.row.state = Blocked /\ hasDecision(o.results, row)
    BY Zenon, ObserveRow
  <2> HIDE DEF o
  <2>3. row.action = Reconsider => ~hasDecision(o.results, row)
    BY Zenon, <2>2 DEF RowInv, OwnResults, hasDecision
  <2>4. row.rev \in Nat
    BY Zenon DEF Row
  <2>5. RowKept(row, o.row, a, o.results)
    <3>1. \A r \in o.results :
             /\ r.rev <= o.row.rev
             /\ o.row.action = Reconsider /\ r.rev = o.row.rev => ~r.complete
      BY <2>2, <2>3, <2>4 DEF RowInv, KeepsRequest, OwnResults, hasDecision
    <3> QED
      BY Zenon, <1>2, <2>2, <2>3, <3>1 DEF RowKept, RowInv, KeepsRequest, active
  <2> QED
    BY Zenon, <2>1, <2>5
<1> QED
  BY Zenon, <1>1, <1>2

\* A request: no result is remembered yet for the new revision.
LEMMA RequestKeeps ==
    ASSUME NEW row \in Row, NEW a \in Attempt, NEW known \in SUBSET Result,
           RowInv(row, a, known), NEW action \in {Reconsider, Delete},
           mayRequest(row, action)
    PROVE  RowKept(row, requestAction(row, action), a, known)
<1> DEFINE new == requestAction(row, action)
<1>1. /\ new.rev = row.rev + 1 /\ new.action = action
      /\ new.state = IF action = Reconsider THEN Observed ELSE row.state
  BY Zenon, RequestedRow
<1> HIDE DEF new
<1>2. row.rev \in Nat /\ \A r \in known : r.rev \in Nat
  BY Zenon DEF Row, Result
<1>3. \A r \in known : r.rev <= new.rev /\ r.rev # new.rev
  BY <1>1, <1>2 DEF RowInv
<1>4. RowKept(row, new, a, known)
  BY Zenon, <1>1, <1>3 DEF RowKept, RowInv, mayRequest, active
<1> QED
  BY Zenon, <1>4 DEF new

\* FinishPlanning and the result it remembers
LEMMA PlanningKeeps ==
    ASSUME NEW row \in Row, NEW a \in Attempt, NEW known \in SUBSET Result,
           RowInv(row, a, known), NEW plan \in Row,
           plan.state \in {Observed, Ready, Blocked}, mayFinishPlanning(row, plan)
    PROVE  RowKept(row, FinishPlanning(row, plan), a,
                   rememberPlanning(known, FinishPlanning(row, plan)))
<1> DEFINE new == FinishPlanning(row, plan)
           after == rememberPlanning(known, new)
<1>1. /\ new \in Row /\ new.rev = row.rev /\ new.state = plan.state
      /\ new.action = IF plan.state \in {Ready, Blocked} THEN NoAction ELSE row.action
  BY Zenon, FinishedPlanningRow
<1> HIDE DEF new
<1>2. OwnResults(known, new, after)
  BY Zenon, <1>1, RememberResults
<1> HIDE DEF after
<1>3. row.rev \in Nat
  BY Zenon DEF Row
<1>4. \A r \in after :
         /\ r.rev <= new.rev
         /\ new.action = Reconsider /\ r.rev = new.rev => ~r.complete
  BY <1>1, <1>2, <1>3 DEF RowInv, OwnResults
<1>5. RowKept(row, new, a, after)
  BY Zenon, <1>1, <1>4 DEF RowKept, RowInv, mayFinishPlanning, active
<1> QED
  BY Zenon, <1>5 DEF new, after

\* Start
LEMMA StartKeeps ==
    ASSUME NEW row \in Row, NEW a \in Attempt, NEW known \in SUBSET Result,
           RowInv(row, a, known), mayStart(row)
    PROVE  /\ RowKept(row, Start(row), startedAttempt(row, a), known)
           /\ startedAttempt(row, a).num = a.num + 1
           /\ startedAttempt(row, a).state = Running
           /\ ~active(a.state)
<1>1. /\ startedAttempt(row, a).num = a.num + 1
      /\ startedAttempt(row, a).state = Running
  BY Zenon DEF startedAttempt, NoAttempt
<1>2. Start(row).state = Running /\ KeepsRequest(row, Start(row))
  BY Zenon, SteppedRow DEF Start, States
<1>3. ~active(a.state)
  BY Zenon DEF RowInv, mayStart, active
<1>4. RowKept(row, Start(row), startedAttempt(row, a), known)
  BY Zenon, <1>1, <1>2 DEF RowKept, RowInv, mayStart, KeepsRequest, AttemptStates, active
<1> QED
  BY Zenon, <1>1, <1>3, <1>4

\* UpdateAttempt: the job follows its attempt.
LEMMA SaveKeeps ==
    ASSUME NEW row \in Row, NEW a \in Attempt, NEW known \in SUBSET Result,
           RowInv(row, a, known), NEW b \in Attempt, mayUpdateAttempt(a, b),
           b.state \in AttemptStates \ {Absent}
    PROVE  RowKept(row, UpdateAttempt(row, b), b, known)
<1>1. UpdateAttempt(row, b).state = b.state /\ KeepsRequest(row, UpdateAttempt(row, b))
  <2>1. b.state \in States
    BY Zenon DEF Attempt
  <2> QED
    BY Zenon, <2>1, SteppedRow DEF UpdateAttempt
<1>2. row.state \in {Running, Importing} /\ row.action = NoAction
  BY Zenon DEF RowInv, mayUpdateAttempt, active, AttemptStates
<1> QED
  BY Zenon, <1>1, <1>2 DEF RowKept, RowInv, KeepsRequest, active, AttemptStates

\* StartRemoval and FinishRemoval
LEMMA RemovalKeeps ==
    ASSUME NEW row \in Row, NEW a \in Attempt, NEW known \in SUBSET Result,
           RowInv(row, a, known)
    PROVE  /\ mayStartRemoval(row) =>
                 RowKept(row, StartRemoval(row), a, known) /\ StartRemoval(row).state = Removing
           /\ \A failed \in BOOLEAN : row.state = Removing =>
                 RowInv(FinishRemoval(row, failed), a, known)
<1>1. ASSUME mayStartRemoval(row)
      PROVE  RowKept(row, StartRemoval(row), a, known) /\ StartRemoval(row).state = Removing
  <2>1. StartRemoval(row).state = Removing /\ KeepsRequest(row, StartRemoval(row))
    BY Zenon, SteppedRow DEF StartRemoval, States
  <2> QED
    BY Zenon, <1>1, <2>1 DEF RowKept, RowInv, mayStartRemoval, KeepsRequest, active, AttemptStates
<1>2. ASSUME NEW failed \in BOOLEAN, row.state = Removing
      PROVE  RowInv(FinishRemoval(row, failed), a, known)
  <2>1. /\ FinishRemoval(row, failed).rev = row.rev
        /\ FinishRemoval(row, failed).state = IF failed THEN Blocked ELSE Removed
        /\ FinishRemoval(row, failed).action = IF failed THEN row.action ELSE NoAction
    BY Zenon, FinishedRemovalRow
  <2> QED
    BY Zenon, <1>2, <2>1 DEF RowInv, active, AttemptStates
<1> QED
  BY Zenon, <1>1, <1>2

\* The passing of RetryAt and of the stabilization period
LEMMA ClockKeeps ==
    ASSUME NEW row \in Row, NEW a \in Attempt, NEW known \in SUBSET Result,
           RowInv(row, a, known)
    PROVE  /\ RowKept(row, [row EXCEPT !.retry = FALSE], a, known)
           /\ RowKept(row, [row EXCEPT !.stable = TRUE], a, known)
<1>1. /\ KeepsRequest(row, [row EXCEPT !.retry = FALSE])
      /\ [row EXCEPT !.retry = FALSE].state = row.state
      /\ KeepsRequest(row, [row EXCEPT !.stable = TRUE])
      /\ [row EXCEPT !.stable = TRUE].state = row.state
  BY Zenon, SteppedRow DEF States
<1>2. ASSUME NEW new, KeepsRequest(row, new), new.state = row.state
      PROVE  RowKept(row, new, a, known)
  BY Zenon, <1>2 DEF RowKept, RowInv, KeepsRequest
<1> QED
  BY Zenon, <1>1, <1>2

-----------------------------------------------------------------------------
(* Plans and decisions: what RowInv does not say of a row and its results *)

\* No result of the row's inputs is a decision.
undecided(known, row) ==
    \A r \in known : r.key = row.key /\ r.rev = row.rev => ~r.complete

\* At most one result for a planning key and a revision
oneEach(known) ==
    \A r, s \in known : r.key = s.key /\ r.rev = s.rev => r = s

\* A plan that may be carried out is one of the row's inputs; a job has one
\* result for a planning key and a revision, and none before it has a key; an
\* Observed row has not been decided on.
DecisionRow(row, known) ==
    /\ row.state \in {Ready, Running, Importing} /\ row.action = NoAction
          => row.plan = [src |-> row.src, rev |-> row.rev]
    /\ row.key = NoKey => known = {}
    /\ oneEach(known)
    /\ row.state = Observed => undecided(known, row)

\* The inputs of a job, and the plan made for them
SameInputs(row, new) ==
    new.src = row.src /\ new.rev = row.rev /\ new.key = row.key /\ new.plan = row.plan

\* A transaction that changes none of the inputs, and neither starts planning
\* again nor makes a job Ready
QuietWrite(row, new) ==
    /\ SameInputs(row, new)
    /\ \/ new.state = row.state /\ new.action = row.action
       \/ new.state \notin {Observed, Ready, Running, Importing}
       \/ /\ row.state \in {Ready, Running, Importing} /\ row.action = NoAction
          /\ new.state # Observed

\* Such a transaction keeps the plan of a job and what was decided.
LEMMA QuietDecision ==
    ASSUME NEW row, NEW new, NEW known, DecisionRow(row, known), QuietWrite(row, new)
    PROVE  DecisionRow(new, known)
  BY Zenon DEF DecisionRow, QuietWrite, SameInputs, undecided

\* ReconcileQueue, the removal, the clock and the attempt are quiet.
LEMMA QuietWrites ==
    ASSUME NEW row \in Row
    PROVE  /\ \A here \in BOOLEAN : QuietWrite(row, ReconcileQueue(row, here))
           /\ QuietWrite(row, StartRemoval(row))
           /\ \A failed \in BOOLEAN : QuietWrite(row, FinishRemoval(row, failed))
           /\ QuietWrite(row, [row EXCEPT !.retry = FALSE])
           /\ QuietWrite(row, [row EXCEPT !.stable = TRUE])
           /\ mayStart(row) => QuietWrite(row, Start(row))
           /\ \A a : /\ row.state \in {Running, Importing} /\ row.action = NoAction
                     /\ a.state # Observed
                     => QuietWrite(row, UpdateAttempt(row, a))
<1>1. ASSUME NEW here \in BOOLEAN PROVE QuietWrite(row, ReconcileQueue(row, here))
  <2>1. SameInputs(row, ReconcileQueue(row, here))
    BY Zenon DEF ReconcileQueue, SameInputs, Row
  <2>2. ReconcileQueue(row, here).state \notin {Blocked, Removed} =>
           /\ ReconcileQueue(row, here).state = row.state
           /\ ReconcileQueue(row, here).action = row.action
    BY Zenon, ReconciledRow
  <2> QED
    BY Zenon, <2>1, <2>2 DEF QuietWrite
<1>2. QuietWrite(row, StartRemoval(row))
  BY Zenon DEF StartRemoval, QuietWrite, SameInputs, Row
<1>3. ASSUME NEW failed \in BOOLEAN PROVE QuietWrite(row, FinishRemoval(row, failed))
  BY Zenon DEF FinishRemoval, QuietWrite, SameInputs, Row
<1>4. /\ QuietWrite(row, [row EXCEPT !.retry = FALSE])
      /\ QuietWrite(row, [row EXCEPT !.stable = TRUE])
  BY Zenon DEF QuietWrite, SameInputs, Row
<1>5. mayStart(row) => QuietWrite(row, Start(row))
  BY Zenon DEF mayStart, Start, QuietWrite, SameInputs, Row
<1>6. ASSUME NEW a, row.state \in {Running, Importing}, row.action = NoAction,
             a.state # Observed
      PROVE  QuietWrite(row, UpdateAttempt(row, a))
  BY Zenon, <1>6 DEF UpdateAttempt, QuietWrite, SameInputs, Row
<1> QED
  BY <1>1, <1>2, <1>3, <1>4, <1>5, <1>6

\* A request starts a revision for which nothing is remembered.
LEMMA RequestDecision ==
    ASSUME NEW row \in Row, NEW known \in SUBSET Result, NEW action \in {Reconsider, Delete},
           DecisionRow(row, known), \A r \in known : r.rev <= row.rev
    PROVE  /\ DecisionRow(requestAction(row, action), known)
           /\ ~mayStart(requestAction(row, action))
<1> DEFINE new == requestAction(row, action)
<1>1. new.rev = row.rev + 1 /\ new.action = action
  BY Zenon, RequestedRow
<1>2. new.key = row.key
  BY Zenon DEF requestAction, Row
<1> HIDE DEF new
<1>3. undecided(known, new)
  <2>1. row.rev \in Nat /\ \A r \in known : r.rev \in Nat
    BY Zenon DEF Row, Result
  <2> QED
    BY <1>1, <2>1 DEF undecided
<1>4. DecisionRow(new, known) /\ ~mayStart(new)
  BY Zenon, <1>1, <1>2, <1>3 DEF DecisionRow, mayStart
<1> QED
  BY Zenon, <1>4 DEF new

\* rememberPlanning replaces what it knew of the row's inputs.
LEMMA RememberDecision ==
    ASSUME NEW known \in SUBSET Result, NEW row \in Row,
           oneEach(known)
    PROVE  /\ rememberPlanning(known, row) \in SUBSET Result
           /\ oneEach(rememberPlanning(known, row))
           /\ row.key # NoKey /\ row.state = Observed
                 => undecided(rememberPlanning(known, row), row)
           /\ row.key = NoKey => rememberPlanning(known, row) = known
<1>1. CASE row.key = NoKey
  BY Zenon, <1>1 DEF rememberPlanning
<1>2. CASE row.key # NoKey
  <2> DEFINE new == [key |-> row.key, rev |-> row.rev,
                     complete |-> row.state # Observed, tries |-> row.tries,
                     retry |-> row.retry, plan |-> row.plan]
  <2>1. rememberPlanning(known, row) =
           {r \in known : r.key # row.key \/ r.rev # row.rev} \cup {new}
    BY Zenon, <1>2 DEF rememberPlanning
  <2>2. new \in Result
    BY Zenon, <1>2 DEF Row, Result
  <2>3. new.key = row.key /\ new.rev = row.rev
    BY Zenon
  <2>4. row.state = Observed => ~new.complete
    BY Zenon
  <2> HIDE DEF new
  <2> QED
    BY Zenon, <1>2, <2>1, <2>2, <2>3, <2>4 DEF undecided, oneEach
<1> QED
  BY Zenon, <1>1, <1>2

\* FinishPlanning stores a plan for the inputs of the row it finds, or an
\* unfinished result.
LEMMA PlanningDecision ==
    ASSUME NEW row \in Row, NEW known \in SUBSET Result, DecisionRow(row, known),
           NEW asked \in Row, asked.state = Observed, asked.src # NoSource,
           NEW outcome \in {"error", "no repair", "repair"},
           mayFinishPlanning(row, planned(asked, outcome))
    PROVE  DecisionRow(FinishPlanning(row, planned(asked, outcome)),
                       rememberPlanning(known, FinishPlanning(row, planned(asked, outcome))))
<1> DEFINE plan == planned(asked, outcome)
           new == FinishPlanning(row, plan)
<1>1. /\ plan \in Row /\ plan.state \in {Observed, Blocked, Ready}
      /\ plan.state = Ready => plan.plan = [src |-> plan.src, rev |-> plan.rev]
  <2>1. plan \in Row /\ plan.state \in {asked.state, Blocked, Ready}
    BY Zenon, PlannedRow
  <2>2. CASE outcome = "error"
    <3>1. plan.state = Observed
      BY Zenon, <2>2 DEF planned, Row
    <3> QED
      BY Zenon, <2>1, <3>1
  <2>3. CASE outcome \in {"no repair", "repair"}
    <3>1. /\ plan.plan = [src |-> asked.src, rev |-> asked.rev]
          /\ plan.src = asked.src /\ plan.rev = asked.rev
      BY Zenon, <2>3 DEF planned, Row
    <3> HIDE DEF plan
    <3> QED
      BY Zenon, <2>1, <3>1
  <2> QED
    BY Zenon, <2>2, <2>3
<1>2. row.rev = plan.rev /\ row.src = plan.src
  BY Zenon DEF mayFinishPlanning
<1> HIDE DEF plan
<1>3. new \in Row /\ new.state = plan.state
  BY Zenon, <1>1, FinishedPlanningRow
<1>4. /\ new.plan = plan.plan /\ new.src = row.src /\ new.rev = row.rev
      /\ new.key = row.key
  BY Zenon DEF FinishPlanning, Row
<1> HIDE DEF new
<1>5. DecisionRow(new, rememberPlanning(known, new))
  <2>1. oneEach(known)
    BY Zenon DEF DecisionRow
  <2>2. /\ oneEach(rememberPlanning(known, new))
        /\ new.key # NoKey /\ new.state = Observed
              => undecided(rememberPlanning(known, new), new)
        /\ new.key = NoKey => rememberPlanning(known, new) = known
    BY Zenon, <1>3, <2>1, RememberDecision
  <2>3. new.key = NoKey => rememberPlanning(known, new) = {}
    BY Zenon, <1>4, <2>2 DEF DecisionRow
  <2>4. new.state = Ready => new.plan = [src |-> new.src, rev |-> new.rev]
    BY Zenon, <1>1, <1>2, <1>3, <1>4
  <2> QED
    BY Zenon, <1>1, <1>3, <2>2, <2>3, <2>4 DEF DecisionRow, undecided
<1> QED
  BY Zenon, <1>5 DEF new, plan

\* restorePlanning leaves a row Observed only if there is no decision on its inputs.
LEMMA RestoreDecision ==
    ASSUME NEW known \in SUBSET Result, NEW row \in Row, NEW due \in BOOLEAN,
           oneEach(known),
           row.state = Observed
    PROVE  /\ restorePlanning(known, row, due).key = row.key
           /\ restorePlanning(known, row, due).state \in {Observed, Blocked}
           /\ restorePlanning(known, row, due).state = Observed => undecided(known, row)
<1>1. CASE row.key = NoKey
  <2>1. undecided(known, row)
    BY Zenon, <1>1, StoreAssumption DEF undecided, Result
  <2> QED
    BY Zenon, <1>1, <2>1 DEF restorePlanning
<1>2. CASE rememberedFor(known, row) = {}
  <2>1. undecided(known, row)
    BY Zenon, <1>2 DEF undecided, rememberedFor
  <2> QED
    BY Zenon, <1>2, <2>1 DEF restorePlanning
<1>3. CASE ~(row.key = NoKey \/ rememberedFor(known, row) = {})
  <2> DEFINE r == CHOOSE x \in rememberedFor(known, row) : TRUE
             backoff == [row EXCEPT !.tries = r.tries, !.retry = r.retry /\ ~due]
             blocked == [backoff EXCEPT !.state = Blocked, !.plan = r.plan]
  <2>1. r \in rememberedFor(known, row)
    BY Zenon, <1>3
  <2>2. r \in known /\ r.key = row.key /\ r.rev = row.rev
    BY Zenon, <2>1 DEF rememberedFor
  <2>3. restorePlanning(known, row, due) = IF r.complete THEN blocked ELSE backoff
    BY Zenon, <1>3 DEF restorePlanning
  <2> HIDE DEF r
  <2>4. backoff.key = row.key /\ backoff.state = Observed
    BY Zenon DEF Row
  <2>5. blocked.key = row.key /\ blocked.state = Blocked
    BY Zenon DEF Row
  <2> HIDE DEF backoff, blocked
  <2>6. ~r.complete => undecided(known, row)
    BY Zenon, <2>2 DEF undecided, oneEach
  <2> QED
    BY Zenon, <2>3, <2>4, <2>5, <2>6
<1> QED
  BY Zenon, <1>1, <1>2, <1>3

\* A changed source: the row is planned again, unless these inputs are decided on.
LEMMA ReplannedDecision ==
    ASSUME NEW known \in SUBSET Result, NEW row \in Row, NEW due \in BOOLEAN,
           oneEach(known)
    PROVE  /\ replanned(known, row, due).key = row.key
           /\ replanned(known, row, due).rev = row.rev
           /\ replanned(known, row, due).state \notin {Ready, Running, Importing}
           /\ replanned(known, row, due).state = Observed => undecided(known, row)
<1>1. CASE row.state \in {Imported, Removed}
  BY Zenon, <1>1 DEF replanned
<1>2. CASE row.state \notin {Imported, Removed}
  <2> DEFINE fresh == [row EXCEPT !.plan = NoPlan, !.state = Observed,
                                  !.stable = FALSE, !.retry = FALSE, !.tries = 0]
  <2>1. fresh \in Row
    <3>1. 0 \in 0..MaxTries
      BY StoreAssumption
    <3> QED
      BY Zenon, <3>1 DEF Row, States
  <2>2. fresh.state = Observed /\ fresh.key = row.key /\ fresh.rev = row.rev
    BY Zenon DEF Row
  <2>3. replanned(known, row, due) = restorePlanning(known, fresh, due)
    BY Zenon, <1>2 DEF replanned
  <2> HIDE DEF fresh
  <2>4. restorePlanning(known, fresh, due).rev = fresh.rev
    BY Zenon, <2>1, RestoreRow DEF KeepsRequest
  <2>5. /\ restorePlanning(known, fresh, due).key = fresh.key
        /\ restorePlanning(known, fresh, due).state \in {Observed, Blocked}
        /\ restorePlanning(known, fresh, due).state = Observed => undecided(known, fresh)
    BY Zenon, <2>1, <2>2, RestoreDecision
  <2> QED
    BY Zenon, <2>2, <2>3, <2>4, <2>5 DEF undecided
<1> QED
  BY Zenon, <1>1, <1>2

\* observePlanning: an Observed row whose inputs are the same stays undecided.
LEMMA ObservePlanningDecision ==
    ASSUME NEW known \in SUBSET Result, NEW row \in Row, NEW src \in Sources,
           DecisionRow(row, known)
    PROVE  LET p == observePlanning(known, row, src)
           IN  /\ p.row.src = row.src /\ p.row.plan = row.plan
               /\ p.row.key = NoKey => p.results = {}
               /\ oneEach(p.results)
               /\ ~p.changed /\ row.state = Observed => undecided(p.results, p.row)
               /\ PlanningKey[src] = NoKey => (p.changed <=> row.src # src)
<1> DEFINE p == observePlanning(known, row, src)
<1>1. CASE PlanningKey[src] = NoKey
  <2>1. p = [row |-> row, results |-> known, changed |-> row.src # src]
    BY Zenon, <1>1 DEF observePlanning
  <2>2. p.row = row /\ p.results = known /\ p.changed = (row.src # src)
    BY <2>1
  <2> HIDE DEF p
  <2>3. /\ p.row.src = row.src /\ p.row.plan = row.plan
        /\ p.row.key = NoKey => p.results = {}
        /\ oneEach(p.results)
        /\ row.state = Observed => undecided(p.results, p.row)
    BY Zenon, <2>2 DEF DecisionRow
  <2> QED
    BY Zenon, <2>2, <2>3 DEF p
<1>2. CASE PlanningKey[src] # NoKey
  <2> DEFINE based == [row EXCEPT !.key = bootstrapKey(row, src)]
             keyed == [based EXCEPT !.key = PlanningKey[src]]
             remembers == \/ row.key = NoKey /\ (row.state # Observed \/ row.tries > 0)
                          \/ row.state # Observed /\ row.plan # NoPlan
  <2>1. bootstrapKey(row, src) \in Keys \cup {NoKey}
    BY Zenon, StoreAssumption DEF bootstrapKey, Row
  <2>2. /\ p.row = keyed
        /\ p.results = IF remembers THEN rememberPlanning(known, based) ELSE known
        /\ p.changed = (based.key # PlanningKey[src])
    BY Zenon, <1>2 DEF observePlanning
  <2>3. based \in Row /\ based.key = bootstrapKey(row, src) /\ based.state = row.state
        /\ based.rev = row.rev /\ based.src = row.src /\ based.plan = row.plan
    BY Zenon, <2>1 DEF Row
  <2>4. keyed.key = PlanningKey[src] /\ keyed.rev = row.rev /\ keyed.src = row.src
        /\ keyed.plan = row.plan
    BY Zenon, <2>3 DEF Row
  <2> HIDE DEF based, keyed, p
  <2>5. oneEach(known)
    BY Zenon DEF DecisionRow
  <2>6. /\ oneEach(rememberPlanning(known, based))
        /\ based.key # NoKey /\ based.state = Observed
              => undecided(rememberPlanning(known, based), based)
    BY Zenon, <2>3, <2>5, RememberDecision
  <2>7. ASSUME ~p.changed, row.state = Observed
        PROVE  undecided(p.results, p.row)
    <3>1. based.key = PlanningKey[src]
      BY Zenon, <2>2, <2>7
    <3>2. CASE row.key = NoKey
      <4>1. CASE remembers
        BY Zenon, <1>2, <2>2, <2>3, <2>4, <2>6, <2>7, <3>1, <4>1 DEF undecided
      <4>2. CASE ~remembers
        BY Zenon, <2>2, <3>2, <4>2 DEF DecisionRow, undecided
      <4> QED
        BY Zenon, <4>1, <4>2
    <3>3. CASE row.key # NoKey
      <4>1. p.results = known /\ p.row.key = row.key /\ p.row.rev = row.rev
        BY Zenon, <2>2, <2>3, <2>4, <2>7, <3>1, <3>3 DEF bootstrapKey
      <4> QED
        BY Zenon, <2>7, <4>1 DEF DecisionRow, undecided
    <3> QED
      BY Zenon, <3>2, <3>3
  <2>8. oneEach(p.results)
    BY Zenon, <2>2, <2>5, <2>6
  <2> QED
    BY Zenon, <1>2, <2>2, <2>4, <2>7, <2>8 DEF p
<1> QED
  BY Zenon, <1>1, <1>2

\* Store.Observe: a Ready row keeps its plan only with the evidence it was made
\* from, and a row becomes Observed again only for inputs that are undecided.
LEMMA ObserveDecision ==
    ASSUME NEW known \in SUBSET Result, NEW row \in Row, NEW seen \in Seen,
           NEW due \in BOOLEAN, DecisionRow(row, known),
           row.state = Absent => known = {}
    PROVE  DecisionRow(Observe(known, row, seen, due).row,
                       Observe(known, row, seen, due).results)
<1>1. CASE row.state = Absent
  <2>1. /\ Observe(known, row, seen, due).row = createRow(seen)
        /\ Observe(known, row, seen, due).results = {}
    BY Zenon, <1>1 DEF Observe
  <2>2. createRow(seen).state = Observed
    BY Zenon, CreatedRow
  <2>3. DecisionRow(createRow(seen), {})
    BY Zenon, <2>2 DEF DecisionRow, undecided, oneEach
  <2> QED
    BY Zenon, <2>1, <2>3
<1>2. CASE row.state # Absent /\ (active(row.state) \/ seen.src = NoSource)
  <2> DEFINE listed == [row EXCEPT !.inQueue = TRUE, !.err = seen.err]
  <2>1. Observe(known, row, seen, due) = [row |-> listed, results |-> known]
    BY Zenon, <1>2 DEF Observe, observeRow
  <2>2. QuietWrite(row, listed)
    BY Zenon DEF QuietWrite, SameInputs, Row
  <2> HIDE DEF listed
  <2> QED
    BY <2>1, <2>2, QuietDecision
<1>3. CASE row.state # Absent /\ ~(active(row.state) \/ seen.src = NoSource)
  <2> DEFINE listed == [row EXCEPT !.inQueue = TRUE, !.err = seen.err]
             p == observePlanning(known, listed, seen.src)
             next == IF p.changed THEN replanned(p.results, p.row, due) ELSE p.row
             last == IF keepsEvidence(next, p.changed, seen.src) THEN next
                     ELSE [next EXCEPT !.src = seen.src]
  <2>1. Observe(known, row, seen, due) = [row |-> last, results |-> p.results]
    BY Zenon, <1>3 DEF Observe, observeRow
  <2>2. listed \in Row /\ listed.state = row.state /\ QuietWrite(row, listed)
    BY Zenon DEF QuietWrite, SameInputs, Row, Seen
  <2>3. seen.src \in Sources
    BY Zenon, <1>3 DEF Seen
  <2> HIDE DEF listed
  <2>4. DecisionRow(listed, known)
    BY Zenon, <2>2, QuietDecision
  <2>5. /\ p.row.src = listed.src /\ p.row.plan = listed.plan
        /\ p.row.key = NoKey => p.results = {}
        /\ oneEach(p.results)
        /\ ~p.changed /\ listed.state = Observed => undecided(p.results, p.row)
        /\ PlanningKey[seen.src] = NoKey => (p.changed <=> listed.src # seen.src)
    BY Zenon, <2>2, <2>3, <2>4, ObservePlanningDecision
  <2>6. /\ p.row \in Row /\ p.row.rev = listed.rev /\ p.row.action = listed.action
        /\ p.row.state = listed.state /\ p.results \in SUBSET Result
    <3>1. /\ KeepsRequest(listed, p.row) /\ p.row.state = listed.state
          /\ OwnResults(known, listed, p.results)
      BY Zenon, <2>2, <2>3, ObservePlanningRow
    <3> HIDE DEF p
    <3> QED
      BY Zenon, <3>1 DEF KeepsRequest, OwnResults
  <2> HIDE DEF p
  <2>7. CASE p.changed
    <3>1. /\ next.key = p.row.key /\ next.rev = p.row.rev
          /\ next.state \notin {Ready, Running, Importing}
          /\ next.state = Observed => undecided(p.results, p.row)
      <4>1. next = replanned(p.results, p.row, due)
        BY Zenon, <2>7
      <4> QED
        BY <2>5, <2>6, <4>1, ReplannedDecision
    <3>2. next \in Row
      BY Zenon, <2>6, <2>7, ReplannedRow DEF KeepsRequest
    <3> HIDE DEF next
    <3>3. last.key = next.key /\ last.rev = next.rev /\ last.state = next.state
      BY Zenon, <3>2 DEF Row
    <3> HIDE DEF last
    <3>4. DecisionRow(last, p.results)
      BY Zenon, <2>5, <3>1, <3>3 DEF DecisionRow, undecided
    <3> QED
      BY <2>1, <3>4
  <2>8. CASE ~p.changed
    <3>1. next = p.row
      BY Zenon, <2>8
    <3> HIDE DEF next
    <3>2. /\ last.key = p.row.key /\ last.rev = p.row.rev /\ last.state = p.row.state
          /\ last.action = p.row.action /\ last.plan = p.row.plan
      BY Zenon, <2>6, <3>1 DEF Row
    <3>3. last.state = Ready => last.src = p.row.src
      <4>1. CASE PlanningKey[seen.src] = NoKey
        BY Zenon, <2>5, <2>6, <2>8, <3>1, <4>1 DEF Row
      <4>2. CASE PlanningKey[seen.src] # NoKey
        BY Zenon, <2>6, <2>8, <3>1, <3>2, <4>2 DEF keepsEvidence
      <4> QED
        BY Zenon, <4>1, <4>2
    <3> HIDE DEF last
    <3>4. last.state \notin {Running, Importing}
      BY Zenon, <1>3, <2>2, <2>6, <3>2 DEF active
    <3>5. last.state = Ready /\ last.action = NoAction =>
             last.plan = [src |-> last.src, rev |-> last.rev]
      <4>1. listed.state = Ready /\ listed.action = NoAction =>
               listed.plan = [src |-> listed.src, rev |-> listed.rev]
        BY Zenon, <2>4 DEF DecisionRow
      <4> QED
        BY ZenonT(60), <2>5, <2>6, <3>2, <3>3, <4>1
    <3>6. last.state = Observed => undecided(p.results, last)
      BY Zenon, <2>5, <2>6, <2>8, <3>2 DEF undecided
    <3>7. DecisionRow(last, p.results)
      BY Zenon, <2>5, <3>2, <3>4, <3>5, <3>6 DEF DecisionRow
    <3> QED
      BY <2>1, <3>7
  <2> QED
    BY Zenon, <2>7, <2>8
<1> QED
  BY Zenon, <1>1, <1>2, <1>3

-----------------------------------------------------------------------------
(* Every step keeps the rows *)

RowsKept == \A j \in Jobs : RowKept(jobs[j], jobs'[j], attempt'[j], results'[j])

\* What SafetyInv says of one row
LEMMA RowTypes ==
    ASSUME SafetyInv, NEW j \in Jobs
    PROVE  /\ jobs[j] \in Row /\ attempt[j] \in Attempt /\ results[j] \in SUBSET Result
           /\ RowInv(jobs[j], attempt[j], results[j])
<1>1. RowInv(jobs[j], attempt[j], results[j])
  BY Zenon, RowsInv DEF SafetyInv
<1> QED
  BY Zenon, <1>1 DEF SafetyInv, TypeOK

\* A step that leaves the database alone
LEMMA SameRows ==
    ASSUME SafetyInv, UNCHANGED database
    PROVE  RowsKept
  BY Zenon, RowTypes DEF database, RowsKept, RowKept

\* A transaction on the row of one job
LEMMA OneRow ==
    ASSUME SafetyInv, NEW i \in Jobs, RowKept(jobs[i], jobs'[i], attempt'[i], results'[i]),
           \A j \in Jobs \ {i} : /\ jobs'[j] = jobs[j] /\ attempt'[j] = attempt[j]
                                 /\ results'[j] = results[j]
    PROVE  RowsKept
<1> SUFFICES ASSUME NEW j \in Jobs
             PROVE  RowKept(jobs[j], jobs'[j], attempt'[j], results'[j])
  BY Zenon DEF RowsKept
<1>1. CASE j = i
  BY Zenon, <1>1
<1>2. CASE j # i
  BY Zenon, <1>2, RowTypes DEF RowKept
<1> QED
  BY Zenon, <1>1, <1>2

\* UpdateAttempt by the engine
LEMMA SavedRows ==
    ASSUME SafetyInv, cur \in Jobs, NEW a \in Attempt, SaveAttempt(a), results' = results,
           a.state \in AttemptStates \ {Absent}
    PROVE  RowsKept
<1>1. CASE mayUpdateAttempt(attempt[cur], a)
  <2>1. RowKept(jobs[cur], UpdateAttempt(jobs[cur], a), a, results[cur])
    BY Zenon, <1>1, RowTypes, SaveKeeps
  <2>2. /\ attempt' = [attempt EXCEPT ![cur] = a]
        /\ jobs' = [jobs EXCEPT ![cur] = UpdateAttempt(jobs[cur], a)]
    BY Zenon, <1>1 DEF SaveAttempt
  <2>3. attempt \in [Jobs -> Attempt] /\ jobs \in [Jobs -> Row]
    BY Zenon DEF SafetyInv, TypeOK
  <2> QED
    BY Zenon, <2>1, <2>2, <2>3, OneRow
<1>2. CASE ~mayUpdateAttempt(attempt[cur], a)
  BY Zenon, <1>2, SameRows DEF SaveAttempt, database
<1> QED
  BY Zenon, <1>1, <1>2

\* The observation keeps the rows.
LEMMA ObservationRows ==
    ASSUME SafetyInv, Observation
    PROVE  RowsKept
<1>1. TypeOK
  BY Zenon DEF SafetyInv
<1>2. CASE ObserveQueue \/ Collect \/ ObservationFails \/ ListComplete \/ EndCleanup
  BY Zenon, <1>2, SameRows
     DEF ObserveQueue, Collect, ObservationFails, ListComplete, EndCleanup
<1>3. CASE Reconcile
  <2> SUFFICES ASSUME NEW j \in Jobs
               PROVE  RowKept(jobs[j], jobs'[j], attempt'[j], results'[j])
    BY Zenon DEF RowsKept
  <2>1. /\ jobs'[j] = ReconcileQueue(jobs[j], j \in obs.queue)
        /\ attempt' = attempt /\ results' = results
    BY Zenon, <1>3 DEF Reconcile
  <2>2. (j \in obs.queue) \in BOOLEAN
    BY SMTT(60)
  <2>3. RowKept(jobs[j], ReconcileQueue(jobs[j], j \in obs.queue), attempt[j], results[j])
    BY Zenon, <2>2, RowTypes, ReconcileKeeps
  <2> QED
    BY Zenon, <2>1, <2>3
<1>4. ASSUME NEW j \in Jobs, ObserveJob(j) PROVE RowsKept
  <2>1. PICK due \in BOOLEAN :
           /\ jobs' = [jobs EXCEPT ![j] =
                          Observe(results[j], jobs[j], obs.seen[j], due).row]
           /\ results' = [results EXCEPT ![j] =
                             Observe(results[j], jobs[j], obs.seen[j], due).results]
    BY Zenon, <1>4 DEF ObserveJob
  <2>2. obs.seen[j] \in Seen
    BY Zenon, <1>1 DEF TypeOK
  <2>3. RowKept(jobs[j], Observe(results[j], jobs[j], obs.seen[j], due).row, attempt[j],
                Observe(results[j], jobs[j], obs.seen[j], due).results)
    BY Zenon, <2>2, RowTypes, ObserveKeeps
  <2>4. attempt' = attempt
    BY Zenon, <1>4 DEF ObserveJob
  <2> QED
    BY Zenon, <1>1, <2>1, <2>3, <2>4, OneRow DEF TypeOK
<1>5. ASSUME NEW j \in Jobs, RequestCleanup(j) PROVE RowsKept
  <2>1. CASE UNCHANGED jobs
    BY Zenon, <1>5, <2>1, SameRows DEF RequestCleanup, database
  <2>2. CASE mayRequest(jobs[j], Delete)
             /\ jobs' = [jobs EXCEPT ![j] = requestAction(jobs[j], Delete)]
    <3>1. RowKept(jobs[j], requestAction(jobs[j], Delete), attempt[j], results[j])
      BY Zenon, <2>2, RowTypes, RequestKeeps
    <3> QED
      BY SMTT(60), <1>1, <1>5, <2>2, <3>1, OneRow DEF RequestCleanup, TypeOK
  <2> QED
    BY Zenon, <1>5, <2>1, <2>2 DEF RequestCleanup
<1> QED
  BY Zenon, <1>2, <1>3, <1>4, <1>5 DEF Observation

\* Planning keeps the rows.
LEMMA AdvanceRows ==
    ASSUME SafetyInv, Advance
    PROVE  RowsKept
<1>1. TypeOK /\ EngineInv
  BY Zenon DEF SafetyInv
<1>2. CASE ListJobs \/ EndPass \/ PlanLost \/ \E j \in Jobs : AdvanceJob(j)
  BY Zenon, <1>2, SameRows DEF ListJobs, EndPass, PlanLost, AdvanceJob
<1>3. ASSUME NEW o \in {"error", "no repair", "repair"}, Plan(o) PROVE RowsKept
  <2> DEFINE row == planned(held, o)
             saved == FinishPlanning(jobs[cur], row)
  <2>1. cur \in Jobs /\ held \in Row /\ held.src # NoSource /\ held.state = Observed
    BY Zenon, <1>1, <1>3 DEF Plan, EngineInv, TypeOK
  <2>2. row \in Row /\ row.state \in {Observed, Ready, Blocked}
    BY Zenon, <2>1, PlannedRow
  <2>3. CASE UNCHANGED <<jobs, results>>
    BY Zenon, <1>3, <2>3, SameRows DEF Plan, database
  <2>4. CASE /\ mayFinishPlanning(jobs[cur], row)
             /\ jobs' = [jobs EXCEPT ![cur] = saved]
             /\ results' = [results EXCEPT ![cur] = rememberPlanning(results[cur], saved)]
    <3>1. RowKept(jobs[cur], saved, attempt[cur], rememberPlanning(results[cur], saved))
      <4> HIDE DEF row
      <4> QED
        BY Zenon, <2>1, <2>2, <2>4, RowTypes, PlanningKeeps
    <3> HIDE DEF row, saved
    <3>2. attempt' = attempt
      BY Zenon, <1>3 DEF Plan
    <3> QED
      BY Zenon, <1>1, <2>1, <2>4, <3>1, <3>2, OneRow DEF TypeOK
  <2> QED
    BY Zenon, <1>3, <2>3, <2>4 DEF Plan
<1> QED
  BY Zenon, <1>2, <1>3 DEF Advance

\* A write that ends the work on a job keeps the rows.
LEMMA SavedAndReturnedRows ==
    ASSUME SafetyInv, cur \in Jobs, NEW a \in Attempt, SaveAndReturn(a),
           a.state \in AttemptStates \ {Absent}
    PROVE  RowsKept
  BY Zenon, SavedRows, SameRows DEF SaveAndReturn, database

\* The attempts the engine saves
LEMMA AttemptTypes ==
    ASSUME NEW a \in Attempt, NEW state \in States
    PROVE  /\ [a EXCEPT !.state = state] \in Attempt
           /\ [a EXCEPT !.state = state].state = state
           /\ [a EXCEPT !.terminal = TRUE] \in Attempt
           /\ [a EXCEPT !.terminal = TRUE].state = a.state
  BY Zenon DEF Attempt

\* Engine.Run keeps the rows.
LEMMA EngineRows ==
    ASSUME SafetyInv, Engine
    PROVE  RowsKept
<1>1. TypeOK /\ EngineInv
  BY Zenon DEF SafetyInv
<1> USE DEF AttemptStates
<1>2. CASE RunReady \/ RunImporting \/ RunNothing \/ Authorize \/ Submit
  BY Zenon, <1>2, SameRows DEF RunReady, RunImporting, RunNothing, Authorize, Submit
<1>3. CASE RunInterrupted
  <2>1. cur \in Jobs
    BY Zenon, <1>1, <1>3 DEF RunInterrupted, EngineInv
  <2>2. [attempt[cur] EXCEPT !.state = Failed] \in Attempt
        /\ [attempt[cur] EXCEPT !.state = Failed].state = Failed
    <3>1. attempt[cur] \in Attempt /\ Failed \in States
      BY Zenon, <1>1, <2>1 DEF TypeOK, States
    <3> QED
      BY Zenon, <3>1, AttemptTypes
  <2> QED
    BY Zenon, <1>3, <2>1, <2>2, SavedAndReturnedRows DEF RunInterrupted
<1>4. CASE StartAttempt
  <2>1. cur \in Jobs
    BY Zenon, <1>1, <1>4 DEF StartAttempt, EngineInv
  <2>2. CASE UNCHANGED <<attempt, jobs>>
    BY Zenon, <1>4, <2>2, SameRows DEF StartAttempt, database
  <2>3. CASE /\ mayStart(jobs[cur])
             /\ attempt' = [attempt EXCEPT ![cur] = startedAttempt(jobs[cur], attempt[cur])]
             /\ jobs' = [jobs EXCEPT ![cur] = Start(jobs[cur])]
    <3>1. RowKept(jobs[cur], Start(jobs[cur]), startedAttempt(jobs[cur], attempt[cur]),
                  results[cur])
      BY Zenon, <2>1, <2>3, RowTypes, StartKeeps
    <3>2. results' = results
      BY Zenon, <1>4 DEF StartAttempt
    <3> QED
      BY Zenon, <1>1, <2>1, <2>3, <3>1, <3>2, OneRow DEF TypeOK
  <2> QED
    BY Zenon, <1>4, <2>2, <2>3 DEF StartAttempt
<1>5. CASE AuthorizeBlocked
  <2>1. cur \in Jobs
    BY Zenon, <1>1, <1>5 DEF AuthorizeBlocked, EngineInv
  <2>2. [draft EXCEPT !.state = Blocked] \in Attempt
        /\ [draft EXCEPT !.state = Blocked].state = Blocked
    <3>1. draft \in Attempt /\ Blocked \in States
      BY Zenon, <1>1 DEF TypeOK, States
    <3> QED
      BY Zenon, <3>1, AttemptTypes
  <2> QED
    BY Zenon, <1>5, <2>1, <2>2, SavedAndReturnedRows DEF AuthorizeBlocked
<1>6. CASE RepairFails
  <2>1. cur \in Jobs
    BY Zenon, <1>1, <1>6 DEF RepairFails, EngineInv
  <2>2. [draft EXCEPT !.state = Failed] \in Attempt
        /\ [draft EXCEPT !.state = Failed].state = Failed
    <3>1. draft \in Attempt /\ Failed \in States
      BY Zenon, <1>1 DEF TypeOK, States
    <3> QED
      BY Zenon, <3>1, AttemptTypes
  <2> QED
    BY Zenon, <1>6, <2>1, <2>2, SavedRows DEF RepairFails
<1>7. CASE PersistIntent
  <2> DEFINE a == [draft EXCEPT !.state = Importing, !.before = history(cur)]
  <2>1. cur \in Jobs
    BY Zenon, <1>1, <1>7 DEF PersistIntent, EngineInv
  <2>2. a \in Attempt /\ a.state = Importing
    <3>1. history(cur) \in SUBSET Nat
      BY <1>1 DEF history, TypeOK, Command
    <3>2. draft \in Attempt /\ Importing \in States
      BY Zenon, <1>1 DEF TypeOK, States
    <3> QED
      BY Zenon, <3>1, <3>2 DEF Attempt
  <2>3. (SaveAttempt(a) \/ UNCHANGED <<attempt, jobs>>) /\ results' = results
    BY Zenon, <1>7 DEF PersistIntent
  <2> HIDE DEF a
  <2> QED
    BY Zenon, <2>1, <2>2, <2>3, SavedRows, SameRows DEF database
<1>8. CASE RecordCommand
  <2>1. cur \in Jobs /\ draft \in Attempt /\ draft.state = Importing
    BY Zenon, <1>1, <1>8 DEF RecordCommand, EngineInv, TypeOK
  <2>2. (SaveAttempt(draft) \/ UNCHANGED <<attempt, jobs>>) /\ results' = results
    BY Zenon, <1>8 DEF RecordCommand
  <2> QED
    BY Zenon, <2>1, <2>2, SavedRows, SameRows DEF database
<1>9. ASSUME pc \in {"check", "status"}
      PROVE  /\ cur \in Jobs /\ draft \in Attempt /\ draft.state = Importing
             /\ [draft EXCEPT !.state = Imported].state = Imported
             /\ [draft EXCEPT !.state = Imported] \in Attempt
             /\ [draft EXCEPT !.state = Failed].state = Failed
             /\ [draft EXCEPT !.state = Failed] \in Attempt
             /\ [draft EXCEPT !.terminal = TRUE].state = Importing
             /\ [draft EXCEPT !.terminal = TRUE] \in Attempt
  <2>1. cur \in Jobs /\ draft \in Attempt /\ draft.state = Importing
    BY Zenon, <1>1, <1>9 DEF EngineInv, TypeOK
  <2>2. Imported \in States /\ Failed \in States
    BY Zenon DEF States
  <2> QED
    BY Zenon, <2>1, <2>2, AttemptTypes
<1>10. CASE CheckHistory
  BY Zenon, <1>9, <1>10, SavedAndReturnedRows, SameRows DEF CheckHistory
<1>11. CASE CheckCommand
  BY Zenon, <1>9, <1>11, SavedAndReturnedRows, SameRows DEF CheckCommand
<1>12. CASE GiveUpImport
  BY Zenon, <1>9, <1>12, SavedAndReturnedRows DEF GiveUpImport
<1> QED
  BY Zenon, <1>2, <1>3, <1>4, <1>5, <1>6, <1>7, <1>8, <1>10, <1>11, <1>12 DEF Engine

\* The operator's handlers keep the rows.
LEMMA OperatorRows ==
    ASSUME SafetyInv, Operator
    PROVE  RowsKept
<1>1. TypeOK /\ AnswerInv
  BY Zenon DEF SafetyInv
<1>2. ASSUME NEW j \in Jobs, NEW a \in {Reconsider, Delete}, mayRequest(jobs[j], a),
             jobs' = [jobs EXCEPT ![j] = requestAction(jobs[j], a)],
             UNCHANGED <<results, attempt>>
      PROVE  RowsKept
  <2>1. RowKept(jobs[j], requestAction(jobs[j], a), attempt[j], results[j])
    BY Zenon, <1>2, RowTypes, RequestKeeps
  <2> QED
    BY Zenon, <1>1, <1>2, <2>1, OneRow DEF TypeOK
<1>3. CASE \E j \in Jobs : OpenPage(j) \/ ReadAnswer(j)
  BY Zenon, <1>3, SameRows DEF OpenPage, ReadAnswer
<1>4. ASSUME NEW j \in Jobs, NEW a \in {Reconsider, Delete}, PostAction(j, a) PROVE RowsKept
  BY Zenon, <1>2, <1>4 DEF PostAction
<1>5. CASE PostAnswer
  <2>1. answer.job \in Jobs
    BY Zenon, <1>1, <1>5 DEF PostAnswer, AnswerInv
  <2> QED
    BY Zenon, <1>2, <1>5, <2>1, SameRows DEF PostAnswer, database
<1> QED
  BY Zenon, <1>3, <1>4, <1>5 DEF Operator

\* Servarr, the files and the clock keep the rows.
LEMMA EnvironmentRows ==
    ASSUME SafetyInv, Environment
    PROVE  RowsKept
<1>1. TypeOK
  BY Zenon DEF SafetyInv
<1>2. CASE ToggleDisabled \/ CommandStep \/ \E j \in Jobs : SourceChanges(j) \/ QueueChanges(j)
  BY Zenon, <1>2, SameRows DEF ToggleDisabled, CommandStep, SourceChanges, QueueChanges
<1>3. ASSUME NEW j \in Jobs, RetryDue(j) \/ Stabilizes(j) PROVE RowsKept
  <2>1. /\ RowKept(jobs[j], [jobs[j] EXCEPT !.retry = FALSE], attempt[j], results[j])
        /\ RowKept(jobs[j], [jobs[j] EXCEPT !.stable = TRUE], attempt[j], results[j])
    BY Zenon, RowTypes, ClockKeeps
  <2>2. \/ jobs' = [jobs EXCEPT ![j] = [jobs[j] EXCEPT !.retry = FALSE]]
        \/ jobs' = [jobs EXCEPT ![j] = [jobs[j] EXCEPT !.stable = TRUE]]
    BY Zenon, <1>3 DEF RetryDue, Stabilizes
  <2>3. UNCHANGED <<results, attempt>>
    BY Zenon, <1>3 DEF RetryDue, Stabilizes
  <2>4. RowKept(jobs[j], jobs'[j], attempt'[j], results'[j])
    BY Zenon, <1>1, <2>1, <2>2, <2>3 DEF TypeOK
  <2>5. \A i \in Jobs \ {j} : jobs'[i] = jobs[i]
    BY Zenon, <1>1, <2>2 DEF TypeOK
  <2> QED
    BY Zenon, <2>3, <2>4, <2>5, OneRow
<1> QED
  BY Zenon, <1>2, <1>3 DEF Environment

\* The end of a removal is the one step that takes a row out of Removing.
LEMMA RemovalRows ==
    ASSUME SafetyInv, Removal
    PROVE  /\ \A j \in Jobs : RowInv(jobs'[j], attempt'[j], results'[j])
           /\ RemovalInv'
<1>1. TypeOK /\ RemovalInv
  BY Zenon DEF SafetyInv
<1>2. CASE ListRemovals \/ EndRemovals \/ RemoveTracking
  <2>1. RowsKept
    BY Zenon, <1>2, SameRows DEF ListRemovals, EndRemovals, RemoveTracking
  <2>2. RemovalInv'
    BY Zenon, <1>1, <1>2 DEF ListRemovals, EndRemovals, RemoveTracking, RemovalInv, database
  <2> QED
    BY Zenon, <2>1, <2>2 DEF RowsKept, RowKept
<1>3. ASSUME NEW j \in Jobs, BeginRemoval(j)
      PROVE  (\A i \in Jobs : RowInv(jobs'[i], attempt'[i], results'[i])) /\ RemovalInv'
  <2>1. CASE UNCHANGED jobs /\ apc' \in {"idle", "pick"}
    <3>1. RowsKept
      BY Zenon, <1>3, <2>1, SameRows DEF BeginRemoval, database
    <3> QED
      BY Zenon, <2>1, <3>1 DEF RowsKept, RowKept, RemovalInv
  <2>2. CASE /\ mayStartRemoval(jobs[j])
             /\ jobs' = [jobs EXCEPT ![j] = StartRemoval(jobs[j])]
             /\ requested' = [job |-> j, row |-> StartRemoval(jobs[j])]
    <3>1. /\ RowKept(jobs[j], StartRemoval(jobs[j]), attempt[j], results[j])
          /\ StartRemoval(jobs[j]).state = Removing
      BY Zenon, <2>2, RowTypes, RemovalKeeps
    <3>2. RowsKept
      BY Zenon, <1>1, <1>3, <2>2, <3>1, OneRow DEF BeginRemoval, TypeOK
    <3>3. RemovalInv'
      BY Zenon, <1>1, <2>2, <3>1 DEF RemovalInv, TypeOK
    <3> QED
      BY Zenon, <3>2, <3>3 DEF RowsKept, RowKept
  <2> QED
    BY Zenon, <1>3, <2>1, <2>2 DEF BeginRemoval
<1>4. CASE EndRemoval
  <2>1. requested.job \in Jobs /\ jobs[requested.job].state = Removing /\ failure \in BOOLEAN
    BY Zenon, <1>1, <1>4 DEF EndRemoval, RemovalInv, TypeOK
  <2>2. RowInv(FinishRemoval(jobs[requested.job], failure), attempt[requested.job],
               results[requested.job])
    BY Zenon, <2>1, RowTypes, RemovalKeeps
  <2>3. jobs' = jobs \/ jobs' = [jobs EXCEPT ![requested.job] =
                                   FinishRemoval(jobs[requested.job], failure)]
    BY Zenon, <1>4 DEF EndRemoval
  <2>4. ASSUME NEW j \in Jobs PROVE RowInv(jobs'[j], attempt'[j], results'[j])
    <3>1. attempt' = attempt /\ results' = results
      BY Zenon, <1>4 DEF EndRemoval
    <3> QED
      BY Zenon, <1>1, <2>1, <2>2, <2>3, <3>1, RowTypes DEF TypeOK
  <2>5. RemovalInv'
    BY Zenon, <1>4 DEF EndRemoval, RemovalInv
  <2> QED
    BY Zenon, <2>4, <2>5
<1> QED
  BY Zenon, <1>2, <1>3, <1>4 DEF Removal

\* Every step keeps the row invariants, and the job the actions goroutine works
\* on stays Removing.
LEMMA RowsStep ==
    ASSUME SafetyInv, [Next]_vars
    PROVE  (AttemptInv /\ PendingActionServed /\ ResultsInv)' /\ RemovalInv'
<1>1. CASE Removal
  <2>1. \A j \in Jobs : RowInv(jobs'[j], attempt'[j], results'[j])
    BY Zenon, <1>1, RemovalRows
  <2>2. (AttemptInv /\ PendingActionServed /\ ResultsInv)'
    BY Zenon, <2>1 DEF AttemptInv, JobMatchesAttempt, PendingActionServed, ResultsInv, RowInv
  <2> QED
    BY Zenon, <1>1, <2>2, RemovalRows
<1>2. CASE ~Removal
  <2>1. RowsKept
    <3>1. CASE UNCHANGED vars \/ Crash
      BY Zenon, <3>1, SameRows DEF vars, Crash
    <3> QED
      BY Zenon, <1>2, <3>1, ObservationRows, AdvanceRows, EngineRows, OperatorRows,
         EnvironmentRows DEF Next
  <2>2. (AttemptInv /\ PendingActionServed /\ ResultsInv)'
    BY Zenon, <2>1 DEF RowsKept, RowKept, RowInv, AttemptInv, JobMatchesAttempt,
                          PendingActionServed, ResultsInv
  <2>3. apc' = "idle" \/ UNCHANGED actions
    <3>1. CASE Observation
      BY Zenon, <3>1 DEF Observation, ObserveQueue, Collect, ObservationFails, Reconcile,
                              ObserveJob, RequestCleanup, ListComplete, EndCleanup
    <3>2. CASE Advance
      BY Zenon, <3>2 DEF Advance, ListJobs, EndPass, AdvanceJob, Plan, PlanLost
    <3>3. CASE Engine
      BY Zenon, <3>3 DEF Engine, RunReady, RunInterrupted, RunImporting, RunNothing,
                            StartAttempt, Authorize, AuthorizeBlocked, RepairFails, PersistIntent,
                            Submit, RecordCommand, CheckHistory, CheckCommand, GiveUpImport
    <3>4. CASE Operator \/ Environment
      BY Zenon, <3>4 DEF Operator, OpenPage, ReadAnswer, PostAction, PostAnswer, Environment,
                  SourceChanges, QueueChanges, RetryDue, Stabilizes, ToggleDisabled,
                  CommandStep
    <3>5. CASE Crash \/ UNCHANGED vars
      BY Zenon, <3>5 DEF Crash, vars
    <3> QED
      BY Zenon, <1>2, <3>1, <3>2, <3>3, <3>4, <3>5 DEF Next
  <2>4. RemovalInv'
    BY Zenon, <2>1, <2>3 DEF SafetyInv, RemovalInv, RowsKept, RowKept, actions
  <2> QED
    BY Zenon, <2>2, <2>4
<1> QED
  BY Zenon, <1>1, <1>2
=============================================================================
