------------------------------- MODULE Repairr -------------------------------
(***************************************************************************)
(* One service (Radarr or Lidarr) of the Repairr daemon: the scheduler's   *)
(* main goroutine (observe, plan, repair, import), its actions goroutine   *)
(* (queue removal), the operator's HTTP handlers and the Servarr server    *)
(* they talk to, over the job database of module JobStore.                 *)
(*                                                                         *)
(* Database transactions and single HTTP calls are steps; everything a     *)
(* goroutine holds between two of them is a variable, so that it can be    *)
(* stale when it is used.  The process may crash between any two steps.    *)
(***************************************************************************)
EXTENDS JobStore

CONSTANTS Jobs, NoJob,
          Lidarr,       \* TRUE: the Lidarr adapter, FALSE: the Radarr one
          Legacy,       \* jobs stored before planning fingerprints existed
          MaxRevision,  \* bound: operator and cleanup requests per job
          MaxAttempts,  \* bound: repair attempts per job
          MaxFaults,    \* bound: crashes, lost calls, failed writes
          MaxChanges    \* bound: changes of the queue, files and disable file

ASSUME RepairrAssumption ==
    /\ NoJob \notin Jobs
    /\ Lidarr \in BOOLEAN
    /\ \A row \in Legacy : /\ row \in Row /\ row.action = NoAction /\ row.rev = 0
                            /\ row.state \in {Observed, Blocked}
    /\ MaxRevision \in Nat /\ MaxAttempts \in Nat
    /\ MaxFaults \in Nat /\ MaxChanges \in Nat

VARIABLES
    \* the database
    jobs, results, attempt,
    \* the main goroutine: step, job at hand, List snapshot and what is left of
    \* it, the disable file as read, the observation, the engine's copies of the job and its attempt
    pc, cur, list, off, todo, obs, held, draft,
    \* the actions goroutine
    apc, atodo, requested, failure,
    \* the operator: the page open for a job, the answer being handled
    page, answer,
    \* Servarr and the downloads
    source, queued, disabled, commands, posts,
    \* what the planner has been paid for since the operator's last request
    decided,
    \* bounds
    faults, changes

database == <<jobs, results, attempt>>
engine   == <<pc, cur, list, off, todo, obs, held, draft>>
actions  == <<apc, atodo, requested, failure>>
operator == <<page, answer>>
world    == <<source, queued, disabled, commands, posts>>
vars     == <<database, engine, actions, operator, world, decided,
              faults, changes>>

Seen == [src : Sources \cup {NoSource}, err : BOOLEAN]
Unseen == [src |-> NoSource, err |-> FALSE]
NoObservation == [queue |-> {}, complete |-> {}, seen |-> [j \in Jobs |-> Unseen]]

NoPage == [open |-> FALSE, rev |-> 0, src |-> NoSource]
NoAnswer == [job |-> NoJob, row |-> NoRow]

\* An import command Servarr accepted for attempt num of a job; files says
\* whether the files are in the library and whether history shows it.
Command == [job : Jobs, num : Nat, post : Nat, ended : BOOLEAN,
            files : {"out", "in", "listed"}]

\* History records of a job's imports, identified by their attempt
history(j) == {c.num : c \in {d \in commands : d.job = j /\ d.files = "listed"}}

-----------------------------------------------------------------------------
Init ==
    /\ jobs \in [Jobs -> {NoRow} \cup Legacy]
    /\ attempt = [j \in Jobs |-> NoAttempt]
    /\ results = [j \in Jobs |-> {}]
    /\ pc = "idle" /\ cur = NoJob /\ list = [j \in Jobs |-> NoRow]
    /\ off = FALSE /\ todo = {} /\ obs = NoObservation /\ held = NoRow /\ draft = NoAttempt
    /\ apc = "idle" /\ atodo = {} /\ requested = NoAnswer /\ failure = FALSE
    /\ page = [j \in Jobs |-> NoPage] /\ answer = NoAnswer
    /\ source \in [Jobs -> Sources]
    /\ queued = [j \in Jobs |-> TRUE]
    /\ disabled = FALSE
    /\ commands = {} /\ posts = [j \in Jobs |-> 0]
    /\ decided = [j \in Jobs |-> {}]
    /\ faults = 0 /\ changes = 0

Fault == faults < MaxFaults /\ faults' = faults + 1

-----------------------------------------------------------------------------
(* The main goroutine: observation *)

\* Service.Observe, first half: the job list and the queue
ObserveQueue ==
    /\ pc = "idle"
    /\ pc' = "collect"
    /\ list' = jobs
    /\ obs' = [NoObservation EXCEPT !.queue = {j \in Jobs : queued[j]}]
    /\ UNCHANGED <<database, cur, off, todo, held, draft, actions, operator, world,
                   decided, faults, changes>>

\* Lidarr does not inspect a download it is importing or has imported.
inspects(row) == ~(Lidarr /\ row.state \in {Running, Importing, Imported})

\* What Inspect may return for a job of the queue that was read
inspections(j) ==
    IF ~inspects(list[j]) THEN {Unseen}
    ELSE (IF queued[j] THEN {[src |-> source[j], err |-> FALSE]} ELSE {})
         \cup (IF faults < MaxFaults \/ ~queued[j]
               THEN {[src |-> NoSource, err |-> TRUE]} ELSE {})

\* Service.Observe, second half: the finalization candidates and the inspection
\* of every entry
Collect ==
    /\ pc = "collect"
    /\ \E complete \in SUBSET {j \in Jobs : queued[j]},
          seen \in [obs.queue -> Seen] :
          /\ \A j \in obs.queue : seen[j] \in inspections(j)
          /\ obs' = [obs EXCEPT
                        !.complete = complete,
                        !.seen = [j \in Jobs |->
                            IF j \in obs.queue THEN seen[j] ELSE Unseen]]
          /\ faults' = IF \E j \in obs.queue : seen[j].err /\ queued[j]
                       THEN faults + 1 ELSE faults
    /\ pc' = "reconcile"
    /\ UNCHANGED <<database, cur, list, off, todo, held, draft, actions, operator,
                   world, decided, changes>>

\* A failing call or transaction ends the observation where it is.
ObservationFails ==
    /\ pc \in {"collect", "reconcile", "observe", "cleanup"}
    /\ Fault
    /\ pc' = "advance"
    /\ list' = [j \in Jobs |-> NoRow] /\ todo' = {} /\ obs' = NoObservation
    /\ UNCHANGED <<database, cur, off, held, draft, actions, operator, world,
                   decided, changes>>

Reconcile ==
    /\ pc = "reconcile"
    /\ jobs' = [j \in Jobs |-> ReconcileQueue(jobs[j], j \in obs.queue)]
    /\ pc' = "observe"
    /\ todo' = obs.queue
    /\ list' = [j \in Jobs |-> NoRow]
    /\ UNCHANGED <<results, attempt, cur, off, obs, held, draft, actions, operator,
                   world, decided, faults, changes>>

ObserveJob(j) ==
    /\ pc = "observe" /\ j \in todo
    /\ \E due \in BOOLEAN :
          LET o == Observe(results[j], jobs[j], obs.seen[j], due)
          IN  /\ jobs' = [jobs EXCEPT ![j] = o.row]
              /\ results' = [results EXCEPT ![j] = o.results]
    /\ todo' = todo \ {j}
    /\ UNCHANGED <<attempt, pc, cur, list, off, obs, held, draft, actions, operator,
                   world, decided, faults, changes>>

\* requestCompletedRemovals: the disable file and a fresh List
ListComplete ==
    /\ pc = "observe" /\ todo = {}
    /\ pc' = IF disabled THEN "advance" ELSE "cleanup"
    /\ todo' = IF disabled THEN {}
               ELSE {j \in obs.complete : /\ jobs[j].state \notin {Absent, Removed}
                                          /\ jobs[j].action = NoAction}
    /\ obs' = NoObservation
    /\ UNCHANGED <<database, cur, list, off, held, draft, actions, operator, world,
                   decided, faults, changes>>

RequestCleanup(j) ==
    /\ pc = "cleanup" /\ j \in todo
    /\ jobs' = IF mayRequest(jobs[j], Delete) /\ jobs[j].rev < MaxRevision
               THEN [jobs EXCEPT ![j] = requestAction(@, Delete)] ELSE jobs
    /\ todo' = todo \ {j}
    /\ UNCHANGED <<results, attempt, pc, cur, list, off, obs, held, draft, actions,
                   operator, world, decided, faults, changes>>

EndCleanup ==
    /\ pc = "cleanup" /\ todo = {}
    /\ pc' = "advance"
    /\ UNCHANGED <<database, cur, list, off, todo, obs, held, draft, actions,
                   operator, world, decided, faults, changes>>

-----------------------------------------------------------------------------
(* The main goroutine: advancing the jobs of one List *)

\* advance: List, then the disable file, read once for the whole pass
ListJobs ==
    /\ pc \in {"idle", "advance"}
    /\ pc' = "work"
    /\ list' = jobs
    /\ off' = disabled
    /\ todo' = {j \in Jobs : jobs[j].state # Absent}
    /\ UNCHANGED <<database, cur, obs, held, draft, actions, operator, world,
                   decided, faults, changes>>

EndPass ==
    /\ pc = "work" /\ todo = {}
    /\ pc' = "idle"
    /\ list' = [j \in Jobs |-> NoRow] /\ off' = FALSE
    /\ UNCHANGED <<database, cur, todo, obs, held, draft, actions, operator,
                   world, decided, faults, changes>>

\* Radarr waits for an import-pending source to stabilize.
serviceReady(row) == Lidarr \/ row.stable

\* Mutant: a Running job is left to the run that started it.
advanceNotRunning(row) ==
    IF row.state = Importing THEN "run"
    ELSE IF ~row.inQueue \/ row.retry \/ row.action = Delete \/ row.err THEN "work"
    ELSE IF row.state = Observed /\ row.src # NoSource THEN "plan"
    ELSE IF row.state = Ready /\ ~off /\ serviceReady(row) THEN "run"
    ELSE "work"

\* What advanceJob does with the listed row: the next step of the goroutine
advanceStep(row) ==
    IF row.state \in {Importing, Running} THEN "run"
    ELSE IF ~row.inQueue \/ row.retry \/ row.action = Delete \/ row.err THEN "work"
    ELSE IF row.state = Observed /\ row.src # NoSource THEN "plan"
    ELSE IF row.state = Ready /\ ~off /\ serviceReady(row) THEN "run"
    ELSE "work"

AdvanceJob(j) ==
    /\ pc = "work" /\ j \in todo
    /\ pc' = advanceStep(list[j])
    /\ cur' = IF pc' = "work" THEN NoJob ELSE j
    /\ held' = IF pc' = "plan" THEN list[j] ELSE NoRow
    /\ todo' = todo \ {j}
    /\ list' = [list EXCEPT ![j] = NoRow]
    /\ UNCHANGED <<database, off, obs, draft, actions, operator, world, decided,
                   faults, changes>>

\* The goroutine is done with the job at hand.
Return ==
    /\ pc' = "work" /\ cur' = NoJob /\ held' = NoRow /\ draft' = NoAttempt
    /\ UNCHANGED <<list, off, todo, obs>>

\* The row scheduler.plan hands to FinishPlanning
planned(row, outcome) ==
    LET tried == [row EXCEPT !.tries = IF @ < MaxTries THEN @ + 1 ELSE @]
    IN  CASE outcome = "error"     -> [tried EXCEPT !.retry = TRUE]
          [] outcome = "no repair" ->
               [tried EXCEPT !.state = Blocked,
                             !.plan = [src |-> row.src, rev |-> row.rev]]
          [] outcome = "repair"    ->
               [tried EXCEPT !.state = Ready,
                             !.plan = [src |-> row.src, rev |-> row.rev]]

\* The planner has answered; the answer counts only if the row is still the
\* one it was asked about.
Plan(outcome) ==
    /\ pc = "plan"
    /\ IF outcome = "error" THEN Fault ELSE UNCHANGED faults
    /\ LET row == planned(held, outcome)
       IN  IF mayFinishPlanning(jobs[cur], row)
           THEN LET saved == FinishPlanning(jobs[cur], row)
                IN  /\ jobs' = [jobs EXCEPT ![cur] = saved]
                    /\ results' = [results EXCEPT
                                      ![cur] = rememberPlanning(@, saved)]
                    /\ decided' = IF outcome = "error" THEN decided
                                  ELSE [decided EXCEPT ![cur] = @ \cup ({held.key} \ {NoKey})]
           ELSE UNCHANGED <<jobs, results, decided>>
    /\ Return
    /\ UNCHANGED <<attempt, actions, operator, world, changes>>

\* The answer is lost: FinishPlanning could not write.
PlanLost ==
    /\ pc = "plan" /\ Fault /\ Return
    /\ UNCHANGED <<database, actions, operator, world, decided, changes>>

-----------------------------------------------------------------------------
(* The main goroutine: Engine.Run *)

\* UpdateAttempt of the job at hand: the attempt and the job change together
SaveAttempt(a) ==
    IF mayUpdateAttempt(attempt[cur], a)
    THEN /\ attempt' = [attempt EXCEPT ![cur] = a]
         /\ jobs' = [jobs EXCEPT ![cur] = UpdateAttempt(@, a)]
    ELSE UNCHANGED <<attempt, jobs>>

\* A write of the engine that ends its work on the job, or fails
SaveAndReturn(a) ==
    /\ \/ SaveAttempt(a) /\ UNCHANGED faults
       \/ Fault /\ UNCHANGED <<attempt, jobs>>
    /\ Return
    /\ UNCHANGED results

\* Get, and LatestAttempt for a job that is already active: an attempt found
\* Running was interrupted, one found Importing is checked.
RunReady ==
    /\ pc = "run" /\ jobs[cur].state = Ready
    /\ pc' = "start" /\ held' = jobs[cur]
    /\ UNCHANGED <<database, cur, list, off, todo, obs, draft, actions, operator,
                   world, decided, faults, changes>>

\* Mutant: an attempt that was importing counts as interrupted, too.
RunInterruptedImport ==
    /\ pc = "run" /\ jobs[cur].state \in {Running, Importing}
    /\ SaveAndReturn([attempt[cur] EXCEPT !.state = Failed])
    /\ UNCHANGED <<actions, operator, world, decided, changes>>

RunInterrupted ==
    /\ pc = "run" /\ jobs[cur].state \in {Running, Importing}
    /\ attempt[cur].state = Running
    /\ SaveAndReturn([attempt[cur] EXCEPT !.state = Failed])
    /\ UNCHANGED <<actions, operator, world, decided, changes>>

RunImporting ==
    /\ pc = "run" /\ jobs[cur].state \in {Running, Importing}
    /\ attempt[cur].state # Running
    /\ pc' = "check" /\ draft' = attempt[cur]
    /\ UNCHANGED <<database, cur, list, off, todo, obs, held, actions, operator,
                   world, decided, faults, changes>>

RunNothing ==
    /\ pc = "run" /\ jobs[cur].state \notin {Ready, Running, Importing}
    /\ Return
    /\ UNCHANGED <<database, actions, operator, world, decided, faults, changes>>

StartAttempt ==
    /\ pc = "start"
    /\ \/ /\ mayStart(jobs[cur])
          /\ attempt[cur].num < MaxAttempts
          /\ LET a == startedAttempt(jobs[cur], attempt[cur])
             IN  /\ attempt' = [attempt EXCEPT ![cur] = a]
                 /\ draft' = a
          /\ jobs' = [jobs EXCEPT ![cur] = Start(@)]
          /\ pc' = "authorize"
          /\ UNCHANGED <<cur, list, off, todo, obs, held, faults>>
       \/ /\ ~mayStart(jobs[cur]) \/ attempt[cur].num = MaxAttempts
          /\ Return /\ UNCHANGED <<attempt, jobs, faults>>
       \/ Fault /\ Return /\ UNCHANGED <<attempt, jobs>>
    /\ UNCHANGED <<results, actions, operator, world, decided, changes>>

\* Adapter.Repair checks the fresh queue and source against the evidence of the
\* job it was given, then policy, before it touches the media.
sourceUnchanged ==
    queued[cur] /\ source[cur] = held.src /\ serviceReady(held)

Authorize ==
    /\ pc = "authorize" /\ sourceUnchanged
    /\ pc' = "transform"
    /\ UNCHANGED <<database, cur, list, off, todo, obs, held, draft, actions,
                   operator, world, decided, faults, changes>>

\* BlockedError: the evidence no longer matches, or policy rejects the decision
AuthorizeBlocked ==
    /\ pc = "authorize"
    /\ SaveAndReturn([draft EXCEPT !.state = Blocked])
    /\ UNCHANGED <<actions, operator, world, decided, changes>>

\* Any other failure of Repair: a read, the media command, a cancelled context
RepairFails ==
    /\ pc \in {"authorize", "transform"}
    /\ Fault
    /\ SaveAttempt([draft EXCEPT !.state = Failed])
    /\ Return
    /\ UNCHANGED <<results, actions, operator, world, decided, changes>>

\* The import is prepared; the history known now is not its receipt.  The
\* intent is stored before anything is submitted.
PersistIntent ==
    /\ pc = "transform"
    /\ LET a == [draft EXCEPT !.state = Importing, !.before = history(cur)]
       IN  \/ /\ mayUpdateAttempt(attempt[cur], a)
              /\ SaveAttempt(a)
              /\ draft' = a /\ pc' = "submit"
              /\ UNCHANGED <<cur, list, off, todo, obs, held, faults>>
           \/ /\ ~mayUpdateAttempt(attempt[cur], a)
              /\ Return /\ UNCHANGED <<attempt, jobs, faults>>
           \/ Fault /\ Return /\ UNCHANGED <<attempt, jobs>>
    /\ UNCHANGED <<results, actions, operator, world, decided, changes>>

accepted == [job |-> cur, num |-> draft.num, post |-> posts[cur] + 1,
             ended |-> FALSE, files |-> "out"]

\* Mutant: a POST without an answer is repeated.
SubmitAgain ==
    /\ pc = "submit"
    /\ commands' = commands \cup {accepted}
    /\ posts' = [posts EXCEPT ![cur] = @ + 1]
    /\ \/ /\ pc' = "record"
          /\ draft' = [draft EXCEPT !.command = TRUE]
          /\ UNCHANGED faults
       \/ Fault /\ UNCHANGED <<pc, draft>>
    /\ UNCHANGED <<database, cur, list, off, todo, obs, held, actions, operator,
                   source, queued, disabled, decided, changes>>

\* The POST: accepted and answered, accepted with the answer lost, or refused
Submit ==
    /\ pc = "submit" /\ pc' = "record"
    /\ \/ /\ commands' = commands \cup {accepted}
          /\ posts' = [posts EXCEPT ![cur] = @ + 1]
          /\ draft' = [draft EXCEPT !.command = TRUE]
          /\ UNCHANGED faults
       \/ /\ Fault
          /\ commands' = commands \cup {accepted}
          /\ posts' = [posts EXCEPT ![cur] = @ + 1]
          /\ UNCHANGED draft
       \/ Fault /\ UNCHANGED <<commands, posts, draft>>
    /\ UNCHANGED <<database, cur, list, off, todo, obs, held, actions, operator,
                   source, queued, disabled, decided, changes>>

\* The command ID is recorded and the import is checked at once.
RecordCommand ==
    /\ pc = "record"
    /\ \/ /\ mayUpdateAttempt(attempt[cur], draft)
          /\ SaveAttempt(draft)
          /\ pc' = "check"
          /\ UNCHANGED <<cur, list, off, todo, obs, held, draft, faults>>
       \/ /\ ~mayUpdateAttempt(attempt[cur], draft)
          /\ Return /\ UNCHANGED <<attempt, jobs, faults>>
       \/ Fault /\ Return /\ UNCHANGED <<attempt, jobs>>
    /\ UNCHANGED <<results, actions, operator, world, decided, changes>>

-----------------------------------------------------------------------------
(* The main goroutine: Engine.reconcile.  CheckImport reads history first    *)
(* and asks for the command only when history has no receipt.                *)

CheckHistory ==
    /\ pc = "check"
    /\ \/ /\ history(cur) \ draft.before # {}
          /\ SaveAndReturn([draft EXCEPT !.state = Imported])
       \/ /\ history(cur) \subseteq draft.before /\ ~draft.command
          /\ SaveAndReturn(draft)
       \/ /\ history(cur) \subseteq draft.before /\ draft.command
          /\ pc' = "status"
          /\ UNCHANGED <<database, cur, list, off, todo, obs, held, draft, faults>>
       \/ Fault /\ Return /\ UNCHANGED database
    /\ UNCHANGED <<actions, operator, world, decided, changes>>

commandEnded == \E c \in commands : c.job = cur /\ c.num = draft.num /\ c.ended

\* Whether the 30 seconds since ImportTerminalAt are over is the clock's choice
\* (ImportWindow has the clock).  They are long enough for history to show what
\* the command imported: the assumption the code is built on.
graceOver ==
    draft.terminal /\ ~\E c \in commands : c.job = cur /\ c.files = "in"

\* Mutant: ImportTerminalAt is not stored.
CheckCommandForgets ==
    /\ pc = "status"
    /\ SaveAndReturn(draft)
    /\ UNCHANGED <<actions, operator, world, decided, changes>>

CheckCommand ==
    /\ pc = "status"
    /\ \/ ~commandEnded /\ SaveAndReturn(draft)
       \/ commandEnded /\ SaveAndReturn([draft EXCEPT !.terminal = TRUE])
       \/ Fault /\ Return /\ UNCHANGED database
    /\ UNCHANGED <<actions, operator, world, decided, changes>>

GiveUpImport ==
    /\ pc = "status" /\ commandEnded /\ graceOver
    /\ SaveAndReturn([draft EXCEPT !.state = Failed])
    /\ UNCHANGED <<actions, operator, world, decided, changes>>

-----------------------------------------------------------------------------
(* The actions goroutine: removeRequested *)

ListRemovals ==
    /\ apc = "idle"
    /\ atodo' = {j \in Jobs : jobs[j].action = Delete /\ ~jobs[j].retry}
    /\ atodo' # {}
    /\ apc' = "pick"
    /\ UNCHANGED <<database, engine, requested, failure, operator, world, decided,
                   faults, changes>>

EndRemovals ==
    /\ apc = "pick" /\ atodo = {}
    /\ apc' = "idle"
    /\ UNCHANGED <<database, engine, atodo, requested, failure, operator, world,
                   decided, faults, changes>>

BeginRemoval(j) ==
    /\ apc = "pick" /\ j \in atodo
    /\ \/ /\ mayStartRemoval(jobs[j])
          /\ jobs' = [jobs EXCEPT ![j] = StartRemoval(@)]
          /\ requested' = [job |-> j, row |-> StartRemoval(jobs[j])]
          /\ apc' = "remove"
          /\ atodo' = atodo \ {j}
          /\ UNCHANGED faults
       \/ /\ ~mayStartRemoval(jobs[j])
          /\ atodo' = atodo \ {j}
          /\ UNCHANGED <<jobs, requested, apc, faults>>
       \/ /\ Fault
          /\ apc' = "idle" /\ atodo' = {}
          /\ UNCHANGED <<jobs, requested>>
    /\ UNCHANGED <<results, attempt, engine, failure, operator, world, decided,
                   changes>>

\* RemoveTracking: an absent entry counts as removed; a present one is deleted
\* and must be gone afterwards.  The delete may succeed with its answer lost.
RemoveTracking ==
    /\ apc = "remove" /\ apc' = "finish"
    /\ \/ /\ failure' = FALSE
          /\ queued' = [queued EXCEPT ![requested.job] = FALSE]
          /\ UNCHANGED faults
       \/ /\ Fault
          /\ failure' = TRUE
          /\ \E gone \in BOOLEAN :
                queued' = [queued EXCEPT ![requested.job] = @ /\ ~gone]
    /\ UNCHANGED <<database, engine, atodo, requested, operator, source, disabled,
                   commands, posts, decided, changes>>

EndRemoval ==
    /\ apc = "finish" /\ apc' = "pick"
    /\ LET j == requested.job
       IN  \/ /\ jobs' = IF mayFinishRemoval(jobs[j], requested.row)
                         THEN [jobs EXCEPT ![j] = FinishRemoval(@, failure)]
                         ELSE jobs
              /\ UNCHANGED faults
           \/ Fault /\ UNCHANGED jobs
    /\ requested' = NoAnswer /\ failure' = FALSE
    /\ UNCHANGED <<results, attempt, engine, atodo, operator, world, decided,
                   changes>>

-----------------------------------------------------------------------------
(* The operator's pages and forms *)

canAct(row) == row.inQueue /\ ~active(row.state)
               /\ row.state \notin {Absent, Removed}

\* attentionFor, up to what the plan says: an item of the inbox
needsAnswer(row) ==
    /\ row.inQueue /\ row.action = NoAction /\ ~row.err
    /\ row.state \in {Blocked, Failed}
    /\ row.src # NoSource

OpenPage(j) ==
    /\ canAct(jobs[j]) /\ jobs[j].rev < MaxRevision
    /\ page' = [page EXCEPT ![j] = [open |-> TRUE, rev |-> jobs[j].rev,
                                   src |-> jobs[j].src]]
    /\ page' # page
    /\ UNCHANGED <<database, engine, actions, answer, world, decided, faults,
                   changes>>

\* POST /jobs/{id}/reconsider and /jobs/{id}/remove, from a page that may be old
PostAction(j, action) ==
    /\ page[j].open
    /\ mayRequest(jobs[j], action) /\ jobs[j].rev < MaxRevision
    /\ jobs' = [jobs EXCEPT ![j] = requestAction(@, action)]
    /\ decided' = [decided EXCEPT ![j] = {}]
    /\ page' = [page EXCEPT ![j] = NoPage]
    /\ UNCHANGED <<results, attempt, engine, actions, answer, world, faults,
                   changes>>

\* POST /jobs/{id}/respond: the form is compared with the row ...
ReadAnswer(j) ==
    /\ answer = NoAnswer
    /\ page[j].open /\ needsAnswer(jobs[j])
    /\ page[j].rev = jobs[j].rev /\ page[j].src = jobs[j].src
    /\ answer' = [job |-> j, row |-> jobs[j]]
    /\ page' = [page EXCEPT ![j] = NoPage]
    /\ UNCHANGED <<database, engine, actions, world, decided, faults, changes>>

\* ... and the row with the one in the transaction.
PostAnswer ==
    /\ answer # NoAnswer
    /\ LET j == answer.job
       IN  IF /\ answersCurrent(jobs[j], answer.row)
              /\ mayRequest(jobs[j], Reconsider) /\ jobs[j].rev < MaxRevision
           THEN /\ jobs' = [jobs EXCEPT ![j] = requestAction(@, Reconsider)]
                /\ decided' = [decided EXCEPT ![j] = {}]
           ELSE UNCHANGED <<jobs, decided>>
    /\ answer' = NoAnswer
    /\ UNCHANGED <<results, attempt, engine, actions, page, world, faults, changes>>

-----------------------------------------------------------------------------
(* Servarr, the downloads and the clock *)

Change == changes < MaxChanges /\ changes' = changes + 1

SourceChanges(j) ==
    /\ Change
    /\ \E s \in Sources \ {source[j]} : source' = [source EXCEPT ![j] = s]
    /\ UNCHANGED <<database, engine, actions, operator, queued, disabled, commands,
                   posts, decided, faults>>

QueueChanges(j) ==
    /\ Change
    /\ queued' = [queued EXCEPT ![j] = ~@]
    /\ UNCHANGED <<database, engine, actions, operator, source, disabled, commands,
                   posts, decided, faults>>

ToggleDisabled ==
    /\ Change
    /\ disabled' = ~disabled
    /\ UNCHANGED <<database, engine, actions, operator, source, queued, commands,
                   posts, decided, faults>>

\* A command puts files into the library while it runs; its history record
\* appears after that, perhaps after the command has ended.
commandSteps(c) ==
    (IF ~c.ended THEN {[c EXCEPT !.ended = TRUE]} ELSE {})
    \cup (IF ~c.ended /\ c.files = "out" THEN {[c EXCEPT !.files = "in"]} ELSE {})
    \cup (IF c.files = "in" THEN {[c EXCEPT !.files = "listed"]} ELSE {})

CommandStep ==
    /\ \E c \in commands : \E d \in commandSteps(c) :
          commands' = (commands \ {c}) \cup {d}
    /\ UNCHANGED <<database, engine, actions, operator, source, queued, disabled,
                   posts, decided, faults, changes>>

\* RetryAt, or the end of the stabilization period, passes.  The latter is asked
\* for Ready rows only, so that it need not pass before.
RetryDue(j) ==
    /\ jobs[j].retry
    /\ jobs' = [jobs EXCEPT ![j].retry = FALSE]
    /\ UNCHANGED <<results, attempt, engine, actions, operator, world, decided,
                   faults, changes>>

Stabilizes(j) ==
    /\ jobs[j].state = Ready /\ ~serviceReady(jobs[j])
    /\ jobs' = [jobs EXCEPT ![j].stable = TRUE]
    /\ UNCHANGED <<results, attempt, engine, actions, operator, world, decided,
                   faults, changes>>

\* The process dies and is started again: only the database is left of it.  A form
\* opened before carries the CSRF token of the old process and is refused.
Crash ==
    /\ Fault
    /\ pc' = "idle" /\ cur' = NoJob /\ list' = [j \in Jobs |-> NoRow]
    /\ off' = FALSE /\ todo' = {} /\ obs' = NoObservation
    /\ held' = NoRow /\ draft' = NoAttempt
    /\ apc' = "idle" /\ atodo' = {} /\ requested' = NoAnswer /\ failure' = FALSE
    /\ page' = [j \in Jobs |-> NoPage] /\ answer' = NoAnswer
    /\ UNCHANGED <<database, world, decided, changes>>

-----------------------------------------------------------------------------
Observation == ObserveQueue \/ Collect \/ ObservationFails \/ Reconcile
               \/ (\E j \in Jobs : ObserveJob(j) \/ RequestCleanup(j))
               \/ ListComplete \/ EndCleanup

Advance == ListJobs \/ EndPass \/ (\E j \in Jobs : AdvanceJob(j))
           \/ (\E o \in {"error", "no repair", "repair"} : Plan(o)) \/ PlanLost

Engine == \/ RunReady \/ RunInterrupted \/ RunImporting \/ RunNothing
          \/ StartAttempt \/ Authorize \/ AuthorizeBlocked \/ RepairFails
          \/ PersistIntent \/ Submit \/ RecordCommand
          \/ CheckHistory \/ CheckCommand \/ GiveUpImport

Removal == ListRemovals \/ EndRemovals \/ (\E j \in Jobs : BeginRemoval(j))
           \/ RemoveTracking \/ EndRemoval

Operator == \/ \E j \in Jobs :
                  OpenPage(j) \/ ReadAnswer(j)
                  \/ \E a \in {Reconsider, Delete} : PostAction(j, a)
            \/ PostAnswer

Environment == \/ \E j \in Jobs : SourceChanges(j) \/ QueueChanges(j)
                                  \/ RetryDue(j) \/ Stabilizes(j)
               \/ ToggleDisabled \/ CommandStep

Next == Observation \/ Advance \/ Engine \/ Removal \/ Operator
        \/ Environment \/ Crash

Spec == Init /\ [][Next]_vars

\* The clock and the actions goroutine alone: the main goroutine may hang.
RemovalSpec ==
    /\ Spec
    /\ WF_vars(Removal)
    /\ \A j \in Jobs : WF_vars(RetryDue(j))

\* Every call has a timeout, so that the goroutine goes on; each observation
\* interval and each grace period ends; Servarr finishes its commands.
MainFairness ==
    /\ WF_vars(Observation \/ Advance \/ Engine)
    /\ SF_vars(ObserveQueue) /\ SF_vars(GiveUpImport)
    /\ WF_vars(CommandStep)
    /\ \A j \in Jobs : WF_vars(Stabilizes(j))

FairSpec == RemovalSpec /\ MainFairness

-----------------------------------------------------------------------------
(* Correctness *)

MainSteps == {"idle", "collect", "reconcile", "observe", "cleanup", "advance",
              "work", "plan", "run", "start", "authorize", "transform",
              "submit", "record", "check", "status"}

\* The shape of the state.
TypeOK ==
    /\ jobs \in [Jobs -> Row] /\ attempt \in [Jobs -> Attempt]
    /\ results \in [Jobs -> SUBSET Result]
    /\ pc \in MainSteps /\ cur \in Jobs \cup {NoJob}
    /\ list \in [Jobs -> Row] /\ off \in BOOLEAN /\ todo \subseteq Jobs
    /\ obs \in [queue : SUBSET Jobs, complete : SUBSET Jobs, seen : [Jobs -> Seen]]
    /\ held \in Row /\ draft \in Attempt
    /\ apc \in {"idle", "pick", "remove", "finish"} /\ atodo \subseteq Jobs
    /\ requested \in [job : Jobs \cup {NoJob}, row : Row] /\ failure \in BOOLEAN
    /\ page \in [Jobs -> [open : BOOLEAN, rev : Nat, src : Sources \cup {NoSource}]]
    /\ answer \in [job : Jobs \cup {NoJob}, row : Row]
    /\ source \in [Jobs -> Sources] /\ queued \in [Jobs -> BOOLEAN]
    /\ disabled \in BOOLEAN
    /\ commands \subseteq Command /\ posts \in [Jobs -> Nat]
    /\ decided \in [Jobs -> SUBSET Keys]
    /\ faults \in Nat /\ changes \in Nat

\* The job the UI shows and its latest attempt never disagree: a job is Running
\* or Importing exactly when its latest attempt is, whatever was interrupted
\* ("The attempt and its UI-visible job change together", store.go).
JobMatchesAttempt ==
    \A j \in Jobs :
        /\ active(attempt[j].state) => jobs[j].state = attempt[j].state
        /\ jobs[j].state \in {Running, Importing} => active(attempt[j].state)

resolved(c) == c.ended \/ c.files = "listed"

\* As long as an accepted import has neither ended nor shown up in history, its
\* job stays Importing under that attempt: no crash, lost answer, failed write,
\* observation or request lets it fail, be planned again or be removed.
UnresolvedImportHeld ==
    \A c \in commands : ~resolved(c) =>
        /\ attempt[c.job].num = c.num
        /\ attempt[c.job].state = Importing
        /\ jobs[c.job].state = Importing

\* "The engine ... never repeats an uncertain external submission" (engine.go):
\* an attempt is submitted at most once, and a job's next import is submitted
\* only after the one before it was resolved.
ImportsAreSerial ==
    \A c, d \in commands : c.job = d.job /\ c # d =>
        /\ c.num # d.num
        /\ c.post < d.post => c.num < d.num /\ resolved(c)

\* "Database state excludes removal and repair of the same job" (scheduler.go):
\* the actions goroutine is never removing the job the engine is repairing.
RemovalExcludesRepair ==
    ~ /\ pc \in {"authorize", "transform", "submit", "record"}
      /\ apc \in {"remove", "finish"}
      /\ requested.job = cur

\* A plan is carried out only for the evidence and the operator revision it was
\* made from: an answer of the planner that arrives after either changed, or an
\* observation that replaces the evidence under a plan, never yields an import.
PlanMatchesInputs ==
    \A j \in Jobs :
        /\ jobs[j].state \in {Ready, Running, Importing} /\ jobs[j].action = NoAction
              => jobs[j].plan = [src |-> jobs[j].src, rev |-> jobs[j].rev]
        /\ pc \in {"authorize", "transform", "submit", "record"} /\ cur = j
              => draft.plan = [src |-> held.src, rev |-> held.rev]

\* A stored request is never stranded in a state in which nothing serves it: a
\* reconsideration waits in Observed, a removal is never left on a job that is
\* being repaired, and no request outlives the removal of the job.
PendingActionServed ==
    \A j \in Jobs :
        /\ jobs[j].action = Reconsider => jobs[j].state = Observed
        /\ jobs[j].state = Removing => jobs[j].action = Delete
        /\ jobs[j].state \in {Running, Importing, Removed} => jobs[j].action = NoAction

\* "Returning to an old input must not buy another decision" (planning_history.go):
\* the planner is not asked about inputs for which this revision has a decision.
NoRepeatedDecision ==
    pc = "plan" =>
        \A r \in results[cur] : r.key = held.key /\ r.rev = held.rev => ~r.complete

\* The same promise up to what "permits reconsideration", an operator instruction:
\* the planner is not asked again about inputs it has decided on since the
\* operator's last request.
NoRepurchase ==
    pc = "plan" /\ held.key # NoKey => held.key \notin decided[cur]

-----------------------------------------------------------------------------
(* Progress *)

\* "Operator queue actions must not wait behind a model response or a long media
\* command" (scheduler.go): under RemovalSpec a stored removal request is settled
\* although the main goroutine may never take another step, and although the
\* process may die in the middle of a removal.
RemovalSettled ==
    \A j \in Jobs : jobs[j].action = Delete ~> jobs[j].action # Delete

\* While the main goroutine goes on, an import whose command ID was recorded is
\* settled, whatever was lost.
ImportSettled ==
    MainFairness =>
        \A j \in Jobs :
            attempt[j].state = Importing /\ attempt[j].command
                ~> attempt[j].state # Importing

\* While the main goroutine goes on, a repair interrupted by a crash is noticed.
RepairSettled ==
    MainFairness =>
        \A j \in Jobs : jobs[j].state = Running ~> jobs[j].state # Running

\* "Reconsideration queued": "The planner will try again." (presentation.go)
ReconsiderationPlanned ==
    \A j \in Jobs : jobs[j].action = Reconsider ~> jobs[j].action # Reconsider
=============================================================================
