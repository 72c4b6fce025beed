------------------------------ MODULE JobStore ------------------------------
(***************************************************************************)
(* The transactions of Repairr's job database (internal/jobs) on a whole   *)
(* row, its attempt and its planning results.  Evidence, plans and times   *)
(* are abstracted:                                                         *)
(*   - a source stands for a SourceFingerprint and the Evidence with it;   *)
(*   - a plan is the pair of inputs it was computed from: a source and the *)
(*     operator revision (each revision carries its own guidance);         *)
(*   - retry says that RetryAt is still in the future, stable that the     *)
(*     stabilization period since StableSince is over.                     *)
(***************************************************************************)
EXTENDS JobStates

CONSTANTS Sources,      \* what an inspection of a download can find
          Keys,         \* planning fingerprints
          PlanningKey,  \* PlanningKey[s]: the fingerprint of the inputs of s
          NoSource, NoKey, NoPlan,
          MaxTries      \* PlanningAttempts saturates here

ASSUME StoreAssumption ==
    /\ NoSource \notin Sources
    /\ NoKey \notin Keys
    /\ PlanningKey \in [Sources \cup {NoSource} -> Keys \cup {NoKey}]
    /\ PlanningKey[NoSource] = NoKey
    /\ MaxTries \in Nat
    /\ NoPlan \notin [src : Sources, rev : Nat]

Plans == [src : Sources, rev : Nat]

\* jobs.Job
Row == [state : States, action : {NoAction, Reconsider, Delete}, rev : Nat,
        inQueue : BOOLEAN, src : Sources \cup {NoSource},
        key : Keys \cup {NoKey}, err : BOOLEAN, plan : Plans \cup {NoPlan},
        retry : BOOLEAN, tries : 0..MaxTries, stable : BOOLEAN]

NoRow == [state |-> Absent, action |-> NoAction, rev |-> 0,
          inQueue |-> FALSE, src |-> NoSource, key |-> NoKey, err |-> FALSE,
          plan |-> NoPlan, retry |-> FALSE, tries |-> 0, stable |-> FALSE]

\* jobs.Attempt: only the latest row of a job is ever read or changed.
\* before is the history known at HistoryIDBefore, command says that CommandID
\* is recorded, terminal that ImportTerminalAt is.
Attempt == [num : Nat, state : States, plan : Plans \cup {NoPlan},
            before : SUBSET Nat, command : BOOLEAN, terminal : BOOLEAN]

NoAttempt == [num |-> 0, state |-> Absent, plan |-> NoPlan, before |-> {},
              command |-> FALSE, terminal |-> FALSE]

\* jobs.PlanningResult
Result == [key : Keys, rev : Nat, complete : BOOLEAN, tries : 0..MaxTries,
           retry : BOOLEAN, plan : Plans \cup {NoPlan}]

-----------------------------------------------------------------------------
(* Planning history *)

rememberPlanning(results, row) ==
    IF row.key = NoKey THEN results
    ELSE {r \in results : r.key # row.key \/ r.rev # row.rev}
         \cup {[key |-> row.key, rev |-> row.rev,
                complete |-> row.state # Observed, tries |-> row.tries,
                retry |-> row.retry, plan |-> row.plan]}

rememberedFor(results, row) ==
    {r \in results : r.key = row.key /\ r.rev = row.rev}

\* Mutant: a decision on the inputs is not looked up.
restoreNothing(results, row, due) == row

\* due: whether the remembered RetryAt has passed by now
restorePlanning(results, row, due) ==
    IF row.key = NoKey \/ rememberedFor(results, row) = {} THEN row
    ELSE LET r == CHOOSE x \in rememberedFor(results, row) : TRUE
             backoff == [row EXCEPT !.tries = r.tries,
                                    !.retry = r.retry /\ ~due]
         IN  IF r.complete
             THEN [backoff EXCEPT !.state = Blocked, !.plan = r.plan]
             ELSE backoff

\* A row stored before planning fingerprints existed takes the one of its
\* stored evidence; a row without evidence takes the observed one.
bootstrapKey(row, src) ==
    IF row.key # NoKey THEN row.key
    ELSE IF row.src # NoSource THEN PlanningKey[row.src] ELSE PlanningKey[src]

observePlanning(results, row, src) ==
    IF PlanningKey[src] = NoKey
    THEN [row |-> row, results |-> results, changed |-> row.src # src]
    ELSE LET based == [row EXCEPT !.key = bootstrapKey(row, src)]
             remembers ==
                 \/ row.key = NoKey /\ (row.state # Observed \/ row.tries > 0)
                 \/ row.state # Observed /\ row.plan # NoPlan
         IN  [row     |-> [based EXCEPT !.key = PlanningKey[src]],
              results |-> IF remembers THEN rememberPlanning(results, based)
                          ELSE results,
              changed |-> based.key # PlanningKey[src]]

-----------------------------------------------------------------------------
(* Observation: seen = [src, err], src = NoSource when there is no evidence *)

createRow(seen) ==
    [NoRow EXCEPT !.state = Observed, !.inQueue = TRUE, !.err = seen.err,
                  !.src = seen.src, !.key = PlanningKey[seen.src]]

\* A changed source drops the plan, unless the job is already settled.
replanned(results, row, due) ==
    IF row.state \in {Imported, Removed} THEN row
    ELSE restorePlanning(results,
             [row EXCEPT !.plan = NoPlan, !.state = Observed,
                         !.stable = FALSE, !.retry = FALSE, !.tries = 0],
             due)

\* Mutant: the evidence is always replaced by the new one.
keepsNoEvidence(row, changed, src) == FALSE

\* A Ready row keeps the evidence of its plan while the planning key is the same.
keepsEvidence(row, changed, src) ==
    row.state = Ready /\ ~changed /\ PlanningKey[src] # NoKey

observeRow(results, row, seen, due) ==
    LET listed == [row EXCEPT !.inQueue = TRUE, !.err = seen.err]
    IN  IF active(row.state) \/ seen.src = NoSource
        THEN [row |-> listed, results |-> results]
        ELSE LET p    == observePlanning(results, listed, seen.src)
                 next == IF p.changed THEN replanned(p.results, p.row, due)
                         ELSE p.row
             IN  [row |-> IF keepsEvidence(next, p.changed, seen.src) THEN next
                          ELSE [next EXCEPT !.src = seen.src],
                  results |-> p.results]

Observe(results, row, seen, due) ==
    IF row.state = Absent
    THEN [row |-> createRow(seen), results |-> results]
    ELSE observeRow(results, row, seen, due)

-----------------------------------------------------------------------------
(* Answers of the operator *)

\* RequestReconsideration: the row the operator answered must be the current one
answersCurrent(row, expected) ==
    /\ row.rev = expected.rev
    /\ row.src = expected.src
    /\ row.state = expected.state
    /\ row.inQueue
    /\ row.action = NoAction
    /\ ~row.err

-----------------------------------------------------------------------------
(* Planning *)

mayFinishPlanning(row, planned) ==
    /\ row.rev = planned.rev
    /\ row.src = planned.src
    /\ ~active(row.state)
    /\ row.state \notin {Absent, Removed, Imported}

FinishPlanning(row, planned) ==
    [row EXCEPT !.plan = planned.plan, !.state = planned.state,
                !.retry = planned.retry, !.tries = planned.tries,
                !.action = IF planned.state \in {Ready, Blocked}
                           THEN NoAction ELSE @]

-----------------------------------------------------------------------------
(* Repair attempts *)

\* Mutants: a pending request is not looked at; the row is not read again.
mayStartPending(row) == row.state = Ready
mayStartUnread(row) == TRUE

mayStart(row) == row.state = Ready /\ row.action = NoAction

startedAttempt(row, previous) ==
    [NoAttempt EXCEPT !.num = previous.num + 1, !.state = Running,
                      !.plan = row.plan]

Start(row) == [row EXCEPT !.state = Running]

\* Attempt rows below the latest one are inactive, so that an update of one of
\* them conflicts like an update of an inactive latest one.
mayUpdateAttempt(stored, attempt) ==
    stored.num = attempt.num /\ active(stored.state)

\* Mutant: the attempt is saved alone.
UpdateAttemptAlone(row, attempt) == row

UpdateAttempt(row, attempt) == [row EXCEPT !.state = attempt.state]

=============================================================================
