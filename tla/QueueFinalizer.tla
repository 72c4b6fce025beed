--------------------------- MODULE QueueFinalizer ---------------------------
(***************************************************************************)
(* Removing the queue entries of downloads whose movie or album is already *)
(* complete: the candidates of internal/radarr and internal/lidarr, and    *)
(* the finalizer of internal/queuefinalize, which keeps a record of every  *)
(* removal.  The lock covers one operation on the records, not a run: of   *)
(* two runs at a time, one may complete a record the other has only just   *)
(* prepared, so the instances below have one runner that may die and be    *)
(* run again.  A download stands for its movie or album too.               *)
(***************************************************************************)
EXTENDS Naturals, FiniteSets, FiniteSetsExt, TLC

CONSTANTS QueueIds,      \* a set of positive integers
          Downloads, Runners, Absent,
          Limit,         \* removals of one run
          Reuse,         \* whether the service gives an ID to another download
          MaxFailures    \* bound on failing requests and deaths of a run

Entries == [download : Downloads, stuck : BOOLEAN]

VARIABLES queue,    \* what the service tracks under each ID: an entry or Absent
          used,     \* IDs that have been given out
          complete, \* downloads whose movie has a file, whose release has all tracks
          records,  \* the finalizer's record for each ID, or Absent
          run,      \* each runner's step and local variables
          failures

vars == <<queue, used, complete, records, run, failures>>
service == <<queue, used, complete>>

Idle == [pc |-> "idle"]

Init ==
    /\ queue \in [QueueIds -> Entries \cup {Absent}]
    /\ \A i, j \in QueueIds : i # j /\ Absent \notin {queue[i], queue[j]}
                                 => queue[i].download # queue[j].download
    /\ used = {i \in QueueIds : queue[i] # Absent}
    /\ complete \in SUBSET Downloads
    /\ records = [i \in QueueIds |-> Absent]
    /\ run = [r \in Runners |-> Idle]
    /\ failures = 0

Goto(r, step) == run' = [run EXCEPT ![r] = step]

-----------------------------------------------------------------------------
(* Candidates *)

\* Entry.Eligible: completed, with a warning
Eligible(e) == e # Absent /\ e.stuck

\* The reads of the queue and of the library for candidates
FinalizationCandidates(r) ==
    /\ run[r].pc = "idle"
    /\ \E i \in QueueIds : Eligible(queue[i]) /\ queue[i].download \in complete
    /\ Goto(r, [pc |-> "read",
                candidates |-> {i \in QueueIds : Eligible(queue[i]) /\ queue[i].download \in complete},
                entries |-> queue])
    /\ UNCHANGED <<service, records, failures>>

\* Run without a candidate still reconciles.
RunEmpty(r) ==
    /\ run[r].pc = "idle"
    /\ Goto(r, [pc |-> "read", candidates |-> {}, entries |-> queue])
    /\ UNCHANGED <<service, records, failures>>

-----------------------------------------------------------------------------
(* The records: each operation under the lock *)

Prepared(i) == records[i] # Absent /\ records[i].state = "prepared"

\* Mutant: a prepared record is in the way.
prepareRefusesOld(i, e) == IF records[i] = Absent
                           THEN {[entry |-> e, state |-> "prepared"]} ELSE {}

\* The record to keep, or none if the ID belongs to another entry
prepare(i, e) ==
    IF records[i] = Absent THEN {[entry |-> e, state |-> "prepared"]}
    ELSE IF records[i].entry = e THEN {records[i]} ELSE {}

complete_(i, e) ==
    IF records[i] # Absent /\ records[i].entry = e
    THEN {[records[i] EXCEPT !.state = "completed"]} ELSE {}

-----------------------------------------------------------------------------
(* Finalizer.run *)

\* The queue is read again, as byID.
ReadQueue(r) ==
    /\ run[r].pc = "read"
    /\ Goto(r, [pc |-> "list", candidates |-> run[r].candidates, entries |-> run[r].entries,
                byID |-> queue, removed |-> 0])
    /\ UNCHANGED <<service, records, failures>>

gone(r) == {i \in QueueIds : Prepared(i) /\ run[r].byID[i] = Absent}

list(r) ==
    /\ run[r].pc = "list"
    /\ Goto(r, [run[r] EXCEPT !.pc = "reconcile"]
               @@ [todo |-> {<<i, records[i].entry>> : i \in gone(r)}])
    /\ UNCHANGED <<service, records, failures>>

reconcile(r) ==
    /\ run[r].pc = "reconcile"
    /\ \/ /\ run[r].todo = {}
          /\ Goto(r, [run[r] EXCEPT !.pc = "candidate"])
          /\ UNCHANGED records
       \/ \E x \in run[r].todo :
            \/ \E new \in complete_(x[1], x[2]) :
                  /\ records' = [records EXCEPT ![x[1]] = new]
                  /\ Goto(r, [run[r] EXCEPT !.todo = @ \ {x}])
            \/ complete_(x[1], x[2]) = {} /\ Goto(r, Idle) /\ UNCHANGED records
    /\ UNCHANGED <<service, failures>>

\* The candidates in the order of their IDs: absent, changed or to be removed
candidate(r) ==
    LET left == run[r].candidates
        i == Min(left)
        e == run[r].entries[i]
        seen == run[r].byID[i]
    IN  /\ run[r].pc = "candidate"
        /\ \/ (left = {} \/ run[r].removed >= Limit) /\ Goto(r, Idle) /\ UNCHANGED records
           \/ /\ left # {} /\ run[r].removed < Limit
              /\ \/ seen # e /\ Goto(r, [run[r] EXCEPT !.candidates = left \ {i}])
                    /\ UNCHANGED records
                 \/ /\ seen = e
                    /\ \/ \E new \in prepare(i, e) :
                            /\ records' = [records EXCEPT ![i] = new]
                            /\ Goto(r, [run[r] EXCEPT !.pc = "remove"])
                       \/ prepare(i, e) = {} /\ Goto(r, Idle) /\ UNCHANGED records
        /\ UNCHANGED <<service, failures>>

\* RemoveQueueTracking: by ID; a missing entry is an error.
remove(r) ==
    LET i == Min(run[r].candidates)
    IN  /\ run[r].pc = "remove"
        /\ queue' = [queue EXCEPT ![i] = Absent]
        /\ Goto(r, IF queue[i] = Absent THEN Idle ELSE [run[r] EXCEPT !.pc = "complete"])
        /\ UNCHANGED <<used, complete, records, failures>>

completeRemoved(r) ==
    LET i == Min(run[r].candidates)
        new == complete_(i, run[r].entries[i])
    IN  /\ run[r].pc = "complete"
        /\ \/ /\ \E n \in new : records' = [records EXCEPT ![i] = n]
              /\ Goto(r, [run[r] EXCEPT !.pc = "candidate", !.removed = @ + 1,
                                        !.candidates = @ \ {i}])
           \/ new = {} /\ Goto(r, Idle) /\ UNCHANGED records
        /\ UNCHANGED <<service, failures>>

\* A request or a write fails, or the process dies; of a removal, before or after
\* the service has acted.
Fail(r) ==
    /\ run[r].pc # "idle" /\ failures < MaxFailures
    /\ failures' = failures + 1 /\ Goto(r, Idle)
    /\ \/ queue' = queue
       \/ run[r].pc = "remove" /\ queue' = [queue EXCEPT ![Min(run[r].candidates)] = Absent]
    /\ UNCHANGED <<used, complete, records>>

-----------------------------------------------------------------------------
(* The service *)

EntryLeaves(i) ==
    /\ queue[i] # Absent
    /\ queue' = [queue EXCEPT ![i] = Absent]
    /\ UNCHANGED <<used, complete, records, run, failures>>

EntryArrives(i, d) ==
    /\ queue[i] = Absent /\ (Reuse \/ i \notin used)
    /\ \A j \in QueueIds : queue[j] # Absent => queue[j].download # d
    /\ queue' = [queue EXCEPT ![i] = [download |-> d, stuck |-> FALSE]]
    /\ used' = used \cup {i}
    /\ UNCHANGED <<complete, records, run, failures>>

DownloadEnds(i) ==
    /\ queue[i] # Absent /\ ~queue[i].stuck
    /\ queue' = [queue EXCEPT ![i].stuck = TRUE]
    /\ UNCHANGED <<used, complete, records, run, failures>>

LibraryChanges(d) ==
    /\ complete' = IF d \in complete THEN complete \ {d} ELSE complete \cup {d}
    /\ UNCHANGED <<queue, used, records, run, failures>>

Runner(r) ==
    \/ ReadQueue(r) \/ list(r) \/ reconcile(r) \/ candidate(r) \/ remove(r) \/ completeRemoved(r)

Begin(r) == FinalizationCandidates(r) \/ RunEmpty(r)

Next ==
    \/ \E r \in Runners : Begin(r) \/ Runner(r) \/ Fail(r)
    \/ \E i \in QueueIds : EntryLeaves(i) \/ DownloadEnds(i) \/ \E d \in Downloads : EntryArrives(i, d)
    \/ \E d \in Downloads : LibraryChanges(d)

Spec == Init /\ [][Next]_vars

\* Runs are repeated, and a run goes on once begun.
Fairness ==
    \A r \in Runners : WF_vars(Runner(r)) /\ SF_vars(FinalizationCandidates(r)) /\ WF_vars(Begin(r))

-----------------------------------------------------------------------------
(* Properties *)

\* run, prepare: no entry stays removable for ever, whatever runs died before.
Drains ==
    \A i \in QueueIds : []<>~(Eligible(queue[i]) /\ queue[i].download \in complete)
=============================================================================
