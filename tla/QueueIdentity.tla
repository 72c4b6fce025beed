--------------------------- MODULE QueueIdentity ---------------------------
(***************************************************************************)
(* Which queue entry a job is about (MatchQueue, ReconcileQueue,           *)
(* RemoveTracking).                                                        *)
(*                                                                         *)
(* A job is stored under the row ID and the download of its queue entry.   *)
(* Servarr may list the entry under another row ID later, and one download *)
(* may have an entry for each of several albums.  Only what identifies an  *)
(* entry and the removal of jobs is modelled; evidence, plans and repairs  *)
(* are in module Repairr.                                                  *)
(***************************************************************************)
EXTENDS JobStates

CONSTANTS Rows,         \* primary keys of the job table
          Ids,          \* row IDs of the queue
          Albums,       \* what a queue entry is about
          Download,     \* Download[a]: the download that holds album a
          NoDownload,   \* the empty DownloadID
          NoRow, NoKey,
          MaxRevision   \* bound: removal requests per job

ASSUME IdentityAssumption ==
    /\ Albums \subseteq DOMAIN Download
    /\ NoRow \notin Rows /\ NoKey \notin [id : Ids, dl : {Download[a] : a \in Albums}]
    /\ MaxRevision \in Nat

VARIABLES jobs,         \* the job table
          queue,        \* Servarr's queue
          pc, present, todo,              \* the main goroutine's observation
          apc, removing, requested, target,  \* the actions goroutine's removal
          failure

vars == <<jobs, queue, pc, present, todo, apc, removing, requested, target, failure>>

Entry == [id : Ids, album : Albums]

QueueKeys == [id : Ids, dl : {Download[a] : a \in Albums}]

keyOf(entry) == [id |-> entry.id, dl |-> Download[entry.album]]

\* jobs.Job, as far as its identity and its removal go
Row == [key : QueueKeys \cup {NoKey},
        state : {Absent, Observed, Blocked, Removed, Removing},
        action : {NoAction, Delete}, rev : Nat, inQueue : BOOLEAN, retry : BOOLEAN]

NoJob == [key |-> NoKey, state |-> Absent, action |-> NoAction, rev |-> 0,
          inQueue |-> FALSE, retry |-> FALSE]

NoRequest == [key |-> NoKey, rev |-> 0]

Stored == {r \in Rows : jobs[r].state # Absent}

-----------------------------------------------------------------------------
(* MatchQueue: the exact row, or else the rows of the same download.  More *)
(* than one of those is its error, none its -1.                             *)

\* Mutant: a new row ID of the same download is not followed.
MatchExact(key, candidates) == {key} \cap candidates

MatchQueue(key, candidates) ==
    IF key \in candidates THEN {key}
    ELSE {c \in candidates : key.dl # NoDownload /\ c.dl = key.dl}

several(matches) == \E c, d \in matches : c # d

-----------------------------------------------------------------------------
Init ==
    /\ jobs = [r \in Rows |-> NoJob]
    /\ queue = {}
    /\ pc = "idle" /\ present = {} /\ todo = {}
    /\ apc = "idle" /\ removing = NoRow /\ requested = NoRequest /\ target = NoKey
    /\ failure = FALSE

-----------------------------------------------------------------------------
(* The main goroutine: observe *)

ReadQueue ==
    /\ pc = "idle" /\ pc' = "reconcile"
    /\ present' = {keyOf(e) : e \in queue}
    /\ UNCHANGED <<jobs, queue, todo, apc, removing, requested, target, failure>>

previous == {jobs[r].key : r \in Stored}

matched(r) == MatchQueue(jobs[r].key, present)

owners(r) == UNION {MatchQueue(m, previous) : m \in matched(r)}

ambiguous(r) == several(matched(r)) \/ several(owners(r))

\* Mutant: a job takes its match whoever owns it.
reconciledOneWay(r) ==
    IF matched(r) = {} THEN ReconcileQueue(jobs[r], FALSE)
    ELSE [ReconcileQueue(jobs[r], TRUE) EXCEPT !.key = CHOOSE m \in matched(r) : TRUE]

\* "Matching in both directions": a job whose match belongs to another is left
\* as it is.
reconciled(r) ==
    IF matched(r) = {} THEN ReconcileQueue(jobs[r], FALSE)
    ELSE IF jobs[r].key \notin owners(r) THEN jobs[r]
    ELSE [ReconcileQueue(jobs[r], TRUE) EXCEPT !.key = CHOOSE m \in matched(r) : TRUE]

\* One ambiguous job rolls the transaction back and ends the observation.
Reconcile ==
    /\ pc = "reconcile"
    /\ IF \E r \in Stored : ambiguous(r)
       THEN pc' = "idle" /\ present' = {} /\ UNCHANGED <<jobs, todo>>
       ELSE /\ jobs' = [r \in Rows |-> IF r \in Stored THEN reconciled(r) ELSE jobs[r]]
            /\ pc' = "observe" /\ todo' = present
            /\ UNCHANGED present
    /\ UNCHANGED <<queue, apc, removing, requested, target, failure>>

\* Store.Observe: the row with exactly this key, or a new one
ObserveEntry(key) ==
    /\ pc = "observe" /\ key \in todo
    /\ IF \E r \in Stored : jobs[r].key = key
       THEN jobs' = [r \in Rows |-> IF r \in Stored /\ jobs[r].key = key
                                    THEN [jobs[r] EXCEPT !.inQueue = TRUE]
                                    ELSE jobs[r]]
       ELSE \E r \in Rows \ Stored :
               jobs' = [jobs EXCEPT ![r] = [@ EXCEPT !.key = key, !.state = Observed,
                                                     !.inQueue = TRUE]]
    /\ todo' = todo \ {key}
    /\ UNCHANGED <<queue, pc, present, apc, removing, requested, target, failure>>

\* The rest of the observation fails, or there is nothing left of it.
EndObservation ==
    /\ pc = "observe"
    /\ pc' = "idle" /\ present' = {} /\ todo' = {}
    /\ UNCHANGED <<jobs, queue, apc, removing, requested, target, failure>>

-----------------------------------------------------------------------------
(* Removal: a request of the operator or of the automatic cleanup, and *)
(* RemoveTracking in the actions goroutine                              *)

RequestRemoval(r) ==
    /\ mayRequest(jobs[r], Delete) /\ jobs[r].rev < MaxRevision
    /\ jobs' = [jobs EXCEPT ![r] = requestAction(@, Delete)]
    /\ UNCHANGED <<queue, pc, present, todo, apc, removing, requested, target, failure>>

\* removeRequested, with its List and StartRemoval in one step
BeginRemoval(r) ==
    /\ apc = "idle" /\ apc' = "match"
    /\ mayStartRemoval(jobs[r]) /\ ~jobs[r].retry
    /\ jobs' = [jobs EXCEPT ![r] = StartRemoval(@)]
    /\ removing' = r /\ requested' = [key |-> jobs[r].key, rev |-> jobs[r].rev]
    /\ UNCHANGED <<queue, pc, present, todo, target, failure>>

\* RemovalQueue, which may fail, and MatchQueue; an entry that is not Eligible, for
\* its status or for want of a download, is left alone.
MatchRemoval ==
    /\ apc = "match"
    /\ LET matches == MatchQueue(requested.key, {keyOf(e) : e \in queue})
       IN  \/ /\ ~several(matches)
              /\ target' \in matches /\ target'.dl # NoDownload
              /\ apc' = "delete"
              /\ UNCHANGED failure
           \/ /\ apc' = "finish" /\ failure' \in {matches # {}, TRUE}
              /\ UNCHANGED target
    /\ UNCHANGED <<jobs, queue, pc, present, todo, removing, requested>>

\* DELETE /queue/{id}: Servarr stops tracking the row, and perhaps the other
\* rows of the download with it.
FinalizeQueue ==
    /\ apc = "delete"
    /\ \/ /\ \E e \in queue : e.id = target.id
          /\ \E others \in SUBSET {e \in queue : Download[e.album] = target.dl} :
                queue' = {e \in queue \ others : e.id # target.id}
          /\ \/ apc' = "verify" /\ UNCHANGED failure
             \/ apc' = "finish" /\ failure' = TRUE    \* the answer is lost
       \/ /\ apc' = "finish" /\ failure' = TRUE
          /\ UNCHANGED queue
    /\ UNCHANGED <<jobs, pc, present, todo, removing, requested, target>>

VerifyRemoval ==
    /\ apc = "verify" /\ apc' = "finish"
    /\ failure' = \E e \in queue : Download[e.album] = requested.key.dl
    /\ UNCHANGED <<jobs, queue, pc, present, todo, removing, requested, target>>

EndRemoval ==
    /\ apc = "finish" /\ apc' = "idle"
    /\ jobs' = IF mayFinishRemoval(jobs[removing], requested)
               THEN [jobs EXCEPT ![removing] = FinishRemoval(@, failure)] ELSE jobs
    /\ removing' = NoRow /\ requested' = NoRequest /\ target' = NoKey /\ failure' = FALSE
    /\ UNCHANGED <<queue, pc, present, todo>>

RetryDue(r) ==
    /\ jobs[r].retry
    /\ jobs' = [jobs EXCEPT ![r].retry = FALSE]
    /\ UNCHANGED <<queue, pc, present, todo, apc, removing, requested, target, failure>>

-----------------------------------------------------------------------------
(* Servarr's queue *)

freeIds == {i \in Ids : \A e \in queue : e.id # i}

EntryAppears(a) ==
    /\ \A e \in queue : e.album # a
    /\ \E i \in freeIds : queue' = queue \cup {[id |-> i, album |-> a]}
    /\ UNCHANGED <<jobs, pc, present, todo, apc, removing, requested, target, failure>>

EntryLeaves(e) ==
    /\ queue' = queue \ {e}
    /\ UNCHANGED <<jobs, pc, present, todo, apc, removing, requested, target, failure>>

EntryRenumbered(e) ==
    /\ \E i \in freeIds : queue' = (queue \ {e}) \cup {[e EXCEPT !.id = i]}
    /\ UNCHANGED <<jobs, pc, present, todo, apc, removing, requested, target, failure>>

Next ==
    \/ ReadQueue \/ Reconcile \/ (\E key \in todo : ObserveEntry(key)) \/ EndObservation
    \/ \E r \in Rows : RequestRemoval(r) \/ BeginRemoval(r) \/ RetryDue(r)
    \/ MatchRemoval \/ FinalizeQueue \/ VerifyRemoval \/ EndRemoval
    \/ \E a \in Albums : EntryAppears(a)
    \/ \E e \in queue : EntryLeaves(e) \/ EntryRenumbered(e)

Spec == Init /\ [][Next]_vars

-----------------------------------------------------------------------------
\* The shape of the state.
TypeOK ==
    /\ jobs \in [Rows -> Row]
    /\ queue \subseteq Entry
    /\ pc \in {"idle", "reconcile", "observe"}
    /\ present \subseteq QueueKeys /\ todo \subseteq QueueKeys
    /\ apc \in {"idle", "match", "delete", "verify", "finish"}
    /\ removing \in Rows \cup {NoRow}
    /\ requested \in [key : QueueKeys \cup {NoKey}, rev : Nat]
    /\ target \in QueueKeys \cup {NoKey}
    /\ failure \in BOOLEAN

\* Two jobs are never stored under one queue entry: what ReconcileQueue saves
\* never runs into the unique index over queue and download ID, which would
\* fail every observation from then on.
UniqueKeys ==
    \A r, s \in Stored : jobs[r].key = jobs[s].key => r = s

onlyAlbum(dl) == \A a, b \in Albums : Download[a] = dl /\ Download[b] = dl => a = b

\* A download with a single entry has a single job, however often Servarr lists
\* the entry under a new row ID: its plans, attempts and requests are never
\* split over two jobs.
OneJobPerDownload ==
    \A r, s \in Stored :
        /\ jobs[r].key.dl = jobs[s].key.dl
        /\ jobs[r].key.dl # NoDownload
        /\ onlyAlbum(jobs[r].key.dl)
        => r = s

\* "Matching in both directions prevents merging two album jobs" (planning.go):
\* the removal of a job does not delete the queue row of another job.
RemovalSparesOthers ==
    apc = "delete" => target \notin {jobs[r].key : r \in Stored \ {removing}}
=============================================================================
