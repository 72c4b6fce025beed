---------------------------- MODULE QueueProofs ----------------------------
(***************************************************************************)
(* What Repairr knows of a queue.                                          *)
(*                                                                         *)
(* A job can be identified with its download: for any number of jobs,      *)
(* albums and downloads, reconciliation never stores two jobs under one    *)
(* key, and a download with one album has one job.                         *)
(*                                                                         *)
(* A read by pages can be trusted: for a list of any length, pages of any  *)
(* size and any changes between the requests, a read that succeeds has     *)
(* every entry that was there throughout and none twice.                   *)
(***************************************************************************)
EXTENDS QueueIdentity, PagedRead, SequenceTheorems, TLAPS

-----------------------------------------------------------------------------
(* The jobs of a queue *)

USE DEF Absent, Observed, Blocked, Removed, Removing, Imported, Running,
        Importing, NoAction, Delete, Reconsider

-----------------------------------------------------------------------------
(* What the transactions do to a row *)

\* ReconcileQueue keeps the key of a row and neither creates nor drops rows.
LEMMA ReconcileQueueRow ==
    ASSUME NEW row \in Row, NEW here \in BOOLEAN
    PROVE  /\ ReconcileQueue(row, here) \in Row
           /\ ReconcileQueue(row, here).key = row.key
           /\ ReconcileQueue(row, here).state = Absent <=> row.state = Absent
  BY Zenon DEF Row, ReconcileQueue, active

\* RequestAction only stores the request.
LEMMA RequestRow ==
    ASSUME NEW row \in Row
    PROVE  /\ requestAction(row, Delete) \in Row
           /\ requestAction(row, Delete).key = row.key
           /\ requestAction(row, Delete).state = row.state
<1> DEFINE asked == [row EXCEPT !.rev = @ + 1, !.action = Delete, !.retry = FALSE]
<1>1. requestAction(row, Delete) = asked
  BY Zenon DEF requestAction
<1>2. row.rev + 1 \in Nat
  BY DEF Row
<1>3. asked = [row EXCEPT !.rev = row.rev + 1, !.action = Delete, !.retry = FALSE]
  BY Zenon
<1>4. asked \in Row
  BY Zenon, <1>2, <1>3 DEF Row
<1>5. asked.key = row.key /\ asked.state = row.state
  BY Zenon DEF Row
<1> QED
  BY Zenon, <1>1, <1>4, <1>5

\* StartRemoval and FinishRemoval keep the key and the row.
LEMMA StartRemovalRow ==
    ASSUME NEW row \in Row
    PROVE  /\ StartRemoval(row) \in Row
           /\ StartRemoval(row).key = row.key
           /\ StartRemoval(row).state # Absent
  BY Zenon DEF Row, StartRemoval

\* FinishRemoval stores a row.
LEMMA FinishRemovalRow ==
    ASSUME NEW row \in Row, NEW failed \in BOOLEAN
    PROVE  /\ FinishRemoval(row, failed) \in Row
           /\ FinishRemoval(row, failed).key = row.key
           /\ FinishRemoval(row, failed).state # Absent
<1>1. CASE failed
  BY Zenon, <1>1 DEF Row, FinishRemoval
<1>2. CASE ~failed
  BY Zenon, <1>2 DEF Row, FinishRemoval
<1> QED
  BY Zenon, <1>1, <1>2

-----------------------------------------------------------------------------
(* Type correctness *)

\* The invariant holds initially.
LEMMA IdentityInit == Init => TypeOK
<1> SUFFICES ASSUME Init PROVE TypeOK
  BY Zenon
<1>1. NoJob \in Row
  BY Zenon DEF NoJob, Row
<1>2. jobs \in [Rows -> Row]
  BY Zenon, <1>1 DEF Init
<1>3. requested \in [key : QueueKeys \cup {NoKey}, rev : Nat]
  BY Zenon DEF Init, NoRequest
<1> QED
  BY Zenon, <1>2, <1>3 DEF Init, TypeOK

\* What MatchQueue returns is a candidate.
LEMMA MatchIsCandidate ==
    ASSUME NEW key, NEW candidates
    PROVE  MatchQueue(key, candidates) \subseteq candidates
  BY Zenon DEF MatchQueue

\* The key of an entry is one of the queue keys.
LEMMA EntryKey ==
    ASSUME NEW entry \in Entry
    PROVE  keyOf(entry) \in QueueKeys
  BY Zenon DEF Entry, keyOf, QueueKeys

\* ReconcileQueue stores a row.
LEMMA ReconciledRow ==
    ASSUME TypeOK, NEW r \in Rows
    PROVE  /\ reconciled(r) \in Row
           /\ reconciled(r).state = Absent <=> jobs[r].state = Absent
<1>1. jobs[r] \in Row
  BY Zenon DEF TypeOK
<1>2. CASE matched(r) = {} \/ jobs[r].key \notin owners(r)
  BY Zenon, <1>1, <1>2, ReconcileQueueRow DEF reconciled
<1>3. CASE matched(r) # {} /\ jobs[r].key \in owners(r)
  <2> DEFINE m == CHOOSE c \in matched(r) : TRUE
             row == ReconcileQueue(jobs[r], TRUE)
  <2>1. m \in matched(r)
    BY Zenon, <1>3
  <2>2. m \in QueueKeys
    BY Zenon, <2>1, MatchIsCandidate DEF matched, TypeOK
  <2>3. row \in Row /\ (row.state = Absent <=> jobs[r].state = Absent)
    BY Zenon, <1>1, ReconcileQueueRow
  <2>4. reconciled(r) = [row EXCEPT !.key = m]
    BY Zenon, <1>3 DEF reconciled
  <2> HIDE DEF m, row
  <2> QED
    BY Zenon, <2>2, <2>3, <2>4 DEF Row
<1> QED
  BY Zenon, <1>2, <1>3

\* Every step keeps the type.
LEMMA IdentityTypeStep ==
    ASSUME TypeOK, [Next]_vars
    PROVE  TypeOK'
<1> USE DEF TypeOK
<1>1. CASE ReadQueue
  BY Zenon, <1>1, EntryKey DEF ReadQueue
<1>2. CASE Reconcile
  <2>1. CASE \E r \in Stored : ambiguous(r)
    BY Zenon, <1>2, <2>1 DEF Reconcile
  <2>2. CASE ~\E r \in Stored : ambiguous(r)
    BY ZenonT(60), <1>2, <2>2, ReconciledRow DEF Reconcile
  <2> QED
    BY Zenon, <2>1, <2>2
<1>3. ASSUME NEW key \in todo, ObserveEntry(key) PROVE TypeOK'
  <2>1. key \in QueueKeys
    BY Zenon
  <2>2. ASSUME NEW r \in Rows
        PROVE  /\ [jobs[r] EXCEPT !.inQueue = TRUE] \in Row
               /\ [jobs[r] EXCEPT !.key = key, !.state = Observed,
                                  !.inQueue = TRUE] \in Row
    BY ZenonT(60), <2>1 DEF Row
  <2>3. jobs' \in [Rows -> Row]
    BY ZenonT(60), <1>3, <2>2 DEF ObserveEntry, Stored
  <2> QED
    BY Zenon, <1>3, <2>3 DEF ObserveEntry
<1>4. CASE EndObservation
  BY Zenon, <1>4 DEF EndObservation
<1>5. ASSUME NEW r \in Rows, RequestRemoval(r) PROVE TypeOK'
  BY Zenon, <1>5, RequestRow DEF RequestRemoval
<1>6. ASSUME NEW r \in Rows, BeginRemoval(r) PROVE TypeOK'
  <2>1. jobs' \in [Rows -> Row]
    BY Zenon, <1>6, StartRemovalRow DEF BeginRemoval
  <2>2. [key |-> jobs[r].key, rev |-> jobs[r].rev]
           \in [key : QueueKeys \cup {NoKey}, rev : Nat]
    BY Zenon DEF Row
  <2> QED
    BY Zenon, <1>6, <2>1, <2>2 DEF BeginRemoval
<1>7. ASSUME NEW r \in Rows, RetryDue(r) PROVE TypeOK'
  <2>1. [jobs[r] EXCEPT !.retry = FALSE] \in Row
    BY ZenonT(60) DEF Row
  <2> QED
    BY Zenon, <1>7, <2>1 DEF RetryDue
<1>8. CASE MatchRemoval
  <2>1. MatchQueue(requested.key, {keyOf(e) : e \in queue}) \subseteq QueueKeys
    BY MatchIsCandidate, EntryKey
  <2> QED
    BY Zenon, <1>8, <2>1 DEF MatchRemoval
<1>9. CASE FinalizeQueue
  BY Zenon, <1>9 DEF FinalizeQueue
<1>10. CASE VerifyRemoval
  BY Zenon, <1>10 DEF VerifyRemoval
<1>11. CASE EndRemoval
  <2>1. jobs' \in [Rows -> Row]
    BY Zenon, <1>11, FinishRemovalRow DEF EndRemoval
  <2> QED
    BY Zenon, <1>11, <2>1 DEF EndRemoval, NoRequest
<1>12. ASSUME NEW a \in Albums, EntryAppears(a) PROVE TypeOK'
  BY <1>12 DEF EntryAppears, freeIds, Entry
<1>13. ASSUME NEW e \in queue, EntryLeaves(e) \/ EntryRenumbered(e) PROVE TypeOK'
  BY Zenon, <1>13 DEF EntryLeaves, EntryRenumbered, freeIds, Entry
<1>14. CASE UNCHANGED vars
  BY Zenon, <1>14 DEF vars
<1> QED
  BY Zenon, <1>1, <1>2, <1>3, <1>4, <1>5, <1>6, <1>7, <1>8, <1>9, <1>10, <1>11, <1>12,
     <1>13, <1>14 DEF Next

-----------------------------------------------------------------------------
(* The inductive invariant *)

followable(dl) == dl # NoDownload /\ onlyAlbum(dl)

\* An album has one entry, so that a snapshot of the queue has one key for a
\* download with one album.
OneEntryPerAlbum == \A e, f \in queue : e.album = f.album => e = f

OnePresent == \A k, l \in present : k.dl = l.dl /\ onlyAlbum(k.dl) => k = l

\* While entries are observed, the job of a download with one album has already
\* followed its entry, so that Observe finds it and creates no second one.
Followed ==
    pc = "observe" =>
        /\ todo \subseteq present
        /\ \A r \in Stored, k \in present :
              followable(k.dl) /\ jobs[r].key.dl = k.dl => jobs[r].key = k

\* Nothing is requested of a row that does not exist.
AbsentIdle == \A r \in Rows : jobs[r].state = Absent => jobs[r].action = NoAction

IdentityInv ==
    /\ TypeOK /\ UniqueKeys /\ OneJobPerDownload
    /\ OneEntryPerAlbum /\ OnePresent /\ Followed /\ AbsentIdle

\* Steps that neither create a job nor change a key
SameKeys ==
    \A r \in Rows : /\ jobs'[r].key = jobs[r].key
                    /\ jobs'[r].state = Absent <=> jobs[r].state = Absent

\* They preserve what is said about keys.
LEMMA KeysKept ==
    ASSUME IdentityInv, SameKeys
    PROVE  /\ Stored' = Stored
           /\ UniqueKeys' /\ OneJobPerDownload'
           /\ pc' = pc /\ present' = present /\ todo' \subseteq todo => Followed'
<1>1. Stored' = Stored
  BY Zenon DEF SameKeys, Stored
<1>2. \A r \in Stored : jobs'[r].key = jobs[r].key
  BY Zenon DEF SameKeys, Stored
<1>3. UniqueKeys' /\ OneJobPerDownload'
  BY <1>1, <1>2 DEF IdentityInv, UniqueKeys, OneJobPerDownload, onlyAlbum
<1>4. pc' = pc /\ present' = present /\ todo' \subseteq todo => Followed'
  BY <1>1, <1>2 DEF IdentityInv, Followed, followable, onlyAlbum
<1> QED
  BY Zenon, <1>1, <1>3, <1>4

\* "Matching in both directions": matched back against the stored keys, the key
\* a job gets is its own.
LEMMA OwnerIsSelf ==
    ASSUME TypeOK, NEW r \in Stored, ~ambiguous(r)
    PROVE  /\ MatchQueue(reconciled(r).key, previous) = {jobs[r].key}
           /\ reconciled(r).key.dl = jobs[r].key.dl
           /\ \A m : matched(r) = {m} /\ jobs[r].key \in owners(r)
                    => reconciled(r).key = m
<1>1. r \in Rows /\ jobs[r] \in Row /\ jobs[r].key \in previous
  BY Zenon DEF Stored, TypeOK, previous
<1>2. CASE matched(r) = {} \/ jobs[r].key \notin owners(r)
  <2>1. reconciled(r).key = jobs[r].key
    BY Zenon, <1>1, <1>2, ReconcileQueueRow DEF reconciled
  <2> QED
    BY Zenon, <1>1, <1>2, <2>1 DEF MatchQueue
<1>3. CASE matched(r) # {} /\ jobs[r].key \in owners(r)
  <2> DEFINE m == CHOOSE c \in matched(r) : TRUE
             row == ReconcileQueue(jobs[r], TRUE)
  <2>1. matched(r) = {m}
    BY Zenon, <1>3 DEF ambiguous, several
  <2>2. row \in Row
    BY Zenon, <1>1, ReconcileQueueRow
  <2>3. reconciled(r).key = m
    <3>1. reconciled(r) = [row EXCEPT !.key = m]
      BY Zenon, <1>3 DEF reconciled
    <3> HIDE DEF m, row
    <3> QED
      BY Zenon, <2>2, <3>1 DEF Row
  <2> HIDE DEF m, row
  <2>4. owners(r) = MatchQueue(m, previous)
    BY Zenon, <2>1 DEF owners
  <2>5. MatchQueue(m, previous) = {jobs[r].key}
    BY Zenon, <1>3, <2>4 DEF ambiguous, several
  <2>6. m.dl = jobs[r].key.dl
    BY Zenon, <2>1 DEF matched, MatchQueue
  <2> QED
    BY Zenon, <2>1, <2>3, <2>5, <2>6
<1> QED
  BY Zenon, <1>2, <1>3

\* ReconcileQueue keeps jobs apart and lets the job of a download with one album
\* follow its entry.
LEMMA ReconcileStep ==
    ASSUME IdentityInv, Reconcile
    PROVE  UniqueKeys' /\ OneJobPerDownload' /\ Followed' /\ AbsentIdle'
<1> USE DEF IdentityInv
<1>1. CASE \E r \in Stored : ambiguous(r)
  BY <1>1 DEF Reconcile, UniqueKeys, OneJobPerDownload, Followed, AbsentIdle,
              Stored, onlyAlbum
<1>2. CASE ~\E r \in Stored : ambiguous(r)
  <2>1. \A r \in Rows : jobs'[r] = IF r \in Stored THEN reconciled(r) ELSE jobs[r]
    BY Zenon, <1>2 DEF Reconcile
  <2>2. Stored' = Stored
    BY Zenon, <2>1, ReconciledRow DEF Stored
  <2>3. \A r \in Stored : r \in Rows /\ jobs'[r] = reconciled(r) /\ ~ambiguous(r)
    BY Zenon, <1>2, <2>1 DEF Stored
  <2>4. UniqueKeys'
    <3> SUFFICES ASSUME NEW r \in Stored, NEW t \in Stored, jobs'[r].key = jobs'[t].key
                 PROVE  r = t
      BY Zenon, <2>2 DEF UniqueKeys
    <3>1. {jobs[r].key} = {jobs[t].key}
      BY Zenon, <2>3, OwnerIsSelf
    <3> QED
      BY Zenon, <3>1 DEF UniqueKeys
  <2>5. OneJobPerDownload'
    BY <2>2, <2>3, OwnerIsSelf DEF OneJobPerDownload, onlyAlbum
  <2>6. Followed'
    <3>1. present' = present /\ todo' = present
      BY Zenon, <1>2 DEF Reconcile
    <3> SUFFICES ASSUME NEW r \in Stored, NEW k \in present,
                        followable(k.dl), jobs'[r].key.dl = k.dl
                 PROVE  jobs'[r].key = k
      BY Zenon, <2>2, <3>1 DEF Followed, followable, onlyAlbum
    <3>2. jobs[r].key.dl = k.dl
      BY Zenon, <2>3, OwnerIsSelf
    <3>3. matched(r) = {k}
      BY Zenon, <3>2 DEF matched, MatchQueue, OnePresent, followable
    <3>4. jobs[r].key \in owners(r)
      <4>1. jobs[r].key \in previous /\ owners(r) = MatchQueue(k, previous)
        BY Zenon, <3>3 DEF owners, previous
      <4>2. CASE k \notin previous
        BY Zenon, <3>2, <4>1, <4>2 DEF MatchQueue, followable
      <4>3. CASE k \in previous
        <5>1. PICK t \in Stored : jobs[t].key = k
          BY Zenon, <4>3 DEF previous
        <5>2. t = r
          BY Zenon, <3>2, <5>1 DEF OneJobPerDownload, followable
        <5> QED
          BY Zenon, <4>1, <4>3, <5>1, <5>2 DEF MatchQueue
      <4> QED
        BY Zenon, <4>2, <4>3
    <3> QED
      BY ZenonT(60), <2>3, <3>3, <3>4, OwnerIsSelf
  <2>7. AbsentIdle'
    BY Zenon, <2>1, <2>2 DEF AbsentIdle, Stored
  <2> QED
    BY Zenon, <2>4, <2>5, <2>6, <2>7
<1> QED
  BY Zenon, <1>1, <1>2

\* Store.Observe creates a job only for an entry no job has followed.
LEMMA ObserveStep ==
    ASSUME IdentityInv, NEW key \in todo, ObserveEntry(key)
    PROVE  UniqueKeys' /\ OneJobPerDownload' /\ Followed' /\ AbsentIdle'
<1> USE DEF IdentityInv
<1>1. CASE \E r \in Stored : jobs[r].key = key
  <2>1. \A r \in Rows : /\ jobs'[r].key = jobs[r].key
                        /\ jobs'[r].state = jobs[r].state
                        /\ jobs'[r].action = jobs[r].action
    <3>1. \A r \in Rows : jobs'[r] \in {jobs[r], [jobs[r] EXCEPT !.inQueue = TRUE]}
      BY Zenon, <1>1 DEF ObserveEntry
    <3> QED
      BY <3>1 DEF TypeOK, Row
  <2>2. SameKeys
    BY Zenon, <2>1 DEF SameKeys
  <2> QED
    BY Zenon, <2>1, <2>2, KeysKept DEF ObserveEntry, AbsentIdle
<1>2. CASE ~\E r \in Stored : jobs[r].key = key
  <2>1. PICK n \in Rows \ Stored :
           jobs' = [jobs EXCEPT ![n] = [@ EXCEPT !.key = key, !.state = Observed,
                                                 !.inQueue = TRUE]]
    BY Zenon, <1>2 DEF ObserveEntry
  <2>2. /\ jobs'[n].key = key /\ jobs'[n].state = Observed
        /\ \A r \in Rows \ {n} : jobs'[r] = jobs[r]
    BY Zenon, <2>1 DEF TypeOK, Row
  <2>3. Stored' = Stored \cup {n}
    BY Zenon, <2>2 DEF Stored
  <2>4. /\ pc = "observe" /\ key \in present /\ present' = present
        /\ todo' \subseteq todo /\ todo \subseteq present
    BY Zenon DEF ObserveEntry, Followed
  <2>5. \A r \in Stored : /\ jobs'[r] = jobs[r]
                          /\ jobs[r].key # key
                          /\ followable(key.dl) => jobs[r].key.dl # key.dl
    BY Zenon, <1>2, <2>2, <2>4 DEF Followed, Stored
  <2>6. UniqueKeys'
    BY SMTT(60), <2>2, <2>3, <2>5 DEF UniqueKeys
  <2>7. OneJobPerDownload'
    BY SMTT(60), <2>2, <2>3, <2>5 DEF OneJobPerDownload, followable, onlyAlbum
  <2>8. Followed'
    BY <2>2, <2>3, <2>4, <2>5 DEF Followed, followable, onlyAlbum, OnePresent
  <2>9. AbsentIdle'
    BY Zenon, <2>2 DEF AbsentIdle
  <2> QED
    BY Zenon, <2>6, <2>7, <2>8, <2>9
<1> QED
  BY Zenon, <1>1, <1>2

\* The invariant is inductive.
LEMMA IdentityStep ==
    ASSUME IdentityInv, [Next]_vars
    PROVE  IdentityInv'
<1> USE DEF IdentityInv
<1>0. TypeOK'
  BY Zenon, IdentityTypeStep
<1>1. CASE ReadQueue
  <2>1. UniqueKeys' /\ OneJobPerDownload' /\ OneEntryPerAlbum' /\ AbsentIdle' /\ Followed'
    BY ZenonT(60), <1>1 DEF ReadQueue, UniqueKeys, OneJobPerDownload, OneEntryPerAlbum, AbsentIdle,
                Followed, Stored, onlyAlbum
  <2>2. OnePresent'
    <3> SUFFICES ASSUME NEW e \in queue, NEW f \in queue,
                        keyOf(e).dl = keyOf(f).dl, onlyAlbum(keyOf(e).dl)
                 PROVE  keyOf(e) = keyOf(f)
      BY <1>1 DEF ReadQueue, OnePresent, onlyAlbum
    <3>1. e.album \in Albums /\ f.album \in Albums
      BY Zenon DEF TypeOK, Entry
    <3>2. e = f
      BY Zenon, <3>1 DEF keyOf, onlyAlbum, OneEntryPerAlbum
    <3> QED
      BY Zenon, <3>2
  <2> QED
    BY Zenon, <1>0, <2>1, <2>2
<1>2. CASE Reconcile
  <2>1. OneEntryPerAlbum' /\ OnePresent'
    BY Zenon, <1>2 DEF Reconcile, OneEntryPerAlbum, OnePresent, onlyAlbum
  <2> QED
    BY Zenon, <1>0, <1>2, <2>1, ReconcileStep
<1>3. ASSUME NEW key \in todo, ObserveEntry(key) PROVE IdentityInv'
  <2>1. OneEntryPerAlbum' /\ OnePresent'
    BY ZenonT(60), <1>3 DEF ObserveEntry, OneEntryPerAlbum, OnePresent, onlyAlbum
  <2> QED
    BY Zenon, <1>0, <1>3, <2>1, ObserveStep
<1>4. CASE EndObservation
  BY <1>0, <1>4 DEF EndObservation, UniqueKeys, OneJobPerDownload, OneEntryPerAlbum,
                    OnePresent, Followed, AbsentIdle, Stored, onlyAlbum
\* The steps of a removal and the clock change neither keys nor the observation.
<1>5. ASSUME SameKeys, AbsentIdle', OneEntryPerAlbum',
             UNCHANGED <<pc, present, todo>>
      PROVE  IdentityInv'
  <2>1. OnePresent'
    BY Zenon, <1>5 DEF OnePresent, onlyAlbum
  <2> QED
    BY Zenon, <1>0, <1>5, <2>1, KeysKept
<1>6. ASSUME NEW r \in Rows, RequestRemoval(r) \/ BeginRemoval(r) \/ RetryDue(r)
      PROVE  IdentityInv'
  <2>1. jobs[r] \in Row
    BY Zenon DEF TypeOK
  <2>2. /\ jobs'[r].key = jobs[r].key
        /\ jobs[r].state # Absent => jobs'[r].state # Absent
        /\ jobs[r].state = Absent =>
              jobs'[r].state = Absent /\ jobs'[r].action = jobs[r].action
    <3>1. CASE RequestRemoval(r)
      BY Zenon, <2>1, <3>1, RequestRow DEF RequestRemoval, mayRequest, TypeOK
    <3>2. CASE BeginRemoval(r)
      BY Zenon, <2>1, <3>2, StartRemovalRow DEF BeginRemoval, mayStartRemoval, TypeOK
    <3>3. CASE RetryDue(r)
      BY Zenon, <2>1, <3>3 DEF RetryDue, TypeOK, Row
    <3> QED
      BY Zenon, <1>6, <3>1, <3>2, <3>3
  <2>3. \A t \in Rows \ {r} : jobs'[t] = jobs[t]
    BY Zenon, <1>6 DEF RequestRemoval, BeginRemoval, RetryDue, TypeOK
  <2>4. SameKeys /\ AbsentIdle'
    BY Zenon, <2>2, <2>3 DEF SameKeys, AbsentIdle
  <2>5. UNCHANGED <<pc, present, todo, queue>>
    BY Zenon, <1>6 DEF RequestRemoval, BeginRemoval, RetryDue
  <2> QED
    BY Zenon, <1>5, <2>4, <2>5 DEF OneEntryPerAlbum
<1>7. CASE MatchRemoval \/ VerifyRemoval \/ FinalizeQueue
  <2>1. UNCHANGED <<jobs, pc, present, todo>> /\ queue' \subseteq queue
    BY Zenon, <1>7 DEF MatchRemoval, VerifyRemoval, FinalizeQueue
  <2>2. SameKeys /\ AbsentIdle' /\ OneEntryPerAlbum'
    BY Zenon, <2>1 DEF SameKeys, AbsentIdle, OneEntryPerAlbum
  <2> QED
    BY Zenon, <1>5, <2>1, <2>2
<1>8. CASE EndRemoval
  <2>1. \A t \in Rows : jobs[t] \in Row
    BY Zenon DEF TypeOK
  <2>2. ASSUME NEW t \in Rows, jobs'[t] # jobs[t]
        PROVE  /\ jobs'[t].key = jobs[t].key
               /\ jobs[t].state # Absent /\ jobs'[t].state # Absent
    <3>1. t = removing /\ jobs[t].action = Delete
          /\ jobs'[t] = FinishRemoval(jobs[t], failure)
      BY Zenon, <1>8, <2>2 DEF EndRemoval, mayFinishRemoval, TypeOK
    <3> QED
      BY <2>1, <3>1, FinishRemovalRow DEF AbsentIdle, TypeOK
  <2>3. SameKeys /\ AbsentIdle'
    BY Zenon, <2>2 DEF SameKeys, AbsentIdle
  <2>4. UNCHANGED <<pc, present, todo, queue>>
    BY Zenon, <1>8 DEF EndRemoval
  <2> QED
    BY Zenon, <1>5, <2>3, <2>4 DEF OneEntryPerAlbum
<1>9. ASSUME UNCHANGED <<jobs, pc, present, todo>>, OneEntryPerAlbum' PROVE IdentityInv'
  <2>1. SameKeys /\ AbsentIdle'
    BY Zenon, <1>9 DEF SameKeys, AbsentIdle
  <2> QED
    BY Zenon, <1>5, <1>9, <2>1
<1>10. ASSUME NEW a \in Albums, EntryAppears(a) PROVE IdentityInv'
  BY <1>9, <1>10 DEF EntryAppears, OneEntryPerAlbum
<1>11. ASSUME NEW e \in queue, EntryLeaves(e) \/ EntryRenumbered(e) PROVE IdentityInv'
  <2>1. e \in Entry
    BY Zenon DEF TypeOK
  <2>2. OneEntryPerAlbum'
    BY Zenon, <1>11, <2>1 DEF EntryLeaves, EntryRenumbered, OneEntryPerAlbum, Entry
  <2> QED
    BY Zenon, <1>9, <1>11, <2>2 DEF EntryLeaves, EntryRenumbered
<1>12. CASE UNCHANGED vars
  BY Zenon, <1>9, <1>12 DEF vars, OneEntryPerAlbum
<1> QED
  BY Zenon, <1>1, <1>2, <1>3, <1>4, <1>6, <1>7, <1>8, <1>10, <1>11, <1>12 DEF Next

-----------------------------------------------------------------------------
(* Theorems *)

\* The invariant holds in every reachable state.
LEMMA IdentityInvariant == Spec => []IdentityInv
<1>1. Init => IdentityInv
  <2> SUFFICES ASSUME Init PROVE IdentityInv
    BY Zenon
  <2>1. Stored = {}
    BY Zenon DEF Init, Stored, NoJob
  <2> QED
    BY Zenon, <2>1, IdentityInit DEF Init, IdentityInv, UniqueKeys, OneJobPerDownload,
       OneEntryPerAlbum, OnePresent, Followed, AbsentIdle, NoJob
<1> QED
  BY <1>1, IdentityStep, PTL DEF Spec

\* The job table, the queue and the two goroutines keep their shape.
THEOREM IdentityTypeCorrect == Spec => []TypeOK
  BY IdentityInit, IdentityTypeStep, PTL DEF Spec

\* ReconcileQueue and Observe never store two jobs under one queue entry, whatever
\* Servarr does with its row IDs and however many albums share a download.
THEOREM KeysAreUnique == Spec => []UniqueKeys
<1>1. IdentityInv => UniqueKeys
  BY Zenon DEF IdentityInv
<1> QED
  BY <1>1, IdentityInvariant, PTL

\* A download that holds one album has at most one job, under whatever row IDs
\* Servarr lists it: the case module Repairr is about.
THEOREM DownloadKeepsItsJob == Spec => []OneJobPerDownload
<1>1. IdentityInv => OneJobPerDownload
  BY Zenon DEF IdentityInv
<1> QED
  BY <1>1, IdentityInvariant, PTL

-----------------------------------------------------------------------------
(* The pages of a list *)

\* The elements of a sequence are those at its positions.
LEMMA ElementsOf ==
    ASSUME NEW S, NEW s \in Seq(S)
    PROVE  Range(s) = {s[i] : i \in 1..Len(s)} /\ Len(s) \in Nat
  BY Zenon, LenProperties DEF Range

\* The slice of a list that a page is.
LEMMA Slice ==
    ASSUME NEW s \in Seq(Listed), NEW a \in Nat, NEW b \in Nat, b <= Len(s)
    PROVE  /\ SubSeq(s, a + 1, b) \in Seq(Listed)
           /\ Len(SubSeq(s, a + 1, b)) = IF a <= b THEN b - a ELSE 0
           /\ \A i \in 1..Len(SubSeq(s, a + 1, b)) : a + i \in 1..Len(s) /\ SubSeq(s, a + 1, b)[i] = s[a + i]
           /\ \A j \in (a + 1)..b : s[j] \in Range(SubSeq(s, a + 1, b))
<1>1. Len(s) \in Nat /\ a + 1 \in Int /\ b \in Int /\ \A i \in (a + 1)..b : i \in 1..Len(s)
  BY LenProperties
<1>2. \A i \in (a + 1)..b : s[i] \in Listed
  BY Zenon, <1>1, ElementOfSeq
<1> DEFINE p == SubSeq(s, a + 1, b)
<1>3. /\ p \in Seq(Listed) /\ Len(p) = IF a + 1 <= b THEN b - (a + 1) + 1 ELSE 0
      /\ \A i \in 1..(b - (a + 1) + 1) : p[i] = s[(a + 1) + i - 1]
  BY <1>1, <1>2, SubSeqProperties
<1>4. Range(p) = {p[i] : i \in 1..Len(p)}
  BY Zenon, <1>3, ElementsOf
<1> HIDE DEF p
<1>5. Len(p) = IF a <= b THEN b - a ELSE 0
  BY <1>1, <1>3
<1>6. ASSUME NEW i \in 1..Len(p) PROVE a + i \in 1..Len(s) /\ p[i] = s[a + i]
  <2>1. i \in 1..(b - (a + 1) + 1) /\ (a + 1) + i - 1 = a + i /\ a + i \in 1..Len(s)
    BY <1>1, <1>5
  <2> QED  BY Zenon, <2>1, <1>3
<1>7. ASSUME NEW j \in (a + 1)..b PROVE s[j] \in Range(p)
  <2>1. j - a \in 1..Len(p) /\ a + (j - a) = j
    BY <1>1, <1>5
  <2>2. p[j - a] = s[j]
    BY Zenon, <2>1, <1>6
  <2> QED  BY Zenon, <2>1, <2>2, <1>4
<1> QED  BY Zenon, <1>3, <1>5, <1>6, <1>7 DEF p

\* Records of two pages that have none in common
LEMMA Joined ==
    ASSUME NEW r \in Seq(Listed), NEW p \in Seq(Listed)
    PROVE  /\ r \o p \in Seq(Listed) /\ Len(r \o p) = Len(r) + Len(p)
           /\ Range(r \o p) = Range(r) \cup Range(p)
           /\ IsInjective(r) /\ IsInjective(p) /\ Range(r) \cap Range(p) = {} => IsInjective(r \o p)
<1> DEFINE q == r \o p
<1>1. /\ q \in Seq(Listed) /\ Len(q) = Len(r) + Len(p)
      /\ \A i \in 1..(Len(r) + Len(p)) : q[i] = IF i <= Len(r) THEN r[i] ELSE p[i - Len(r)]
  BY Zenon, ConcatProperties
<1>2. /\ Range(q) = {q[i] : i \in 1..Len(q)} /\ Range(r) = {r[i] : i \in 1..Len(r)}
      /\ Range(p) = {p[i] : i \in 1..Len(p)} /\ Len(r) \in Nat /\ Len(p) \in Nat /\ Len(q) \in Nat
  BY Zenon, <1>1, ElementsOf
<1>3. DOMAIN q = 1..Len(q) /\ DOMAIN r = 1..Len(r) /\ DOMAIN p = 1..Len(p)
  BY Zenon, <1>1, LenProperties
<1> HIDE DEF q
<1>4. \A i \in 1..Len(r) : i \in 1..Len(q) /\ q[i] = r[i]
  BY <1>1, <1>2
<1>5. ASSUME NEW i \in 1..Len(p) PROVE Len(r) + i \in 1..Len(q) /\ q[Len(r) + i] = p[i]
  <2>1. /\ Len(r) + i \in 1..(Len(r) + Len(p)) /\ ~(Len(r) + i <= Len(r))
        /\ (Len(r) + i) - Len(r) = i
    BY <1>2
  <2> QED  BY Zenon, <1>1, <2>1
<1>6. \A i \in 1..Len(q) : \/ i \in 1..Len(r) /\ q[i] = r[i]
                           \/ i - Len(r) \in 1..Len(p) /\ q[i] = p[i - Len(r)]
  BY <1>1, <1>2
<1>7. Range(q) = Range(r) \cup Range(p)
  <2>1. Range(r) \cup Range(p) \subseteq Range(q)
    BY Zenon, <1>2, <1>4, <1>5
  <2>2. Range(q) \subseteq Range(r) \cup Range(p)
    BY Zenon, <1>2, <1>6
  <2> QED  BY Zenon, <2>1, <2>2
<1>8. ASSUME IsInjective(r), IsInjective(p), Range(r) \cap Range(p) = {},
             NEW i \in 1..Len(q), NEW j \in 1..Len(q), q[i] = q[j]
      PROVE  i = j
  <2>1. CASE i \in 1..Len(r) /\ j \in 1..Len(r)
    BY Zenon, <1>3, <1>4, <1>8, <2>1 DEF IsInjective
  <2>2. CASE /\ i - Len(r) \in 1..Len(p) /\ q[i] = p[i - Len(r)]
             /\ j - Len(r) \in 1..Len(p) /\ q[j] = p[j - Len(r)]
    <3>1. i - Len(r) = j - Len(r)
      BY Zenon, <1>3, <1>8, <2>2 DEF IsInjective
    <3> QED  BY <3>1, <1>2
  <2>3. \A x \in 1..Len(r), y \in 1..Len(p) : r[x] # p[y]
    BY Zenon, <1>2, <1>8
  <2> QED  BY Zenon, <1>6, <1>8, <2>1, <2>2, <2>3
<1> QED  BY Zenon, <1>1, <1>3, <1>7, <1>8 DEF q, IsInjective

\* The list loses an entry, and what follows moves up.
LEMMA WithoutEntry ==
    ASSUME NEW s \in Seq(Listed), NEW k \in 1..Len(s), IsInjective(s)
    PROVE  /\ Without(s, k) \in Seq(Listed) /\ IsInjective(Without(s, k))
           /\ \A j \in 1..Len(Without(s, k)) :
                \E i \in 1..Len(s) : i # k /\ j <= i /\ Without(s, k)[j] = s[i]
           /\ Range(s) \ {s[k]} \subseteq Range(Without(s, k))
           /\ Range(Without(s, k)) \subseteq Range(s)
<1> DEFINE r == SubSeq(s, 0 + 1, k - 1)
           p == SubSeq(s, k + 1, Len(s))
           q == r \o p
<1>1. Len(s) \in Nat /\ DOMAIN s = 1..Len(s) /\ Range(s) = {s[i] : i \in 1..Len(s)}
  BY Zenon, LenProperties, ElementsOf
<1>2. k \in Nat /\ k - 1 \in Nat /\ k - 1 <= Len(s) /\ 0 \in Nat /\ Len(s) <= Len(s) /\ 0 <= k - 1 /\ k <= Len(s)
      /\ k - 1 - 0 = k - 1 /\ \A i \in 1..(k - 1) : 0 + i = i
  BY <1>1
<1>3. /\ r \in Seq(Listed) /\ Len(r) = k - 1
      /\ \A i \in 1..Len(r) : i \in 1..Len(s) /\ r[i] = s[i]
  <2>1. /\ r \in Seq(Listed) /\ Len(r) = k - 1 - 0
        /\ \A i \in 1..Len(r) : 0 + i \in 1..Len(s) /\ r[i] = s[0 + i]
    BY Zenon, <1>2, Slice
  <2>2. ASSUME NEW i \in 1..Len(r) PROVE i \in 1..Len(s) /\ r[i] = s[i]
    <3>1. 0 + i = i
      BY <2>1, <1>2
    <3> QED  BY Zenon, <2>1, <3>1
  <2> QED  BY Zenon, <2>1, <2>2, <1>2
<1>4. /\ p \in Seq(Listed) /\ Len(p) = Len(s) - k
      /\ \A i \in 1..Len(p) : k + i \in 1..Len(s) /\ p[i] = s[k + i]
  BY Zenon, <1>1, <1>2, Slice
<1>5. Without(s, k) = q
  <2>1. 0 + 1 = 1
    OBVIOUS
  <2> QED  BY Zenon, <2>1 DEF Without
<1>6. /\ q \in Seq(Listed) /\ Len(q) = Len(r) + Len(p) /\ DOMAIN q = 1..Len(q)
      /\ Range(q) = {q[i] : i \in 1..Len(q)}
      /\ \A i \in 1..(Len(r) + Len(p)) : q[i] = IF i <= Len(r) THEN r[i] ELSE p[i - Len(r)]
  <2>1. /\ q \in Seq(Listed) /\ Len(q) = Len(r) + Len(p)
        /\ \A i \in 1..(Len(r) + Len(p)) : q[i] = IF i <= Len(r) THEN r[i] ELSE p[i - Len(r)]
    <3> HIDE DEF r, p
    <3> QED  BY Zenon, <1>3, <1>4, ConcatProperties
  <2> HIDE DEF q
  <2>2. DOMAIN q = 1..Len(q) /\ Range(q) = {q[i] : i \in 1..Len(q)}
    BY Zenon, <2>1, LenProperties, ElementsOf
  <2> QED  BY Zenon, <2>1, <2>2
<1> HIDE DEF r, p, q
<1>7. ASSUME NEW j \in 1..Len(q)
      PROVE  \/ j < k /\ j \in 1..Len(s) /\ q[j] = s[j]
             \/ ~(j < k) /\ j + 1 \in 1..Len(s) /\ q[j] = s[j + 1]
  <2>1. CASE j < k
    <3>1. j \in 1..(Len(r) + Len(p)) /\ j <= Len(r) /\ j \in 1..Len(r)
      BY <2>1, <1>1, <1>2, <1>3, <1>4, <1>6
    <3>2. q[j] = r[j]
      BY Zenon, <3>1, <1>6
    <3> QED  BY Zenon, <3>1, <3>2, <2>1, <1>3
  <2>2. CASE ~(j < k)
    <3>1. /\ j \in 1..(Len(r) + Len(p)) /\ ~(j <= Len(r)) /\ j - Len(r) \in 1..Len(p)
          /\ k + (j - Len(r)) = j + 1
      BY <2>2, <1>1, <1>2, <1>3, <1>4, <1>6
    <3>2. q[j] = p[j - Len(r)]
      BY Zenon, <3>1, <1>6
    <3>3. j + 1 \in 1..Len(s) /\ p[j - Len(r)] = s[j + 1]
      BY Zenon, <3>1, <1>4
    <3> QED  BY Zenon, <3>2, <3>3, <2>2
  <2> QED  BY Zenon, <2>1, <2>2
<1>8. ASSUME NEW j \in 1..Len(q) PROVE \E i \in 1..Len(s) : i # k /\ j <= i /\ q[j] = s[i]
  <2>1. j \in Nat /\ j <= j /\ j <= j + 1 /\ (j < k => j # k) /\ (~(j < k) => j + 1 # k)
    BY <1>2, <1>6
  <2> QED  BY Zenon, <1>7, <2>1
<1>9. ASSUME NEW i \in 1..Len(q), NEW j \in 1..Len(q), q[i] = q[j] PROVE i = j
  <2>1. \A x, y \in 1..Len(s) : s[x] = s[y] => x = y
    BY Zenon, <1>1 DEF IsInjective
  <2>2. CASE i < k /\ j < k
    BY Zenon, <1>7, <1>9, <2>1, <2>2
  <2>3. CASE ~(i < k) /\ ~(j < k)
    <3>1. i + 1 = j + 1
      BY Zenon, <1>7, <1>9, <2>1, <2>3
    <3> QED  BY <3>1
  <2>4. CASE i < k /\ ~(j < k)
    <3>1. i = j + 1
      BY Zenon, <1>7, <1>9, <2>1, <2>4
    <3> QED  BY <3>1, <2>4, <1>2
  <2>5. CASE ~(i < k) /\ j < k
    <3>1. i + 1 = j
      BY Zenon, <1>7, <1>9, <2>1, <2>5
    <3> QED  BY <3>1, <2>5, <1>2
  <2> QED  BY Zenon, <2>2, <2>3, <2>4, <2>5
<1>10. ASSUME NEW i \in 1..Len(s), i # k PROVE \E j \in 1..Len(q) : q[j] = s[i]
  <2>1. CASE i < k
    <3>1. i \in 1..Len(q)
      BY <2>1, <1>1, <1>2, <1>3, <1>4, <1>6
    <3> QED  BY Zenon, <3>1, <2>1, <1>7
  <2>2. CASE ~(i < k)
    <3>1. i - 1 \in 1..Len(q) /\ ~(i - 1 < k) /\ (i - 1) + 1 = i
      BY <2>2, <1>10, <1>1, <1>2, <1>3, <1>4, <1>6
    <3>2. q[i - 1] = s[i]
      BY Zenon, <3>1, <1>7
    <3> QED  BY Zenon, <3>1, <3>2
  <2> QED  BY Zenon, <2>1, <2>2
<1>11. Range(s) \ {s[k]} \subseteq Range(q)
  BY Zenon, <1>1, <1>6, <1>10
<1>12. Range(q) \subseteq Range(s)
  BY Zenon, <1>1, <1>6, <1>8
<1>13. IsInjective(q)
  BY Zenon, <1>6, <1>9 DEF IsInjective
<1> QED  BY Zenon, <1>5, <1>6, <1>8, <1>11, <1>12, <1>13

\* The records on the pages before page n, if all are full
Before(n) == (n - 1) * PageSize
Upto(n) == IF Before(n) + PageSize < Len(list) THEN Before(n) + PageSize ELSE Len(list)
ordered == IF reader = "lidarr history" THEN Backwards(list) ELSE list

\* The offsets of the pages.
LEMMA Pages ==
    ASSUME NEW n \in Nat \ {0}
    PROVE  /\ Before(n) \in Nat /\ n * PageSize = Before(n) + PageSize /\ Before(n + 1) = Before(n) + PageSize
           /\ Before(1) = 0 /\ PageSize \in Nat \ {0}
<1>1. PageSize \in Nat \ {0}
  BY Zenon, PagesAssumption
<1>2. (n - 1) * PageSize \in Nat
  BY <1>1
<1>3. n * PageSize = (n - 1) * PageSize + PageSize
  BY <1>1
<1>4. ((n + 1) - 1) * PageSize = n * PageSize /\ (1 - 1) * PageSize = 0
  BY <1>1
<1> QED  BY Zenon, <1>1, <1>2, <1>3, <1>4 DEF Before

\* A list read from its end has the same entries, at the mirrored positions.
LEMMA Reversed ==
    ASSUME NEW s \in Seq(Listed), IsInjective(s)
    PROVE  /\ Backwards(s) \in Seq(Listed) /\ Len(Backwards(s)) = Len(s) /\ IsInjective(Backwards(s))
           /\ \A i \in 1..Len(s) : Len(s) - i + 1 \in 1..Len(s) /\ Backwards(s)[Len(s) - i + 1] = s[i]
<1> DEFINE r == Backwards(s)
<1>1. Len(s) \in Nat /\ DOMAIN s = 1..Len(s) /\ \A i \in 1..Len(s) : s[i] \in Listed
  BY Zenon, LenProperties, ElementOfSeq
<1>2. r = [i \in 1..Len(s) |-> s[(Len(s) - i) + 1]]
  BY Zenon DEF Backwards
<1> HIDE DEF r
<1>3. \A i \in 1..Len(s) : (Len(s) - i) + 1 \in 1..Len(s) /\ Len(s) - ((Len(s) - i) + 1) + 1 = i
  BY <1>1
<1>4. DOMAIN r = 1..Len(s) /\ \A i \in 1..Len(s) : r[i] = s[(Len(s) - i) + 1] /\ r[i] \in Listed
  BY Zenon, <1>1, <1>2, <1>3
<1>5. r \in Seq(Listed) /\ Len(r) = Len(s)
  <2>1. r \in [1..Len(s) -> Listed]
    BY Zenon, <1>1, <1>2, <1>3
  <2>2. r \in Seq(Listed)
    BY Zenon, <1>1, <2>1, SeqDef
  <2>3. DOMAIN r = 1..Len(r) /\ Len(r) \in Nat
    BY Zenon, <2>2, LenProperties
  <2>4. 1..Len(r) = 1..Len(s)
    BY Zenon, <1>4, <2>3
  <2>5. Len(r) = Len(s)
    <3>1. (Len(r) = 0 \/ Len(r) \in 1..Len(r)) /\ (Len(s) = 0 \/ Len(s) \in 1..Len(s))
      BY <1>1, <2>3
    <3>2. (Len(r) = 0 \/ Len(r) \in 1..Len(s)) /\ (Len(s) = 0 \/ Len(s) \in 1..Len(r))
      BY Zenon, <2>4, <3>1
    <3>3. Len(r) \in Nat /\ Len(s) \in Nat
      BY Zenon, <1>1, <2>3
    <3> QED  BY <3>2, <3>3
  <2> QED  BY Zenon, <2>2, <2>5
<1>6. ASSUME NEW i \in 1..Len(s), NEW j \in 1..Len(s), r[i] = r[j] PROVE i = j
  <2>1. (Len(s) - i) + 1 = (Len(s) - j) + 1
    BY Zenon, <1>1, <1>3, <1>4, <1>6 DEF IsInjective
  <2> QED  BY <2>1, <1>1
<1>7. ASSUME NEW i \in 1..Len(s) PROVE Len(s) - i + 1 \in 1..Len(s) /\ r[Len(s) - i + 1] = s[i]
  BY Zenon, <1>3, <1>4
<1> QED  BY Zenon, <1>4, <1>5, <1>6, <1>7 DEF r, IsInjective

\* A page is a part of the list, without a record twice.
LEMMA PageOf ==
    ASSUME NEW n \in Nat \ {0}, list \in Seq(Listed), IsInjective(list)
    PROVE  /\ Page(n) \in Seq(Listed) /\ IsInjective(Page(n))
           /\ Len(Page(n)) = IF Before(n) <= Upto(n) THEN Upto(n) - Before(n) ELSE 0
           /\ \A j \in (Before(n) + 1)..Upto(n) : ordered[j] \in Range(Page(n))
           /\ Len(list) \in Nat /\ Upto(n) \in Nat
<1>1. /\ ordered \in Seq(Listed) /\ Len(ordered) = Len(list) /\ IsInjective(ordered)
      /\ Len(list) \in Nat
  BY Zenon, Reversed, LenProperties DEF ordered
<1>2. Before(n) \in Nat /\ n * PageSize = Before(n) + PageSize /\ PageSize \in Nat
  BY Zenon, Pages
<1>3. Upto(n) \in Nat /\ Upto(n) <= Len(ordered)
  BY <1>1, <1>2 DEF Upto
<1>4. Page(n) = SubSeq(ordered, Before(n) + 1, Upto(n))
  BY Zenon, <1>2 DEF Page, ordered, Before, Upto
<1> DEFINE p == SubSeq(ordered, Before(n) + 1, Upto(n))
<1>5. /\ p \in Seq(Listed)
      /\ Len(p) = IF Before(n) <= Upto(n) THEN Upto(n) - Before(n) ELSE 0
      /\ \A i \in 1..Len(p) : Before(n) + i \in 1..Len(ordered) /\ p[i] = ordered[Before(n) + i]
      /\ \A j \in (Before(n) + 1)..Upto(n) : ordered[j] \in Range(p)
  BY Zenon, <1>1, <1>2, <1>3, Slice
<1> HIDE DEF p
<1>6. DOMAIN p = 1..Len(p) /\ DOMAIN ordered = 1..Len(ordered)
  BY Zenon, <1>1, <1>5, LenProperties
<1>7. ASSUME NEW i \in 1..Len(p), NEW j \in 1..Len(p), p[i] = p[j] PROVE i = j
  <2>1. Before(n) + i = Before(n) + j
    BY Zenon, <1>1, <1>5, <1>6, <1>7 DEF IsInjective
  <2> QED  BY <2>1, <1>2
<1>8. IsInjective(p)
  BY Zenon, <1>6, <1>7 DEF IsInjective
<1> QED  BY Zenon, <1>1, <1>3, <1>4, <1>5, <1>8 DEF p

\* During a read: what is still to come of it.  Newest first, an unread entry that
\* was there from the start is old enough to be on a later page, counted from
\* the end of the list that has not changed its place.  Oldest first, the records
\* are the list up to the page.
ReadingInv ==
    /\ throughout \subseteq Range(list)
    /\ page = 1 => records = <<>> /\ total = None
    /\ page > 1 => total \in Nat
    /\ reader # "queue" => IsInjective(records)
    /\ reader = "lidarr history" /\ page > 1 =>
         \A k \in 1..Len(list) :
           list[k] \in throughout /\ list[k] \notin Range(records) => k + Before(page) <= total
    /\ reader # "lidarr history" =>
         /\ Len(records) = Before(page) /\ Len(records) <= Len(list)
         /\ \A k \in 1..Len(list) : list[k] \notin Range(records) => Len(records) < k

\* The inductive invariant: no entry is on the list twice, and a read that is
\* done has what it promises.
PagesInv ==
    /\ reader \in Readers
    /\ list \in Seq(Listed) /\ IsInjective(list)
    /\ unused \subseteq Listed /\ unused \cap Range(list) = {}
    /\ records \in Seq(Listed)
    /\ page \in Nat /\ total \in Nat \cup {None}
    /\ outcome = "done" => /\ page = 0 /\ throughout \subseteq Range(records)
                           /\ IsInjective(records)
    /\ page # 0 => ReadingInv

\* Where a page of the whole list ends, and what lies behind it
LEMMA PageEnd ==
    ASSUME NEW n \in Nat \ {0}, list \in Seq(Listed), Before(n) <= Len(list)
    PROVE  /\ Before(n) <= Upto(n) /\ Before(n) + (Upto(n) - Before(n)) = Upto(n) /\ Upto(n) <= Len(list)
           /\ Upto(n) < Len(list) => Upto(n) = Before(n) + PageSize
           /\ \A k \in 1..Len(list) : Before(n) < k /\ k \notin (Before(n) + 1)..Upto(n) => Upto(n) < k
<1>1. Before(n) \in Nat /\ PageSize \in Nat \ {0} /\ Len(list) \in Nat
  BY Zenon, Pages, LenProperties
<1> QED  BY <1>1 DEF Upto

\* A page is the first or a later one.
LEMMA FirstOrLater == ASSUME NEW n \in Nat \ {0} PROVE n = 1 \/ n > 1
  OBVIOUS

\* What is behind a page, as numbers.
LEMMA PageBehind ==
    ASSUME NEW B \in Nat, NEW P \in Nat \ {0}, NEW L \in Nat, NEW k \in 1..L
    PROVE  /\ B = 0 => k + B <= L
           /\ k + B <= L /\ L - k + 1 \notin (B + 1)..(IF B + P < L THEN B + P ELSE L) =>
                k + (B + P) <= L
  OBVIOUS

\* A page with the total of the first one.  It has the records it adds once, and
\* none is between them and the ones before.
LEMMA NextPage ==
    ASSUME PagesInv, page \in Nat \ {0}
    PROVE  LET all == records \o Page(page) IN
           /\ all \in Seq(Listed) /\ Len(all) \in Nat
           /\ Len(list) \in Nat /\ expectedTotal \in Nat
           /\ Range(all) = Range(records) \cup Range(Page(page))
           /\ Len(all) = Len(records) + Len(Page(page))
           /\ IsInjective(records) /\ ~duplicate(Page(page)) => IsInjective(all)
<1>1. /\ list \in Seq(Listed) /\ IsInjective(list) /\ records \in Seq(Listed)
      /\ total \in Nat \cup {None}
  BY Zenon DEF PagesInv
<1>2. Page(page) \in Seq(Listed) /\ IsInjective(Page(page)) /\ Len(list) \in Nat
  BY Zenon, <1>1, PageOf
<1> DEFINE p == Page(page)
           all == records \o p
<1> HIDE DEF p
<1>3. /\ all \in Seq(Listed) /\ Len(all) = Len(records) + Len(p)
      /\ Range(all) = Range(records) \cup Range(p)
      /\ IsInjective(records) /\ Range(records) \cap Range(p) = {} => IsInjective(all)
  BY Zenon, <1>1, <1>2, Joined DEF p
<1>4. Len(all) \in Nat
  BY Zenon, <1>3, LenProperties
<1>5. expectedTotal \in Nat
  BY Zenon, <1>1, <1>2 DEF expectedTotal
<1>6. ~duplicate(p) => Range(records) \cap Range(p) = {}
  BY Zenon DEF duplicate
<1> QED  BY Zenon, <1>1, <1>2, <1>3, <1>4, <1>5, <1>6 DEF p

\* Oldest first: the records are again the list up to the page.
LEMMA ForwardPage ==
    ASSUME PagesInv, page \in Nat \ {0}, reader # "lidarr history", validatePage
    PROVE  LET all == records \o Page(page) IN
           /\ expectedTotal = Len(list) /\ Len(all) <= Len(list)
           /\ Len(all) < Len(list) => Len(all) = Before(page + 1)
           /\ \A k \in 1..Len(list) : list[k] \notin Range(all) => Len(all) < k
<1> DEFINE p == Page(page)
           all == records \o p
           B == Before(page)
           U == Upto(page)
           L == Len(list)
           n == Len(p)
           m == Len(all)
<1>1. /\ list \in Seq(Listed) /\ IsInjective(list)
      /\ Len(records) = B /\ Len(records) <= L
      /\ \A k \in 1..L : list[k] \notin Range(records) => Len(records) < k
  BY Zenon DEF PagesInv, ReadingInv
<1>2. /\ L \in Nat /\ Range(all) = Range(records) \cup Range(p)
      /\ m = Len(records) + n
  BY Zenon, NextPage
<1>3. /\ B \in Nat /\ Before(page + 1) = B + PageSize /\ PageSize \in Nat \ {0}
  BY Zenon, <1>2, Pages
<1>4. /\ B <= U /\ B + (U - B) = U /\ U <= L /\ (U < L => U = B + PageSize)
      /\ \A k \in 1..L : B < k /\ k \notin (B + 1)..U => U < k
  BY Zenon, <1>1, PageEnd
<1>5. /\ n = IF B <= U THEN U - B ELSE 0
      /\ \A j \in (B + 1)..U : list[j] \in Range(p)
  BY Zenon, <1>1, <1>2, PageOf DEF ordered
<1>6. expectedTotal = L
  BY Zenon DEF expectedTotal, validatePage
<1>7. m = B + n /\ n = IF B <= U THEN U - B ELSE 0
  BY Zenon, <1>1, <1>2, <1>5
<1> HIDE DEF p, all, B, U, L, n, m
<1>8. m = U /\ U <= L /\ (U < L => U = B + PageSize)
  <2>1. n = U - B
    BY Zenon, <1>4, <1>7
  <2> QED  BY Zenon, <2>1, <1>4, <1>7
<1>9. ASSUME NEW k \in 1..L, list[k] \notin Range(all) PROVE U < k
  <2>1. k \notin (B + 1)..U /\ B < k
    BY Zenon, <1>1, <1>2, <1>5, <1>9
  <2> QED  BY Zenon, <2>1, <1>4
<1> QED  BY Zenon, <1>3, <1>6, <1>8, <1>9 DEF p, all, L, m

\* Newest first: what is unread and was there from the start is on a later page.
LEMMA BackwardPage ==
    ASSUME PagesInv, page \in Nat \ {0}, reader = "lidarr history", validatePage
    PROVE  /\ expectedTotal = Len(list)
           /\ \A k \in 1..Len(list) :
                list[k] \in throughout /\ list[k] \notin Range(records \o Page(page)) =>
                  k + Before(page + 1) <= Len(list)
<1> DEFINE p == Page(page)
           all == records \o p
           B == Before(page)
           U == Upto(page)
           L == Len(list)
<1>1. /\ list \in Seq(Listed) /\ IsInjective(list)
      /\ page > 1 => \A k \in 1..L :
           list[k] \in throughout /\ list[k] \notin Range(records) => k + B <= total
      /\ page > 1 => total \in Nat
      /\ total \in {None, L}
  BY Zenon DEF PagesInv, ReadingInv, validatePage
<1>2. L \in Nat /\ Range(all) = Range(records) \cup Range(p)
  BY Zenon, NextPage
<1>3. /\ B \in Nat /\ Before(page + 1) = B + PageSize /\ PageSize \in Nat \ {0} /\ Before(1) = 0
  BY Zenon, <1>2, Pages
<1>4. U = IF B + PageSize < L THEN B + PageSize ELSE L
  BY Zenon DEF Upto
<1>5. \A j \in (B + 1)..U : Backwards(list)[j] \in Range(p)
  BY Zenon, <1>1, <1>2, PageOf DEF ordered
<1>6. \A k \in 1..L : L - k + 1 \in 1..L /\ Backwards(list)[L - k + 1] = list[k]
  BY Zenon, <1>1, Reversed
<1>7. None \notin Nat
  BY Zenon, PagesAssumption
<1>8. expectedTotal = L
  BY Zenon, <1>1 DEF expectedTotal
<1>9. page = 1 => B = 0
  BY Zenon, <1>3
<1>0. page \in Nat \ {0} /\ B \in Nat /\ PageSize \in Nat \ {0} /\ L \in Nat
  BY Zenon, <1>2, <1>3
<1> HIDE DEF p, all, B, U, L
<1>10. ASSUME NEW k \in 1..L, list[k] \in throughout, list[k] \notin Range(all)
       PROVE  k + (B + PageSize) <= L
  <2>1. k + B <= L
    <3>1. CASE page = 1
      BY Zenon, <1>0, <1>9, <3>1, PageBehind
    <3>2. CASE page > 1
      <4>1. total = L
        BY Zenon, <1>1, <1>7, <3>2
      <4> QED  BY Zenon, <1>1, <1>2, <1>10, <3>2, <4>1
    <3>3. page = 1 \/ page > 1
      BY Zenon, <1>0, FirstOrLater
    <3> QED  BY Zenon, <3>1, <3>2, <3>3
  <2>2. L - k + 1 \notin (B + 1)..U
    BY Zenon, <1>2, <1>5, <1>6, <1>10
  <2> QED  BY Zenon, <1>0, <1>4, <2>1, <2>2, PageBehind
<1> QED  BY Zenon, <1>3, <1>8, <1>10 DEF p, all, L

\* What a page may lead to: the end of the read, or the next page.
LEMMA AfterPage ==
    ASSUME PagesInv, page \in Nat \ {0}, UNCHANGED <<server, throughout>>,
           records' = records \o Page(page), total' = expectedTotal,
           \/ outcome' = "error" /\ page' = 0
           \/ /\ outcome' = "done" /\ page' = 0
              /\ throughout \subseteq Range(records') /\ IsInjective(records')
           \/ outcome' = outcome /\ page' = page + 1 /\ ReadingInv'
    PROVE  PagesInv'
<1>1. records' \in Seq(Listed) /\ total' \in Nat /\ page \in Nat
  BY Zenon, NextPage DEF PagesInv
<1>2. page' \in Nat
  BY <1>1
<1>3. outcome # "done" /\ "error" # "done"
  BY Zenon DEF PagesInv
<1>4. /\ reader' \in Readers /\ list' \in Seq(Listed) /\ IsInjective(list')
      /\ unused' \subseteq Listed /\ unused' \cap Range(list') = {}
  BY Zenon DEF PagesInv, server
<1>5. outcome' = "done" => page' = 0 /\ throughout' \subseteq Range(records') /\ IsInjective(records')
  BY Zenon, <1>3
<1>6. page' # 0 => ReadingInv'
  BY Zenon
<1> QED  BY Zenon, <1>1, <1>2, <1>4, <1>5, <1>6 DEF PagesInv

\* Nothing is behind the end of a list.
LEMMA NoneBehind == ASSUME NEW n \in Nat PROVE \A k \in 1..n : ~(n < k)
  OBVIOUS

\* The page that is read is one of 1, 2, ...
LEMMA Positive == ASSUME NEW n \in Nat, n > 0 PROVE n \in Nat \ {0}
  OBVIOUS

\* The page after a page is not the first.
LEMMA LaterPage == ASSUME NEW n \in Nat \ {0} PROVE n + 1 \in Nat \ {0} /\ n + 1 # 1 /\ n + 1 > 1
  OBVIOUS

\* Oldest first, all records of the list: nothing is missing.
LEMMA ForwardDone ==
    ASSUME PagesInv, page \in Nat \ {0}, reader # "lidarr history", validatePage,
           Len(records \o Page(page)) = expectedTotal
    PROVE  throughout \subseteq Range(records \o Page(page))
<1> DEFINE all == records \o Page(page)
<1>1. /\ expectedTotal = Len(list)
      /\ \A k \in 1..Len(list) : list[k] \notin Range(all) => Len(all) < k
  BY Zenon, ForwardPage
<1>2. throughout \subseteq Range(list) /\ Range(list) = {list[k] : k \in 1..Len(list)} /\ Len(list) \in Nat
  BY Zenon, ElementsOf DEF PagesInv, ReadingInv
<1>3. \A k \in 1..Len(list) : ~(Len(list) < k)
  BY Zenon, <1>2, NoneBehind
<1> QED  BY Zenon, <1>1, <1>2, <1>3

\* A read from the oldest entry that goes on has the list up to its next page.
LEMMA ForwardOn ==
    ASSUME PagesInv, page \in Nat \ {0}, reader # "lidarr history", validatePage,
           UNCHANGED <<server, throughout>>,
           records' = records \o Page(page), total' = expectedTotal, page' = page + 1,
           Len(records') < expectedTotal, reader # "queue" => IsInjective(records')
    PROVE  ReadingInv'
<1>1. /\ expectedTotal = Len(list) /\ Len(records') <= Len(list) /\ Len(records') = Before(page + 1)
      /\ \A k \in 1..Len(list) : list[k] \notin Range(records') => Len(records') < k
  BY Zenon, ForwardPage
<1>2. expectedTotal \in Nat
  BY Zenon, NextPage
<1>3. page' # 1
  BY Zenon, LaterPage
<1>4. list' = list /\ reader' = reader /\ throughout' = throughout /\ throughout \subseteq Range(list)
  BY Zenon DEF server, PagesInv, ReadingInv
<1>5. Before(page)' = Before(page + 1)
  BY Zenon DEF Before
<1> QED  BY Zenon, <1>1, <1>2, <1>3, <1>4, <1>5 DEF ReadingInv

\* Each kind of page keeps the invariant: the queue's,
LEMMA QueuePage == ASSUME PagesInv, ReadQueuePages PROVE PagesInv'
<1> DEFINE all == records \o Page(page)
<1>1. /\ reader = "queue" /\ page > 0 /\ records' = all /\ total' = expectedTotal
      /\ UNCHANGED <<server, throughout>>
      /\ \/ ~validatePage /\ End("error")
         \/ validatePage /\ End(IF Len(all) = expectedTotal /\ mapped(all) THEN "done" ELSE "error")
         \/ validatePage /\ Len(all) < expectedTotal /\ Continue
  BY Zenon DEF ReadQueuePages
<1>2. page \in Nat
  BY Zenon DEF PagesInv
<1>3. page \in Nat \ {0} /\ reader # "lidarr history"
  BY Zenon, <1>1, <1>2, Positive
<1>4. CASE End("error")
  BY Zenon, <1>1, <1>3, <1>4, AfterPage DEF End
<1>5. CASE validatePage /\ Len(all) = expectedTotal /\ mapped(all) /\ End("done")
  <2>1. throughout \subseteq Range(all)
    BY Zenon, <1>3, <1>5, ForwardDone
  <2> QED  BY Zenon, <1>1, <1>3, <1>5, <2>1, AfterPage DEF End, mapped
<1>6. CASE validatePage /\ Len(all) < expectedTotal /\ page' = page + 1 /\ UNCHANGED outcome
  <2>1. ReadingInv'
    BY Zenon, <1>1, <1>3, <1>6, ForwardOn
  <2> QED  BY Zenon, <1>1, <1>3, <1>6, <2>1, AfterPage
<1> QED  BY Zenon, <1>1, <1>4, <1>5, <1>6 DEF Continue

\* Radarr's history's,
LEMMA RadarrPage == ASSUME PagesInv, readHistoryRecords PROVE PagesInv'
<1> DEFINE all == records \o Page(page)
<1>1. /\ reader = "radarr history" /\ page > 0 /\ records' = all /\ total' = expectedTotal
      /\ UNCHANGED <<server, throughout>>
      /\ \/ End("error")
         \/ /\ validatePage /\ ~duplicate(Page(page))
            /\ End(IF Len(all) = expectedTotal THEN "done" ELSE "error")
         \/ validatePage /\ ~duplicate(Page(page)) /\ Len(all) < expectedTotal /\ Continue
  BY Zenon DEF readHistoryRecords
<1>2. page \in Nat
  BY Zenon DEF PagesInv
<1>3. page \in Nat \ {0} /\ reader # "lidarr history" /\ reader # "queue"
  BY Zenon, <1>1, <1>2, Positive
<1>4. CASE End("error")
  BY Zenon, <1>1, <1>3, <1>4, AfterPage DEF End
<1>5. ~duplicate(Page(page)) => IsInjective(all)
  BY Zenon, <1>3, NextPage DEF PagesInv, ReadingInv
<1>6. CASE validatePage /\ ~duplicate(Page(page)) /\ Len(all) = expectedTotal /\ End("done")
  <2>1. throughout \subseteq Range(all)
    BY Zenon, <1>3, <1>6, ForwardDone
  <2> QED  BY Zenon, <1>1, <1>3, <1>5, <1>6, <2>1, AfterPage DEF End
<1>7. CASE /\ validatePage /\ ~duplicate(Page(page)) /\ Len(all) < expectedTotal
           /\ page' = page + 1 /\ UNCHANGED outcome
  <2>1. ReadingInv'
    BY Zenon, <1>1, <1>3, <1>5, <1>7, ForwardOn
  <2> QED  BY Zenon, <1>1, <1>3, <1>7, <2>1, AfterPage
<1> QED  BY Zenon, <1>1, <1>4, <1>6, <1>7 DEF Continue

\* Newest first, the last page ends the list.
LEMMA LastPage ==
    ASSUME NEW n \in Nat \ {0}, list \in Seq(Listed), IsInjective(list),
           n * PageSize >= Len(list) \/ Page(n) = <<>>
    PROVE  Before(n + 1) >= Len(list)
<1>1. /\ Before(n) \in Nat /\ n * PageSize = Before(n) + PageSize
      /\ Before(n + 1) = Before(n) + PageSize /\ PageSize \in Nat \ {0}
  BY Zenon, Pages
<1>2. /\ Len(list) \in Nat /\ Len(Page(n)) = IF Before(n) <= Upto(n) THEN Upto(n) - Before(n) ELSE 0
  BY Zenon, PageOf
<1>3. CASE n * PageSize >= Len(list)
  BY <1>1, <1>2, <1>3
<1>4. CASE Page(n) = <<>>
  <2>1. Len(Page(n)) = 0
    BY Zenon, <1>4, EmptySeq
  <2> QED  BY <1>1, <1>2, <2>1 DEF Upto
<1> QED  BY Zenon, <1>3, <1>4

\* and Lidarr's history's, which is read from the newest.
LEMMA LidarrPage == ASSUME PagesInv, RecoverAlbumIdentity PROVE PagesInv'
<1> DEFINE all == records \o Page(page)
           last == page * PageSize >= expectedTotal \/ Page(page) = <<>>
<1>1. /\ reader = "lidarr history" /\ page > 0 /\ records' = all /\ total' = expectedTotal
      /\ UNCHANGED <<server, throughout>>
      /\ \/ End("error")
         \/ validatePage /\ ~duplicate(Page(page)) /\ last /\ End("done")
         \/ validatePage /\ ~duplicate(Page(page)) /\ Continue
  BY Zenon DEF RecoverAlbumIdentity
<1>2. page \in Nat
  BY Zenon DEF PagesInv
<1>3. page \in Nat \ {0} /\ reader # "queue"
  BY Zenon, <1>1, <1>2, Positive
<1>4. CASE End("error")
  BY Zenon, <1>1, <1>3, <1>4, AfterPage DEF End
<1>5. ~duplicate(Page(page)) => IsInjective(all)
  BY Zenon, <1>3, NextPage DEF PagesInv, ReadingInv
<1>6. validatePage =>
        /\ expectedTotal = Len(list)
        /\ \A k \in 1..Len(list) : list[k] \in throughout /\ list[k] \notin Range(all) =>
             k + Before(page + 1) <= Len(list)
  BY Zenon, <1>1, <1>3, BackwardPage
<1>7. /\ throughout \subseteq Range(list) /\ list \in Seq(Listed) /\ IsInjective(list)
      /\ Range(list) = {list[k] : k \in 1..Len(list)} /\ Len(list) \in Nat
  BY Zenon, <1>3, ElementsOf DEF PagesInv, ReadingInv
<1>8. CASE validatePage /\ ~duplicate(Page(page)) /\ last /\ End("done")
  <2>1. Before(page + 1) >= Len(list)
    BY Zenon, <1>3, <1>6, <1>7, <1>8, LastPage
  <2>2. Before(page + 1) \in Nat
    BY Zenon, <1>3, Pages, LaterPage
  <2>3. \A k \in 1..Len(list) : ~(k + Before(page + 1) <= Len(list))
    BY <1>7, <2>1, <2>2
  <2>4. throughout \subseteq Range(all)
    BY Zenon, <1>6, <1>7, <1>8, <2>3
  <2> QED  BY Zenon, <1>1, <1>3, <1>5, <1>8, <2>4, AfterPage DEF End
<1>9. CASE validatePage /\ ~duplicate(Page(page)) /\ page' = page + 1 /\ UNCHANGED outcome
  <2>1. expectedTotal \in Nat /\ page' # 1
    BY Zenon, <1>3, <1>9, NextPage, LaterPage
  <2>2. list' = list /\ reader' = reader /\ throughout' = throughout
    BY Zenon, <1>1 DEF server
  <2>3. Before(page)' = Before(page + 1)
    BY Zenon, <1>9 DEF Before
  <2>4. ReadingInv'
    BY Zenon, <1>1, <1>5, <1>6, <1>7, <1>9, <2>1, <2>2, <2>3 DEF ReadingInv
  <2> QED  BY Zenon, <1>1, <1>3, <1>9, <2>4, AfterPage
<1> QED  BY Zenon, <1>1, <1>4, <1>8, <1>9 DEF Continue

\* The world and the beginning of a read.
LEMMA ReadBegins == ASSUME PagesInv, Begin PROVE PagesInv'
<1>1. /\ page' = 1 /\ records' = <<>> /\ total' = None /\ throughout' = Range(list)
      /\ outcome' = "none" /\ list' = list /\ reader' = reader /\ unused' = unused
  BY Zenon DEF Begin, server
<1>2. 1 \in Nat \ {0} /\ 0 \in Nat /\ ~(1 > 1)
  OBVIOUS
<1>3. /\ <<>> \in Seq(Listed) /\ Len(<<>>) = 0 /\ Range(<<>>) = {} /\ IsInjective(<<>>)
  <2>1. <<>> \in Seq(Listed) /\ Len(<<>>) = 0
    BY Zenon, EmptySeq
  <2> QED  BY <2>1 DEF Range, IsInjective
<1>4. Before(1) = 0 /\ Before(page)' = Before(1)
  BY Zenon, <1>1, <1>2, Pages DEF Before
<1>5. list \in Seq(Listed) /\ Len(list) \in Nat
  BY Zenon, LenProperties DEF PagesInv
<1>6. 0 <= Len(list) /\ \A k \in 1..Len(list) : 0 < k
  BY <1>5
<1>7. ReadingInv'
  BY Zenon, <1>1, <1>2, <1>3, <1>4, <1>6 DEF ReadingInv
<1> QED  BY Zenon, <1>1, <1>2, <1>3, <1>7 DEF PagesInv

\* A read that fails reports nothing.
LEMMA RequestFailed == ASSUME PagesInv, RequestFails PROVE PagesInv'
<1>1. /\ page' = 0 /\ outcome' = "error" /\ UNCHANGED <<server, records, total, throughout>>
  BY Zenon DEF RequestFails, End
<1>2. 0 \in Nat
  OBVIOUS
<1> QED  BY Zenon, <1>1, <1>2 DEF PagesInv, server

\* An entry that is added comes after all others and was not there throughout.
LEMMA ListGrows == ASSUME PagesInv, NEW i \in Listed, EntryAdded(i) PROVE PagesInv'
<1>1. /\ i \in unused /\ list' = Append(list, i) /\ unused' = unused \ {i}
      /\ UNCHANGED <<reader, subject, page, records, total, throughout, outcome>>
  BY Zenon DEF EntryAdded
<1>2. list \in Seq(Listed) /\ IsInjective(list) /\ unused \cap Range(list) = {}
  BY Zenon DEF PagesInv
<1>3. /\ list' \in Seq(Listed) /\ Len(list') = Len(list) + 1 /\ list'[Len(list) + 1] = i
      /\ \A k \in 1..Len(list) : list'[k] = list[k]
  <2>1. /\ Append(list, i) \in Seq(Listed) /\ Len(Append(list, i)) = Len(list) + 1
        /\ Append(list, i)[Len(list) + 1] = i
        /\ \A k \in 1..Len(list) : Append(list, i)[k] = list[k]
    BY <1>2, AppendProperties
  <2> QED  BY Zenon, <1>1, <2>1
<1>4. /\ Range(list) = {list[k] : k \in 1..Len(list)} /\ Range(list') = {list'[k] : k \in 1..Len(list')}
      /\ Len(list) \in Nat /\ DOMAIN list = 1..Len(list) /\ DOMAIN list' = 1..Len(list')
  BY Zenon, <1>2, <1>3, ElementsOf, LenProperties
<1>5. /\ \A k \in 1..Len(list') : k \in 1..Len(list) \/ k = Len(list) + 1
      /\ \A k \in 1..Len(list) : k \in 1..Len(list') /\ k # Len(list) + 1
      /\ Len(list) + 1 \in 1..Len(list')
      /\ \A m \in Nat : m <= Len(list) => m <= Len(list') /\ m < Len(list) + 1
  <2>1. Len(list) \in Nat /\ Len(list') = Len(list) + 1
    BY Zenon, <1>3, <1>4
  <2> QED  BY <2>1
<1>6. i \notin Range(list)
  BY Zenon, <1>1, <1>2
<1>7. IsInjective(list')
  <2>1. \A k \in 1..Len(list) : list'[k] # i
    BY Zenon, <1>3, <1>4, <1>6
  <2>2. \A k, m \in 1..Len(list) : list'[k] = list'[m] => k = m
    BY Zenon, <1>2, <1>3, <1>4 DEF IsInjective
  <2>3. ASSUME NEW k \in 1..Len(list'), NEW m \in 1..Len(list'), list'[k] = list'[m] PROVE k = m
    <3>1. CASE k = Len(list) + 1 \/ m = Len(list) + 1
      BY Zenon, <1>3, <1>5, <2>1, <2>3, <3>1
    <3> QED  BY Zenon, <1>5, <2>2, <2>3, <3>1
  <2> QED  BY Zenon, <1>4, <2>3 DEF IsInjective
<1>8. Range(list') = Range(list) \cup {i}
  <2>1. Range(list') \subseteq Range(list) \cup {i}
    BY Zenon, <1>3, <1>4, <1>5
  <2>2. Range(list) \cup {i} \subseteq Range(list')
    BY Zenon, <1>3, <1>4, <1>5
  <2> QED  BY Zenon, <2>1, <2>2
<1>9. ASSUME page # 0 PROVE ReadingInv'
  <2>1. ReadingInv
    BY Zenon, <1>9 DEF PagesInv
  <2>2. Before(page)' = Before(page)
    BY Zenon, <1>1 DEF Before
  <2>3. Len(records) \in Nat
    BY Zenon, LenProperties DEF PagesInv
  <2>4. throughout \subseteq Range(list) /\ i \notin throughout
    BY Zenon, <2>1, <1>6 DEF ReadingInv
  <2>5. reader = "lidarr history" /\ page > 1 => \A k \in 1..Len(list') :
          list'[k] \in throughout /\ list'[k] \notin Range(records) => k + Before(page) <= total
    BY Zenon, <2>1, <2>4, <1>3, <1>5 DEF ReadingInv
  <2>6. reader # "lidarr history" =>
          /\ Len(records) = Before(page) /\ Len(records) <= Len(list')
          /\ \A k \in 1..Len(list') : list'[k] \notin Range(records) => Len(records) < k
    BY Zenon, <2>1, <2>3, <1>3, <1>5 DEF ReadingInv
  <2>7. /\ throughout \subseteq Range(list') /\ (page = 1 => records = <<>> /\ total = None)
        /\ (page > 1 => total \in Nat) /\ (reader # "queue" => IsInjective(records))
    BY Zenon, <2>1, <1>8 DEF ReadingInv
  <2> QED  BY Zenon, <1>1, <2>2, <2>5, <2>6, <2>7 DEF ReadingInv
<1>10. unused' \subseteq Listed /\ unused' \cap Range(list') = {}
  BY Zenon, <1>1, <1>2, <1>8 DEF PagesInv
<1> QED  BY Zenon, <1>1, <1>3, <1>7, <1>9, <1>10 DEF PagesInv

\* An entry that moved towards the oldest is still on a later page.
LEMMA MovesUp ==
    ASSUME NEW b \in Nat, NEW t \in Nat, NEW m \in Nat, NEW n \in Nat,
           NEW i \in 1..m, NEW j \in 1..n, j <= i, i + b <= t
    PROVE  j + b <= t
  OBVIOUS

\* Only the list that is read from its newest entry loses entries: in a list that
\* is read from the oldest, what follows would move up to a page already read.
LeavesFromTheEnd == Shrinking \subseteq {"lidarr history"}

\* Removals only bring an unread entry nearer to the oldest.
LEMMA ListShrinks ==
    ASSUME LeavesFromTheEnd, PagesInv, NEW k \in DOMAIN list, EntryRemoved(k)
    PROVE  PagesInv'
<1>1. /\ reader \in Shrinking /\ list' = Without(list, k)
      /\ throughout' = IF page > 0 THEN throughout \ {list[k]} ELSE throughout
      /\ UNCHANGED <<reader, unused, subject, page, records, total, outcome>>
  BY Zenon DEF EntryRemoved
<1>2. /\ list \in Seq(Listed) /\ IsInjective(list) /\ unused \cap Range(list) = {} /\ page \in Nat
      /\ k \in 1..Len(list)
  BY Zenon, LenProperties DEF PagesInv
<1>3. /\ list' \in Seq(Listed) /\ IsInjective(list')
      /\ \A j \in 1..Len(list') : \E i \in 1..Len(list) : i # k /\ j <= i /\ list'[j] = list[i]
      /\ Range(list) \ {list[k]} \subseteq Range(list') /\ Range(list') \subseteq Range(list)
  <2> DEFINE l == Without(list, k)
  <2>1. /\ l \in Seq(Listed) /\ IsInjective(l)
        /\ \A j \in 1..Len(l) : \E i \in 1..Len(list) : i # k /\ j <= i /\ l[j] = list[i]
        /\ Range(list) \ {list[k]} \subseteq Range(l) /\ Range(l) \subseteq Range(list)
    BY Zenon, <1>2, WithoutEntry
  <2> HIDE DEF l
  <2>2. list' = l
    BY Zenon, <1>1 DEF l
  <2> QED  BY Zenon, <2>1, <2>2
<1>4. reader = "lidarr history"
  BY Zenon, <1>1 DEF LeavesFromTheEnd
<1>5. page # 0 => page > 0
  BY <1>2
<1>6. ~(0 > 0)
  OBVIOUS
<1>7. ASSUME page # 0 PROVE ReadingInv'
  <2>1. ReadingInv /\ throughout' = throughout \ {list[k]}
    BY Zenon, <1>1, <1>5, <1>7 DEF PagesInv
  <2>2. Before(page)' = Before(page)
    BY Zenon, <1>1 DEF Before
  <2>3. throughout' \subseteq Range(list')
    BY Zenon, <1>3, <2>1 DEF ReadingInv
  <2>4. ASSUME page > 1, NEW j \in 1..Len(list'), list'[j] \in throughout', list'[j] \notin Range(records)
        PROVE  j + Before(page) <= total
    <3>1. PICK i \in 1..Len(list) : j <= i /\ list'[j] = list[i]
      BY Zenon, <1>3
    <3>4. list[i] \in throughout /\ list[i] \notin Range(records)
      BY Zenon, <2>1, <2>4, <3>1
    <3>2. i + Before(page) <= total /\ total \in Nat
      BY Zenon, <1>4, <2>1, <2>4, <3>4 DEF ReadingInv
    <3>3. Before(page) \in Nat /\ Len(list) \in Nat /\ Len(list') \in Nat
      BY Zenon, <1>2, <1>3, <1>7, Pages, LenProperties
    <3> QED  BY Zenon, <3>1, <3>2, <3>3, MovesUp
  <2> QED  BY Zenon, <1>1, <1>4, <2>1, <2>2, <2>3, <2>4 DEF ReadingInv
<1>8. page = 0 => throughout' = throughout
  BY Zenon, <1>1, <1>6
<1>9. unused' \cap Range(list') = {}
  BY Zenon, <1>1, <1>2, <1>3
<1> QED  BY Zenon, <1>1, <1>3, <1>7, <1>8, <1>9 DEF PagesInv

\* Nothing is being read at first.
LEMMA ReadStart == ReadInit => PagesInv
<1> SUFFICES ASSUME ReadInit PROVE PagesInv  OBVIOUS
<1>1. PICK n \in 0..MaxEntries : list = [k \in 1..n |-> k] /\ unused = Listed \ 1..n
  BY Zenon DEF ReadInit
<1>0. MaxEntries \in Nat
  BY Zenon, PagesAssumption
<1>2. n \in Nat /\ n <= MaxEntries
  BY <1>0
<1>3. list \in [1..n -> Listed]
  BY <1>0, <1>1, <1>2 DEF Listed
<1>4. list \in Seq(Listed)
  <2>1. Seq(Listed) = UNION {[1..m -> Listed] : m \in Nat}
    BY Zenon, SeqDef
  <2>2. [1..n -> Listed] \in {[1..m -> Listed] : m \in Nat}
    BY Zenon, <1>2
  <2> QED  BY Zenon, <1>3, <2>1, <2>2
<1>5. DOMAIN list = 1..n /\ \A k \in 1..n : list[k] = k
  BY Zenon, <1>1
<1>6. IsInjective(list)
  BY Zenon, <1>5 DEF IsInjective
<1>7. unused \subseteq Listed /\ unused \cap Range(list) = {}
  BY ZenonT(90), <1>1, <1>5 DEF Range
<1>8. /\ reader \in Readers /\ page = 0 /\ records = <<>> /\ total = None /\ outcome = "none"
  BY Zenon DEF ReadInit
<1>9. <<>> \in Seq(Listed)
  BY Zenon, EmptySeq
<1>10. 0 \in Nat
  OBVIOUS
<1> QED  BY Zenon, <1>4, <1>6, <1>7, <1>8, <1>9, <1>10 DEF PagesInv

\* Every state of a read satisfies the invariant.
LEMMA PagesInvAlways == ASSUME LeavesFromTheEnd PROVE ReadSpec => []PagesInv
<1>1. ASSUME PagesInv, [ReadNext]_readVars PROVE PagesInv'
  <2>1. CASE UNCHANGED readVars
    <3>1. /\ reader' = reader /\ list' = list /\ unused' = unused /\ page' = page
          /\ records' = records /\ total' = total /\ throughout' = throughout /\ outcome' = outcome
      BY Zenon, <2>1 DEF readVars
    <3> QED  BY Zenon, <1>1, <3>1 DEF PagesInv, ReadingInv, Before
  <2> QED
    BY Zenon, <1>1, <2>1, ReadBegins, QueuePage, RadarrPage, LidarrPage, RequestFailed, ListGrows,
       ListShrinks DEF ReadNext
<1> QED  BY <1>1, ReadStart, PTL DEF ReadSpec

\* servarr.ReadQueue, readHistoryRecords, RecoverAlbumIdentity, ReadImportedTracks: a
\* read that succeeds has every entry that was on the list throughout, and none
\* twice, whatever was added between the pages, and removed from Lidarr's history.
THEOREM ReadsAreExact == ASSUME LeavesFromTheEnd PROVE ReadSpec => []ReadsExactly
<1>1. PagesInv => ReadsExactly
  BY Zenon DEF PagesInv, ReadsExactly, MissesNothing, NothingTwice
<1> QED  BY <1>1, PagesInvAlways, PTL

\* RecoverMovieID, RecoverAlbumIdentity: no record that was there throughout speaks
\* for another movie or album than the one recovered, under the same changes.
THEOREM IdentityIsSole == ASSUME LeavesFromTheEnd PROVE ReadSpec => []SoleIdentity
<1>1. ASSUME PagesInv PROVE SoleIdentity
  <2> SUFFICES ASSUME outcome = "done", NEW s \in Recovered, NEW i \in throughout
               PROVE  subject[i] \in {s, None}
    BY Zenon DEF SoleIdentity
  <2> DEFINE used == {n \in DOMAIN records : reader = "lidarr history" => subject[records[n]] # None}
  <2>1. PICK n \in DOMAIN records : records[n] = i
    BY Zenon, <1>1 DEF PagesInv, Range
  <2>2. \A m \in used : [x \in used |-> subject[records[x]]][m] = s
    BY Zenon DEF Recovered, SelectHistoryIdentity
  <2>3. \A m \in used : subject[records[m]] = s
    BY Zenon, <2>2
  <2> QED  BY Zenon, <2>1, <2>3
<1> QED  BY <1>1, PagesInvAlways, PTL
=============================================================================
