------------------------------ MODULE PagedRead ------------------------------
(***************************************************************************)
(* Reading a list from Radarr or Lidarr page by page while it changes: the *)
(* queue (internal/servarr.ReadQueue, for both services), Radarr's history *)
(* and Lidarr's history, and the movie or album a history speaks for.  The *)
(* server keeps the list in the order in which entries were added; a page  *)
(* is a slice of it, or of its reverse.                                    *)
(***************************************************************************)
EXTENDS Naturals, Sequences, Functions

CONSTANTS MaxEntries,      \* bound: entries that are ever on the list
          Subjects,        \* movies or albums
          None,            \* no subject; no total yet
          PageSize, MaximumPages,
          Shrinking        \* the lists entries are removed from

Readers == {"queue", "radarr history", "lidarr history"}
Listed == 1..MaxEntries    \* the entries, numbered in the order in which they are added

ASSUME PagesAssumption ==
    /\ MaxEntries \in Nat /\ PageSize \in Nat \ {0}
    /\ None \notin Nat \cup Subjects

VARIABLES reader,     \* which of them
          list,       \* the entries at the server, oldest first
          unused,     \* entries that have not been on the list
          subject,    \* the movie or album of each entry, or None
          page,       \* the page read next, 0 if nothing is being read
          records,    \* what has been collected
          total,      \* expectedTotal: the total of the first page, or None
          throughout, \* entries that were there since the read began
          outcome     \* of the last read: "none", "error" or "done"

readVars == <<reader, list, unused, subject, page, records, total, throughout, outcome>>
server == <<reader, list, unused, subject>>

ReadInit ==
    /\ reader \in Readers
    /\ \E n \in 0..MaxEntries : list = [k \in 1..n |-> k] /\ unused = Listed \ 1..n
    /\ subject \in [Listed -> IF reader = "queue" THEN {None} ELSE Subjects \cup {None}]
    /\ page = 0 /\ records = <<>> /\ total = None /\ throughout = {} /\ outcome = "none"

Begin ==
    /\ page = 0
    /\ page' = 1 /\ records' = <<>> /\ total' = None
    /\ throughout' = Range(list) /\ outcome' = "none"
    /\ UNCHANGED server

\* A list from its end, and one without the entry at k
Backwards(s) == [i \in 1..Len(s) |-> s[(Len(s) - i) + 1]]
Without(s, k) == SubSeq(s, 1, k - 1) \o SubSeq(s, k + 1, Len(s))

\* The page as the service answers it
Page(n) ==
    LET ordered == IF reader = "lidarr history" THEN Backwards(list) ELSE list
        last == IF n * PageSize < Len(list) THEN n * PageSize ELSE Len(list)
    IN  SubSeq(ordered, (n - 1) * PageSize + 1, last)

\* The page's own total is the one of the first page.
validatePage == total \in {None, Len(list)}

expectedTotal == IF total = None THEN Len(list) ELSE total

duplicate(p) == Range(p) \cap Range(records) # {}

\* A history record of Radarr names its movie, one of the queue or of Lidarr may not.
validateHistoryRecord(i) == reader = "radarr history" => subject[i] # None

End(how) == outcome' = how /\ page' = 0
Continue == IF page = MaximumPages THEN End("error") ELSE page' = page + 1 /\ UNCHANGED outcome

\* Client.ReadQueue
mapped(all) == IsInjective(all)

\* servarr.ReadQueue; the duplicates are found when the records are mapped.
ReadQueuePages ==
    LET all == records \o Page(page)
    IN  /\ reader = "queue" /\ page > 0
        /\ records' = all /\ total' = expectedTotal
        /\ \/ ~validatePage /\ End("error")
           \/ /\ validatePage /\ (Len(all) >= expectedTotal \/ Page(page) = <<>>)
              /\ End(IF Len(all) = expectedTotal /\ mapped(all) THEN "done" ELSE "error")
           \/ validatePage /\ Len(all) < expectedTotal /\ Page(page) # <<>> /\ Continue
        /\ UNCHANGED <<server, throughout>>

\* Mutant: an off-by-one in the number of records wanted.
readHistoryRecordsShort ==
    LET p == Page(page)
        all == records \o p
    IN  /\ reader = "radarr history" /\ page > 0
        /\ records' = all /\ total' = expectedTotal
        /\ IF Len(all) + 1 >= expectedTotal THEN End("done") ELSE Continue
        /\ UNCHANGED <<server, throughout>>

readHistoryRecords ==
    LET p == Page(page)
        all == records \o p
        ok == /\ validatePage /\ ~duplicate(p)
              /\ \A i \in Range(p) : validateHistoryRecord(i)
    IN  /\ reader = "radarr history" /\ page > 0
        /\ records' = all /\ total' = expectedTotal
        /\ \/ ~ok /\ End("error")
           \/ /\ ok /\ (Len(all) >= expectedTotal \/ p = <<>>)
              /\ End(IF Len(all) = expectedTotal THEN "done" ELSE "error")
           \/ ok /\ Len(all) < expectedTotal /\ p # <<>> /\ Continue
        /\ UNCHANGED <<server, throughout>>

\* RecoverAlbumIdentity and ReadImportedTracks end with the last page.
RecoverAlbumIdentity ==
    LET p == Page(page)
        ok == validatePage /\ ~duplicate(p)
        last == page * PageSize >= expectedTotal \/ p = <<>>
    IN  /\ reader = "lidarr history" /\ page > 0
        /\ records' = records \o p /\ total' = expectedTotal
        /\ \/ ~ok /\ End("error")
           \/ ok /\ last /\ End("done")
           \/ ok /\ ~last /\ Continue
        /\ UNCHANGED <<server, throughout>>

\* A request fails, or its answer is not a page.
RequestFails ==
    /\ page > 0 /\ End("error")
    /\ UNCHANGED <<server, records, total, throughout>>

EntryAdded(i) ==
    /\ i \in unused /\ \A j \in unused : i <= j
    /\ list' = Append(list, i) /\ unused' = unused \ {i}
    /\ UNCHANGED <<reader, subject, page, records, total, throughout, outcome>>

EntryRemoved(k) ==
    /\ reader \in Shrinking
    /\ list' = Without(list, k)
    /\ throughout' = IF page > 0 THEN throughout \ {list[k]} ELSE throughout
    /\ UNCHANGED <<reader, unused, subject, page, records, total, outcome>>

ReadNext ==
    \/ Begin \/ ReadQueuePages \/ readHistoryRecords \/ RecoverAlbumIdentity \/ RequestFails
    \/ \E i \in Listed : EntryAdded(i)
    \/ \E k \in DOMAIN list : EntryRemoved(k)

ReadSpec == ReadInit /\ [][ReadNext]_readVars

-----------------------------------------------------------------------------
(* The identity a history supports *)

\* Mutant: the newest record decides.
SelectHistoryIdentityLast(identities) ==
    {identities[n] : n \in {m \in DOMAIN identities : \A k \in DOMAIN identities : k <= m}}

\* The one identity of all, or none if there is no record or they conflict
SelectHistoryIdentity(identities) ==
    {s \in Subjects : DOMAIN identities # {} /\ \A n \in DOMAIN identities : identities[n] = s}

\* RecoverMovieID: of all records; RecoverAlbumIdentity: of those that name an album
Recovered ==
    LET used == {n \in DOMAIN records : reader = "lidarr history" => subject[records[n]] # None}
    IN  SelectHistoryIdentity([n \in used |-> subject[records[n]]])

-----------------------------------------------------------------------------
(* Properties *)

\* servarr.ReadQueue, readHistoryRecords, ReadImportedTracks: a read that succeeds
\* has every entry that was there all the time; one it misses looks gone.
MissesNothing == outcome = "done" => throughout \subseteq Range(records)

\* Client.ReadQueue and the histories: no entry is reported twice.
NothingTwice == outcome = "done" => IsInjective(records)

\* A read that succeeds is one of the whole list, each entry once.
ReadsExactly == MissesNothing /\ NothingTwice

\* RecoverMovieID, RecoverAlbumIdentity: an identity is recovered only if no record
\* that was there all the time speaks for another.
SoleIdentity ==
    outcome = "done" =>
        \A s \in Recovered : \A i \in throughout : subject[i] \in {s, None}
=============================================================================
