--------------------------- MODULE LidarrEvidence ---------------------------
(***************************************************************************)
(* One Lidarr download from the evidence collected for it to the import it *)
(* authorizes: EvidenceCollector.Inspect (lidarrrepair/runner.go) as the   *)
(* adapter of repairlidarr calls it, once to observe the download and once *)
(* more before an import, with what the job keeps of it (jobs/store.go).   *)
(* An inspection is many calls.  Between any two of them the download may  *)
(* change or go, Lidarr may import, drop or regrade files, and something   *)
(* may take a file out of the workspace.                                   *)
(*                                                                         *)
(* A download is a kind and a version; Contents gives the audio files of a *)
(* version in the order of their names.  A request to the worker is one    *)
(* step: Materialize shows that its answer is of one version.              *)
(***************************************************************************)
EXTENDS LidarrCase

CONSTANTS Order,         \* the releases as Lidarr lists them
          TracksOf(_,_), \* the tracks of a release before and after a refresh
          Contents,      \* the contents of the audio files, by version
          Kinds,         \* the kinds of download that come and go
          Changes,       \* the changes the world may make
          Proposals(_),  \* the decisions a planner may answer for a case
          MaxChanges, MaxRevisions, MaxFaults

\* Lidarr lists every release, and a download has contents.
ASSUME EvidenceAssumption ==
    /\ Order \in Seq(Releases) \ {<<>>} /\ Range(Order) = Releases
    /\ 1 \in DOMAIN Contents

Unknown == [kind |-> "none"]
Album == 1
Tracks == UNION {TracksOf(r, refreshed) : r \in Releases, refreshed \in BOOLEAN}

VARIABLES download,   \* what is at the output path: kind and version
          workspaces, \* the files of every workspace, by its root
          catalog,    \* what Lidarr knows of the album
          queue,      \* the queue entry
          view,       \* what Lidarr thinks of the files
          job,        \* the job's row: state, evidence, plan and decided inputs
          run,        \* the inspection in progress
          changes, revisions, faults,
          since       \* auxiliary: what has been true at some time during this repair

evidenceVars ==
    <<download, workspaces, catalog, queue, view, job, run, changes, revisions, faults, since>>
world == <<download, workspaces, catalog, queue, view, changes>>

Resting == [pc |-> "idle"]
Root(kind, id, version) == IF kind = "dir" THEN <<"dir", id, 0>> ELSE <<"archive", id, version>>
Roots == {Root(k, id, v) : k \in {"dir", "tar"}, id \in {1, 2}, v \in DOMAIN Contents}
NoFiles == [p \in {} |-> 0]

Missing == Tracks \ catalog.filed
EmptyOf(c) == {r \in Releases : TracksOf(r, c.refreshed) \cap c.filed = {}}
Seen == [missing |-> Missing, kept |-> {catalog.monitored},
         empty |-> EmptyOf(catalog)]

EvidenceInit ==
    /\ download \in [kind : Kinds, version : {1}]
    /\ workspaces = [w \in Roots |-> NoFiles]
    /\ catalog = [monitored |-> Order[1], refreshed |-> FALSE, filed |-> {}]
    /\ queue = [id |-> 1, download |-> 1, album |-> Album, messages |-> 0, eligible |-> TRUE]
    /\ view = [opinion |-> 0, quality |-> 1]
    /\ job = [state |-> "observed", evidence |-> Unknown, decision |-> Unknown, decided |-> {}]
    /\ run = Resting
    /\ changes = 0 /\ revisions = 0 /\ faults = 0
    /\ since = Seen

-----------------------------------------------------------------------------
(* The inspection *)

\* The inspection is over without evidence: an observation leaves the job as it
\* is, a repair ends its attempt.
Ends ==
    /\ run' = Resting
    /\ job' = IF run.for = "repair" THEN [job EXCEPT !.state = "blocked"] ELSE job
    /\ UNCHANGED <<world, revisions, faults, since>>

Goes(pc) == run' = [run EXCEPT !.pc = pc]
Still == UNCHANGED <<job, revisions, faults, since>>

eligibleQueue(entry) == entry.eligible /\ entry.album # 0

\* recoverQueueIdentity: an entry without an album gets the one its history
\* names; QueueIdentity has the rules.
recoverQueueIdentity(entry) ==
    IF entry.album = 0 /\ entry.eligible THEN [entry EXCEPT !.album = Album] ELSE entry

Begin(purpose) ==
    LET entry == recoverQueueIdentity(queue)
    IN  run' = [pc |-> IF eligibleQueue(entry) THEN "find" ELSE "fail", for |-> purpose,
                queue |-> entry, previous |-> job.evidence, decision |-> job.decision,
                snapshot |-> Unknown, done |-> Unknown, recovered |-> FALSE,
                album |-> Unknown, tracks |-> <<>>, filed |-> {}]

ObserveEntry ==
    /\ run = Resting /\ job.state # "importing"
    /\ Begin("observe")
    /\ UNCHANGED <<world, job, revisions, faults, since>>

Refused == run.pc = "fail" /\ Ends

\* findArchive: one archive, none, or a directory it will not look into.
findArchive ==
    /\ run.pc = "find"
    /\ \/ /\ download.kind \in {"tar", "rar"}
          /\ run' = [run EXCEPT !.pc = "archive", !.snapshot = download]
       \/ /\ download.kind \in {"dir", "empty"} /\ Goes("directory")
       \/ /\ download.kind = "gone"
          /\ Goes(IF run.previous = Unknown THEN "fail" ELSE "stored")
       \/ /\ download.kind = "several" /\ Goes("fail")
    /\ UNCHANGED world /\ Still

\* The worker's answer: the workspace holds the files of one version.
Materialized(kind, version) ==
    LET root == Root(kind, run.queue.id, version)
    IN  /\ workspaces' = [workspaces EXCEPT ![root] = Contents[version]]
        /\ run' = [run EXCEPT !.pc = "album",
                      !.done = [root |-> root, kind |-> kind, fingerprint |-> version,
                                contents |-> Contents[version]]]
        /\ UNCHANGED <<download, catalog, queue, view, changes>>
        /\ Still

\* buildArchiveEvidence: the worker refuses an archive that is no longer the
\* one found.
buildArchiveEvidence ==
    /\ run.pc = "archive"
    /\ IF download = run.snapshot
         THEN Materialized(download.kind, download.version)
         ELSE Ends

\* buildDirectoryEvidence, and Inspect's fallback when there is no audio left.
buildDirectoryEvidence ==
    /\ run.pc = "directory"
    /\ IF download.kind = "dir" THEN Materialized("dir", download.version)
       ELSE IF download.kind = "gone" \/ run.previous = Unknown THEN Ends
       ELSE Goes("stored") /\ UNCHANGED world /\ Still

\* buildStoredEvidence up to the catalogue: the planned files, if they are still
\* those of this entry and still there.
buildStoredEvidence ==
    /\ run.pc = "stored"
    /\ LET planned == run.previous
       IN  IF /\ planned.case.queue = run.queue.id
              /\ planned.case.album = run.queue.album
              /\ \A i \in DOMAIN planned.bindings : planned.bindings[i].download = run.queue.download
              /\ verifyStoredArtifacts(workspaces[planned.root], planned)
             THEN /\ run' = [run EXCEPT !.pc = "album", !.recovered = TRUE,
                                !.done = [root |-> planned.root, kind |-> planned.kind,
                                          fingerprint |-> planned.fingerprint]]
                  /\ UNCHANGED world /\ Still
             ELSE Ends

\* readCatalog asks for the album and then for each of its releases.
ReadAlbum ==
    /\ run.pc = "album"
    /\ run' = [run EXCEPT !.pc = "tracks",
                  !.album = [id |-> Album, monitored |-> catalog.monitored,
                             counts |-> [r \in Releases |->
                                           Cardinality(TracksOf(r, catalog.refreshed))]]]
    /\ UNCHANGED world /\ Still

ReadReleaseTracks ==
    /\ run.pc = "tracks"
    /\ LET release == Order[Len(run.tracks) + 1]
           tracks == TracksOf(release, catalog.refreshed)
       IN  run' = [run EXCEPT !.pc = IF Len(run.tracks) + 1 = Len(Order) THEN "imports" ELSE "tracks",
                      !.tracks = Append(@, tracks), !.filed = @ \cup (catalog.filed \cap tracks)]
    /\ UNCHANGED world /\ Still

\* ReadManualImports: what Lidarr makes of the files in the workspace.
ReadManualImports(root) == [p \in DOMAIN workspaces[root] |-> view]

\* The evidence of this inspection: assembleMaterializedEvidence and the end of
\* buildStoredEvidence; {} if the case cannot be assembled.
Evidence ==
    LET tracks == [r \in Releases |-> run.tracks[CHOOSE i \in DOMAIN Order : Order[i] = r]]
        items == ReadManualImports(run.done.root)
    IN  {[kind |-> run.done.kind, fingerprint |-> run.done.fingerprint, root |-> run.done.root,
          case |-> made.case, bindings |-> made.bindings] :
           made \in IF run.recovered
                      THEN AssembleStored(run.queue, run.album, tracks, run.filed, run.previous, items)
                      ELSE Assemble(run.queue, run.album, tracks, run.filed, run.done, items)}

-----------------------------------------------------------------------------
(* What the job keeps of an observation: jobs.Store.Observe *)

Inputs(evidence) == IF evidence = Unknown THEN Unknown ELSE planningFingerprint(evidence.case)

ObservedJob(evidence) ==
    LET changed == job.evidence # Unknown /\ Inputs(job.evidence) # Inputs(evidence)
    IN  IF changed
          THEN [job EXCEPT !.evidence = evidence,
                  !.state = IF Inputs(evidence) \in job.decided THEN "blocked" ELSE "observed",
                  !.decision = Unknown]
          ELSE IF job.state = "ready" THEN job
          ELSE [job EXCEPT !.evidence = evidence]

ObserveEnds ==
    /\ run.pc = "imports" /\ run.for = "observe"
    /\ IF Evidence = {} THEN Ends
       ELSE /\ job' \in {ObservedJob(e) : e \in Evidence}
            /\ run' = Resting
            /\ UNCHANGED <<world, revisions, faults, since>>

\* Adapter.Plan: the planner's answer counts if it fits the case.  An answer
\* that does not is retried.
Plan ==
    /\ run = Resting /\ job.state = "observed" /\ job.evidence # Unknown
    /\ \E d \in Proposals(job.evidence.case) :
         /\ ValidateDecision(job.evidence.case, d)
         /\ job' = [job EXCEPT !.state = IF d.kind = NoRepair THEN "blocked" ELSE "ready",
                       !.decision = d, !.decided = @ \cup {Inputs(job.evidence)}]
    /\ UNCHANGED <<world, run, revisions, faults, since>>

\* The operator asks for a new decision; what the old revision decided no
\* longer counts.
Reconsider ==
    /\ run = Resting /\ job.state \in {"ready", "blocked"} /\ revisions < MaxRevisions
    /\ revisions' = revisions + 1
    /\ job' = [job EXCEPT !.state = "observed", !.decided = {}]
    /\ UNCHANGED <<world, run, faults, since>>

-----------------------------------------------------------------------------
(* The repair: Adapter.Repair, then the submission of the import *)

Repair ==
    /\ run = Resting /\ job.state = "ready"
    /\ Begin("repair")
    /\ since' = Seen
    /\ UNCHANGED <<world, job, revisions, faults>>

Planned == [kind |-> run.previous.kind, fingerprint |-> run.previous.fingerprint,
            root |-> run.previous.root, case |-> run.previous.case,
            bindings |-> run.previous.bindings, decision |-> run.decision]

Authorize ==
    /\ run.pc = "imports" /\ run.for = "repair"
    /\ LET granted == UNION {AuthorizeImport(Planned,
                               [kind |-> e.kind, fingerprint |-> e.fingerprint, root |-> e.root,
                                case |-> e.case, bindings |-> e.bindings,
                                recovered |-> run.recovered]) : e \in Evidence}
       IN  IF granted = {} THEN Ends
           ELSE /\ run' \in {[pc |-> "submit", for |-> "repair", import |-> g, plan |-> Planned] :
                               g \in granted}
                /\ UNCHANGED world /\ Still

Submit ==
    /\ run.pc = "submit"
    /\ job' = [job EXCEPT !.state = "importing"]
    /\ run' = [run EXCEPT !.pc = "submitted"]
    /\ UNCHANGED <<world, revisions, faults, since>>

\* Any call of an inspection may fail.
Fails ==
    /\ run.pc \in {"archive", "directory", "album", "tracks", "imports"} /\ faults < MaxFaults
    /\ faults' = faults + 1
    /\ run' = Resting
    /\ job' = IF run.for = "repair" THEN [job EXCEPT !.state = "blocked"] ELSE job
    /\ UNCHANGED <<world, revisions, since>>

-----------------------------------------------------------------------------
(* The world *)

Change(name, d, w, c, q, v) ==
    /\ name \in Changes /\ changes < MaxChanges
    /\ changes' = changes + 1
    /\ download' = d /\ workspaces' = w /\ catalog' = c /\ queue' = q /\ view' = v
    /\ since' = [missing |-> since.missing \cup (Tracks \ c.filed),
                 kept |-> since.kept \cup {c.monitored},
                 empty |-> since.empty \cup EmptyOf(c)]
    /\ UNCHANGED <<job, run, revisions, faults>>

\* The download client finishes, replaces, unpacks or removes the download.
DownloadChanges ==
    \E d \in [kind : Kinds, version : DOMAIN Contents]
              \cup [kind : {"empty", "gone", "several"}, version : {download.version}] :
      /\ d # download
      /\ Change("download", d, workspaces, catalog, queue, view)

\* Lidarr imports a track of the album, or loses a file.
FileChanges ==
    \E t \in UNION {TracksOf(r, catalog.refreshed) : r \in Releases} :
      LET filed == IF t \in catalog.filed THEN catalog.filed \ {t} ELSE catalog.filed \cup {t}
      IN  Change("file", download, workspaces, [catalog EXCEPT !.filed = filed], queue, view)

ReleaseChanges ==
    \E r \in Releases \ {catalog.monitored} :
      Change("release", download, workspaces, [catalog EXCEPT !.monitored = r], queue, view)

CatalogRefreshes ==
    ~catalog.refreshed
    /\ Change("refresh", download, workspaces, [catalog EXCEPT !.refreshed = TRUE], queue, view)

\* Lidarr words its messages otherwise, or thinks otherwise of the files.
ViewChanges ==
    \/ Change("view", download, workspaces, catalog, [queue EXCEPT !.messages = 1 - @], view)
    \/ \E v \in {[view EXCEPT !.opinion = 1 - @]} \cup {[view EXCEPT !.quality = g] : g \in 0..2} :
         v # view /\ Change("view", download, workspaces, catalog, queue, v)

\* The entry gets another number, loses its album or stops waiting for help.
QueueChanges ==
    \E q \in {[queue EXCEPT !.id = 3 - @], [queue EXCEPT !.album = Album - @],
              [queue EXCEPT !.eligible = ~@]} :
      Change("queue", download, workspaces, catalog, q, view)

\* A file leaves a workspace.
WorkspaceLoses ==
    \E w \in Roots : \E p \in DOMAIN workspaces[w] :
      Change("workspace", download,
             [workspaces EXCEPT ![w] = [x \in DOMAIN @ \ {p} |-> @[x]]], catalog, queue, view)

Environment ==
    \/ DownloadChanges \/ FileChanges \/ ReleaseChanges \/ CatalogRefreshes
    \/ ViewChanges \/ QueueChanges \/ WorkspaceLoses

Collector ==
    \/ Refused \/ findArchive \/ buildArchiveEvidence \/ buildDirectoryEvidence
    \/ buildStoredEvidence \/ ReadAlbum \/ ReadReleaseTracks \/ ObserveEnds \/ Authorize \/ Submit

EvidenceNext == ObserveEntry \/ Plan \/ Reconsider \/ Repair \/ Collector \/ Fails \/ Environment

EvidenceSpec == EvidenceInit /\ [][EvidenceNext]_evidenceVars

-----------------------------------------------------------------------------
(* Properties *)

Submitted == run.pc \in {"submit", "submitted"}

\* AuthorizeImport (authorize.go): the files named in an import hold, in the
\* workspace, what the planner was shown under that name, however the
\* download and its workspace were replaced since; unless something has taken
\* the file away, which Lidarr then reports.
ImportsWhatWasPlanned ==
    Submitted => \A f \in run.import.files :
      LET root == f.path[1]
          p == f.path[2]
          artifacts == run.plan.case.artifacts
      IN  \E m \in Range(run.plan.decision.mappings) :
            /\ m[2] = f.track
            /\ artifacts[m[1]].fingerprint = f.fingerprint
            /\ p \in DOMAIN workspaces[root] => workspaces[root][p] = artifacts[m[1]].fingerprint

\* buildImportCapabilities and AuthorizeImport: an import names tracks that were
\* missing at some moment of this very repair, not only when it was planned.
ImportsOnlyMissing ==
    Submitted => \A f \in run.import.files : f.track \in since.missing

\* "album has files" in buildImportCapabilities: an import into another release
\* than the monitored one, or one that lets Lidarr switch the release, is made
\* only if every release was without files at some moment of this repair.
\* Not all at the same moment: readCatalog asks for them one by one.
KeepsRelease ==
    Submitted => \/ since.empty = Releases
                 \/ run.import.release \in since.kept /\ run.import.keepRelease

\* validateDecisionSelection: no file is imported as two tracks, and no track
\* from two files.
ImportsOneToOne ==
    Submitted => \A f, g \in run.import.files : f # g => f.path # g.path /\ f.track # g.track

\* What an import does to the album is what a decision may do.
ImportFitsAlbum == ImportsOnlyMissing /\ KeepsRelease /\ ImportsOneToOne
=============================================================================
