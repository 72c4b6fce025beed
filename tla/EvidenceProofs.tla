-------------------------- MODULE EvidenceProofs --------------------------
(***************************************************************************)
(* From the evidence of a Lidarr download to the import, for any album,    *)
(* any downloads, any planner, and any number of changes of the world      *)
(* between any two calls of an inspection: the files of an import hold     *)
(* what was planned, and the import fits the album.                        *)
(*                                                                         *)
(* Neither is inductive.  That an import is of the planned files rests on  *)
(* what an inspection knows of its workspace: after a materialization the  *)
(* workspace holds what the worker reported, after a recovery what the     *)
(* planned case describes, and files only leave it.  That it fits the      *)
(* album rests on the catalogue: a track that was read without a file has  *)
(* been missing during the repair, and a release that was read without     *)
(* files has been empty.                                                   *)
(***************************************************************************)
EXTENDS LidarrEvidence, SequenceTheorems, TLAPS

-----------------------------------------------------------------------------
(* From the evidence to the import *)

\* The calls of an inspection before the workspace is known, and after
Early == {"find", "fail", "archive", "directory", "stored"}
Late == {"album", "tracks", "imports"}

\* The fields of an inspection in progress, and of one that is over
Inspecting ==
    run = [pc |-> run.pc, for |-> run.for, queue |-> run.queue, previous |-> run.previous,
           decision |-> run.decision, snapshot |-> run.snapshot, done |-> run.done,
           recovered |-> run.recovered, album |-> run.album, tracks |-> run.tracks,
           filed |-> run.filed]
Importing == run = [pc |-> run.pc, for |-> run.for, import |-> run.import, plan |-> run.plan]

Shapes ==
    /\ queue = [id |-> queue.id, download |-> queue.download, album |-> queue.album,
                messages |-> queue.messages, eligible |-> queue.eligible]
    /\ queue.id \in {1, 2} /\ download.version \in DOMAIN Contents
    /\ catalog = [monitored |-> catalog.monitored, refreshed |-> catalog.refreshed,
                  filed |-> catalog.filed]
    /\ catalog.refreshed \in BOOLEAN
    /\ workspaces = [w \in Roots |-> workspaces[w]]
    /\ job = [state |-> job.state, evidence |-> job.evidence, decision |-> job.decision,
              decided |-> job.decided]
    /\ run.pc \in Early \cup Late \cup {"idle", "submit", "submitted"}
    /\ run.pc \in Early \cup Late => Inspecting
    /\ Submitted => Importing

\* What has been true during a repair includes what is true now.
SinceOK ==
    /\ Missing \subseteq since.missing /\ catalog.monitored \in since.kept
    /\ EmptyOf(catalog) \subseteq since.empty /\ since.empty \subseteq Releases

\* The artifacts of a case are named by their positions.
EvidenceOK(e) ==
    e.root \in Roots /\ \A i \in DOMAIN e.case.artifacts : e.case.artifacts[i].path = i

\* The workspace of an inspection holds what the inspection knows of it, but for
\* files that were taken away.
WorkspaceIs(done, recovered, previous, w) ==
    /\ done.root \in Roots
    /\ ~recovered => \A p \in DOMAIN w[done.root] : w[done.root][p] = done.contents[p]
    /\ recovered =>
         /\ previous # Unknown /\ done.root = previous.root
         /\ \A i \in DOMAIN previous.case.artifacts :
              LET a == previous.case.artifacts[i]
              IN  a.path \in DOMAIN w[done.root] => w[done.root][a.path] = a.fingerprint
WorkspaceOK == WorkspaceIs(run.done, run.recovered, run.previous, workspaces)

\* A track that was read without a file has been missing, and a release that was
\* read without files has been empty.
CatalogOK ==
    /\ run.pc \in {"tracks", "imports"} => run.album.monitored \in since.kept
    /\ run.pc \notin {"tracks", "imports"} => run.tracks = <<>>
    /\ run.tracks \in Seq(SUBSET Tracks)
    /\ run.pc = "tracks" => Len(run.tracks) < Len(Order)
    /\ run.pc = "imports" => Len(run.tracks) = Len(Order)
    /\ \A i \in 1..Len(run.tracks) :
         /\ run.tracks[i] \subseteq run.filed \cup since.missing
         /\ run.tracks[i] \cap run.filed = {} => Order[i] \in since.empty

\* What an inspection in progress knows
InspectionOK ==
    /\ run.queue.id \in {1, 2}
    /\ run.previous # Unknown => EvidenceOK(run.previous)
    /\ run.pc \in Early => ~run.recovered
    /\ run.pc = "stored" => run.previous # Unknown
    /\ run.pc \in Late => WorkspaceOK
    /\ CatalogOK

\* The inductive invariant
EvidenceInv ==
    /\ Shapes /\ SinceOK
    /\ job.evidence # Unknown => EvidenceOK(job.evidence)
    /\ run.pc \in Early \cup Late => InspectionOK
    /\ Submitted => \A f \in run.import.files : f.path[1] \in Roots
    /\ ImportsWhatWasPlanned /\ ImportFitsAlbum

-----------------------------------------------------------------------------
(* The record of an inspection *)

\* What no call of an inspection changes
Fixed ==
    /\ Inspecting'
    /\ run'.for = run.for /\ run'.queue = run.queue /\ run'.previous = run.previous
    /\ run'.decision = run.decision

\* Each update of the record changes the fields it names.
LEMMA Moved ==
    ASSUME Inspecting, NEW pc, run' = [run EXCEPT !.pc = pc]
    PROVE  /\ Fixed /\ run'.pc = pc /\ run'.snapshot = run.snapshot /\ run'.done = run.done
           /\ run'.recovered = run.recovered /\ run'.album = run.album
           /\ run'.tracks = run.tracks /\ run'.filed = run.filed
  BY DEF Inspecting, Fixed

\* findArchive keeps what it found.
LEMMA Found ==
    ASSUME Inspecting, NEW pc, NEW found, run' = [run EXCEPT !.pc = pc, !.snapshot = found]
    PROVE  /\ Fixed /\ run'.pc = pc /\ run'.done = run.done
           /\ run'.recovered = run.recovered /\ run'.album = run.album
           /\ run'.tracks = run.tracks /\ run'.filed = run.filed
  BY DEF Inspecting, Fixed

\* A materialization
LEMMA Made ==
    ASSUME Inspecting, NEW pc, NEW done, run' = [run EXCEPT !.pc = pc, !.done = done]
    PROVE  /\ Fixed /\ run'.pc = pc /\ run'.done = done
           /\ run'.recovered = run.recovered /\ run'.album = run.album
           /\ run'.tracks = run.tracks /\ run'.filed = run.filed
  BY DEF Inspecting, Fixed

\* The planned files are taken up again.
LEMMA Kept ==
    ASSUME Inspecting, NEW pc, NEW done,
           run' = [run EXCEPT !.pc = pc, !.recovered = TRUE, !.done = done]
    PROVE  /\ Fixed /\ run'.pc = pc /\ run'.done = done
           /\ run'.recovered = TRUE /\ run'.album = run.album
           /\ run'.tracks = run.tracks /\ run'.filed = run.filed
  BY DEF Inspecting, Fixed

\* The album is read.
LEMMA AlbumRead ==
    ASSUME Inspecting, NEW pc, NEW album, run' = [run EXCEPT !.pc = pc, !.album = album]
    PROVE  /\ Fixed /\ run'.pc = pc /\ run'.done = run.done
           /\ run'.recovered = run.recovered /\ run'.album = album
           /\ run'.tracks = run.tracks /\ run'.filed = run.filed
  BY DEF Inspecting, Fixed

\* The tracks of a release are read.
LEMMA TracksRead ==
    ASSUME Inspecting, NEW pc, NEW tracks, NEW filed,
           run' = [run EXCEPT !.pc = pc, !.tracks = tracks, !.filed = filed]
    PROVE  /\ Fixed /\ run'.pc = pc /\ run'.done = run.done
           /\ run'.recovered = run.recovered /\ run'.album = run.album
           /\ run'.tracks = tracks /\ run'.filed = filed
  BY DEF Inspecting, Fixed

-----------------------------------------------------------------------------
(* The steps *)

\* Nothing changes in Lidarr.
LEMMA WorldStays ==
    ASSUME UNCHANGED <<catalog, since>>, SinceOK
    PROVE  SinceOK'
  BY Zenon DEF SinceOK, Missing, EmptyOf

\* An inspection ends without evidence, or none has begun.
LEMMA Over ==
    ASSUME EvidenceInv, run' = Resting, UNCHANGED <<world, since>>,
           job' = job \/ job' = [job EXCEPT !.state = "blocked"]
    PROVE  EvidenceInv'
<1>1. run'.pc = "idle"
  BY DEF Resting
<1>2. ~Submitted' /\ run'.pc \notin Early \cup Late
  BY Zenon, <1>1 DEF Submitted, Early, Late
<1>3. job'.evidence = job.evidence /\ job' = [state |-> job'.state, evidence |-> job'.evidence,
          decision |-> job'.decision, decided |-> job'.decided]
  BY DEF EvidenceInv, Shapes
<1>4. UNCHANGED <<download, workspaces, catalog, queue, since>>
  BY Zenon DEF world
<1>5. Shapes'
  BY Zenon, <1>1, <1>2, <1>3, <1>4 DEF EvidenceInv, Shapes
<1>6. SinceOK'
  BY Zenon, <1>4, WorldStays DEF EvidenceInv
<1>7. job'.evidence # Unknown => EvidenceOK(job.evidence)
  BY Zenon, <1>3 DEF EvidenceInv
<1>8. EvidenceOK(job'.evidence) <=> EvidenceOK(job.evidence)
  BY Zenon, <1>3
<1> QED
  BY Zenon, <1>2, <1>3, <1>5, <1>6, <1>7, <1>8
     DEF EvidenceInv, ImportsWhatWasPlanned, ImportFitsAlbum, ImportsOnlyMissing, KeepsRelease,
         ImportsOneToOne, EvidenceOK

\* An inspection goes on while the world stands still.
LEMMA GoesOn ==
    ASSUME EvidenceInv, UNCHANGED <<download, workspaces, catalog, queue, since, job>>,
           Inspecting', run'.pc \in Early \cup Late, InspectionOK'
    PROVE  EvidenceInv'
<1>1. ~Submitted' /\ run'.pc \notin {"submit", "submitted"}
  BY Zenon DEF Submitted, Early, Late
<1>2. Shapes'
  BY Zenon, <1>1 DEF EvidenceInv, Shapes
<1>3. SinceOK'
  BY Zenon, WorldStays DEF EvidenceInv
<1>4. (job.evidence # Unknown => EvidenceOK(job.evidence))'
  BY Zenon DEF EvidenceInv, EvidenceOK
<1> QED
  BY Zenon, <1>1, <1>2, <1>3, <1>4
     DEF EvidenceInv, ImportsWhatWasPlanned, ImportFitsAlbum, ImportsOnlyMissing, KeepsRelease,
         ImportsOneToOne

\* The positions of a sequence of no elements
LEMMA NoneRead == \A S : <<>> \in Seq(S) /\ Len(<<>>) = 0 /\ \A i \in 1..Len(<<>>) : FALSE
<1>1. Len(<<>>) = 0 /\ \A i \in 1..0 : FALSE
  OBVIOUS
<1> QED  BY Zenon, <1>1, EmptySeq

\* Nothing has been read yet.
LEMMA Begins ==
    ASSUME EvidenceInv, NEW purpose, Begin(purpose), UNCHANGED <<world, job>>
    PROVE  Inspecting' /\ run'.pc \in Early \cup Late /\ InspectionOK'
<1> DEFINE entry == recoverQueueIdentity(queue)
<1>1. entry.id = queue.id /\ queue.id \in {1, 2}
  BY DEF recoverQueueIdentity, EvidenceInv, Shapes
<1>2. /\ run'.pc \in {"find", "fail"} /\ run'.queue = entry /\ run'.previous = job.evidence
      /\ run'.tracks = <<>> /\ run'.recovered = FALSE /\ Inspecting'
  BY DEF Begin, Inspecting
<1> HIDE DEF entry
<1>3. run'.pc \in Early /\ run'.pc \notin Late /\ run'.pc \notin {"tracks", "imports", "stored"}
  BY Zenon, <1>2 DEF Early, Late
<1>4. (run.previous # Unknown => EvidenceOK(run.previous))'
  BY Zenon, <1>2 DEF EvidenceInv, EvidenceOK
<1>5. CatalogOK'
  BY Zenon, <1>2, <1>3, NoneRead DEF CatalogOK
<1> QED  BY Zenon, <1>1, <1>2, <1>3, <1>4, <1>5 DEF InspectionOK

\* Adapter.Observe
LEMMA ObserveStep == ASSUME EvidenceInv, ObserveEntry PROVE EvidenceInv'
<1>1. Begin("observe") /\ UNCHANGED <<world, job, since>>
  BY Zenon DEF ObserveEntry
<1>2. UNCHANGED <<download, workspaces, catalog, queue, since, job>>
  BY Zenon, <1>1 DEF world
<1> QED  BY Zenon, <1>1, <1>2, Begins, GoesOn

\* Adapter.Repair: what has been true since it began starts with what is true now.
LEMMA RepairStep == ASSUME EvidenceInv, Repair PROVE EvidenceInv'
<1>1. Begin("repair") /\ since' = Seen /\ UNCHANGED <<world, job>>
  BY Zenon DEF Repair
<1>2. UNCHANGED <<download, workspaces, catalog, queue, job>>
  BY Zenon, <1>1 DEF world
<1>3. Inspecting' /\ run'.pc \in Early \cup Late /\ InspectionOK'
  BY Zenon, <1>1, Begins
<1>4. ~Submitted' /\ run'.pc \notin {"submit", "submitted"}
  BY Zenon, <1>3 DEF Submitted, Early, Late
<1>5. Shapes'
  BY Zenon, <1>2, <1>3, <1>4 DEF EvidenceInv, Shapes
<1>6. since'.missing = Missing /\ since'.kept = {catalog.monitored} /\ since'.empty = EmptyOf(catalog)
  BY <1>1 DEF Seen
<1>7. SinceOK'
  BY Zenon, <1>2, <1>6 DEF SinceOK, Missing, EmptyOf
<1>8. (job.evidence # Unknown => EvidenceOK(job.evidence))'
  BY Zenon, <1>2 DEF EvidenceInv, EvidenceOK
<1> QED
  BY Zenon, <1>3, <1>4, <1>5, <1>7, <1>8
     DEF EvidenceInv, ImportsWhatWasPlanned, ImportFitsAlbum, ImportsOnlyMissing, KeepsRelease,
         ImportsOneToOne

\* What an inspection knows stays as it goes from one call to the next.
LEMMA NextCall ==
    ASSUME EvidenceInv, run.pc \in Early, UNCHANGED <<world, since, job>>, Fixed,
           run'.pc \in Early, run'.pc = "stored" => run.previous # Unknown, run'.tracks = run.tracks,
           run'.recovered = run.recovered
    PROVE  EvidenceInv'
<1>1. InspectionOK /\ run.pc \notin {"tracks", "imports"} /\ run'.pc \notin Late
      /\ run'.pc \notin {"tracks", "imports"}
  BY Zenon DEF EvidenceInv, Early, Late
<1>2. run.tracks = <<>> /\ run'.tracks = <<>>
  BY Zenon, <1>1 DEF InspectionOK, CatalogOK
<1>3. CatalogOK'
  BY Zenon, <1>1, <1>2, NoneRead DEF CatalogOK
<1>4. InspectionOK'
  BY Zenon, <1>1, <1>3 DEF InspectionOK, Fixed, EvidenceOK
<1>5. UNCHANGED <<download, workspaces, catalog, queue, since, job>>
  BY Zenon DEF world
<1> QED  BY Zenon, <1>4, <1>5, GoesOn DEF Fixed

\* findArchive
LEMMA FindStep == ASSUME EvidenceInv, findArchive PROVE EvidenceInv'
<1>1. run.pc = "find" /\ UNCHANGED <<world, since, job>>
  BY Zenon DEF findArchive, Still
<1>2. Inspecting /\ run.pc \in Early
  BY Zenon, <1>1 DEF EvidenceInv, Shapes, Early
<1>3. CASE run' = [run EXCEPT !.pc = "archive", !.snapshot = download]
  <2>1. Fixed /\ run'.pc = "archive" /\ run'.tracks = run.tracks /\ run'.recovered = run.recovered
    BY Zenon, <1>2, <1>3, Found
  <2> QED  BY Zenon, <1>1, <1>2, <2>1, NextCall DEF Early
<1>4. ASSUME NEW pc \in {"directory", "fail", "stored"}, Goes(pc),
             pc = "stored" => run.previous # Unknown
      PROVE  EvidenceInv'
  <2>1. Fixed /\ run'.pc = pc /\ run'.tracks = run.tracks /\ run'.recovered = run.recovered
    BY Zenon, <1>2, <1>4, Moved DEF Goes
  <2> QED  BY Zenon, <1>1, <1>2, <1>4, <2>1, NextCall DEF Early
<1> QED  BY Zenon, <1>3, <1>4 DEF findArchive

\* Root: every workspace of an entry is one of the workspaces.
LEMMA RootIsKnown ==
    ASSUME NEW kind, NEW id \in {1, 2}, NEW version \in DOMAIN Contents
    PROVE  Root(kind, id, version) \in Roots
<1>1. CASE kind = "dir"
  BY SMTT(60), <1>1 DEF Root, Roots
<1>2. CASE kind # "dir"
  <2>1. Root(kind, id, version) = Root("tar", id, version)
    BY Zenon, <1>2 DEF Root
  <2> QED  BY SMTT(60), <2>1 DEF Roots
<1> QED  BY Zenon, <1>1, <1>2

\* The worker's answer
LEMMA MaterializedStep ==
    ASSUME EvidenceInv, run.pc \in Early, NEW kind, NEW version \in DOMAIN Contents,
           Materialized(kind, version)
    PROVE  EvidenceInv'
<1> DEFINE root == Root(kind, run.queue.id, version)
           done == [root |-> root, kind |-> kind, fingerprint |-> version,
                    contents |-> Contents[version]]
<1>1. /\ workspaces' = [workspaces EXCEPT ![root] = Contents[version]]
      /\ run' = [run EXCEPT !.pc = "album", !.done = done]
      /\ UNCHANGED <<download, catalog, queue, job, since>>
  BY Zenon DEF Materialized, Still
<1>2. /\ Inspecting /\ InspectionOK /\ run.queue.id \in {1, 2} /\ ~run.recovered
      /\ run.pc \notin {"tracks", "imports"}
  BY Zenon DEF EvidenceInv, Shapes, InspectionOK, Early
<1>3. root \in Roots
  BY Zenon, <1>2, RootIsKnown
<1>4. done.root = root /\ done.contents = Contents[version]
  OBVIOUS
<1>5. workspaces'[root] = Contents[version] /\ workspaces' = [w \in Roots |-> workspaces'[w]]
  BY Zenon, <1>1, <1>3 DEF EvidenceInv, Shapes
<1> HIDE DEF root, done
<1>6. /\ Fixed /\ run'.pc = "album" /\ run'.done = done
      /\ run'.recovered = run.recovered /\ run'.tracks = run.tracks
  BY Zenon, <1>1, <1>2, Made
<1>7. WorkspaceOK'
  BY Zenon, <1>2, <1>3, <1>4, <1>5, <1>6 DEF WorkspaceOK, WorkspaceIs
<1>8. run.tracks = <<>>
  BY Zenon, <1>2 DEF InspectionOK, CatalogOK
<1>9. CatalogOK'
  BY Zenon, <1>6, <1>8, NoneRead DEF CatalogOK
<1>10. run'.pc \in Late /\ run'.pc \notin Early /\ run'.pc # "stored"
  BY Zenon, <1>6 DEF Late, Early
<1>11. InspectionOK'
  BY Zenon, <1>2, <1>6, <1>7, <1>9, <1>10 DEF InspectionOK, Fixed, EvidenceOK
<1>12. ~Submitted' /\ run'.pc \notin {"submit", "submitted"}
  BY Zenon, <1>6 DEF Submitted
<1>13. Shapes'
  BY Zenon, <1>1, <1>5, <1>6, <1>10, <1>12 DEF EvidenceInv, Shapes, Fixed
<1>14. SinceOK'
  BY Zenon, <1>1, WorldStays DEF EvidenceInv
<1>15. (job.evidence # Unknown => EvidenceOK(job.evidence))'
  BY Zenon, <1>1 DEF EvidenceInv, EvidenceOK
<1> QED
  BY Zenon, <1>11, <1>12, <1>13, <1>14, <1>15
     DEF EvidenceInv, ImportsWhatWasPlanned, ImportFitsAlbum, ImportsOnlyMissing, KeepsRelease,
         ImportsOneToOne

\* An inspection that ends
LEMMA EndStep == ASSUME EvidenceInv, Ends PROVE EvidenceInv'
  BY Zenon, Over DEF Ends

\* buildArchiveEvidence
LEMMA ArchiveStep == ASSUME EvidenceInv, buildArchiveEvidence PROVE EvidenceInv'
<1>1. run.pc \in Early /\ download.version \in DOMAIN Contents
  BY Zenon DEF buildArchiveEvidence, Early, EvidenceInv, Shapes
<1> QED  BY Zenon, <1>1, MaterializedStep, EndStep DEF buildArchiveEvidence

\* buildDirectoryEvidence
LEMMA DirectoryStep == ASSUME EvidenceInv, buildDirectoryEvidence PROVE EvidenceInv'
<1>1. run.pc = "directory" /\ run.pc \in Early /\ download.version \in DOMAIN Contents
  BY Zenon DEF buildDirectoryEvidence, Early, EvidenceInv, Shapes
<1>2. ASSUME Goes("stored"), run.previous # Unknown, UNCHANGED world, Still PROVE EvidenceInv'
  <2>1. Inspecting
    BY Zenon, <1>1 DEF EvidenceInv, Shapes
  <2>2. Fixed /\ run'.pc = "stored" /\ run'.tracks = run.tracks /\ run'.recovered = run.recovered
    BY Zenon, <1>2, <2>1, Moved DEF Goes
  <2>3. UNCHANGED <<world, since, job>>
    BY Zenon, <1>2 DEF Still
  <2> QED  BY Zenon, <1>1, <1>2, <2>2, <2>3, NextCall DEF Early
<1> QED  BY Zenon, <1>1, <1>2, MaterializedStep, EndStep DEF buildDirectoryEvidence

\* buildStoredEvidence: what was planned is still in the workspace.
LEMMA StoredStep == ASSUME EvidenceInv, buildStoredEvidence PROVE EvidenceInv'
<1> DEFINE planned == run.previous
           done == [root |-> planned.root, kind |-> planned.kind, fingerprint |-> planned.fingerprint]
<1>1. run.pc = "stored" /\ run.pc \in Early
  BY Zenon DEF buildStoredEvidence, Early
<1>2. /\ Inspecting /\ InspectionOK /\ planned # Unknown /\ EvidenceOK(planned)
  BY Zenon, <1>1 DEF EvidenceInv, Shapes, InspectionOK
<1>3. ASSUME verifyStoredArtifacts(workspaces[planned.root], planned), UNCHANGED world, Still,
             run' = [run EXCEPT !.pc = "album", !.recovered = TRUE, !.done = done]
      PROVE  EvidenceInv'
  <2>1. done.root = planned.root
    OBVIOUS
  <2> HIDE DEF done
  <2>2. /\ Fixed /\ run'.pc = "album" /\ run'.done = done
        /\ run'.recovered = TRUE /\ run'.tracks = run.tracks
    BY ZenonT(60), <1>2, <1>3, Kept
  <2>3. UNCHANGED <<download, workspaces, catalog, queue, since, job>>
    BY Zenon, <1>3 DEF Still, world
  <2>4. WorkspaceOK'
    <3>1. run'.done.root = planned.root /\ run'.previous = planned /\ planned.root \in Roots
      BY Zenon, <1>2, <2>1, <2>2 DEF Fixed, EvidenceOK
    <3>2. \A i \in DOMAIN planned.case.artifacts :
             workspaces[planned.root][planned.case.artifacts[i].path] = planned.case.artifacts[i].fingerprint
      BY Zenon, <1>3 DEF verifyStoredArtifacts
    <3> HIDE DEF planned
    <3> QED  BY Zenon, <1>2, <2>2, <2>3, <3>1, <3>2 DEF WorkspaceOK, WorkspaceIs
  <2>5. run.tracks = <<>>
    BY Zenon, <1>1, <1>2 DEF InspectionOK, CatalogOK
  <2>6. CatalogOK'
    BY Zenon, <2>2, <2>5, NoneRead DEF CatalogOK
  <2>7. run'.pc \in Late /\ run'.pc \notin Early /\ run'.pc # "stored"
    BY Zenon, <2>2 DEF Late, Early
  <2>8. InspectionOK'
    BY Zenon, <1>2, <2>2, <2>4, <2>6, <2>7 DEF InspectionOK, Fixed, EvidenceOK
  <2> QED  BY Zenon, <2>2, <2>3, <2>7, <2>8, GoesOn DEF Fixed
<1> QED  BY Zenon, <1>3, EndStep DEF buildStoredEvidence

\* The workspace stays what the inspection knows it to be.
LEMMA WorkspaceKnown ==
    ASSUME WorkspaceOK, run'.done = run.done, run'.recovered = run.recovered,
           run'.previous = run.previous, workspaces' = workspaces
    PROVE  WorkspaceOK'
  BY Zenon DEF WorkspaceOK

\* Numbers of tracks read
LEMMA Counting ==
    ASSUME NEW n \in Nat, NEW l \in Nat, n < l
    PROVE  /\ n + 1 \in 1..l /\ (n + 1 # l => n + 1 < l) /\ n + 1 \in Nat
           /\ \A i \in 1..(n + 1) : i \in 1..n \/ i = n + 1
  OBVIOUS

\* Lidarr lists at least one release.
LEMMA SomeRelease == Len(Order) \in Nat /\ 0 < Len(Order) /\ \A i \in 1..Len(Order) : Order[i] \in Releases
<1>1. Order \in Seq(Releases) /\ Order # <<>>
  BY Zenon, EvidenceAssumption
<1>2. Len(Order) \in Nat /\ \A i \in 1..Len(Order) : Order[i] \in Releases
  BY <1>1, LenProperties, ElementOfSeq
<1>4. Len(Order) # 0
  BY Zenon, <1>1, EmptySeq
<1>3. Len(Order) \in Nat /\ Len(Order) # 0 => 0 < Len(Order)
  OBVIOUS
<1> QED  BY Zenon, <1>2, <1>3, <1>4

\* readCatalog: the album
LEMMA AlbumStep == ASSUME EvidenceInv, ReadAlbum PROVE EvidenceInv'
<1> DEFINE album == [id |-> Album, monitored |-> catalog.monitored,
                     counts |-> [r \in Releases |-> Cardinality(TracksOf(r, catalog.refreshed))]]
<1>1. /\ run.pc = "album" /\ UNCHANGED <<world, since, job>>
      /\ run' = [run EXCEPT !.pc = "tracks", !.album = album]
  BY Zenon DEF ReadAlbum, Still
<1>2. album.monitored = catalog.monitored
  OBVIOUS
<1> HIDE DEF album
<1>3. Inspecting /\ InspectionOK /\ run.pc \in Late /\ run.pc \notin {"tracks", "imports"}
  BY Zenon, <1>1 DEF EvidenceInv, Shapes, Late
<1>4. /\ Fixed /\ run'.pc = "tracks" /\ run'.done = run.done /\ run'.album = album
      /\ run'.recovered = run.recovered /\ run'.tracks = run.tracks
  BY Zenon, <1>1, <1>3, AlbumRead
<1>5. UNCHANGED <<download, workspaces, catalog, queue, since, job>>
  BY Zenon, <1>1 DEF world
<1>6. WorkspaceOK'
  BY Zenon, <1>3, <1>4, <1>5, WorkspaceKnown DEF InspectionOK, Fixed
<1>7. run'.tracks = <<>>
  BY Zenon, <1>3, <1>4 DEF InspectionOK, CatalogOK
<1>8. run'.album.monitored \in since'.kept
  BY Zenon, <1>2, <1>4, <1>5 DEF EvidenceInv, SinceOK
<1>9. CatalogOK'
  BY Zenon, <1>4, <1>7, <1>8, NoneRead, SomeRelease DEF CatalogOK
<1>10. run'.pc \in Late /\ run'.pc \notin Early /\ run'.pc # "stored"
  BY Zenon, <1>4 DEF Late, Early
<1>11. InspectionOK'
  BY Zenon, <1>3, <1>4, <1>6, <1>9, <1>10 DEF InspectionOK, Fixed, EvidenceOK
<1> QED  BY Zenon, <1>4, <1>5, <1>10, <1>11, GoesOn DEF Fixed

\* readCatalog: the tracks of a release
LEMMA ReleaseStep == ASSUME EvidenceInv, ReadReleaseTracks PROVE EvidenceInv'
<1> DEFINE n == Len(run.tracks)
           release == Order[n + 1]
           read == TracksOf(release, catalog.refreshed)
           filed == run.filed \cup (catalog.filed \cap read)
           pc == IF n + 1 = Len(Order) THEN "imports" ELSE "tracks"
<1>1. /\ run.pc = "tracks" /\ UNCHANGED <<world, since, job>>
      /\ run' = [run EXCEPT !.pc = pc, !.tracks = Append(run.tracks, read), !.filed = filed]
  BY Zenon DEF ReadReleaseTracks, Still
<1>2. Inspecting /\ InspectionOK /\ run.pc \in Late /\ CatalogOK /\ SinceOK /\ catalog.refreshed \in BOOLEAN
  BY Zenon, <1>1 DEF EvidenceInv, Shapes, Late, InspectionOK
<1>3. /\ run.tracks \in Seq(SUBSET Tracks) /\ n < Len(Order) /\ n \in Nat
      /\ run.album.monitored \in since.kept
  BY Zenon, <1>1, <1>2, LenProperties DEF CatalogOK
<1>4. /\ n + 1 \in 1..Len(Order) /\ (n + 1 # Len(Order) => n + 1 < Len(Order))
      /\ \A i \in 1..(n + 1) : i \in 1..n \/ i = n + 1
  BY Zenon, <1>3, SomeRelease, Counting
<1>5. release \in Releases
  BY Zenon, <1>4, SomeRelease
<1>6. read \subseteq Tracks
  BY <1>2, <1>5 DEF Tracks
<1> DEFINE all == Append(run.tracks, read)
<1>7. /\ all \in Seq(SUBSET Tracks) /\ Len(all) = n + 1 /\ all[n + 1] = read
      /\ \A i \in 1..n : all[i] = run.tracks[i]
  <2>1. read \in SUBSET Tracks
    BY Zenon, <1>6
  <2> HIDE DEF read
  <2> QED  BY <1>3, <2>1, AppendProperties
<1>8. read \subseteq filed \cup since.missing /\ (read \cap filed = {} => release \in since.empty)
  BY Zenon, <1>2, <1>5, <1>6 DEF SinceOK, Missing, EmptyOf
<1>9. \A i \in 1..n : /\ run.tracks[i] \subseteq filed \cup since.missing
                      /\ run.tracks[i] \cap filed = {} => Order[i] \in since.empty
  BY Zenon, <1>2 DEF CatalogOK
<1> HIDE DEF n, release, read, filed, all
<1>10. ASSUME NEW i \in 1..(n + 1)
       PROVE  /\ all[i] \subseteq filed \cup since.missing
              /\ all[i] \cap filed = {} => Order[i] \in since.empty
  <2>1. CASE i \in 1..n
    BY Zenon, <2>1, <1>7, <1>9
  <2>2. CASE i = n + 1
    BY Zenon, <2>2, <1>7, <1>8 DEF release
  <2> QED  BY Zenon, <2>1, <2>2, <1>4
<1>11. /\ Fixed /\ run'.pc = pc /\ run'.done = run.done /\ run'.album = run.album
       /\ run'.recovered = run.recovered /\ run'.tracks = all /\ run'.filed = filed
  BY ZenonT(60), <1>1, <1>2, TracksRead DEF all
<1>12. UNCHANGED <<download, workspaces, catalog, queue, since, job>>
  BY Zenon, <1>1 DEF world
<1>13. WorkspaceOK'
  BY Zenon, <1>2, <1>11, <1>12, WorkspaceKnown DEF InspectionOK, Fixed
<1>14. pc \in {"tracks", "imports"} /\ (pc = "imports" => n + 1 = Len(Order)) /\ (pc = "tracks" => n + 1 < Len(Order))
  BY Zenon, <1>4
<1>15. CatalogOK'
  BY Zenon, <1>3, <1>7, <1>10, <1>11, <1>12, <1>14 DEF CatalogOK
<1>16. run'.pc \in Late /\ run'.pc \notin Early /\ run'.pc # "stored"
  BY Zenon, <1>11, <1>14 DEF Late, Early
<1>17. InspectionOK'
  BY Zenon, <1>2, <1>11, <1>13, <1>15, <1>16 DEF InspectionOK, Fixed, EvidenceOK
<1> QED  BY Zenon, <1>11, <1>12, <1>16, <1>17, GoesOn DEF Fixed

-----------------------------------------------------------------------------
(* The evidence and the import *)

\* A case that is assembled is made of what was read.
MadeOf(c, a, t, f, artifacts) ==
    /\ c.artifacts = artifacts /\ c.tracks = t /\ c.filed = f
    /\ c.capabilities = buildImportCapabilities(a.monitored, t, f)

\* assembleCase
LEMMA CaseAssembled ==
    ASSUME NEW q, NEW a, NEW t, NEW f, NEW artifacts, NEW opinions,
           NEW c \in assembleCase(q, a, t, f, artifacts, opinions)
    PROVE  MadeOf(c, a, t, f, artifacts)
<1>1. c = [queue |-> q.id, download |-> q.download, messages |-> q.messages,
           album |-> a.id, monitored |-> a.monitored, tracks |-> t, filed |-> f,
           artifacts |-> artifacts, assessments |-> opinions,
           capabilities |-> buildImportCapabilities(a.monitored, t, f)]
  BY Zenon DEF assembleCase
<1> QED  BY <1>1 DEF MadeOf

\* The bindings of a case name its artifacts in its workspace.
BoundTo(made, a, t, f, root, artifacts) ==
    /\ MadeOf(made.case, a, t, f, artifacts)
    /\ \A i \in DOMAIN artifacts : made.bindings[i].path = <<root, artifacts[i].path>>

\* Assemble and AssembleStored
LEMMA AssembledFrom ==
    ASSUME NEW q, NEW a, NEW t, NEW f, NEW root, NEW artifacts, NEW items,
           NEW made \in AssembleFrom(q, a, t, f, root, artifacts, items)
    PROVE  BoundTo(made, a, t, f, root, artifacts)
<1> DEFINE opinions == [i \in DOMAIN artifacts |-> contractAssessment(items[artifacts[i].path])]
           bound == [i \in DOMAIN artifacts |->
                       bindingFromImport(root, artifacts[i], items[artifacts[i].path], q.download)]
<1>1. made \in {[case |-> c, bindings |-> bound] : c \in assembleCase(q, a, t, f, artifacts, opinions)}
  BY Zenon DEF AssembleFrom
<1>2. \A i \in DOMAIN artifacts : bound[i].path = <<root, artifacts[i].path>>
  BY DEF bindingFromImport
<1> HIDE DEF opinions, bound
<1>3. PICK c \in assembleCase(q, a, t, f, artifacts, opinions) : made = [case |-> c, bindings |-> bound]
  BY Zenon, <1>1
<1>4. made.case = c /\ made.bindings = bound
  BY <1>3
<1>5. MadeOf(c, a, t, f, artifacts)
  BY Zenon, <1>3, CaseAssembled
<1> QED  BY Zenon, <1>2, <1>4, <1>5 DEF BoundTo

\* The tracks of a release are those that were read for its place in the list.
ReadTracks == [r \in Releases |-> run.tracks[CHOOSE i \in DOMAIN Order : Order[i] = r]]

\* What the catalogue says of a release was so at some time of the repair.
LEMMA TracksKnown ==
    ASSUME CatalogOK, run.pc = "imports", NEW r \in Releases
    PROVE  /\ ReadTracks[r] \subseteq run.filed \cup since.missing
           /\ ReadTracks[r] \cap run.filed = {} => r \in since.empty
<1> DEFINE i == CHOOSE i \in DOMAIN Order : Order[i] = r
<1>1. Order \in Seq(Releases) /\ Range(Order) = Releases
  BY Zenon, EvidenceAssumption
<1>2. DOMAIN Order = 1..Len(Order)
  BY Zenon, <1>1, LenProperties
<1>3. i \in DOMAIN Order /\ Order[i] = r
  BY Zenon, <1>1 DEF Range
<1>4. ReadTracks[r] = run.tracks[i]
  BY Zenon DEF ReadTracks
<1> HIDE DEF i
<1>5. i \in 1..Len(run.tracks)
  BY Zenon, <1>2, <1>3 DEF CatalogOK
<1> QED  BY Zenon, <1>3, <1>4, <1>5 DEF CatalogOK

\* What an inspection has come to: its artifacts are named by their positions,
\* and the workspace holds them, but for files that were taken away.
LEMMA EvidenceIs ==
    ASSUME EvidenceInv, run.pc = "imports", NEW e \in Evidence
    PROVE  /\ e.root = run.done.root /\ EvidenceOK(e)
           /\ e.case.tracks = ReadTracks /\ e.case.filed = run.filed
           /\ e.case.capabilities = buildImportCapabilities(run.album.monitored, ReadTracks, run.filed)
           /\ run.recovered => e.case.artifacts = run.previous.case.artifacts
           /\ \A i \in DOMAIN e.case.artifacts :
                /\ e.bindings[i].path = <<e.root, i>>
                /\ i \in DOMAIN workspaces[e.root] =>
                     workspaces[e.root][i] = e.case.artifacts[i].fingerprint
<1>1. run.pc \in Late /\ InspectionOK /\ WorkspaceOK
  BY Zenon DEF EvidenceInv, InspectionOK, Late
<1> DEFINE items == ReadManualImports(run.done.root)
           assembled == IF run.recovered
             THEN AssembleStored(run.queue, run.album, ReadTracks, run.filed, run.previous, items)
             ELSE Assemble(run.queue, run.album, ReadTracks, run.filed, run.done, items)
           artifacts == IF run.recovered THEN run.previous.case.artifacts
             ELSE [i \in DOMAIN run.done.contents |-> contractArtifact(i, run.done.contents[i])]
<1>2. PICK made \in assembled :
        e = [kind |-> run.done.kind, fingerprint |-> run.done.fingerprint, root |-> run.done.root,
             case |-> made.case, bindings |-> made.bindings]
  BY Zenon DEF Evidence, ReadTracks
<1>3. e.root = run.done.root /\ e.case = made.case /\ e.bindings = made.bindings
  BY <1>2
<1>4. run.recovered => run.previous.root = run.done.root
  BY Zenon, <1>1 DEF WorkspaceOK, WorkspaceIs
<1>5. made \in AssembleFrom(run.queue, run.album, ReadTracks, run.filed, run.done.root, artifacts, items)
  BY Zenon, <1>2, <1>4 DEF AssembleStored, Assemble
<1>6. \A i \in DOMAIN artifacts : artifacts[i].path = i
  <2>1. CASE run.recovered
    BY Zenon, <1>1, <2>1 DEF WorkspaceOK, WorkspaceIs, InspectionOK, EvidenceOK
  <2>2. CASE ~run.recovered
    BY <2>2 DEF contractArtifact
  <2> QED  BY Zenon, <2>1, <2>2
<1>7. \A i \in DOMAIN artifacts :
         i \in DOMAIN workspaces[run.done.root] => workspaces[run.done.root][i] = artifacts[i].fingerprint
  <2>1. CASE run.recovered
    BY Zenon, <1>1, <1>6, <2>1 DEF WorkspaceOK, WorkspaceIs
  <2>2. CASE ~run.recovered
    <3>1. \A i \in DOMAIN artifacts : artifacts[i].fingerprint = run.done.contents[i]
      BY <2>2 DEF contractArtifact
    <3> HIDE DEF artifacts
    <3> QED  BY Zenon, <1>1, <2>2, <3>1 DEF WorkspaceOK, WorkspaceIs
  <2> QED  BY Zenon, <2>1, <2>2
<1>8. run.recovered => artifacts = run.previous.case.artifacts
  OBVIOUS
<1> HIDE DEF items, assembled, artifacts
<1>9. /\ made.case.artifacts = artifacts /\ made.case.tracks = ReadTracks /\ made.case.filed = run.filed
      /\ made.case.capabilities = buildImportCapabilities(run.album.monitored, ReadTracks, run.filed)
      /\ \A i \in DOMAIN artifacts : made.bindings[i].path = <<run.done.root, artifacts[i].path>>
  <2>1. BoundTo(made, run.album, ReadTracks, run.filed, run.done.root, artifacts)
    BY Zenon, <1>5, AssembledFrom
  <2> QED  BY Zenon, <2>1 DEF BoundTo, MadeOf
<1>10. run.done.root \in Roots
  BY Zenon, <1>1 DEF WorkspaceOK, WorkspaceIs
<1>11. \A i \in DOMAIN artifacts : made.bindings[i].path = <<run.done.root, i>>
  BY Zenon, <1>6, <1>9
<1>12. EvidenceOK(e)
  BY Zenon, <1>3, <1>6, <1>9, <1>10 DEF EvidenceOK
<1> QED  BY Zenon, <1>3, <1>7, <1>8, <1>9, <1>11, <1>12

\* Nothing is in progress, and the job keeps evidence of the right form.
LEMMA AtRestWith ==
    ASSUME EvidenceInv, run' = Resting, UNCHANGED <<world, since>>,
           job' = [state |-> job'.state, evidence |-> job'.evidence, decision |-> job'.decision,
                   decided |-> job'.decided],
           job'.evidence # Unknown => EvidenceOK(job'.evidence)
    PROVE  EvidenceInv'
<1>1. run'.pc = "idle"
  BY DEF Resting
<1>2. ~Submitted' /\ run'.pc \notin Early \cup Late
  BY Zenon, <1>1 DEF Submitted, Early, Late
<1>3. UNCHANGED <<download, workspaces, catalog, queue, since>>
  BY Zenon DEF world
<1>4. Shapes'
  BY Zenon, <1>1, <1>2, <1>3 DEF EvidenceInv, Shapes
<1>5. SinceOK'
  BY Zenon, <1>3, WorldStays DEF EvidenceInv
<1>6. (job.evidence # Unknown => EvidenceOK(job.evidence))'
  BY Zenon DEF EvidenceOK
<1> QED
  BY Zenon, <1>2, <1>4, <1>5, <1>6
     DEF EvidenceInv, ImportsWhatWasPlanned, ImportFitsAlbum, ImportsOnlyMissing, KeepsRelease,
         ImportsOneToOne

\* jobs.Store.Observe keeps the evidence of the inspection or the one it had.
LEMMA ObserveEndsStep == ASSUME EvidenceInv, ObserveEnds PROVE EvidenceInv'
<1>1. CASE Ends
  BY Zenon, <1>1, EndStep
<1>2. ASSUME NEW e \in Evidence, job' = ObservedJob(e), run' = Resting, UNCHANGED <<world, since>>
      PROVE  EvidenceInv'
  <2>1. EvidenceOK(e)
    BY Zenon, EvidenceIs DEF ObserveEnds
  <2>2. /\ job' = [state |-> job'.state, evidence |-> job'.evidence, decision |-> job'.decision,
                   decided |-> job'.decided]
        /\ job'.evidence \in {e, job.evidence}
    <3>1. job = [state |-> job.state, evidence |-> job.evidence, decision |-> job.decision,
                 decided |-> job.decided]
      BY Zenon DEF EvidenceInv, Shapes
    <3>2. PICK state, decision :
            \/ job' = [job EXCEPT !.evidence = e, !.state = state, !.decision = decision]
            \/ job' = job
            \/ job' = [job EXCEPT !.evidence = e]
      BY Zenon, <1>2 DEF ObservedJob
    <3> QED  BY <3>1, <3>2
  <2>3. job'.evidence # Unknown => EvidenceOK(job'.evidence)
    BY Zenon, <2>1, <2>2 DEF EvidenceInv
  <2> QED  BY Zenon, <1>2, <2>2, <2>3, AtRestWith
<1> QED  BY Zenon, <1>1, <1>2 DEF ObserveEnds

\* Adapter.Plan
LEMMA PlanStep == ASSUME EvidenceInv, Plan PROVE EvidenceInv'
<1>1. PICK state, d, decided :
        job' = [job EXCEPT !.state = state, !.decision = d, !.decided = decided]
  BY Zenon DEF Plan
<1>2. run' = Resting /\ UNCHANGED <<world, since>>
  BY Zenon DEF Plan
<1>3. /\ job' = [state |-> job'.state, evidence |-> job'.evidence, decision |-> job'.decision,
                 decided |-> job'.decided]
      /\ job'.evidence = job.evidence
  BY <1>1 DEF EvidenceInv, Shapes
<1>4. job'.evidence # Unknown => EvidenceOK(job'.evidence)
  BY Zenon, <1>3 DEF EvidenceInv
<1> QED  BY Zenon, <1>2, <1>3, <1>4, AtRestWith

\* The operator asks for a new decision.
LEMMA ReconsiderStep == ASSUME EvidenceInv, Reconsider PROVE EvidenceInv'
<1>1. /\ job' = [job EXCEPT !.state = "observed", !.decided = {}]
      /\ run' = Resting /\ UNCHANGED <<world, since>>
  BY Zenon DEF Reconsider
<1>2. /\ job' = [state |-> job'.state, evidence |-> job'.evidence, decision |-> job'.decision,
                 decided |-> job'.decided]
      /\ job'.evidence = job.evidence
  BY <1>1 DEF EvidenceInv, Shapes
<1>3. job'.evidence # Unknown => EvidenceOK(job'.evidence)
  BY Zenon, <1>2 DEF EvidenceInv
<1> QED  BY Zenon, <1>1, <1>2, <1>3, AtRestWith

\* A call of an inspection fails.
LEMMA FailsStep == ASSUME EvidenceInv, Fails PROVE EvidenceInv'
<1>1. /\ run' = Resting /\ UNCHANGED <<world, since>>
      /\ job' = job \/ job' = [job EXCEPT !.state = "blocked"]
  BY Zenon DEF Fails
<1> QED  BY Zenon, <1>1, Over

\* What an import that is granted takes from the decision and the case of now
GrantOf(g, d, case, bindings) ==
    /\ g.release = d.release /\ g.keepRelease = albumHasFiles(case.tracks, case.filed)
    /\ g.files = {[path |-> bindings[m[1]].path, track |-> m[2],
                   fingerprint |-> case.artifacts[m[1]].fingerprint] : m \in Range(d.mappings)}
    /\ d.release \in DOMAIN case.capabilities
    /\ \A m \in Range(d.mappings) : m[1] \in DOMAIN case.artifacts
                                    /\ m[2] \in case.capabilities[d.release]
    /\ \A i, j \in DOMAIN d.mappings : i # j => /\ d.mappings[i][1] # d.mappings[j][1]
                                                /\ d.mappings[i][2] # d.mappings[j][2]

\* AuthorizeImport grants only what the case of now allows.
LEMMA Granted ==
    ASSUME NEW planned, NEW current, NEW g \in AuthorizeImport(planned, current)
    PROVE  /\ GrantOf(g, planned.decision, current.case, current.bindings)
           /\ ~current.recovered => planned.case = current.case
<1> DEFINE d == planned.decision
           files == {[path |-> current.bindings[m[1]].path, track |-> m[2],
                      fingerprint |-> current.case.artifacts[m[1]].fingerprint] :
                       m \in Range(d.mappings)}
<1>1. /\ g \in Authorized(planned, current) /\ d.kind = Import
      /\ validateDecisionSelection(current.case, d)
      /\ ~current.recovered => planned.case = current.case
  BY Zenon DEF AuthorizeImport, ValidateDecision
<1>2. g = [release |-> d.release, keepRelease |-> albumHasFiles(current.case.tracks, current.case.filed), files |-> files]
  BY Zenon, <1>1 DEF Authorized
<1> HIDE DEF files
<1>3. g.release = d.release /\ g.keepRelease = albumHasFiles(current.case.tracks, current.case.filed) /\ g.files = files
  BY <1>2
<1>4. /\ d.release \in DOMAIN current.case.capabilities
      /\ \A m \in Range(d.mappings) : m[1] \in DOMAIN current.case.artifacts
                                      /\ m[2] \in current.case.capabilities[d.release]
      /\ \A i, j \in DOMAIN d.mappings : i # j => /\ d.mappings[i][1] # d.mappings[j][1]
                                                  /\ d.mappings[i][2] # d.mappings[j][2]
  BY Zenon, <1>1 DEF validateDecisionSelection
<1> QED  BY Zenon, <1>1, <1>3, <1>4 DEF files, GrantOf

\* A capability names missing tracks, and only an album without files has one for
\* a release that it does not monitor.
LEMMA Capability ==
    ASSUME NEW monitored, NEW t, NEW f,
           NEW release \in DOMAIN buildImportCapabilities(monitored, t, f)
    PROVE  /\ release \in Releases
           /\ buildImportCapabilities(monitored, t, f)[release] = t[release] \ f
           /\ release = monitored \/ ~albumHasFiles(t, f)
  BY Zenon DEF buildImportCapabilities

\* An import into another release, or one that may switch it, is made only if
\* every release was read without files.
LEMMA ReleaseKept ==
    ASSUME EvidenceInv, run.pc = "imports",
           NEW release \in DOMAIN buildImportCapabilities(run.album.monitored, ReadTracks, run.filed)
    PROVE  since.empty = Releases \/ (release \in since.kept /\ albumHasFiles(ReadTracks, run.filed))
<1>1. CatalogOK /\ SinceOK
  BY Zenon DEF EvidenceInv, InspectionOK, Late
<1>2. CASE ~albumHasFiles(ReadTracks, run.filed)
  <2>1. ASSUME NEW s \in Releases PROVE s \in since.empty
    <3>1. ReadTracks[s] \cap run.filed = {}
      BY Zenon, <1>2 DEF albumHasFiles
    <3> QED  BY Zenon, <1>1, <3>1, TracksKnown
  <2> QED  BY Zenon, <1>1, <2>1 DEF SinceOK
<1>3. CASE albumHasFiles(ReadTracks, run.filed)
  <2>1. release = run.album.monitored
    BY <1>3, Capability
  <2> QED  BY Zenon, <1>1, <1>3, <2>1 DEF CatalogOK
<1> QED  BY Zenon, <1>2, <1>3

\* AuthorizeImport: the import is of the planned files, into a release that may
\* be imported into.
LEMMA AuthorizeStep == ASSUME EvidenceInv, Authorize PROVE EvidenceInv'
<1>1. run.pc = "imports"
  BY Zenon DEF Authorize
<1>2. CASE Ends
  BY Zenon, <1>2, EndStep
<1>3. ASSUME NEW e \in Evidence,
             NEW g \in AuthorizeImport(Planned,
                         [kind |-> e.kind, fingerprint |-> e.fingerprint, root |-> e.root,
                          case |-> e.case, bindings |-> e.bindings, recovered |-> run.recovered]),
             run' = [pc |-> "submit", for |-> "repair", import |-> g, plan |-> Planned],
             UNCHANGED <<world, since, job>>
      PROVE  EvidenceInv'
  <2> DEFINE current == [kind |-> e.kind, fingerprint |-> e.fingerprint, root |-> e.root,
                         case |-> e.case, bindings |-> e.bindings, recovered |-> run.recovered]
             d == run.decision
             artifacts == e.case.artifacts
             file(m) == [path |-> e.bindings[m[1]].path, track |-> m[2],
                         fingerprint |-> artifacts[m[1]].fingerprint]
  <2>1. /\ run'.pc = "submit" /\ run'.import = g /\ run'.plan = Planned /\ Importing'
        /\ UNCHANGED <<download, workspaces, catalog, queue, since, job>>
    BY <1>3 DEF Importing, world
  <2>2. Planned.case = run.previous.case /\ Planned.decision = d
    BY DEF Planned
  <2>3. current.case = e.case /\ current.bindings = e.bindings /\ current.recovered = run.recovered
    OBVIOUS
  <2>4. /\ e.root = run.done.root /\ EvidenceOK(e)
        /\ e.case.tracks = ReadTracks /\ e.case.filed = run.filed
        /\ e.case.capabilities = buildImportCapabilities(run.album.monitored, ReadTracks, run.filed)
        /\ run.recovered => artifacts = run.previous.case.artifacts
        /\ \A i \in DOMAIN artifacts :
             /\ e.bindings[i].path = <<e.root, i>>
             /\ i \in DOMAIN workspaces[e.root] => workspaces[e.root][i] = artifacts[i].fingerprint
    BY Zenon, <1>1, <1>3, EvidenceIs
  <2> HIDE DEF current, d, artifacts
  <2>5. /\ g.release = d.release /\ g.keepRelease = albumHasFiles(e.case.tracks, e.case.filed)
        /\ g.files = {file(m) : m \in Range(d.mappings)}
        /\ ~run.recovered => run.previous.case = e.case
        /\ d.release \in DOMAIN e.case.capabilities
        /\ \A m \in Range(d.mappings) : m[1] \in DOMAIN artifacts
                                        /\ m[2] \in e.case.capabilities[d.release]
        /\ \A i, j \in DOMAIN d.mappings : i # j => /\ d.mappings[i][1] # d.mappings[j][1]
                                                    /\ d.mappings[i][2] # d.mappings[j][2]
    <3>1. g \in AuthorizeImport(Planned, current)
      BY Zenon, <1>3 DEF current
    <3>2. /\ GrantOf(g, Planned.decision, current.case, current.bindings)
          /\ ~current.recovered => Planned.case = current.case
      BY Zenon, <3>1, Granted
    <3>3. GrantOf(g, d, e.case, e.bindings) /\ (~run.recovered => run.previous.case = e.case)
      BY Zenon, <2>2, <2>3, <3>2
    <3> QED  BY Zenon, <3>3 DEF GrantOf, artifacts
  <2>6. Planned.case.artifacts = artifacts
    BY Zenon, <2>2, <2>4, <2>5 DEF artifacts
  <2>7. ASSUME NEW m \in Range(d.mappings)
        PROVE  /\ file(m).path = <<e.root, m[1]>> /\ file(m).track = m[2]
               /\ file(m).fingerprint = artifacts[m[1]].fingerprint
               /\ m[1] \in DOMAIN artifacts
               /\ file(m).path[1] = e.root /\ file(m).path[2] = m[1]
    <3>1. m[1] \in DOMAIN artifacts /\ e.bindings[m[1]].path = <<e.root, m[1]>>
      BY Zenon, <2>4, <2>5
    <3> QED  BY <3>1
  <2> HIDE DEF file
  <2>17. \A f \in g.files : \E m \in Range(d.mappings) : f = file(m)
    BY Zenon, <2>5
  <2>8. \A f \in g.files : f.path[1] \in Roots
    BY ZenonT(60), <2>4, <2>7, <2>17 DEF EvidenceOK
  <2>9. ImportsWhatWasPlanned'
    <3>1. ASSUME NEW m \in Range(d.mappings)
          PROVE  LET f == file(m)
                 IN  /\ m[2] = f.track /\ artifacts[m[1]].fingerprint = f.fingerprint
                     /\ f.path[2] \in DOMAIN workspaces[f.path[1]] =>
                          workspaces[f.path[1]][f.path[2]] = artifacts[m[1]].fingerprint
      BY Zenon, <2>4, <2>7
    <3>2. \A f \in g.files : \E m \in Range(d.mappings) :
             /\ m[2] = f.track /\ artifacts[m[1]].fingerprint = f.fingerprint
             /\ f.path[2] \in DOMAIN workspaces[f.path[1]] =>
                  workspaces[f.path[1]][f.path[2]] = artifacts[m[1]].fingerprint
      BY Zenon, <2>17, <3>1
    <3> QED  BY Zenon, <2>1, <2>2, <2>6, <3>2 DEF ImportsWhatWasPlanned
  <2>10. ImportsOnlyMissing'
    <3>1. ASSUME NEW m \in Range(d.mappings) PROVE m[2] \in since.missing
      <4>3. /\ d.release \in DOMAIN buildImportCapabilities(run.album.monitored, ReadTracks, run.filed)
            /\ m[2] \in buildImportCapabilities(run.album.monitored, ReadTracks, run.filed)[d.release]
        BY Zenon, <2>4, <2>5
      <4>1. d.release \in Releases /\ m[2] \in ReadTracks[d.release] \ run.filed
        BY <4>3, Capability
      <4>2. CatalogOK
        BY Zenon, <1>1 DEF EvidenceInv, InspectionOK, Late
      <4> QED  BY Zenon, <1>1, <4>1, <4>2, TracksKnown
    <3>2. \A f \in g.files : f.track \in since.missing
      BY Zenon, <2>7, <2>17, <3>1
    <3> QED  BY Zenon, <2>1, <3>2 DEF ImportsOnlyMissing
  <2>11. KeepsRelease'
    <3>1. since.empty = Releases \/ (d.release \in since.kept /\ albumHasFiles(ReadTracks, run.filed))
      <4>1. d.release \in DOMAIN buildImportCapabilities(run.album.monitored, ReadTracks, run.filed)
        BY Zenon, <2>4, <2>5
      <4> QED  BY Zenon, <1>1, <4>1, ReleaseKept
    <3>2. since.empty = Releases \/ (g.release \in since.kept /\ g.keepRelease)
      BY Zenon, <2>4, <2>5, <3>1
    <3> QED  BY Zenon, <2>1, <3>2 DEF KeepsRelease
  <2>12. ImportsOneToOne'
    <3>1. ASSUME NEW i \in DOMAIN d.mappings, NEW j \in DOMAIN d.mappings, i # j
          PROVE  /\ file(d.mappings[i]).path # file(d.mappings[j]).path
                 /\ file(d.mappings[i]).track # file(d.mappings[j]).track
      <4>1. d.mappings[i] \in Range(d.mappings) /\ d.mappings[j] \in Range(d.mappings)
        BY Zenon DEF Range
      <4>2. d.mappings[i][1] # d.mappings[j][1] /\ d.mappings[i][2] # d.mappings[j][2]
        BY Zenon, <2>5, <3>1
      <4>3. /\ file(d.mappings[i]).path = <<e.root, d.mappings[i][1]>>
            /\ file(d.mappings[j]).path = <<e.root, d.mappings[j][1]>>
            /\ file(d.mappings[i]).track = d.mappings[i][2]
            /\ file(d.mappings[j]).track = d.mappings[j][2]
        BY ZenonT(60), <2>7, <4>1
      <4>4. file(d.mappings[i]).path # file(d.mappings[j]).path
        BY <4>2, <4>3
      <4> QED  BY Zenon, <4>2, <4>3, <4>4
    <3>2. \A f \in g.files : \E i \in DOMAIN d.mappings : f = file(d.mappings[i])
      BY Zenon, <2>17 DEF Range
    <3>3. ASSUME NEW f \in g.files, NEW h \in g.files, f # h
          PROVE  f.path # h.path /\ f.track # h.track
      <4>1. PICK i \in DOMAIN d.mappings : f = file(d.mappings[i])
        BY Zenon, <3>2
      <4>2. PICK j \in DOMAIN d.mappings : h = file(d.mappings[j])
        BY Zenon, <3>2
      <4>3. i # j
        BY Zenon, <3>3, <4>1, <4>2
      <4> QED  BY Zenon, <3>1, <4>1, <4>2, <4>3
    <3> QED  BY Zenon, <2>1, <3>3 DEF ImportsOneToOne
  <2>13. Submitted' /\ run'.pc \notin Early \cup Late
    BY Zenon, <2>1 DEF Submitted, Early, Late
  <2>14. Shapes'
    BY Zenon, <2>1, <2>13 DEF EvidenceInv, Shapes
  <2>15. SinceOK'
    BY Zenon, <2>1, WorldStays DEF EvidenceInv
  <2>16. (job.evidence # Unknown => EvidenceOK(job.evidence))'
    BY Zenon, <2>1 DEF EvidenceInv, EvidenceOK
  <2> QED
    BY ZenonT(60), <2>1, <2>8, <2>9, <2>10, <2>11, <2>12, <2>13, <2>14, <2>15, <2>16
       DEF EvidenceInv, ImportFitsAlbum
<1>4. Ends \/ \E e \in Evidence :
        \E g \in AuthorizeImport(Planned,
                   [kind |-> e.kind, fingerprint |-> e.fingerprint, root |-> e.root,
                    case |-> e.case, bindings |-> e.bindings, recovered |-> run.recovered]) :
          /\ run' = [pc |-> "submit", for |-> "repair", import |-> g, plan |-> Planned]
          /\ UNCHANGED <<world, since, job>>
  BY Zenon DEF Authorize, Still
<1> QED  BY Zenon, <1>2, <1>3, <1>4

\* The files of an import in some workspaces
HoldsPlanned(import, plan, w) ==
    \A f \in import.files : \E m \in Range(plan.decision.mappings) :
      /\ m[2] = f.track /\ plan.case.artifacts[m[1]].fingerprint = f.fingerprint
      /\ f.path[2] \in DOMAIN w[f.path[1]] =>
           w[f.path[1]][f.path[2]] = plan.case.artifacts[m[1]].fingerprint

\* ImportsWhatWasPlanned in these terms
LEMMA PlannedIsHeld ==
    /\ ImportsWhatWasPlanned <=> (Submitted => HoldsPlanned(run.import, run.plan, workspaces))
    /\ ImportsWhatWasPlanned' <=> (Submitted' => HoldsPlanned(run'.import, run'.plan, workspaces'))
  BY Zenon DEF ImportsWhatWasPlanned, HoldsPlanned

\* The import is recorded before it is submitted.
LEMMA SubmitStep == ASSUME EvidenceInv, Submit PROVE EvidenceInv'
<1>1. /\ run.pc = "submit" /\ job' = [job EXCEPT !.state = "importing"]
      /\ run' = [run EXCEPT !.pc = "submitted"] /\ UNCHANGED <<world, since>>
  BY Zenon DEF Submit
<1>2. Submitted /\ Importing
  BY Zenon, <1>1 DEF EvidenceInv, Shapes, Submitted
<1>3. /\ run'.pc = "submitted" /\ run'.import = run.import /\ run'.plan = run.plan /\ Importing'
  BY <1>1, <1>2 DEF Importing
<1>4. /\ job' = [state |-> job'.state, evidence |-> job'.evidence, decision |-> job'.decision,
                 decided |-> job'.decided]
      /\ job'.evidence = job.evidence
  BY <1>1 DEF EvidenceInv, Shapes
<1>5. UNCHANGED <<download, workspaces, catalog, queue, since>>
  BY Zenon, <1>1 DEF world
<1>6. Submitted' /\ run'.pc \notin Early \cup Late
  BY Zenon, <1>3 DEF Submitted, Early, Late
<1>7. Shapes'
  BY Zenon, <1>3, <1>4, <1>5, <1>6 DEF EvidenceInv, Shapes
<1>8. SinceOK'
  BY Zenon, <1>5, WorldStays DEF EvidenceInv
<1>9. (job.evidence # Unknown => EvidenceOK(job.evidence))'
  BY Zenon, <1>4 DEF EvidenceInv, EvidenceOK
<1>10. ImportsWhatWasPlanned'
  BY Zenon, <1>2, <1>3, <1>5, PlannedIsHeld DEF EvidenceInv
<1>11. ImportFitsAlbum'
  BY Zenon, <1>2, <1>3, <1>5
     DEF EvidenceInv, ImportFitsAlbum, ImportsOnlyMissing, KeepsRelease, ImportsOneToOne
<1> QED
  BY Zenon, <1>2, <1>3, <1>6, <1>7, <1>8, <1>9, <1>10, <1>11 DEF EvidenceInv

-----------------------------------------------------------------------------
(* The world *)

\* The workspaces only lose files.
Fewer(w) ==
    \A x \in Roots : \A p \in DOMAIN w[x] : p \in DOMAIN workspaces[x] /\ w[x][p] = workspaces[x][p]

\* Whatever the world does, what has been true stays so, and no file changes.
LEMMA WorldChanges ==
    ASSUME EvidenceInv, NEW name, NEW d, NEW w, NEW c, NEW q, NEW v, Change(name, d, w, c, q, v),
           d.version \in DOMAIN Contents, w = [x \in Roots |-> w[x]], Fewer(w),
           c = [monitored |-> c.monitored, refreshed |-> c.refreshed, filed |-> c.filed],
           c.refreshed \in BOOLEAN,
           q = [id |-> q.id, download |-> q.download, album |-> q.album, messages |-> q.messages,
                eligible |-> q.eligible],
           q.id \in {1, 2}
    PROVE  EvidenceInv'
<1>1. /\ download' = d /\ workspaces' = w /\ catalog' = c /\ queue' = q /\ UNCHANGED <<job, run>>
      /\ since' = [missing |-> since.missing \cup (Tracks \ c.filed),
                   kept |-> since.kept \cup {c.monitored}, empty |-> since.empty \cup EmptyOf(c)]
  BY Zenon DEF Change
<1>2. /\ since'.missing = since.missing \cup (Tracks \ c.filed)
      /\ since'.kept = since.kept \cup {c.monitored} /\ since'.empty = since.empty \cup EmptyOf(c)
  BY <1>1
<1>3. EmptyOf(c) \subseteq Releases /\ EmptyOf(catalog)' = EmptyOf(c) /\ Missing' = Tracks \ c.filed
  BY Zenon, <1>1 DEF EmptyOf, Missing
<1>4. /\ since.missing \subseteq since'.missing /\ since.kept \subseteq since'.kept
      /\ since.empty \subseteq since'.empty /\ since'.empty \subseteq Releases
  BY Zenon, <1>2, <1>3 DEF EvidenceInv, SinceOK
<1>5. SinceOK'
  BY Zenon, <1>1, <1>2, <1>3, <1>4 DEF SinceOK
<1>6. Submitted' = Submitted /\ (Inspecting' <=> Inspecting) /\ (Importing' <=> Importing)
  BY Zenon, <1>1 DEF Submitted, Inspecting, Importing
<1>7. Shapes'
  BY Zenon, <1>1, <1>6 DEF EvidenceInv, Shapes
<1>8. (job.evidence # Unknown => EvidenceOK(job.evidence))'
  BY Zenon, <1>1 DEF EvidenceInv, EvidenceOK
<1>9. ASSUME WorkspaceOK PROVE WorkspaceOK'
  <2>1. run.done.root \in Roots
    BY Zenon, <1>9 DEF WorkspaceOK, WorkspaceIs
  <2>2. \A p \in DOMAIN w[run.done.root] : /\ p \in DOMAIN workspaces[run.done.root]
                                           /\ w[run.done.root][p] = workspaces[run.done.root][p]
    BY Zenon, <2>1 DEF Fewer
  <2>3. ~run.recovered => \A p \in DOMAIN w[run.done.root] : w[run.done.root][p] = run.done.contents[p]
    BY Zenon, <1>9, <2>2 DEF WorkspaceOK, WorkspaceIs
  <2>4. run.recovered =>
          /\ run.previous # Unknown /\ run.done.root = run.previous.root
          /\ \A i \in DOMAIN run.previous.case.artifacts :
               LET a == run.previous.case.artifacts[i]
               IN  a.path \in DOMAIN w[run.done.root] => w[run.done.root][a.path] = a.fingerprint
    BY Zenon, <1>9, <2>2 DEF WorkspaceOK, WorkspaceIs
  <2> QED  BY Zenon, <1>1, <2>1, <2>3, <2>4 DEF WorkspaceOK, WorkspaceIs
<1>10. ASSUME CatalogOK PROVE CatalogOK'
  <2>1. run.pc \in {"tracks", "imports"} => run.album.monitored \in since'.kept
    BY Zenon, <1>4, <1>10 DEF CatalogOK
  <2>2. \A i \in 1..Len(run.tracks) :
          /\ run.tracks[i] \subseteq run.filed \cup since'.missing
          /\ run.tracks[i] \cap run.filed = {} => Order[i] \in since'.empty
    BY Zenon, <1>4, <1>10 DEF CatalogOK
  <2> QED  BY Zenon, <1>1, <1>10, <2>1, <2>2 DEF CatalogOK
<1>11. (run.pc \in Early \cup Late => InspectionOK)'
  BY Zenon, <1>1, <1>9, <1>10 DEF EvidenceInv, InspectionOK, EvidenceOK
<1>12. ASSUME Submitted PROVE ImportsWhatWasPlanned' /\ ImportFitsAlbum'
  <2>1. \A f \in run.import.files :
          /\ f.path[1] \in Roots
          /\ f.path[2] \in DOMAIN w[f.path[1]] =>
               /\ f.path[2] \in DOMAIN workspaces[f.path[1]]
               /\ w[f.path[1]][f.path[2]] = workspaces[f.path[1]][f.path[2]]
    BY Zenon, <1>12 DEF EvidenceInv, Fewer
  <2>2. ImportsWhatWasPlanned'
    <3>1. HoldsPlanned(run.import, run.plan, workspaces)
      BY Zenon, <1>12, PlannedIsHeld DEF EvidenceInv
    <3>2. HoldsPlanned(run.import, run.plan, w)
      BY ZenonT(60), <2>1, <3>1 DEF HoldsPlanned
    <3> QED  BY Zenon, <1>1, <3>2, PlannedIsHeld
  <2>3. ImportsOnlyMissing' /\ ImportsOneToOne'
    BY Zenon, <1>1, <1>4, <1>12 DEF EvidenceInv, ImportFitsAlbum, ImportsOnlyMissing, ImportsOneToOne
  <2>4. KeepsRelease'
    BY Zenon, <1>1, <1>4, <1>12 DEF EvidenceInv, ImportFitsAlbum, KeepsRelease
  <2> QED  BY Zenon, <2>2, <2>3, <2>4 DEF ImportFitsAlbum
<1>13. ImportsWhatWasPlanned' /\ ImportFitsAlbum'
  BY Zenon, <1>6, <1>12
     DEF ImportsWhatWasPlanned, ImportFitsAlbum, ImportsOnlyMissing, KeepsRelease, ImportsOneToOne
<1>14. (Submitted => \A f \in run.import.files : f.path[1] \in Roots)'
  BY Zenon, <1>1, <1>6 DEF EvidenceInv
<1> QED  BY Zenon, <1>5, <1>7, <1>8, <1>11, <1>13, <1>14 DEF EvidenceInv

\* The environment
LEMMA EnvironmentStep == ASSUME EvidenceInv, Environment PROVE EvidenceInv'
<1>1. /\ queue = [id |-> queue.id, download |-> queue.download, album |-> queue.album,
                  messages |-> queue.messages, eligible |-> queue.eligible]
      /\ queue.id \in {1, 2} /\ download.version \in DOMAIN Contents
      /\ catalog = [monitored |-> catalog.monitored, refreshed |-> catalog.refreshed,
                    filed |-> catalog.filed]
      /\ catalog.refreshed \in BOOLEAN /\ workspaces = [x \in Roots |-> workspaces[x]]
  BY Zenon DEF EvidenceInv, Shapes
<1>2. Fewer(workspaces)
  BY Zenon DEF Fewer
<1>3. CASE DownloadChanges
  <2>1. PICK d \in [kind : Kinds, version : DOMAIN Contents]
              \cup [kind : {"empty", "gone", "several"}, version : {download.version}] :
          Change("download", d, workspaces, catalog, queue, view)
    BY Zenon, <1>3 DEF DownloadChanges
  <2>2. d.version \in DOMAIN Contents
    BY <1>1, <2>1
  <2> QED  BY Zenon, <1>1, <1>2, <2>1, <2>2, WorldChanges
<1>4. CASE FileChanges
  <2>1. PICK f : Change("file", download, workspaces, [catalog EXCEPT !.filed = f], queue, view)
    BY Zenon, <1>4 DEF FileChanges
  <2> DEFINE c == [catalog EXCEPT !.filed = f]
  <2>2. /\ c = [monitored |-> c.monitored, refreshed |-> c.refreshed, filed |-> c.filed]
        /\ c.refreshed = catalog.refreshed
    BY <1>1
  <2>3. Change("file", download, workspaces, c, queue, view)
    BY Zenon, <2>1
  <2> HIDE DEF c
  <2> QED  BY Zenon, <1>1, <1>2, <2>2, <2>3, WorldChanges
<1>5. CASE ReleaseChanges
  <2>1. PICK r : Change("release", download, workspaces, [catalog EXCEPT !.monitored = r], queue, view)
    BY Zenon, <1>5 DEF ReleaseChanges
  <2> DEFINE c == [catalog EXCEPT !.monitored = r]
  <2>2. /\ c = [monitored |-> c.monitored, refreshed |-> c.refreshed, filed |-> c.filed]
        /\ c.refreshed = catalog.refreshed
    BY <1>1
  <2>3. Change("release", download, workspaces, c, queue, view)
    BY Zenon, <2>1
  <2> HIDE DEF c
  <2> QED  BY Zenon, <1>1, <1>2, <2>2, <2>3, WorldChanges
<1>6. CASE CatalogRefreshes
  <2>1. PICK r \in BOOLEAN :
          Change("refresh", download, workspaces, [catalog EXCEPT !.refreshed = r], queue, view)
    BY Zenon, <1>6 DEF CatalogRefreshes
  <2> DEFINE c == [catalog EXCEPT !.refreshed = r]
  <2>2. /\ c = [monitored |-> c.monitored, refreshed |-> c.refreshed, filed |-> c.filed]
        /\ c.refreshed = r
    BY <1>1
  <2>3. Change("refresh", download, workspaces, c, queue, view)
    BY Zenon, <2>1
  <2> HIDE DEF c
  <2> QED  BY Zenon, <1>1, <1>2, <2>1, <2>2, <2>3, WorldChanges
<1>7. CASE ViewChanges
  <2>1. CASE Change("view", download, workspaces, catalog, [queue EXCEPT !.messages = 1 - @], view)
    <3> DEFINE q == [queue EXCEPT !.messages = 1 - @]
    <3>1. /\ q = [id |-> q.id, download |-> q.download, album |-> q.album, messages |-> q.messages,
                  eligible |-> q.eligible]
          /\ q.id = queue.id
      BY <1>1
    <3>2. Change("view", download, workspaces, catalog, q, view)
      BY Zenon, <2>1
    <3> HIDE DEF q
    <3> QED  BY Zenon, <1>1, <1>2, <3>1, <3>2, WorldChanges
  <2>2. ASSUME NEW v, Change("view", download, workspaces, catalog, queue, v) PROVE EvidenceInv'
    BY Zenon, <1>1, <1>2, <2>2, WorldChanges
  <2> QED  BY Zenon, <1>7, <2>1, <2>2 DEF ViewChanges
<1>8. CASE QueueChanges
  <2>1. PICK q \in {[queue EXCEPT !.id = 3 - @], [queue EXCEPT !.album = Album - @],
                    [queue EXCEPT !.eligible = ~@]} :
          Change("queue", download, workspaces, catalog, q, view)
    BY Zenon, <1>8 DEF QueueChanges
  <2>2. /\ q = [id |-> q.id, download |-> q.download, album |-> q.album, messages |-> q.messages,
                eligible |-> q.eligible]
        /\ q.id \in {1, 2}
    BY <1>1, <2>1
  <2> QED  BY Zenon, <1>1, <1>2, <2>1, <2>2, WorldChanges
<1>9. CASE WorkspaceLoses
  <2>1. PICK x \in Roots : \E p \in DOMAIN workspaces[x] :
          Change("workspace", download,
                 [workspaces EXCEPT ![x] = [y \in DOMAIN @ \ {p} |-> @[y]]], catalog, queue, view)
    BY Zenon, <1>9 DEF WorkspaceLoses
  <2>2. PICK p \in DOMAIN workspaces[x] :
          Change("workspace", download,
                 [workspaces EXCEPT ![x] = [y \in DOMAIN @ \ {p} |-> @[y]]], catalog, queue, view)
    BY Zenon, <2>1
  <2> DEFINE left == [y \in DOMAIN workspaces[x] \ {p} |-> workspaces[x][y]]
             w == [workspaces EXCEPT ![x] = left]
  <2>3. \A y \in DOMAIN left : y \in DOMAIN workspaces[x] /\ left[y] = workspaces[x][y]
    BY Zenon
  <2>4. Change("workspace", download, w, catalog, queue, view)
    BY Zenon, <2>2
  <2> HIDE DEF left
  <2>5. w[x] = left /\ (\A y \in Roots : y # x => w[y] = workspaces[y]) /\ w = [y \in Roots |-> w[y]]
    BY <1>1, <2>1
  <2> HIDE DEF w
  <2>6. Fewer(w)
    BY Zenon, <2>3, <2>5 DEF Fewer
  <2> QED  BY Zenon, <1>1, <2>4, <2>5, <2>6, WorldChanges
<1> QED  BY Zenon, <1>3, <1>4, <1>5, <1>6, <1>7, <1>8, <1>9 DEF Environment

-----------------------------------------------------------------------------
(* The behaviours *)

\* Nothing is known and nothing is in progress.
LEMMA EvidenceBegins == ASSUME EvidenceInit PROVE EvidenceInv
<1>1. /\ download \in [kind : Kinds, version : {1}] /\ workspaces = [w \in Roots |-> NoFiles]
      /\ catalog = [monitored |-> Order[1], refreshed |-> FALSE, filed |-> {}]
      /\ queue = [id |-> 1, download |-> 1, album |-> Album, messages |-> 0, eligible |-> TRUE]
      /\ job = [state |-> "observed", evidence |-> Unknown, decision |-> Unknown, decided |-> {}]
      /\ run = Resting /\ since = Seen
  BY Zenon DEF EvidenceInit
<1>2. run.pc = "idle" /\ job.evidence = Unknown
  BY <1>1 DEF Resting
<1>3. ~Submitted /\ run.pc \notin Early \cup Late
  BY Zenon, <1>2 DEF Submitted, Early, Late
<1>4. download.version \in DOMAIN Contents
  BY <1>1, EvidenceAssumption
<1>5. /\ queue = [id |-> queue.id, download |-> queue.download, album |-> queue.album,
                  messages |-> queue.messages, eligible |-> queue.eligible]
      /\ queue.id \in {1, 2}
      /\ catalog = [monitored |-> catalog.monitored, refreshed |-> catalog.refreshed,
                    filed |-> catalog.filed]
      /\ catalog.refreshed \in BOOLEAN
      /\ job = [state |-> job.state, evidence |-> job.evidence, decision |-> job.decision,
                decided |-> job.decided]
  BY <1>1
<1>6. workspaces = [w \in Roots |-> workspaces[w]]
  BY <1>1
<1>7. Shapes
  BY ZenonT(60), <1>2, <1>3, <1>4, <1>5, <1>6 DEF Shapes
<1>8. since.missing = Missing /\ since.kept = {catalog.monitored} /\ since.empty = EmptyOf(catalog)
  BY <1>1 DEF Seen
<1>9. SinceOK
  BY Zenon, <1>8 DEF SinceOK, EmptyOf
<1> QED
  BY Zenon, <1>2, <1>3, <1>7, <1>9
     DEF EvidenceInv, ImportsWhatWasPlanned, ImportFitsAlbum, ImportsOnlyMissing, KeepsRelease,
         ImportsOneToOne

\* A step that changes nothing
LEMMA EvidenceStays == ASSUME EvidenceInv, UNCHANGED evidenceVars PROVE EvidenceInv'
<1>1. UNCHANGED <<download, workspaces, catalog, queue, job, run, since>>
  BY Zenon DEF evidenceVars
<1>2. Shapes'
  BY Zenon, <1>1 DEF EvidenceInv, Shapes, Submitted, Inspecting, Importing
<1>3. SinceOK'
  BY Zenon, <1>1, WorldStays DEF EvidenceInv
<1>4. (job.evidence # Unknown => EvidenceOK(job.evidence))'
  BY Zenon, <1>1 DEF EvidenceInv, EvidenceOK
<1>5. CatalogOK => CatalogOK'
  BY Zenon, <1>1 DEF CatalogOK
<1>6. WorkspaceOK => WorkspaceOK'
  <2>1. /\ run'.done = run.done /\ run'.recovered = run.recovered
        /\ run'.previous = run.previous /\ workspaces' = workspaces
    BY Zenon, <1>1
  <2> QED  BY Zenon, <2>1, WorkspaceKnown
<1>7. (run.pc \in Early \cup Late => InspectionOK)'
  BY Zenon, <1>1, <1>5, <1>6 DEF EvidenceInv, InspectionOK, EvidenceOK
<1>8. Submitted' = Submitted /\ ImportsWhatWasPlanned'
  BY Zenon, <1>1, PlannedIsHeld DEF EvidenceInv, Submitted
<1>9. ImportFitsAlbum'
  BY Zenon, <1>1, <1>8
     DEF EvidenceInv, ImportFitsAlbum, ImportsOnlyMissing, KeepsRelease, ImportsOneToOne
<1>10. (Submitted => \A f \in run.import.files : f.path[1] \in Roots)'
  BY Zenon, <1>1, <1>8 DEF EvidenceInv
<1> QED  BY Zenon, <1>2, <1>3, <1>4, <1>7, <1>8, <1>9, <1>10 DEF EvidenceInv

\* Every step keeps what is known of the evidence and of the import.
LEMMA EvidenceStep == EvidenceInv /\ [EvidenceNext]_evidenceVars => EvidenceInv'
<1> SUFFICES ASSUME EvidenceInv, [EvidenceNext]_evidenceVars PROVE EvidenceInv'
  OBVIOUS
<1>1. ASSUME Collector PROVE EvidenceInv'
  BY ZenonT(60), <1>1, EndStep, FindStep, ArchiveStep, DirectoryStep, StoredStep, AlbumStep, ReleaseStep,
     ObserveEndsStep, AuthorizeStep, SubmitStep DEF Collector, Refused
<1> QED
  BY Zenon, <1>1, ObserveStep, PlanStep, ReconsiderStep, RepairStep, FailsStep, EnvironmentStep,
     EvidenceStays DEF EvidenceNext

\* AuthorizeImport (authorize.go): however the download, its workspace and the
\* catalogue change between the calls of an inspection, and however often the
\* entry is observed and planned, the files named in an import hold in the
\* workspace what the planner was shown, unless something has taken them away.
THEOREM PlannedIsImported == EvidenceSpec => []ImportsWhatWasPlanned
<1>1. EvidenceInit => EvidenceInv
  BY EvidenceBegins
<1>2. EvidenceInv => ImportsWhatWasPlanned
  BY Zenon DEF EvidenceInv
<1> QED  BY <1>1, <1>2, EvidenceStep, PTL DEF EvidenceSpec

\* buildImportCapabilities and AuthorizeImport: whatever Lidarr does meanwhile,
\* an import is of tracks that were missing during this repair, keeps the
\* release of an album with files, and maps files to tracks one to one.
THEOREM AlbumIsFitted == EvidenceSpec => []ImportFitsAlbum
<1>1. EvidenceInit => EvidenceInv
  BY EvidenceBegins
<1>2. EvidenceInv => ImportFitsAlbum
  BY Zenon DEF EvidenceInv
<1> QED  BY <1>1, <1>2, EvidenceStep, PTL DEF EvidenceSpec
=============================================================================
