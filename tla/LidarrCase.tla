----------------------------- MODULE LidarrCase -----------------------------
(***************************************************************************)
(* The case a planner decides on for a Lidarr download, the decisions it   *)
(* may take and the import a decision authorizes: lidarrrepair/assemble.go *)
(* validate.go, authorize.go and stored_artifacts.go, with the identity of *)
(* lidarrcontracts.  A case ID is the digest of everything in the case, so *)
(* the case itself stands for it; an artifact is a path in its workspace   *)
(* and its contents, and is named in a case by its position.               *)
(***************************************************************************)
EXTENDS Naturals, Sequences, FiniteSets, Functions

CONSTANTS Releases   \* the releases of the album

NoRepair == "no_repair"
Import == "import_missing_tracks"

\* What contractArtifact keeps of a materialized file
contractArtifact(path, print) == [path |-> path, fingerprint |-> print]

\* The binding of an artifact: how Lidarr would import the file
bindingFromImport(root, artifact, item, download) ==
    [path |-> <<root, artifact.path>>, quality |-> item.quality, download |-> download]

\* Lidarr's opinion of a file, which the planner sees
contractAssessment(item) == item.opinion

albumHasFiles(tracks, filed) == \E r \in Releases : tracks[r] \cap filed # {}

\* The missing tracks of each release a decision may import into: an album
\* that has files keeps the release it monitors.
buildImportCapabilities(monitored, tracks, filed) ==
    [r \in {r \in Releases : /\ tracks[r] \ filed # {}
                             /\ r = monitored \/ ~albumHasFiles(tracks, filed)}
           |-> tracks[r] \ filed]

\* assembleCase: {} when the release counts do not match the tracks returned,
\* or the album has none.
assembleCase(queue, album, tracks, filed, artifacts, opinions) ==
    IF \/ \E r \in Releases : Cardinality(tracks[r]) # album.counts[r]
       \/ \A r \in Releases : tracks[r] = {}
      THEN {}
      ELSE {[queue |-> queue.id, download |-> queue.download, messages |-> queue.messages,
             album |-> album.id, monitored |-> album.monitored, tracks |-> tracks, filed |-> filed,
             artifacts |-> artifacts, assessments |-> opinions,
             capabilities |-> buildImportCapabilities(album.monitored, tracks, filed)]}

\* The case and the bindings made from the artifacts in a workspace and from
\* what Lidarr says of the files it sees there; {} when it did not see one.
AssembleFrom(queue, album, tracks, filed, root, artifacts, items) ==
    IF \/ queue.album # album.id
       \/ artifacts = <<>>
       \/ \E i \in DOMAIN artifacts : artifacts[i].path \notin DOMAIN items
      THEN {}
      ELSE LET item(i) == items[artifacts[i].path]
               opinions == [i \in DOMAIN artifacts |-> contractAssessment(item(i))]
           IN  {[case |-> c,
                 bindings |-> [i \in DOMAIN artifacts |->
                                 bindingFromImport(root, artifacts[i], item(i), queue.download)]] :
                  c \in assembleCase(queue, album, tracks, filed, artifacts, opinions)}

\* Assemble names the artifacts of a materialization anew; AssembleStored keeps
\* the artifacts of the planned case.
Assemble(queue, album, tracks, filed, done, items) ==
    AssembleFrom(queue, album, tracks, filed, done.root,
                 [i \in DOMAIN done.contents |-> contractArtifact(i, done.contents[i])], items)

AssembleStored(queue, album, tracks, filed, planned, items) ==
    AssembleFrom(queue, album, tracks, filed, planned.root, planned.case.artifacts, items)

-----------------------------------------------------------------------------
(* Decisions *)

CalculateCaseID(case) == case

\* Evidence is cited by the release of the capability it names.
validateEvidenceReferences(case, decision) == decision.refs \subseteq DOMAIN case.capabilities

validateDecisionSelection(case, d) ==
    /\ validateEvidenceReferences(case, d)
    /\ d.kind = Import =>
         /\ d.release \in DOMAIN case.capabilities
         /\ d.mappings # <<>>
         /\ \A m \in Range(d.mappings) : m[1] \in DOMAIN case.artifacts
                                         /\ m[2] \in case.capabilities[d.release]
         /\ \A i, j \in DOMAIN d.mappings : i # j => /\ d.mappings[i][1] # d.mappings[j][1]
                                                     /\ d.mappings[i][2] # d.mappings[j][2]

ValidateDecision(case, d) ==
    /\ d.case = CalculateCaseID(case)
    /\ validateDecisionSelection(case, d)

-----------------------------------------------------------------------------
(* The import a planned decision authorizes on the evidence of now *)

Authorized(planned, current) ==
    LET d == planned.decision
    IN  {[release |-> d.release, keepRelease |-> albumHasFiles(current.case.tracks, current.case.filed),
          files |-> {[path |-> current.bindings[m[1]].path, track |-> m[2],
                      fingerprint |-> current.case.artifacts[m[1]].fingerprint] :
                       m \in Range(d.mappings)}]}

SameSource(planned, current) ==
    /\ planned.case.queue = current.case.queue
    /\ planned.kind = current.kind /\ planned.fingerprint = current.fingerprint
    /\ planned.root = current.root

CompleteBindings(d, current) ==
    \A m \in Range(d.mappings) :
      current.bindings[m[1]].quality > 0 /\ current.bindings[m[1]].download = current.case.download

\* Mutant: recovered evidence is not compared with what Lidarr has now
AuthorizeImportAsPlanned(planned, current) ==
    LET d == planned.decision
    IN  IF /\ d.kind = Import
           /\ SameSource(planned, current)
           /\ planned.bindings = current.bindings
           /\ current.recovered \/ ValidateDecision(current.case, d)
           /\ CompleteBindings(d, current)
          THEN Authorized(planned, current) ELSE {}
\* Mutant: only the bindings are compared, not the source nor the case
AuthorizeImportBindings(planned, current) ==
    LET d == planned.decision
    IN  IF /\ d.kind = Import
           /\ planned.bindings = current.bindings
           /\ validateDecisionSelection(current.case, d)
           /\ CompleteBindings(d, current)
          THEN Authorized(planned, current) ELSE {}
\* AuthorizeImport: {} when nothing may be imported
AuthorizeImport(planned, current) ==
    LET d == planned.decision
    IN  IF /\ d.kind = Import
           /\ SameSource(planned, current)
           /\ planned.bindings = current.bindings
           /\ IF current.recovered
                THEN validateDecisionSelection(current.case, d)
                ELSE planned.case = current.case /\ ValidateDecision(current.case, d)
           /\ CompleteBindings(d, current)
          THEN Authorized(planned, current) ELSE {}

\* verifyStoredArtifacts: what the planned case describes is still there.
verifyStoredArtifacts(workspace, planned) ==
    /\ Len(planned.bindings) = Len(planned.case.artifacts)
    /\ \A i \in DOMAIN planned.case.artifacts :
         LET a == planned.case.artifacts[i]
         IN  /\ planned.bindings[i].path = <<planned.root, a.path>>
             /\ a.path \in DOMAIN workspace
             /\ workspace[a.path] = a.fingerprint

-----------------------------------------------------------------------------
(* What repairlidarr/planning.go takes for a change the planner should see *)

planningFingerprint(case) ==
    [album |-> case.album, monitored |-> case.monitored, tracks |-> case.tracks,
     filed |-> case.filed, artifacts |-> case.artifacts]
=============================================================================
