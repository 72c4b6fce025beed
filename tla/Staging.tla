------------------------------- MODULE Staging -------------------------------
(***************************************************************************)
(* The media helper's transform operation: it joins the parts of a movie,  *)
(* or remuxes a Blu-ray playlist or a DVD title, into a partial file of a  *)
(* private staging directory, retains the finished file under its staged   *)
(* name, and publishes it into the release directory by a hard link.       *)
(*                                                                         *)
(* Every system call that changes a directory is a step.  The helper may   *)
(* be killed between two steps, and a power failure may also undo what was *)
(* not yet synced: file is what programs see, disk what would survive.     *)
(***************************************************************************)
EXTENDS Naturals, FiniteSets

CONSTANTS Artifacts, Kind,
          MaxFiles,    \* bound: files created
          MaxFaults,   \* bound: failing calls, kills and power failures
          MaxChanges   \* bound: changes of the sources

Kinds == {"join", "bluray", "dvd"}

\* What the constants must be like
ConstantsOK == Kind \in [Artifacts -> Kinds] /\ MaxFiles \in Nat

None == 0
Files == 1 .. MaxFiles
Names == {"partial", "staged", "published"}

\* What a file holds: an unfinished output, one the validation rejects, one
\* made from sources other than the authorized ones, or a valid output.
Contents == {"cut", "bad", "foreign", "good"}

\* What may have happened to the sources: rewritten in place (an open descriptor
\* shows it), replaced under their names (only opening the name again shows it),
\* or a file added to the directory of a DVD
Changes == {"rewritten", "replaced", "extended"}

VARIABLES
    file, disk,   \* names of each artifact: as seen, and as they survive
    content,      \* what each file holds
    sources,      \* what has happened to the sources of each artifact
    answer,       \* the file the helper reported for an artifact
    pc, art, out, \* the running helper: step, artifact, output file
    to,           \* the name the current move leads to
    failing,      \* the media command failed
    created, faults, changes

fs      == <<file, disk, content>>
helper  == <<pc, art, out, to, failing>>
vars    == <<fs, sources, answer, helper, created, faults, changes>>

NoNames == [n \in Names |-> None]

Init ==
    /\ file = [a \in Artifacts |-> NoNames] /\ disk = file
    /\ content = [f \in Files |-> "cut"]
    /\ sources = [a \in Artifacts |-> {}]
    /\ answer = [a \in Artifacts |-> None]
    /\ pc = "idle" /\ art \in Artifacts /\ out = None
    /\ to = "staged" /\ failing = FALSE
    /\ created = 0 /\ faults = 0 /\ changes = 0

-----------------------------------------------------------------------------
(* Helpers *)

Fault == faults < MaxFaults /\ faults' = faults + 1
Fine  == UNCHANGED faults

Goto(step) == pc' = step /\ UNCHANGED <<art, out, to, failing>>

\* The helper exits; only a successful one has written an answer.
Exit == Goto("idle")

Bind(name, f) == file' = [file EXCEPT ![art][name] = f]

\* fsync of a directory: everything in it reaches the disk
synced(names) ==
    [a \in Artifacts |-> [n \in Names |-> IF n \in names THEN file[a][n] ELSE disk[a][n]]]
directory(name) == IF name = "published" THEN {name} ELSE {"partial", "staged"}
syncDirectory(name) == disk' = synced(directory(name))

\* openArtifact: the file a name of the artifact at hand is bound to
artifact(name) == file[art][name]

-----------------------------------------------------------------------------
(* Requests and their sources *)

\* run: one request per process, for exactly one kind of operation
Transform(a) ==
    /\ pc = "idle"
    /\ pc' = "open" /\ art' = a /\ out' = None /\ to' = "staged" /\ failing' = FALSE
    /\ UNCHANGED <<fs, sources, answer, created, faults, changes>>

\* The steps of a kind after its sources are open and after its file is
\* retained: only the disc executors look for what an interrupted run left
\* behind, and only a join is validated after it was retained.
join   == [opened |-> "create",  retained |-> "judge"]
bluray == [opened |-> "prepare", retained |-> "publish"]
dvd    == [opened |-> "prepare", retained |-> "publish"]
then   == CASE Kind[art] = "join" -> join [] Kind[art] = "bluray" -> bluray [] Kind[art] = "dvd" -> dvd

\* openParts: each part by name, with the fingerprint that was authorized
openParts == {"rewritten", "replaced"} \cap sources[art] = {}

\* openAndIdentify: playlist and clips, and what mkvmerge says about them
openBluray == {"rewritten", "replaced"} \cap sources[art] = {}

\* openAndIdentify: the directory holds exactly the files of the title set
openDVD == sources[art] = {}

opens == CASE Kind[art] = "join"   -> openParts
           [] Kind[art] = "bluray" -> openBluray
           [] Kind[art] = "dvd"    -> openDVD

Open ==
    /\ pc = "open" /\ opens
    /\ Goto(then.opened)
    /\ UNCHANGED <<fs, sources, answer, created, faults, changes>>

OpenFails ==
    /\ pc = "open"
    /\ IF opens THEN Fault ELSE Fine
    /\ Exit /\ UNCHANGED <<fs, sources, answer, created, changes>>

\* verifyParts looks at the open descriptors, verifyInputs also at the names.
verifyParts == "rewritten" \notin sources[art]
verifyInputsBluray == {"rewritten", "replaced"} \cap sources[art] = {}
verifyInputsDVD == {"rewritten", "replaced"} \cap sources[art] = {}

verifies == CASE Kind[art] = "join"   -> verifyParts
              [] Kind[art] = "bluray" -> verifyInputsBluray
              [] Kind[art] = "dvd"    -> verifyInputsDVD

SourceChanges(a) ==
    /\ changes < MaxChanges /\ changes' = changes + 1
    /\ \E change \in Changes :
          /\ change = "extended" => Kind[a] = "dvd"
          /\ sources' = [sources EXCEPT ![a] = @ \cup {change}]
    /\ UNCHANGED <<fs, answer, helper, created, faults>>

-----------------------------------------------------------------------------
(* Staging *)

\* InspectStaged
inspectStaged ==
    CASE artifact("staged") # None /\ artifact("partial") # None -> "conflict"
      [] artifact("staged") # None /\ artifact("partial") = None -> "complete"
      [] artifact("staged") = None /\ artifact("partial") # None -> "partial"
      [] OTHER -> "missing"

\* PrepareStage: a completed file is recovered, a partial one removed
PrepareStage ==
    /\ pc = "prepare"
    /\ CASE inspectStaged = "conflict" -> Exit /\ UNCHANGED file
         [] inspectStaged = "complete" ->
              /\ pc' = "recover" /\ out' = artifact("staged")
              /\ UNCHANGED <<art, to, failing, file>>
         [] inspectStaged = "partial"  -> Bind("partial", None) /\ Goto("cleared")
         [] inspectStaged = "missing"  -> Goto("create") /\ UNCHANGED file
    /\ UNCHANGED <<disk, content, sources, answer, created, faults, changes>>

PrepareFails ==
    /\ pc = "prepare" /\ Fault
    /\ Exit /\ UNCHANGED <<fs, sources, answer, created, changes>>

\* removeStagedName, the fsync after the unlink.  RemovePartial clears the way
\* for a fresh file, RemoveCompleted ends the request.
RemovalSynced ==
    /\ pc \in {"cleared", "removed"}
    /\ \/ syncDirectory("staged") /\ Fine
          /\ Goto(IF pc = "cleared" THEN "create" ELSE "idle")
       \/ Fault /\ UNCHANGED disk /\ Exit
    /\ UNCHANGED <<file, content, sources, answer, created, changes>>

\* CreateStaged, up to the exclusive creation of the partial file
CreateStaged ==
    /\ pc = "create"
    /\ IF artifact("staged") # None \/ artifact("partial") # None
       THEN Exit /\ UNCHANGED <<file, created>>
       ELSE /\ created < MaxFiles
            /\ created' = created + 1
            /\ Bind("partial", created + 1)
            /\ pc' = "created" /\ out' = created + 1
            /\ UNCHANGED <<art, to, failing>>
    /\ UNCHANGED <<disk, content, sources, answer, faults, changes>>

\* Too little space, or a failing call
CreateFails ==
    /\ pc = "create" /\ Fault
    /\ Exit /\ UNCHANGED <<fs, sources, answer, created, changes>>

\* CreateStaged, the fsync of the directory: without it there is no artifact
CreationSynced ==
    /\ pc = "created"
    /\ \/ syncDirectory("partial") /\ Fine /\ UNCHANGED file /\ Goto("produce")
       \/ Fault /\ UNCHANGED disk /\ Bind("partial", None) /\ Exit
    /\ UNCHANGED <<content, sources, answer, created, changes>>

\* The media command has written and synced its output, or has failed.  Join
\* reads open descriptors, the disc commands read the names.
Joined(good) ==
    IF "rewritten" \in sources[art] THEN "foreign" ELSE IF good THEN "good" ELSE "bad"
Remuxed(good) ==
    IF {"rewritten", "replaced"} \cap sources[art] # {} THEN "foreign"
    ELSE IF good THEN "good" ELSE "bad"
RemuxedDVD(good) ==
    IF {"rewritten", "replaced"} \cap sources[art] # {} THEN "foreign"
    ELSE IF good THEN "good" ELSE "bad"

produced(good) == CASE Kind[art] = "join"   -> Joined(good)
                    [] Kind[art] = "bluray" -> Remuxed(good)
                    [] Kind[art] = "dvd"    -> RemuxedDVD(good)

Produce ==
    /\ pc = "produce"
    /\ \/ /\ \E good \in BOOLEAN : content' = [content EXCEPT ![out] = produced(good)]
          /\ failing' = FALSE /\ Fine
       \/ Fault /\ failing' = TRUE /\ UNCHANGED content
    /\ pc' = "verify"
    /\ UNCHANGED <<file, disk, sources, answer, art, out, to, created, changes>>

\* The stage functions after the media command: the sources, the command's
\* result, the probe and (for a disc) the validation of the output
Staged(validated) ==
    /\ pc = "verify"
    /\ \/ Goto(IF ~verifies \/ failing \/ (validated /\ content[out] = "bad")
               THEN "discard" ELSE "retain") /\ Fine
       \/ Fault /\ Goto("discard")
    /\ UNCHANGED <<fs, sources, answer, created, changes>>

StageJoin   == Kind[art] = "join"   /\ Staged(FALSE)
StageBluray == Kind[art] = "bluray" /\ Staged(TRUE)
StageDVD    == Kind[art] = "dvd"    /\ Staged(TRUE)

\* Retain: the file is synced before it gets its staged name.
Retain ==
    /\ pc = "retain"
    /\ \/ Fine /\ pc' = "link" /\ to' = "staged" /\ UNCHANGED <<art, out, failing>>
       \/ Fault /\ Goto("discard")
    /\ UNCHANGED <<fs, sources, answer, created, changes>>

\* Discard: unlink the partial file, then sync; a failing call does not stop it.
Discard ==
    /\ pc = "discard"
    /\ \/ Fine /\ Bind("partial", None)
       \/ Fault /\ UNCHANGED file
    /\ Goto("discarded")
    /\ UNCHANGED <<disk, content, sources, answer, created, changes>>

DiscardSynced ==
    /\ pc = "discarded"
    /\ \/ Fine /\ syncDirectory("partial")
       \/ Fault /\ UNCHANGED disk
    /\ Exit /\ UNCHANGED <<file, content, sources, answer, created, changes>>

-----------------------------------------------------------------------------
(* moveNoReplace, from the partial to the staged or on to the published name *)

from == IF to = "staged" THEN "partial" ELSE "staged"

\* A failed move ends in Discard or in an error of the publication.
MoveFailed == Goto(IF to = "staged" THEN "discard" ELSE "idle")

Link ==
    /\ pc = "link"
    /\ \/ Fine /\ artifact(to) = None /\ Bind(to, artifact(from)) /\ Goto("sync new")
       \/ artifact(to) # None /\ Fine /\ UNCHANGED file /\ MoveFailed
       \/ Fault /\ UNCHANGED file /\ MoveFailed
    /\ UNCHANGED <<disk, content, sources, answer, created, changes>>

\* Mutant: the old name goes before the new one is on disk.
SyncNewLate ==
    /\ pc = "sync new"
    /\ Fine /\ UNCHANGED disk /\ Goto("unlink")
    /\ UNCHANGED <<file, content, sources, answer, created, changes>>

SyncNew ==
    /\ pc = "sync new"
    /\ \/ Fine /\ syncDirectory(to) /\ Goto("unlink")
       \/ Fault /\ UNCHANGED disk /\ Goto("rollback")
    /\ UNCHANGED <<file, content, sources, answer, created, changes>>

Unlink ==
    /\ pc = "unlink"
    /\ \/ Fine /\ Bind(from, None) /\ Goto("sync old")
       \/ Fault /\ UNCHANGED file /\ Goto("rollback")
    /\ UNCHANGED <<disk, content, sources, answer, created, changes>>

Rollback ==
    /\ pc = "rollback"
    /\ \/ Fine /\ Bind(to, None)
       \/ Fault /\ UNCHANGED file
    /\ Goto("rolled back")
    /\ UNCHANGED <<disk, content, sources, answer, created, changes>>

RollbackSynced ==
    /\ pc = "rolled back"
    /\ \/ Fine /\ syncDirectory(to)
       \/ Fault /\ UNCHANGED disk
    /\ MoveFailed /\ UNCHANGED <<file, content, sources, answer, created, changes>>

\* A failing sync of the old directory is reported although the move is done.
SyncOld ==
    /\ pc = "sync old"
    /\ \/ /\ Fine /\ syncDirectory(from)
          /\ Goto(IF to = "published" THEN "sync both" ELSE then.retained)
       \/ Fault /\ UNCHANGED disk /\ MoveFailed
    /\ UNCHANGED <<file, content, sources, answer, created, changes>>

-----------------------------------------------------------------------------
(* Recovery, validation and publication *)

\* recover: probe and validate again what an earlier run retained
recover ==
    /\ pc = "recover"
    /\ \/ /\ Fine
          /\ IF content[out] = "bad" THEN Bind("staged", None) /\ Goto("removed")
             ELSE Goto(IF verifies THEN "publish" ELSE "idle") /\ UNCHANGED file
       \/ Fault /\ Exit /\ UNCHANGED file
    /\ UNCHANGED <<disk, content, sources, answer, created, changes>>

RecoverBluray == Kind[art] = "bluray" /\ recover
RecoverDVD    == Kind[art] = "dvd" /\ recover

\* Mutant: the exit status of the media command is enough.
JudgeNothing ==
    /\ pc = "judge" /\ Goto("publish")
    /\ UNCHANGED <<fs, sources, answer, created, faults, changes>>

\* join: "only validated output may become visible to Servarr"
Judge ==
    /\ pc = "judge"
    /\ IF content[out] = "bad" THEN Bind("staged", None) /\ Goto("removed")
       ELSE Goto("publish") /\ UNCHANGED file
    /\ UNCHANGED <<disk, content, sources, answer, created, faults, changes>>

\* publishCompletedAt, up to the move; permissions change before the move.
PublishCompleted ==
    /\ pc = "publish"
    /\ \/ /\ Fine
          /\ IF artifact("staged") = None
             THEN Goto(IF artifact("published") = out THEN "sync both" ELSE "idle")
             ELSE IF artifact("staged") # out \/ artifact("published") # None
             THEN Exit
             ELSE pc' = "link" /\ to' = "published" /\ UNCHANGED <<art, out, failing>>
       \/ Fault /\ Exit
    /\ UNCHANGED <<fs, sources, answer, created, changes>>

\* Mutant: the answer does not wait for the two directories.
PublishedUnsynced ==
    /\ pc \in {"sync new", "sync both"}
    /\ to = "published"
    /\ answer' = [answer EXCEPT ![art] = out]
    /\ Exit /\ UNCHANGED <<fs, sources, created, faults, changes>>

\* publishCompletedAt, the end: both directories are synced before the answer.
Published ==
    /\ pc = "sync both"
    /\ \/ Fine /\ disk' = synced(Names) /\ answer' = [answer EXCEPT ![art] = out]
       \/ Fault /\ UNCHANGED <<disk, answer>>
    /\ Exit /\ UNCHANGED <<file, content, sources, created, changes>>

-----------------------------------------------------------------------------
(* Faults *)

Kill ==
    /\ pc # "idle" /\ Fault /\ Exit
    /\ UNCHANGED <<fs, sources, answer, created, changes>>

\* Each name that was not synced is on disk or not, independently.
PowerFailure ==
    /\ Fault /\ Exit
    /\ \E kept \in SUBSET (Artifacts \X Names) :
          file' = [a \in Artifacts |-> [n \in Names |->
                      IF <<a, n>> \in kept THEN file[a][n] ELSE disk[a][n]]]
    /\ disk' = file'
    /\ UNCHANGED <<content, sources, answer, created, changes>>

Next ==
    \/ \E a \in Artifacts : Transform(a) \/ SourceChanges(a)
    \/ Open \/ OpenFails \/ PrepareStage \/ PrepareFails \/ RemovalSynced
    \/ CreateStaged \/ CreateFails \/ CreationSynced \/ Produce
    \/ StageJoin \/ StageBluray \/ StageDVD \/ Retain \/ Discard \/ DiscardSynced
    \/ Link \/ SyncNew \/ Unlink \/ Rollback \/ RollbackSynced \/ SyncOld
    \/ RecoverBluray \/ RecoverDVD \/ Judge \/ PublishCompleted \/ Published
    \/ Kill \/ PowerFailure

Spec == Init /\ [][Next]_vars

-----------------------------------------------------------------------------
(* Properties *)

\* Whatever fails, is killed or loses power: what stands in a release
\* directory, now or after a power failure, is finished, valid and made from
\* the authorized sources (transform_linux.go: only validated output may
\* become visible to Servarr).
OnlyVerifiedPublished ==
    \A a \in DOMAIN file :
        \A f \in {file[a]["published"], disk[a]["published"]} : f # None => content[f] = "good"

\* The staged name never holds an unfinished file or one made from changed
\* sources, and for a disc never an invalid one: recovery may trust it.
StagedIsFinished ==
    \A a \in DOMAIN file : \A f \in {file[a]["staged"], disk[a]["staged"]} :
        f # None => /\ content[f] \in {"good", "bad"}
                    /\ Kind[a] # "join" => content[f] = "good"

\* The file a helper reported stays published, even through a power failure.
AnswerIsDurable ==
    \A a \in DOMAIN file : answer[a] # None =>
        file[a]["published"] = answer[a] /\ disk[a]["published"] = answer[a]

\* A step loses no valid file that was retained, durably and no longer under its
\* partial name, neither to programs nor on the disk.
KeepsRetained ==
    \A a \in DOMAIN file :
        LET retained == disk[a]["staged"]
        IN  /\ retained \notin {None, file[a]["partial"]}
            /\ retained \in {file[a]["staged"], file[a]["published"]}
            /\ content[retained] = "good"
            => /\ retained \in {disk'[a]["staged"], disk'[a]["published"]}
               /\ retained \in {file'[a]["staged"], file'[a]["published"]}

\* Such a file keeps its staged name until its published name is durable, too (Retain,
\* moveNoReplace).
RetainedNeverLost == [][KeepsRetained]_vars

\* A step replaces no published file by another one.
KeepsPublished ==
    \A a \in DOMAIN file :
        file[a]["published"] # None => file'[a]["published"] \in {file[a]["published"], None}

\* What stands in a release directory is never replaced (moveNoReplace).
NeverReplaced == [][KeepsPublished]_vars
=============================================================================
