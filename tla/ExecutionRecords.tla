-------------------------- MODULE ExecutionRecords --------------------------
(***************************************************************************)
(* The execution record of a Radarr case (internal/casestore): what a      *)
(* manual import, a join, a Blu-ray remux and a DVD remux store of their   *)
(* progress, which records their decoders accept, and what each operation  *)
(* makes of the record.  The four kinds share one file per case, and a     *)
(* decoder refuses the record of another kind.                             *)
(*                                                                         *)
(* An operation is the set of records it may leave: {} if it returns an    *)
(* error, the record itself if it reports no change.                       *)
(***************************************************************************)
EXTENDS Naturals

CONSTANTS Files,        \* a path as Radarr sees it
          Artifacts,    \* an artifact ID with its fingerprint
          Places,       \* a worker root and a path under it
          Reasons,      \* of a failed worker operation
          Histories,    \* Radarr history IDs
          Commands,     \* Radarr command IDs
          Times, Absent, None

Kinds == {"manual", "join", "remux", "dvd"}
Discs == {"remux", "dvd"}

\* What a decision of the planner authorizes: the decision policy derives it
\* from the stored case, so one per decision.
Authorizations == [kind : Kinds, file : Files]

\* The verdict on a staged join: accepted, or the rejections found.
Rejections == {"stage_failed", "mismatch"}
Verdicts == {"accepted"} \cup Rejections

Prepared(auth, legacy, state, before, at) ==
    [kind |-> auth.kind, auth |-> auth, legacy |-> legacy, state |-> state,
     stage |-> None, artifact |-> None, published |-> None, failure |-> None,
     path |-> None, before |-> before, importAt |-> None, command |-> None,
     confirmation |-> None, preparedAt |-> at, updatedAt |-> at]

Confirmations == [history : Histories, path : Files]
Failures == [op : {"stage", "publish", "discard"}, reason : Reasons]

ImportStates == {"import_prepared", "import_requested", "imported", "import_failed"}
DiscStates == {"prepared", "staged", "published", "failed"} \cup ImportStates
StatesOf ==
    [manual |-> {"manual_prepared", "manual_requested", "imported", "import_failed"},
     join |-> {"prepared", "artifact_ready", "discard_pending", "discarded", "published", "failed"}
              \cup ImportStates,
     remux |-> DiscStates, dvd |-> DiscStates]
States == StatesOf["manual"] \cup StatesOf["join"] \cup DiscStates

\* The stored record
ExecutionRecord ==
    [kind : Kinds, auth : Authorizations, legacy : BOOLEAN, state : States,
     stage : Verdicts \cup Places \cup {None}, artifact : Artifacts \cup {None},
     published : Places \cup {None}, failure : Failures \cup {None}, path : Files \cup {None},
     before : Histories \cup {None}, importAt : Times \cup {None}, command : Commands \cup {None},
     confirmation : Confirmations \cup {None}, preparedAt : Times, updatedAt : Times]

\* What the proofs need of the constants
ConstantsOK ==
    /\ Histories \subseteq Nat /\ Times \subseteq Nat
    /\ \A S \in {Verdicts, Places, Artifacts, Files, Histories, Times, Commands} : None \notin S
    /\ None \notin Confirmations /\ None \notin Failures
    /\ Places \cap Rejections = {}
    /\ Absent \notin ExecutionRecord

-----------------------------------------------------------------------------
(* What the decoders accept *)

Unimported(r) == r.path = None /\ r.command = None /\ r.confirmation = None

validateManualImportExecution(r) ==
    /\ r.state \in {"manual_prepared", "manual_requested", "imported", "import_failed"}
    /\ r.state = "manual_prepared" => r.command = None
    /\ r.state = "manual_requested" => r.command # None
    /\ (r.confirmation # None) = (r.state = "imported")
    /\ r.state = "imported" => r.confirmation.history > r.before

validateStoredJoinImport(r) ==
    r.path # None /\ r.preparedAt <= r.importAt /\ r.importAt <= r.updatedAt

requireJoinArtifact(r, rejected, published) ==
    /\ r.artifact # None
    /\ (r.stage \in Rejections) = rejected
    /\ (r.published # None) = published

requireJoinBeforeImport(r, rejected, published) ==
    requireJoinArtifact(r, rejected, published) /\ Unimported(r)

requireJoinImport(r) ==
    /\ requireJoinArtifact(r, FALSE, TRUE)
    /\ validateStoredJoinImport(r)
    /\ r.state \in {"import_requested", "import_failed"} => r.command # None
    /\ r.state = "import_prepared" => r.command = None
    /\ (r.confirmation # None) = (r.state = "imported")
    /\ r.state = "imported" => /\ r.confirmation.path = r.path
                               /\ r.confirmation.history > r.before

\* validateJoinFailure and the failed states
failedJoin(r) ==
    CASE r.failure.op = "stage"   -> /\ r.artifact = None /\ r.published = None
                                     /\ r.stage \in Rejections /\ Unimported(r)
      [] r.failure.op = "publish" -> requireJoinBeforeImport(r, FALSE, FALSE)
      [] r.failure.op = "discard" -> requireJoinBeforeImport(r, TRUE, FALSE)

validateJoinExecution(r) ==
    /\ (r.stage # None) = (r.state # "prepared")
    /\ (r.failure # None) = (r.state = "failed")
    /\ r.state = "prepared" => r.artifact = None /\ r.published = None /\ Unimported(r)
    /\ r.state = "artifact_ready" => requireJoinBeforeImport(r, FALSE, FALSE)
    /\ r.state \in {"discard_pending", "discarded"} => requireJoinBeforeImport(r, TRUE, FALSE)
    /\ r.state = "published" => requireJoinBeforeImport(r, FALSE, TRUE)
    /\ r.state = "failed" => failedJoin(r)
    /\ r.state \in {"import_prepared", "import_requested", "imported", "import_failed"}
          => requireJoinImport(r)

\* dir is what the stage request fixed: the root and the directory of the disc
validateRemuxExecution(r) ==
    /\ (r.stage # None) = (r.state # "prepared")
    /\ (r.failure # None) = (r.state = "failed")
    /\ r.state = "prepared" => r.artifact = None
    /\ r.state = "failed" => (r.artifact # None) = (r.failure.op = "publish")
    /\ r.state \notin {"prepared", "failed"} => r.artifact # None
    /\ IF r.state \in {"prepared", "staged", "failed"}
       THEN r.published = None ELSE r.published = r.stage
    /\ IF r.state \in {"prepared", "staged", "failed", "published"} THEN Unimported(r)
       ELSE /\ validateStoredJoinImport(r)
            /\ r.state = "import_prepared" => r.command = None
            /\ r.state \in {"import_requested", "import_failed"} => r.command # None
            /\ (r.confirmation # None) = (r.state = "imported")

\* The same for a DVD, whose record holds its own authorization and request
validateDVDExecution(r) ==
    /\ r.state = "prepared" => r.stage = None /\ r.artifact = None /\ Unimported(r)
    /\ r.state # "prepared" => r.stage # None
    /\ (r.failure # None) = (r.state = "failed")
    /\ r.state = "failed" => /\ (r.artifact # None) = (r.failure.op = "publish")
                             /\ r.published = None /\ Unimported(r)
    /\ r.state \notin {"prepared", "failed"} => r.artifact # None
    /\ r.state \in {"prepared", "staged"} => r.published = None /\ Unimported(r)
    /\ r.state = "published" => r.published = r.stage /\ Unimported(r)
    /\ r.state \in {"import_prepared", "import_requested", "imported", "import_failed"} =>
          /\ r.published = r.stage /\ validateStoredJoinImport(r)
          /\ r.state = "import_prepared" => r.command = None
          /\ r.state \in {"import_requested", "import_failed"} => r.command # None
          /\ (r.confirmation # None) = (r.state = "imported")

validateExecution(r) ==
    /\ r.updatedAt >= r.preparedAt
    /\ CASE r.kind = "manual" -> validateManualImportExecution(r)
         [] r.kind = "join"   -> validateJoinExecution(r)
         [] r.kind = "remux"  -> validateRemuxExecution(r)
         [] r.kind = "dvd"    -> validateDVDExecution(r)

-----------------------------------------------------------------------------
(* The calls *)

Preparation == [manual |-> "PrepareManualImport", join |-> "PrepareJoin",
                remux |-> "PrepareRemux", dvd |-> "PrepareDVD"]

PrepareCallsOf(k) ==
    [op : {Preparation[k]}, auth : [kind : {k}, file : Files], before : Histories, at : Times]
PrepareCalls == UNION {PrepareCallsOf(k) : k \in Kinds}
JoinStageCalls ==
    [op : {"RecordJoinStage"}, auth : [kind : {"join"}, file : Files], legacy : BOOLEAN,
     reason : Reasons \cup {None}, artifact : Artifacts, verdict : Verdicts, at : Times]
DiscStageCalls ==
    [op : {"RecordRemuxStage", "RecordDVDStage"}, auth : [kind : Discs, file : Files],
     place : Places, reason : Reasons \cup {None}, artifact : Artifacts, faithful : BOOLEAN, at : Times]
PublishCalls ==
    [op : {"RecordJoinPublish", "RecordRemuxPublish", "RecordDVDPublish"},
     reason : Reasons \cup {None}, artifact : Artifacts, place : Places, at : Times]
DiscardCalls ==
    [op : {"RecordJoinDiscard"}, reason : Reasons \cup {None}, artifact : Artifacts, at : Times]
ImportCalls ==
    [op : {"PrepareJoinImport", "PrepareRemuxImport"}, path : Files, before : Histories, at : Times]
RequestedCalls ==
    [op : {"MarkManualImportRequested", "MarkJoinImportRequested", "MarkRemuxImportRequested"},
     command : Commands, at : Times]
ImportedCalls ==
    [op : {"MarkManualImportImported", "MarkJoinImported", "MarkRemuxImported"},
     auth : [kind : {"manual"}, file : Files], path : Files, history : Histories, at : Times]
FailedCalls ==
    [op : {"MarkManualImportFailed", "MarkJoinImportFailed", "MarkRemuxImportFailed"}, at : Times]

UpdateCalls ==
    JoinStageCalls \cup DiscStageCalls \cup PublishCalls \cup DiscardCalls
    \cup ImportCalls \cup RequestedCalls \cup ImportedCalls \cup FailedCalls
Calls == PrepareCalls \cup UpdateCalls

\* A transition, or a repetition of the one recorded, which changes nothing
Step(allowed, to, repeated, r) ==
    IF repeated THEN {r} ELSE IF allowed THEN {to} ELSE {}

\* The update functions: decode, refuse a step back in time, stamp the change
Updated(kinds, o, r, changed) ==
    IF r = Absent THEN {}
    ELSE IF r.kind \notin kinds \/ o.at < r.updatedAt THEN {}
    ELSE {IF n = r THEN r ELSE [n EXCEPT !.updatedAt = o.at] : n \in changed}

-----------------------------------------------------------------------------
(* Preparation, for an authorization the plan grants *)

PrepareManualImport(o, r) ==
    IF r = Absent THEN {Prepared(o.auth, FALSE, "manual_prepared", o.before, o.at)}
    ELSE IF r.kind = "manual" /\ r.auth = o.auth THEN {r} ELSE {}

\* JoinExecutionNeedsRecheck: discarded by the rules of an older release
needsRecheck(r) == r.state = "discarded" /\ r.legacy

PrepareJoin(o, r) ==
    LET fresh == Prepared(o.auth, FALSE, "prepared", None, o.at)
    IN  IF r = Absent THEN {fresh}
        ELSE IF r.kind # "join" \/ r.auth # o.auth THEN {}
        ELSE IF needsRecheck(r) THEN {fresh} ELSE {r}

PrepareRemux(o, r) ==
    IF r = Absent THEN {Prepared(o.auth, FALSE, "prepared", None, o.at)}
    ELSE IF r.kind = "remux" /\ r.auth = o.auth THEN {r} ELSE {}

PrepareDVD(o, r) ==
    IF r = Absent THEN {Prepared(o.auth, FALSE, "prepared", None, o.at)}
    ELSE IF r.kind = "dvd" /\ r.auth = o.auth THEN {r} ELSE {}

-----------------------------------------------------------------------------
(* Worker results *)

\* joinStageOutcome
joinStageOutcome(o, r) ==
    IF o.reason # None
    THEN [r EXCEPT !.state = "failed", !.stage = "stage_failed",
                   !.failure = [op |-> "stage", reason |-> o.reason]]
    ELSE [r EXCEPT !.state = IF o.verdict = "accepted" THEN "artifact_ready"
                             ELSE "discard_pending",
                   !.stage = o.verdict, !.artifact = o.artifact]

RecordJoinStage(o, r) ==
    LET next == joinStageOutcome(o, r)
    IN  IF r.auth # o.auth \/ r.legacy # o.legacy THEN {}
        ELSE Step(r.state = "prepared", next,
                  /\ r.stage # None /\ r.stage = next.stage
                  /\ IF o.reason # None THEN r.artifact = None /\ r.failure = next.failure
                     ELSE r.artifact = next.artifact, r)

\* repeatedJoinFailure
repeatedJoinFailure(op, o, r) ==
    r.failure = [op |-> op, reason |-> o.reason]

\* Mutant: a rejected artifact is published as well.
RecordJoinPublishRejected(o, r) ==
    IF o.reason = None /\ r.state \in {"artifact_ready", "discard_pending"}
    THEN {[r EXCEPT !.state = "published", !.published = o.place]} ELSE {}

RecordJoinPublish(o, r) ==
    IF o.reason # None
    THEN Step(r.state = "artifact_ready",
              [r EXCEPT !.state = "failed", !.failure = [op |-> "publish", reason |-> o.reason]],
              repeatedJoinFailure("publish", o, r), r)
    ELSE Step(r.state = "artifact_ready" /\ r.artifact = o.artifact,
              [r EXCEPT !.state = "published", !.published = o.place],
              r.state = "published" /\ r.artifact = o.artifact /\ r.published = o.place, r)

RecordJoinDiscard(o, r) ==
    IF o.reason # None
    THEN Step(r.state = "discard_pending",
              [r EXCEPT !.state = "failed", !.failure = [op |-> "discard", reason |-> o.reason]],
              repeatedJoinFailure("discard", o, r), r)
    ELSE Step(r.state = "discard_pending" /\ r.artifact = o.artifact,
              [r EXCEPT !.state = "discarded"],
              r.state = "discarded" /\ r.artifact = o.artifact, r)

\* A remux is staged from prepared only, and output that does not match the
\* disc is refused rather than recorded.
discStaged(o, r) ==
    IF o.reason # None
    THEN {[r EXCEPT !.state = "failed", !.stage = o.place,
                    !.failure = [op |-> "stage", reason |-> o.reason]]}
    ELSE IF o.faithful
    THEN {[r EXCEPT !.state = "staged", !.stage = o.place, !.artifact = o.artifact]}
    ELSE {}

RecordRemuxStage(o, r) ==
    IF r.kind = "remux" /\ r.state = "prepared" /\ r.auth = o.auth
    THEN discStaged(o, r) ELSE {}

RecordDVDStage(o, r) ==
    IF r.kind = "dvd" /\ r.state = "prepared" /\ r.auth = o.auth
    THEN discStaged(o, r) ELSE {}

discPublished(o, r) ==
    IF o.reason # None
    THEN {[r EXCEPT !.state = "failed", !.failure = [op |-> "publish", reason |-> o.reason]]}
    ELSE IF o.artifact = r.artifact /\ o.place = r.stage
    THEN {[r EXCEPT !.state = "published", !.published = o.place]}
    ELSE {}

RecordRemuxPublish(o, r) ==
    IF r.kind = "remux" /\ r.state = "staged" THEN discPublished(o, r) ELSE {}

RecordDVDPublish(o, r) ==
    IF r.kind = "dvd" /\ r.state = "staged" THEN discPublished(o, r) ELSE {}

-----------------------------------------------------------------------------
(* The import into Radarr *)

importPrepared(o, r) ==
    [r EXCEPT !.state = "import_prepared", !.path = o.path,
              !.before = o.before, !.importAt = o.at]

\* A repeated join import may come with a newer history; the first one counts.
PrepareJoinImport(o, r) ==
    IF r.path # None THEN IF r.path = o.path THEN {r} ELSE {}
    ELSE Step(r.state = "published", importPrepared(o, r), FALSE, r)

PrepareRemuxImport(o, r) ==
    IF r.path # None THEN IF r.path = o.path /\ r.before = o.before THEN {r} ELSE {}
    ELSE Step(r.state = "published", importPrepared(o, r), FALSE, r)

\* The three MarkImportRequested operations
MarkRequested(prepared, requested, o, r) ==
    Step(r.state = prepared, [r EXCEPT !.state = requested, !.command = o.command],
         r.state = requested /\ r.command = o.command, r)

MarkManualImportRequested(o, r) ==
    MarkRequested("manual_prepared", "manual_requested", o, r)

MarkJoinImportRequested(o, r) ==
    MarkRequested("import_prepared", "import_requested", o, r)

MarkRemuxImportRequested(o, r) ==
    MarkRequested("import_prepared", "import_requested", o, r)

\* radarrImportConfirmation
radarrImportConfirmation(o) == [history |-> o.history, path |-> o.path]

MarkManualImportImported(o, r) ==
    IF r.auth # o.auth \/ o.path # o.auth.file THEN {}
    ELSE Step(r.state \in {"manual_prepared", "manual_requested"} /\ o.history > r.before,
              [r EXCEPT !.state = "imported", !.confirmation = radarrImportConfirmation(o)],
              r.state = "imported" /\ r.confirmation = radarrImportConfirmation(o), r)

MarkJoinImported(o, r) ==
    IF r.path # o.path THEN {}
    ELSE Step(r.state \in {"import_prepared", "import_requested"} /\ o.history > r.before,
              [r EXCEPT !.state = "imported", !.confirmation = radarrImportConfirmation(o)],
              r.state = "imported" /\ r.confirmation = radarrImportConfirmation(o), r)

\* Mutant: an import of the file from before the request counts.
MarkRemuxImportedEarly(o, r) ==
    IF r.path # o.path THEN {}
    ELSE Step(r.state \in {"import_prepared", "import_requested"},
              [r EXCEPT !.state = "imported", !.confirmation = radarrImportConfirmation(o)],
              r.state = "imported" /\ r.confirmation = radarrImportConfirmation(o), r)

MarkRemuxImported(o, r) ==
    IF r.path # o.path \/ o.history <= r.before THEN {}
    ELSE Step(r.state \in {"import_prepared", "import_requested"},
              [r EXCEPT !.state = "imported", !.confirmation = radarrImportConfirmation(o)],
              r.state = "imported" /\ r.confirmation = radarrImportConfirmation(o), r)

\* A manual import may fail before its command is known.
MarkManualImportFailed(o, r) ==
    Step(r.state \in {"manual_prepared", "manual_requested"},
         [r EXCEPT !.state = "import_failed"], r.state = "import_failed", r)

MarkJoinImportFailed(o, r) ==
    Step(r.state = "import_requested", [r EXCEPT !.state = "import_failed"],
         r.state = "import_failed", r)

MarkRemuxImportFailed(o, r) ==
    Step(r.state = "import_requested", [r EXCEPT !.state = "import_failed"],
         r.state = "import_failed", r)

-----------------------------------------------------------------------------
updateManualImportExecution(o, r) ==
    Updated({"manual"}, o, r,
        CASE o.op = "MarkManualImportRequested" -> MarkManualImportRequested(o, r)
          [] o.op = "MarkManualImportImported"  -> MarkManualImportImported(o, r)
          [] o.op = "MarkManualImportFailed"    -> MarkManualImportFailed(o, r))

updateJoinExecution(o, r) ==
    Updated({"join"}, o, r,
        CASE o.op = "RecordJoinStage"         -> RecordJoinStage(o, r)
          [] o.op = "RecordJoinPublish"       -> RecordJoinPublish(o, r)
          [] o.op = "RecordJoinDiscard"       -> RecordJoinDiscard(o, r)
          [] o.op = "PrepareJoinImport"       -> PrepareJoinImport(o, r)
          [] o.op = "MarkJoinImportRequested" -> MarkJoinImportRequested(o, r)
          [] o.op = "MarkJoinImported"        -> MarkJoinImported(o, r)
          [] o.op = "MarkJoinImportFailed"    -> MarkJoinImportFailed(o, r))

updateRemuxExecution(o, r) ==
    Updated(Discs, o, r,
        CASE o.op = "RecordRemuxStage"         -> RecordRemuxStage(o, r)
          [] o.op = "RecordRemuxPublish"       -> RecordRemuxPublish(o, r)
          [] o.op = "RecordDVDStage"           -> RecordDVDStage(o, r)
          [] o.op = "RecordDVDPublish"         -> RecordDVDPublish(o, r)
          [] o.op = "PrepareRemuxImport"       -> PrepareRemuxImport(o, r)
          [] o.op = "MarkRemuxImportRequested" -> MarkRemuxImportRequested(o, r)
          [] o.op = "MarkRemuxImported"        -> MarkRemuxImported(o, r)
          [] o.op = "MarkRemuxImportFailed"    -> MarkRemuxImportFailed(o, r))

\* What a call leaves of the record, before the encoder looks at it
Outcome(o, r) ==
    CASE o.op = "PrepareManualImport" -> PrepareManualImport(o, r)
      [] o.op = "PrepareJoin"         -> PrepareJoin(o, r)
      [] o.op = "PrepareRemux"        -> PrepareRemux(o, r)
      [] o.op = "PrepareDVD"          -> PrepareDVD(o, r)
      [] o.op \in {"MarkManualImportRequested", "MarkManualImportImported",
                   "MarkManualImportFailed"} -> updateManualImportExecution(o, r)
      [] o.op \in {"RecordJoinStage", "RecordJoinPublish", "RecordJoinDiscard",
                   "PrepareJoinImport", "MarkJoinImportRequested", "MarkJoinImported",
                   "MarkJoinImportFailed"} -> updateJoinExecution(o, r)
      [] o.op \in {"RecordRemuxStage", "RecordRemuxPublish", "RecordDVDStage",
                   "RecordDVDPublish", "PrepareRemuxImport", "MarkRemuxImportRequested",
                   "MarkRemuxImported", "MarkRemuxImportFailed"} -> updateRemuxExecution(o, r)

\* The write functions: the encoder validates what it stores.
Written(o, r) == {n \in Outcome(o, r) : n = r \/ validateExecution(n)}
=============================================================================
