----------------------------- MODULE RadarrCase -----------------------------
(***************************************************************************)
(* The repair case of a Radarr download: which queue entries and which     *)
(* downloads are looked at (candidates.go and correlation.go of            *)
(* internal/controller), which files and what of their probes are shown    *)
(* (media.go, casebuilder/probe.go), which repairs are offered             *)
(* (casebuilder/assemble.go), and when two observations are of the same    *)
(* state (equivalence.go).  The conventions are those of DiscTitles and    *)
(* JoinFeasibility.                                                        *)
(*                                                                         *)
(* A case is the record of all the planner is shown but the time; its ID   *)
(* is a hash of exactly that, so the case stands for its ID.               *)
(***************************************************************************)
EXTENDS JoinFeasibility, DiscTitles

CONSTANTS Sources,   \* the protocol and client pairs downloadsource knows
          Published, \* names this program gives to the files it publishes
          Telling    \* the messages that spell out a local path or a download ID

-----------------------------------------------------------------------------
(* Queue entries and downloads *)

eligibleQueueState(record) ==
    /\ record.status = "completed" /\ record.tracked = "warning"
    /\ record.state \in {"importBlocked", "importPending"}

\* A download ID or an output path is "" if it cannot be used.
usable(text) == text # ""

classifyRepairCandidate(record) ==
    /\ record.source \in Sources
    /\ record.status = "completed" /\ record.remaining = 0
    /\ eligibleQueueState(record)
    /\ usable(record.download) /\ usable(record.output)

\* The entry with this number, if it is the first one and a candidate.
selectCandidate(records, id) ==
    LET found == SelectSeq(records, LAMBDA r : r.id = id)
    IN  IF found # <<>> /\ classifyRepairCandidate(found[1]) THEN {found[1]} ELSE {}

\* The IDs are compared as the client wants it; here they are spelt alike.
CorrelateDownload(record, download) ==
    /\ usable(record.download) /\ download.id = record.download
    /\ download.stable /\ download.complete
    /\ download.manifest =>
         /\ \A e \in download.entries : e.selected => e.completed = e.length
         /\ \E e \in download.entries : e.selected
    /\ usable(download.output) /\ usable(record.output) /\ download.output = record.output

-----------------------------------------------------------------------------
(* Files and probes *)

isRawDiscPath(path) == Range(path.dir) \cap {"BDMV", "bdmv", "VIDEO_TS", "video_ts"} # {}
SupportsJoinPartsPath(path) == ~isRawDiscPath(path)
supportedMediaExtension(name) == {name.ext} \cap {"ts", "m2ts", "mp4", "mkv", "avi"}

\* Why a file is only shown and not probed; "" if it is probed.
classifyMediaFile(file) ==
    IF file.entry = {} THEN "untracked"
    ELSE LET e == The(file.entry)
         IN  CASE ~e.selected -> "unwanted"
               [] e.selected /\ e.completed # e.length -> "incomplete"
               [] e.selected /\ e.completed = e.length /\ (file.size <= 0 \/ e.length <= 0) -> "empty"
               [] OTHER -> IF supportedMediaExtension(file.path.name) = {}
                             THEN "unsupported_extension" ELSE ""
ProbeCandidate(file) == classifyMediaFile(file) = ""

\* What a stream must tell to be shown.
mapStream(s) == s.kind # {} /\ s.codec # {} /\ s.timebase # {} /\ s.disposition # {}

Unavailable(status, reason) == [status |-> status, reason |-> reason, format |-> {}]

\* A probe that leaves out what the planner needs is a failed one; one of
\* another size is of another file, which is an error.
mapSuccessfulProbe(evidence, size) ==
    IF evidence.probed = {} THEN {Unavailable("failed", "incomplete_metadata")}
    ELSE IF The(evidence.probed) # size THEN {}
    ELSE IF \E s \in Range(evidence.streams) : ~mapStream(s)
         THEN {Unavailable("failed", "incomplete_metadata")}
    ELSE {[status |-> "ok", reason |-> "",
           format |-> {[names |-> evidence.names, duration |-> AssessProbeDuration(evidence).effective,
                        streams |-> orderedStreams(evidence.streams)]}]}

failedProbeReason(reason) ==
    reason \in {"not_regular_file", "unsupported_format", "timeout", "probe_error",
                "invalid_output", "incomplete_metadata"}
uncollectedProbeReason(reason) == reason \in {"not_candidate", "collection_limit"}

mapProbe(outcome, size) ==
    CASE outcome.status = "ok" ->
           IF outcome.evidence = {} THEN {} ELSE mapSuccessfulProbe(The(outcome.evidence), size)
      [] outcome.status = "failed" ->
           IF outcome.evidence # {} \/ ~failedProbeReason(outcome.reason) THEN {}
           ELSE {Unavailable("failed", outcome.reason)}
      [] outcome.status = "not_collected" ->
           IF outcome.evidence # {} \/ ~uncollectedProbeReason(outcome.reason) THEN {}
           ELSE {Unavailable("not_collected", outcome.reason)}

Shown(file, fingerprint, probe) ==
    [path |-> file.path, size |-> file.size, entry |-> file.entry, fingerprint |-> fingerprint,
     extension |-> supportedMediaExtension(file.path.name),
     reason |-> classifyMediaFile(file), probe |-> probe]

\* Mutant: the planner is shown the fingerprint with the device.
mapFileStrict(file, outcome) ==
    {Shown(file, StrictFingerprint(file), p) : p \in mapProbe(outcome, file.size)}
mapFile(file, outcome) ==
    IF ProbeCandidate(file) = (outcome.status = "not_collected" /\ outcome.reason = "not_candidate")
    THEN {}
    ELSE {Shown(file, StableFingerprint(file), p) : p \in mapProbe(outcome, file.size)}

-----------------------------------------------------------------------------
(* Radarr's import list *)

IsPublishedName(path) == path \in Published

\* Every file Radarr lists must be one of the inventory, with its size.
matchManualImports(imports, files) ==
    LET ours == SelectSeq(imports, LAMBDA m : ~IsPublishedName(m.path))
    IN  IF /\ \A m \in Range(ours) : \E f \in inventoryIndex(files, m.path) : f.size = m.size
           /\ IsInjective(Mapped(LAMBDA m : m.path, ours))
        THEN {Mapped(LAMBDA m : [file |-> The(inventoryIndex(files, m.path)), import |-> m], ours)}
        ELSE {}

\* The planner reads the texts of the rejections, not their codes.
mapManualImports(matches) ==
    Mapped(LAMBDA m : [path |-> m.file.path, quality |-> m.import.quality,
                       languages |-> m.import.languages,
                       reasons |-> Mapped(LAMBDA r : r.text, m.import.rejections)],
           matches)

\* Whether there is a file already is not the planner's to know.
mapMovie(movie) == {[id |-> m.id, runtime |-> m.runtime] : m \in movie}

mapRadarr(o, matches) ==
    IF \A e \in Range(o.history) : o.record.movie = {e.movie} /\ e.download = o.record.download
    THEN {[id |-> o.record.id, state |-> o.record.state, messages |-> o.record.messages,
           movie |-> mapMovie(o.movie), history |-> o.history,
           imports |-> mapManualImports(matches)]}
    ELSE {}

\* The newest grab of this download, by time and then by number.
latestMatchingGrab(history, movie, download) ==
    LET grabs == {e \in Range(history) :
                    e.type = "grabbed" /\ e.movie = movie /\ e.download = download}
    IN  {e \in grabs : \A f \in grabs : f.at < e.at \/ (f.at = e.at /\ f.id <= e.id)}

\* A name of "" is none.
validLanguages(languages) == "" \notin languages
CompleteCommand(c) ==
    /\ c.mode = "copy" /\ c.quality # "" /\ validLanguages(c.languages)
    /\ usable(c.download) /\ c.movie > 0
Complete(binding) == binding.fingerprint.size > 0 /\ CompleteCommand(binding.command)

BindRadarrManualImportFile(file, import, history) ==
    LET grab == IF import.quality = {}
                THEN latestMatchingGrab(history, import.movie, import.download) ELSE {}
        quality == IF import.quality # {} THEN import.quality ELSE UNION {g.quality : g \in grab}
        languages == IF import.languages = {} THEN UNION {g.languages : g \in grab}
                     ELSE import.languages
        binding(q) == [path |-> file.path, fingerprint |-> StrictFingerprint(file),
                       command |-> [mode |-> "copy", path |-> import.path, quality |-> q,
                                    languages |-> languages, download |-> import.download,
                                    movie |-> import.movie]]
    IN  IF ~ProbeCandidate(file) \/ isRawDiscPath(file.path) \/ import.size # file.size THEN {}
        ELSE {b \in {binding(q) : q \in quality} : Complete(b)}

-----------------------------------------------------------------------------
(* The case *)

\* Mutant: one part is enough for a join.
joinCapabilitiesOne(candidates) ==
    IF Len(candidates) < 1 THEN <<>>
    ELSE <<[action |-> "join_parts", id |-> [action |-> "join_parts", candidates |-> candidates],
            candidates |-> candidates]>>

joinCapabilities(candidates) ==
    IF Len(candidates) < 2 THEN <<>>
    ELSE <<[action |-> "join_parts", id |-> [action |-> "join_parts", candidates |-> candidates],
            candidates |-> candidates]>>

manualImportCapabilityID(b) ==
    [action |-> "manual_import_file", command |-> b.command,
     fingerprint |-> StableFingerprint(b.fingerprint)]

\* The files that can be imported as they are, with what is needed to do so.
bindManualImportCapabilities(matches, history) ==
    LET Bound(m) == BindRadarrManualImportFile(m.file, m.import, history)
    IN  Mapped(LAMBDA m : The(Bound(m)), SelectSeq(matches, LAMBDA m : Bound(m) # {}))

mapDownload(download) == [download EXCEPT !.entries = {}]

rejectLocalValues(record) == record.messages \in Telling

\* What an observation makes of the case; {} if it is no evidence.
Assemble(o) ==
    LET shown == Mapped(LAMBDA f : mapFile(f, o.probes[f.path]), o.files)
        files == Mapped(The, shown)
        joinable == SelectSeq(files, LAMBDA f : /\ f.reason = "" /\ f.probe.status = "ok"
                                                /\ SupportsJoinPartsPath(f.path))
        Case(matches, radarr, bluray, dvd) ==
            LET bindings == bindManualImportCapabilities(matches, o.history)
            IN  [request |->
                   [radarr |-> radarr, download |-> mapDownload(o.download), files |-> files,
                    capabilities |->
                      joinCapabilities(Mapped(LAMBDA f : f.path, joinable))
                      \o Mapped(LAMBDA b : [action |-> "manual_import_file", path |-> b.path,
                                            id |-> manualImportCapabilityID(b)], bindings)
                      \o bluray \o dvd],
                 observation |-> o, bindings |-> bindings]
    IN  IF \/ ~CorrelateDownload(o.record, o.download)
           \/ \E m \in o.movie : o.record.movie # {m.id}
           \/ DOMAIN o.probes # {f.path : f \in Range(o.files)}
           \/ \E s \in Range(shown) : s = {}
           \/ rejectLocalValues(o.record)
        THEN {}
        ELSE UNION {{Case(matches, radarr, bluray, dvd) :
                       radarr \in mapRadarr(o, matches),
                       bluray \in bindBluRayCapabilities(o.playlists, o.files),
                       dvd \in bindDVDCapabilities(o.titles, o.files)} :
                     matches \in matchManualImports(o.imports, o.files)}

withoutManualImportRejectionCodes(o) ==
    [o EXCEPT !.imports = Mapped(LAMBDA m : [m EXCEPT !.rejections =
                                    Mapped(LAMBDA r : [r EXCEPT !.code = ""], @)], @)]

\* Mutant: the times of the two observations are compared, too.
SameCaseStateAt(left, right) ==
    /\ left.request = right.request /\ left.bindings = right.bindings
    /\ withoutManualImportRejectionCodes(left.observation)
         = withoutManualImportRejectionCodes(right.observation)
SameCaseState(left, right) ==
    /\ left.request = right.request /\ left.bindings = right.bindings
    /\ withoutManualImportRejectionCodes([left.observation EXCEPT !.at = 0])
         = withoutManualImportRejectionCodes([right.observation EXCEPT !.at = 0])
=============================================================================
