---------------------------- MODULE RadarrPolicy ----------------------------
(***************************************************************************)
(* Which of a planner's decisions may be carried out on an assembled case  *)
(* (internal/decisionpolicy and executioncheck.Authorize), whether that    *)
(* could replace a better file (controller/replacement.go and              *)
(* executioncheck/replacement.go), and the import of what was made         *)
(* (controller/manual_import.go).  A decision names the case it is for, a  *)
(* capability and the files it selects.                                    *)
(***************************************************************************)
EXTENDS RadarrCase

CONSTANTS Minute,          \* milliseconds in a minute of Radarr's runtime
          MinimumTolerance \* minimumRuntimeToleranceMS

NoRepair == "no_repair"
Join == "join_parts"
ManualImport == "manual_import_file"
Bluray == "remux_bluray"
DVD == "remux_dvd"

findCapability(capabilities, id) ==
    LET found == SelectSeq(capabilities, LAMBDA c : c.id = id)
    IN  IF found = <<>> THEN {} ELSE {found[1]}

\* The capability a decision was made for, if it is one of this case.
Chosen(a, d, action) ==
    IF d.kind # action \/ d.case # a.request THEN {}
    ELSE {c \in findCapability(a.request.capabilities, d.capability) : c.action = action}

indexFiles(a, path) == inventoryIndex(a.observation.files, path)
Probed(a, path) ==
    a.observation.probes[path].status = "ok" /\ a.observation.probes[path].evidence # {}

-----------------------------------------------------------------------------
(* Joining *)

Actionable(a, path) ==
    \E f \in indexFiles(a, path) : ProbeCandidate(f) /\ SupportsJoinPartsPath(path)

SelectionFits(a, c, paths) ==
    /\ Len(paths) >= 2 /\ IsInjective(paths)
    /\ Range(paths) \subseteq Range(c.candidates)
    /\ \A p \in Range(paths) : Actionable(a, p) /\ Probed(a, p)

PartEvidence(a, path) ==
    LET f == The(indexFiles(a, path))
        e == The(a.observation.probes[path].evidence)
    IN  [id |-> path, size |-> f.size, extension |-> The(supportedMediaExtension(path.name)),
         names |-> e.names, duration |-> e.duration, streams |-> e.streams]

Authorized(a, kind, capability, paths) ==
    [kind |-> kind, capability |-> capability.id,
     parts |-> Mapped(LAMBDA p : [path |-> p, fingerprint |-> StrictFingerprint(The(indexFiles(a, p)))],
                      paths)]

ValidateJoin(a, d) ==
    UNION {{Authorized(a, Join, c, d.paths) :
              f \in IF SelectionFits(a, c, d.paths)
                    THEN AssessJoinFeasibility(Mapped(LAMBDA p : PartEvidence(a, p), d.paths))
                    ELSE {}} :
           c \in Chosen(a, d, Join)}

-----------------------------------------------------------------------------
(* Importing a file as it is *)

\* How far a duration is from Radarr's runtime and how far it may be; {} if
\* there is no runtime.
assessManualImportRuntime(duration, runtime, maximum) ==
    {[difference |-> Abs(r * Minute - duration),
      tolerance |-> Max({(r * Minute) \div 10, MinimumTolerance, maximum})] : r \in runtime}

movieRuntime(o) == UNION {m.runtime : m \in o.movie}

PlausibleRuntime(a, duration, maximum) ==
    \A r \in assessManualImportRuntime(duration, movieRuntime(a.observation), maximum) :
        r.difference <= r.tolerance

BindingFits(a, b, path) ==
    /\ Complete(b)
    /\ \E f \in indexFiles(a, path) :
         ProbeCandidate(f) /\ b.fingerprint = StrictFingerprint(f) /\ b.command.path = path
    /\ b.command.download = a.observation.record.download
    /\ a.observation.movie # {}
    /\ \A m \in a.observation.movie : b.command.movie = m.id
    /\ a.observation.record.movie = {b.command.movie}

\* The probe of a file that may be the movie.
MovieProbe(a, path, maximum) ==
    /\ Probed(a, path)
    /\ LET e == The(a.observation.probes[path].evidence)
           duration == AssessProbeDuration(e)
       IN  /\ hasVideo(e.streams)
           /\ ~duration.conflict /\ duration.effective # {}
           /\ PlausibleRuntime(a, The(duration.effective), maximum)

ValidateManualImport(a, d, maximum) ==
    UNION {{[kind |-> ManualImport, capability |-> c.id, command |-> b.command,
             parts |-> <<[path |-> b.path, fingerprint |-> b.fingerprint]>>] :
              b \in {b \in Range(a.bindings) :
                       /\ manualImportCapabilityID(b) = d.capability
                       /\ d.paths = <<b.path>> /\ c.path = b.path
                       /\ BindingFits(a, b, b.path) /\ MovieProbe(a, b.path, maximum)}} :
           c \in Chosen(a, d, ManualImport)}

-----------------------------------------------------------------------------
(* Remuxing a disc *)

availableRemuxFile(a, path) == \E f \in indexFiles(a, path) : available(f)

SourceBytes(a, paths) == FoldLeft(LAMBDA n, p : n + The(indexFiles(a, p)).size, 0, paths)

\* A disc is remuxed only to a movie of known runtime.
KnownRuntime(a, duration, maximum) ==
    /\ \E r \in movieRuntime(a.observation) : r > 0
    /\ PlausibleRuntime(a, duration, maximum)

ValidateRemux(a, d, maximum) ==
    UNION {{Authorized(a, Bluray, c, <<p.playlist>> \o p.clips) :
              p \in {p \in Range(a.observation.playlists) :
                       /\ p.playlist = c.playlist
                       /\ Len(SelectSeq(a.observation.playlists,
                                        LAMBDA q : q.playlist = c.playlist)) = 1
                       /\ p.details.duration = c.duration /\ p.details.chapters = c.chapters
                       /\ p.details.tracks = c.tracks /\ p.clips = c.clips
                       /\ KnownRuntime(a, p.details.duration, maximum)
                       /\ availableRemuxFile(a, p.playlist) /\ NumberedPlaylist(p.playlist.name)
                       /\ Last(p.playlist.dir) = "PLAYLIST" /\ Last(Front(p.playlist.dir)) = "BDMV"
                       /\ p.clips = p.details.clips
                       /\ \A q \in Range(p.clips) :
                            /\ availableRemuxFile(a, q) /\ NumberedClip(q.name)
                            /\ q.dir = StreamDirectory(p.playlist)
                       /\ SourceBytes(a, p.clips) <= MaxInt}} :
           c \in Chosen(a, d, Bluray)}

ValidateDVD(a, d, maximum) ==
    UNION {{Authorized(a, DVD, c, t.sources) :
              t \in {t \in Range(a.observation.titles) :
                       /\ t.navigation = c.navigation /\ t.details.number = c.title.number
                       /\ Len(SelectSeq(a.observation.titles, LAMBDA u :
                                /\ u.navigation = c.navigation
                                /\ u.details.number = c.title.number)) = 1
                       /\ t.details = c.title /\ t.sources = c.sources
                       /\ KnownRuntime(a, t.details.duration, maximum)
                       /\ availableRemuxFile(a, t.navigation) /\ Navigation(t.navigation.name)
                       /\ t.navigation \in Range(t.sources)
                       /\ \A q \in Range(t.sources) :
                            availableRemuxFile(a, q) /\ q.dir = t.navigation.dir
                       /\ SourceBytes(a, t.sources) <= MaxInt}} :
           c \in Chosen(a, d, DVD)}

Authorize(a, d, maximum) ==
    CASE d.kind = Join -> ValidateJoin(a, d)
      [] d.kind = ManualImport -> ValidateManualImport(a, d, maximum)
      [] d.kind = Bluray -> ValidateRemux(a, d, maximum)
      [] d.kind = DVD -> ValidateDVD(a, d, maximum)
      [] OTHER -> {}

-----------------------------------------------------------------------------
(* Replacing a file *)

Superseded == {"notQualityUpgrade", "notRevisionUpgrade", "notCustomFormatUpgrade"}
Completed == {"minimumFreeSpace", "movieAlreadyImported", "movieNotFoundInRelease",
              "multiPartMovie", "noAudio", "sample", "sampleIndeterminate", "unknownMovie",
              "unpacking"}

\* Only rejections known to come after Radarr's comparison with the file it has
\* prove that the comparison was made.
ClassifyReplacement(movie, import) ==
    LET codes == {r.code : r \in Range(import.rejections)}
    IN  IF \A m \in movie : ~m.hasFile THEN "not_required"
        ELSE IF codes \cap Superseded # {} THEN "superseded"
        ELSE IF codes \subseteq Completed THEN "allowed"
        ELSE "unproved"

replacementForPath(a, path) ==
    LET listed == SelectSeq(a.observation.imports, LAMBDA m : m.path = path)
    IN  IF Len(listed) # 1 THEN "unproved"
        ELSE ClassifyReplacement(a.observation.movie, listed[1])

\* Whether what was authorized must not replace the movie's file.
ReplacementRejection(a, authorized) ==
    LET safety == {replacementForPath(a, p.path) : p \in Range(authorized.parts)}
    IN  /\ \E m \in a.observation.movie : m.hasFile
        /\ \/ authorized.kind \notin {Join, ManualImport}
           \/ safety # {"allowed"}

-----------------------------------------------------------------------------
(* The import of an output *)

BuildRadarrPublishedFileImport(path, movie, download, history) ==
    {c \in {[mode |-> "copy", path |-> path, quality |-> q, languages |-> g.languages,
             download |-> download, movie |-> movie] :
              g \in latestMatchingGrab(history, movie, download),
              q \in UNION {e.quality : e \in latestMatchingGrab(history, movie, download)}} :
       CompleteCommand(c)}
=============================================================================
