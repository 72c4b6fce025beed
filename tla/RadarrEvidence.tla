--------------------------- MODULE RadarrEvidence ---------------------------
(***************************************************************************)
(* One Radarr download from the evidence collected for it to the import it *)
(* authorizes: Inspector.Inspect (internal/inspection) as the adapter of   *)
(* internal/repairradarr calls it, once to observe the download and once   *)
(* more before a repair, with what the job keeps of it (jobs/store.go).    *)
(* An inspection is many calls.  Between any two of them the download      *)
(* client may go on, files may be rewritten or mounted anew, and Radarr    *)
(* may change its queue, its library and its opinion of the files.         *)
(*                                                                         *)
(* The inventory of the files is one step: Inventory shows that what it    *)
(* accepts was there at one instant.  The download holds no archive:       *)
(* Materialize is about those.                                             *)
(***************************************************************************)
EXTENDS RadarrPolicy

CONSTANTS Paths,          \* the paths of the download, in order
          FileOf(_, _),   \* the size and entry of a version of a file
          ProbeOf(_, _),  \* what ffprobe says of it
          DiscOf(_, _),   \* what mkvmerge or the DVD reader says of it
          Output,         \* the path of a published output
          Runtime,        \* Radarr's runtime of the movie in minutes; 0 if it knows none
          MaxRuntime,     \* maximumMovieRuntime
          Failures,       \* the reasons a worker may give for not probing a file
          Opinions,       \* the lists of rejections Radarr may give a file
          Starts,         \* states and movies of the queue entry, and whether there is a file
          Histories,      \* what Radarr may know of the download's history
          Stabilization,  \* how long a pending entry must be left alone
          Proposals(_),   \* the decisions a planner may answer for a case
          Changes,        \* the changes the world may make
          MaxChanges, MaxTime, MaxRevisions, MaxFaults

None == [kind |-> "none"]
Movie == 1
Content == Range(Paths)
MovieFiles == {p \in Content : supportedMediaExtension(p.name) # {}}
Tolerance == 0 \* RuntimeToleranceMS of a job nobody has reconsidered

VARIABLES disk,      \* the version of every file, the device, and whether an output is published
          entry,     \* the queue entry; present, state, messages, movie
          client,    \* the download: stable and complete
          library,   \* whether the movie has a file, and Radarr's opinion of each file
          grabs,     \* the history of the download
          now,
          job,       \* the job's row: state, evidence, decision, StableSince, collection error
          run,       \* the inspection in progress, or the repair it was for; its `seen` is
                     \* auxiliary: what has been true since the repair began
          born,      \* auxiliary: when the version of each file appeared
          changes, revisions, faults

vars == <<disk, entry, client, library, grabs, now, job, run, born, changes, revisions, faults>>
world == <<disk, entry, client, library, grabs, now, born, changes>>
bounds == <<revisions, faults>>

Idle == [pc |-> "idle"]

\* Something Radarr says against a file that keeps it from replacing another.
Worse(l, p) == l.hasFile /\ \E r \in Range(l.opinion[p]) : r.code \notin Completed
Watched(l) == {p \in Content : Worse(l, p)}

Init ==
    /\ disk = [version |-> [p \in Content |-> 1], device |-> 1, published |-> FALSE]
    /\ \E start \in Starts, o \in Opinions :
         /\ entry = [present |-> TRUE, state |-> start.state, messages |-> 0, movie |-> start.movie]
         /\ library = [hasFile |-> start.hasFile, opinion |-> [p \in Content |-> o]]
    /\ client = [stable |-> TRUE, complete |-> TRUE]
    /\ grabs \in Histories
    /\ now = 0
    /\ job = [state |-> "observed", evidence |-> None, decision |-> None, stable |-> 0, error |-> FALSE,
             queued |-> TRUE]
    /\ run = Idle
    /\ changes = 0 /\ revisions = 0 /\ faults = 0
    /\ born = [p \in Content |-> 0]

-----------------------------------------------------------------------------
(* What Radarr, the download client and the worker answer *)

QueueRecord ==
    [id |-> 1, source |-> "torrent", status |-> "completed", tracked |-> "warning",
     state |-> entry.state, remaining |-> 0, download |-> "d", output |-> "/d",
     messages |-> entry.messages, movie |-> entry.movie]
ReadQueue == IF entry.present THEN <<QueueRecord>> ELSE <<>>

FileNow(p) ==
    LET f == FileOf(p, disk.version[p])
    IN  [path |-> p, version |-> disk.version[p], device |-> disk.device,
         size |-> f.size, entry |-> {[path |-> p] @@ e : e \in f.entry}]

FindDownload ==
    [id |-> "d", output |-> "/d", manifest |-> TRUE, stable |-> client.stable,
     complete |-> client.complete, entries |-> UNION {FileNow(p).entry : p \in Content}]

ReadMovie ==
    IF Runtime < 0 \/ Runtime > MaxRuntime THEN {}
    ELSE {[id |-> Movie, runtime |-> {Runtime} \ {0}, hasFile |-> library.hasFile]}

Listed(p) ==
    [path |-> p, size |-> IF p = Output THEN 1 ELSE FileNow(p).size, movie |-> Movie,
     download |-> "d", quality |-> {}, languages |-> {},
     rejections |-> IF p = Output THEN <<>> ELSE library.opinion[p]]
\* A rejection without a code spoils the whole list.
mapManualImport(item) ==
    IF /\ item.size >= 0 /\ item.movie = Movie /\ item.download = "d"
       /\ \A r \in Range(item.rejections) : r.code # ""
    THEN {item} ELSE {}
ReadManualImports ==
    LET items == Mapped(Listed, SelectSeq(Paths, LAMBDA p : p \in MovieFiles)
                                  \o IF disk.published THEN <<Output>> ELSE <<>>)
    IN  IF \E i \in Range(items) : mapManualImport(i) = {} THEN {} ELSE {items}

\* The worker checks the fingerprint before it answers.
Unchanged(file) == StrictFingerprint(file) = StrictFingerprint(FileNow(file.path))
Identify(file) ==
    IF ~Unchanged(file) THEN {}
    ELSE LET d == DiscOf(file.path, file.version)
         IN  {[d EXCEPT !.clips = Mapped(LAMBDA n : [dir |-> StreamDirectory(file.path), name |-> n], @)]}
IdentifyDVD(file) == IF Unchanged(file) THEN {DiscOf(file.path, file.version)} ELSE {}

\* Failures of the media are evidence; all others are errors.
retainedProbeFailure(reason) ==
    reason \in {"not_regular_file", "unsupported_format", "timeout", "probe_error", "invalid_output"}

-----------------------------------------------------------------------------
(* The inspection *)

\* The inspection is over without evidence: an observation notes the error, a
\* repair fails, or is blocked if its source is not what was planned.
Ended(state) ==
    IF run.for = "repair" THEN [job EXCEPT !.state = state] ELSE [job EXCEPT !.error = TRUE, !.queued = TRUE]
Ends(state) == run' = Idle /\ job' = Ended(state) /\ UNCHANGED <<world, bounds>>

Goes(next) == run' = next /\ UNCHANGED <<world, job, bounds>>

\* What is true now, for the ghost of a repair.
Seen == [versions |-> [p \in Content |-> {disk.version[p]}], worse |-> Watched(library),
         hasFile |-> library.hasFile, settled |-> client.stable /\ client.complete]

Begin(purpose) ==
    run' = [pc |-> "select", for |-> purpose, seen |-> IF purpose = "repair" THEN Seen ELSE None, expired |-> FALSE, record |-> None, download |-> None,
            movie |-> {}, history |-> <<>>, files |-> <<>>, probes |-> <<>>, imports |-> <<>>,
            playlists |-> <<>>, titles |-> <<>>]

\* An observation looks at the entries of the queue; a job without one rests.
Observe ==
    /\ run = Idle /\ job.state # "importing"
    /\ IF entry.present THEN Begin("observe") /\ UNCHANGED job
       ELSE job' = [job EXCEPT !.queued = FALSE] /\ UNCHANGED run
    /\ UNCHANGED <<world, bounds>>

\* The deadline of the collection; every later call fails at once.
Timely == ~run.expired

Inspect ==
    /\ run.pc = "select"
    /\ LET found == selectCandidate(ReadQueue, 1)
       IN  IF ~Timely \/ found = {} THEN Ends("failed")
           ELSE Goes([run EXCEPT !.pc = "recover", !.record = The(found)])

\* RecoverMovieID: the movie of the history if the entry names none.
RecoverMovieID ==
    /\ run.pc = "recover"
    /\ IF run.record.movie # {} THEN Goes([run EXCEPT !.pc = "resolve"])
       ELSE IF ~Timely THEN Ends("failed")
       ELSE Goes([run EXCEPT !.pc = "resolve",
                    !.record.movie = {e.movie : e \in Range(grabs)}])

Resolve ==
    /\ run.pc = "resolve"
    /\ IF ~Timely \/ ~CorrelateDownload(run.record, FindDownload) THEN Ends("failed")
       ELSE Goes([run EXCEPT !.pc = IF run.record.movie # {} THEN "movie" ELSE "inventory",
                    !.download = FindDownload])

InspectMovie ==
    /\ run.pc = "movie"
    /\ IF ~Timely \/ ReadMovie = {} THEN Ends("failed")
       ELSE Goes([run EXCEPT !.pc = "history", !.movie = ReadMovie])

ReadHistory ==
    /\ run.pc = "history"
    /\ IF ~Timely THEN Ends("failed")
       ELSE Goes([run EXCEPT !.pc = "inventory", !.history = grabs])

\* The files as they are now, with what the client said of them before.
InventoryFiles ==
    /\ run.pc = "inventory"
    /\ LET Inventoried(p) == [FileNow(p) EXCEPT !.entry = {e \in run.download.entries : e.path = p}]
       IN  IF ~Timely THEN Ends("failed")
           ELSE Goes([run EXCEPT !.pc = "probes", !.files = Mapped(Inventoried, Paths)])

Uncollected(reason) == [status |-> "not_collected", reason |-> reason, evidence |-> {}]
Succeeded(file) == [status |-> "ok", reason |-> "", evidence |-> {ProbeOf(file.path, file.version)}]
Failed(reason) == [status |-> "failed", reason |-> reason, evidence |-> {}]

\* One turn of collectProbes.  After the deadline the rest is not collected; a
\* file that is no longer the one of the inventory is an error.
collectProbes ==
    /\ run.pc = "probes" /\ Len(run.probes) < Len(run.files)
    /\ LET file == run.files[Len(run.probes) + 1]
           Probe(outcome) == Goes([run EXCEPT !.probes = Append(@, outcome)])
       IN  IF ~ProbeCandidate(file) THEN Probe(Uncollected("not_candidate"))
           ELSE IF ~Timely THEN Probe(Uncollected("collection_limit"))
           ELSE IF Unchanged(file) THEN Probe(Succeeded(file)) ELSE Ends("failed")

\* The worker gives a reason for not probing the file.
ProbeFails ==
    /\ run.pc = "probes" /\ Len(run.probes) < Len(run.files) /\ Timely /\ faults < MaxFaults
    /\ ProbeCandidate(run.files[Len(run.probes) + 1])
    /\ faults' = faults + 1
    /\ \E reason \in Failures :
         IF retainedProbeFailure(reason)
           THEN run' = [run EXCEPT !.probes = Append(@, Failed(reason))] /\ UNCHANGED job
           ELSE run' = Idle /\ job' = Ended("failed")
    /\ UNCHANGED <<world, revisions>>

InspectManualImports ==
    /\ run.pc = "probes" /\ Len(run.probes) = Len(run.files)
    /\ IF run.movie = {} THEN Goes([run EXCEPT !.pc = "playlists"])
       ELSE IF ~Timely \/ ReadManualImports = {} THEN Ends("failed")
       ELSE Goes([run EXCEPT !.pc = "playlists", !.imports = The(ReadManualImports)])

\* The listings call the worker only for a disc.
InspectPlaylists ==
    /\ run.pc = "playlists"
    /\ LET identified == [f \in Range(run.files) |-> IF Timely THEN Identify(f) ELSE {}]
           listed == ListFeaturePlaylists(run.files, identified)
       IN  IF listed = {} THEN Ends("failed")
           ELSE Goes([run EXCEPT !.pc = "titles", !.playlists = The(listed)])

InspectTitles ==
    /\ run.pc = "titles"
    /\ LET identified == [f \in Range(run.files) |-> IF Timely THEN IdentifyDVD(f) ELSE {}]
           listed == ListFeatureTitles(run.files, identified)
       IN  IF listed = {} THEN Ends("failed")
           ELSE Goes([run EXCEPT !.pc = "assemble", !.titles = The(listed)])

Fresh ==
    Assemble([at |-> now, record |-> run.record, download |-> run.download, movie |-> run.movie,
              history |-> run.history, files |-> run.files,
              probes |-> [p \in Content |-> run.probes[CHOOSE i \in DOMAIN Paths : Paths[i] = p]],
              imports |-> run.imports, playlists |-> run.playlists, titles |-> run.titles])

-----------------------------------------------------------------------------
(* What the job keeps of an observation *)

Changed(a) == job.evidence = None \/ job.evidence.request # a.request
Kept(a) == [job EXCEPT !.evidence = a, !.error = FALSE, !.queued = TRUE]

\* jobs.Store.Observe: another case starts over, unless it is imported; the
\* same case brings its newest evidence.
ObservedJob(a) ==
    IF Changed(a) /\ job.state # "imported"
      THEN [Kept(a) EXCEPT !.decision = None, !.state = "observed", !.stable = now]
      ELSE Kept(a)

ObserveEnds ==
    /\ run.pc = "assemble" /\ run.for = "observe"
    /\ IF Fresh = {} THEN Ends("failed")
       ELSE /\ job' \in {ObservedJob(a) : a \in Fresh}
            /\ run' = Idle
            /\ UNCHANGED <<world, bounds>>

\* Adapter.Plan: the answer is stored as it is, and judged when it is used.
Plan ==
    /\ run = Idle /\ job.state = "observed" /\ job.evidence # None /\ ~job.error /\ job.queued
    /\ \E d \in Proposals(job.evidence) :
         job' = [job EXCEPT !.state = IF d.kind = NoRepair THEN "blocked" ELSE "ready", !.decision = d]
    /\ UNCHANGED <<world, run, bounds>>

\* The operator asks for another decision.
Reconsider ==
    /\ run = Idle /\ job.state \in {"ready", "blocked", "failed"} /\ revisions < MaxRevisions
    /\ revisions' = revisions + 1
    /\ job' = [job EXCEPT !.state = "observed", !.decision = None]
    /\ UNCHANGED <<world, run, faults>>

-----------------------------------------------------------------------------
(* The repair *)

Waits(record) == record.state = "importPending" /\ now - job.stable < Stabilization

Ready == ~Waits(job.evidence.observation.record)

\* Engine.Run starts an attempt; authorize first looks for the entry.
Repair ==
    /\ run = Idle /\ job.state = "ready" /\ ~job.error /\ job.queued /\ Ready
    /\ IF entry.present
         THEN Begin("repair") /\ job' = [job EXCEPT !.state = "running"]
         ELSE run' = Idle /\ job' = [job EXCEPT !.state = "blocked"]
    /\ UNCHANGED <<world, bounds>>

\* What authorize grants on fresh evidence.
Granted(a) ==
    {g \in Authorize(a, job.decision, Tolerance) :
       /\ SameCaseState(job.evidence, a)
       /\ ~Waits(a.observation.record)
       /\ ~ReplacementRejection(a, g)}

\* Mutant: an attempt is authorized on the evidence of the last observation.
authorizeStored ==
    /\ run.pc = "select" /\ run.for = "repair"
    /\ LET a == job.evidence
       IN  IF Granted(a) = {} THEN Ends("blocked")
           ELSE Goes([pc |-> "command", for |-> "repair", seen |-> run.seen,
                      import |-> The(Granted(a)), assembly |-> a])

authorize ==
    /\ run.pc = "assemble" /\ run.for = "repair"
    /\ IF Fresh = {} THEN Ends("failed")
       ELSE LET a == The(Fresh)
            IN  IF Granted(a) = {} THEN Ends("blocked")
                ELSE Goes([pc |-> "command", for |-> "repair", seen |-> run.seen,
                           import |-> The(Granted(a)), assembly |-> a])

\* importCommand for a file imported as it is
Command ==
    /\ run.pc = "command" /\ run.import.kind = ManualImport
    /\ Goes([run EXCEPT !.pc = "submit"])

\* importCommand for an output: the worker makes and publishes it if every
\* source is still the authorized one; then the import needs a grab.
Transform ==
    /\ run.pc = "command" /\ run.import.kind # ManualImport
    /\ IF \A p \in Range(run.import.parts) : StrictFingerprint(FileNow(p.path)) = p.fingerprint
         THEN /\ disk' = [disk EXCEPT !.published = TRUE]
              /\ LET o == run.assembly.observation
                     built == UNION {BuildRadarrPublishedFileImport(Output, m, o.record.download, o.history) :
                                       m \in o.record.movie}
                 IN  IF built = {} THEN run' = Idle /\ job' = [job EXCEPT !.state = "failed"]
                     ELSE run' = [run EXCEPT !.pc = "submit"] /\ UNCHANGED job
              /\ UNCHANGED <<entry, client, library, grabs, now, born, changes, bounds>>
         ELSE Ends("failed")

Submit ==
    /\ run.pc = "submit"
    /\ run' = Idle /\ job' = [job EXCEPT !.state = "importing"]
    /\ UNCHANGED <<world, bounds>>

\* The engine learns how the import ended; ImportWindow is about how.
ImportEnds ==
    /\ run = Idle /\ job.state = "importing"
    /\ \E state \in {"imported", "failed"} : job' = [job EXCEPT !.state = state]
    /\ UNCHANGED <<world, run, bounds>>

-----------------------------------------------------------------------------
(* Faults *)

Collecting == run.pc \in {"select", "recover", "resolve", "movie", "history", "inventory", "probes",
                          "playlists", "titles"}

Expire ==
    /\ Collecting /\ Timely /\ faults < MaxFaults
    /\ faults' = faults + 1
    /\ run' = [run EXCEPT !.expired = TRUE]
    /\ UNCHANGED <<world, job, revisions>>

\* A call fails.
CallFails ==
    /\ Collecting /\ faults < MaxFaults
    /\ faults' = faults + 1
    /\ run' = Idle
    /\ job' = Ended("failed")
    /\ UNCHANGED <<world, revisions>>

-----------------------------------------------------------------------------
(* The world *)

Change(name, d, e, c, l, g) ==
    /\ name \in Changes /\ changes < MaxChanges
    /\ changes' = changes + 1
    /\ disk' = d /\ entry' = e /\ client' = c /\ library' = l /\ grabs' = g
    /\ born' = [p \in Content |-> IF d.version[p] # disk.version[p] THEN now ELSE born[p]]
    /\ run' = IF run = Idle \/ run.for # "repair" THEN run
              ELSE [run EXCEPT !.seen = [versions |-> [p \in Content |-> @.versions[p] \cup {d.version[p]}],
                                         worse |-> @.worse \cap Watched(l), hasFile |-> @.hasFile /\ l.hasFile,
                                         settled |-> @.settled \/ (c.stable /\ c.complete)]]
    /\ UNCHANGED <<now, job, bounds>>

FileChanges ==
    \E p \in Content :
      Change("file", [disk EXCEPT !.version[p] = @ + 1], entry, client, library, grabs)

Remount == Change("mount", [disk EXCEPT !.device = @ + 1], entry, client, library, grabs)

QueueChanges ==
    \E e \in {[entry EXCEPT !.present = ~@], [entry EXCEPT !.messages = (@ + 1) % 3],
              [entry EXCEPT !.movie = IF @ = {} THEN {Movie} ELSE {}]}
             \cup {[entry EXCEPT !.state = s] : s \in {"importPending", "importBlocked", "importing"}} :
      e # entry /\ Change("queue", disk, e, client, library, grabs)

ClientChanges ==
    \E c \in {[client EXCEPT !.stable = ~@], [client EXCEPT !.complete = ~@]} :
      Change("client", disk, entry, c, library, grabs)

LibraryChanges == Change("library", disk, entry, client, [library EXCEPT !.hasFile = ~@], grabs)

\* Radarr judges a file anew; the wording need not change with the code.
OpinionChanges ==
    \E p \in MovieFiles, o \in Opinions :
      /\ o # library.opinion[p]
      /\ Change("opinion", disk, entry, client, [library EXCEPT !.opinion[p] = o], grabs)

\* Another grab of the same download, of another quality
GrabChanges ==
    Change("grab", disk, entry, client, library,
           Append(grabs, [type |-> "grabbed", id |-> Len(grabs) + 1, at |-> now + 1, movie |-> Movie,
                          download |-> "d", quality |-> {"other"}, languages |-> {}]))

Tick ==
    /\ now < MaxTime
    /\ now' = now + 1
    /\ UNCHANGED <<disk, entry, client, library, grabs, job, run, born, changes, bounds>>

Environment ==
    \/ FileChanges \/ Remount \/ QueueChanges \/ ClientChanges \/ LibraryChanges
    \/ OpinionChanges \/ GrabChanges

Inspection ==
    \/ Inspect \/ RecoverMovieID \/ Resolve \/ InspectMovie \/ ReadHistory \/ InventoryFiles
    \/ collectProbes \/ InspectManualImports \/ InspectPlaylists \/ InspectTitles \/ ObserveEnds
    \/ authorize \/ Command \/ Transform \/ Submit

Next ==
    \/ Observe \/ Plan \/ Reconsider \/ Repair \/ ImportEnds \/ Inspection
    \/ ProbeFails \/ Expire \/ CallFails \/ Environment \/ Tick

Spec == Init /\ [][Next]_vars

\* The scheduler brings every inspection and repair it has begun to an end, since
\* each call of it has a deadline; between two observations it plans an observed
\* job and repairs a ready one; time passes.
Fairness == []<>(run = Idle) /\ SF_vars(Plan) /\ SF_vars(Repair) /\ WF_vars(Tick)

-----------------------------------------------------------------------------
(* Properties *)

Granting == run.pc \in {"command", "submit"}
Parts == Range(run.import.parts)

\* authorize (repairradarr/adapter.go): "Planning can be slow; authorize against
\* fresh source and queue evidence".  Every file a repair reads is, byte for
\* byte, the one the planner was shown, and was that at a moment of this very
\* repair, whatever happened to the download between plan and repair.
RepairsWhatWasPlanned ==
    Granting => \A part \in Parts :
      /\ part.fingerprint.version \in run.seen.versions[part.path]
      /\ \E f \in Range(job.decision.case.files) :
           /\ f.path = part.path
           /\ f.fingerprint.version = part.fingerprint.version
           /\ f.fingerprint.size = part.fingerprint.size

\* CorrelateDownload: at some moment of the repair the download client itself
\* held the download to be complete and at rest.
RepairsSettledDownload == Granting => run.seen.settled

\* ReplacementRejection: nothing is handed to Radarr that would replace the
\* movie's file while, from the beginning of the repair on, Radarr has held that
\* file to be better than one of the parts or has not compared them.  A disc
\* never replaces a file.
KeepsBetterFile ==
    run.pc = "submit" => /\ \A part \in Parts : part.path \notin run.seen.worse
                         /\ run.import.kind \in {Bluray, DVD} => ~run.seen.hasFile

\* StableSince (jobs/store.go, adapter.go): of an entry Radarr itself may still
\* import, only files are repaired that have not been written to for the
\* stabilization interval.
RepairsOnlyStable ==
    Granting /\ run.assembly.observation.record.state = "importPending" =>
      \A part \in Parts :
        part.fingerprint.version = disk.version[part.path] => now - born[part.path] >= Stabilization

\* A repair has, at its own time, every reason a repair must have.
RepairIsJustified ==
    RepairsWhatWasPlanned /\ RepairsSettledDownload /\ KeepsBetterFile /\ RepairsOnlyStable

Offers(a) == Range(a.request.capabilities)
DecisionFor(a, c) ==
    [kind |-> c.action, case |-> a.request, capability |-> c.id,
     paths |-> IF c.action = ManualImport THEN <<c.path>>
               ELSE IF c.action = Join THEN c.candidates ELSE <<>>]

\* What may still speak against a repair that was offered: that the parts do not
\* fit together, the probe, or the length of the movie.
Refusable(a, c) ==
    CASE c.action = Join -> SelectionFits(a, c, c.candidates)
      [] c.action = ManualImport -> ~MovieProbe(a, c.path, Tolerance)
      [] c.action = Bluray -> ~KnownRuntime(a, c.duration, Tolerance)
      [] c.action = DVD -> ~KnownRuntime(a, c.title.duration, Tolerance)

\* Assemble and decisionpolicy judge the same evidence twice, in different code:
\* whatever is offered to the planner is granted when it is taken up, unless one
\* of those three speaks against it.
OfferedIsGranted ==
    run = Idle /\ job.evidence # None =>
      \A c \in Offers(job.evidence) :
        Authorize(job.evidence, DecisionFor(job.evidence, c), Tolerance) # {} \/ Refusable(job.evidence, c)

\* The case ID leaves out the device, the movie's file and the codes of the
\* rejections: while only those change, no observation takes a plan away.
PlanKept == job.decision # None => job'.decision # None

\* matchManualImports: "Published outputs are not source evidence, even when Radarr
\* lists them".  Once everything has been read of files that have not changed, the
\* observation is evidence, whatever an earlier attempt has left beside them.
OutputIgnored == run.pc = "assemble" /\ run.for = "observe" /\ run' = Idle => ~job'.error

\* The job's evidence is what an inspection would find now, but for the codes of
\* the rejections.
Uncoded(imports) ==
    Mapped(LAMBDA m : <<m.path, m.size, Mapped(LAMBDA r : r.text, m.rejections)>>, imports)
Current ==
    LET o == job.evidence.observation
    IN  /\ \A f \in Range(o.files) :
             Unchanged(f) /\ (ProbeCandidate(f) => o.probes[f.path].status = "ok")
        /\ entry.present /\ entry.state # "importing"
        /\ o.record = [QueueRecord EXCEPT !.movie = {Movie}]
        /\ o.movie = ReadMovie /\ o.history = grabs
        /\ o.download = FindDownload
        /\ \E imports \in ReadManualImports : Uncoded(o.imports) = Uncoded(imports)

\* Nothing changes any more, and there is time for the stabilization.
Quiet ==
    /\ changes = MaxChanges /\ faults = MaxFaults /\ revisions = MaxRevisions
    /\ job.stable + Stabilization <= MaxTime

Acceptable(d) == d.kind # NoRepair /\ Authorize(job.evidence, d, Tolerance) # {}

\* Once nothing changes any more, a job with current evidence whose plan is
\* acceptable is taken to its import, if the movie has no file yet; also if an
\* earlier attempt has left its output beside the sources and Radarr lists it,
\* and also if Radarr's reasons have got other codes since they were observed.
Attempted ==
    (/\ Quiet /\ run = Idle /\ ~job.error /\ job.queued /\ job.evidence # None
     /\ Current /\ ~library.hasFile
     /\ \/ job.state = "observed" /\ \A d \in Proposals(job.evidence) : Acceptable(d)
        \/ job.state = "ready" /\ Acceptable(job.decision))
    ~> job.state = "importing"
=============================================================================
