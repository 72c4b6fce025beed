---------------------------- MODULE Materialize ----------------------------
(***************************************************************************)
(* The media worker makes a private copy of the media of a download, in a  *)
(* workspace that later requests reuse: worker/materialize, with the cue   *)
(* sheets of worker/cuesheet, the descriptors of worker/mediafile and the  *)
(* two fingerprints of internal/fileidentity.  The download client may     *)
(* edit, replace or remove the source at any moment, the helper process    *)
(* may fail or be killed at any moment, an import may move artifacts out   *)
(* of a finished workspace, and the file system may be mounted again.  One *)
(* request is served at a time: the scheduler waits for the helper.        *)
(*                                                                         *)
(* A file is an inode and a version of its contents; content written to a  *)
(* workspace is the sequence of the versions it was made from.             *)
(***************************************************************************)
EXTENDS Naturals, Sequences, Functions

CONSTANTS Names,        \* the names in the source directory, in reading order
          Audio,        \* those with a supported extension
          Cue, CueText, \* cue sheets, and those of them called .cue.txt
          Wv,           \* audio that may carry a cue sheet of its own
          Unsafe,       \* symbolic links, special files, oversized entries
          Archive,      \* the path of an archive
          Members,      \* the media in the archive, in its order
          Initially,    \* the paths present at first
          Edited,       \* the paths a download client touches
          Operations,   \* "tar", "rar", "directory"
          CueTracks(_), \* the tracks of a cue sheet by its version, 0 if invalid
          Track,        \* the names of the files split off an image, in order
          MaxEdits, MaxRequests, MaxMounts

NoDirectory == [exists |-> FALSE]
AllPaths == Append(Names, Archive)
Paths == Range(AllPaths)
Inodes == 1..(Len(AllPaths) + MaxEdits)
FileVersions == 1..MaxEdits + 1

\* A directory has a name once, and a file is audio or a cue sheet.
ASSUME WorkerAssumption ==
    /\ Names \in Seq(Range(Names)) /\ IsInjective(Names) /\ Edited \subseteq Paths
    /\ Audio \cap Cue = {} /\ Wv \subseteq Audio
    /\ Track \in Seq(Range(Track))
    /\ MaxEdits \in Nat /\ \A v \in FileVersions : CueTracks(v) \in 0..Len(Track)

VARIABLES at,        \* the inode at each path, 0 if there is none
          contents,  \* the version in each inode
          device,    \* the device number of the mounted file system
          edits,
          completed, \* each workspace's finished directory
          partial,   \* each workspace's .partial directory
          work,      \* the request being served and the worker's locals
          requests,
          instants   \* auxiliary: every fingerprint the directory has had

workerVars == <<at, contents, device, edits, completed, partial, work, requests, instants>>
source == <<at, contents, device, edits>>
disk == <<completed, partial>>

-----------------------------------------------------------------------------
(* internal/fileidentity and worker/mediafile *)

Snapshot(i) == [device |-> device, inode |-> i, version |-> contents[i]]

StrictFingerprint(s) == <<s.device, s.inode, s.version>>

StableFingerprint(s) == <<s.inode, s.version>>

\* Open: the path leads to a regular file with this fingerprint.
Opens(path, strict) == at[path] # 0 /\ StrictFingerprint(Snapshot(at[path])) = strict

\* Mutant: the descriptor is not looked at again
VerifyNothing(i, strict) == TRUE
Verify(i, strict) == StrictFingerprint(Snapshot(i)) = strict

-----------------------------------------------------------------------------
NoRequest == [pc |-> "idle", op |-> "none", workspace |-> <<0>>, expected |-> <<>>,
              next |-> 1, scanned |-> {}, first |-> {}, fingerprint |-> <<>>,
              plan |-> [tracks |-> 0, sheet |-> 0], todo |-> {}, fd |-> 0,
              artifacts |-> {}, answer |-> [status |-> "none"]]

EmptyDirectory == [exists |-> TRUE, files |-> {}, quarantine |-> {}, manifest |-> {}]

Workspaces == {<<0>>} \cup (Inodes \X FileVersions)

\* A scan is the set of the entries found, each with its name.
Of(scan, names) == {e \in scan : e.name \in names}

\* directoryFingerprint: every audio file and cue sheet, by its name
directoryFingerprint(scan) == {<<e.name, StableFingerprint(e.file)>> : e \in scan}

Entry(n) == [name |-> n, file |-> Snapshot(at[n])]

\* What a reading of the whole directory in one instant would find
Instant ==
    {<<n, StableFingerprint(Snapshot(at[n]))>> :
       n \in {m \in Range(Names) \cap (Audio \cup Cue) : at[m] # 0}}

WorkerInit ==
    /\ at = [p \in Paths |-> IF p \in Initially THEN CHOOSE i \in DOMAIN AllPaths : AllPaths[i] = p
                                                 ELSE 0]
    /\ contents = [i \in Inodes |-> 1]
    /\ device = 1
    /\ edits = 0
    /\ completed = [w \in Workspaces |-> NoDirectory]
    /\ partial = [w \in Workspaces |-> NoDirectory]
    /\ work = NoRequest
    /\ requests = 0
    /\ instants = {Instant}

Proceed(step) == work' = [work EXCEPT !.pc = step]

Answer(a) == work' = [NoRequest EXCEPT !.answer = a]

Failed == [status |-> "failed"]

Success(manifest) == [status |-> "ok", workspace |-> work.workspace, manifest |-> manifest]

\* The steps after which a failure removes the partial workspace
Building == work.pc \in {"extract", "copy", "copying", "verify", "manifest", "rename"}
                \/ work.first # {}

GiveUp ==
    /\ Answer(Failed)
    /\ partial' = IF Building THEN [partial EXCEPT ![work.workspace] = NoDirectory] ELSE partial

-----------------------------------------------------------------------------
(* The requests of internal/lidarrrepair and internal/archivematerialize *)

\* The archive was found in an inventory taken before, and the workspace is
\* named after the queue entry and the archive's stable fingerprint.
MaterializeArchive(op) ==
    /\ work.pc = "idle" /\ requests < MaxRequests /\ op # "directory" /\ at[Archive] # 0
    /\ LET s == Snapshot(at[Archive]) IN
         work' = [NoRequest EXCEPT !.pc = "open", !.op = op, !.expected = StrictFingerprint(s),
                             !.workspace = <<s.inode, s.version>>]
    /\ requests' = requests + 1
    /\ UNCHANGED <<source, disk>>

\* The workspace of a directory is named after the queue entry and the path.
MaterializeDirectoryAudio ==
    /\ work.pc = "idle" /\ requests < MaxRequests /\ "directory" \in Operations
    /\ work' = [NoRequest EXCEPT !.pc = "scan", !.op = "directory"]
    /\ requests' = requests + 1
    /\ UNCHANGED <<source, disk>>

-----------------------------------------------------------------------------
(* Reading the source *)

\* Execute and ExecuteRAR open the archive and name the workspace's source.
OpenArchive ==
    /\ work.pc = "open"
    /\ IF Opens(Archive, work.expected)
         THEN /\ work' = [work EXCEPT !.pc = "load", !.fd = at[Archive], !.todo = DOMAIN Members,
                            !.fingerprint = StableFingerprint(Snapshot(at[Archive]))]
              /\ UNCHANGED partial
         ELSE GiveUp
    /\ UNCHANGED <<source, completed, requests>>

\* scanDirectory's visit: the next entry.
scanDirectory ==
    /\ work.pc = "scan" /\ work.next <= Len(Names)
    /\ LET n == Names[work.next] IN
           IF at[n] # 0 /\ n \in Unsafe
             THEN GiveUp
             ELSE /\ work' = [work EXCEPT !.next = @ + 1,
                     !.scanned = @ \cup IF at[n] # 0 /\ n \in Audio \cup Cue THEN {Entry(n)} ELSE {}]
                  /\ UNCHANGED partial
    /\ UNCHANGED <<source, completed, requests>>

\* The tools' reading of a sheet: at least two audio tracks, with ascending
\* starting points, or 0 for a sheet that is refused.
Inspect(file) == CueTracks(file.version)

\* The sheet inside an image; here 0 stands for an image without one.
InspectEmbedded(file) == CueTracks(file.version)

\* readEmbeddedCuePlan opens only a lone WavPack image.
readEmbeddedCuePlan(audio) == {e \in audio : audio = {e} /\ e.name \in Wv}

\* The sheets that are read, and those of them that describe tracks
OpenedSheets(scan) ==
    IF Of(scan, Cue) = {} THEN readEmbeddedCuePlan(Of(scan, Audio)) ELSE Of(scan, Cue)

ValidSheets(scan) ==
    IF Of(scan, Cue) = {} THEN {e \in OpenedSheets(scan) : InspectEmbedded(e.file) > 0}
                          ELSE {e \in OpenedSheets(scan) : Inspect(e.file) > 0}

\* readCuePlan: {} if the sheets are refused, else the
\* number of tracks (0 without a sheet) and the version they were read from.
readCuePlan(scan) ==
    LET sheets == ValidSheets(scan)
        moved == \E e \in OpenedSheets(scan) : ~Opens(e.name, StrictFingerprint(e.file))
        refused == \E e \in Of(scan, Cue) \ sheets : e.name \notin CueText
        unambiguous == \E e \in sheets, image \in Of(scan, Audio) :
                         sheets = {e} /\ Of(scan, Audio) = {image}
    IN  IF moved \/ refused \/ ~(sheets = {} \/ unambiguous)
          THEN {}
        ELSE IF sheets = {}
          THEN {[tracks |-> 0, sheet |-> 0]}
        ELSE {[tracks |-> Inspect(e.file), sheet |-> e.file.version] : e \in sheets}

\* The end of the first scanDirectory: what is to be copied is known.
Scanned ==
    /\ work.pc = "scan" /\ work.next > Len(Names) /\ work.first = {}
    /\ LET audio == Of(work.scanned, Audio)
           plans == IF audio = {} THEN {} ELSE readCuePlan(work.scanned)
       IN  IF plans = {}
             THEN GiveUp
             ELSE /\ \E plan \in plans :
                       work' = [work EXCEPT !.pc = "load", !.plan = plan,
                                  !.fingerprint = directoryFingerprint(work.scanned),
                                  !.todo = IF plan.tracks = 0
                                             THEN {i \in DOMAIN Names : \E e \in audio : e.name = Names[i]}
                                             ELSE 1..plan.tracks]
                  /\ UNCHANGED partial
    /\ UNCHANGED <<source, completed, requests>>

-----------------------------------------------------------------------------
(* The workspace *)

\* Mutant: the artifacts the manifest lists are taken to be there
usableTrusting(d) ==
    \E m \in d.manifest : m.op = work.op /\ m.fingerprint = work.fingerprint
\* loadWorkspace finds a manifest of this source, and all of its artifacts.
usable(d) ==
    \E m \in d.manifest : /\ m.op = work.op /\ m.fingerprint = work.fingerprint
                          /\ m.artifacts \subseteq d.files

loadWorkspace ==
    /\ work.pc = "load"
    /\ LET d == completed[work.workspace] IN
         \/ ~d.exists /\ Proceed("prepare")
         \/ d.exists /\ ~usable(d) /\ Proceed("clear")
         \/ d.exists /\ usable(d) /\ work.op # "directory" /\ Proceed("found")
         \/ /\ d.exists /\ usable(d) /\ work.op = "directory"
            /\ \E m \in d.manifest : Answer(Success(m))
    /\ UNCHANGED <<source, disk, requests>>

\* An archive is verified again before its old workspace is returned.
Found ==
    /\ work.pc = "found"
    /\ IF Verify(work.fd, work.expected)
         THEN \E m \in completed[work.workspace].manifest : Answer(Success(m))
         ELSE Answer(Failed)
    /\ UNCHANGED <<source, disk, requests>>

clearWorkspace ==
    /\ work.pc = "clear"
    /\ completed' = [completed EXCEPT ![work.workspace] = NoDirectory]
    /\ Proceed("prepare")
    /\ UNCHANGED <<source, partial, requests>>

prepareWorkspace ==
    /\ work.pc = "prepare"
    /\ IF completed[work.workspace].exists
         THEN GiveUp
         ELSE /\ Proceed(IF work.op = "rar" THEN "extract" ELSE "copy")
              /\ partial' = [partial EXCEPT ![work.workspace] = EmptyDirectory]
    /\ UNCHANGED <<source, completed, requests>>

-----------------------------------------------------------------------------
(* Filling the partial workspace *)

\* What is copied next: the first that has not been
NextItem == {i \in work.todo : \A j \in work.todo : i <= j}

\* The new file is created exclusively; its name and content become an artifact.
WriteArtifact(i, name, content) ==
    LET artifact == [name |-> name, content |-> content] IN
    IF \E f \in partial[work.workspace].files : f.name = name
      THEN GiveUp
      ELSE /\ partial' = [partial EXCEPT ![work.workspace].files = @ \cup {artifact}]
           /\ work' = [work EXCEPT !.artifacts = @ \cup {artifact}, !.todo = @ \ {i},
                                  !.pc = IF work.op # "directory" THEN "copy"
                                         ELSE IF work.plan.tracks = 0 \/ work.todo = {i}
                                           THEN "verify" ELSE "copying"]

\* unar, run on the open archive, fills the quarantine (lsar only lists it).
Extract ==
    /\ work.pc = "extract"
    /\ partial' = [partial EXCEPT ![work.workspace].quarantine =
                      {[name |-> n, content |-> <<contents[work.fd]>>] : n \in Range(Members)}]
    /\ Proceed("copy")
    /\ UNCHANGED <<source, completed, requests>>

\* The next member of a tar archive, read from the descriptor
extractAndProbe ==
    /\ work.pc = "copy" /\ work.op = "tar"
    /\ \E i \in NextItem : WriteArtifact(i, Members[i], <<contents[work.fd]>>)
    /\ UNCHANGED <<source, completed, requests>>

\* The next medium in the quarantine
collectExtractedMedia ==
    /\ work.pc = "copy" /\ work.op = "rar"
    /\ \E i \in NextItem, f \in partial[work.workspace].quarantine :
         f.name = Members[i] /\ WriteArtifact(i, f.name, f.content)
    /\ UNCHANGED <<source, completed, requests>>

\* The file the next artifact is made of: itself, or the image of a cue sheet
NextInput ==
    {e \in Of(work.scanned, Audio) : work.plan.tracks > 0 \/ \E i \in NextItem : e.name = Names[i]}

\* copyAndProbeDirectory and splitAndProbeDirectory open the next input ...
OpenFile ==
    /\ work.pc = "copy" /\ work.op = "directory" /\ work.todo # {}
    /\ \E e \in NextInput :
         IF Opens(e.name, StrictFingerprint(e.file))
           THEN /\ work' = [work EXCEPT !.pc = "copying", !.fd = at[e.name],
                                       !.expected = StrictFingerprint(e.file)]
                /\ UNCHANGED partial
           ELSE GiveUp
    /\ UNCHANGED <<source, completed, requests>>

\* ... copy it ...
copyDirectoryFile ==
    /\ work.pc = "copying" /\ work.plan.tracks = 0
    /\ \E i \in NextItem : WriteArtifact(i, Names[i], <<contents[work.fd]>>)
    /\ UNCHANGED <<source, completed, requests>>

\* ... or split the next track off it ...
Split ==
    /\ work.pc = "copying" /\ work.plan.tracks > 0
    /\ \E i \in NextItem : WriteArtifact(i, Track[i], <<contents[work.fd], work.plan.sheet>>)
    /\ UNCHANGED <<source, completed, requests>>

\* ... and verify the descriptor they read.
VerifyFile ==
    /\ work.pc = "verify"
    /\ IF Verify(work.fd, work.expected)
         THEN work' = [work EXCEPT !.pc = "copy", !.fd = 0, !.expected = <<>>] /\ UNCHANGED partial
         ELSE GiveUp
    /\ UNCHANGED <<source, completed, requests>>

\* Everything is copied: the quarantine goes, the archive is verified ...
Final ==
    /\ work.pc = "copy" /\ work.op # "directory" /\ work.todo = {}
    /\ IF Verify(work.fd, work.expected)
         THEN /\ Proceed("manifest")
              /\ partial' = [partial EXCEPT ![work.workspace].quarantine = {}]
         ELSE GiveUp
    /\ UNCHANGED <<source, completed, requests>>

\* ... the directory is read a second time ...
Rescan ==
    /\ work.pc = "copy" /\ work.op = "directory" /\ work.todo = {}
    /\ work' = [work EXCEPT !.pc = "scan", !.next = 1, !.first = work.scanned, !.scanned = {}]
    /\ UNCHANGED <<source, disk, requests>>

\* ... and must find what the first one found.
Rescanned ==
    /\ work.pc = "scan" /\ work.next > Len(Names) /\ work.first # {}
    /\ IF Of(work.scanned, Audio) = {} \/ readCuePlan(work.scanned) = {}
             \/ directoryFingerprint(work.scanned) # work.fingerprint
         THEN GiveUp
         ELSE Proceed("manifest") /\ UNCHANGED partial
    /\ UNCHANGED <<source, completed, requests>>

writeManifest ==
    /\ work.pc = "manifest"
    /\ partial' = [partial EXCEPT ![work.workspace].manifest =
                      {[op |-> work.op, fingerprint |-> work.fingerprint, artifacts |-> work.artifacts]}]
    /\ Proceed("rename")
    /\ UNCHANGED <<source, completed, requests>>

Rename ==
    /\ work.pc = "rename"
    /\ IF completed[work.workspace].exists
         THEN GiveUp /\ UNCHANGED completed
         ELSE /\ completed' = [completed EXCEPT ![work.workspace] = partial[work.workspace]]
              /\ partial' = [partial EXCEPT ![work.workspace] = NoDirectory]
              /\ \E m \in partial[work.workspace].manifest : Answer(Success(m))
    /\ UNCHANGED <<source, requests>>

-----------------------------------------------------------------------------
(* Failures and the world outside *)

\* Removing the finished workspace may have got anywhere when it stops.
HalfCleared ==
    IF work.pc = "clear"
      THEN \E files \in SUBSET completed[work.workspace].files,
              manifest \in SUBSET completed[work.workspace].manifest :
             completed' = [completed EXCEPT ![work.workspace].files = files,
                                            ![work.workspace].manifest = manifest]
      ELSE UNCHANGED completed

\* The context ends, a tool refuses its input, a write fails: fail(reason).
fail ==
    /\ work.pc # "idle"
    /\ GiveUp
    /\ HalfCleared
    /\ UNCHANGED <<source, requests>>

\* The client's deadline kills the helper.
Killed ==
    /\ work.pc # "idle"
    /\ Answer([status |-> "none"])
    /\ HalfCleared
    /\ UNCHANGED <<source, partial, requests>>

Edit(p) ==
    /\ edits < MaxEdits
    /\ edits' = edits + 1
    /\ \/ /\ at[p] # 0
          /\ contents' = [contents EXCEPT ![at[p]] = edits + 2]
          /\ UNCHANGED at
       \/ /\ at' = [at EXCEPT ![p] = Len(AllPaths) + edits + 1]
          /\ contents' = [contents EXCEPT ![Len(AllPaths) + edits + 1] = edits + 2]
       \/ /\ at[p] # 0
          /\ at' = [at EXCEPT ![p] = 0]
          /\ UNCHANGED contents
    /\ UNCHANGED <<device, disk, work, requests>>

\* A reboot: no helper has the file system open.
Remount ==
    /\ work.pc = "idle" /\ device <= MaxMounts
    /\ device' = device + 1
    /\ UNCHANGED <<at, contents, edits, disk, work, requests>>

\* An import moves an artifact into the library; its entry is not read then.
Imported(w) ==
    /\ work.pc = "idle" /\ completed[w].exists
    /\ \E f \in completed[w].files :
         completed' = [completed EXCEPT ![w].files = @ \ {f}]
    /\ UNCHANGED <<source, partial, work, requests>>

Worker == \/ OpenArchive \/ scanDirectory \/ Scanned \/ loadWorkspace \/ Found
          \/ clearWorkspace \/ prepareWorkspace \/ Extract
          \/ extractAndProbe \/ collectExtractedMedia \/ OpenFile
          \/ copyDirectoryFile \/ Split \/ VerifyFile \/ Final \/ Rescan \/ Rescanned
          \/ writeManifest \/ Rename

WorkerNext ==
    /\ \/ \E op \in Operations : MaterializeArchive(op)
       \/ MaterializeDirectoryAudio
       \/ Worker \/ fail \/ Killed
       \/ \E p \in Edited : Edit(p)
       \/ Remount
       \/ \E w \in Workspaces : Imported(w)
    /\ instants' = instants \cup {Instant'}

WorkerSpec == WorkerInit /\ [][WorkerNext]_workerVars

-----------------------------------------------------------------------------
(* The artifacts of a source, by definition *)

WantedMembers(fingerprint) ==
    {[name |-> n, content |-> <<fingerprint[2]>>] : n \in Range(Members)}

WantedAudio(fingerprint) ==
    LET audio == {f \in fingerprint : f[1] \in Audio}
        sheets == {f \in fingerprint : \/ f[1] \in Cue
                                       \/ f[1] \in Wv /\ fingerprint = {f}}
        valid == {f \in sheets : CueTracks(f[2][2]) > 0}
    IN  IF valid = {}
          THEN {[name |-> f[1], content |-> <<f[2][2]>>] : f \in audio}
          ELSE UNION {{[name |-> Track[i], content |-> <<f[2][2], g[2][2]>>] :
                         i \in 1..CueTracks(g[2][2])} : f \in audio, g \in valid}

Wanted(op, fingerprint) ==
    IF op = "directory" THEN WantedAudio(fingerprint) ELSE WantedMembers(fingerprint)

Answered == work.answer.status = "ok"

\* The artifacts an answer lists were all made of the very source it names:
\* one version of the archive, or the versions in the directory's fingerprint
\* (the descriptor is verified after it was read).
ArtifactsMatchSource ==
    Answered => LET m == work.answer.manifest IN m.artifacts = Wanted(m.op, m.fingerprint)

\* A directory is read name by name while it changes, but the files an answer's
\* fingerprint speaks of were all there at one instant (the directory is read twice),
\* and a file that has never changed is among them.
OneInstant ==
    Answered /\ work.answer.manifest.op = "directory" =>
        LET files == work.answer.manifest.fingerprint
        IN  /\ \E s \in instants : files \subseteq s
            /\ \A f \in Instant : (\A s \in instants : f \in s) => f \in files

\* When a request is answered, every artifact in the answer is on disk, also
\* when an import has moved some since the workspace was made or a helper died
\* while it removed the workspace (loadWorkspace looks at each of them).
AnswersAreAvailable ==
    [][work.pc # "idle" /\ work'.answer.status = "ok" =>
         work'.answer.manifest.artifacts \subseteq completed'[work'.answer.workspace].files]_workerVars

\* A finished workspace holds nothing but its manifest's artifacts: nothing of
\* an attempt that was killed half way, and no quarantine.
NoLeftovers ==
    \A w \in DOMAIN completed : completed[w].exists =>
        /\ completed[w].quarantine = {}
        /\ \A m \in completed[w].manifest : completed[w].files \subseteq m.artifacts

\* What an answer says of its source is true, and a workspace holds nothing else.
AnswersMatchSource == ArtifactsMatchSource /\ OneInstant /\ NoLeftovers
=============================================================================
