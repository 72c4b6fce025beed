---------------------------- MODULE WorkerProofs ----------------------------
(***************************************************************************)
(* A workspace holds what its manifest says, and an answer tells the truth *)
(* about its source: for any directory, any archive, any edits of them     *)
(* while they are read, and whatever requests fail or are killed half way. *)
(***************************************************************************)
EXTENDS Materialize, SequenceTheorems, TLAPS

-----------------------------------------------------------------------------
(* The source *)

Used == 1..(Len(AllPaths) + edits)    \* the inodes there have been
Written == 1..edits + 1               \* the versions there have been

SourceOK ==
    /\ edits \in 0..MaxEdits
    /\ at \in [Paths -> {0} \cup Used]
    /\ contents \in [Inodes -> Written]

\* What a path once had, it never has again.
NothingReturns ==
    /\ Used \subseteq Used' /\ Written \subseteq Written'
    /\ \A p \in Paths : at'[p] \in Used => at'[p] = at[p]
    /\ \A i \in Used : contents'[i] \in Written => contents'[i] = contents[i]

\* The names of the directory and all paths are finite lists.
LEMMA Lengths ==
    /\ Len(Names) \in Nat /\ DOMAIN Names = 1..Len(Names)
    /\ Len(AllPaths) \in Nat /\ Range(Names) \subseteq Paths /\ Archive \in Paths
    /\ DOMAIN AllPaths = 1..Len(AllPaths)
<1>1. /\ Names \in Seq(Range(Names)) /\ Len(Names) \in Nat /\ DOMAIN Names = 1..Len(Names)
  BY WorkerAssumption, LenProperties
<1>2. /\ Len(AllPaths) = Len(Names) + 1
      /\ \A i \in 1..Len(Names) : AllPaths[i] = Names[i]
      /\ AllPaths[Len(Names) + 1] = Archive
      /\ DOMAIN AllPaths = 1..(Len(Names) + 1)
  BY <1>1 DEF AllPaths
<1> QED BY <1>1, <1>2 DEF Paths, Range

\* Whatever has been in the source is within the bounds of the model.
LEMMA UsedInodes ==
    ASSUME SourceOK
    PROVE  /\ Used \subseteq Inodes /\ Written \subseteq FileVersions
           /\ \A i \in Used : contents[i] \in Written
<1>1. Len(AllPaths) \in Nat /\ MaxEdits \in Nat /\ edits \in Nat /\ edits <= MaxEdits
  BY Lengths, WorkerAssumption DEF SourceOK
<1>2. Used \subseteq Inodes /\ Written \subseteq FileVersions
  BY <1>1 DEF Used, Written, Inodes, FileVersions
<1> QED BY <1>2 DEF SourceOK

\* An edit gives a path an inode or an inode contents that were never there before.
LEMMA EditStep ==
    ASSUME SourceOK, NEW p \in Edited, Edit(p)
    PROVE  SourceOK' /\ NothingReturns
<1> DEFINE new == Len(AllPaths) + edits + 1
<1>1. /\ p \in Paths /\ edits \in Nat /\ edits < MaxEdits /\ edits' = edits + 1
      /\ MaxEdits \in Nat /\ Len(AllPaths) \in Nat
  BY WorkerAssumption, Lengths DEF Edit, SourceOK
<1>2. /\ Used \subseteq Used' /\ Written \subseteq Written' /\ new \in Used' /\ new \notin Used
      /\ edits + 2 \in Written' /\ edits + 2 \notin Written /\ 0 \notin Used
      /\ edits' \in 0..MaxEdits /\ Used' \subseteq Inodes
  BY <1>1 DEF Used, Written, Inodes
<1>3. /\ \A q \in Paths : at[q] \in {0} \cup Used
      /\ \A i \in Inodes : contents[i] \in Written
      /\ at = [q \in Paths |-> at[q]] /\ contents = [i \in Inodes |-> contents[i]]
  BY DEF SourceOK
<1> HIDE DEF new
<1>4. CASE at[p] # 0 /\ contents' = [contents EXCEPT ![at[p]] = edits + 2] /\ UNCHANGED at
  BY <1>1, <1>2, <1>3, <1>4 DEF SourceOK, NothingReturns
<1>5. CASE /\ at' = [at EXCEPT ![p] = new]
           /\ contents' = [contents EXCEPT ![new] = edits + 2]
  BY <1>1, <1>2, <1>3, <1>5 DEF SourceOK, NothingReturns
<1>6. CASE at[p] # 0 /\ at' = [at EXCEPT ![p] = 0] /\ UNCHANGED contents
  BY <1>1, <1>2, <1>3, <1>6 DEF SourceOK, NothingReturns
<1> QED BY <1>4, <1>5, <1>6 DEF Edit, new

\* What is there in an instant, file by file
InstantIs ==
    \A f : f \in Instant <=>
              \E n \in Range(Names) \cap (Audio \cup Cue) :
                 at[n] # 0 /\ f = <<n, <<at[n], contents[at[n]]>>>>

\* The contents of the directory at this moment, name by name.
LEMMA Instants == InstantIs /\ InstantIs'
<1>1. InstantIs
  BY DEF InstantIs, Instant, StableFingerprint, Snapshot
<1>2. InstantIs'
  BY DEF InstantIs, Instant, StableFingerprint, Snapshot
<1> QED BY <1>1, <1>2

\* A file of an earlier instant, or of a scan
Past(f) == f[2][1] \in Used /\ f[2][2] \in Written

\* What is there now is a file that there has been.
LEMMA InstantIsPast ==
    ASSUME SourceOK
    PROVE  \A f \in Instant : Past(f)
<1> SUFFICES ASSUME NEW n \in Range(Names), at[n] # 0
             PROVE  at[n] \in Used /\ contents[at[n]] \in Written
  <2> SUFFICES ASSUME NEW f \in Instant PROVE Past(f)
    OBVIOUS
  <2>1. PICK n \in Range(Names) : at[n] # 0 /\ f = <<n, <<at[n], contents[at[n]]>>>>
    BY Zenon, Instants DEF InstantIs
  <2> QED BY <2>1 DEF Past
<1> QED BY Lengths, UsedInodes DEF SourceOK

\* A file of the past that is there after a step was there before it.
LEMMA PastIsGone ==
    ASSUME SourceOK, NothingReturns, NEW f, Past(f), f \in Instant'
    PROVE  f \in Instant /\ Past(f)'
<1>1. PICK n \in Range(Names) \cap (Audio \cup Cue) :
        at'[n] # 0 /\ f = <<n, <<at'[n], contents'[at'[n]]>>>>
  BY Zenon, Instants DEF InstantIs
<1>2. at'[n] \in Used /\ contents'[at'[n]] \in Written
  BY Zenon, <1>1 DEF Past
<1>3. at'[n] = at[n] /\ contents'[at[n]] = contents[at[n]]
  BY Zenon, <1>1, <1>2, Lengths DEF NothingReturns
<1>4. f \in Instant
  BY Zenon, <1>1, <1>3, Instants DEF InstantIs
<1> QED BY Zenon, <1>4 DEF Past, NothingReturns

-----------------------------------------------------------------------------
(* The invariant *)

\* The files a fingerprint speaks of were there at once, and it speaks of every file
\* that was there throughout.
Complete(files) == \A f \in Instant : (\A s \in instants : f \in s) => f \in files
AtOnce(files) == (\E s \in instants : files \subseteq s) /\ Complete(files)

\* What a manifest says is true.
TrueManifest(m) ==
    /\ m.artifacts = Wanted(m.op, m.fingerprint)
    /\ m.op = "directory" => AtOnce(m.fingerprint)

\* A finished workspace: nothing is in it but what its manifest lists.
Folder(d) ==
    /\ d = [exists |-> d.exists, files |-> d.files, quarantine |-> d.quarantine, manifest |-> d.manifest]
    /\ d.exists = TRUE

Finished(d) ==
    \/ d = NoDirectory
    \/ /\ Folder(d) /\ d.quarantine = {}
       /\ \A m \in d.manifest : /\ TrueManifest(m) /\ d.files \subseteq m.artifacts
                                /\ \A n \in d.manifest : n = m

DiskOK ==
    /\ completed = [w \in Workspaces |-> completed[w]] /\ partial = [w \in Workspaces |-> partial[w]]
    /\ \A w \in Workspaces : Finished(completed[w])

\* The phases of a request
Preparing == {"load", "found", "clear", "prepare"}
Copying == {"extract", "copy", "copying", "verify"}
Closing == {"manifest", "rename"}

Shape ==
    /\ work = [pc |-> work.pc, op |-> work.op, workspace |-> work.workspace,
               expected |-> work.expected, next |-> work.next, scanned |-> work.scanned,
               first |-> work.first, fingerprint |-> work.fingerprint, plan |-> work.plan,
               todo |-> work.todo, fd |-> work.fd, artifacts |-> work.artifacts,
               answer |-> work.answer]
    /\ work.workspace \in Workspaces
    /\ work.pc \in {"idle", "open", "scan"} \cup Preparing \cup Copying \cup Closing
    /\ work.pc \in {"scan", "copying", "verify"} => work.op = "directory"
    /\ work.pc \in {"open", "found", "extract"} => work.op # "directory"
    /\ work.pc # "idle" => ~Answered

\* The first scan, when the names before the next have been read
EntryOK(e) ==
    /\ e.name \in Audio \cup Cue
    /\ e.file.inode \in Used /\ e.file.version \in Written

ScanOK(scan, next) ==
    /\ \A e \in scan : EntryOK(e) /\ \E j \in 1..Len(Names) : j < next /\ e.name = Names[j]
    /\ \A e, d \in scan : e.name = d.name => e = d
    /\ \A f \in Instant :
         (\A s \in instants : f \in s) /\ (\E j \in 1..Len(Names) : j < next /\ f[1] = Names[j])
         => f \in directoryFingerprint(scan)

\* The second scan.  A file of the first that has gone does not return, and those
\* that have not were all there between the two scans.
RescanOK ==
    /\ \A f \in work.fingerprint : Past(f)
    /\ Complete(work.fingerprint)
    /\ \E s \in instants : /\ work.fingerprint \cap Instant \subseteq s
                          /\ work.fingerprint \cap directoryFingerprint(work.scanned) \subseteq s

\* The artifacts of everything but what is still to be done
Made(op, fingerprint, scan, plan, todo) ==
    IF op # "directory"
      THEN {[name |-> Members[i], content |-> <<fingerprint[2]>>] : i \in DOMAIN Members \ todo}
    ELSE IF plan.tracks = 0
      THEN {[name |-> e.name, content |-> <<e.file.version>>] :
              e \in {d \in Of(scan, Audio) : \E i \in DOMAIN Names \ todo : d.name = Names[i]}}
    ELSE {[name |-> Track[i], content |-> <<e.file.version, plan.sheet>>] :
            i \in 1..plan.tracks \ todo, e \in Of(scan, Audio)}

MadeBut(todo) == Made(work.op, work.fingerprint, work.scanned, work.plan, todo)

\* The file that is open has not changed so far.
Unchanged == contents[work.fd] = work.expected[3]
FileIsOpen == work.op # "directory" \/ work.pc \in {"copying", "verify"}

\* The source is known and its artifacts are being made.
PlanOK ==
    /\ work.op # "directory" =>
         work.fingerprint[2] = work.expected[3] /\ work.todo \subseteq DOMAIN Members
    /\ work.op = "directory" =>
         /\ work.first = {} /\ ScanOK(work.scanned, Len(Names) + 1)
         /\ Of(work.scanned, Audio) # {}
         /\ work.fingerprint = directoryFingerprint(work.scanned)
         /\ work.plan.tracks \in Nat
         /\ work.plan.tracks = 0 =>
              \A i \in work.todo : i \in DOMAIN Names /\ \E e \in Of(work.scanned, Audio) : e.name = Names[i]
         /\ work.plan.tracks # 0 =>
              /\ work.todo \subseteq 1..work.plan.tracks
              /\ \E e \in work.scanned : Of(work.scanned, Audio) = {e}
    /\ MadeBut({}) = Wanted(work.op, work.fingerprint)
    /\ FileIsOpen => work.fd \in Used /\ work.expected[3] \in Written
    /\ FileIsOpen => (Unchanged => work.artifacts = MadeBut(work.todo))
    /\ ~FileIsOpen => work.artifacts = MadeBut(work.todo)
    /\ work.pc = "copying" => \E e \in NextInput : work.expected[3] = e.file.version
    /\ work.pc = "verify" /\ work.plan.tracks # 0 => work.todo = {}
    /\ work.pc \in Preparing \cup {"extract"} => work.artifacts = {}

\* The workspace being filled
FillingOK ==
    LET d == partial[work.workspace]
    IN  /\ Folder(d) /\ d.files = work.artifacts
        /\ work.op = "directory" \/ work.pc \in Closing => d.quarantine = {}
        /\ work.pc = "copy" /\ work.op = "rar" /\ Unchanged =>
             \A f \in d.quarantine : f.content = <<work.fingerprint[2]>>
        /\ work.pc = "rename" =>
             d.manifest = {[op |-> work.op, fingerprint |-> work.fingerprint,
                            artifacts |-> work.artifacts]}

Rescanning == work.pc = "scan" /\ work.first # {}

WorkerInv ==
    /\ SourceOK /\ Instant \in instants
    /\ DiskOK /\ Shape
    /\ Answered => TrueManifest(work.answer.manifest)
    /\ work.pc = "open" => /\ work.expected[2] \in Used /\ work.expected[3] \in Written
                           /\ work.artifacts = {}
    /\ work.pc = "scan" => work.next \in Nat \ {0}
    /\ work.pc = "scan" /\ work.first = {} => ScanOK(work.scanned, work.next) /\ work.artifacts = {}
    /\ Rescanning => RescanOK
    /\ work.pc \in Preparing \cup Copying => PlanOK
    /\ Rescanning \/ work.pc \in Closing => work.artifacts = Wanted(work.op, work.fingerprint)
    /\ work.pc \in Closing /\ work.op = "directory" => AtOnce(work.fingerprint)
    /\ Rescanning \/ work.pc \in Copying \cup Closing => FillingOK
    /\ work.pc = "found" => usable(completed[work.workspace])
    /\ work.pc \in {"found", "clear"} => completed[work.workspace] # NoDirectory
-----------------------------------------------------------------------------
(* What no step can undo *)

\* A step of the worker or of its surroundings, as far as the source goes
Onward ==
    /\ SourceOK /\ SourceOK' /\ NothingReturns
    /\ Instant \in instants /\ instants' = instants \cup {Instant'}

\* Every step, of the worker or of its surroundings, is onward.
LEMMA StepsGoOnward ==
    ASSUME SourceOK, Instant \in instants, [WorkerNext]_workerVars
    PROVE  Onward
<1>1. CASE UNCHANGED source
  <2>1. SourceOK'
    BY Zenon, <1>1 DEF source, SourceOK, Used, Written
  <2>2. NothingReturns
    BY Zenon, <1>1 DEF source, NothingReturns, Used, Written
  <2>3. Instant' = Instant
    BY Zenon, <1>1 DEF source, Instant, Snapshot
  <2>4. instants' = instants \cup {Instant'}
    BY Zenon, <2>3 DEF WorkerNext, workerVars
  <2> QED BY Zenon, <2>1, <2>2, <2>4 DEF Onward
<1>2. ASSUME NEW p \in Edited, Edit(p), WorkerNext PROVE Onward
  BY Zenon, <1>2, EditStep DEF Onward, WorkerNext
<1>3. ASSUME Remount, WorkerNext PROVE Onward
  <2>1. SourceOK' /\ NothingReturns
    BY Zenon, <1>3 DEF Remount, SourceOK, NothingReturns, Used, Written
  <2> QED BY Zenon, <1>3, <2>1 DEF Onward, WorkerNext
<1>4. ASSUME WorkerNext PROVE UNCHANGED source \/ (\E p \in Edited : Edit(p)) \/ Remount
  BY Zenon, <1>4 DEF WorkerNext, Worker, MaterializeArchive, MaterializeDirectoryAudio, fail, Killed,
     Imported, OpenArchive, scanDirectory, Scanned, loadWorkspace, Found, clearWorkspace,
     prepareWorkspace, Extract, extractAndProbe, collectExtractedMedia, OpenFile,
     copyDirectoryFile, Split, VerifyFile, Final, Rescan, Rescanned, writeManifest, Rename
<1>5. CASE UNCHANGED workerVars
  BY Zenon, <1>1, <1>5 DEF workerVars, source
<1> QED BY Zenon, <1>1, <1>2, <1>3, <1>4, <1>5

\* A fingerprint with every file that never changed keeps them: later fewer have not.
LEMMA CompleteStays ==
    ASSUME Onward, NEW files, Complete(files)
    PROVE  Complete(files)'
  BY Zenon DEF Onward, Complete

\* Files that were there at one instant were there at one instant.
LEMMA AtOnceStays ==
    ASSUME Onward, NEW files, AtOnce(files)
    PROVE  AtOnce(files)'
  BY Zenon, CompleteStays DEF Onward, AtOnce

\* A true manifest stays true.
LEMMA TruthStays ==
    ASSUME Onward, NEW m, TrueManifest(m)
    PROVE  TrueManifest(m)'
  BY Zenon, AtOnceStays DEF TrueManifest

\* A finished workspace stays one while it is not touched.
LEMMA FinishedStays ==
    ASSUME Onward, NEW d, Finished(d)
    PROVE  Finished(d)'
  BY Zenon, TruthStays DEF Finished

\* An entry that was read stays a file there has been.
LEMMA EntryStays ==
    ASSUME Onward, NEW e, EntryOK(e)
    PROVE  EntryOK(e)'
  BY Zenon DEF Onward, NothingReturns, EntryOK

\* What a scan has read stays what there was when it was read.
LEMMA ScanStays ==
    ASSUME Onward, NEW scan, NEW next, ScanOK(scan, next)
    PROVE  ScanOK(scan, next)'
<1>1. ASSUME NEW f \in Instant', \A s \in instants' : f \in s
      PROVE  f \in Instant /\ \A s \in instants : f \in s
  BY Zenon, <1>1 DEF Onward
<1>2. \A f \in Instant' :
        (\A s \in instants' : f \in s) /\ (\E j \in 1..Len(Names) : j < next /\ f[1] = Names[j])
        => f \in directoryFingerprint(scan)
  BY Zenon, <1>1 DEF ScanOK
<1>3. directoryFingerprint(scan)' = directoryFingerprint(scan)
  BY Zenon DEF directoryFingerprint, StableFingerprint
<1> QED BY Zenon, <1>2, <1>3, EntryStays DEF ScanOK

\* Contents seen after a step were there before it: no version returns.
LEMMA ContentsStay ==
    ASSUME Onward, NEW i \in Used, NEW v \in Written, contents'[i] = v
    PROVE  contents[i] = v
  BY Zenon DEF Onward, NothingReturns

\* What has been used stays used.
LEMMA UsedStays ==
    ASSUME Onward
    PROVE  Used \subseteq Used' /\ Written \subseteq Written'
  BY Zenon DEF Onward, NothingReturns

-----------------------------------------------------------------------------
(* The world outside *)

Rest == UNCHANGED <<completed, partial, work>>

\* The disk is in order after a step that does not touch it.
LEMMA DiskStays ==
    ASSUME Onward, DiskOK, completed' = completed,
           partial' = [w \in Workspaces |-> partial'[w]]
    PROVE  DiskOK'
  BY Zenon, FinishedStays DEF DiskOK

\* The plan of a request stays right while the source is edited.
LEMMA RestKeepsPlan ==
    ASSUME Onward, Rest, PlanOK
    PROVE  PlanOK'
<1>1. work' = work
  BY DEF Rest
<1>2. MadeBut({})' = MadeBut({}) /\ MadeBut(work.todo)' = MadeBut(work.todo)
  BY Zenon, <1>1 DEF MadeBut
<1>3. FileIsOpen' = FileIsOpen /\ NextInput' = NextInput
  BY Zenon, <1>1 DEF FileIsOpen, NextInput, NextItem, Of
<1>4. ASSUME FileIsOpen
      PROVE  /\ work.fd \in Used' /\ work.expected[3] \in Written'
             /\ Unchanged' => Unchanged
  BY ZenonT(60), <1>1, <1>4, UsedStays, ContentsStay DEF PlanOK, Unchanged
<1>5. ScanOK(work.scanned, Len(Names) + 1) => ScanOK(work.scanned, Len(Names) + 1)'
  BY Zenon, <1>1, ScanStays
<1>6. directoryFingerprint(work.scanned)' = directoryFingerprint(work.scanned)
  BY Zenon, <1>1 DEF directoryFingerprint, StableFingerprint
<1>7. /\ work.op = "directory" =>
         /\ work.first = {} /\ ScanOK(work.scanned, Len(Names) + 1)'
         /\ Of(work.scanned, Audio) # {}
         /\ work.fingerprint = directoryFingerprint(work.scanned)'
  BY Zenon, <1>5, <1>6 DEF PlanOK
<1> QED BY Zenon, <1>1, <1>2, <1>3, <1>4, <1>7 DEF PlanOK
\* So does what the second scan has read.
LEMMA RestKeepsRescan ==
    ASSUME Onward, Rest, RescanOK
    PROVE  RescanOK'
<1>1. work' = work /\ directoryFingerprint(work.scanned)' = directoryFingerprint(work.scanned)
  BY Zenon DEF Rest, directoryFingerprint, StableFingerprint
<1>2. /\ \A f \in work.fingerprint : Past(f)' /\ (f \in Instant' => f \in Instant)
  BY Zenon, PastIsGone, UsedStays DEF Onward, RescanOK, Past
<1>3. Complete(work.fingerprint)'
  BY Zenon, <1>1, CompleteStays DEF RescanOK
<1>4. PICK s \in instants : /\ work.fingerprint \cap Instant \subseteq s
                           /\ work.fingerprint \cap directoryFingerprint(work.scanned) \subseteq s
  BY Zenon DEF RescanOK
<1>5. s \in instants' /\ work.fingerprint \cap Instant' \subseteq s
  BY Zenon, <1>2, <1>4 DEF Onward
<1> QED BY Zenon, <1>1, <1>2, <1>3, <1>4, <1>5 DEF RescanOK

\* So does what the partial workspace holds.
LEMMA RestKeepsFilling ==
    ASSUME Onward, Rest, FillingOK, work.pc = "copy" /\ work.op = "rar" => PlanOK
    PROVE  FillingOK'
<1>1. work' = work /\ partial' = partial
  BY DEF Rest
<1>2. work.pc = "copy" /\ work.op = "rar" => (Unchanged' => Unchanged)
  BY Zenon, <1>1, ContentsStay DEF PlanOK, Unchanged, FileIsOpen
<1> QED BY Zenon, <1>1, <1>2 DEF FillingOK

\* An edit of the source, or a stutter, keeps the invariant.
LEMMA RestKeeps ==
    ASSUME WorkerInv, Onward, Rest
    PROVE  WorkerInv'
<1>1. work' = work /\ completed' = completed /\ partial' = partial
  BY DEF Rest
<1>2. SourceOK' /\ Instant' \in instants'
  BY Zenon DEF Onward
<1>3. DiskOK'
  BY Zenon, <1>1, DiskStays DEF WorkerInv, DiskOK
<1>4. Shape' /\ (Answered' => Answered)
  BY Zenon, <1>1 DEF WorkerInv, Shape, Answered
<1>5. Answered' => TrueManifest(work.answer.manifest)'
  BY Zenon, <1>1, <1>4, TruthStays DEF WorkerInv
<1>6. work.pc = "open" => /\ work.expected[2] \in Used' /\ work.expected[3] \in Written'
                         /\ work.artifacts = {}
  BY Zenon, UsedStays DEF WorkerInv
<1>7. work.pc = "scan" /\ work.first = {} => ScanOK(work.scanned, work.next)'
  BY Zenon, <1>1, ScanStays DEF WorkerInv
<1>8. Rescanning => RescanOK'
  BY Zenon, RestKeepsRescan DEF WorkerInv
<1>9. work.pc \in Preparing \cup Copying => PlanOK'
  BY Zenon, RestKeepsPlan DEF WorkerInv
<1>10. work.pc \in Closing /\ work.op = "directory" => AtOnce(work.fingerprint)'
  BY Zenon, <1>1, AtOnceStays DEF WorkerInv
<1>11. Rescanning \/ work.pc \in Copying \cup Closing => FillingOK'
  BY Zenon, RestKeepsFilling DEF WorkerInv, Copying
<1>12. Rescanning' = Rescanning /\ usable(completed[work.workspace])' = usable(completed[work.workspace])
  BY Zenon, <1>1 DEF Rescanning, usable
<1> QED
  BY Zenon, <1>1, <1>2, <1>3, <1>4, <1>5, <1>6, <1>7, <1>8, <1>9, <1>10, <1>11, <1>12
     DEF WorkerInv

-----------------------------------------------------------------------------
(* Answers *)

\* An answer ends the request; it keeps the invariant if its manifest is true.
LEMMA Answers ==
    ASSUME Onward, DiskOK', NEW a, Answer(a), a.status = "ok" => TrueManifest(a.manifest)'
    PROVE  WorkerInv'
<1>1. work' = [pc |-> "idle", op |-> "none", workspace |-> <<0>>, expected |-> <<>>,
               next |-> 1, scanned |-> {}, first |-> {}, fingerprint |-> <<>>,
               plan |-> [tracks |-> 0, sheet |-> 0], todo |-> {}, fd |-> 0,
               artifacts |-> {}, answer |-> a]
  BY DEF Answer, NoRequest
<1>2. work'.pc = "idle" /\ work'.answer = a /\ work'.workspace \in Workspaces
  BY Zenon, <1>1 DEF Workspaces
<1>3. Shape'
  BY <1>1, <1>2 DEF Shape
<1>4. Answered' => TrueManifest(work.answer.manifest)'
  BY Zenon, <1>2 DEF Answered
<1>5. "idle" \notin {"open", "scan", "found"} \cup Preparing \cup Copying \cup Closing
  BY DEF Preparing, Copying, Closing
<1>6. ~Rescanning'
  BY Zenon, <1>2, <1>5 DEF Rescanning
<1> QED BY Zenon, <1>2, <1>3, <1>4, <1>5, <1>6 DEF WorkerInv, Onward

\* A failure: whatever is left of a partial workspace, nobody looks at it.
LEMMA GivingUp ==
    ASSUME Onward, DiskOK, GiveUp, completed' = completed
    PROVE  WorkerInv'
<1>1. partial' = [w \in Workspaces |-> partial'[w]]
  BY Zenon DEF GiveUp, DiskOK
<1>2. DiskOK'
  BY Zenon, <1>1, DiskStays
<1>3. Failed.status # "ok"
  BY DEF Failed
<1> QED BY Zenon, <1>2, <1>3, Answers DEF GiveUp
\* A step that leaves the source alone leaves all that was derived from it.
LEMMA QuietStep ==
    ASSUME Onward, UNCHANGED source
    PROVE  /\ at' = at /\ contents' = contents /\ Used' = Used /\ Written' = Written
           /\ Instant' = Instant /\ instants' = instants
<1>1. at' = at /\ contents' = contents /\ device' = device /\ edits' = edits
  BY DEF source
<1>2. Used' = Used /\ Written' = Written
  BY Zenon, <1>1 DEF Used, Written
<1>3. Instant' = Instant
  BY Zenon, <1>1 DEF Instant, Snapshot
<1> QED BY Zenon, <1>1, <1>2, <1>3 DEF Onward

\* One workspace is replaced by another that is as good, or an artifact moves.
LEMMA WorkspaceReplaced ==
    ASSUME Onward, DiskOK, NEW w \in Workspaces, NEW d, Finished(d),
           completed' = [completed EXCEPT ![w] = d],
           partial' = [v \in Workspaces |-> partial'[v]]
    PROVE  DiskOK'
<1>1. completed' = [v \in Workspaces |-> IF v = w THEN d ELSE completed[v]]
  BY Zenon DEF DiskOK
<1>2. \A v \in Workspaces : Finished(completed[v])'
  <2> SUFFICES ASSUME NEW v \in Workspaces PROVE Finished(completed[v])'
    OBVIOUS
  <2>1. CASE v = w
    <3>1. completed'[v] = d
      BY Zenon, <1>1, <2>1
    <3> QED BY Zenon, <3>1, FinishedStays
  <2>2. CASE v # w
    <3>1. completed'[v] = completed[v]
      BY Zenon, <1>1, <2>2
    <3> QED BY Zenon, <3>1, FinishedStays DEF DiskOK
  <2> QED BY Zenon, <2>1, <2>2
<1> QED BY Zenon, <1>1, <1>2 DEF DiskOK

\* What is written to a directory is all that changes in it.
LEMMA FilesChange ==
    ASSUME NEW d, Folder(d), NEW files, NEW e, e = [d EXCEPT !.files = files]
    PROVE  /\ Folder(e) /\ e.files = files /\ e.quarantine = d.quarantine
           /\ e.manifest = d.manifest
  BY DEF Folder

\* A change of the quarantine of a workspace changes nothing else of it.
LEMMA QuarantineChanges ==
    ASSUME NEW d, Folder(d), NEW files, NEW e, e = [d EXCEPT !.quarantine = files]
    PROVE  /\ Folder(e) /\ e.files = d.files /\ e.quarantine = files
           /\ e.manifest = d.manifest
  BY DEF Folder

\* Nor does one of its manifest.
LEMMA ManifestChanges ==
    ASSUME NEW d, Folder(d), NEW manifest, NEW e, e = [d EXCEPT !.manifest = manifest]
    PROVE  /\ Folder(e) /\ e.files = d.files /\ e.quarantine = d.quarantine
           /\ e.manifest = manifest
  BY DEF Folder

\* A finished workspace that loses artifacts or its manifest is still a finished one.
LEMMA FewerArtifacts ==
    ASSUME NEW d, Finished(d), d # NoDirectory, NEW files \in SUBSET d.files,
           NEW manifest \in SUBSET d.manifest, NEW e,
           e = [d EXCEPT !.files = files, !.manifest = manifest]
    PROVE  Finished(e)
<1>1. /\ Folder(d) /\ d.quarantine = {}
      /\ \A m \in d.manifest : /\ TrueManifest(m) /\ d.files \subseteq m.artifacts
                               /\ \A n \in d.manifest : n = m
  BY Zenon DEF Finished
<1>2. Folder(e) /\ e.files = files /\ e.quarantine = d.quarantine /\ e.manifest = manifest
  BY <1>1 DEF Folder
<1>3. \A m \in manifest : /\ TrueManifest(m) /\ files \subseteq m.artifacts
                          /\ \A n \in manifest : n = m
  BY Zenon, <1>1
<1> QED BY Zenon, <1>1, <1>2, <1>3 DEF Finished

\* A RemoveAll that fails or is killed half way leaves the disk in order.
LEMMA HalfClears ==
    ASSUME Onward, WorkerInv, HalfCleared, partial' = [w \in Workspaces |-> partial'[w]]
    PROVE  DiskOK'
<1>1. DiskOK /\ work.workspace \in Workspaces
  BY Zenon DEF WorkerInv, Shape
<1>2. CASE work.pc # "clear"
  BY Zenon, <1>1, <1>2, DiskStays DEF HalfCleared
<1>3. CASE work.pc = "clear"
  <2> DEFINE w == work.workspace
  <2>1. PICK files \in SUBSET completed[w].files, manifest \in SUBSET completed[w].manifest :
           completed' = [completed EXCEPT ![w].files = files, ![w].manifest = manifest]
    BY Zenon, <1>3 DEF HalfCleared
  <2>2. PICK d : d = [completed[w] EXCEPT !.files = files, !.manifest = manifest]
    OBVIOUS
  <2>3. completed' = [completed EXCEPT ![w] = d]
    BY <2>1, <2>2, <1>1 DEF DiskOK
  <2>4. completed[w] # NoDirectory /\ Finished(completed[w])
    BY Zenon, <1>1, <1>3 DEF WorkerInv, DiskOK
  <2>5. Finished(d)
    BY Zenon, <2>2, <2>4, FewerArtifacts
  <2> QED BY Zenon, <1>1, <2>5, <2>3, WorkspaceReplaced
<1> QED BY Zenon, <1>2, <1>3

\* A request that fails, or whose helper is killed, at any point keeps the invariant.
LEMMA Failures ==
    ASSUME Onward, WorkerInv, fail \/ Killed
    PROVE  WorkerInv'
<1>1. DiskOK
  BY Zenon DEF WorkerInv
<1>2. CASE fail
  <2>1. partial' = [w \in Workspaces |-> partial'[w]]
    BY Zenon, <1>1, <1>2 DEF fail, GiveUp, DiskOK
  <2>2. DiskOK' /\ Answer(Failed)
    BY Zenon, <1>2, <2>1, HalfClears DEF fail, GiveUp
  <2>3. Failed.status # "ok"
    BY DEF Failed
  <2> QED BY Zenon, <2>2, <2>3, Answers
<1>3. CASE Killed
  <2>1. DiskOK' /\ Answer([status |-> "none"])
    BY Zenon, <1>1, <1>3, HalfClears DEF Killed, DiskOK
  <2>2. [status |-> "none"].status # "ok"
    OBVIOUS
  <2> QED BY Zenon, <2>1, <2>2, Answers
<1> QED BY Zenon, <1>2, <1>3
-----------------------------------------------------------------------------
(* The phases of a request: what has to be shown for each *)

\* The phases of a request are apart.
LEMMA Phases ==
    /\ {"idle", "open", "scan"} \cap (Preparing \cup Copying \cup Closing) = {}
    /\ Preparing \cap (Copying \cup Closing) = {} /\ Copying \cap Closing = {}
    /\ {"found", "clear"} \subseteq Preparing
  BY DEF Preparing, Copying, Closing

\* What a step to the opening of an archive has to show.
LEMMA ToOpen ==
    ASSUME Onward, DiskOK', Shape', work'.pc = "open", work'.artifacts = {},
           work'.expected[2] \in Used', work'.expected[3] \in Written'
    PROVE  WorkerInv'
<1>1. ~Answered' /\ ~Rescanning'
  BY Zenon DEF Shape, Rescanning
<1> QED BY Zenon, <1>1, Phases DEF WorkerInv, Onward

\* What a step to the scan of a directory has to show.
LEMMA ToScan ==
    ASSUME Onward, DiskOK', Shape', work'.pc = "scan", work'.next \in Nat \ {0},
           work'.first = {} => ScanOK(work.scanned, work.next)' /\ work'.artifacts = {},
           work'.first # {} => /\ RescanOK' /\ FillingOK'
                               /\ work'.artifacts = Wanted(work'.op, work'.fingerprint)
    PROVE  WorkerInv'
<1>1. ~Answered' /\ (Rescanning' <=> work'.first # {})
  BY Zenon DEF Shape, Rescanning
<1> QED BY Zenon, <1>1, Phases DEF WorkerInv, Onward

\* What a step to the copying has to show.
LEMMA ToPlan ==
    ASSUME Onward, DiskOK', Shape', work'.pc \in Preparing \cup Copying, PlanOK',
           work'.pc \in Copying => FillingOK',
           work'.pc = "found" => usable(completed[work.workspace])',
           work'.pc \in {"found", "clear"} => completed'[work'.workspace] # NoDirectory
    PROVE  WorkerInv'
<1>1. ~Answered' /\ ~Rescanning'
  BY Zenon, Phases DEF Shape, Rescanning
<1> QED BY Zenon, <1>1, Phases DEF WorkerInv, Onward

\* What a step to the manifest and the rename has to show.
LEMMA ToClose ==
    ASSUME Onward, DiskOK', Shape', work'.pc \in Closing, FillingOK',
           work'.artifacts = Wanted(work'.op, work'.fingerprint),
           work'.op = "directory" => AtOnce(work.fingerprint)'
    PROVE  WorkerInv'
<1>1. ~Answered' /\ ~Rescanning'
  BY Zenon, Phases DEF Shape, Rescanning
<1> QED BY Zenon, <1>1, Phases DEF WorkerInv, Onward

-----------------------------------------------------------------------------
(* Requests, and the first reading of the source *)

\* A request for an archive keeps the invariant.
LEMMA ArchiveRequested ==
    ASSUME WorkerInv, Onward, NEW op, MaterializeArchive(op)
    PROVE  WorkerInv'
<1> DEFINE i == at[Archive]
           v == contents[at[Archive]]
<1>1. /\ work' = [pc |-> "open", op |-> op, workspace |-> <<i, v>>, expected |-> <<device, i, v>>,
                  next |-> 1, scanned |-> {}, first |-> {}, fingerprint |-> <<>>,
                  plan |-> [tracks |-> 0, sheet |-> 0], todo |-> {}, fd |-> 0,
                  artifacts |-> {}, answer |-> [status |-> "none"]]
      /\ op # "directory" /\ i # 0 /\ UNCHANGED source /\ UNCHANGED disk
  BY DEF MaterializeArchive, NoRequest, Snapshot, StrictFingerprint
<1>2. i \in Used /\ v \in Written /\ i \in Inodes /\ v \in FileVersions
  BY Zenon, <1>1, Lengths, UsedInodes DEF Onward, SourceOK
<1>3. DiskOK'
  BY Zenon, <1>1, DiskStays DEF WorkerInv, disk, DiskOK
<1>4. <<i, v>> \in Workspaces
  BY Zenon, <1>2 DEF Workspaces
<1> HIDE DEF i, v
<1>5. Shape'
  BY <1>1, <1>4 DEF Shape, Answered
<1>6. /\ work'.pc = "open" /\ work'.artifacts = {}
      /\ work'.expected[2] = i /\ work'.expected[3] = v
  BY <1>1
<1> QED BY Zenon, <1>1, <1>2, <1>3, <1>5, <1>6, ToOpen, QuietStep

\* A scan that has read nothing is right.
LEMMA NothingScanned ==
    ASSUME SourceOK
    PROVE  ScanOK({}, 1)
<1>1. \A j \in 1..Len(Names) : ~(j < 1)
  BY Lengths
<1> QED BY Zenon, <1>1 DEF ScanOK

\* A request for a directory keeps the invariant.
LEMMA DirectoryRequested ==
    ASSUME WorkerInv, Onward, MaterializeDirectoryAudio
    PROVE  WorkerInv'
<1>1. /\ work' = [pc |-> "scan", op |-> "directory", workspace |-> <<0>>, expected |-> <<>>,
                  next |-> 1, scanned |-> {}, first |-> {}, fingerprint |-> <<>>,
                  plan |-> [tracks |-> 0, sheet |-> 0], todo |-> {}, fd |-> 0,
                  artifacts |-> {}, answer |-> [status |-> "none"]]
      /\ UNCHANGED disk
  BY DEF MaterializeDirectoryAudio, NoRequest
<1>2. DiskOK'
  BY Zenon, <1>1, DiskStays DEF WorkerInv, disk, DiskOK
<1>3. <<0>> \in Workspaces
  BY Zenon DEF Workspaces
<1>4. Shape'
  BY <1>1, <1>3 DEF Shape, Answered
<1>5. /\ work'.pc = "scan" /\ work'.artifacts = {} /\ work'.first = {} /\ work'.scanned = {}
      /\ work'.next = 1 /\ 1 \in Nat \ {0}
  BY <1>1
<1>6. ScanOK({}, 1)'
  BY Zenon, NothingScanned, ScanStays DEF Onward
<1>7. ScanOK(work.scanned, work.next)'
  BY Zenon, <1>5, <1>6
<1> QED BY Zenon, <1>2, <1>4, <1>5, <1>7, ToScan
-----------------------------------------------------------------------------
(* Up to the partial workspace *)

\* A request goes on to another step.
LEMMA Proceeds ==
    ASSUME Shape, NEW step, Proceed(step)
    PROVE  /\ work' = [pc |-> step, op |-> work.op, workspace |-> work.workspace,
                       expected |-> work.expected, next |-> work.next, scanned |-> work.scanned,
                       first |-> work.first, fingerprint |-> work.fingerprint, plan |-> work.plan,
                       todo |-> work.todo, fd |-> work.fd, artifacts |-> work.artifacts,
                       answer |-> work.answer]
           /\ work'.pc = step /\ work'.op = work.op /\ work'.workspace = work.workspace
           /\ work'.expected = work.expected /\ work'.scanned = work.scanned
           /\ work'.first = work.first /\ work'.fingerprint = work.fingerprint
           /\ work'.plan = work.plan /\ work'.todo = work.todo /\ work'.fd = work.fd
           /\ work'.artifacts = work.artifacts /\ work'.answer = work.answer
           /\ work'.next = work.next
<1>1. work' = [pc |-> step, op |-> work.op, workspace |-> work.workspace,
               expected |-> work.expected, next |-> work.next, scanned |-> work.scanned,
               first |-> work.first, fingerprint |-> work.fingerprint, plan |-> work.plan,
               todo |-> work.todo, fd |-> work.fd, artifacts |-> work.artifacts,
               answer |-> work.answer]
  BY DEF Shape, Proceed
<1> QED BY <1>1

\* A request that only proceeds stays a well-formed request.
LEMMA ProceedsInShape ==
    ASSUME Shape, work.pc # "idle", NEW step, Proceed(step),
           step \in {"scan"} \cup Preparing \cup Copying \cup Closing,
           step \in {"scan", "copying", "verify"} => work.op = "directory",
           step \in {"found", "extract"} => work.op # "directory"
    PROVE  Shape'
<1>1. ~Answered'
  BY Zenon, Proceeds DEF Shape, Answered
<1>2. step # "open"
  BY DEF Preparing, Copying, Closing
<1> QED BY Zenon, <1>1, <1>2, Proceeds DEF Shape

\* And its plan stays right.
LEMMA PlanProceeds ==
    ASSUME Onward, UNCHANGED source, Shape, PlanOK, NEW step, Proceed(step),
           work.pc \in Preparing \cup {"extract"},
           step \in Preparing \cup {"extract", "copy"}
    PROVE  PlanOK'
<1>1. /\ step \notin {"copying", "verify"} /\ work.pc \notin {"copying", "verify"}
  BY DEF Preparing
<1>2. FileIsOpen' = FileIsOpen
  BY Zenon, <1>1, Proceeds DEF FileIsOpen
<1>3. MadeBut({})' = MadeBut({}) /\ MadeBut(work.todo)' = MadeBut(work.todo)
  BY Zenon, Proceeds DEF MadeBut
<1>4. Unchanged' = Unchanged
  BY Zenon, Proceeds, QuietStep DEF Unchanged
<1>5. work.op = "directory" => ScanOK(work.scanned, Len(Names) + 1)'
  <2>1. work.op = "directory" => ScanOK(work.scanned, Len(Names) + 1)
    BY Zenon DEF PlanOK
  <2> DEFINE s == work.scanned
  <2>2. ASSUME NEW t, ScanOK(t, Len(Names) + 1), work'.scanned = t
        PROVE  ScanOK(work.scanned, Len(Names) + 1)'
    BY Zenon, <2>2, ScanStays
  <2> QED BY Zenon, <2>1, <2>2, Proceeds
<1>6. /\ work.op # "directory" =>
           work'.fingerprint[2] = work'.expected[3] /\ work'.todo \subseteq DOMAIN Members
      /\ work.op = "directory" =>
           /\ work'.first = {} /\ Of(work'.scanned, Audio) # {}
           /\ work'.fingerprint = directoryFingerprint(work'.scanned)
           /\ work'.plan.tracks \in Nat
           /\ work'.plan.tracks = 0 =>
                \A i \in work'.todo :
                  i \in DOMAIN Names /\ \E e \in Of(work'.scanned, Audio) : e.name = Names[i]
           /\ work'.plan.tracks # 0 =>
                /\ work'.todo \subseteq 1..work'.plan.tracks
                /\ \E e \in work'.scanned : Of(work'.scanned, Audio) = {e}
  BY ZenonT(60), Proceeds DEF PlanOK
<1>7. MadeBut({})' = Wanted(work'.op, work'.fingerprint)
  BY Zenon, <1>3, Proceeds DEF PlanOK
<1>8. /\ FileIsOpen' => work'.fd \in Used' /\ work'.expected[3] \in Written'
      /\ FileIsOpen' => (Unchanged' => work'.artifacts = MadeBut(work.todo)')
      /\ ~FileIsOpen' => work'.artifacts = MadeBut(work.todo)'
      /\ work'.artifacts = {}
  BY ZenonT(60), <1>2, <1>3, <1>4, Proceeds, QuietStep DEF PlanOK
<1>9. work'.pc # "copying" /\ work'.pc # "verify" /\ work'.op = work.op
  BY Zenon, <1>1, Proceeds
<1> QED BY ZenonT(60), <1>5, <1>6, <1>7, <1>8, <1>9 DEF PlanOK

\* From an archive all wanted members are made, in the end and not before.
LEMMA MadeOfArchive ==
    ASSUME NEW op, op # "directory", NEW fingerprint, NEW scan, NEW plan
    PROVE  /\ Made(op, fingerprint, scan, plan, {}) = Wanted(op, fingerprint)
           /\ Made(op, fingerprint, scan, plan, DOMAIN Members) = {}
  BY DEF Made, Wanted, WantedMembers, Range

\* Opening the archive keeps the invariant.
LEMMA ArchiveOpened ==
    ASSUME WorkerInv, Onward, OpenArchive
    PROVE  WorkerInv'
<1>1. UNCHANGED source /\ completed' = completed /\ Shape /\ DiskOK /\ work.pc = "open"
      /\ work.op # "directory" /\ work.artifacts = {} /\ ~Answered
      /\ SourceOK
  BY DEF WorkerInv, OpenArchive, Shape
<1>2. CASE GiveUp
  BY Zenon, <1>1, <1>2, GivingUp
<1>3. CASE ~GiveUp
  <2> DEFINE i == at[Archive]
             v == contents[at[Archive]]
  <2>1. /\ i # 0 /\ <<device, i, v>> = work.expected /\ partial' = partial
        /\ work' = [work EXCEPT !.pc = "load", !.fd = i, !.todo = DOMAIN Members,
                                !.fingerprint = <<i, v>>]
    BY Zenon, <1>3 DEF OpenArchive, Opens, StrictFingerprint, StableFingerprint, Snapshot
  <2>2. i \in Used /\ v \in Written
    BY Zenon, <1>1, <2>1, Lengths, UsedInodes DEF SourceOK
  <2> HIDE DEF i, v
  <2>3. work' = [pc |-> "load", op |-> work.op, workspace |-> work.workspace,
                 expected |-> work.expected, next |-> work.next, scanned |-> work.scanned,
                 first |-> work.first, fingerprint |-> <<i, v>>, plan |-> work.plan,
                 todo |-> DOMAIN Members, fd |-> i, artifacts |-> work.artifacts,
                 answer |-> work.answer]
    BY <1>1, <2>1 DEF Shape
  <2>4. /\ work'.pc = "load" /\ work'.op = work.op /\ work'.workspace = work.workspace
        /\ work'.expected = work.expected /\ work'.expected[3] = v /\ work'.fingerprint = <<i, v>>
        /\ work'.fingerprint[2] = v /\ work'.todo = DOMAIN Members /\ work'.fd = i
        /\ work'.artifacts = {} /\ work'.answer = work.answer
    BY <1>1, <2>1, <2>3
  <2>5. Shape'
    BY Zenon, <1>1, <2>3, <2>4 DEF Shape, Answered, Preparing
  <2>6. DiskOK'
    BY Zenon, <1>1, <2>1, DiskStays DEF DiskOK
  <2>7. MadeBut({})' = Wanted(work.op, work.fingerprint)' /\ MadeBut(work.todo)' = {}
    <3>1. work'.op # "directory" /\ work'.todo = DOMAIN Members
      BY Zenon, <1>1, <2>4
    <3> QED BY ZenonT(60), <3>1, MadeOfArchive DEF MadeBut
  <2>8. PlanOK'
    <3>1. /\ FileIsOpen' /\ work'.op # "directory" /\ work'.pc # "copying" /\ work'.pc # "verify"
          /\ work'.todo \subseteq DOMAIN Members /\ work'.artifacts = MadeBut(work.todo)'
          /\ work'.fd \in Used' /\ work'.expected[3] \in Written'
          /\ work'.fingerprint[2] = work'.expected[3]
      BY Zenon, <1>1, <2>2, <2>4, <2>7, QuietStep DEF FileIsOpen
    <3> QED BY Zenon, <2>4, <2>7, <3>1 DEF PlanOK
  <2> QED BY Zenon, <2>4, <2>5, <2>6, <2>8, ToPlan DEF Preparing, Copying
<1> QED BY <1>2, <1>3

\* An import that moves an artifact out of a workspace keeps the invariant.
LEMMA ArtifactImported ==
    ASSUME WorkerInv, Onward, NEW w \in Workspaces, Imported(w)
    PROVE  WorkerInv'
<1>1. /\ work.pc = "idle" /\ completed[w].exists = TRUE /\ work' = work /\ partial' = partial
      /\ \E f \in completed[w].files : completed' = [completed EXCEPT ![w].files = @ \ {f}]
      /\ DiskOK /\ Finished(completed[w])
  BY DEF Imported, WorkerInv, DiskOK
<1>2. completed[w] # NoDirectory
  BY <1>1 DEF NoDirectory
<1>3. PICK f \in completed[w].files : completed' = [completed EXCEPT ![w].files = @ \ {f}]
  BY <1>1
<1> DEFINE d == completed[w]
           e == [d EXCEPT !.files = d.files \ {f}, !.manifest = d.manifest]
<1>4. completed' = [completed EXCEPT ![w] = e]
  <2>1. Folder(d)
    BY Zenon, <1>1, <1>2 DEF Finished
  <2>2. e = [d EXCEPT !.files = d.files \ {f}]
    BY <2>1 DEF Folder
  <2> QED BY Zenon, <1>3, <2>2
<1>5. Finished(e)
  BY Zenon, <1>1, <1>2, FewerArtifacts
<1>6. DiskOK'
  BY Zenon, <1>1, <1>4, <1>5, WorkspaceReplaced DEF DiskOK
<1>7. Shape' /\ (Answered' => Answered) /\ ~Rescanning'
  BY Zenon, <1>1 DEF WorkerInv, Shape, Answered, Rescanning
<1>8. Answered' => TrueManifest(work.answer.manifest)'
  <2>1. ASSUME NEW m, TrueManifest(m), m = work'.answer.manifest
        PROVE  TrueManifest(work.answer.manifest)'
    BY Zenon, <2>1, TruthStays
  <2> QED BY Zenon, <1>1, <1>7, <2>1 DEF WorkerInv
<1> QED BY Zenon, <1>1, <1>6, <1>7, <1>8, Phases DEF WorkerInv, Onward
\* A success with a true manifest keeps the invariant.
LEMMA Succeeds ==
    ASSUME Onward, DiskOK', NEW m, TrueManifest(m)', Answer(Success(m))
    PROVE  WorkerInv'
<1>1. PICK a : a = Success(m)
  OBVIOUS
<1>2. a.manifest = m
  BY <1>1 DEF Success
<1> QED BY Zenon, <1>1, <1>2, Answers

\* loadWorkspace keeps the invariant: the manifest it returns is a true one.
LEMMA WorkspaceLoaded ==
    ASSUME WorkerInv, Onward, loadWorkspace
    PROVE  WorkerInv'
<1> DEFINE d == completed[work.workspace]
<1>1. /\ UNCHANGED source /\ completed' = completed /\ partial' = partial /\ work.pc = "load"
      /\ \/ Proceed("prepare")
         \/ d.exists /\ \E m \in d.manifest : Answer(Success(m))
         \/ d.exists /\ work.op # "directory" /\ usable(d) /\ Proceed("found")
         \/ d.exists /\ Proceed("clear")
  BY DEF loadWorkspace, disk
<1>2. /\ Shape /\ PlanOK /\ DiskOK /\ Finished(d) /\ work.pc \in Preparing /\ ~Answered
  BY Zenon, <1>1 DEF WorkerInv, Preparing, DiskOK, Shape
<1>3. DiskOK'
  BY Zenon, <1>1, <1>2, DiskStays DEF DiskOK
<1> HIDE DEF d
<1>5. CASE Proceed("prepare")
  <2>1. Shape' /\ PlanOK' /\ work'.pc = "prepare"
    BY Zenon, <1>1, <1>2, <1>5, ProceedsInShape, PlanProceeds, Proceeds DEF Preparing
  <2> QED BY Zenon, <1>3, <2>1, ToPlan DEF Preparing, Copying
<1>6. CASE d.exists /\ \E m \in d.manifest : Answer(Success(m))
  <2>1. PICK m \in d.manifest : Answer(Success(m))
    BY <1>6
  <2>2. d # NoDirectory
    BY <1>6 DEF NoDirectory
  <2>3. TrueManifest(m)'
    BY Zenon, <1>2, <2>1, <2>2, TruthStays DEF Finished
  <2> QED BY Zenon, <1>3, <2>1, <2>3, Succeeds
<1>7. CASE d.exists /\ work.op # "directory" /\ usable(d) /\ Proceed("found")
  <2>1. Shape' /\ PlanOK' /\ work'.pc = "found"
    BY Zenon, <1>1, <1>2, <1>7, ProceedsInShape, PlanProceeds, Proceeds DEF Preparing
  <2>2. usable(completed[work.workspace])'
    BY Zenon, <1>1, <1>2, <1>7, Proceeds DEF usable, d
  <2>3. completed'[work'.workspace] # NoDirectory
    <3>1. d # NoDirectory
      BY <1>7 DEF NoDirectory
    <3> QED BY Zenon, <1>1, <1>2, <1>7, <3>1, Proceeds DEF d
  <2> QED BY Zenon, <1>3, <2>1, <2>2, <2>3, ToPlan DEF Preparing, Copying
<1>8. CASE d.exists /\ Proceed("clear")
  <2>1. Shape' /\ PlanOK' /\ work'.pc = "clear"
    BY Zenon, <1>1, <1>2, <1>8, ProceedsInShape, PlanProceeds, Proceeds DEF Preparing
  <2>2. completed'[work'.workspace] # NoDirectory
    <3>1. d # NoDirectory
      BY <1>8 DEF NoDirectory
    <3> QED BY Zenon, <1>1, <1>2, <1>8, <3>1, Proceeds DEF d
  <2> QED BY Zenon, <1>3, <2>1, <2>2, ToPlan DEF Preparing, Copying
<1> QED BY <1>1, <1>5, <1>6, <1>7, <1>8

\* So does the step after it when a workspace was found.
LEMMA WorkspaceFound ==
    ASSUME WorkerInv, Onward, Found
    PROVE  WorkerInv'
<1> DEFINE d == completed[work.workspace]
<1>1. /\ completed' = completed /\ partial' = partial /\ work.pc = "found"
      /\ Answer(Failed) \/ \E m \in d.manifest : Answer(Success(m))
  BY DEF Found, disk
<1>2. DiskOK /\ Finished(d) /\ d # NoDirectory
  BY Zenon, <1>1 DEF WorkerInv, DiskOK, Shape
<1>3. DiskOK'
  BY Zenon, <1>1, <1>2, DiskStays DEF DiskOK
<1>4. CASE Answer(Failed)
  <2>1. Failed.status # "ok"
    BY DEF Failed
  <2> QED BY Zenon, <1>3, <1>4, <2>1, Answers
<1>5. CASE \E m \in d.manifest : Answer(Success(m))
  <2>1. PICK m \in d.manifest : Answer(Success(m))
    BY <1>5
  <2>2. TrueManifest(m)'
    BY Zenon, <1>2, <2>1, TruthStays DEF Finished
  <2> QED BY Zenon, <1>3, <2>1, <2>2, Succeeds
<1> QED BY <1>1, <1>4, <1>5
\* A change of one partial workspace leaves the others.
LEMMA PartialChanges ==
    ASSUME DiskOK, NEW w \in Workspaces, NEW e, partial' = [partial EXCEPT ![w] = e]
    PROVE  partial' = [v \in Workspaces |-> partial'[v]] /\ partial'[w] = e
<1>1. partial = [v \in Workspaces |-> partial[v]]
  BY DEF DiskOK
<1>2. partial' = [v \in Workspaces |-> IF v = w THEN e ELSE partial[v]]
  BY Zenon, <1>1
<1> QED BY Zenon, <1>2

\* Clearing the finished workspace keeps the invariant.
LEMMA WorkspaceCleared ==
    ASSUME WorkerInv, Onward, clearWorkspace
    PROVE  WorkerInv'
<1>1. /\ UNCHANGED source /\ partial' = partial /\ work.pc = "clear" /\ Proceed("prepare")
      /\ completed' = [completed EXCEPT ![work.workspace] = NoDirectory]
  BY DEF clearWorkspace
<1>2. Shape /\ PlanOK /\ DiskOK /\ work.pc \in Preparing /\ work.workspace \in Workspaces
  BY Zenon, <1>1 DEF WorkerInv, Preparing, Shape
<1>3. DiskOK'
  <2>1. Finished(NoDirectory)
    BY Zenon DEF Finished
  <2> QED BY Zenon, <1>1, <1>2, <2>1, WorkspaceReplaced DEF DiskOK
<1>4. Shape' /\ PlanOK' /\ work'.pc = "prepare"
  BY Zenon, <1>1, <1>2, ProceedsInShape, PlanProceeds, Proceeds DEF Preparing
<1> QED BY Zenon, <1>3, <1>4, ToPlan DEF Preparing, Copying

\* A workspace that was just made is empty.
LEMMA EmptyFolder ==
    /\ Folder(EmptyDirectory) /\ EmptyDirectory.files = {} /\ EmptyDirectory.quarantine = {}
  BY DEF Folder, EmptyDirectory

\* Making the partial workspace keeps the invariant.
LEMMA WorkspacePrepared ==
    ASSUME WorkerInv, Onward, prepareWorkspace
    PROVE  WorkerInv'
<1>1. /\ UNCHANGED source /\ completed' = completed /\ work.pc = "prepare"
  BY DEF prepareWorkspace
<1>2. Shape /\ PlanOK /\ DiskOK /\ work.pc \in Preparing /\ work.workspace \in Workspaces
  BY Zenon, <1>1 DEF WorkerInv, Preparing, Shape
<1>3. CASE GiveUp
  BY Zenon, <1>1, <1>2, <1>3, GivingUp
<1>4. CASE ~GiveUp
  <2> DEFINE step == IF work.op = "rar" THEN "extract" ELSE "copy"
  <2>1. Proceed(step) /\ partial' = [partial EXCEPT ![work.workspace] = EmptyDirectory]
    BY Zenon, <1>4 DEF prepareWorkspace
  <2>2. /\ step \in {"extract", "copy"} /\ (step = "extract" => work.op = "rar")
        /\ (step = "copy" => work.op # "rar")
    OBVIOUS
  <2> HIDE DEF step
  <2>3. Shape' /\ PlanOK' /\ work'.pc = step
    BY Zenon, <1>1, <1>2, <2>1, <2>2, ProceedsInShape, PlanProceeds, Proceeds DEF Copying
  <2>4. DiskOK' /\ partial'[work.workspace] = EmptyDirectory
    BY Zenon, <1>1, <1>2, <2>1, PartialChanges, DiskStays
  <2>5. FillingOK'
    <3>1. /\ work'.workspace = work.workspace /\ work'.op = work.op /\ work'.artifacts = {}
          /\ work'.pc # "rename"
      BY Zenon, <1>1, <1>2, <2>1, <2>2, Proceeds DEF PlanOK
    <3> QED BY Zenon, <2>4, <3>1, EmptyFolder DEF FillingOK
  <2> QED BY Zenon, <2>2, <2>3, <2>4, <2>5, ToPlan DEF Preparing, Copying
<1> QED BY <1>3, <1>4

-----------------------------------------------------------------------------
(* Archives *)

\* A file that passes Verify has the version it was opened with.
LEMMA Verified ==
    ASSUME NEW i, NEW strict, Verify(i, strict)
    PROVE  strict[3] = contents[i]
  BY DEF Verify, StrictFingerprint, Snapshot

\* Extraction into the quarantine keeps the invariant.
LEMMA Extracted ==
    ASSUME WorkerInv, Onward, Extract
    PROVE  WorkerInv'
<1> DEFINE w == work.workspace
           unpacked == {[name |-> n, content |-> <<contents[work.fd]>>] : n \in Range(Members)}
           e == [partial[w] EXCEPT !.quarantine = unpacked]
<1>1. /\ UNCHANGED source /\ completed' = completed /\ work.pc = "extract" /\ Proceed("copy")
      /\ partial' = [partial EXCEPT ![w] = e]
  BY DEF Extract
<1>2. /\ Shape /\ PlanOK /\ DiskOK /\ FillingOK /\ w \in Workspaces /\ work.op # "directory"
  BY Zenon, <1>1 DEF WorkerInv, Copying, Shape
<1>3. Shape' /\ PlanOK' /\ work'.pc = "copy"
  BY Zenon, <1>1, <1>2, ProceedsInShape, PlanProceeds, Proceeds DEF Copying
<1>4. DiskOK' /\ partial'[w] = e
  BY Zenon, <1>1, <1>2, PartialChanges, DiskStays
<1>5. \A f \in unpacked : f.content = <<contents[work.fd]>>
  OBVIOUS
<1> HIDE DEF unpacked
<1>6. /\ Folder(e) /\ e.files = work.artifacts /\ e.quarantine = unpacked
  <2>1. Folder(partial[w]) /\ partial[w].files = work.artifacts
    BY Zenon, <1>2 DEF FillingOK
  <2>2. e = [partial[w] EXCEPT !.quarantine = unpacked]
    BY Zenon
  <2> HIDE DEF e
  <2> QED BY SMTT(30), <2>1, <2>2, QuarantineChanges
<1>7. Unchanged' => \A f \in unpacked : f.content = <<work.fingerprint[2]>>
  <2>1. work.fingerprint[2] = work.expected[3]
    BY Zenon, <1>2 DEF PlanOK
  <2>2. work'.fd = work.fd /\ work'.expected = work.expected /\ contents' = contents
    BY Zenon, <1>1, <1>2, Proceeds, QuietStep
  <2>3. Unchanged' => contents[work.fd] = work.fingerprint[2]
    BY Zenon, <2>1, <2>2 DEF Unchanged
  <2> QED BY Zenon, <1>5, <2>3
<1> HIDE DEF e
<1>8. FillingOK'
  <2>1. /\ work'.workspace = w /\ work'.op = work.op /\ work'.artifacts = work.artifacts
        /\ work'.fingerprint = work.fingerprint /\ work'.pc = "copy"
    BY Zenon, <1>1, <1>2, Proceeds
  <2>2. work'.pc \notin Closing /\ work'.pc # "rename"
    BY <2>1 DEF Closing
  <2>3. ASSUME Unchanged' PROVE \A f \in unpacked : f.content = <<work'.fingerprint[2]>>
    BY Zenon, <1>7, <2>1, <2>3
  <2> QED BY Zenon, <1>2, <1>4, <1>6, <2>1, <2>2, <2>3 DEF FillingOK
<1> QED BY Zenon, <1>3, <1>4, <1>8, ToPlan DEF Preparing, Copying

\* The last check of the archive keeps it: what was extracted is of that version.
LEMMA ArchiveFinished ==
    ASSUME WorkerInv, Onward, Final
    PROVE  WorkerInv'
<1> DEFINE w == work.workspace
           e == [partial[w] EXCEPT !.quarantine = {}]
<1>1. /\ UNCHANGED source /\ completed' = completed /\ work.pc = "copy" /\ work.op # "directory"
      /\ work.todo = {}
  BY DEF Final
<1>2. /\ Shape /\ PlanOK /\ DiskOK /\ FillingOK /\ w \in Workspaces
  BY Zenon, <1>1 DEF WorkerInv, Copying, Shape
<1>3. CASE GiveUp
  BY Zenon, <1>1, <1>2, <1>3, GivingUp
<1>4. CASE ~GiveUp
  <2>1. /\ Verify(work.fd, work.expected) /\ Proceed("manifest")
        /\ partial' = [partial EXCEPT ![w] = e]
    BY Zenon, <1>4 DEF Final
  <2>2. Shape' /\ work'.pc = "manifest"
    BY Zenon, <1>1, <1>2, <2>1, ProceedsInShape, Proceeds DEF Closing
  <2>3. DiskOK' /\ partial'[w] = e
    BY Zenon, <1>1, <1>2, <2>1, PartialChanges, DiskStays
  <2>4. Folder(e) /\ e.files = work.artifacts /\ e.quarantine = {}
    <3>1. Folder(partial[w]) /\ partial[w].files = work.artifacts
      BY Zenon, <1>2 DEF FillingOK
    <3>2. e = [partial[w] EXCEPT !.quarantine = {}]
      BY Zenon
    <3> HIDE DEF e
    <3> QED BY SMTT(30), <3>1, <3>2, QuarantineChanges
  <2> HIDE DEF e
  <2>5. /\ work'.workspace = w /\ work'.op = work.op /\ work'.artifacts = work.artifacts
        /\ work'.fingerprint = work.fingerprint
    BY Zenon, <1>2, <2>1, Proceeds
  <2>6. FillingOK'
    <3>1. work'.pc # "copy" /\ work'.pc # "rename"
      BY Zenon, <2>2
    <3> QED BY Zenon, <2>3, <2>4, <2>5, <3>1 DEF FillingOK
  <2>7. work'.artifacts = Wanted(work'.op, work'.fingerprint)
    <3>1. Unchanged
      BY Zenon, <2>1, Verified DEF Unchanged
    <3>2. work.artifacts = MadeBut({}) /\ MadeBut({}) = Wanted(work.op, work.fingerprint)
      BY Zenon, <1>1, <1>2, <3>1 DEF PlanOK, FileIsOpen
    <3> QED BY Zenon, <2>5, <3>2
  <2> QED BY Zenon, <1>1, <2>2, <2>3, <2>5, <2>6, <2>7, ToClose DEF Closing
<1> QED BY <1>3, <1>4

-----------------------------------------------------------------------------
(* The manifest *)

\* Writing the manifest keeps the invariant: all it lists is in the workspace.
LEMMA ManifestWritten ==
    ASSUME WorkerInv, Onward, writeManifest
    PROVE  WorkerInv'
<1> DEFINE w == work.workspace
           m == {[op |-> work.op, fingerprint |-> work.fingerprint, artifacts |-> work.artifacts]}
           e == [partial[w] EXCEPT !.manifest = m]
<1>1. /\ UNCHANGED source /\ completed' = completed /\ work.pc = "manifest" /\ Proceed("rename")
      /\ partial' = [partial EXCEPT ![w] = e]
  BY DEF writeManifest
<1>2. /\ Shape /\ DiskOK /\ FillingOK /\ w \in Workspaces
      /\ work.artifacts = Wanted(work.op, work.fingerprint)
      /\ work.op = "directory" => AtOnce(work.fingerprint)
  BY Zenon, <1>1 DEF WorkerInv, Closing, Shape
<1>3. Shape' /\ work'.pc = "rename"
  BY Zenon, <1>1, <1>2, ProceedsInShape, Proceeds DEF Closing
<1>4. DiskOK' /\ partial'[w] = e
  BY Zenon, <1>1, <1>2, PartialChanges, DiskStays
<1>5. Folder(e) /\ e.files = work.artifacts /\ e.quarantine = {} /\ e.manifest = m
  <2>1. Folder(partial[w]) /\ partial[w].files = work.artifacts /\ partial[w].quarantine = {}
    BY Zenon, <1>1, <1>2 DEF FillingOK, Closing
  <2>2. e = [partial[w] EXCEPT !.manifest = m]
    BY Zenon
  <2> HIDE DEF m, e
  <2> QED BY SMTT(30), <2>1, <2>2, ManifestChanges
<1>6. /\ work'.workspace = w /\ work'.op = work.op /\ work'.artifacts = work.artifacts
      /\ work'.fingerprint = work.fingerprint
  BY Zenon, <1>1, <1>2, Proceeds
<1>7. FillingOK'
  <2>1. e.manifest = {[op |-> work'.op, fingerprint |-> work'.fingerprint,
                       artifacts |-> work'.artifacts]}
    BY Zenon, <1>5, <1>6
  <2>2. work'.pc # "copy"
    BY Zenon, <1>3
  <2> HIDE DEF e, m
  <2> QED BY Zenon, <1>4, <1>5, <1>6, <2>1, <2>2 DEF FillingOK
<1>8. work'.op = "directory" => AtOnce(work.fingerprint)'
  <2>1. ASSUME NEW f, AtOnce(f), f = work'.fingerprint PROVE AtOnce(work.fingerprint)'
    BY Zenon, <2>1, AtOnceStays
  <2> QED BY Zenon, <1>2, <1>6, <2>1
<1> QED BY Zenon, <1>2, <1>3, <1>4, <1>6, <1>7, <1>8, ToClose DEF Closing

\* The rename of the partial workspace keeps the invariant.
LEMMA WorkspaceRenamed ==
    ASSUME WorkerInv, Onward, Rename
    PROVE  WorkerInv'
<1> DEFINE w == work.workspace
           d == partial[w]
           m == [op |-> work.op, fingerprint |-> work.fingerprint, artifacts |-> work.artifacts]
<1>1. UNCHANGED source /\ work.pc = "rename"
  BY DEF Rename
<1>2. /\ Shape /\ DiskOK /\ FillingOK /\ w \in Workspaces
      /\ work.artifacts = Wanted(work.op, work.fingerprint)
      /\ work.op = "directory" => AtOnce(work.fingerprint)
  BY Zenon, <1>1 DEF WorkerInv, Closing, Shape
<1>3. CASE GiveUp /\ UNCHANGED completed
  BY Zenon, <1>1, <1>2, <1>3, GivingUp
<1>4. CASE ~(GiveUp /\ UNCHANGED completed)
  <2>1. /\ completed' = [completed EXCEPT ![w] = d]
        /\ partial' = [partial EXCEPT ![w] = NoDirectory]
        /\ \E n \in d.manifest : Answer(Success(n))
    BY Zenon, <1>4 DEF Rename
  <2>2. Folder(d) /\ d.files = work.artifacts /\ d.quarantine = {} /\ d.manifest = {m}
    BY Zenon, <1>1, <1>2 DEF FillingOK, Closing
  <2>3. /\ m.op = work.op /\ m.fingerprint = work.fingerprint /\ m.artifacts = work.artifacts
    OBVIOUS
  <2> HIDE DEF d, m
  <2>4. TrueManifest(m)
    BY Zenon, <1>2, <2>3 DEF TrueManifest
  <2>5. Finished(d)
    BY Zenon, <2>2, <2>3, <2>4 DEF Finished
  <2>6. DiskOK'
    BY Zenon, <1>2, <2>1, <2>5, PartialChanges, WorkspaceReplaced
  <2>7. PICK n \in d.manifest : Answer(Success(n))
    BY Zenon, <2>1
  <2>8. TrueManifest(n)'
    BY Zenon, <2>2, <2>4, <2>7, TruthStays
  <2> QED BY Zenon, <2>6, <2>7, <2>8, Succeeds
<1> QED BY <1>3, <1>4
-----------------------------------------------------------------------------
(* Artifacts *)

\* What the next artifact adds to what has been made
Adds(i, artifact) == MadeBut(work.todo \ {i}) = MadeBut(work.todo) \cup {artifact}

\* Writing one artifact keeps the invariant if it adds what the manifest wants.
LEMMA ArtifactWritten ==
    ASSUME WorkerInv, Onward, UNCHANGED source, completed' = completed,
           NEW i \in work.todo, NEW name, NEW content, WriteArtifact(i, name, content),
           work.pc = (IF work.op = "directory" THEN "copying" ELSE "copy"),
           Unchanged => Adds(i, [name |-> name, content |-> content])
    PROVE  WorkerInv'
<1> DEFINE w == work.workspace
           artifact == [name |-> name, content |-> content]
           e == [partial[w] EXCEPT !.files = @ \cup {artifact}]
           step == IF work.op # "directory" THEN "copy"
                   ELSE IF work.plan.tracks = 0 \/ work.todo = {i} THEN "verify" ELSE "copying"
<1>1. /\ Shape /\ PlanOK /\ DiskOK /\ FillingOK /\ w \in Workspaces /\ ~Answered
      /\ work.pc \in {"copy", "copying"}
      /\ work.op = "directory" => work.pc = "copying"
      /\ work.op # "directory" => work.pc = "copy"
  <2>1. /\ work.pc \in {"copy", "copying"}
        /\ work.op = "directory" => work.pc = "copying"
        /\ work.op # "directory" => work.pc = "copy"
    BY Zenon
  <2> QED BY Zenon, <2>1 DEF WorkerInv, Copying, Shape
<1>2. CASE GiveUp
  BY Zenon, <1>1, <1>2, GivingUp
<1>3. CASE ~GiveUp
  <2>1. /\ partial' = [partial EXCEPT ![w] = e]
        /\ work' = [work EXCEPT !.artifacts = @ \cup {artifact}, !.todo = @ \ {i}, !.pc = step]
    BY Zenon, <1>3 DEF WriteArtifact
  <2>2. /\ step \in {"copy", "verify", "copying"}
        /\ step = "copy" <=> work.op # "directory"
        /\ step = "verify" => work.plan.tracks = 0 \/ work.todo = {i}
        /\ step = "copying" => work.plan.tracks # 0
    BY Zenon
  <2>3. Folder(e) /\ e.files = work.artifacts \cup {artifact} /\ e.quarantine = partial[w].quarantine
    <3>1. Folder(partial[w]) /\ partial[w].files = work.artifacts
      BY Zenon, <1>1 DEF FillingOK
    <3>2. e = [partial[w] EXCEPT !.files = partial[w].files \cup {artifact}]
      BY Zenon
    <3> HIDE DEF e, artifact, w
    <3> QED BY SMTT(30), <3>1, <3>2, FilesChange
  <2> HIDE DEF artifact, e, step
  <2>4. DiskOK' /\ partial'[w] = e
    BY Zenon, <1>1, <2>1, PartialChanges, DiskStays
  <2>5. work' = [pc |-> step, op |-> work.op, workspace |-> work.workspace,
                 expected |-> work.expected, next |-> work.next, scanned |-> work.scanned,
                 first |-> work.first, fingerprint |-> work.fingerprint, plan |-> work.plan,
                 todo |-> work.todo \ {i}, fd |-> work.fd, artifacts |-> work.artifacts \cup {artifact},
                 answer |-> work.answer]
    BY <1>1, <2>1 DEF Shape
  <2>6. /\ work'.pc = step /\ work'.op = work.op /\ work'.workspace = w
        /\ work'.expected = work.expected /\ work'.scanned = work.scanned
        /\ work'.first = work.first /\ work'.fingerprint = work.fingerprint
        /\ work'.plan = work.plan /\ work'.todo = work.todo \ {i} /\ work'.fd = work.fd
        /\ work'.artifacts = work.artifacts \cup {artifact} /\ work'.answer = work.answer
        /\ work'.next = work.next
    BY <2>5
  <2>7. Shape'
    <3>1. ~Answered' /\ step \in Copying /\ step \notin {"open", "found", "extract"}
      BY Zenon, <1>1, <2>2, <2>6 DEF Answered, Copying
    <3> QED BY Zenon, <1>1, <2>2, <2>5, <2>6, <3>1 DEF Shape
  <2>8. PlanOK'
    <3>1. FileIsOpen' /\ FileIsOpen
      BY Zenon, <1>1, <2>2, <2>6 DEF FileIsOpen
    <3>2. MadeBut({})' = MadeBut({}) /\ MadeBut(work.todo)' = MadeBut(work.todo \ {i})
      BY Zenon, <2>6 DEF MadeBut
    <3>3. Unchanged' = Unchanged /\ Used' = Used /\ Written' = Written
      BY Zenon, <2>6, QuietStep DEF Unchanged
    <3>4. Unchanged' => work'.artifacts = MadeBut(work.todo)'
      BY Zenon, <1>1, <2>6, <3>1, <3>2, <3>3 DEF PlanOK, Adds, artifact
    <3>5. work.op = "directory" => ScanOK(work.scanned, Len(Names) + 1)'
      <4>1. work.op = "directory" => ScanOK(work.scanned, Len(Names) + 1)
        BY Zenon, <1>1 DEF PlanOK
      <4>2. ASSUME NEW t, ScanOK(t, Len(Names) + 1), work'.scanned = t
            PROVE  ScanOK(work.scanned, Len(Names) + 1)'
        BY Zenon, <4>2, ScanStays
      <4> QED BY Zenon, <2>6, <4>1, <4>2
    <3>6. work'.pc = "copying" => \E f \in NextInput' : work'.expected[3] = f.file.version
      <4> SUFFICES ASSUME work'.pc = "copying"
                   PROVE  \E f \in NextInput' : work'.expected[3] = f.file.version
        OBVIOUS
      <4>1. work.pc = "copying" /\ work.plan.tracks # 0 /\ work.plan.tracks \in Nat
        BY Zenon, <1>1, <2>2, <2>6 DEF PlanOK
      <4>2. work.plan.tracks > 0
        BY <4>1
      <4>3. PICK f \in NextInput : work.expected[3] = f.file.version
        BY Zenon, <1>1, <4>1 DEF PlanOK
      <4>4. f \in NextInput'
        BY Zenon, <2>6, <4>2, <4>3 DEF NextInput, Of
      <4> QED BY Zenon, <2>6, <4>3, <4>4
    <3>7. work'.pc = "verify" /\ work'.plan.tracks # 0 => work'.todo = {}
      BY Zenon, <2>2, <2>6
    <3>8. work'.pc \notin Preparing \cup {"extract"}
      BY Zenon, <2>2, <2>6 DEF Preparing
    <3>9. /\ work.op # "directory" => work'.todo \subseteq DOMAIN Members
          /\ work.op = "directory" /\ work.plan.tracks = 0 =>
               \A j \in work'.todo : j \in DOMAIN Names /\ \E f \in Of(work.scanned, Audio) : f.name = Names[j]
          /\ work.op = "directory" /\ work.plan.tracks # 0 => work'.todo \subseteq 1..work.plan.tracks
      BY Zenon, <1>1, <2>6 DEF PlanOK
    <3> QED BY ZenonT(60), <1>1, <2>6, <3>1, <3>2, <3>3, <3>4, <3>5, <3>6, <3>7, <3>8, <3>9
         DEF PlanOK, Of
  <2>9. FillingOK'
    <3>1. work'.pc # "rename" /\ work'.pc \notin Closing /\ work.pc \notin Closing
      BY Zenon, <1>1, <2>2, <2>6 DEF Closing
    <3>2. Unchanged' = Unchanged
      BY Zenon, <2>6, QuietStep DEF Unchanged
    <3> QED BY Zenon, <1>1, <2>2, <2>3, <2>4, <2>6, <3>1, <3>2 DEF FillingOK
  <2> QED BY Zenon, <2>2, <2>4, <2>6, <2>7, <2>8, <2>9, ToPlan DEF Preparing, Copying
<1> QED BY <1>2, <1>3
\* The archive's next member, whatever it is copied from
LEMMA MemberAdded ==
    ASSUME NEW op, op # "directory", NEW fingerprint, NEW scan, NEW plan,
           NEW todo, NEW i \in todo, todo \subseteq DOMAIN Members
    PROVE  Made(op, fingerprint, scan, plan, todo \ {i})
             = Made(op, fingerprint, scan, plan, todo)
                 \cup {[name |-> Members[i], content |-> <<fingerprint[2]>>]}
<1>1. DOMAIN Members \ (todo \ {i}) = (DOMAIN Members \ todo) \cup {i}
  BY Zenon
<1> DEFINE F(j) == [name |-> Members[j], content |-> <<fingerprint[2]>>]
           D == DOMAIN Members \ todo
<1>2. {F(j) : j \in D \cup {i}} = {F(j) : j \in D} \cup {F(i)}
  <2> HIDE DEF F, D
  <2> QED BY Zenon
<1>3. {F(j) : j \in DOMAIN Members \ (todo \ {i})} = {F(j) : j \in D} \cup {F(i)}
  BY Zenon, <1>1, <1>2
<1> QED BY <1>3 DEF Made

\* Taking a member of an archive out of the quarantine keeps the invariant.
LEMMA MemberCopied ==
    ASSUME WorkerInv, Onward, extractAndProbe \/ collectExtractedMedia
    PROVE  WorkerInv'
<1>0. PICK i \in NextItem :
        \/ work.op = "tar" /\ WriteArtifact(i, Members[i], <<contents[work.fd]>>)
        \/ /\ work.op = "rar"
           /\ \E f \in partial[work.workspace].quarantine : WriteArtifact(i, Members[i], f.content)
  BY Zenon DEF extractAndProbe, collectExtractedMedia
<1>1. PICK content :
        /\ WriteArtifact(i, Members[i], content)
        /\ \/ work.op = "tar" /\ content = <<contents[work.fd]>>
           \/ /\ work.op = "rar"
              /\ \E f \in partial[work.workspace].quarantine : content = f.content
  BY Zenon, <1>0
<1>2. UNCHANGED source /\ completed' = completed /\ work.pc = "copy"
  BY DEF extractAndProbe, collectExtractedMedia
<1>3. i \in work.todo /\ work.op # "directory"
  BY Zenon, <1>1 DEF NextItem
<1>4. PlanOK /\ FillingOK
  BY Zenon, <1>2 DEF WorkerInv, Copying
<1>5. /\ work.fingerprint[2] = work.expected[3] /\ work.todo \subseteq DOMAIN Members
  BY Zenon, <1>3, <1>4 DEF PlanOK
<1>6. ASSUME Unchanged
      PROVE  Adds(i, [name |-> Members[i], content |-> content])
  <2>1. content = <<work.fingerprint[2]>>
    <3>1. CASE work.op = "tar" /\ content = <<contents[work.fd]>>
      BY Zenon, <1>5, <1>6, <3>1 DEF Unchanged
    <3>2. CASE work.op = "rar" /\ \E f \in partial[work.workspace].quarantine : content = f.content
      BY Zenon, <1>2, <1>4, <1>6, <3>2 DEF FillingOK
    <3> QED BY Zenon, <1>1, <3>1, <3>2
  <2>2. Adds(i, [name |-> Members[i], content |-> <<work.fingerprint[2]>>])
    BY SMTT(30), <1>3, <1>5, MemberAdded DEF Adds, MadeBut
  <2> QED BY Zenon, <2>1, <2>2
<1> QED BY Zenon, <1>1, <1>2, <1>3, <1>6, ArtifactWritten

\* The first of what is to be copied is one.
LEMMA OneNextItem ==
    ASSUME work.todo \subseteq Nat, NEW i \in NextItem, NEW j \in NextItem
    PROVE  i = j
<1>1. i \in Nat /\ j \in Nat /\ i <= j /\ j <= i
  BY DEF NextItem
<1> QED BY <1>1

\* A directory has no two entries of a name.
Sole(scan, e) == \A d \in scan : d.name = e.name => d = e

\* The copy of a file is the artifact its manifest wants of it.
LEMMA FileAdded ==
    ASSUME work.op = "directory", work.plan.tracks = 0, NEW i \in work.todo, i \in DOMAIN Names,
           NEW e \in Of(work.scanned, Audio), e.name = Names[i], Sole(work.scanned, e)
    PROVE  Adds(i, [name |-> Names[i], content |-> <<e.file.version>>])
<1> DEFINE S(t) == {d \in Of(work.scanned, Audio) : \E j \in DOMAIN Names \ t : d.name = Names[j]}
           F(d) == [name |-> d.name, content |-> <<d.file.version>>]
           T == S(work.todo)
<1>1. S(work.todo \ {i}) = T \cup {e}
  BY Zenon DEF Of, Sole
<1>2. {F(d) : d \in T \cup {e}} = {F(d) : d \in T} \cup {F(e)}
  <2> HIDE DEF F, T
  <2> QED BY Zenon
<1>3. {F(d) : d \in S(work.todo \ {i})} = {F(d) : d \in T} \cup {F(e)}
  <2> HIDE DEF F, S
  <2> QED BY Zenon, <1>1, <1>2
<1> QED BY <1>3 DEF Made, MadeBut, Adds

\* Copying a file of the directory keeps the invariant.
LEMMA FileCopied ==
    ASSUME WorkerInv, Onward, copyDirectoryFile
    PROVE  WorkerInv'
<1>1. /\ UNCHANGED source /\ completed' = completed /\ work.pc = "copying" /\ work.plan.tracks = 0
      /\ \E i \in NextItem : WriteArtifact(i, Names[i], <<contents[work.fd]>>)
  BY DEF copyDirectoryFile
<1>2. PICK i \in NextItem : WriteArtifact(i, Names[i], <<contents[work.fd]>>)
  BY Zenon, <1>1
<1>3. i \in work.todo /\ work.op = "directory" /\ PlanOK
  BY Zenon, <1>1 DEF WorkerInv, NextItem, Shape, Copying
<1>4. PICK e \in NextInput : work.expected[3] = e.file.version
  BY Zenon, <1>1, <1>3 DEF PlanOK
<1>5. work.todo \subseteq DOMAIN Names /\ work.todo \subseteq Nat
  <2>1. work.todo \subseteq DOMAIN Names
    BY Zenon, <1>1, <1>3 DEF PlanOK
  <2>2. DOMAIN Names \subseteq Nat
    BY Lengths
  <2> QED BY Zenon, <2>1, <2>2
<1>6. e \in Of(work.scanned, Audio) /\ e.name = Names[i]
  <2>1. ~(work.plan.tracks > 0)
    BY <1>1
  <2> QED BY Zenon, <1>2, <1>4, <1>5, <2>1, OneNextItem DEF NextInput
<1>7. Sole(work.scanned, e)
  BY Zenon, <1>3, <1>6 DEF PlanOK, ScanOK, Of, Sole
<1>8. Unchanged => Adds(i, [name |-> Names[i], content |-> <<contents[work.fd]>>])
  <2>1. Adds(i, [name |-> Names[i], content |-> <<e.file.version>>])
    <3>1. work.plan.tracks = 0 /\ work.op = "directory" /\ i \in work.todo /\ i \in DOMAIN Names
      BY Zenon, <1>1, <1>3, <1>5
    <3> QED BY Zenon, <1>6, <1>7, <3>1, FileAdded
  <2> QED BY Zenon, <1>4, <2>1 DEF Unchanged
<1> QED BY Zenon, <1>1, <1>2, <1>3, <1>8, ArtifactWritten

\* A track split off is the artifact the manifest wants of it.
LEMMA TrackAdded ==
    ASSUME NEW op, op = "directory", NEW fingerprint, NEW scan, NEW plan, plan.tracks # 0, NEW todo, NEW i \in todo,
           i \in 1..plan.tracks, NEW e, Of(scan, Audio) = {e}
    PROVE  Made(op, fingerprint, scan, plan, todo \ {i})
             = Made(op, fingerprint, scan, plan, todo)
                 \cup {[name |-> Track[i], content |-> <<e.file.version, plan.sheet>>]}
<1> DEFINE F(j, d) == [name |-> Track[j], content |-> <<d.file.version, plan.sheet>>]
           A == Of(scan, Audio)
           D == 1..plan.tracks
<1>1. {F(j, d) : j \in D \ (todo \ {i}), d \in A} = {F(j, d) : j \in D \ todo, d \in A} \cup {F(i, e)}
  <2> HIDE DEF F
  <2>1. A = {e} /\ i \in D
    OBVIOUS
  <2> HIDE DEF A, D
  <2> QED BY <2>1
<1> QED BY <1>1 DEF Made

\* Splitting off a track keeps the invariant.
LEMMA TrackSplit ==
    ASSUME WorkerInv, Onward, Split
    PROVE  WorkerInv'
<1>1. /\ UNCHANGED source /\ completed' = completed /\ work.pc = "copying"
      /\ work.plan.tracks > 0
      /\ \E i \in NextItem : WriteArtifact(i, Track[i], <<contents[work.fd], work.plan.sheet>>)
  BY DEF Split
<1>2. PICK i \in NextItem : WriteArtifact(i, Track[i], <<contents[work.fd], work.plan.sheet>>)
  BY Zenon, <1>1
<1>3. i \in work.todo /\ work.op = "directory" /\ PlanOK
  BY Zenon, <1>1 DEF WorkerInv, NextItem, Shape, Copying
<1>4. PICK e \in NextInput : work.expected[3] = e.file.version
  BY Zenon, <1>1, <1>3 DEF PlanOK
<1>5. work.plan.tracks # 0
  <2>1. work.plan.tracks \in Nat
    BY Zenon, <1>3 DEF PlanOK
  <2> QED BY <1>1, <2>1
<1>6. i \in 1..work.plan.tracks /\ Of(work.scanned, Audio) = {e}
  BY Zenon, <1>3, <1>4, <1>5 DEF PlanOK, NextInput
<1>7. Unchanged => Adds(i, [name |-> Track[i], content |-> <<contents[work.fd], work.plan.sheet>>])
  <2>1. Adds(i, [name |-> Track[i], content |-> <<e.file.version, work.plan.sheet>>])
    BY SMTT(30), <1>3, <1>5, <1>6, TrackAdded DEF Adds, MadeBut
  <2> QED BY Zenon, <1>4, <2>1 DEF Unchanged
<1> QED BY Zenon, <1>1, <1>2, <1>3, <1>7, ArtifactWritten
\* Opening the next file keeps the invariant.
LEMMA FileOpened ==
    ASSUME WorkerInv, Onward, OpenFile
    PROVE  WorkerInv'
<1>1. /\ UNCHANGED source /\ completed' = completed /\ work.pc = "copy" /\ work.op = "directory"
  BY DEF OpenFile
<1>2. /\ Shape /\ PlanOK /\ DiskOK /\ FillingOK /\ ~Answered
  BY Zenon, <1>1 DEF WorkerInv, Copying, Shape
<1>3. CASE GiveUp
  BY Zenon, <1>1, <1>2, <1>3, GivingUp
<1>4. CASE ~GiveUp
  <2>1. PICK e \in NextInput :
          /\ Opens(e.name, StrictFingerprint(e.file)) /\ partial' = partial
          /\ work' = [work EXCEPT !.pc = "copying", !.fd = at[e.name],
                                  !.expected = StrictFingerprint(e.file)]
    BY Zenon, <1>4 DEF OpenFile
  <2> DEFINE i == at[e.name]
             x == StrictFingerprint(e.file)
  <2>2. i = e.file.inode /\ x[3] = e.file.version
    BY <2>1 DEF Opens, StrictFingerprint, Snapshot
  <2> HIDE DEF i, x
  <2>3. work' = [pc |-> "copying", op |-> work.op, workspace |-> work.workspace,
                 expected |-> x, next |-> work.next, scanned |-> work.scanned,
                 first |-> work.first, fingerprint |-> work.fingerprint, plan |-> work.plan,
                 todo |-> work.todo, fd |-> i, artifacts |-> work.artifacts,
                 answer |-> work.answer]
    BY <1>2, <2>1 DEF Shape, i, x
  <2>4. /\ work'.pc = "copying" /\ work'.op = work.op /\ work'.workspace = work.workspace
        /\ work'.expected = x /\ work'.scanned = work.scanned
        /\ work'.first = work.first /\ work'.fingerprint = work.fingerprint
        /\ work'.plan = work.plan /\ work'.todo = work.todo /\ work'.fd = i
        /\ work'.artifacts = work.artifacts /\ work'.answer = work.answer
        /\ work'.next = work.next
    BY <2>3
  <2>5. Shape'
    <3>1. ~Answered' /\ "copying" \in Copying
      BY Zenon, <1>2, <2>4 DEF Answered, Copying
    <3> QED BY Zenon, <1>1, <1>2, <2>3, <2>4, <3>1 DEF Shape
  <2>6. DiskOK'
    BY Zenon, <1>1, <1>2, <2>1, DiskStays DEF DiskOK
  <2>7. EntryOK(e)
    BY Zenon, <1>1, <1>2, <2>1 DEF PlanOK, ScanOK, NextInput, Of
  <2>8. PlanOK'
    <3>1. FileIsOpen' /\ ~FileIsOpen
      BY Zenon, <1>1, <2>4 DEF FileIsOpen
    <3>2. MadeBut({})' = MadeBut({}) /\ MadeBut(work.todo)' = MadeBut(work.todo)
      BY Zenon, <2>4 DEF MadeBut
    <3>3. work'.fd \in Used' /\ work'.expected[3] \in Written'
      BY Zenon, <1>1, <2>2, <2>4, <2>7, QuietStep DEF EntryOK
    <3>4. work'.artifacts = MadeBut(work.todo)'
      BY Zenon, <1>2, <2>4, <3>1, <3>2 DEF PlanOK
    <3>5. ScanOK(work.scanned, Len(Names) + 1)'
      <4>1. ScanOK(work.scanned, Len(Names) + 1)
        BY Zenon, <1>1, <1>2 DEF PlanOK
      <4>2. ASSUME NEW t, ScanOK(t, Len(Names) + 1), work'.scanned = t
            PROVE  ScanOK(work.scanned, Len(Names) + 1)'
        BY Zenon, <4>2, ScanStays
      <4> QED BY Zenon, <2>4, <4>1, <4>2
    <3>6. \E f \in NextInput' : work'.expected[3] = f.file.version
      <4>1. e \in NextInput'
        BY Zenon, <2>1, <2>4 DEF NextInput, NextItem, Of
      <4> QED BY Zenon, <2>2, <2>4, <4>1
    <3>7. work'.pc # "verify" /\ work'.pc \notin Preparing \cup {"extract"}
      BY Zenon, <2>4 DEF Preparing
    <3> QED BY Zenon, <1>1, <1>2, <2>4, <3>1, <3>2, <3>3, <3>4, <3>5, <3>6, <3>7 DEF PlanOK, Of
  <2>9. FillingOK'
    <3>1. work'.pc # "rename" /\ work'.pc # "copy"
      BY Zenon, <2>4
    <3> QED BY Zenon, <1>1, <1>2, <2>1, <2>4, <3>1 DEF FillingOK
  <2> QED BY Zenon, <2>4, <2>5, <2>6, <2>8, <2>9, ToPlan DEF Preparing, Copying
<1> QED BY <1>3, <1>4

\* Verifying the file that was read keeps it: it still has the version scanned.
LEMMA FileVerified ==
    ASSUME WorkerInv, Onward, VerifyFile
    PROVE  WorkerInv'
<1>1. /\ UNCHANGED source /\ completed' = completed /\ work.pc = "verify"
  BY DEF VerifyFile
<1>2. /\ Shape /\ PlanOK /\ DiskOK /\ FillingOK /\ ~Answered /\ work.op = "directory"
  BY Zenon, <1>1 DEF WorkerInv, Copying, Shape
<1>3. CASE GiveUp
  BY Zenon, <1>1, <1>2, <1>3, GivingUp
<1>4. CASE ~GiveUp
  <2>1. /\ Verify(work.fd, work.expected) /\ partial' = partial
        /\ work' = [work EXCEPT !.pc = "copy", !.fd = 0, !.expected = <<>>]
    BY Zenon, <1>4 DEF VerifyFile
  <2>2. work' = [pc |-> "copy", op |-> work.op, workspace |-> work.workspace,
                 expected |-> <<>>, next |-> work.next, scanned |-> work.scanned,
                 first |-> work.first, fingerprint |-> work.fingerprint, plan |-> work.plan,
                 todo |-> work.todo, fd |-> 0, artifacts |-> work.artifacts,
                 answer |-> work.answer]
    BY <1>2, <2>1 DEF Shape
  <2>3. /\ work'.pc = "copy" /\ work'.op = work.op /\ work'.workspace = work.workspace
        /\ work'.scanned = work.scanned /\ work'.expected = <<>>
        /\ work'.first = work.first /\ work'.fingerprint = work.fingerprint
        /\ work'.plan = work.plan /\ work'.todo = work.todo /\ work'.fd = 0
        /\ work'.artifacts = work.artifacts /\ work'.answer = work.answer
        /\ work'.next = work.next
    BY <2>2
  <2>4. Shape'
    <3>1. ~Answered' /\ "copy" \in Copying
      BY Zenon, <1>2, <2>3 DEF Answered, Copying
    <3> QED BY Zenon, <1>1, <1>2, <2>2, <2>3, <3>1 DEF Shape
  <2>5. DiskOK'
    BY Zenon, <1>1, <1>2, <2>1, DiskStays DEF DiskOK
  <2>6. PlanOK'
    <3>1. ~FileIsOpen' /\ FileIsOpen /\ Unchanged
      BY Zenon, <1>1, <1>2, <2>1, <2>3, Verified DEF FileIsOpen, Unchanged
    <3>2. MadeBut({})' = MadeBut({}) /\ MadeBut(work.todo)' = MadeBut(work.todo)
      BY Zenon, <2>3 DEF MadeBut
    <3>3. work'.artifacts = MadeBut(work.todo)'
      BY Zenon, <1>2, <2>3, <3>1, <3>2 DEF PlanOK
    <3>4. ScanOK(work.scanned, Len(Names) + 1)'
      <4>1. ScanOK(work.scanned, Len(Names) + 1)
        BY Zenon, <1>2 DEF PlanOK
      <4>2. ASSUME NEW t, ScanOK(t, Len(Names) + 1), work'.scanned = t
            PROVE  ScanOK(work.scanned, Len(Names) + 1)'
        BY Zenon, <4>2, ScanStays
      <4> QED BY Zenon, <2>3, <4>1, <4>2
    <3>5. work'.pc # "copying" /\ work'.pc # "verify" /\ work'.pc \notin Preparing \cup {"extract"}
      BY Zenon, <2>3 DEF Preparing
    <3> QED BY Zenon, <1>2, <2>3, <3>1, <3>2, <3>3, <3>4, <3>5 DEF PlanOK, Of
  <2>7. FillingOK'
    <3>1. work'.pc # "rename" /\ work'.op # "rar"
      BY Zenon, <1>2, <2>3
    <3> QED BY Zenon, <1>2, <2>1, <2>3, <3>1 DEF FillingOK
  <2> QED BY Zenon, <2>3, <2>4, <2>5, <2>6, <2>7, ToPlan DEF Preparing, Copying
<1> QED BY <1>3, <1>4
-----------------------------------------------------------------------------
(* What a scan says of the artifacts *)

FileOf(e) == <<e.name, StableFingerprint(e.file)>>

\* What the fingerprint says of an entry.
LEMMA FileFields ==
    ASSUME NEW e
    PROVE  /\ FileOf(e)[1] = e.name /\ FileOf(e)[2][1] = e.file.inode
           /\ FileOf(e)[2][2] = e.file.version
  BY DEF FileOf, StableFingerprint

\* The fingerprint is that of the entries.
LEMMA Fingerprints ==
    ASSUME NEW scan
    PROVE  \A f : f \in directoryFingerprint(scan) <=> \E e \in scan : f = FileOf(e)
  BY Zenon DEF directoryFingerprint, FileOf

\* A whole scan: every entry is audio or a sheet, of a name of the directory.
WholeScan(scan) ==
    /\ \A e \in scan : /\ e.name \in Audio \cup Cue /\ e.file.version \in FileVersions
                       /\ \E i \in DOMAIN Names : e.name = Names[i]
    /\ \A e, d \in scan : e.name = d.name => e = d

\* A scan has at most one entry for a name.
LEMMA ScanIsWhole ==
    ASSUME SourceOK, NEW scan, NEW next, ScanOK(scan, next)
    PROVE  WholeScan(scan)
  BY Zenon, Lengths, UsedInodes DEF WholeScan, ScanOK, EntryOK

\* The sheets of a scan and of its fingerprint are the same.
SheetsOf(fingerprint) ==
    {f \in fingerprint : f[1] \in Cue \/ (f[1] \in Wv /\ fingerprint = {f})}
ValidOf(fingerprint) == {f \in SheetsOf(fingerprint) : CueTracks(f[2][2]) > 0}

\* The valid cue sheets of a scan are those its fingerprint speaks of.
LEMMA SameSheets ==
    ASSUME NEW scan, WholeScan(scan), Of(scan, Audio) # {}
    PROVE  \A f : f \in ValidOf(directoryFingerprint(scan)) <=> \E e \in ValidSheets(scan) : f = FileOf(e)
<1> DEFINE fp == directoryFingerprint(scan)
<1>1. \A f : f \in fp <=> \E e \in scan : f = FileOf(e)
  BY Zenon, Fingerprints
<1>2. \A e \in scan : FileOf(e)[1] = e.name /\ FileOf(e)[2][2] = e.file.version
  BY Zenon, FileFields
<1>3. \A e, d \in scan : FileOf(e) = FileOf(d) => e = d
  <2> SUFFICES ASSUME NEW e \in scan, NEW d \in scan, FileOf(e) = FileOf(d) PROVE e = d
    BY Zenon
  <2>1. FileOf(e)[1] = FileOf(d)[1]
    BY Zenon
  <2>2. e.name = d.name
    BY Zenon, <1>2, <2>1
  <2> QED BY Zenon, <2>2 DEF WholeScan
<1>4. Audio \cap Cue = {} /\ Wv \subseteq Audio
  BY WorkerAssumption
<1> HIDE DEF fp
<1>5. CASE Of(scan, Cue) # {}
  <2>1. \A f \in fp : f[1] \in Wv => fp # {f}
    <3> SUFFICES ASSUME NEW f \in fp, f[1] \in Wv, fp = {f} PROVE FALSE
      BY Zenon
    <3>1. PICK d \in scan : d.name \in Cue
      BY Zenon, <1>5 DEF Of
    <3>2. FileOf(d) = f
      BY Zenon, <1>1, <3>1
    <3> QED BY Zenon, <1>2, <1>4, <3>1, <3>2
  <2>2. \A e \in scan : FileOf(e) \in ValidOf(fp) <=> e \in ValidSheets(scan)
    <3> SUFFICES ASSUME NEW e \in scan PROVE FileOf(e) \in ValidOf(fp) <=> e \in ValidSheets(scan)
      BY Zenon
    <3>1. e \in ValidSheets(scan) <=> e.name \in Cue /\ CueTracks(e.file.version) > 0
      BY Zenon, <1>5 DEF ValidSheets, OpenedSheets, Of, Inspect
    <3>2. FileOf(e) \in fp
      BY Zenon, <1>1
    <3>3. FileOf(e) \in SheetsOf(fp) <=> e.name \in Cue
      BY Zenon, <1>2, <2>1, <3>2 DEF SheetsOf
    <3> QED BY Zenon, <1>2, <3>1, <3>3 DEF ValidOf
  <2>3. ValidSheets(scan) \subseteq scan /\ ValidOf(fp) \subseteq fp
    BY Zenon, <1>5 DEF ValidSheets, OpenedSheets, Of, ValidOf, SheetsOf
  <2> QED BY Zenon, <1>1, <2>2, <2>3 DEF fp
<1>6. CASE Of(scan, Cue) = {}
  <2>1. \A e \in scan : e.name \in Audio /\ e.name \notin Cue
    BY Zenon, <1>4, <1>6 DEF WholeScan, Of
  <2>2. Of(scan, Audio) = scan
    BY Zenon, <2>1 DEF Of
  <2>3. \A e \in scan : fp = {FileOf(e)} <=> scan = {e}
    <3> SUFFICES ASSUME NEW e \in scan PROVE fp = {FileOf(e)} <=> scan = {e}
      BY Zenon
    <3>1. ASSUME fp = {FileOf(e)} PROVE scan = {e}
      BY Zenon, <1>1, <1>3, <3>1
    <3>2. ASSUME scan = {e} PROVE fp = {FileOf(e)}
      BY Zenon, <1>1, <3>2
    <3> QED BY Zenon, <3>1, <3>2
  <2>4. \A e \in scan : FileOf(e) \in ValidOf(fp) <=> e \in ValidSheets(scan)
    <3> SUFFICES ASSUME NEW e \in scan PROVE FileOf(e) \in ValidOf(fp) <=> e \in ValidSheets(scan)
      BY Zenon
    <3>1. e \in ValidSheets(scan) <=> scan = {e} /\ e.name \in Wv /\ CueTracks(e.file.version) > 0
      BY Zenon, <1>6, <2>2 DEF ValidSheets, OpenedSheets, readEmbeddedCuePlan, InspectEmbedded
    <3>2. FileOf(e) \in SheetsOf(fp) <=> scan = {e} /\ e.name \in Wv
      BY Zenon, <1>1, <1>2, <2>1, <2>3 DEF SheetsOf
    <3> QED BY Zenon, <1>2, <3>1, <3>2 DEF ValidOf
  <2>5. ValidSheets(scan) \subseteq scan /\ ValidOf(fp) \subseteq fp
    BY Zenon, <1>6, <2>2 DEF ValidSheets, OpenedSheets, readEmbeddedCuePlan, ValidOf, SheetsOf
  <2> QED BY Zenon, <1>1, <2>4, <2>5 DEF fp
<1> QED BY <1>5, <1>6
\* The audio files of a scan are those its fingerprint speaks of.
LEMMA SameAudio ==
    ASSUME NEW scan
    PROVE  \A f : f \in {h \in directoryFingerprint(scan) : h[1] \in Audio}
                    <=> \E e \in Of(scan, Audio) : f = FileOf(e)
<1> DEFINE fp == directoryFingerprint(scan)
<1>1. \A f : f \in fp <=> \E e \in scan : f = FileOf(e)
  BY Zenon, Fingerprints
<1>2. \A e \in scan : FileOf(e)[1] = e.name
  BY Zenon, FileFields
<1> HIDE DEF fp
<1>3. ASSUME NEW f, f \in {h \in fp : h[1] \in Audio}
      PROVE  \E e \in Of(scan, Audio) : f = FileOf(e)
  BY Zenon, <1>1, <1>2, <1>3 DEF Of
<1>4. ASSUME NEW e \in Of(scan, Audio)
      PROVE  FileOf(e) \in {h \in fp : h[1] \in Audio}
  BY Zenon, <1>1, <1>2 DEF Of
<1> QED BY Zenon, <1>3, <1>4 DEF fp

\* Without a sheet every file is an artifact.
LEMMA FilesWanted ==
    ASSUME NEW scan, WholeScan(scan), Of(scan, Audio) # {}, ValidSheets(scan) = {},
           NEW plan, plan.tracks = 0
    PROVE  Made("directory", directoryFingerprint(scan), scan, plan, {})
             = WantedAudio(directoryFingerprint(scan))
<1> DEFINE fp == directoryFingerprint(scan)
           A == {f \in fp : f[1] \in Audio}
           F(f) == [name |-> f[1], content |-> <<f[2][2]>>]
           G(e) == [name |-> e.name, content |-> <<e.file.version>>]
           S == {d \in Of(scan, Audio) : \E i \in DOMAIN Names \ {} : d.name = Names[i]}
<1>1. ValidOf(fp) = {}
  BY Zenon, SameSheets
<1>2. S = Of(scan, Audio)
  BY Zenon DEF WholeScan, Of
<1>3. \A f : f \in A <=> \E e \in Of(scan, Audio) : f = FileOf(e)
  BY Zenon, SameAudio
<1>4. \A e : F(FileOf(e)) = G(e)
  BY Zenon, FileFields
<1>5. {F(f) : f \in A} = {G(e) : e \in Of(scan, Audio)}
  <2> HIDE DEF A, F, G
  <2> QED BY ZenonT(60), <1>3, <1>4
<1>6. WantedAudio(fp) = {F(f) : f \in A}
  BY <1>1 DEF WantedAudio, ValidOf, SheetsOf
<1>7. Made("directory", fp, scan, plan, {}) = {G(e) : e \in S}
  BY DEF Made
<1> QED BY Zenon, <1>2, <1>5, <1>6, <1>7

\* With one, the tracks of the image are.
LEMMA TracksWanted ==
    ASSUME NEW scan, WholeScan(scan), NEW sheet, ValidSheets(scan) = {sheet},
           NEW image, Of(scan, Audio) = {image},
           NEW plan, plan.tracks = CueTracks(sheet.file.version), plan.tracks # 0,
           plan.sheet = sheet.file.version
    PROVE  Made("directory", directoryFingerprint(scan), scan, plan, {})
             = WantedAudio(directoryFingerprint(scan))
<1> DEFINE fp == directoryFingerprint(scan)
           f == FileOf(image)
           g == FileOf(sheet)
           T == {[name |-> Track[i], content |-> <<f[2][2], g[2][2]>>] : i \in 1..CueTracks(g[2][2])}
<1>1. ValidOf(fp) = {g}
  BY Zenon, SameSheets
<1>2. {h \in fp : h[1] \in Audio} = {f}
  BY Zenon, SameAudio
<1>3. f[2][2] = image.file.version /\ g[2][2] = sheet.file.version
  BY Zenon, FileFields
<1> HIDE DEF fp, f, g
<1>4. WantedAudio(fp) = T
  <2> DEFINE A == {h \in fp : h[1] \in Audio}
             V == ValidOf(fp)
             U(h, k) == {[name |-> Track[i], content |-> <<h[2][2], k[2][2]>>] :
                           i \in 1..CueTracks(k[2][2])}
  <2>1. V # {}
    BY Zenon, <1>1
  <2>2. WantedAudio(fp) = UNION {U(h, k) : h \in A, k \in V}
    BY <2>1 DEF WantedAudio, ValidOf, SheetsOf
  <2>3. A = {f} /\ V = {g} /\ U(f, g) = T
    BY <1>1, <1>2
  <2> HIDE DEF A, V, U, T
  <2>4. UNION {U(h, k) : h \in A, k \in V} = U(f, g)
    BY <2>3
  <2> QED BY <2>2, <2>3, <2>4
<1>5. Made("directory", fp, scan, plan, {}) = T
  <2>1. Made("directory", fp, scan, plan, {})
          = {[name |-> Track[i], content |-> <<e.file.version, plan.sheet>>] :
               i \in 1..plan.tracks \ {}, e \in {image}}
    BY DEF Made
  <2> QED BY SMTT(30), <1>3, <2>1
<1> QED BY Zenon, <1>4, <1>5 DEF fp
\* What readCuePlan plans for a scan is what the fingerprint asks for.
LEMMA PlanIsWanted ==
    ASSUME NEW scan, WholeScan(scan), Of(scan, Audio) # {}, NEW plan \in readCuePlan(scan)
    PROVE  /\ plan.tracks \in Nat
           /\ plan.tracks # 0 => \E e \in scan : Of(scan, Audio) = {e}
           /\ Made("directory", directoryFingerprint(scan), scan, plan, {})
                = WantedAudio(directoryFingerprint(scan))
<1> DEFINE sheets == ValidSheets(scan)
<1>1. CASE sheets = {}
  <2>1. plan = [tracks |-> 0, sheet |-> 0]
    BY Zenon, <1>1 DEF readCuePlan
  <2>2. plan.tracks = 0
    BY <2>1
  <2> QED BY <1>1, <2>2, FilesWanted
<1>2. CASE sheets # {}
  <2>1. PICK e \in sheets, image \in Of(scan, Audio) : sheets = {e} /\ Of(scan, Audio) = {image}
    BY Zenon, <1>2 DEF readCuePlan
  <2>2. plan = [tracks |-> CueTracks(e.file.version), sheet |-> e.file.version]
    BY Zenon, <1>2, <2>1 DEF readCuePlan, Inspect
  <2>3. plan.tracks = CueTracks(e.file.version) /\ plan.sheet = e.file.version
    BY <2>2
  <2>4. e \in scan /\ CueTracks(e.file.version) > 0
    BY Zenon, <2>1 DEF ValidSheets, OpenedSheets, readEmbeddedCuePlan, Of, Inspect, InspectEmbedded
  <2>5. e.file.version \in FileVersions
    BY Zenon, <2>4 DEF WholeScan
  <2>6. plan.tracks \in Nat /\ plan.tracks # 0
    <3>1. CueTracks(e.file.version) \in 0..Len(Track) /\ Len(Track) \in Nat
      BY <2>5, WorkerAssumption, LenProperties
    <3> QED BY <2>3, <2>4, <3>1
  <2>7. image \in scan
    BY Zenon, <2>1 DEF Of
  <2>8. Made("directory", directoryFingerprint(scan), scan, plan, {})
          = WantedAudio(directoryFingerprint(scan))
    BY Zenon, <2>1, <2>3, <2>6, TracksWanted
  <2> QED BY Zenon, <2>1, <2>6, <2>7, <2>8
<1> QED BY <1>1, <1>2

\* What a plan says is to be done, and nothing of it is made yet
Todo(scan, plan) ==
    IF plan.tracks = 0 THEN {i \in DOMAIN Names : \E e \in Of(scan, Audio) : e.name = Names[i]}
                       ELSE 1..plan.tracks

\* Before the first file is copied no artifact is made.
LEMMA NothingMade ==
    ASSUME NEW fingerprint, NEW scan, NEW plan
    PROVE  Made("directory", fingerprint, scan, plan, Todo(scan, plan)) = {}
<1>1. CASE plan.tracks = 0
  <2> DEFINE todo == {i \in DOMAIN Names : \E e \in Of(scan, Audio) : e.name = Names[i]}
             S == {d \in Of(scan, Audio) : \E i \in DOMAIN Names \ todo : d.name = Names[i]}
  <2>1. S = {}
    BY Zenon
  <2>2. Made("directory", fingerprint, scan, plan, Todo(scan, plan))
          = {[name |-> e.name, content |-> <<e.file.version>>] : e \in S}
    BY SMTT(30), <1>1 DEF Made, Todo
  <2> HIDE DEF S
  <2> QED BY <2>1, <2>2
<1>2. CASE plan.tracks # 0
  <2> DEFINE D == (1..plan.tracks) \ (1..plan.tracks)
  <2>1. D = {}
    BY Zenon
  <2>2. Made("directory", fingerprint, scan, plan, Todo(scan, plan))
          = {[name |-> Track[i], content |-> <<e.file.version, plan.sheet>>] :
               i \in D, e \in Of(scan, Audio)}
    BY SMTT(30), <1>2 DEF Made, Todo
  <2> HIDE DEF D
  <2> QED BY <2>1, <2>2
<1> QED BY <1>1, <1>2

\* The end of the first scan keeps the invariant.
LEMMA FirstScanDone ==
    ASSUME WorkerInv, Onward, Scanned
    PROVE  WorkerInv'
<1>1. /\ UNCHANGED source /\ completed' = completed /\ work.pc = "scan"
      /\ work.next > Len(Names) /\ work.first = {}
  BY DEF Scanned
<1>2. /\ Shape /\ DiskOK /\ ~Answered /\ work.op = "directory" /\ SourceOK
      /\ ScanOK(work.scanned, work.next) /\ work.artifacts = {} /\ work.next \in Nat
  BY Zenon, <1>1 DEF WorkerInv, Shape
<1>3. CASE GiveUp
  BY Zenon, <1>1, <1>2, <1>3, GivingUp
<1>4. CASE ~GiveUp
  <2> DEFINE scan == work.scanned
             fp == directoryFingerprint(scan)
             todo(p) == IF p.tracks = 0
                          THEN {i \in DOMAIN Names : \E e \in Of(scan, Audio) : e.name = Names[i]}
                          ELSE 1..p.tracks
  <2>1. /\ Of(scan, Audio) # {} /\ partial' = partial
        /\ \E plan \in readCuePlan(scan) :
             work' = [work EXCEPT !.pc = "load", !.plan = plan, !.fingerprint = fp, !.todo = todo(plan)]
    BY Zenon, <1>4 DEF Scanned
  <2>2. PICK plan \in readCuePlan(scan) :
             work' = [work EXCEPT !.pc = "load", !.plan = plan, !.fingerprint = fp, !.todo = todo(plan)]
    BY Zenon, <2>1
  <2> DEFINE t == Todo(scan, plan)
  <2>3. work' = [work EXCEPT !.pc = "load", !.plan = plan, !.fingerprint = fp, !.todo = t]
    BY Zenon, <2>2 DEF Todo
  <2>4. WholeScan(scan)
    BY Zenon, <1>2, ScanIsWhole
  <2>5. /\ plan.tracks \in Nat
        /\ plan.tracks # 0 => \E e \in scan : Of(scan, Audio) = {e}
        /\ Made("directory", fp, scan, plan, {}) = WantedAudio(fp)
        /\ Made("directory", fp, scan, plan, t) = {}
    BY Zenon, <2>1, <2>4, PlanIsWanted, NothingMade
  <2>6. /\ plan.tracks = 0 =>
             \A i \in t : i \in DOMAIN Names /\ \E e \in Of(scan, Audio) : e.name = Names[i]
        /\ plan.tracks # 0 => t \subseteq 1..plan.tracks
    BY Zenon DEF Todo
  <2> HIDE DEF fp, t
  <2>7. work' = [pc |-> "load", op |-> work.op, workspace |-> work.workspace,
                 expected |-> work.expected, next |-> work.next, scanned |-> work.scanned,
                 first |-> work.first, fingerprint |-> fp, plan |-> plan,
                 todo |-> t, fd |-> work.fd, artifacts |-> work.artifacts,
                 answer |-> work.answer]
    BY <1>2, <2>3 DEF Shape
  <2>8. /\ work'.pc = "load" /\ work'.op = work.op /\ work'.workspace = work.workspace
        /\ work'.scanned = work.scanned /\ work'.expected = work.expected
        /\ work'.first = work.first /\ work'.fingerprint = fp
        /\ work'.plan = plan /\ work'.todo = t /\ work'.fd = work.fd
        /\ work'.artifacts = work.artifacts /\ work'.answer = work.answer
        /\ work'.next = work.next
    BY <2>7
  <2>9. Shape'
    <3>1. ~Answered' /\ "load" \in Preparing
      BY Zenon, <1>2, <2>8 DEF Answered, Preparing
    <3> QED BY Zenon, <1>1, <1>2, <2>7, <2>8, <3>1 DEF Shape
  <2>10. DiskOK'
    BY Zenon, <1>1, <1>2, <2>1, DiskStays DEF DiskOK
  <2>11. ScanOK(work.scanned, Len(Names) + 1)'
    <3>1. ScanOK(scan, Len(Names) + 1)
      <4>1. \A j \in 1..Len(Names) : j < Len(Names) + 1 /\ j < work.next
        BY <1>1, <1>2, Lengths
      <4> QED BY Zenon, <1>2, <4>1 DEF ScanOK
    <3>2. ASSUME NEW s, ScanOK(s, Len(Names) + 1), work'.scanned = s
          PROVE  ScanOK(work.scanned, Len(Names) + 1)'
      BY Zenon, <3>2, ScanStays
    <3> QED BY Zenon, <2>8, <3>1, <3>2
  <2>12. PlanOK'
    <3>1. ~FileIsOpen' /\ work'.pc # "copying" /\ work'.pc # "verify"
      BY Zenon, <1>2, <2>8 DEF FileIsOpen
    <3>2. MadeBut({})' = Wanted(work'.op, work'.fingerprint) /\ MadeBut(work.todo)' = {}
      BY Zenon, <1>2, <2>5, <2>8 DEF MadeBut, Wanted
    <3>3. work'.fingerprint = directoryFingerprint(work'.scanned)
      BY Zenon, <2>8 DEF fp
    <3> QED BY Zenon, <1>1, <1>2, <2>1, <2>5, <2>6, <2>8, <2>11, <3>1, <3>2, <3>3 DEF PlanOK
  <2> QED BY Zenon, <2>8, <2>9, <2>10, <2>12, ToPlan DEF Preparing, Copying
<1> QED BY <1>3, <1>4
-----------------------------------------------------------------------------
(* The two scans *)

\* What scanDirectory reads of a name.
LEMMA EntryFields ==
    ASSUME NEW n
    PROVE  /\ Entry(n).name = n /\ Entry(n).file.inode = at[n]
           /\ Entry(n).file.version = contents[at[n]]
           /\ FileOf(Entry(n)) = <<n, <<at[n], contents[at[n]]>>>>
  BY DEF Entry, Snapshot, FileOf, StableFingerprint

\* What the visit of a name adds to a scan
Seen(n) == IF at[n] # 0 /\ n \in Audio \cup Cue THEN {Entry(n)} ELSE {}

\* A scan that reads one more name is right.
LEMMA VisitOK ==
    ASSUME SourceOK, NEW scan, NEW next \in 1..Len(Names), ScanOK(scan, next)
    PROVE  ScanOK(scan \cup Seen(Names[next]), next + 1)
<1> DEFINE n == Names[next]
           more == Seen(n)
<1>1. n \in Range(Names) /\ n \in Paths
  BY Lengths DEF Range
<1>2. \A e \in more : /\ e = Entry(n) /\ e.name = n /\ at[n] # 0 /\ n \in Audio \cup Cue
                      /\ e.file.inode = at[n] /\ e.file.version = contents[at[n]]
  BY Zenon, EntryFields DEF Seen
<1>3. at[n] # 0 => at[n] \in Used /\ contents[at[n]] \in Written
  BY Zenon, <1>1, UsedInodes DEF SourceOK
<1>4. \A j \in 1..Len(Names) : (j < next + 1) <=> (j < next \/ j = next)
  BY Lengths
<1>5. \A j \in 1..Len(Names) : j < next => Names[j] # n
  <2>1. \A j \in 1..Len(Names) : j < next => j # next
    BY Lengths
  <2> QED BY <2>1, Lengths, WorkerAssumption DEF IsInjective
<1> HIDE DEF n, more
<1>6. \A e \in scan \cup more :
        EntryOK(e) /\ \E j \in 1..Len(Names) : j < next + 1 /\ e.name = Names[j]
  <2>1. \A e \in more : EntryOK(e)
    BY Zenon, <1>2, <1>3 DEF EntryOK
  <2> QED BY Zenon, <1>2, <1>4, <2>1 DEF ScanOK, n
<1>7. \A e, d \in scan \cup more : e.name = d.name => e = d
  <2>1. \A e \in scan, d \in more : e.name # d.name
    BY Zenon, <1>2, <1>5 DEF ScanOK
  <2> QED BY Zenon, <1>2, <2>1 DEF ScanOK
<1>8. ASSUME NEW f \in Instant, \A s \in instants : f \in s,
             NEW j \in 1..Len(Names), j < next + 1, f[1] = Names[j]
      PROVE  f \in directoryFingerprint(scan \cup more)
  <2>1. CASE j < next
    <3>1. f \in directoryFingerprint(scan)
      BY Zenon, <1>8, <2>1 DEF ScanOK
    <3>2. PICK e \in scan : f = FileOf(e)
      BY Zenon, <3>1, Fingerprints
    <3>3. e \in scan \cup more
      BY Zenon, <3>2
    <3> QED BY Zenon, <3>2, <3>3, Fingerprints
  <2>2. CASE j = next
    <3>1. PICK m \in Audio \cup Cue : at[m] # 0 /\ f = <<m, <<at[m], contents[at[m]]>>>>
      BY Zenon, Instants DEF InstantIs
    <3>2. f[1] = m
      BY <3>1
    <3>3. m = n
      BY Zenon, <1>8, <2>2, <3>2 DEF n
    <3>4. Entry(n) \in more /\ f = FileOf(Entry(n))
      BY Zenon, <3>1, <3>3, EntryFields DEF more, Seen
    <3> QED BY Zenon, <3>4, Fingerprints
  <2> QED BY Zenon, <1>4, <1>8, <2>1, <2>2
<1> QED BY Zenon, <1>6, <1>7, <1>8 DEF ScanOK, more, n

\* Files of the first scan the second one meets are all at the instant it began.
LEMMA RevisitOK ==
    ASSUME NEW files, NEW scan, NEW n \in Range(Names),
           NEW s, files \cap Instant \subseteq s, files \cap directoryFingerprint(scan) \subseteq s
    PROVE  files \cap directoryFingerprint(scan \cup Seen(n)) \subseteq s
<1> SUFFICES ASSUME NEW f \in files, f \in directoryFingerprint(scan \cup Seen(n))
             PROVE  f \in s
  BY Zenon
<1>1. PICK e \in scan \cup Seen(n) : f = FileOf(e)
  BY Zenon, Fingerprints
<1>2. CASE e \in scan
  BY Zenon, <1>1, <1>2, Fingerprints
<1>3. CASE e \in Seen(n)
  <2>1. e = Entry(n) /\ at[n] # 0 /\ n \in Audio \cup Cue
    BY Zenon, <1>3 DEF Seen
  <2>2. f = <<n, <<at[n], contents[at[n]]>>>>
    BY Zenon, <1>1, <2>1, EntryFields
  <2>3. f \in Instant
    BY Zenon, <2>1, <2>2, Instants DEF InstantIs
  <2> QED BY Zenon, <2>3
<1> QED BY Zenon, <1>2, <1>3
\* Reading a name, in either scan, keeps the invariant.
LEMMA EntryVisited ==
    ASSUME WorkerInv, Onward, scanDirectory
    PROVE  WorkerInv'
<1> DEFINE n == Names[work.next]
           scan == work.scanned \cup Seen(n)
<1>1. /\ UNCHANGED source /\ completed' = completed /\ work.pc = "scan" /\ work.next <= Len(Names)
  BY DEF scanDirectory
<1>2. /\ Shape /\ DiskOK /\ ~Answered /\ work.op = "directory" /\ SourceOK
      /\ work.next \in Nat \ {0} /\ Instant \in instants
  BY Zenon, <1>1 DEF WorkerInv, Shape
<1>3. CASE GiveUp
  BY Zenon, <1>1, <1>2, <1>3, GivingUp
<1>4. CASE ~GiveUp
  <2>1. /\ partial' = partial
        /\ work' = [work EXCEPT !.next = @ + 1, !.scanned = scan]
    BY Zenon, <1>4 DEF scanDirectory, Seen
  <2>2. work.next \in 1..Len(Names) /\ work.next + 1 \in Nat \ {0}
    BY <1>1, <1>2, Lengths
  <2>3. n \in Range(Names)
    BY <2>2, Lengths DEF Range
  <2> HIDE DEF scan, n
  <2>4. work' = [pc |-> work.pc, op |-> work.op, workspace |-> work.workspace,
                 expected |-> work.expected, next |-> work.next + 1, scanned |-> scan,
                 first |-> work.first, fingerprint |-> work.fingerprint, plan |-> work.plan,
                 todo |-> work.todo, fd |-> work.fd, artifacts |-> work.artifacts,
                 answer |-> work.answer]
    BY <1>2, <2>1 DEF Shape
  <2>5. /\ work'.pc = "scan" /\ work'.op = work.op /\ work'.workspace = work.workspace
        /\ work'.scanned = scan /\ work'.expected = work.expected
        /\ work'.first = work.first /\ work'.fingerprint = work.fingerprint
        /\ work'.plan = work.plan /\ work'.todo = work.todo /\ work'.fd = work.fd
        /\ work'.artifacts = work.artifacts /\ work'.answer = work.answer
        /\ work'.next = work.next + 1
    BY <1>1, <2>4
  <2>6. Shape'
    <3>1. ~Answered'
      BY Zenon, <1>2, <2>5 DEF Answered
    <3> QED BY Zenon, <1>1, <1>2, <2>4, <2>5, <3>1 DEF Shape
  <2>7. DiskOK'
    BY Zenon, <1>1, <1>2, <2>1, DiskStays DEF DiskOK
  <2>8. CASE work.first = {}
    <3>1. ScanOK(work.scanned, work.next) /\ work.artifacts = {}
      BY Zenon, <1>1, <2>8 DEF WorkerInv
    <3>2. ScanOK(scan, work.next + 1)
      BY Zenon, <1>2, <2>2, <3>1, VisitOK DEF scan, n
    <3>3. ASSUME NEW s, NEW k, ScanOK(s, k), work'.scanned = s, work'.next = k
          PROVE  ScanOK(work.scanned, work.next)'
      BY Zenon, <3>3, ScanStays
    <3>4. ScanOK(work.scanned, work.next)'
      BY Zenon, <2>5, <3>2, <3>3
    <3> QED BY Zenon, <2>2, <2>5, <2>6, <2>7, <2>8, <3>1, <3>4, ToScan
  <2>9. CASE work.first # {}
    <3>1. /\ RescanOK /\ FillingOK /\ work.artifacts = Wanted(work.op, work.fingerprint)
      BY Zenon, <1>1, <2>9 DEF WorkerInv, Rescanning
    <3>2. FillingOK'
      <4>1. work'.pc # "rename" /\ work'.pc # "copy" /\ work'.pc \notin Closing
        BY Zenon, <2>5 DEF Closing
      <4> QED BY Zenon, <1>2, <2>1, <2>5, <3>1, <4>1 DEF FillingOK
    <3>3. RescanOK'
      <4> DEFINE files == work.fingerprint
      <4>1. PICK s \in instants : /\ files \cap Instant \subseteq s
                                  /\ files \cap directoryFingerprint(work.scanned) \subseteq s
        BY Zenon, <3>1 DEF RescanOK
      <4>2. files \cap directoryFingerprint(scan) \subseteq s
        <5> DEFINE old == work.scanned
        <5>1. scan = old \cup Seen(n) /\ files \cap directoryFingerprint(old) \subseteq s
          BY Zenon, <4>1 DEF scan
        <5> HIDE DEF old, files
        <5>2. files \cap directoryFingerprint(old \cup Seen(n)) \subseteq s
          BY Zenon, <2>3, <4>1, <5>1, RevisitOK
        <5> QED BY Zenon, <5>1, <5>2
      <4>3. /\ s \in instants' /\ Instant' = Instant /\ Used' = Used /\ Written' = Written
        BY Zenon, <1>1, <4>1, QuietStep
      <4>4. \A f \in files : Past(f)'
        BY Zenon, <3>1, <4>3 DEF RescanOK, Past
      <4>5. Complete(work.fingerprint)'
        <5>1. ASSUME NEW f, Complete(f), f = work'.fingerprint PROVE Complete(work.fingerprint)'
          BY Zenon, <5>1, CompleteStays
        <5> QED BY Zenon, <2>5, <3>1, <5>1 DEF RescanOK
      <4>6. directoryFingerprint(work'.scanned) = directoryFingerprint(scan)
        BY Zenon, <2>5
      <4> QED BY Zenon, <2>5, <4>1, <4>2, <4>3, <4>4, <4>5, <4>6 DEF RescanOK
    <3> QED BY Zenon, <2>2, <2>5, <2>6, <2>7, <2>9, <3>1, <3>2, <3>3, ToScan
  <2> QED BY <2>8, <2>9
<1> QED BY <1>3, <1>4

\* The start of the second scan keeps the invariant: this is the instant.
LEMMA RescanStarted ==
    ASSUME WorkerInv, Onward, Rescan
    PROVE  WorkerInv'
<1>1. /\ UNCHANGED source /\ completed' = completed /\ partial' = partial /\ work.pc = "copy"
      /\ work.op = "directory" /\ work.todo = {}
      /\ work' = [work EXCEPT !.pc = "scan", !.next = 1, !.first = work.scanned, !.scanned = {}]
  BY DEF Rescan, disk
<1>2. /\ Shape /\ PlanOK /\ DiskOK /\ FillingOK /\ ~Answered /\ SourceOK /\ Instant \in instants
  BY Zenon, <1>1 DEF WorkerInv, Copying, Shape
<1>3. work' = [pc |-> "scan", op |-> work.op, workspace |-> work.workspace,
               expected |-> work.expected, next |-> 1, scanned |-> {},
               first |-> work.scanned, fingerprint |-> work.fingerprint, plan |-> work.plan,
               todo |-> work.todo, fd |-> work.fd, artifacts |-> work.artifacts,
               answer |-> work.answer]
  BY <1>1, <1>2 DEF Shape
<1>4. /\ work'.pc = "scan" /\ work'.op = work.op /\ work'.workspace = work.workspace
      /\ work'.scanned = {} /\ work'.expected = work.expected
      /\ work'.first = work.scanned /\ work'.fingerprint = work.fingerprint
      /\ work'.plan = work.plan /\ work'.todo = work.todo /\ work'.fd = work.fd
      /\ work'.artifacts = work.artifacts /\ work'.answer = work.answer
      /\ work'.next = 1 /\ work'.next \in Nat \ {0}
  BY <1>3
<1>5. Shape'
  <2>1. ~Answered'
    BY Zenon, <1>2, <1>4 DEF Answered
  <2> QED BY Zenon, <1>1, <1>2, <1>3, <1>4, <2>1 DEF Shape
<1>6. DiskOK'
  BY Zenon, <1>1, <1>2, DiskStays DEF DiskOK
<1>7. work'.first # {}
  BY Zenon, <1>1, <1>2, <1>4 DEF PlanOK, Of
<1>8. work.artifacts = Wanted(work.op, work.fingerprint)
  BY Zenon, <1>1, <1>2 DEF PlanOK, FileIsOpen
<1>9. FillingOK'
  <2>1. work'.pc # "rename" /\ work'.pc # "copy" /\ work'.pc \notin Closing
    BY Zenon, <1>4 DEF Closing
  <2> QED BY Zenon, <1>1, <1>2, <1>4, <2>1 DEF FillingOK
<1>10. RescanOK'
  <2>1. /\ ScanOK(work.scanned, Len(Names) + 1)
        /\ work.fingerprint = directoryFingerprint(work.scanned)
    BY Zenon, <1>1, <1>2 DEF PlanOK
  <2>2. \A f \in work.fingerprint : Past(f)
    <3> SUFFICES ASSUME NEW f \in work.fingerprint PROVE Past(f)
      BY Zenon
    <3>1. PICK e \in work.scanned : f = FileOf(e)
      <4>1. f \in directoryFingerprint(work.scanned)
        BY Zenon, <2>1
      <4> DEFINE scan == work.scanned
      <4> HIDE DEF scan
      <4>2. \E e \in scan : f = FileOf(e)
        BY Zenon, <4>1, Fingerprints DEF scan
      <4> QED BY Zenon, <4>2 DEF scan
    <3>2. EntryOK(e)
      BY Zenon, <2>1, <3>1 DEF ScanOK
    <3>3. f[2][1] = e.file.inode /\ f[2][2] = e.file.version
      BY Zenon, <3>1, FileFields
    <3> QED BY Zenon, <3>2, <3>3 DEF Past, EntryOK
  <2>3. Complete(work.fingerprint)
    <3> SUFFICES ASSUME NEW f \in Instant, \A s \in instants : f \in s
                 PROVE  f \in work.fingerprint
      BY Zenon DEF Complete
    <3>1. PICK m \in Range(Names) : f = <<m, <<at[m], contents[at[m]]>>>>
      BY Zenon, Instants DEF InstantIs
    <3>2. f[1] = m
      BY <3>1
    <3>3. PICK j \in DOMAIN Names : m = Names[j]
      BY Zenon, <3>1 DEF Range
    <3>4. j \in 1..Len(Names) /\ j < Len(Names) + 1
      BY <3>3, Lengths
    <3> QED BY Zenon, <2>1, <3>2, <3>3, <3>4 DEF ScanOK
  <2>4. /\ Instant \in instants' /\ Instant' = Instant /\ Used' = Used /\ Written' = Written
    BY Zenon, <1>1, <1>2, QuietStep
  <2>5. \A f \in work.fingerprint : Past(f)'
    BY Zenon, <2>2, <2>4 DEF Past
  <2>6. Complete(work.fingerprint)'
    <3>1. ASSUME NEW f, Complete(f), f = work'.fingerprint PROVE Complete(work.fingerprint)'
      BY Zenon, <3>1, CompleteStays
    <3> QED BY Zenon, <1>4, <2>3, <3>1
  <2>7. directoryFingerprint(work'.scanned) = {}
    BY Zenon, <1>4, Fingerprints
  <2> QED BY Zenon, <1>4, <2>4, <2>5, <2>6, <2>7 DEF RescanOK
<1> QED BY Zenon, <1>4, <1>5, <1>6, <1>7, <1>8, <1>9, <1>10, ToScan

\* Its end keeps it: files both scans found were all there when the second began.
LEMMA SecondScanDone ==
    ASSUME WorkerInv, Onward, Rescanned
    PROVE  WorkerInv'
<1>1. /\ UNCHANGED source /\ completed' = completed /\ work.pc = "scan" /\ work.first # {}
  BY DEF Rescanned
<1>2. /\ Shape /\ DiskOK /\ ~Answered /\ work.op = "directory" /\ RescanOK /\ FillingOK
      /\ work.artifacts = Wanted(work.op, work.fingerprint)
  BY Zenon, <1>1 DEF WorkerInv, Shape, Rescanning
<1>3. CASE GiveUp
  BY Zenon, <1>1, <1>2, <1>3, GivingUp
<1>4. CASE ~GiveUp
  <2>1. /\ directoryFingerprint(work.scanned) = work.fingerprint
        /\ Proceed("manifest") /\ partial' = partial
    BY Zenon, <1>4 DEF Rescanned
  <2>2. Shape' /\ work'.pc = "manifest"
    BY Zenon, <1>1, <1>2, <2>1, ProceedsInShape, Proceeds DEF Closing
  <2>3. DiskOK'
    BY Zenon, <1>1, <1>2, <2>1, DiskStays DEF DiskOK
  <2>4. /\ work'.workspace = work.workspace /\ work'.op = work.op
        /\ work'.artifacts = work.artifacts /\ work'.fingerprint = work.fingerprint
    BY Zenon, <1>2, <2>1, Proceeds
  <2>5. FillingOK'
    <3>1. work'.pc # "copy" /\ work'.pc # "rename"
      BY Zenon, <2>2
    <3> QED BY Zenon, <1>2, <2>1, <2>4, <3>1 DEF FillingOK
  <2>6. AtOnce(work.fingerprint)
    BY Zenon, <1>2, <2>1 DEF RescanOK, AtOnce
  <2>7. AtOnce(work.fingerprint)'
    <3>1. ASSUME NEW f, AtOnce(f), f = work'.fingerprint PROVE AtOnce(work.fingerprint)'
      BY Zenon, <3>1, AtOnceStays
    <3> QED BY Zenon, <2>4, <2>6, <3>1
  <2> QED BY Zenon, <1>2, <2>2, <2>3, <2>4, <2>5, <2>7, ToClose DEF Closing
<1> QED BY <1>3, <1>4
-----------------------------------------------------------------------------
(* The worker as a whole *)

\* The invariant holds at the start.
LEMMA InitOK ==
    ASSUME WorkerInit
    PROVE  WorkerInv
<1>1. SourceOK
  <2>1. edits = 0 /\ 0 \in 0..MaxEdits /\ Used = 1..Len(AllPaths) /\ 1 \in Written
    BY WorkerAssumption, Lengths DEF WorkerInit, Used, Written
  <2>2. ASSUME NEW p \in Paths
        PROVE  (CHOOSE i \in DOMAIN AllPaths : AllPaths[i] = p) \in Used
    <3>1. \E i \in DOMAIN AllPaths : AllPaths[i] = p
      BY Zenon DEF Paths, Range
    <3>2. (CHOOSE i \in DOMAIN AllPaths : AllPaths[i] = p) \in DOMAIN AllPaths
      BY Zenon, <3>1
    <3> QED BY Zenon, <2>1, <3>2, Lengths
  <2>3. at \in [Paths -> {0} \cup Used]
    <3> DEFINE C(p) == CHOOSE i \in DOMAIN AllPaths : AllPaths[i] = p
    <3>1. at = [p \in Paths |-> IF p \in Initially THEN C(p) ELSE 0]
      BY Zenon DEF WorkerInit
    <3>2. \A p \in Paths : C(p) \in Used
      BY Zenon, <2>2
    <3> HIDE DEF C
    <3> QED BY Zenon, <3>1, <3>2
  <2>4. contents \in [Inodes -> Written]
    BY Zenon, <2>1 DEF WorkerInit
  <2> QED BY Zenon, <2>1, <2>3, <2>4 DEF SourceOK
<1>2. DiskOK
  BY Zenon DEF WorkerInit, DiskOK, Finished
<1>3. work = [pc |-> "idle", op |-> "none", workspace |-> <<0>>, expected |-> <<>>,
              next |-> 1, scanned |-> {}, first |-> {}, fingerprint |-> <<>>,
              plan |-> [tracks |-> 0, sheet |-> 0], todo |-> {}, fd |-> 0,
              artifacts |-> {}, answer |-> [status |-> "none"]]
  BY DEF WorkerInit, NoRequest
<1>4. <<0>> \in Workspaces
  BY Zenon DEF Workspaces
<1>5. work.pc = "idle" /\ work.answer.status = "none"
  BY <1>3
<1>6. Shape
  BY <1>3, <1>4 DEF Shape
<1>7. ~Answered /\ ~Rescanning
  BY Zenon, <1>5 DEF Answered, Rescanning
<1>8. Instant \in instants
  BY Zenon DEF WorkerInit
<1> QED BY Zenon, <1>1, <1>2, <1>5, <1>6, <1>7, <1>8, Phases DEF WorkerInv

\* Every step keeps the invariant.
LEMMA StepOK ==
    ASSUME WorkerInv, [WorkerNext]_workerVars
    PROVE  WorkerInv' /\ Onward
<1>1. Onward
  BY Zenon, StepsGoOnward DEF WorkerInv
<1>2. CASE UNCHANGED workerVars
  <2>1. Rest
    BY SMTT(30), <1>2 DEF workerVars, Rest
  <2> QED BY Zenon, <1>1, <2>1, RestKeeps
<1>3. CASE WorkerNext
  <2>1. ASSUME NEW op \in Operations, MaterializeArchive(op) PROVE WorkerInv'
    BY Zenon, <1>1, <2>1, ArchiveRequested
  <2>2. CASE MaterializeDirectoryAudio
    BY Zenon, <1>1, <2>2, DirectoryRequested
  <2>3. CASE Worker
    <3>1. \/ OpenArchive \/ scanDirectory \/ Scanned \/ loadWorkspace \/ Found
          \/ clearWorkspace \/ prepareWorkspace \/ Extract
          \/ extractAndProbe \/ collectExtractedMedia \/ OpenFile
          \/ copyDirectoryFile \/ Split \/ VerifyFile \/ Final \/ Rescan \/ Rescanned
          \/ writeManifest \/ Rename
      BY Zenon, <2>3 DEF Worker
    <3> QED BY ZenonT(60), <1>1, <3>1, ArchiveOpened, EntryVisited, FirstScanDone, WorkspaceLoaded,
              WorkspaceFound, WorkspaceCleared, WorkspacePrepared, Extracted, MemberCopied,
              FileOpened, FileCopied, TrackSplit, FileVerified, ArchiveFinished, RescanStarted,
              SecondScanDone, ManifestWritten, WorkspaceRenamed
  <2>4. CASE fail \/ Killed
    BY Zenon, <1>1, <2>4, Failures
  <2>5. ASSUME NEW p \in Edited, Edit(p) PROVE WorkerInv'
    <3>1. Rest
      BY <2>5 DEF Edit, disk, Rest
    <3> QED BY Zenon, <1>1, <3>1, RestKeeps
  <2>6. CASE Remount
    <3>1. Rest
      BY <2>6 DEF Remount, disk, Rest
    <3> QED BY Zenon, <1>1, <3>1, RestKeeps
  <2>7. ASSUME NEW w \in Workspaces, Imported(w) PROVE WorkerInv'
    BY Zenon, <1>1, <2>7, ArtifactImported
  <2>8. \/ (\E op \in Operations : MaterializeArchive(op)) \/ MaterializeDirectoryAudio
        \/ Worker \/ (fail \/ Killed) \/ (\E p \in Edited : Edit(p)) \/ Remount
        \/ (\E w \in Workspaces : Imported(w))
    BY Zenon, <1>3 DEF WorkerNext
  <2> QED BY Zenon, <1>1, <2>1, <2>2, <2>3, <2>4, <2>5, <2>6, <2>7, <2>8
<1> QED BY Zenon, <1>1, <1>2, <1>3

\* The invariant holds whatever is requested, edited, killed or imported, and whenever.
THEOREM WorkerInvariant == WorkerSpec => []WorkerInv
<1>1. WorkerInit => WorkerInv
  BY InitOK
<1>2. WorkerInv /\ [WorkerNext]_workerVars => WorkerInv'
  BY StepOK
<1> QED BY <1>1, <1>2, PTL DEF WorkerSpec

\* Every answer tells the truth about its source (materialize): its artifacts are those
\* of the version or versions it names and of no others, the files of a directory it
\* speaks of were all there at once, none that never changed is missing, and a finished
\* workspace holds nothing but what its manifest lists.
THEOREM AnswersTellTheTruth == WorkerSpec => []AnswersMatchSource
<1>1. ASSUME WorkerInv PROVE AnswersMatchSource
  <2>1. DiskOK /\ (Answered => TrueManifest(work.answer.manifest))
    BY Zenon, <1>1 DEF WorkerInv
  <2>2. ArtifactsMatchSource
    BY Zenon, <2>1 DEF ArtifactsMatchSource, TrueManifest
  <2>3. OneInstant
    BY Zenon, <2>1 DEF OneInstant, TrueManifest, AtOnce, Complete
  <2>4. NoLeftovers
    <3> SUFFICES ASSUME NEW w \in DOMAIN completed, completed[w].exists
                 PROVE  /\ completed[w].quarantine = {}
                        /\ \A m \in completed[w].manifest : completed[w].files \subseteq m.artifacts
      BY Zenon DEF NoLeftovers
    <3>1. DOMAIN completed = Workspaces
      BY <2>1 DEF DiskOK
    <3>2. completed[w] # NoDirectory
      BY DEF NoDirectory
    <3> QED BY Zenon, <2>1, <3>1, <3>2 DEF DiskOK, Finished
  <2> QED BY Zenon, <2>2, <2>3, <2>4 DEF AnswersMatchSource
<1> QED BY <1>1, WorkerInvariant, PTL
-----------------------------------------------------------------------------
(* What an answer lists is there *)

\* An answer is what the request ends with.
LEMMA AnswerIs ==
    ASSUME NEW a, Answer(a)
    PROVE  work'.answer = a
  BY DEF Answer, NoRequest

\* A request that gives up has not succeeded.
LEMMA GivesUp ==
    ASSUME GiveUp
    PROVE  work'.answer.status # "ok"
<1>1. work'.answer = Failed
  BY Zenon, AnswerIs DEF GiveUp
<1> QED BY <1>1 DEF Failed

\* A successful answer comes from one of three steps.
LEMMA WhoAnswers ==
    ASSUME WorkerInv, WorkerInv', Worker \/ fail \/ Killed, work.pc # "idle",
           work'.answer.status = "ok"
    PROVE  loadWorkspace \/ Found \/ Rename
<1>1. Shape /\ work'.pc = "idle"
  BY Zenon DEF WorkerInv, Shape, Answered
<1>2. ~GiveUp
  BY Zenon, GivesUp
<1>3. ~fail /\ ~Killed
  <2>1. ~fail
    BY Zenon, <1>2 DEF fail
  <2>2. ASSUME Killed PROVE FALSE
    <3>1. work'.answer = [status |-> "none"]
      BY Zenon, <2>2, AnswerIs DEF Killed
    <3> QED BY <3>1
  <2> QED BY <2>1, <2>2
<1>4. ASSUME NEW step, Proceed(step), step # "idle" PROVE FALSE
  BY Zenon, <1>1, <1>4, Proceeds
<1>5. ~OpenArchive /\ ~scanDirectory /\ ~Scanned
  <2>1. ~OpenArchive
    BY <1>1, <1>2 DEF OpenArchive, Shape
  <2>2. ~scanDirectory
    BY ZenonT(60), <1>1, <1>2 DEF scanDirectory, Shape
  <2>3. ~Scanned
    BY <1>1, <1>2 DEF Scanned, Shape
  <2> QED BY <2>1, <2>2, <2>3
<1>6. ~clearWorkspace /\ ~prepareWorkspace /\ ~Extract /\ ~Final /\ ~Rescanned /\ ~writeManifest
  BY Zenon, <1>2, <1>4 DEF clearWorkspace, prepareWorkspace, Extract, Final, Rescanned, writeManifest
<1>7. ASSUME NEW i, NEW name, NEW content, WriteArtifact(i, name, content) PROVE FALSE
  <2> DEFINE artifact == [name |-> name, content |-> content]
             step == IF work.op # "directory" THEN "copy"
                     ELSE IF work.plan.tracks = 0 \/ work.todo = {i} THEN "verify" ELSE "copying"
  <2>1. work' = [work EXCEPT !.artifacts = @ \cup {artifact}, !.todo = @ \ {i}, !.pc = step]
    BY Zenon, <1>2, <1>7 DEF WriteArtifact
  <2>2. step # "idle"
    BY Zenon
  <2> HIDE DEF artifact, step
  <2> QED BY <1>1, <2>1, <2>2 DEF Shape
<1>8. ~extractAndProbe /\ ~collectExtractedMedia /\ ~copyDirectoryFile /\ ~Split
  <2>1. \A i, name, content : ~WriteArtifact(i, name, content)
    BY Zenon, <1>7
  <2>2. ~extractAndProbe
    BY Zenon, <2>1 DEF extractAndProbe
  <2>3. ~collectExtractedMedia
    BY Zenon, <2>1 DEF collectExtractedMedia
  <2>4. ~copyDirectoryFile
    BY ZenonT(60), <2>1 DEF copyDirectoryFile
  <2>5. ~Split
    BY ZenonT(60), <2>1 DEF Split
  <2> QED BY Zenon, <2>2, <2>3, <2>4, <2>5
<1>9. ~OpenFile /\ ~VerifyFile /\ ~Rescan
  <2>1. ~OpenFile
    BY <1>1, <1>2 DEF OpenFile, Shape
  <2>2. ~VerifyFile
    BY <1>1, <1>2 DEF VerifyFile, Shape
  <2>3. ~Rescan
    BY <1>1 DEF Rescan, Shape
  <2> QED BY <2>1, <2>2, <2>3
<1> QED BY Zenon, <1>3, <1>5, <1>6, <1>8, <1>9 DEF Worker

Available == work'.answer.manifest.artifacts \subseteq completed'[work'.answer.workspace].files

\* A success whose artifacts are in the workspace is available.
LEMMA SucceedsWith ==
    ASSUME NEW m, Answer(Success(m)), m.artifacts \subseteq completed'[work.workspace].files
    PROVE  Available
<1>1. work'.answer = Success(m)
  BY Zenon, AnswerIs
<1>2. work'.answer.manifest = m /\ work'.answer.workspace = work.workspace
  BY <1>1 DEF Success
<1> QED BY Zenon, <1>2 DEF Available

\* Only one manifest is in a workspace, so the one that was looked at is the one returned.
LEMMA UsableIsAvailable ==
    ASSUME WorkerInv, completed' = completed, NEW d, d = completed[work.workspace],
           d # NoDirectory, usable(d), NEW m \in d.manifest, Answer(Success(m))
    PROVE  Available
<1>1. Finished(d)
  BY Zenon DEF WorkerInv, DiskOK, Shape
<1>2. PICK n \in d.manifest : n.artifacts \subseteq d.files
  BY Zenon DEF usable
<1>3. n = m
  BY Zenon, <1>1, <1>2 DEF Finished
<1> QED BY Zenon, <1>2, <1>3, SucceedsWith

\* Every success is available: each of its artifacts has just been seen or written.
LEMMA AnswerIsAvailable ==
    ASSUME WorkerInv, WorkerInv', WorkerNext, work.pc # "idle", work'.answer.status = "ok"
    PROVE  Available
<1>1. Shape /\ ~Answered
  BY Zenon DEF WorkerInv, Shape
<1>2. Worker \/ fail \/ Killed
  <2>1. ~(\E op \in Operations : MaterializeArchive(op)) /\ ~MaterializeDirectoryAudio /\ ~Remount
        /\ ~\E w \in Workspaces : Imported(w)
    BY Zenon DEF MaterializeArchive, MaterializeDirectoryAudio, Remount, Imported
  <2>2. ASSUME NEW p \in Edited, Edit(p) PROVE FALSE
    <3>1. work' = work
      BY <2>2 DEF Edit
    <3> QED BY Zenon, <1>1, <3>1 DEF Answered
  <2>3. \/ (\E op \in Operations : MaterializeArchive(op)) \/ MaterializeDirectoryAudio
        \/ Worker \/ (fail \/ Killed) \/ (\E p \in Edited : Edit(p)) \/ Remount
        \/ (\E w \in Workspaces : Imported(w))
    BY Zenon DEF WorkerNext
  <2> QED BY Zenon, <2>1, <2>2, <2>3
<1>3. loadWorkspace \/ Found \/ Rename
  BY Zenon, <1>2, WhoAnswers
<1>4. ASSUME NEW step, Proceed(step) PROVE FALSE
  BY Zenon, <1>1, <1>4, Proceeds DEF Answered
<1> DEFINE d == completed[work.workspace]
<1>5. CASE loadWorkspace
  <2>1. completed' = completed
    BY <1>5 DEF loadWorkspace, disk
  <2>2. d.exists /\ usable(d) /\ \E m \in d.manifest : Answer(Success(m))
    BY Zenon, <1>4, <1>5 DEF loadWorkspace
  <2>3. d # NoDirectory
    BY <2>2 DEF NoDirectory
  <2> HIDE DEF d
  <2> QED BY Zenon, <2>1, <2>2, <2>3, UsableIsAvailable DEF d
<1>6. CASE Found
  <2>1. completed' = completed /\ work.pc = "found"
    BY <1>6 DEF Found, disk
  <2>2. d # NoDirectory /\ usable(d)
    BY Zenon, <2>1 DEF WorkerInv
  <2>3. ~Answer(Failed)
    <3> SUFFICES ASSUME Answer(Failed) PROVE FALSE
      BY Zenon
    <3>1. work'.answer = Failed
      BY Zenon, AnswerIs
    <3> QED BY <3>1 DEF Failed
  <2>4. \E m \in d.manifest : Answer(Success(m))
    BY Zenon, <1>6, <2>3 DEF Found
  <2> HIDE DEF d
  <2> QED BY Zenon, <2>1, <2>2, <2>4, UsableIsAvailable DEF d
<1>7. CASE Rename
  <2> DEFINE w == work.workspace
             p == partial[w]
  <2>1. /\ completed' = [completed EXCEPT ![w] = p]
        /\ \E m \in p.manifest : Answer(Success(m))
    BY Zenon, <1>7, GivesUp DEF Rename
  <2>2. work.pc = "rename" /\ DiskOK /\ w \in Workspaces /\ FillingOK
    BY Zenon, <1>7 DEF Rename, WorkerInv, Shape, Closing
  <2>3. completed'[w] = p
    <3>1. DOMAIN completed = Workspaces
      BY <2>2 DEF DiskOK
    <3> HIDE DEF p
    <3> QED BY Zenon, <2>1, <2>2, <3>1
  <2>4. \A m \in p.manifest : m.artifacts = p.files
    <3>1. p.files = work.artifacts
      BY Zenon, <2>2 DEF FillingOK
    <3>2. p.manifest = {[op |-> work.op, fingerprint |-> work.fingerprint, artifacts |-> work.artifacts]}
      BY Zenon, <2>2 DEF FillingOK
    <3> HIDE DEF p
    <3> QED BY <3>1, <3>2
  <2>5. PICK m \in p.manifest : Answer(Success(m))
    BY Zenon, <2>1
  <2>6. m.artifacts \subseteq completed'[w].files
    BY Zenon, <2>3, <2>4, <2>5
  <2> QED BY Zenon, <2>5, <2>6, SucceedsWith
<1> QED BY Zenon, <1>3, <1>5, <1>6, <1>7

\* When a request is answered, every artifact the answer lists is on disk: loadWorkspace
\* looked at each of them, or the workspace has just been renamed.
THEOREM AnswersAreThere == WorkerSpec => AnswersAreAvailable
<1>1. ASSUME WorkerInv, WorkerInv', [WorkerNext]_workerVars
      PROVE  [work.pc # "idle" /\ work'.answer.status = "ok" =>
                work'.answer.manifest.artifacts \subseteq
                  completed'[work'.answer.workspace].files]_workerVars
  <2>1. CASE UNCHANGED workerVars
    BY Zenon, <2>1
  <2>2. CASE WorkerNext
    BY Zenon, <1>1, <2>2, AnswerIsAvailable DEF Available
  <2> QED BY Zenon, <1>1, <2>1, <2>2
<1> QED BY <1>1, WorkerInvariant, PTL DEF WorkerSpec, AnswersAreAvailable
=============================================================================
