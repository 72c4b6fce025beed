---------------------------- MODULE FilesProofs ----------------------------
(***************************************************************************)
(* The files, for any callers, operations, records, artifacts and calls,   *)
(* and for any number of faults.                                           *)
(*                                                                         *)
(* A record store implements the atomic record, and what a caller was told *)
(* of a join execution is never taken back.                                *)
(*                                                                         *)
(* An artifact that is staged or published is complete and is the one that *)
(* was derived from its sources.                                           *)
(***************************************************************************)
EXTENDS JoinState, Staging, TLAPS

-----------------------------------------------------------------------------
(* The atomic record *)

Owning  == {"read", "decide", "flush", "rename", "settle", "unlock"}
Steps   == {"idle", "lock"} \cup Owning
Writing == {"flush", "rename"}

Fn(f) == f = [c \in Callers |-> f[c]]

Shape ==
    /\ stage \in [Callers -> Steps] /\ flushed \in [Callers -> BOOLEAN]
    /\ Fn(op) /\ Fn(seen) /\ Fn(next)

\* Why an update is atomic: from the read to the rename the caller owns the lock
\* and the record is the one it read; and only synced data gets the name.
RecordInv ==
    /\ Shape
    /\ durable = TRUE
    /\ \A c \in Callers :
          /\ stage[c] \in Owning => holder = c
          /\ stage[c] # "idle" => op[c] \in Ops
          /\ stage[c] \in Writing \cup {"decide"} => seen[c] = record
          /\ stage[c] \in Writing => next[c] \in Outcome(op[c], seen[c])
          /\ stage[c] = "rename" => flushed[c] = TRUE

\* Init: nobody has called yet.
LEMMA RecordStart == RecordInit => RecordInv
BY Zenon DEF RecordInit, RecordInv, Shape, Fn, Steps, Owning, Writing

\* Each step keeps the record a writer read equal to the record it replaces.
LEMMA RecordStep == RecordInv /\ [RecordNext]_recordVars => RecordInv'
<1> SUFFICES ASSUME RecordInv, [RecordNext]_recordVars PROVE RecordInv'
    BY Zenon
<1> USE RecordStoreAssumption DEF RecordInv, Shape, Fn, Steps, Owning, Writing, recordFile, Advance
<1>1. ASSUME NEW c \in Callers, NEW o \in Ops, Call(c, o) PROVE RecordInv'
    BY Zenon, <1>1 DEF Call
<1>2. ASSUME NEW c \in Callers, lock(c) PROVE RecordInv'
    BY Zenon, <1>2 DEF lock
<1>3. ASSUME NEW c \in Callers, readExecution(c) PROVE RecordInv'
    BY Zenon, <1>3 DEF readExecution
<1>4. ASSUME NEW c \in Callers, refuse(c) PROVE RecordInv'
    BY Zenon, <1>4 DEF refuse
<1>5. ASSUME NEW c \in Callers, update(c) PROVE RecordInv'
    BY Zenon, <1>5 DEF update
<1>6. ASSUME NEW c \in Callers, Sync(c) PROVE RecordInv'
    BY Zenon, <1>6 DEF Sync
<1>7. ASSUME NEW c \in Callers, Rename(c) PROVE RecordInv'
    BY Zenon, <1>7 DEF Rename
<1>8. ASSUME NEW c \in Callers, SyncDirectory(c) PROVE RecordInv'
    BY Zenon, <1>8 DEF SyncDirectory
<1>9. ASSUME NEW c \in Callers, unlock(c) PROVE RecordInv'
    BY Zenon, <1>9 DEF unlock, Quit
<1>10. ASSUME NEW c \in Callers, replaceFails(c) PROVE RecordInv'
    BY Zenon, <1>10 DEF replaceFails, Failure
<1>11. ASSUME NEW c \in Callers, KillCaller(c) PROVE RecordInv'
    BY Zenon, <1>11 DEF KillCaller, Quit, Failure
<1>12. CASE PowerLoss
    BY Zenon, <1>12 DEF PowerLoss, Quit, Failure
<1>13. CASE UNCHANGED recordVars
    BY Zenon, <1>13 DEF recordVars, caller
<1>14. QED
    BY Zenon, <1>1, <1>2, <1>3, <1>4, <1>5, <1>6, <1>7, <1>8, <1>9, <1>10, <1>11, <1>12, <1>13
    DEF RecordNext, Step

\* Each step is one of the atomic record or leaves it alone.
LEMMA StepSimulates ==
    RecordInv /\ [RecordNext]_recordVars => [Atomic!Next]_<<record, safe, told>>
<1> SUFFICES ASSUME RecordInv, [RecordNext]_recordVars PROVE [Atomic!Next]_<<record, safe, told>>
    BY Zenon
<1> DEFINE Still == UNCHANGED <<record, safe, told>>
<1>1. ASSUME NEW c \in Callers, Rename(c) PROVE Atomic!Update
    BY Zenon, <1>1 DEF Rename, RecordInv, Writing, Atomic!Update
<1>2. ASSUME NEW c \in Callers, SyncDirectory(c) PROVE Atomic!Tell
    BY Zenon, <1>2 DEF SyncDirectory, RecordInv, Atomic!Tell
<1>3. CASE PowerLoss
    <2>1. CASE record' = safe
        BY Zenon, <1>3, <2>1 DEF PowerLoss, Atomic!Next, Atomic!Lose
    <2>2. CASE record' = record
        BY Zenon, <1>3, <2>2 DEF PowerLoss, Atomic!Next, Atomic!Commit
    <2>3. QED
        BY Zenon, <1>3, <2>1, <2>2 DEF PowerLoss, RecordInv
<1>4. ASSUME NEW c \in Callers,
             \/ \E o \in Ops : Call(c, o)
             \/ lock(c) \/ readExecution(c) \/ refuse(c) \/ update(c) \/ Sync(c)
             \/ unlock(c) \/ replaceFails(c) \/ KillCaller(c)
      PROVE  Still
    BY Zenon, <1>4 DEF Call, lock, readExecution, refuse, update, Sync, unlock, replaceFails, KillCaller, recordFile
<1>5. CASE UNCHANGED recordVars
    BY Zenon, <1>5 DEF recordVars, recordFile
<1>6. QED
    BY Zenon, <1>1, <1>2, <1>3, <1>4, <1>5 DEF RecordNext, Step, Atomic!Next

\* AtomicSpec (worker/joinstate, casestore): under concurrent callers, kills,
\* failing system calls and power failures a record store behaves as one atomic
\* record whose reported writes are never undone.
THEOREM StoreImplementsAtomicRecord == RecordSpec => AtomicSpec
<1>1. RecordInit => Atomic!Init
    BY Zenon DEF RecordInit, Atomic!Init
<1>2. QED
    BY <1>1, RecordStart, RecordStep, StepSimulates, PTL DEF RecordSpec, AtomicSpec, Atomic!Spec

-----------------------------------------------------------------------------
(* The records of joins *)

Final == {"published", "discarded", "failed"}

\* What callers were told of an execution binds every later record of it.
Follows(a, b) ==
    a # NoRecord => /\ b # NoRecord /\ b.spec = a.spec
                    /\ a.state \in Final => b = a

\* The record that survives a power failure has to follow as well: a later record
\* that nobody was told of may be lost, and then it is this one that is read.
ToldIsKept ==
    /\ {record, safe, told} \subseteq Executions \cup {NoRecord}
    /\ Follows(told, record) /\ Follows(told, safe)

\* The calls of joinstate.Store return executions, with the specification they had,
\* and an execution that has ended is returned as it is.
LEMMA OutcomeFollows ==
    ASSUME NEW o \in Calls, NEW e \in Executions \cup {NoRecord}, NEW n \in JoinOutcome(o, e)
    PROVE  n \in Executions /\ Follows(e, n)
<1> USE JoinStateAssumption
<1>1. CASE o.op = "Prepare"
  <2>1. o.spec \in Specs /\ o.at \in Times
    BY Zenon, <1>1 DEF Calls
  <2>2. CASE e = NoRecord
    BY <1>1, <2>1, <2>2 DEF JoinOutcome, Prepare, Executions, JoinStates, artifactID, Follows
  <2>3. CASE e # NoRecord
    BY Zenon, <1>1, <2>3 DEF JoinOutcome, Prepare, Follows
  <2> QED BY Zenon, <2>2, <2>3
<1>2. CASE o.op # "Prepare"
  <2>1. e # NoRecord /\ e \in Executions /\ n \in updated(o, e)
    BY Zenon, <1>2 DEF JoinOutcome, updated
  <2>2. PICK m \in marked(o, e) : n = IF m = e THEN e ELSE [m EXCEPT !.updatedAt = o.at]
    BY Zenon, <2>1 DEF updated
  <2>3. o.at \in Times
    BY Zenon, <1>2 DEF Calls
  <2>4. m \in Executions /\ m.spec = e.spec /\ (e.state \in Final => m = e)
    <3>1. CASE o.op = "MarkStaged"
      <4>1. o.fingerprint \in Fingerprints
        BY Zenon, <3>1 DEF Calls
      <4> QED BY ZenonT(60), <2>1, <2>2, <3>1, <4>1 DEF marked, MarkStaged, Move, Executions, JoinStates, Final
    <3>2. CASE o.op = "MarkStageFailed"
      <4>1. o.reason \in Reasons
        BY Zenon, <3>2 DEF Calls
      <4> QED BY ZenonT(60), <2>1, <2>2, <3>2, <4>1 DEF marked, MarkStageFailed, Move, Executions, JoinStates, Final
    <3>3. CASE o.op = "MarkPublished"
      <4>1. o.published \in Places
        BY Zenon, <3>3 DEF Calls
      <4> QED BY ZenonT(60), <2>1, <2>2, <3>3, <4>1 DEF marked, MarkPublished, Move, Executions, JoinStates, Final
    <3>4. CASE o.op = "MarkDiscarded"
      BY Zenon, <2>1, <2>2, <3>4 DEF marked, MarkDiscarded, Move, Executions, JoinStates, Final
    <3> QED BY Zenon, <1>2, <3>1, <3>2, <3>3, <3>4 DEF Calls
  <2>5. n \in Executions /\ n.spec = m.spec /\ (m = e => n = e)
    BY Zenon, <2>1, <2>2, <2>3, <2>4 DEF Executions
  <2> QED BY Zenon, <2>1, <2>4, <2>5 DEF Follows
<1> QED BY Zenon, <1>1, <1>2

\* A step of the atomic record keeps to what was told, and so does the record it
\* leaves.
LEMMA AtomicStepFollows ==
    ASSUME JoinRecordsOnly, ToldIsKept, [Atomic!Next]_<<record, safe, told>>
    PROVE  ToldIsKept' /\ Follows(told, record')
<1>1. CASE Atomic!Update
  <2>1. PICK o \in Calls : record' \in JoinOutcome(o, record)
    BY Zenon, <1>1 DEF Atomic!Update, JoinRecordsOnly, ToldIsKept
  <2>2. record' \in Executions /\ Follows(record, record')
    BY Zenon, <2>1, OutcomeFollows DEF ToldIsKept
  <2>3. Follows(told, record')
    BY Zenon, <2>2 DEF ToldIsKept, Follows
  <2> QED BY Zenon, <1>1, <2>2, <2>3 DEF Atomic!Update, ToldIsKept
<1>2. CASE Atomic!Commit
  BY Zenon, <1>2 DEF Atomic!Commit, ToldIsKept
<1>3. CASE Atomic!Tell
  BY Zenon, <1>3 DEF Atomic!Tell, ToldIsKept, Follows
<1>4. CASE Atomic!Lose
  BY Zenon, <1>4 DEF Atomic!Lose, ToldIsKept
<1>5. CASE UNCHANGED <<record, safe, told>>
  BY Zenon, <1>5 DEF ToldIsKept
<1> QED BY Zenon, <1>1, <1>2, <1>3, <1>4, <1>5 DEF Atomic!Next

\* OutcomeIsFinal (joinstate.Store): the end of a join execution that a caller was
\* told of is never replaced, and its specification never changes, for any callers,
\* calls and faults, and any specifications and outputs.
THEOREM OutcomesAreFinal ==
    ASSUME JoinRecordsOnly
    PROVE  RecordSpec => OutcomeIsFinal
<1>1. RecordInit => ToldIsKept
  BY Zenon DEF RecordInit, ToldIsKept, Follows
<1>2. RecordInv /\ ToldIsKept /\ [RecordNext]_recordVars => ToldIsKept'
  BY Zenon, StepSimulates, AtomicStepFollows
<1>3. RecordInv /\ ToldIsKept /\ [RecordNext]_recordVars =>
        [/\ told # NoRecord /\ record' # NoRecord => record'.spec = told.spec
         /\ told # NoRecord /\ told.state \in {"published", "discarded", "failed"}
               => record' = told]_recordVars
  BY Zenon, StepSimulates, AtomicStepFollows DEF Follows, Final
<1> QED BY <1>1, <1>2, <1>3, RecordStart, RecordStep, PTL DEF RecordSpec, OutcomeIsFinal

-----------------------------------------------------------------------------
(* The inductive invariant *)

\* No name holds a file that was not yet created.
TypeInv ==
    /\ created \in 0..MaxFiles
    /\ file \in [Artifacts -> [Names -> 0..created]]
    /\ disk \in [Artifacts -> [Names -> 0..created]]
    /\ answer \in [Artifacts -> 0..created]
    /\ content \in [Files -> Contents]
    /\ sources \in [Artifacts -> SUBSET Changes]
    /\ art \in Artifacts /\ out \in 0..created
    /\ to \in {"staged", "published"} /\ failing \in BOOLEAN

\* A file nobody but the running helper knows of, and one that is not published
Unpublished(f) ==
    \A a \in Artifacts : file[a]["published"] # f /\ disk[a]["published"] # f
Private(f) ==
    Unpublished(f) /\ \A a \in Artifacts : file[a]["staged"] # f /\ disk[a]["staged"] # f

\* What a file of an artifact of kind k may hold when it is retained
Finished(x, k) == x \in {"good", "bad"} /\ (k # "join" => x = "good")

\* The names F of an artifact of kind k that programs see, its names D on disk, what
\* the files hold (c) and the file reported (r) go together.  The last two: a
\* published name that is only on disk is that of the staged file, and a file that
\* has lost its staged name has its published name on disk.
Sound(F, D, c, r, k) ==
    /\ \A f \in {F["published"], D["published"]} : f # None => c[f] = "good"
    /\ \A f \in {F["staged"], D["staged"]} : f # None => Finished(c[f], k)
    /\ r # None => F["published"] = r /\ D["published"] = r
    /\ D["published"] # None =>
          \/ F["published"] = D["published"]
          \/ F["published"] = None /\ F["staged"] = D["published"]
    /\ F["published"] # None /\ F["published"] = D["staged"] /\ F["staged"] # D["staged"] =>
          D["published"] = F["published"]

NamesInv == \A a \in Artifacts : Sound(file[a], disk[a], content, answer[a], Kind[a])

\* What the running helper may rely on at its next step
OutputInv ==
    /\ pc \in {"created", "produce", "verify", "retain"} \/ (pc = "link" /\ to = "staged") =>
          out # None /\ artifact("partial") = out /\ Private(out)
    /\ pc = "verify" /\ ~failing =>
          content[out] # "cut" /\ (content[out] = "foreign" => ~verifies)
    /\ pc = "prepare" => Kind[art] # "join"
    /\ pc \in {"recover", "publish"} => out # None /\ content[out] = "good"
    /\ pc = "judge" =>
          out # None /\ artifact("staged") = out /\ content[out] \in {"good", "bad"}
    /\ pc = "sync both" => out # None /\ artifact("published") = out

Moving == {"link", "sync new", "unlink", "rollback", "sync old"}

MoveInv ==
    /\ pc \in Moving \cup {"retain"} => out # None /\ Finished(content[out], Kind[art])
    /\ pc \in Moving /\ to = "published" => content[out] = "good"
    /\ pc \in Moving \ {"sync old"} => artifact(from) = out
    /\ pc \in Moving \ {"link"} =>
          /\ artifact(to) = out
          /\ to = "staged" => Unpublished(out)
          /\ to = "published" => answer[art] = None
    /\ pc = "unlink" /\ to = "published" => disk[art]["published"] = out

Inv == TypeInv /\ NamesInv /\ OutputInv /\ MoveInv

-----------------------------------------------------------------------------
(* What the system calls do to the names of one artifact *)

Synced(F, D, N) == [n \in Names |-> IF n \in N THEN F[n] ELSE D[n]]

\* An fsync of one or both directories keeps the names sound.
LEMMA SyncIsSound ==
    ASSUME NEW F \in [Names -> Nat], NEW D \in [Names -> Nat], NEW c, NEW r, NEW k,
           NEW N \in {{"published"}, {"partial", "staged"}, Names},
           Sound(F, D, c, r, k)
    PROVE  Sound(F, Synced(F, D, N), c, r, k)
BY Zenon DEF Sound, Synced, Names, None

\* So does the loss of anything that was not synced.
LEMMA LossIsSound ==
    ASSUME NEW F \in [Names -> Nat], NEW D \in [Names -> Nat], NEW c, NEW r, NEW k,
           NEW N \in SUBSET Names,
           Sound(F, D, c, r, k)
    PROVE  Sound(Synced(F, D, N), Synced(F, D, N), c, r, k)
BY Zenon DEF Sound, Synced, Names, None

\* The partial name says nothing.
LEMMA PartialIsSound ==
    ASSUME NEW F \in [Names -> Nat], NEW D \in [Names -> Nat], NEW c, NEW r, NEW k, NEW f,
           Sound(F, D, c, r, k)
    PROVE  Sound([F EXCEPT !["partial"] = f], D, c, r, k)
BY Zenon DEF Sound, Names, None

\* A file may get its staged name when it is finished and not published.
LEMMA StagingIsSound ==
    ASSUME NEW F \in [Names -> Nat], NEW D \in [Names -> Nat], NEW c, NEW r, NEW k, NEW f,
           F["staged"] = None, Finished(c[f], k),
           Sound(F, D, c, r, k)
    PROVE  Sound([F EXCEPT !["staged"] = f], D, c, r, k)
BY Zenon DEF Sound, Names, None

\* The staged name may go when its file is not published or is so on disk.
LEMMA UnstagingIsSound ==
    ASSUME NEW F \in [Names -> Nat], NEW D \in [Names -> Nat], NEW c, NEW r, NEW k,
           F["staged"] # None, F["published"] # F["staged"] \/ D["published"] = F["staged"],
           D["published"] # F["staged"] \/ F["published"] = F["staged"],
           Sound(F, D, c, r, k)
    PROVE  Sound([F EXCEPT !["staged"] = None], D, c, r, k)
BY Zenon DEF Sound, Names, None

\* A valid staged file may be published where there is none.
LEMMA PublishingIsSound ==
    ASSUME NEW F \in [Names -> Nat], NEW D \in [Names -> Nat], NEW c, NEW r, NEW k,
           F["published"] = None, F["staged"] # None, c[F["staged"]] = "good",
           Sound(F, D, c, r, k)
    PROVE  Sound([F EXCEPT !["published"] = F["staged"]], D, c, r, k)
BY Zenon DEF Sound, Names, None

\* A published name may go while the file is staged and was not reported.
LEMMA UnpublishingIsSound ==
    ASSUME NEW F \in [Names -> Nat], NEW D \in [Names -> Nat], NEW c, NEW r, NEW k,
           F["published"] = F["staged"], r = None,
           Sound(F, D, c, r, k)
    PROVE  Sound([F EXCEPT !["published"] = None], D, c, r, k)
BY Zenon DEF Sound, Names, None

\* What the media command writes to no other name's file changes nothing.
LEMMA WritingIsSound ==
    ASSUME NEW F \in [Names -> Nat], NEW D \in [Names -> Nat], NEW c \in [Files -> Contents], NEW r, NEW k,
           NEW f \in Files, NEW x,
           f \notin {F["staged"], F["published"], D["staged"], D["published"]},
           Sound(F, D, c, r, k)
    PROVE  Sound(F, D, [c EXCEPT ![f] = x], r, k)
BY DEF Sound, Names, None

\* A file that is published by both names may be reported.
LEMMA ReportIsSound ==
    ASSUME NEW F \in [Names -> Nat], NEW c, NEW r, NEW k, NEW D \in [Names -> Nat],
           F["published"] # None,
           Sound(F, D, c, r, k)
    PROVE  Sound(F, Synced(F, D, Names), c, F["published"], k)
BY Zenon DEF Sound, Synced, Names, None
-----------------------------------------------------------------------------
(* What a step does to all names *)

\* A link or an unlink changes one name of the artifact at hand.
LEMMA BindNames ==
    ASSUME TypeInv, NEW name \in Names, NEW f \in Nat, Bind(name, f)
    PROVE  /\ file' = [a \in Artifacts |-> IF a = art THEN [file[art] EXCEPT ![name] = f] ELSE file[a]]
           /\ \A a \in Artifacts, n \in Names :
                 file'[a][n] = IF a = art /\ n = name THEN f ELSE file[a][n]
BY Zenon DEF TypeInv, Bind

\* An fsync copies the names of a directory to the disk, those of all artifacts.
LEMMA SyncNames ==
    ASSUME TypeInv, NEW N \in SUBSET Names, disk' = synced(N)
    PROVE  /\ disk' \in [Artifacts -> [Names -> 0..created]]
           /\ \A a \in Artifacts : disk'[a] = Synced(file[a], disk[a], N)
BY Zenon DEF TypeInv, synced, Synced

\* Names are bound to files, which are numbers, or to None.
LEMMA NamesAreNat ==
    ASSUME TypeInv, ConstantsOK, NEW a \in Artifacts
    PROVE  file[a] \in [Names -> Nat] /\ disk[a] \in [Names -> Nat]
BY DEF TypeInv, ConstantsOK

\* A name that is bound to a file that exists
LEMMA BindTypes ==
    ASSUME TypeInv, NEW name \in Names, NEW f \in 0..created', Bind(name, f),
           created' \in Nat, created <= created', ConstantsOK
    PROVE  file' \in [Artifacts -> [Names -> 0..created']]
<1>1. f \in Nat
  OBVIOUS
<1>2. 0..created \subseteq 0..created'
  BY DEF TypeInv, ConstantsOK
<1>3. \A a \in Artifacts : file[a] \in [Names -> 0..created']
  BY Zenon, <1>2 DEF TypeInv
<1> QED
  BY <1>1, <1>3, BindNames DEF TypeInv

-----------------------------------------------------------------------------
(* Every step keeps the types *)

\* Every step keeps the types.
LEMMA TypeStep ==
    ASSUME ConstantsOK, TypeInv, OutputInv, Next
    PROVE  TypeInv'
<1> USE DEF ConstantsOK
<1> DEFINE Kept == /\ created' = created /\ answer' = answer /\ content' = content
                   /\ sources' = sources /\ art' = art
                   /\ out' \in 0..created /\ to' \in {"staged", "published"}
                   /\ failing' \in BOOLEAN
           Quiet == file' = file /\ disk' = disk
           Syncs == file' = file /\ \E N \in SUBSET Names : disk' = synced(N)
           Binds == /\ disk' = disk
                    /\ \E name \in Names, f \in 0..created : Bind(name, f)
<1>1. CASE Kept /\ Quiet
  BY Zenon, <1>1 DEF TypeInv
<1>2. CASE Kept /\ Syncs
  BY Zenon, <1>2, SyncNames DEF TypeInv
<1>3. CASE Kept /\ Binds
  BY <1>3, BindTypes DEF TypeInv
<1>4. ASSUME NEW a \in Artifacts, Transform(a) \/ SourceChanges(a)
      PROVE  TypeInv'
  <2>1. CASE Transform(a)
    <3>1. out' \in 0..created'
      BY <2>1 DEF TypeInv, Transform, None
    <3>2. UNCHANGED <<file, disk, content, sources, answer, created>> /\ art' \in Artifacts
          /\ to' = "staged" /\ failing' = FALSE
      BY Zenon, <2>1 DEF Transform, fs
    <3> QED BY Zenon, <3>1, <3>2 DEF TypeInv
  <2>2. CASE SourceChanges(a)
    <3>1. sources' \in [Artifacts -> SUBSET Changes]
      BY <2>2 DEF SourceChanges, TypeInv
    <3> QED BY Zenon, <2>2, <3>1 DEF TypeInv, SourceChanges, fs, helper
  <2> QED BY Zenon, <1>4, <2>1, <2>2
<1>5. None \in 0..created /\ \A n \in Names : artifact(n) \in 0..created
  BY DEF TypeInv, None, artifact
<1>6. directory("staged") \in SUBSET Names /\ directory("partial") \in SUBSET Names
      /\ directory(to) \in SUBSET Names /\ directory(from) \in SUBSET Names
      /\ to \in Names /\ from \in Names
  BY Zenon DEF directory, Names, from, TypeInv
<1>7. CASE Open \/ OpenFails \/ PrepareFails \/ CreateFails \/ StageJoin \/ StageBluray \/ StageDVD
           \/ Retain \/ PublishCompleted \/ Kill
  <2>1. Kept /\ Quiet
    BY Zenon, <1>7 DEF TypeInv, Open, OpenFails, PrepareFails, CreateFails, StageJoin, StageBluray, StageDVD,
         Staged, Retain, PublishCompleted, Kill, Goto, Exit, fs
  <2> QED BY Zenon, <2>1, <1>1
<1>8. CASE RemovalSynced \/ DiscardSynced \/ SyncNew \/ RollbackSynced \/ SyncOld
  <2>1. Kept /\ (Quiet \/ Syncs)
    BY Zenon, <1>6, <1>8 DEF TypeInv, RemovalSynced, DiscardSynced, SyncNew, RollbackSynced, SyncOld,
         syncDirectory, Goto, Exit, MoveFailed
  <2> QED BY Zenon, <2>1, <1>1, <1>2
<1>9. CASE PrepareStage
  <2>1. Kept /\ (Quiet \/ Binds)
    BY Zenon, <1>5, <1>9 DEF TypeInv, PrepareStage, inspectStaged, Goto, Exit, Names
  <2> QED BY Zenon, <2>1, <1>1, <1>3
<1>10. CASE Discard \/ Unlink \/ Rollback \/ Judge \/ RecoverBluray \/ RecoverDVD
  <2>1. Kept /\ (Quiet \/ Binds)
    BY Zenon, <1>5, <1>6, <1>10 DEF TypeInv, Discard, Unlink, Rollback, Judge, RecoverBluray, RecoverDVD, recover,
         Goto, Exit, Names
  <2> QED BY Zenon, <2>1, <1>1, <1>3
<1>11. CASE Link
  <2>1. Kept /\ (Quiet \/ Binds)
    BY Zenon, <1>5, <1>6, <1>11 DEF TypeInv, Link, Goto, MoveFailed
  <2> QED BY Zenon, <2>1, <1>1, <1>3
<1>12. CASE CreateStaged
  <2>1. CASE Kept /\ Quiet
    BY Zenon, <2>1, <1>1
  <2>2. CASE created < MaxFiles /\ created' = created + 1 /\ Bind("partial", created + 1)
             /\ out' = created + 1
    <3>1. created' \in 0..MaxFiles /\ created + 1 \in 0..created' /\ created <= created'
          /\ created' \in Nat /\ 0..created \subseteq 0..created'
      BY <2>2 DEF TypeInv
    <3>2. file' \in [Artifacts -> [Names -> 0..created']]
      BY Zenon, <2>2, <3>1, BindTypes DEF Names
    <3>3. disk' = disk /\ answer' = answer /\ content' = content /\ sources' = sources
          /\ art' = art /\ to' = to /\ failing' = failing
      BY Zenon, <1>12, <2>2 DEF CreateStaged, Goto, Exit
    <3> QED BY Zenon, <2>2, <3>1, <3>2, <3>3 DEF TypeInv
  <2>3. QED
    BY Zenon, <1>12, <2>1, <2>2 DEF CreateStaged, Goto, Exit, TypeInv
<1>13. CASE CreationSynced
  <2>1. Kept /\ (Syncs \/ Binds)
    BY Zenon, <1>5, <1>6, <1>13 DEF TypeInv, CreationSynced, syncDirectory, Goto, Exit, Names
  <2> QED BY Zenon, <2>1, <1>2, <1>3
<1>14. CASE Produce
  <2>1. \A good \in BOOLEAN : produced(good) \in Contents
    BY Zenon DEF produced, Joined, Remuxed, RemuxedDVD, Contents, Kinds, TypeInv
  <2>2. content' \in [Files -> Contents]
    BY Zenon, <1>14, <2>1 DEF Produce, TypeInv
  <2> QED BY Zenon, <1>14, <2>2 DEF Produce, TypeInv
<1>15. CASE Published
  <2>1. disk' \in [Artifacts -> [Names -> 0..created]]
    BY Zenon, <1>15, SyncNames DEF Published, TypeInv
  <2> QED BY Zenon, <1>15, <2>1 DEF Published, TypeInv, Goto, Exit
<1>16. CASE PowerFailure
  <2>1. file' \in [Artifacts -> [Names -> 0..created]]
    BY <1>16 DEF PowerFailure, TypeInv
  <2> QED BY Zenon, <1>16, <2>1 DEF PowerFailure, TypeInv, Goto, Exit
<1> QED
  BY Zenon, <1>4, <1>7, <1>8, <1>9, <1>10, <1>11, <1>12, <1>13, <1>14, <1>15, <1>16 DEF Next
-----------------------------------------------------------------------------
(* What a step does to the names of an artifact *)

\* From names F and D to F2 and D2: nothing; an fsync; the loss of what was not
\* synced; or a link or an unlink under the conditions of the lemmas above.
NameStep(F, D, F2, D2, c, r, k) ==
    \/ F2 = F /\ D2 = D
    \/ /\ F2 = F
       /\ \E N \in {{"published"}, {"partial", "staged"}, Names} : D2 = Synced(F, D, N)
    \/ \E N \in SUBSET Names : F2 = Synced(F, D, N) /\ D2 = F2
    \/ /\ D2 = D
       /\ \/ \E f \in Nat : F2 = [F EXCEPT !["partial"] = f]
          \/ /\ F["staged"] = None
             /\ \E f \in Nat : F2 = [F EXCEPT !["staged"] = f] /\ Finished(c[f], k)
          \/ /\ F2 = [F EXCEPT !["staged"] = None] /\ F["staged"] # None
             /\ F["published"] # F["staged"] \/ D["published"] = F["staged"]
             /\ D["published"] # F["staged"] \/ F["published"] = F["staged"]
             /\ F["staged"] \in {F["partial"], F["published"]} \/ c[F["staged"]] # "good"
          \/ /\ F2 = [F EXCEPT !["published"] = F["staged"]]
             /\ F["published"] = None /\ F["staged"] # None /\ c[F["staged"]] = "good"
          \/ /\ F2 = [F EXCEPT !["published"] = None]
             /\ F["published"] = F["staged"] /\ r = None

\* Such a step keeps the names sound.
LEMMA NameStepIsSound ==
    ASSUME NEW F \in [Names -> Nat], NEW D \in [Names -> Nat], NEW c, NEW r, NEW k, NEW F2, NEW D2,
           NameStep(F, D, F2, D2, c, r, k), Sound(F, D, c, r, k)
    PROVE  Sound(F2, D2, c, r, k)
<1>1. CASE F2 = F /\ D2 = D
  BY Zenon, <1>1
<1>2. CASE F2 = F /\ \E N \in {{"published"}, {"partial", "staged"}, Names} : D2 = Synced(F, D, N)
  <2> PICK N \in {{"published"}, {"partial", "staged"}, Names} : D2 = Synced(F, D, N)
    BY Zenon, <1>2
  <2>1. Sound(F, Synced(F, D, N), c, r, k)
    BY Zenon, SyncIsSound
  <2> QED BY Zenon, <1>2, <2>1
<1>3. CASE \E N \in SUBSET Names : F2 = Synced(F, D, N) /\ D2 = F2
  BY Zenon, <1>3, LossIsSound
<1>4. CASE D2 = D /\ \E f \in Nat : F2 = [F EXCEPT !["partial"] = f]
  <2> PICK f \in Nat : F2 = [F EXCEPT !["partial"] = f]
    BY Zenon, <1>4
  <2>1. Sound([F EXCEPT !["partial"] = f], D, c, r, k)
    BY Zenon, PartialIsSound
  <2> QED BY Zenon, <1>4, <2>1
<1>5. CASE D2 = D /\ F["staged"] = None
           /\ \E f \in Nat : F2 = [F EXCEPT !["staged"] = f] /\ Finished(c[f], k)
  <2> PICK f \in Nat : F2 = [F EXCEPT !["staged"] = f] /\ Finished(c[f], k)
    BY Zenon, <1>5
  <2>1. Sound([F EXCEPT !["staged"] = f], D, c, r, k)
    BY Zenon, <1>5, StagingIsSound
  <2> QED BY Zenon, <1>5, <2>1
<1>6. CASE D2 = D /\ F2 = [F EXCEPT !["staged"] = None] /\ F["staged"] # None
           /\ (F["published"] # F["staged"] \/ D["published"] = F["staged"])
           /\ (D["published"] # F["staged"] \/ F["published"] = F["staged"])
  BY Zenon, <1>6, UnstagingIsSound
<1>7. CASE D2 = D /\ F2 = [F EXCEPT !["published"] = F["staged"]]
           /\ F["published"] = None /\ F["staged"] # None /\ c[F["staged"]] = "good"
  BY Zenon, <1>7, PublishingIsSound
<1>8. CASE D2 = D /\ F2 = [F EXCEPT !["published"] = None] /\ F["published"] = F["staged"] /\ r = None
  BY Zenon, <1>8, UnpublishingIsSound
<1> QED
  BY Zenon, <1>1, <1>2, <1>3, <1>4, <1>5, <1>6, <1>7, <1>8 DEF NameStep

\* Such a step neither loses a retained file nor replaces a published one.
LEMMA NameStepKeepsFiles ==
    ASSUME NEW F \in [Names -> Nat], NEW D \in [Names -> Nat], NEW c, NEW r, NEW k, NEW F2, NEW D2,
           NameStep(F, D, F2, D2, c, r, k), Sound(F, D, c, r, k)
    PROVE  /\ D["staged"] \notin {None, F["partial"]}
              /\ D["staged"] \in {F["staged"], F["published"]}
              /\ c[D["staged"]] = "good"
              => /\ D["staged"] \in {D2["staged"], D2["published"]}
                 /\ D["staged"] \in {F2["staged"], F2["published"]}
           /\ F["published"] # None => F2["published"] \in {F["published"], None}
BY DEF NameStep, Sound, Synced, Names, None

AllNamesStep ==
    \A a \in Artifacts :
        NameStep(file[a], disk[a], file'[a], disk'[a], content, answer[a], Kind[a])

\* An fsync, of whichever directories
LEMMA SyncIsNameStep ==
    ASSUME TypeInv, UNCHANGED file,
           NEW N \in {{"published"}, {"partial", "staged"}, Names}, disk' = synced(N)
    PROVE  AllNamesStep
<1>1. N \in SUBSET Names
  BY Zenon DEF Names
<1>2. \A a \in Artifacts : file'[a] = file[a] /\ disk'[a] = Synced(file[a], disk[a], N)
  BY Zenon, <1>1, SyncNames
<1> QED
  BY Zenon, <1>2 DEF AllNamesStep, NameStep

\* A link or an unlink concerns the artifact at hand only.
LEMMA BindIsNameStep ==
    ASSUME TypeInv, UNCHANGED disk, NEW name \in Names, NEW f \in Nat, Bind(name, f),
           NameStep(file[art], disk[art], [file[art] EXCEPT ![name] = f], disk[art], content,
                    answer[art], Kind[art])
    PROVE  AllNamesStep
<1>1. ASSUME NEW a \in Artifacts
      PROVE  NameStep(file[a], disk[a], file'[a], disk'[a], content, answer[a], Kind[a])
  <2>1. CASE a = art
    <3>1. file'[a] = [file[art] EXCEPT ![name] = f]
      BY <2>1, BindNames
    <3> QED BY Zenon, <2>1, <3>1
  <2>2. CASE a # art
    <3>1. file'[a] = file[a]
      BY <2>2, BindNames
    <3> QED BY Zenon, <3>1 DEF NameStep
  <2> QED BY Zenon, <2>1, <2>2
<1> QED
  BY Zenon, <1>1 DEF AllNamesStep

\* Every action does this to the names of every artifact.
LEMMA EveryNameStep ==
    ASSUME ConstantsOK, Inv, Next
    PROVE  AllNamesStep
<1> USE DEF ConstantsOK
<1>1. TypeInv /\ NamesInv /\ OutputInv /\ MoveInv /\ None \in Nat /\ art \in Artifacts
      /\ "partial" \in Names /\ "staged" \in Names /\ "published" \in Names /\ out \in Nat
  BY DEF Inv, None, TypeInv, Names
<1>2. /\ file[art] \in [Names -> Nat] /\ disk[art] \in [Names -> Nat]
      /\ Sound(file[art], disk[art], content, answer[art], Kind[art])
  BY Zenon, <1>1, NamesAreNat DEF NamesInv
<1>3. CASE UNCHANGED <<file, disk>>
  BY Zenon, <1>3 DEF AllNamesStep, NameStep
<1>4. CASE \E name \in {"partial", "staged", "published"} :
              syncDirectory(name) /\ UNCHANGED file
  BY Zenon, <1>1, <1>4, SyncIsNameStep DEF syncDirectory, directory
<1>5. CASE \E f \in Nat : Bind("partial", f) /\ UNCHANGED disk
  BY Zenon, <1>1, <1>5, BindIsNameStep DEF NameStep
<1>6. CASE \E a \in Artifacts : Transform(a) \/ SourceChanges(a)
  BY Zenon, <1>6, <1>3 DEF Transform, SourceChanges, fs
<1>7. CASE Open \/ OpenFails \/ PrepareFails \/ CreateFails \/ StageJoin \/ StageBluray \/ StageDVD
           \/ Retain \/ PublishCompleted \/ Kill
  BY Zenon, <1>3, <1>7 DEF Open, OpenFails, PrepareFails, CreateFails, StageJoin, StageBluray, StageDVD,
       Staged, Retain, PublishCompleted, Kill, fs
<1>8. CASE RemovalSynced \/ DiscardSynced \/ SyncNew \/ RollbackSynced \/ SyncOld
  <2>1. to \in {"staged", "published"} /\ from \in {"partial", "staged"}
    BY Zenon, <1>1 DEF TypeInv, from
  <2> QED
    BY Zenon, <1>3, <1>4, <1>8, <2>1 DEF RemovalSynced, DiscardSynced, SyncNew, RollbackSynced, SyncOld, fs
<1>9. CASE PrepareStage \/ Discard \/ CreationSynced
  BY Zenon, <1>1, <1>3, <1>4, <1>5, <1>9 DEF PrepareStage, inspectStaged, Discard, CreationSynced, fs
<1>10. CASE CreateStaged
  <2>1. created + 1 \in Nat
    BY <1>1 DEF TypeInv
  <2> QED BY Zenon, <1>3, <1>5, <1>10, <2>1 DEF CreateStaged, fs
<1>11. CASE Produce
  BY Zenon, <1>3, <1>11 DEF Produce
<1>12. CASE Link
  <2>1. CASE UNCHANGED <<file, disk>>
    BY Zenon, <1>3, <2>1
  <2>2. CASE artifact(to) = None /\ Bind(to, artifact(from)) /\ UNCHANGED disk
    <3>1. artifact(from) = out /\ out # None /\ Finished(content[out], Kind[art])
          /\ (to = "published" => content[out] = "good")
      BY Zenon, <1>1, <1>12 DEF MoveInv, Moving, Link
    <3>2. CASE to = "staged"
      BY Zenon, <1>1, <1>2, <2>2, <3>1, <3>2, BindIsNameStep DEF artifact, NameStep
    <3>3. CASE to = "published"
      <4>1. file[art]["staged"] = out
        BY Zenon, <3>1, <3>3 DEF artifact, from
      <4> QED BY Zenon, <1>1, <1>2, <2>2, <3>1, <3>3, <4>1, BindIsNameStep DEF artifact, NameStep
    <3> QED BY Zenon, <1>1, <3>2, <3>3 DEF TypeInv
  <2> QED BY Zenon, <1>12, <2>1, <2>2 DEF Link, fs
<1>13. CASE Unlink
  <2>1. CASE UNCHANGED <<file, disk>>
    BY Zenon, <1>3, <2>1
  <2>2. CASE Bind(from, None) /\ UNCHANGED disk
    <3>1. CASE to = "staged"
      BY Zenon, <1>5, <1>1, <2>2, <3>1 DEF from
    <3>2. CASE to = "published"
      <4>1. file[art]["staged"] = out /\ file[art]["published"] = out
            /\ disk[art]["published"] = out /\ out # None
        BY Zenon, <1>1, <1>13, <3>2 DEF Unlink, MoveInv, Moving, artifact, from
      <4> QED BY Zenon, <1>1, <1>2, <2>2, <3>2, <4>1, BindIsNameStep DEF from, NameStep
    <3> QED BY Zenon, <1>1, <3>1, <3>2 DEF TypeInv
  <2> QED BY Zenon, <1>13, <2>1, <2>2 DEF Unlink, fs
<1>14. CASE Rollback
  <2>1. CASE UNCHANGED <<file, disk>>
    BY Zenon, <1>3, <2>1
  <2>2. CASE Bind(to, None) /\ UNCHANGED disk
    <3>1. out # None /\ artifact(to) = out /\ artifact(from) = out
          /\ (to = "staged" => Unpublished(out)) /\ (to = "published" => answer[art] = None)
      BY Zenon, <1>1, <1>14 DEF Rollback, MoveInv, Moving
    <3>2. CASE to = "staged"
      <4>1. file[art]["staged"] = out /\ file[art]["published"] # out /\ disk[art]["published"] # out
            /\ file[art]["partial"] = out
        BY Zenon, <1>1, <3>1, <3>2 DEF artifact, Unpublished, from
      <4> QED BY Zenon, <1>1, <1>2, <2>2, <3>1, <3>2, <4>1, BindIsNameStep DEF NameStep
    <3>3. CASE to = "published"
      <4>1. file[art]["staged"] = out /\ file[art]["published"] = out
        BY Zenon, <3>1, <3>3 DEF artifact, from
      <4> QED BY Zenon, <1>1, <1>2, <2>2, <3>1, <3>3, <4>1, BindIsNameStep DEF NameStep
    <3> QED BY Zenon, <1>1, <3>2, <3>3 DEF TypeInv
  <2> QED BY Zenon, <1>14, <2>1, <2>2 DEF Rollback, fs
<1>15. CASE RecoverBluray \/ RecoverDVD
  <2>1. content[out] # "bad"
    BY Zenon, <1>1, <1>15 DEF RecoverBluray, RecoverDVD, recover, OutputInv
  <2> QED BY Zenon, <1>3, <1>15, <2>1 DEF RecoverBluray, RecoverDVD, recover, fs
<1>16. CASE Judge
  <2>1. CASE UNCHANGED <<file, disk>>
    BY Zenon, <1>3, <2>1
  <2>2. CASE content[out] = "bad" /\ Bind("staged", None) /\ UNCHANGED disk
    <3>1. out # None /\ file[art]["staged"] = out
      BY Zenon, <1>1, <1>16 DEF Judge, OutputInv, artifact
    <3>2. file[art]["published"] # out /\ disk[art]["published"] # out
      BY Zenon, <1>2, <2>2, <3>1 DEF Sound
    <3> QED BY Zenon, <1>1, <1>2, <2>2, <3>1, <3>2, BindIsNameStep DEF NameStep
  <2> QED BY Zenon, <1>16, <2>1, <2>2 DEF Judge, fs
<1>17. CASE Published
  BY Zenon, <1>1, <1>3, <1>17, SyncIsNameStep DEF Published
<1>18. CASE PowerFailure
  <2>1. PICK kept \in SUBSET (Artifacts \X Names) :
           file' = [a \in Artifacts |-> [n \in Names |->
                       IF <<a, n>> \in kept THEN file[a][n] ELSE disk[a][n]]]
    BY Zenon, <1>18 DEF PowerFailure
  <2>2. ASSUME NEW a \in Artifacts
        PROVE  \E N \in SUBSET Names : file'[a] = Synced(file[a], disk[a], N) /\ disk'[a] = file'[a]
    <3> WITNESS {n \in Names : <<a, n>> \in kept} \in SUBSET Names
    <3> QED BY Zenon, <1>18, <2>1 DEF PowerFailure, Synced
  <2> QED BY Zenon, <2>2 DEF AllNamesStep, NameStep
<1> QED
  BY Zenon, <1>6, <1>7, <1>8, <1>9, <1>10, <1>11, <1>12, <1>13, <1>14, <1>15, <1>16, <1>17, <1>18 DEF Next

\* So the names stay sound, whatever the media command writes or the helper reports.
LEMMA NamesStep ==
    ASSUME ConstantsOK, Inv, Next
    PROVE  NamesInv'
<1> USE DEF ConstantsOK
<1>1. TypeInv /\ NamesInv /\ OutputInv
  BY Zenon DEF Inv
<1>2. \A a \in Artifacts : file[a] \in [Names -> Nat] /\ disk[a] \in [Names -> Nat]
         /\ Sound(file[a], disk[a], content, answer[a], Kind[a])
  BY Zenon, <1>1, NamesAreNat DEF NamesInv
<1>3. \A a \in Artifacts : Sound(file'[a], disk'[a], content, answer[a], Kind[a])
  BY Zenon, <1>2, EveryNameStep, NameStepIsSound DEF AllNamesStep
<1>4. CASE UNCHANGED <<content, answer>>
  BY Zenon, <1>3, <1>4 DEF NamesInv
<1>5. CASE Produce
  <2>1. CASE UNCHANGED content
    BY Zenon, <1>4, <1>5, <2>1 DEF Produce
  <2>2. ASSUME NEW x, content' = [content EXCEPT ![out] = x]
        PROVE  NamesInv'
    <3>1. out \in Files /\ Private(out) /\ content \in [Files -> Contents]
      BY <1>1, <1>5 DEF Produce, OutputInv, TypeInv, None, Files
    <3>2. ASSUME NEW a \in Artifacts
          PROVE  Sound(file[a], disk[a], content', answer[a], Kind[a])
      BY Zenon, <1>2, <2>2, <3>1, WritingIsSound DEF Private, Unpublished
    <3> QED BY Zenon, <1>5, <3>2 DEF Produce, NamesInv
  <2> QED BY Zenon, <1>5, <2>1, <2>2 DEF Produce
<1>6. CASE Published
  <2>1. CASE UNCHANGED answer
    BY Zenon, <1>4, <1>6, <2>1 DEF Published
  <2>2. CASE disk' = synced(Names) /\ answer' = [answer EXCEPT ![art] = out]
    <3>1. out # None /\ file[art]["published"] = out /\ UNCHANGED <<file, content>>
      BY Zenon, <1>1, <1>6 DEF Published, OutputInv, artifact
    <3>2. ASSUME NEW a \in Artifacts
          PROVE  Sound(file[a], disk'[a], content, answer'[a], Kind[a])
      <4>1. disk'[a] = Synced(file[a], disk[a], Names)
        BY Zenon, <1>1, <2>2, SyncNames
      <4>2. CASE a = art
        <5>1. answer'[a] = file[a]["published"]
          BY Zenon, <1>1, <2>2, <3>1, <4>2 DEF TypeInv
        <5> QED BY Zenon, <1>2, <3>1, <4>1, <4>2, <5>1, ReportIsSound
      <4>3. CASE a # art
        <5>1. answer'[a] = answer[a]
          BY Zenon, <1>1, <2>2, <4>3 DEF TypeInv
        <5> QED BY Zenon, <1>3, <3>1, <5>1
      <4> QED BY Zenon, <4>2, <4>3
    <3> QED BY Zenon, <3>1, <3>2 DEF NamesInv
  <2> QED BY Zenon, <1>6, <2>1, <2>2 DEF Published
<1>7. ASSUME NEW a \in Artifacts, Transform(a) \/ SourceChanges(a)
      PROVE  UNCHANGED <<content, answer>>
  BY Zenon, <1>7 DEF Transform, SourceChanges, fs
<1>8. CASE Open \/ OpenFails \/ PrepareStage \/ PrepareFails \/ RemovalSynced \/ CreateStaged
           \/ CreateFails \/ CreationSynced \/ StageJoin \/ StageBluray \/ StageDVD \/ Retain
           \/ Discard \/ DiscardSynced \/ Link \/ SyncNew \/ Unlink \/ Rollback \/ RollbackSynced
           \/ SyncOld \/ RecoverBluray \/ RecoverDVD \/ Judge \/ PublishCompleted \/ Kill
           \/ PowerFailure
  BY Zenon, <1>4, <1>8 DEF Open, OpenFails, PrepareStage, PrepareFails, RemovalSynced, CreateStaged,
       CreateFails, CreationSynced, StageJoin, StageBluray, StageDVD, Staged, Retain, Discard,
       DiscardSynced, Link, SyncNew, Unlink, Rollback, RollbackSynced, SyncOld, RecoverBluray,
       RecoverDVD, recover, Judge, PublishCompleted, Kill, PowerFailure, fs
<1> QED
  BY Zenon, <1>4, <1>5, <1>6, <1>7, <1>8 DEF Next

-----------------------------------------------------------------------------
(* Every step keeps what the helper relies on *)

\* Every step keeps what the running helper relies on.
LEMMA HelperStep ==
    ASSUME ConstantsOK, Inv, Next, TypeInv'
    PROVE  OutputInv' /\ MoveInv'
<1> USE DEF ConstantsOK, Moving
<1>1. TypeInv /\ NamesInv /\ OutputInv /\ MoveInv
  BY Zenon DEF Inv
<1>2. CASE pc' \in {"idle", "open", "create", "cleared", "removed", "discard",
                    "discarded", "rolled back"}
  BY Zenon, <1>2 DEF OutputInv, MoveInv
<1>3. ASSUME NEW a \in Artifacts, Transform(a)
      PROVE  pc' = "open"
  BY Zenon, <1>3 DEF Transform
<1>4. ASSUME NEW a \in Artifacts, SourceChanges(a)
      PROVE  OutputInv' /\ MoveInv'
  <2>1. UNCHANGED <<file, disk, content, answer, pc, art, out, to, failing>>
    BY Zenon, <1>4 DEF SourceChanges, fs, helper
  <2>2. \A b \in Artifacts : sources[b] \subseteq sources'[b]
    BY Zenon, <1>1, <1>4 DEF SourceChanges, TypeInv
  <2>3. verifies' => verifies
    BY Zenon, <1>1, <2>1, <2>2 DEF verifies, verifyParts, verifyInputsBluray, verifyInputsDVD, TypeInv, Kinds
  <2>4. OutputInv'
    BY Zenon, <1>1, <2>1, <2>3 DEF OutputInv, Private, Unpublished, artifact
  <2>5. MoveInv'
    BY Zenon, <1>1, <2>1 DEF MoveInv, Unpublished, artifact, from
  <2> QED BY Zenon, <2>4, <2>5
<1>5. CASE Open
  <2>1. then.opened = "create" \/ (then.opened = "prepare" /\ Kind[art] # "join")
    BY Zenon, <1>1 DEF then, join, bluray, dvd, TypeInv, Kinds
  <2> QED BY Zenon, <1>2, <1>5, <2>1 DEF Open, Goto, OutputInv, MoveInv
<1>6. CASE OpenFails \/ PrepareFails \/ RemovalSynced \/ CreateFails \/ Discard \/ DiscardSynced
           \/ Rollback \/ RollbackSynced \/ Kill \/ PowerFailure
  BY Zenon, <1>2, <1>6 DEF OpenFails, PrepareFails, RemovalSynced, CreateFails, Discard, DiscardSynced,
     Rollback, RollbackSynced, MoveFailed, Kill, PowerFailure, Goto, Exit
<1>7. CASE PrepareStage
  <2>1. CASE pc' \in {"idle", "cleared", "create"}
    BY Zenon, <1>2, <2>1
  <2>2. CASE inspectStaged = "complete" /\ pc' = "recover" /\ out' = artifact("staged")
             /\ UNCHANGED <<file, disk, content, art>>
    <3>1. out' = file[art]["staged"] /\ out' # None
      BY Zenon, <2>2 DEF inspectStaged, artifact
    <3>2. Kind[art] # "join" /\ Sound(file[art], disk[art], content, answer[art], Kind[art])
      BY Zenon, <1>1, <1>7 DEF PrepareStage, OutputInv, NamesInv, TypeInv
    <3>3. content[out'] = "good"
      BY Zenon, <3>1, <3>2 DEF Sound, Finished
    <3> QED BY Zenon, <2>2, <3>1, <3>3 DEF OutputInv, MoveInv
  <2> QED BY Zenon, <1>7, <2>1, <2>2 DEF PrepareStage, inspectStaged, Goto, Exit
<1>8. CASE CreateStaged
  <2>1. CASE pc' = "idle"
    BY Zenon, <1>2, <2>1
  <2>2. CASE pc' = "created" /\ out' = created + 1 /\ Bind("partial", created + 1)
             /\ UNCHANGED <<art, disk>>
    <3>1. out' # None /\ out' \in Nat /\ "partial" \in Names /\ "staged" # "partial"
          /\ "published" # "partial" /\ "staged" \in Names /\ "published" \in Names
      BY <1>1, <2>2 DEF TypeInv, None, Names
    <3>2. \A a \in Artifacts, n \in Names : file[a][n] # out' /\ disk[a][n] # out'
      BY <1>1, <2>2 DEF TypeInv
    <3>3. \A a \in Artifacts, n \in Names :
             file'[a][n] = IF a = art /\ n = "partial" THEN out' ELSE file[a][n]
      BY ZenonT(60), <1>1, <2>2, <3>1, BindNames
    <3>4. artifact("partial")' = out'
      BY Zenon, <1>1, <2>2, <3>1, <3>3 DEF artifact, TypeInv
    <3>5. Private(out)'
      BY <2>2, <3>1, <3>2, <3>3 DEF Private, Unpublished
    <3> QED BY Zenon, <2>2, <3>1, <3>4, <3>5 DEF OutputInv, MoveInv
  <2> QED BY Zenon, <1>8, <2>1, <2>2 DEF CreateStaged, Exit, Goto
<1>9. CASE CreationSynced
  <2>1. CASE pc' = "idle"
    BY Zenon, <1>2, <2>1
  <2>2. CASE pc' = "produce" /\ syncDirectory("partial") /\ UNCHANGED <<file, art, out>>
    <3>1. out # None /\ artifact("partial") = out /\ Private(out)
      BY Zenon, <1>1, <1>9 DEF CreationSynced, OutputInv
    <3>2. \A a \in Artifacts, n \in Names : disk'[a][n] \in {file[a][n], disk[a][n]}
      BY Zenon, <2>2 DEF syncDirectory, synced
    <3>3. Private(out)'
      BY Zenon, <2>2, <3>1, <3>2 DEF Private, Unpublished, Names
    <3>4. artifact("partial")' = out'
      BY Zenon, <2>2, <3>1 DEF artifact
    <3> QED BY Zenon, <2>2, <3>1, <3>3, <3>4 DEF OutputInv, MoveInv
  <2> QED BY Zenon, <1>9, <2>1, <2>2 DEF CreationSynced, Exit, Goto
<1>10. CASE Produce
  <2>1. out # None /\ artifact("partial") = out /\ Private(out) /\ out \in Files
    BY <1>1, <1>10 DEF Produce, OutputInv, TypeInv, None, Files
  <2>2. UNCHANGED <<file, disk, sources, art, out, to>> /\ pc' = "verify"
    BY Zenon, <1>10 DEF Produce
  <2>3. artifact("partial")' = out' /\ Private(out)' /\ (verifies' <=> verifies)
    BY Zenon, <2>1, <2>2 DEF artifact, Private, Unpublished, verifies, verifyParts, verifyInputsBluray,
                      verifyInputsDVD
  <2>4. ~failing' => content'[out] # "cut" /\ (content'[out] = "foreign" => ~verifies)
    <3>1. ASSUME NEW good \in BOOLEAN
          PROVE  produced(good) # "cut" /\ (produced(good) = "foreign" => ~verifies)
      BY Zenon, <1>1 DEF produced, Joined, Remuxed, RemuxedDVD, verifies, verifyParts,
                  verifyInputsBluray, verifyInputsDVD, TypeInv, Kinds
    <3>2. ~failing' => \E good \in BOOLEAN : content' = [content EXCEPT ![out] = produced(good)]
      BY Zenon, <1>10 DEF Produce
    <3>3. content \in [Files -> Contents]
      BY Zenon, <1>1 DEF TypeInv
    <3> QED BY Zenon, <2>1, <3>1, <3>2, <3>3
  <2> QED BY Zenon, <2>1, <2>2, <2>3, <2>4 DEF OutputInv, MoveInv
<1>11. CASE StageJoin \/ StageBluray \/ StageDVD
  <2>1. CASE pc' = "discard"
    BY Zenon, <1>2, <2>1
  <2>2. CASE pc' = "retain" /\ verifies /\ ~failing /\ (Kind[art] # "join" => content[out] # "bad")
             /\ UNCHANGED <<file, disk, content, art, out, to>>
    <3>1. out # None /\ artifact("partial") = out /\ Private(out) /\ content[out] # "cut"
          /\ content[out] # "foreign"
      BY Zenon, <1>1, <1>11, <2>2 DEF StageJoin, StageBluray, StageDVD, Staged, OutputInv
    <3>2. content[out] \in Contents
      BY <1>1, <3>1 DEF TypeInv, Files, None
    <3>3. Finished(content[out], Kind[art])
      BY Zenon, <2>2, <3>1, <3>2 DEF Finished, Contents
    <3>4. artifact("partial")' = out' /\ Private(out)' /\ Finished(content[out], Kind[art])'
      BY Zenon, <2>2, <3>1, <3>3 DEF artifact, Private, Unpublished
    <3> QED BY Zenon, <2>2, <3>1, <3>4 DEF OutputInv, MoveInv
  <2>3. UNCHANGED <<file, disk, content, art, out, to>> /\ pc' \in {"discard", "retain"}
    BY Zenon, <1>11 DEF StageJoin, StageBluray, StageDVD, Staged, Goto, fs
  <2>4. pc' = "retain" => verifies /\ ~failing /\ (Kind[art] # "join" => content[out] # "bad")
    BY Zenon, <1>1, <1>11 DEF StageJoin, StageBluray, StageDVD, Staged, Goto, TypeInv
  <2> QED BY Zenon, <2>1, <2>2, <2>3, <2>4
<1>12. CASE Retain
  <2>1. CASE pc' = "discard"
    BY Zenon, <1>2, <2>1
  <2>2. CASE pc' = "link" /\ to' = "staged" /\ UNCHANGED <<file, disk, content, art, out>>
    <3>1. out # None /\ artifact("partial") = out /\ Private(out) /\ Finished(content[out], Kind[art])
      BY Zenon, <1>1, <1>12 DEF Retain, OutputInv, MoveInv
    <3>2. artifact("partial")' = out' /\ Private(out)' /\ Finished(content[out], Kind[art])'
          /\ artifact(from)' = out'
      BY Zenon, <2>2, <3>1 DEF artifact, Private, Unpublished, from
    <3> QED BY Zenon, <2>2, <3>1, <3>2 DEF OutputInv, MoveInv
  <2> QED BY Zenon, <1>12, <2>1, <2>2 DEF Retain, Goto, fs
<1>13. CASE Link
  <2>1. CASE pc' \in {"discard", "idle"}
    BY Zenon, <1>2, <2>1
  <2>2. CASE artifact(to) = None /\ Bind(to, artifact(from)) /\ pc' = "sync new"
             /\ UNCHANGED <<disk, content, answer, art, out, to>>
    <3> pc = "link"
      BY Zenon, <1>13 DEF Link
    <3>1. artifact(from) = out /\ out # None /\ Finished(content[out], Kind[art])
          /\ (to = "published" => content[out] = "good") /\ out \in Nat
          /\ (to = "staged" => Private(out)) /\ to \in {"staged", "published"}
      <4>1. artifact(from) = out /\ out # None /\ Finished(content[out], Kind[art])
            /\ (to = "published" => content[out] = "good")
        BY Zenon, <1>1 DEF MoveInv
      <4>2. to = "staged" => Private(out)
        BY Zenon, <1>1 DEF OutputInv
      <4>3. out \in Nat /\ to \in {"staged", "published"}
        BY <1>1 DEF TypeInv
      <4> QED BY Zenon, <4>1, <4>2, <4>3
    <3>2. to \in Names /\ from \in Names /\ from # to /\ art \in Artifacts
      BY Zenon, <1>1, <3>1 DEF Names, from, TypeInv
    <3>3. \A a \in Artifacts, n \in Names :
             file'[a][n] = IF a = art /\ n = to THEN out ELSE file[a][n]
      <4>1. Bind(to, out)
        BY Zenon, <2>2, <3>1
      <4> QED BY ZenonT(90), <1>1, <3>1, <3>2, <4>1, BindNames
    <3>4. file'[art][to] = out /\ file'[art][from] = out
      BY Zenon, <3>1, <3>2, <3>3 DEF artifact
    <3>5. from' = from
      BY Zenon, <2>2 DEF from
    <3>6. artifact(to)' = out' /\ artifact(from)' = out'
      BY Zenon, <2>2, <3>4, <3>5 DEF artifact
    <3>7. to = "staged" => Unpublished(out)'
      BY Zenon, <2>2, <3>1, <3>3 DEF Private, Unpublished, Names
    <3>8. to = "published" => answer[art] = None
      <4>1. Sound(file[art], disk[art], content, answer[art], Kind[art])
        BY Zenon, <1>1, <3>2 DEF NamesInv
      <4> QED BY Zenon, <2>2, <4>1 DEF Sound, artifact
    <3>9. OutputInv'
      BY Zenon, <2>2 DEF OutputInv
    <3>10. MoveInv'
      BY Zenon, <2>2, <3>1, <3>6, <3>7, <3>8 DEF MoveInv
    <3> QED BY Zenon, <3>9, <3>10
  <2> QED BY Zenon, <1>13, <2>1, <2>2 DEF Link, Goto, MoveFailed
<1>14. CASE SyncNew
  <2>1. pc = "sync new" /\ UNCHANGED <<file, content, answer, art, out, to>>
    BY Zenon, <1>14 DEF SyncNew, Goto
  <2>2. out # None /\ Finished(content[out], Kind[art]) /\ (to = "published" => content[out] = "good")
        /\ artifact(from) = out /\ artifact(to) = out /\ (to = "staged" => Unpublished(out))
        /\ (to = "published" => answer[art] = None)
    BY Zenon, <1>1, <2>1 DEF MoveInv
  <2>3. \A a \in Artifacts, n \in Names : disk'[a][n] \in {file[a][n], disk[a][n]}
    BY Zenon, <1>14 DEF SyncNew, syncDirectory, synced
  <2>4. to = "staged" => Unpublished(out)'
    BY Zenon, <2>1, <2>2, <2>3 DEF Unpublished, Names
  <2>5. artifact(to)' = out' /\ artifact(from)' = out' /\ pc' \in {"unlink", "rollback"}
    BY Zenon, <1>14, <2>1, <2>2 DEF artifact, from, SyncNew, Goto
  <2>6. pc' = "unlink" /\ to = "published" => disk'[art]["published"] = out
    <3>1. pc' = "unlink" => syncDirectory(to)
      BY Zenon, <1>14 DEF SyncNew, Goto
    <3> QED BY <1>1, <2>2, <3>1 DEF syncDirectory, synced, directory, artifact, Names, TypeInv
  <2>7. OutputInv'
    BY Zenon, <2>5 DEF OutputInv
  <2>8. MoveInv'
    BY Zenon, <2>1, <2>2, <2>4, <2>5, <2>6 DEF MoveInv
  <2> QED BY Zenon, <2>7, <2>8
<1>15. CASE Unlink
  <2>1. pc = "unlink" /\ UNCHANGED <<disk, content, answer, art, out, to>>
        /\ pc' \in {"rollback", "sync old"}
    BY Zenon, <1>15 DEF Unlink, Goto
  <2>2. out # None /\ Finished(content[out], Kind[art]) /\ (to = "published" => content[out] = "good")
        /\ artifact(from) = out /\ artifact(to) = out /\ (to = "staged" => Unpublished(out))
        /\ (to = "published" => answer[art] = None) /\ to \in {"staged", "published"}
    BY Zenon, <1>1, <2>1 DEF MoveInv, TypeInv
  <2>3. CASE UNCHANGED file /\ pc' = "rollback"
    <3>1. artifact(to)' = out' /\ artifact(from)' = out' /\ (to = "staged" => Unpublished(out)')
      BY Zenon, <2>1, <2>2, <2>3 DEF artifact, from, Unpublished
    <3>2. OutputInv'
      BY Zenon, <2>3 DEF OutputInv
    <3> QED BY Zenon, <2>1, <2>2, <2>3, <3>1, <3>2 DEF MoveInv
  <2>4. CASE Bind(from, None) /\ pc' = "sync old"
    <3>1. from \in Names /\ to \in Names /\ from # to /\ art \in Artifacts /\ None \in Nat
          /\ from # "published"
      BY Zenon, <1>1, <2>2 DEF from, Names, TypeInv, None
    <3>2. \A a \in Artifacts, n \in Names :
             file'[a][n] = IF a = art /\ n = from THEN None ELSE file[a][n]
      BY ZenonT(60), <1>1, <2>4, <3>1, BindNames
    <3>3. artifact(to)' = out'
      BY Zenon, <2>1, <2>2, <3>1, <3>2 DEF artifact
    <3>4. to = "staged" => Unpublished(out)'
      BY Zenon, <2>1, <2>2, <3>1, <3>2 DEF Unpublished, Names
    <3>5. OutputInv'
      BY Zenon, <2>4 DEF OutputInv
    <3> QED BY Zenon, <2>1, <2>2, <2>4, <3>3, <3>4, <3>5 DEF MoveInv
  <2> QED BY Zenon, <1>15, <2>3, <2>4 DEF Unlink, Goto
<1>16. CASE SyncOld
  <2>1. CASE pc' \in {"discard", "idle"}
    BY Zenon, <1>2, <2>1
  <2>2. CASE pc' = IF to = "published" THEN "sync both" ELSE then.retained
    <3>1. pc = "sync old" /\ UNCHANGED <<file, content, art, out>>
      BY Zenon, <1>16 DEF SyncOld, Goto, MoveFailed
    <3>2. out # None /\ Finished(content[out], Kind[art]) /\ artifact(to) = out
          /\ to \in {"staged", "published"}
      BY Zenon, <1>1, <3>1 DEF MoveInv, TypeInv
    <3>3. \/ then.retained = "judge"
          \/ then.retained = "publish" /\ Kind[art] # "join"
      BY Zenon, <1>1 DEF then, join, bluray, dvd, TypeInv, Kinds
    <3>4. content[out] \in {"good", "bad"} /\ (Kind[art] # "join" => content[out] = "good")
      BY Zenon, <3>2 DEF Finished
    <3>5. artifact(to)' = out' \/ to' # to
      BY Zenon, <3>1, <3>2 DEF artifact
    <3>6. artifact("published")' = file[art]["published"] /\ artifact("staged")' = file[art]["staged"]
          /\ artifact(to) = file[art][to]
      BY Zenon, <3>1 DEF artifact
    <3>7. pc' \in {"sync both", "judge", "publish"}
      BY Zenon, <2>2, <3>3
    <3>8. MoveInv'
      BY Zenon, <3>7 DEF MoveInv
    <3>9. OutputInv'
      BY Zenon, <2>2, <3>1, <3>2, <3>3, <3>4, <3>6 DEF OutputInv
    <3> QED BY Zenon, <3>8, <3>9
  <2> QED BY Zenon, <1>16, <2>1, <2>2 DEF SyncOld, Goto, MoveFailed
<1>17. CASE RecoverBluray \/ RecoverDVD
  <2>1. CASE pc' = "idle"
    BY Zenon, <1>2, <2>1
  <2>2. CASE pc' = "publish"
    <3>1. out # None /\ content[out] = "good" /\ UNCHANGED <<content, out>>
      BY Zenon, <1>1, <1>17 DEF RecoverBluray, RecoverDVD, recover, OutputInv, Goto, Exit
    <3> QED BY Zenon, <2>2, <3>1 DEF OutputInv, MoveInv
  <2>3. content[out] # "bad"
    BY Zenon, <1>1, <1>17 DEF RecoverBluray, RecoverDVD, recover, OutputInv
  <2> QED BY Zenon, <1>17, <2>1, <2>2, <2>3 DEF RecoverBluray, RecoverDVD, recover, Goto, Exit
<1>18. CASE Judge
  <2>1. CASE pc' = "removed"
    BY Zenon, <1>2, <2>1
  <2>2. CASE pc' = "publish" /\ content[out] # "bad"
    <3>1. out # None /\ content[out] = "good" /\ UNCHANGED <<content, out>>
      BY Zenon, <1>1, <1>18, <2>2 DEF Judge, OutputInv, Goto
    <3> QED BY Zenon, <2>2, <3>1 DEF OutputInv, MoveInv
  <2> QED BY Zenon, <1>18, <2>1, <2>2 DEF Judge, Goto
<1>19. CASE PublishCompleted
  <2>1. out # None /\ content[out] = "good"
    BY Zenon, <1>1, <1>19 DEF PublishCompleted, OutputInv
  <2>2. UNCHANGED <<file, content, art, out>>
    BY Zenon, <1>19 DEF PublishCompleted, Goto, Exit, fs
  <2>3. CASE pc' = "idle"
    BY Zenon, <1>2, <2>3
  <2>4. CASE pc' = "sync both" /\ artifact("published") = out
    <3>1. artifact("published")' = out'
      BY Zenon, <2>2, <2>4 DEF artifact
    <3> QED BY Zenon, <2>1, <2>2, <2>4, <3>1 DEF OutputInv, MoveInv
  <2>5. CASE pc' = "link" /\ to' = "published" /\ artifact("staged") = out
    <3>1. artifact(from)' = out' /\ Finished(content[out], Kind[art])'
      BY Zenon, <2>1, <2>2, <2>5 DEF artifact, from, Finished
    <3> QED BY Zenon, <2>1, <2>2, <2>5, <3>1 DEF OutputInv, MoveInv
  <2> QED BY Zenon, <1>19, <2>3, <2>4, <2>5 DEF PublishCompleted, Goto, Exit
<1>20. CASE Published
  BY Zenon, <1>2, <1>20 DEF Published, Goto, Exit
<1> QED
  BY Zenon, <1>2, <1>3, <1>4, <1>5, <1>6, <1>7, <1>8, <1>9, <1>10, <1>11, <1>12, <1>13, <1>14, <1>15, <1>16,
     <1>17, <1>18, <1>19, <1>20 DEF Next

-----------------------------------------------------------------------------
(* The theorems *)

\* Nothing is there at the start.
LEMMA InvInit ==
    ASSUME ConstantsOK, Init
    PROVE  Inv
<1>1. TypeInv
  <2>1. created = 0 /\ 0 \in 0..0 /\ 0 \in 0..MaxFiles
    BY DEF ConstantsOK, Init
  <2>2. NoNames \in [Names -> 0..0]
    BY Zenon, <2>1 DEF NoNames, None
  <2>3. file \in [Artifacts -> [Names -> 0..0]] /\ disk = file
    BY Zenon, <2>2 DEF Init
  <2>4. content \in [Files -> Contents] /\ sources \in [Artifacts -> SUBSET Changes]
        /\ answer \in [Artifacts -> 0..0]
    BY Zenon, <2>1 DEF Init, Contents, None
  <2>5. art \in Artifacts /\ out \in 0..0 /\ to \in {"staged", "published"} /\ failing \in BOOLEAN
    BY Zenon, <2>1 DEF Init, None
  <2> QED BY Zenon, <2>1, <2>3, <2>4, <2>5 DEF TypeInv
<1>2. NamesInv
  BY Zenon DEF Init, NamesInv, Sound, NoNames, Names, None
<1>3. OutputInv /\ MoveInv
  BY Zenon DEF Init, OutputInv, MoveInv, Moving
<1> QED
  BY Zenon, <1>1, <1>2, <1>3 DEF Inv

\* Every step keeps the invariant.
LEMMA InvStep ==
    ASSUME ConstantsOK, Inv, [Next]_vars
    PROVE  Inv'
<1>1. CASE Next
  BY Zenon, <1>1, TypeStep, NamesStep, HelperStep DEF Inv
<1>2. CASE UNCHANGED vars
  BY ZenonT(60), <1>2 DEF vars, fs, helper, Inv, TypeInv, NamesInv, OutputInv, MoveInv, Private, Unpublished, artifact,
       from, verifies, verifyParts, verifyInputsBluray, verifyInputsDVD
<1> QED
  BY Zenon, <1>1, <1>2

\* What the invariant says of the files
LEMMA InvImplies ==
    ASSUME Inv
    PROVE  OnlyVerifiedPublished /\ StagedIsFinished /\ AnswerIsDurable
<1>1. DOMAIN file = Artifacts
  BY Zenon DEF Inv, TypeInv
<1>2. \A a \in Artifacts : Sound(file[a], disk[a], content, answer[a], Kind[a])
  BY Zenon DEF Inv, NamesInv
<1>3. OnlyVerifiedPublished
  BY Zenon, <1>1, <1>2 DEF OnlyVerifiedPublished, Sound
<1>4. StagedIsFinished
  BY Zenon, <1>1, <1>2 DEF StagedIsFinished, Sound, Finished
<1>5. AnswerIsDurable
  BY Zenon, <1>1, <1>2 DEF AnswerIsDurable, Sound
<1> QED
  BY Zenon, <1>3, <1>4, <1>5

\* What a step from a state of the invariant does to the files
LEMMA StepKeepsFiles ==
    ASSUME ConstantsOK, Inv, [Next]_vars
    PROVE  KeepsRetained /\ KeepsPublished
<1>1. TypeInv /\ DOMAIN file = Artifacts
  BY Zenon DEF Inv, TypeInv
<1>2. \A a \in Artifacts : file[a] \in [Names -> Nat] /\ disk[a] \in [Names -> Nat]
         /\ Sound(file[a], disk[a], content, answer[a], Kind[a])
  BY Zenon, <1>1, NamesAreNat DEF Inv, NamesInv
<1>3. AllNamesStep
  <2>1. CASE Next
    BY Zenon, <2>1, EveryNameStep
  <2>2. CASE UNCHANGED vars
    BY Zenon, <2>2 DEF vars, fs, AllNamesStep, NameStep
  <2> QED BY Zenon, <2>1, <2>2
<1>4. \A a \in Artifacts :
          NameStep(file[a], disk[a], file'[a], disk'[a], content, answer[a], Kind[a])
  BY Zenon, <1>3 DEF AllNamesStep
<1>5. KeepsRetained
  BY <1>1, <1>2, <1>4, NameStepKeepsFiles DEF KeepsRetained
<1>6. KeepsPublished
  BY Zenon, <1>1, <1>2, <1>4, NameStepKeepsFiles DEF KeepsPublished
<1> QED
  BY Zenon, <1>5, <1>6

\* The invariant holds in every reachable state, for any artifacts.
THEOREM InvAlways ==
    ASSUME ConstantsOK
    PROVE  Spec => []Inv
BY InvInit, InvStep, PTL DEF Spec

\* transform_linux.go: for any artifacts, and whatever fails, is killed or loses power,
\* what stands in a release directory is finished, valid and of the authorized sources.
THEOREM VerifiedBeforePublished ==
    ASSUME ConstantsOK
    PROVE  Spec => []OnlyVerifiedPublished
BY InvAlways, InvImplies, PTL

\* Retain: the staged name never holds an unfinished file or one made from changed
\* sources, and for a disc never an invalid one.
THEOREM FinishedBeforeStaged ==
    ASSUME ConstantsOK
    PROVE  Spec => []StagedIsFinished
BY InvAlways, InvImplies, PTL

\* Publish: the file a helper reported stays published, even through a power failure.
THEOREM AnswersAreDurable ==
    ASSUME ConstantsOK
    PROVE  Spec => []AnswerIsDurable
BY InvAlways, InvImplies, PTL

\* Retain, moveNoReplace: a durably retained, valid file is never lost.
THEOREM RetainedIsKept ==
    ASSUME ConstantsOK
    PROVE  Spec => RetainedNeverLost
BY InvAlways, StepKeepsFiles, PTL DEF Spec, RetainedNeverLost

\* moveNoReplace: a file in a release directory is never replaced by another one.
THEOREM PublishedIsKept ==
    ASSUME ConstantsOK
    PROVE  Spec => NeverReplaced
BY InvAlways, StepKeepsFiles, PTL DEF Spec, NeverReplaced
=============================================================================
