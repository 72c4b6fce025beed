------------------------------ MODULE MCLidarr ------------------------------
(***************************************************************************)
(* The repair of a Lidarr download for TLC: the evidence and the import it *)
(* authorizes, the planning state with and without records of an earlier   *)
(* version, the import executions, and the worker's workspaces for a       *)
(* directory and for an archive.  Only the part named by the first state   *)
(* takes steps; the others are at rest.                                    *)
(***************************************************************************)
EXTENDS LidarrEvidence, LidarrImports, LidarrStore, Materialize, TLC

VARIABLE part

-----------------------------------------------------------------------------
(* Two releases: "lp" of tracks 1 and 2, and "cd" of track 3, to which a   *)
(* refresh adds track 4.  A download has two audio files; its second       *)
(* version has the same files under each other's names.                    *)

AlbumTracks(r, refreshed) ==
    IF r = "lp" THEN {1, 2} ELSE IF refreshed THEN {3, 4} ELSE {3}
Versions == <<<<"a", "b">>, <<"b", "a">>>>

First == {1} \X {1, 2, 3}
Mappings == {<<p>> : p \in First}
            \cup {<<p, q>> : p \in First, q \in {1, 2} \X {1, 2, 3}}

\* Whatever an answer can say: a known or an unknown capability, any mapping of
\* the first file and one more, evidence that the case may lack.
Answers(c) ==
    {[kind |-> "no_repair", case |-> c, refs |-> {}]}
    \cup {[kind |-> "import_missing_tracks", case |-> c, release |-> r, mappings |-> m,
            refs |-> IF Len(m) = 1 THEN {} ELSE {"cd"}] : r \in {"lp", "cd"}, m \in Mappings}

Listing == <<"lp", "cd">>

\* A planner that answers with a release it is offered, and whose answers are asked
\* for again; calls that fail.
FirstOffer(c) ==
    {[kind |-> "import_missing_tracks", case |-> c, release |-> r, mappings |-> <<<<1, t>>>>,
      refs |-> {}] : r \in {"lp", "cd"}, t \in {1, 3}}
Failing ==
    INSTANCE LidarrEvidence WITH
        Proposals <- FirstOffer, Kinds <- {"rar"}, Changes <- {"download", "view"},
        MaxChanges <- 2, MaxRevisions <- 1, MaxFaults <- 1

-----------------------------------------------------------------------------
(* The planning state of one queue entry and two processes: LidarrStore      *)
(* itself with one old record, and without any                               *)

OldRecords == <<[case |-> "c1", bindings |-> 1, decision |-> "d1"]>>
Unmigrated ==
    INSTANCE LidarrStore WITH Legacy <- <<>>, MaxWrites <- 4, MaxCrashes <- 1

-----------------------------------------------------------------------------
(* The import executions: LidarrImports itself *)

ASSUME ImportsConstants == ConstantsOK

-----------------------------------------------------------------------------
(* The workspaces: Materialize itself for a directory, and an archive.       *)
(* Every other version of a cue sheet is a valid one of two tracks.          *)

SheetTracks(version) == IF version % 2 = 0 THEN 2 ELSE 0
InDirectory == <<"a.wv", "b.flac", "c.cue", "d.link">>
InArchive == <<"m1", "m2">>
SplitNames == <<"01.flac", "02.flac">>
Archived ==
    INSTANCE Materialize WITH
        Names <- <<"readme">>, Audio <- {}, Cue <- {}, Wv <- {}, Unsafe <- {},
        Initially <- {"x.tar"}, Edited <- {"x.tar"}, Operations <- {"tar", "rar"},
        MaxRequests <- 3

-----------------------------------------------------------------------------
LidarrInit ==
    /\ part \in {"evidence", "failing", "planned", "migrated", "imports", "directory", "archive"}
    /\ CASE part = "evidence" -> EvidenceInit
         [] part = "failing" -> Failing!EvidenceInit
         [] OTHER -> /\ download = Absent /\ workspaces = <<>> /\ catalog = Absent /\ queue = Absent
                     /\ view = Absent /\ job = [state |-> "observed"] /\ run = [pc |-> "idle"]
                     /\ changes = 0 /\ revisions = 0 /\ faults = 0 /\ since = Absent
    /\ StoreInit
    /\ IF part = "imports" THEN Init
       ELSE /\ observed = Absent /\ legacy = Absent /\ store = "closed"
            /\ imports = [c \in Cases |-> Absent] /\ history = <<>> /\ commands = <<>>
            /\ began = <<>> /\ exec = <<>>
    /\ IF part = "directory" THEN WorkerInit ELSE Archived!WorkerInit

LidarrNext ==
    /\ \/ part = "evidence" /\ EvidenceNext /\ UNCHANGED <<storeVars, vars, workerVars>>
       \/ part = "failing" /\ Failing!EvidenceNext /\ UNCHANGED <<storeVars, vars, workerVars>>
       \/ part = "planned" /\ Unmigrated!StoreNext /\ UNCHANGED <<evidenceVars, vars, workerVars>>
       \/ part = "migrated" /\ StoreNext /\ UNCHANGED <<evidenceVars, vars, workerVars>>
       \/ part = "imports" /\ Next /\ UNCHANGED <<evidenceVars, storeVars, workerVars>>
       \/ part = "directory" /\ WorkerNext /\ UNCHANGED <<evidenceVars, storeVars, vars>>
       \/ part = "archive" /\ Archived!WorkerNext /\ UNCHANGED <<evidenceVars, storeVars, vars>>
    /\ UNCHANGED part

Repairs == LidarrInit /\ [][LidarrNext]_<<part, evidenceVars, storeVars, vars, workerVars>>

Symmetry == Permutations(Cases) \cup Permutations(Executors)
=============================================================================
