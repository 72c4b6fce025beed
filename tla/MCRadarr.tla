------------------------------ MODULE MCRadarr ------------------------------
(***************************************************************************)
(* The repair of a Radarr download for TLC: a download of two parts of a   *)
(* movie, one that would replace the movie's file, one that holds a        *)
(* Blu-ray and a DVD, and one whose files do not change; and the parts a   *)
(* planner may select for a join.  Only the part named by the first state  *)
(* takes steps.                                                            *)
(***************************************************************************)
EXTENDS MCRadarrEvidence

VARIABLES part, selected

-----------------------------------------------------------------------------
Replacement ==
    INSTANCE RadarrEvidence WITH
        Opinions <- PlainOpinions, Starts <- Replacing, Histories <- Grabbed, Stabilization <- 0,
        Proposals <- Offered, Changes <- {"library", "opinion"}, MaxTime <- 0, MaxRevisions <- 0
Discs ==
    INSTANCE RadarrEvidence WITH
        Paths <- DiscPaths, FileOf <- DiscFile, ProbeOf <- DiscProbe, Starts <- Blocked,
        Histories <- Grabbed, Stabilization <- 0, Proposals <- Offered,
        Changes <- {"file", "library", "grab"}, MaxChanges <- 1, MaxTime <- 0, MaxRevisions <- 0,
        MaxFaults <- 1
Noise ==
    INSTANCE RadarrEvidence WITH
        Opinions <- CodesOnly, Starts <- Blocked \cup Replacing, Histories <- Grabbed,
        Stabilization <- 0, Proposals <- Offered, Changes <- {"mount", "library", "opinion"},
        MaxTime <- 0, MaxRevisions <- 0

Durations == INSTANCE MCJoinSelection WITH MaxInt <- 9, Agreement <- 2, Vary <- "durations", MaxParts <- 3
Streams == INSTANCE MCJoinSelection WITH MaxInt <- 99, Agreement <- 2, Vary <- "streams", MaxParts <- 3

RadarrInit ==
    /\ part \in {"plain", "replacement", "discs", "noise", "durations", "streams"}
    /\ CASE part = "replacement" -> Replacement!Init
         [] part = "noise" -> Noise!Init
         [] part = "plain" -> Init
         [] OTHER -> Discs!Init
    /\ selected = <<>>
RadarrNext ==
    /\ \/ part = "plain" /\ Next /\ UNCHANGED selected
       \/ part = "replacement" /\ Replacement!Next /\ UNCHANGED selected
       \/ part = "discs" /\ Discs!Next /\ UNCHANGED selected
       \/ part = "noise" /\ Noise!Next /\ UNCHANGED selected
       \/ part = "durations" /\ Durations!Next /\ UNCHANGED vars
       \/ part = "streams" /\ Streams!Next /\ UNCHANGED vars
    /\ UNCHANGED part
Repairs == RadarrInit /\ [][RadarrNext]_<<vars, part, selected>>

\* CaseID, matchManualImports: while only the device, the movie's file and the codes
\* of the rejections change, no observation takes a plan away; and an output that an
\* earlier attempt has published does not cost an observation its evidence.
NoiseIsHarmless == [][part = "noise" => PlanKept /\ OutputIgnored]_vars

\* AssessJoinDuration, assessJoinStructure: the expected length and its tolerance
\* cover every length a proper join of the parts can have, the sums of an accepted
\* join are those of its parts, and no file is joined with itself.
JoinIsSound == part = "durations" => Durations!JoinIsSound

\* AssessStreamCompatibility: comparing all parts with the first is enough, and no
\* metadata a better probe could add makes refused parts compatible.
VerdictIsSound == part = "streams" => Streams!VerdictIsSound
=============================================================================
