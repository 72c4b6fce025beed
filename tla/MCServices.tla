----------------------------- MODULE MCServices -----------------------------
(***************************************************************************)
(* Two Lidarr services for TLC: one with the constants of the              *)
(* configuration, where calls fail and rows of older releases are found,   *)
(* and one whose operator asks again.  They share no job, so that a        *)
(* behaviour is one of one of them.                                        *)
(***************************************************************************)
EXTENDS MCRepairr

VARIABLE service

\* A Lidarr whose operator asks again
Asked ==
    INSTANCE Repairr WITH
        Legacy <- {},
        MaxRevision <- 1, MaxAttempts <- 0, MaxFaults <- 0

ServicesInit ==
    \/ service = "failing" /\ Init
    \/ service = "asked" /\ Asked!Init
ServicesNext ==
    /\ \/ service = "failing" /\ Next
       \/ service = "asked" /\ Asked!Next
    /\ UNCHANGED service
Services == ServicesInit /\ [][ServicesNext]_<<vars, service>>

\* Sources that differ in assessment only are told apart only by equality.
Symmetry == Permutations({s1, s2})
=============================================================================
