----------------------------- MODULE MCRepairr -----------------------------
(* Instances of Repairr for TLC: one Radarr or Lidarr service. *)
EXTENDS Repairr, TLC

CONSTANTS s1, s2, s3, k1, k2

\* Radarr has no planning fingerprint ...
radarrKeys == [s \in Sources \cup {NoSource} |-> NoKey]

\* ... and tells its sources apart only by equality.
radarrSymmetry == Permutations(Sources)

\* Lidarr has one: s1 and s2 differ in assessment only, s3 in its planning inputs.
lidarrKeys == [s \in Sources \cup {NoSource} |->
                  CASE s \in {s1, s2} -> k1 [] s = s3 -> k2 [] OTHER -> NoKey]

\* A decision, and a backoff, stored before planning fingerprints existed
legacyRows ==
    {[NoRow EXCEPT !.state = Blocked, !.inQueue = TRUE, !.src = s,
                   !.tries = 1, !.plan = [src |-> s, rev |-> 0]] : s \in {s1, s2}}
    \cup {[NoRow EXCEPT !.state = Observed, !.inQueue = TRUE, !.src = s,
                        !.tries = 1, !.retry = TRUE] : s \in {s1, s2}}
=============================================================================
