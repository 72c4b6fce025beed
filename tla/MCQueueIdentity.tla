-------------------------- MODULE MCQueueIdentity --------------------------
(* Instances of QueueIdentity for TLC. *)
EXTENDS QueueIdentity, TLC

CONSTANTS a1, a2, d1

\* Two albums in one download
sharedDownload == [a \in Albums |-> d1]

identitySymmetry == Permutations(Ids) \cup Permutations(Rows)
=============================================================================
