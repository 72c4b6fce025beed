------------------------------ MODULE MCQueue ------------------------------
(***************************************************************************)
(* What Repairr knows of a queue, for TLC: the jobs it keeps for the       *)
(* entries, and the pages in which it reads them and their history.  Only  *)
(* the part named by the first state takes steps.                          *)
(***************************************************************************)
EXTENDS QueueIdentity, PagedRead, TLC

CONSTANTS a1, a2, a3, a4, d1, d2

VARIABLE part

\* Two albums in one download; one with a download of its own, and one whose
\* entry has no download ID
downloads == [a \in Albums |-> IF a = a3 THEN d2 ELSE IF a = a4 THEN NoDownload ELSE d1]

Shared == INSTANCE QueueIdentity WITH Albums <- {a1, a2}
Single == INSTANCE QueueIdentity WITH Albums <- {a3, a4}

QueueInit ==
    /\ part \in {"shared", "single", "pages"}
    /\ Init
    /\ IF part = "pages" THEN ReadInit
       ELSE /\ reader = "queue" /\ list = <<>> /\ unused = Listed /\ subject = <<>>
            /\ page = 0 /\ records = <<>> /\ total = None /\ throughout = {} /\ outcome = "none"

QueueNext ==
    /\ \/ part = "shared" /\ Shared!Next /\ UNCHANGED readVars
       \/ part = "single" /\ Single!Next /\ UNCHANGED readVars
       \/ part = "pages" /\ ReadNext /\ UNCHANGED vars
    /\ UNCHANGED part
Queue == QueueInit /\ [][QueueNext]_<<part, vars, readVars>>

Symmetry == Permutations(Ids) \cup Permutations(Rows)
=============================================================================
