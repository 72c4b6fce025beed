----------------------------- MODULE JobStates -----------------------------
(***************************************************************************)
(* The life of a job in Repairr's database (internal/jobs): its states and *)
(* the transactions that depend on them alone.                             *)
(*                                                                         *)
(* The store is one SQLite connection with immediate transactions, so each *)
(* method is atomic.  A method is an operator that maps the row it read to *)
(* the row it saves; its guard (the ErrConflict tests of the method) is an *)
(* operator of its own.  retry says that RetryAt is still in the future.   *)
(***************************************************************************)
EXTENDS Naturals

Absent    == "absent"      \* no row
Observed  == "observed"
Ready     == "ready"
Running   == "running"
Importing == "importing"
Imported  == "imported"
Blocked   == "blocked"
Failed    == "failed"
Removed   == "removed"
Removing  == "removing"

States == {Absent, Observed, Ready, Running, Importing, Imported, Blocked,
           Failed, Removed, Removing}

NoAction   == "none"
Reconsider == "reconsider"
Delete     == "delete"

active(state) == state \in {Running, Importing, Removing}

-----------------------------------------------------------------------------
(* Operator and cleanup requests *)

mayRequest(row, action) ==
    /\ row.state # Absent
    /\ ~active(row.state)
    /\ row.state # Removed
    /\ action = Reconsider => row.state # Imported

requestAction(row, action) ==
    LET asked == [row EXCEPT !.rev = @ + 1, !.action = action, !.retry = FALSE]
    IN  IF action = Reconsider
        THEN [asked EXCEPT !.tries = 0, !.state = Observed]
        ELSE asked

-----------------------------------------------------------------------------
(* Removal *)

\* Mutant: a removal that was interrupted counts as active.
mayStartRemovalInactive(row) ==
    row.action = Delete /\ row.state # Absent /\ ~active(row.state)

mayStartRemoval(row) ==
    row.action = Delete /\ row.state \notin {Absent, Running, Importing}

StartRemoval(row) == [row EXCEPT !.state = Removing]

mayFinishRemoval(row, requested) ==
    row.rev = requested.rev /\ row.action = Delete

FinishRemoval(row, failure) ==
    IF failure THEN [row EXCEPT !.state = Blocked, !.retry = TRUE]
    ELSE [row EXCEPT !.state = Removed, !.inQueue = FALSE, !.action = NoAction]

-----------------------------------------------------------------------------
(* ReconcileQueue, for a row whose entry was matched (present) or not: which *)
(* entry that is, module QueueIdentity says.                                *)

ReconcileQueue(row, present) ==
    IF row.state = Absent THEN row
    ELSE IF present
    THEN [row EXCEPT !.inQueue = TRUE,
                     !.state = IF @ = Removed THEN Blocked ELSE @]
    ELSE IF ~row.inQueue THEN row
    ELSE IF active(row.state) \/ row.state = Imported
    THEN [row EXCEPT !.inQueue = FALSE]
    ELSE [row EXCEPT !.inQueue = FALSE, !.state = Removed, !.action = NoAction]
=============================================================================
