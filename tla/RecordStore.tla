----------------------------- MODULE RecordStore -----------------------------
(***************************************************************************)
(* How the stores of the repair service and of its worker change a record  *)
(* file (worker/joinstate, internal/casestore, internal/lidarrrepair and   *)
(* internal/planningstate all do it this way):                             *)
(* take the store's flock, read the record, decide, write a temporary file,*)
(* sync it, rename it over the record, sync the directory, unlock.         *)
(*                                                                         *)
(* Callers are threads of one or several processes.  A caller may be       *)
(* killed at any step, which frees its lock; a power failure stops all of  *)
(* them and may take back what was not synced.                             *)
(***************************************************************************)
EXTENDS Naturals

CONSTANTS Callers, Ops, NoRecord, Outcome(_, _),
          Torn,        \* a file whose data did not reach the disk
          Free,        \* nobody holds the lock
          MaxCalls,    \* bound: calls of each caller
          MaxFailures  \* bound: failing system calls, kills, power failures

ASSUME RecordStoreAssumption ==
    /\ Free \notin Callers
    /\ MaxCalls \in Nat /\ MaxFailures \in Nat

VARIABLES
    record, safe,      \* the record file as seen, and as it survives
    durable,           \* the data of the file seen is on the disk
    told,              \* the record last returned with changed = true
    holder,            \* who holds the flock
    stage, op,         \* each caller's step and operation
    seen, next,        \* what it read, and what it is about to write
    flushed,           \* its temporary file is synced
    calls, failures

recordFile == <<record, safe, durable>>
caller     == <<stage, op, seen, next, flushed>>
recordVars == <<recordFile, told, holder, caller, calls, failures>>

RecordInit ==
    /\ record = NoRecord /\ safe = NoRecord /\ durable = TRUE
    /\ told = NoRecord /\ holder = Free
    /\ stage = [c \in Callers |-> "idle"]
    /\ op = [c \in Callers |-> NoRecord]
    /\ seen = [c \in Callers |-> NoRecord]
    /\ next = seen
    /\ flushed = [c \in Callers |-> FALSE]
    /\ calls = [c \in Callers |-> 0] /\ failures = 0

-----------------------------------------------------------------------------
Advance(c, step) == stage' = [stage EXCEPT ![c] = step]
Failure == failures < MaxFailures /\ failures' = failures + 1

\* A caller that returned or died has nothing in its hands.
Quit(C) ==
    /\ stage' = [c \in Callers |-> IF c \in C THEN "idle" ELSE stage[c]]
    /\ op' = [c \in Callers |-> IF c \in C THEN NoRecord ELSE op[c]]
    /\ seen' = [c \in Callers |-> IF c \in C THEN NoRecord ELSE seen[c]]
    /\ next' = [c \in Callers |-> IF c \in C THEN NoRecord ELSE next[c]]
    /\ flushed' = [c \in Callers |-> c \notin C /\ flushed[c]]

Call(c, o) ==
    /\ stage[c] = "idle" /\ calls[c] < MaxCalls
    /\ Advance(c, "lock")
    /\ op' = [op EXCEPT ![c] = o]
    /\ calls' = [calls EXCEPT ![c] = @ + 1]
    /\ UNCHANGED <<recordFile, told, holder, seen, next, flushed, failures>>

\* Mutant: the lock does not exclude a second caller.
lockShared(c) ==
    /\ stage[c] = "lock"
    /\ holder' = c /\ Advance(c, "read")
    /\ UNCHANGED <<recordFile, told, op, seen, next, flushed, calls, failures>>

\* lock: flock(LOCK_EX) waits for whoever holds it
lock(c) ==
    /\ stage[c] = "lock" /\ holder = Free
    /\ holder' = c /\ Advance(c, "read")
    /\ UNCHANGED <<recordFile, told, op, seen, next, flushed, calls, failures>>

\* readExecution: a missing file is no record, a torn one fails to decode
readExecution(c) ==
    /\ stage[c] = "read"
    /\ seen' = [seen EXCEPT ![c] = record]
    /\ Advance(c, IF record = Torn THEN "unlock" ELSE "decide")
    /\ UNCHANGED <<recordFile, told, holder, op, next, flushed, calls, failures>>

\* update: an error or an unchanged record is returned without writing
refuse(c) ==
    /\ stage[c] = "decide" /\ Outcome(op[c], seen[c]) \subseteq {seen[c]}
    /\ Advance(c, "unlock")
    /\ UNCHANGED <<recordFile, told, holder, op, seen, next, flushed, calls, failures>>

update(c) ==
    /\ stage[c] = "decide"
    /\ \E n \in Outcome(op[c], seen[c]) \ {seen[c]} : next' = [next EXCEPT ![c] = n]
    /\ Advance(c, "flush")
    /\ UNCHANGED <<recordFile, told, holder, op, seen, flushed, calls, failures>>

\* Replace: the data reaches the disk before the name changes
Sync(c) ==
    /\ stage[c] = "flush"
    /\ flushed' = [flushed EXCEPT ![c] = TRUE]
    /\ Advance(c, "rename")
    /\ UNCHANGED <<recordFile, told, holder, op, seen, next, calls, failures>>

Rename(c) ==
    /\ stage[c] = "rename"
    /\ record' = next[c] /\ durable' = flushed[c]
    /\ Advance(c, "settle")
    /\ UNCHANGED <<safe, told, holder, op, seen, next, flushed, calls, failures>>

\* SyncDirectory, after which the caller is told that it changed the record
SyncDirectory(c) ==
    /\ stage[c] = "settle"
    /\ safe' = IF durable THEN record ELSE Torn
    /\ told' = record
    /\ Advance(c, "unlock")
    /\ UNCHANGED <<record, durable, holder, op, seen, next, flushed, calls, failures>>

\* Any system call of Replace may fail, the last one after the rename.
replaceFails(c) ==
    /\ stage[c] \in {"flush", "rename", "settle"} /\ Failure
    /\ Advance(c, "unlock")
    /\ UNCHANGED <<recordFile, told, holder, op, seen, next, flushed, calls>>

unlock(c) ==
    /\ stage[c] = "unlock"
    /\ holder' = Free /\ Quit({c})
    /\ UNCHANGED <<recordFile, told, calls, failures>>

-----------------------------------------------------------------------------
(* Faults *)

\* The kernel drops the flock with the descriptor of the dead process.
KillCaller(c) ==
    /\ stage[c] # "idle" /\ Failure
    /\ Quit({c})
    /\ holder' = IF holder = c THEN Free ELSE holder
    /\ UNCHANGED <<recordFile, told, calls>>

\* What was renamed but not synced is there or not after the restart; a file
\* whose data was not synced is torn.
PowerLoss ==
    /\ Failure
    /\ record' \in {safe, IF durable THEN record ELSE Torn}
    /\ safe' = record' /\ durable' = TRUE
    /\ holder' = Free /\ Quit(Callers)
    /\ UNCHANGED <<told, calls>>

-----------------------------------------------------------------------------
Step(c) ==
    \/ lock(c) \/ readExecution(c) \/ refuse(c) \/ update(c)
    \/ Sync(c) \/ Rename(c) \/ SyncDirectory(c) \/ unlock(c)

RecordNext ==
    \/ \E c \in Callers : \/ \E o \in Ops : Call(c, o)
                          \/ Step(c) \/ replaceFails(c) \/ KillCaller(c)
    \/ PowerLoss

\* A running caller keeps running; calls, failures and kills need not happen.
Fairness == \A c \in Callers : WF_recordVars(Step(c))

RecordSpec == RecordInit /\ [][RecordNext]_recordVars /\ Fairness

-----------------------------------------------------------------------------
(* Properties *)

\* The store implements the atomic record: an update never builds on a record
\* that another caller has replaced since it was read, a reader never sees a
\* torn file, and no fault undoes a record a caller was told it wrote.
Atomic == INSTANCE AtomicRecord
AtomicSpec == Atomic!Spec

\* flock: nobody waits for ever for a lock, whoever died holding it.
EveryCallEnds == \A c \in Callers : stage[c] # "idle" ~> stage[c] = "idle"
=============================================================================
