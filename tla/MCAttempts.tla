----------------------------- MODULE MCAttempts -----------------------------
(***************************************************************************)
(* What must happen in the end, for TLC: a Radarr repair, a call of the    *)
(* import executor or of a record store, and the removal of queue entries. *)
(* Only the part named by the first state takes steps, and each property   *)
(* is stated under the fairness of its own part.                           *)
(***************************************************************************)
EXTENDS MCRadarrEvidence

CONSTANTS Absent, Nothing, Torn

VARIABLES part,
          observed, legacy, store, imports, history, commands, began, exec,
          queue, used, complete, records, runner, failures,
          record, safe, durable, told, holder, stage, op, read, next, flushed, calls, broken

importVars == <<observed, legacy, store, imports, history, commands, began, exec>>
finalizerVars == <<queue, used, complete, records, runner, failures>>
recordVars == <<record, safe, durable, told, holder, stage, op, read, next, flushed, calls, broken>>

-----------------------------------------------------------------------------
Imports ==
    INSTANCE LidarrImports WITH
        Cases <- {"c1"}, WantedTracks <- {"t1", "t2"}, Executors <- {"e1"},
        TerminalChecks <- 3, MaxHistory <- 3

Finalizer ==
    INSTANCE QueueFinalizer WITH
        run <- runner,
        QueueIds <- {1, 2}, Downloads <- {"d1", "d2"}, Runners <- {"r1"}, Limit <- 1,
        Reuse <- FALSE, MaxFailures <- 1

\* A record is the number of the write that made it.
Written(o, r) == {o}
Store ==
    INSTANCE RecordStore WITH
        seen <- read, failures <- broken, NoRecord <- Absent,
        Callers <- {"k1", "k2"}, Ops <- {1, 2}, Outcome <- Written, Free <- "free",
        MaxCalls <- 2, MaxFailures <- 1

AttemptsInit ==
    /\ part \in {"movie", "imports", "finalizer", "store"}
    /\ Init /\ Store!RecordInit
    /\ IF part = "imports" THEN Imports!Init
       ELSE /\ observed = "c1" /\ legacy = Absent /\ store = "closed"
            /\ imports = [c \in {"c1"} |-> Absent] /\ history = <<>> /\ commands = <<>>
            /\ began = [c \in {"c1"} |-> 0] /\ exec = [e \in {"e1"} |-> Idle]
    /\ IF part = "finalizer" THEN Finalizer!Init
       ELSE /\ queue = [i \in {1, 2} |-> Absent] /\ used = {} /\ complete = {}
            /\ records = [i \in {1, 2} |-> Absent] /\ runner = [r \in {"r1"} |-> Idle]
            /\ failures = 0

AttemptsNext ==
    /\ \/ part = "movie" /\ Next /\ UNCHANGED <<importVars, finalizerVars, recordVars>>
       \/ part = "imports" /\ Imports!Next /\ UNCHANGED <<vars, finalizerVars, recordVars>>
       \/ part = "finalizer" /\ Finalizer!Next /\ UNCHANGED <<vars, importVars, recordVars>>
       \/ part = "store" /\ Store!RecordNext /\ UNCHANGED <<vars, importVars, finalizerVars>>
    /\ UNCHANGED part

Attempts ==
    AttemptsInit /\ [][AttemptsNext]_<<part, vars, importVars, finalizerVars, recordVars>>

-----------------------------------------------------------------------------
\* Adapter.Repair, Processor: once nothing changes any more, a job with current
\* evidence and an acceptable plan is taken to its import.
RepairIsAttempted == Fairness => Attempted

\* follow, fail; flock: every call of the import executor ends, and nobody waits for
\* ever for a store's lock, whoever died holding it.
CallsEnd == /\ Imports!Fairness => Imports!CallsEnd
            /\ Store!Fairness => Store!EveryCallEnds

\* queuefinalize run, prepare: no entry stays removable for ever.
Drains == part = "finalizer" /\ Finalizer!Fairness => Finalizer!Drains

=============================================================================
