---------------------------- MODULE LidarrImports ----------------------------
(***************************************************************************)
(* The import of missing tracks into Lidarr: the import records of         *)
(* internal/lidarrrepair, the executor that drives them, the flow it       *)
(* shares with other services (internal/servarr), and Lidarr's commands    *)
(* and history as they use them.  All cases are of one queue entry; each   *)
(* has its own workspace, so a file is a pair of a case and a track.       *)
(*                                                                         *)
(* Time is the length of Lidarr's history: an entry occurred before an     *)
(* import was prepared if it was there when the clock was read.            *)
(***************************************************************************)
EXTENDS Naturals, Sequences, FiniteSets

CONSTANTS Cases, WantedTracks, Executors,
          TerminalChecks,   \* terminalConfirmationChecks (12 in the code)
          MaxHistory,       \* bound on Lidarr's history
          Absent, Nothing

VARIABLES observed,   \* the case the queue's observation points to
          legacy,     \* an import record of an older release, or Absent
          store,      \* "closed", "migrated" (its source not removed), "open", "broken"
          imports,    \* the import record of each case, or Absent
          history,    \* the files imported, in order
          commands,   \* the commands Lidarr accepted
          began,      \* auxiliary: the history's length when each case was prepared
          exec        \* each executor: step and local variables

vars == <<observed, legacy, store, imports, began, history, commands, exec>>
lidarr == <<history, commands>>
durable == <<observed, legacy, store, imports, began>>

Idle == [pc |-> "idle"]

\* ImportExecution: an import record
ImportRecords ==
    [state : {"prepared", "requested", "imported", "failed"}, before : Nat, preparedAt : Nat,
     command : Nat \cup {Nothing}, confirmations : [WantedTracks -> Nat] \cup {Nothing}]

\* What the proofs need of the constants
ConstantsOK == Absent \notin ImportRecords

Init ==
    /\ observed \in Cases
    /\ legacy \in {Absent} \cup [case : Cases, record : [state : {"prepared"}, before : {0},
                                  preparedAt : {0}, command : {Nothing}, confirmations : {Nothing}]]
    /\ store = "closed"
    /\ imports = [c \in Cases |-> Absent]
    /\ began = [c \in Cases |-> 0]
    /\ history = <<>> /\ commands = <<>>
    /\ exec = [e \in Executors |-> Idle]

-----------------------------------------------------------------------------
(* NewStore: the records of an older release move to the case ledger. *)

migrateLegacyImportExecutions ==
    /\ store = "closed" /\ legacy # Absent
    /\ IF imports[legacy.case] \notin {Absent, legacy.record}
       THEN store' = "broken" /\ UNCHANGED imports
       ELSE store' = "migrated" /\ imports' = [imports EXCEPT ![legacy.case] = legacy.record]
    /\ UNCHANGED <<observed, legacy, began, lidarr, exec>>

\* os.Remove, without which the store does not open
removeLegacy ==
    /\ store = "migrated"
    /\ store' = "open" /\ legacy' = Absent
    /\ UNCHANGED <<observed, imports, began, lidarr, exec>>

Open ==
    /\ store = "closed" /\ legacy = Absent
    /\ store' = "open"
    /\ UNCHANGED <<observed, legacy, imports, began, lidarr, exec>>

\* PutCase: the queue entry is seen with other evidence.
PutCase(c) ==
    /\ store = "open"
    /\ observed' = c
    /\ UNCHANGED <<legacy, store, imports, began, lidarr, exec>>

-----------------------------------------------------------------------------
(* The import records *)

Now == Len(history)

executionFromAuthorization(before) ==
    [state |-> "prepared", before |-> before, preparedAt |-> Now,
     command |-> Nothing, confirmations |-> Nothing]

Active(c) == imports[c] # Absent /\ imports[c].state \in {"prepared", "requested"}

\* Mutant: only the case's own record is looked at.
activeImportForQueueNone(c) == FALSE

activeImportForQueue(c) == \E other \in Cases \ {c} : Active(other)

\* The tracks of a case have all been imported by these entries.
validateConfirmations(c, r, found) ==
    \A t \in WantedTracks : /\ found[t] > r.before /\ found[t] > r.preparedAt
                            /\ history[found[t]] = <<c, t>>

Goto(e, step) == exec' = [exec EXCEPT ![e] = step]
Return(e) == Goto(e, Idle)

\* An update function writes record r for case c, or fails and ends the call.
Write(c, r) == imports' = [imports EXCEPT ![c] = r]

-----------------------------------------------------------------------------
(* ImportExecutor.Execute and ImportExecution.Run *)

\* ReadImportedTracks, HighestImportedTrackHistoryID
Execute(e, c) ==
    /\ store = "open" /\ exec[e] = Idle
    /\ Goto(e, [pc |-> "authorize", case |-> c, before |-> Now])
    /\ UNCHANGED <<durable, lidarr>>

\* The authorization is compared with the latest plan before the lock is taken.
validateImportAuthorization(e) ==
    /\ exec[e].pc = "authorize"
    /\ IF observed = exec[e].case THEN Goto(e, [exec[e] EXCEPT !.pc = "prepare"]) ELSE Return(e)
    /\ UNCHANGED <<durable, lidarr>>

\* Mutant: an import found prepared is submitted as well.
RunResubmits(r, newly) ==
    CASE r.state \in {"imported", "failed"} -> "idle"
      [] r.state = "requested"              -> "follow"
      [] r.state = "prepared"               -> "submit"

\* Run: only the process that prepared the import submits it.
Run(r, newly) ==
    CASE r.state \in {"imported", "failed"}   -> "idle"
      [] r.state = "requested"                -> "follow"
      [] r.state = "prepared" /\ newly        -> "submit"
      [] r.state = "prepared" /\ ~newly       -> "resume"

PrepareImport(e) ==
    LET c == exec[e].case
        run(r, newly) == IF Run(r, newly) = "idle" THEN Return(e)
                         ELSE Goto(e, [pc |-> Run(r, newly), case |-> c, execution |-> r,
                                       checks |-> 0])
        wanted == executionFromAuthorization(exec[e].before)
    IN  /\ exec[e].pc = "prepare"
        /\ \/ imports[c] # Absent /\ run(imports[c], FALSE)
              /\ UNCHANGED <<imports, began>>
           \/ imports[c] = Absent /\ activeImportForQueue(c) /\ Return(e)
              /\ UNCHANGED <<imports, began>>
           \/ /\ imports[c] = Absent /\ ~activeImportForQueue(c)
              /\ Write(c, wanted) /\ run(wanted, TRUE)
              /\ began' = [began EXCEPT ![c] = Now]
        /\ UNCHANGED <<observed, legacy, store, lidarr>>

\* submit: the answer may be lost whether or not Lidarr took the command.
submit(e) ==
    /\ exec[e].pc = "submit"
    /\ \/ /\ commands' = Append(commands, [case |-> exec[e].case, status |-> "started"])
          /\ \/ Goto(e, [exec[e] EXCEPT !.pc = "requested"])
             \/ Goto(e, [exec[e] EXCEPT !.pc = "resume"])
       \/ UNCHANGED commands /\ Goto(e, [exec[e] EXCEPT !.pc = "resume"])
    /\ UNCHANGED <<durable, history>>

MarkImportRequested(e) ==
    LET c == exec[e].case
        id == CHOOSE i \in DOMAIN commands : commands[i].case = c
        r == [imports[c] EXCEPT !.state = "requested", !.command = id]
    IN  /\ exec[e].pc = "requested"
        /\ \/ imports[c].state = "prepared" /\ Write(c, r)
              /\ Goto(e, [exec[e] EXCEPT !.pc = "follow", !.execution = r])
           \/ imports[c].state # "prepared" /\ Return(e) /\ UNCHANGED imports
        /\ UNCHANGED <<observed, legacy, store, began, lidarr>>

FindImportedTrack(c, t, r) ==
    {i \in DOMAIN history : history[i] = <<c, t>> /\ i > r.before /\ i > r.preparedAt}

\* confirm, from resumePrepared and from each round of follow
confirm(e) ==
    LET c == exec[e].case
        found(t) == FindImportedTrack(c, t, exec[e].execution)
        first(t) == CHOOSE i \in found(t) : \A j \in found(t) : i <= j
    IN  /\ exec[e].pc \in {"resume", "follow"}
        /\ \/ /\ \A t \in WantedTracks : found(t) # {}
              /\ Goto(e, [pc |-> "confirmed", case |-> c, found |-> [t \in WantedTracks |-> first(t)]])
           \/ /\ \E t \in WantedTracks : found(t) = {}
              /\ IF exec[e].pc = "resume" THEN Return(e)
                 ELSE Goto(e, [exec[e] EXCEPT !.pc = "command"])
        /\ UNCHANGED <<durable, lidarr>>

MarkImported(e) ==
    LET c == exec[e].case
        found == exec[e].found
    IN  /\ exec[e].pc = "confirmed"
        /\ \/ /\ imports[c].state \in {"prepared", "requested"}
              /\ validateConfirmations(c, imports[c], found)
              /\ Write(c, [imports[c] EXCEPT !.state = "imported", !.confirmations = found])
           \/ /\ \/ imports[c].state \notin {"prepared", "requested"}
                 \/ ~validateConfirmations(c, imports[c], found)
              /\ UNCHANGED imports
        /\ Return(e)
        /\ UNCHANGED <<observed, legacy, store, began, lidarr>>

\* Mutant: rounds after the command ended are not counted.
followForever(e) ==
    /\ exec[e].pc = "command"
    /\ Goto(e, [exec[e] EXCEPT !.pc = "follow"])
    /\ UNCHANGED <<durable, lidarr>>

\* follow: a command that ended gets a number of rounds to show in the history.
follow(e) ==
    LET ended == commands[exec[e].execution.command].status # "started"
        checks == IF ended THEN exec[e].checks + 1 ELSE 0
    IN  /\ exec[e].pc = "command"
        /\ Goto(e, [exec[e] EXCEPT !.pc = IF checks >= TerminalChecks THEN "fail" ELSE "follow",
                                   !.checks = checks])
        /\ UNCHANGED <<durable, lidarr>>

\* MarkImportFailed
MarkImportFailed(e) ==
    LET c == exec[e].case
    IN  /\ exec[e].pc = "fail"
        /\ IF imports[c].state = "requested"
           THEN Write(c, [imports[c] EXCEPT !.state = "failed"]) ELSE UNCHANGED imports
        /\ Return(e)
        /\ UNCHANGED <<observed, legacy, store, began, lidarr>>

-----------------------------------------------------------------------------
(* Lidarr, and what may happen to the executors *)

ImportTrack(i, t) ==
    /\ commands[i].status = "started" /\ Len(history) < MaxHistory
    /\ <<commands[i].case, t>> \notin {history[h] : h \in DOMAIN history}
    /\ history' = Append(history, <<commands[i].case, t>>)
    /\ UNCHANGED <<durable, commands, exec>>

EndCommand(i) ==
    /\ commands[i].status = "started"
    /\ \E status \in {"completed", "failed"} : commands' = [commands EXCEPT ![i].status = status]
    /\ UNCHANGED <<durable, history, exec>>

\* Somebody imports a file by hand.
ImportByHand(f) ==
    /\ Len(history) < MaxHistory
    /\ history' = Append(history, f)
    /\ UNCHANGED <<durable, commands, exec>>

\* A request fails, the poll's wait is cancelled: the call returns an error.
Fail(e) ==
    /\ exec[e].pc \in {"authorize", "resume", "follow", "command"}
    /\ Return(e)
    /\ UNCHANGED <<durable, lidarr>>

\* The process dies; the store is opened again.
Crash ==
    /\ store' = "closed"
    /\ exec' = [e \in Executors |-> Idle]
    /\ UNCHANGED <<observed, legacy, imports, began, lidarr>>

Executor(e) ==
    \/ validateImportAuthorization(e) \/ PrepareImport(e) \/ submit(e)
    \/ MarkImportRequested(e) \/ confirm(e) \/ MarkImported(e) \/ follow(e)
    \/ MarkImportFailed(e)

Next ==
    \/ migrateLegacyImportExecutions \/ removeLegacy \/ Open \/ Crash
    \/ \E c \in Cases : PutCase(c)
    \/ \E e \in Executors : (\E c \in Cases : Execute(e, c)) \/ Executor(e) \/ Fail(e)
    \/ \E i \in DOMAIN commands : EndCommand(i) \/ \E t \in WantedTracks : ImportTrack(i, t)
    \/ \E f \in Cases \X WantedTracks : ImportByHand(f)

Spec == Init /\ [][Next]_vars

\* A process goes on with a call it has begun, and Lidarr ends its commands.
Fairness ==
    /\ \A e \in Executors : WF_vars(Executor(e))
    /\ \A i \in 1..Cardinality(Cases) : WF_vars(i \in DOMAIN commands /\ EndCommand(i))

-----------------------------------------------------------------------------
(* Properties *)

\* Run, resumePrepared: whatever answers are lost and processes killed, no case's
\* import is submitted twice.
SubmittedOnce ==
    \A i, j \in DOMAIN commands : commands[i].case = commands[j].case => i = j

\* PrepareImport: the cases of one queue entry are never imported side by side.
OneActiveImport ==
    \A c, d \in Cases : Active(c) /\ Active(d) => c = d

\* validateConfirmations: an import counts as done only when every track came in
\* after it was prepared.
ImportedMeansAllTracks ==
    \A c \in Cases : imports[c] # Absent /\ imports[c].state = "imported" =>
        \A t \in WantedTracks : \E i \in DOMAIN history :
            history[i] = <<c, t>> /\ i > began[c]

\* migrateLegacyImportExecutions: a crash in a migration never leaves two records
\* that keep the store from opening.
StoreOpens == store # "broken"

\* follow, fail: every call ends, with a command that reports nothing at the
\* latest after the confirmation checks.
CallsEnd == \A e \in Executors : exec[e].pc # "idle" ~> exec[e].pc = "idle"
=============================================================================
