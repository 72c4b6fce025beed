---------------------------- MODULE LidarrProofs ----------------------------
(***************************************************************************)
(* The import of missing tracks, for any number of cases, tracks and       *)
(* executors, any history, and whatever answers are lost and processes     *)
(* killed: no import is submitted twice, the cases of one queue entry are  *)
(* never imported side by side, an import counts as done only when all its *)
(* tracks came in, and a migration that was cut short never keeps the      *)
(* store from opening.                                                     *)
(*                                                                         *)
(* None of these is inductive: that a case is submitted once depends on an *)
(* executor that is about to submit being the only one that prepared it,   *)
(* and on its record being there, as it is for every case that has a       *)
(* command.                                                                *)
(*                                                                         *)
(* The planning state, for any processes, cases, decisions and records of  *)
(* the old layout, and any number of writes and crashes: what a reader is  *)
(* given was the latest case at some moment of its read and has the        *)
(* decision of that case, which stays.                                     *)
(***************************************************************************)
EXTENDS LidarrImports, LidarrStore, SequenceTheorems, WellFoundedInduction, TLAPS


Statuses == {"started", "completed", "failed"}
Begun    == {"submit", "requested", "resume", "follow", "command", "fail"}
Polling  == {"follow", "command", "fail"}

ExecSteps ==
    {Idle}
    \cup [pc : {"authorize", "prepare"}, case : Cases, before : Nat]
    \cup [pc : Begun, case : Cases, execution : ImportRecords, checks : Nat]
    \cup [pc : {"confirmed"}, case : Cases, found : [WantedTracks -> Nat]]

TypeInv ==
    /\ observed \in Cases
    /\ store \in {"closed", "migrated", "open", "broken"}
    /\ imports \in [Cases -> ImportRecords \cup {Absent}]
    /\ began \in [Cases -> Nat]
    /\ history \in Seq(Cases \X WantedTracks)
    /\ commands \in Seq([case : Cases, status : Statuses])
    /\ exec \in [Executors -> ExecSteps]

\* The records of an older release: they are all there is until they are migrated,
\* and no executor runs before the store is open.
LegacyInv ==
    /\ legacy # Absent =>
          /\ legacy.case \in Cases /\ legacy.record \in ImportRecords
          /\ legacy.record.state = "prepared" /\ legacy.record.preparedAt = 0
          /\ imports[legacy.case] \in {Absent, legacy.record}
          /\ \A c \in Cases \ {legacy.case} : imports[c] = Absent
    /\ store = "migrated" => legacy # Absent /\ imports[legacy.case] # Absent
    /\ store = "open" => legacy = Absent
    /\ store # "open" => \A e \in Executors : exec[e] = Idle
    /\ store # "broken"

\* A command of Lidarr's is one of the case.
Ours(i, c) == i \in DOMAIN commands /\ commands[i].case = c

Submitted(c) == \E i \in DOMAIN commands : commands[i].case = c

AllTracksIn(c) ==
    \A t \in WantedTracks : \E i \in DOMAIN history : history[i] = <<c, t>> /\ i > began[c]

RecordInv ==
    /\ \A i \in DOMAIN commands : imports[commands[i].case] # Absent
    /\ \A c \in Cases :
          /\ imports[c] = Absent => began[c] = 0
          /\ imports[c] # Absent =>
                /\ began[c] = imports[c].preparedAt
                /\ imports[c].state \in {"requested", "failed"} => Ours(imports[c].command, c)
                /\ imports[c].state = "imported" => AllTracksIn(c)

\* What an executor knows of the case it works on
Knows(x) ==
    /\ x.pc \in Begun \cup {"confirmed"} => imports[x.case] # Absent
    /\ x.pc = "submit" => ~Submitted(x.case)
    /\ x.pc = "requested" => Submitted(x.case)
    /\ x.pc \in Polling => Ours(x.execution.command, x.case)
    /\ x.pc = "confirmed" => \A t \in WantedTracks : x.found[t] \in DOMAIN history

ExecInv ==
    /\ \A e \in Executors : Knows(exec[e])
    /\ \A e, f \in Executors :
          exec[e].pc = "submit" /\ exec[f].pc = "submit" /\ exec[e].case = exec[f].case => e = f

Inv ==
    /\ TypeInv /\ LegacyInv /\ RecordInv /\ ExecInv
    /\ SubmittedOnce /\ OneActiveImport

-----------------------------------------------------------------------------
(* Steps of an executor *)

\* A set of numbers that is not empty has a least one.
LEMMA LeastNat ==
    ASSUME NEW S \in SUBSET Nat, S # {}
    PROVE  \E i \in S : \A j \in S : i <= j
<1> DEFINE R == {ss \in Nat \X Nat : ss[1] < ss[2]}
<1>1. IsWellFoundedOn(R, Nat)
  BY Zenon, NatLessThanWellFounded DEF OpToRel
<1> HIDE DEF R
<1>2. PICK i \in S : \A j \in S : ~ (<<j, i>> \in R)
  BY Zenon, <1>1, WFMin
<1>3. \A j \in S : ~ (j < i)
  BY Zenon, <1>2 DEF R
<1> QED
  BY <1>3

\* Whatever an executor is doing, it has a case or is idle.
LEMMA ExecShape ==
    ASSUME TypeInv, NEW e \in Executors
    PROVE  /\ exec[e].pc # "idle" => exec[e].case \in Cases
           /\ exec[e].pc \in {"authorize", "prepare"} =>
                 exec[e] \in [pc : {"authorize", "prepare"}, case : Cases, before : Nat]
           /\ exec[e].pc \in Begun =>
                 exec[e] \in [pc : Begun, case : Cases, execution : ImportRecords, checks : Nat]
           /\ exec[e].pc = "confirmed" =>
                 exec[e] \in [pc : {"confirmed"}, case : Cases, found : [WantedTracks -> Nat]]
           /\ exec[e].pc = "idle" => exec[e] = Idle
BY DEF TypeInv, ExecSteps, Idle, Begun

\* Every command is of a case.
LEMMA CommandShape ==
    ASSUME TypeInv
    PROVE  \A i \in DOMAIN commands : commands[i].case \in Cases
<1> SUFFICES ASSUME NEW i \in DOMAIN commands PROVE commands[i].case \in Cases
  BY Zenon
<1>1. commands \in Seq([case : Cases, status : Statuses])
  BY Zenon DEF TypeInv
<1>2. i \in 1..Len(commands)
  BY <1>1
<1>3. commands[i] \in [case : Cases, status : Statuses]
  BY Zenon, <1>1, <1>2, ElementOfSeq
<1> QED
  BY Zenon, <1>3

\* Going on, without a write and without submitting
LEMMA GotoStep ==
    ASSUME ConstantsOK, Inv, NEW e \in Executors, NEW x \in ExecSteps,
           exec' = [exec EXCEPT ![e] = x], UNCHANGED <<durable, lidarr>>,
           Knows(x), x.pc # "submit", store = "open" \/ x = Idle
    PROVE  Inv'
<1>1. TypeInv'
  BY Zenon DEF Inv, TypeInv, durable, lidarr
<1>2. LegacyInv'
  BY Zenon DEF Inv, LegacyInv, TypeInv, durable, lidarr
<1>3. RecordInv' /\ SubmittedOnce' /\ OneActiveImport'
  BY DEF Inv, RecordInv, Ours, AllTracksIn, SubmittedOnce, OneActiveImport, Active, durable, lidarr
<1>4. \A f \in Executors : exec'[f] = IF f = e THEN x ELSE exec[f]
  BY Zenon DEF Inv, TypeInv
<1>5. \A f \in Executors : Knows(exec'[f])
  BY Zenon, <1>4 DEF Inv, ExecInv
<1>6. ExecInv'
  BY <1>4, <1>5 DEF Inv, ExecInv, Knows, Ours, Submitted, durable, lidarr
<1> QED
  BY Zenon, <1>1, <1>2, <1>3, <1>6 DEF Inv

\* Ending a call is such a step.
LEMMA ReturnStep ==
    ASSUME ConstantsOK, Inv, NEW e \in Executors, Return(e), UNCHANGED <<durable, lidarr>>
    PROVE  Inv'
<1>1. Idle \in ExecSteps /\ Knows(Idle) /\ Idle.pc # "submit"
  BY Zenon DEF ExecSteps, Idle, Knows, Begun, Polling
<1> QED
  BY Zenon, <1>1, GotoStep DEF Return, Goto

\* A write to the record of the executor's case
LEMMA WriteStep ==
    ASSUME ConstantsOK, Inv, NEW e \in Executors, NEW x \in ExecSteps, NEW c \in Cases,
           NEW r \in ImportRecords, imports[c] # Absent, Write(c, r),
           exec' = [exec EXCEPT ![e] = x],
           UNCHANGED <<observed, legacy, store, began, lidarr>>,
           store = "open", Knows(x), x.pc # "submit",
           r.preparedAt = imports[c].preparedAt,
           r.state \in {"requested", "failed"} => Ours(r.command, c),
           r.state = "imported" => AllTracksIn(c),
           r.state \in {"prepared", "requested"} => Active(c)
    PROVE  Inv'
<1>1. TypeInv'
  BY Zenon DEF Inv, TypeInv, lidarr, Write
<1>2. \A d \in Cases : imports'[d] = IF d = c THEN r ELSE imports[d]
  BY Zenon DEF Inv, TypeInv, Write
<1>3. r # Absent
  BY Zenon DEF ConstantsOK
<1>4. LegacyInv'
  BY Zenon DEF Inv, LegacyInv, TypeInv, lidarr
<1>5. RecordInv'
  <2>1. \A i \in DOMAIN commands : commands[i].case \in Cases
    BY Zenon, CommandShape DEF Inv
  <2> QED
    BY <1>2, <1>3, <2>1 DEF Inv, RecordInv, Ours, AllTracksIn, lidarr
<1>6. SubmittedOnce' /\ OneActiveImport'
  BY Zenon, <1>2, <1>3 DEF Inv, SubmittedOnce, OneActiveImport, Active, lidarr
<1>7. \A f \in Executors : exec'[f] = IF f = e THEN x ELSE exec[f]
  BY Zenon DEF Inv, TypeInv
<1>8. ASSUME NEW f \in Executors
      PROVE  Knows(exec[f])'
  <2>1. Knows(exec'[f])
    BY Zenon, <1>7 DEF Inv, ExecInv
  <2>2. exec'[f].pc # "idle" => exec'[f].case \in Cases
    BY <1>1, <1>7 DEF TypeInv, ExecSteps, Idle
  <2> QED
    BY Zenon, <1>2, <1>3, <2>1, <2>2 DEF Knows, Ours, Submitted, lidarr, Begun
<1>9. ExecInv'
  BY <1>7, <1>8 DEF Inv, ExecInv
<1> QED
  BY Zenon, <1>1, <1>4, <1>5, <1>6, <1>9 DEF Inv

\* The first call for a case writes its record, and it alone may submit.
LEMMA PrepareStep ==
    ASSUME ConstantsOK, Inv, NEW e \in Executors, PrepareImport(e)
    PROVE  Inv'
<1> DEFINE c == exec[e].case
           wanted == executionFromAuthorization(exec[e].before)
           step(r, newly) == [pc |-> Run(r, newly), case |-> c, execution |-> r, checks |-> 0]
<1>1. /\ exec[e] \in [pc : {"authorize", "prepare"}, case : Cases, before : Nat]
      /\ c \in Cases /\ exec[e].before \in Nat /\ store = "open" /\ Len(history) \in Nat
  BY ExecShape DEF Inv, PrepareImport, LegacyInv, Idle, TypeInv
<1>2. CASE imports[c] # Absent /\ UNCHANGED <<imports, began>>
  <2>1. imports[c] \in ImportRecords
    BY Zenon, <1>1, <1>2 DEF Inv, TypeInv
  <2>2. UNCHANGED <<durable, lidarr>>
    BY Zenon, <1>2 DEF PrepareImport, durable
  <2>3. CASE Return(e)
    BY Zenon, <2>2, <2>3, ReturnStep
  <2>4. CASE exec' = [exec EXCEPT ![e] = step(imports[c], FALSE)] /\ Run(imports[c], FALSE) # "idle"
    <3>1. imports[c].state \in {"prepared", "requested", "imported", "failed"}
      BY Zenon, <2>1 DEF ImportRecords
    <3>2. \/ Run(imports[c], FALSE) = "follow" /\ imports[c].state = "requested"
          \/ Run(imports[c], FALSE) = "resume"
      BY Zenon, <2>4, <3>1 DEF Run
    <3>3. step(imports[c], FALSE) \in [pc : Begun, case : Cases, execution : ImportRecords, checks : Nat]
      BY Zenon, <1>1, <2>1, <3>2 DEF Begun
    <3>4. step(imports[c], FALSE) \in ExecSteps
      BY Zenon, <3>3 DEF ExecSteps
    <3>5. imports[c].state = "requested" => Ours(imports[c].command, c)
      BY Zenon, <1>1, <1>2 DEF Inv, RecordInv
    <3>6. Knows(step(imports[c], FALSE)) /\ step(imports[c], FALSE).pc # "submit"
      BY Zenon, <1>2, <3>2, <3>5 DEF Knows, Polling, Begun
    <3> QED
      BY Zenon, <1>1, <2>2, <2>4, <3>4, <3>6, GotoStep
  <2> QED
    BY Zenon, <1>2, <2>3, <2>4 DEF PrepareImport, Goto
<1>3. CASE imports[c] = Absent /\ Return(e) /\ UNCHANGED <<imports, began>>
  BY Zenon, <1>3, ReturnStep DEF PrepareImport, durable
<1>4. CASE /\ imports[c] = Absent /\ ~activeImportForQueue(c)
           /\ Write(c, wanted) /\ began' = [began EXCEPT ![c] = Now]
           /\ exec' = [exec EXCEPT ![e] = step(wanted, TRUE)]
  <2>1. /\ wanted \in ImportRecords /\ wanted.state = "prepared" /\ wanted.preparedAt = Len(history)
        /\ Run(wanted, TRUE) = "submit"
    BY Zenon, <1>1 DEF executionFromAuthorization, ImportRecords, Run, Now
  <2>2. wanted # Absent
    BY Zenon, <2>1 DEF ConstantsOK
  <2> DEFINE x == step(wanted, TRUE)
  <2>3. x \in [pc : Begun, case : Cases, execution : ImportRecords, checks : Nat]
        /\ x.pc = "submit" /\ x.case = c
    BY Zenon, <1>1, <2>1 DEF Begun
  <2> HIDE DEF x, wanted
  <2>4. UNCHANGED <<observed, legacy, store, history, commands>>
    BY Zenon DEF PrepareImport, lidarr
  <2>5. TypeInv'
    BY Zenon, <1>1, <1>4, <2>1, <2>3, <2>4 DEF Inv, TypeInv, Write, ExecSteps, Now, x
  <2>6. /\ \A d \in Cases : imports'[d] = IF d = c THEN wanted ELSE imports[d]
        /\ \A d \in Cases : began'[d] = IF d = c THEN Len(history) ELSE began[d]
        /\ \A f \in Executors : exec'[f] = IF f = e THEN x ELSE exec[f]
    BY Zenon, <1>4 DEF Inv, TypeInv, Write, Now, x
  <2>7. LegacyInv'
    BY Zenon, <1>1, <2>4 DEF Inv, LegacyInv
  <2>8. \A i \in DOMAIN commands : commands[i].case \in Cases
    BY Zenon, CommandShape DEF Inv
  <2>9. RecordInv'
    BY <2>1, <2>2, <2>4, <2>6, <2>8 DEF Inv, RecordInv, Ours, AllTracksIn
  <2>10. ~Submitted(c)
    BY Zenon, <1>4 DEF Inv, RecordInv, Submitted
  <2>11. \A f \in Executors : exec[f].pc = "submit" => exec[f].case # c
    BY Zenon, <1>4 DEF Inv, ExecInv, Knows, Begun
  <2>12. ASSUME NEW f \in Executors
         PROVE  Knows(exec[f])'
    <3>1. CASE f = e
      BY Zenon, <1>1, <2>2, <2>3, <2>4, <2>6, <2>10, <3>1 DEF Knows, Submitted, Polling
    <3>2. CASE f # e
      <4>1. Knows(exec[f]) /\ exec'[f] = exec[f]
        BY Zenon, <2>6, <3>2 DEF Inv, ExecInv
      <4>2. exec[f].pc # "idle" => exec[f].case \in Cases
        BY Zenon, ExecShape DEF Inv
      <4> QED
        BY <2>2, <2>4, <2>6, <4>1, <4>2 DEF Knows, Ours, Submitted, Begun
    <3> QED
      BY Zenon, <3>1, <3>2
  <2>13. ExecInv'
    <3>1. \A f, g \in Executors :
              exec'[f].pc = "submit" /\ exec'[g].pc = "submit" /\ exec'[f].case = exec'[g].case => f = g
      BY <2>3, <2>6, <2>11 DEF Inv, ExecInv
    <3> QED
      BY Zenon, <2>12, <3>1 DEF ExecInv
  <2>14. SubmittedOnce' /\ OneActiveImport'
    BY <1>1, <1>4, <2>2, <2>4, <2>6 DEF Inv, SubmittedOnce, OneActiveImport, Active, activeImportForQueue
  <2> QED
    BY Zenon, <2>5, <2>7, <2>9, <2>13, <2>14 DEF Inv
<1>5. executionFromAuthorization(exec[e].before).state = "prepared"
      /\ Run(executionFromAuthorization(exec[e].before), TRUE) # "idle"
  BY Zenon DEF executionFromAuthorization, Run
<1> QED
  BY Zenon, <1>2, <1>3, <1>4, <1>5 DEF PrepareImport, Goto

\* Submitting, whether or not Lidarr takes the command and the answer arrives
LEMMA SubmitStep ==
    ASSUME ConstantsOK, Inv, NEW e \in Executors, submit(e)
    PROVE  Inv'
<1> DEFINE c == exec[e].case
           step(pc) == [exec[e] EXCEPT !.pc = pc]
           new == [case |-> c, status |-> "started"]
<1>1. /\ exec[e] \in [pc : Begun, case : Cases, execution : ImportRecords, checks : Nat]
      /\ c \in Cases /\ store = "open" /\ imports[c] # Absent /\ ~Submitted(c)
  BY ExecShape DEF Inv, submit, LegacyInv, Idle, Begun, ExecInv, Knows
<1>2. \A pc \in {"requested", "resume"} : step(pc) \in ExecSteps /\ step(pc).pc = pc /\ step(pc).case = c
  BY Zenon, <1>1 DEF Begun, ExecSteps
<1> HIDE DEF step
<1>3. CASE UNCHANGED commands /\ exec' = [exec EXCEPT ![e] = step("resume")]
  <2>1. Knows(step("resume"))
    BY Zenon, <1>1, <1>2 DEF Knows, Polling
  <2>2. UNCHANGED <<durable, lidarr>>
    BY Zenon, <1>3 DEF submit, lidarr
  <2> QED
    BY Zenon, <1>1, <1>2, <1>3, <2>1, <2>2, GotoStep
<1>4. ASSUME NEW pc \in {"requested", "resume"}, commands' = Append(commands, new),
             exec' = [exec EXCEPT ![e] = step(pc)]
      PROVE  Inv'
  <2>1. /\ commands \in Seq([case : Cases, status : Statuses])
        /\ new \in [case : Cases, status : Statuses] /\ new.case = c
    BY Zenon, <1>1 DEF Inv, TypeInv, Statuses
  <2> HIDE DEF new
  <2>2. UNCHANGED <<observed, legacy, store, imports, began, history>>
    BY Zenon DEF submit, durable
  <2>3. /\ commands' \in Seq([case : Cases, status : Statuses])
        /\ DOMAIN commands' = 1..(Len(commands) + 1) /\ DOMAIN commands = 1..Len(commands)
        /\ commands'[Len(commands) + 1] = new /\ Len(commands) \in Nat
        /\ \A i \in 1..Len(commands) : commands'[i] = commands[i]
    BY <1>4, <2>1, AppendProperties
  <2>4. TypeInv'
    BY Zenon, <1>2, <1>4, <2>2, <2>3 DEF Inv, TypeInv
  <2>5. LegacyInv'
    BY Zenon, <1>1, <2>2 DEF Inv, LegacyInv
  <2>6. \A i \in DOMAIN commands : i \in DOMAIN commands' /\ commands'[i] = commands[i]
    BY <2>3
  <2>7. \A i \in DOMAIN commands' : i \in DOMAIN commands \/ commands'[i].case = c
    BY <2>1, <2>3
  <2>8. \E i \in DOMAIN commands' : commands'[i].case = c
    BY <2>1, <2>3
  <2>9. RecordInv'
    BY <1>1, <2>2, <2>6, <2>7 DEF Inv, RecordInv, Ours, AllTracksIn
  <2>10. \A f \in Executors : exec'[f] = IF f = e THEN step(pc) ELSE exec[f]
    BY Zenon, <1>4 DEF Inv, TypeInv
  <2>11. ASSUME NEW f \in Executors
         PROVE  Knows(exec[f])'
    <3>1. CASE f = e
      BY Zenon, <1>1, <1>2, <2>2, <2>8, <2>10, <3>1 DEF Knows, Submitted, Polling
    <3>2. CASE f # e
      <4>1. Knows(exec[f]) /\ exec'[f] = exec[f]
        BY Zenon, <2>10, <3>2 DEF Inv, ExecInv
      <4>2. exec[f].pc = "submit" => exec[f].case # c
        BY Zenon, <3>2 DEF Inv, ExecInv, submit
      <4> QED
        BY Zenon, <2>2, <2>6, <2>7, <4>1, <4>2 DEF Knows, Ours, Submitted
    <3> QED
      BY Zenon, <3>1, <3>2
  <2>12. ExecInv'
    <3>1. \A f, g \in Executors :
              exec'[f].pc = "submit" /\ exec'[g].pc = "submit" /\ exec'[f].case = exec'[g].case => f = g
      BY Zenon, <1>2, <2>10 DEF Inv, ExecInv
    <3> QED
      BY Zenon, <2>11, <3>1 DEF ExecInv
  <2>13. SubmittedOnce'
    BY <1>1, <2>1, <2>3 DEF Inv, SubmittedOnce, Submitted
  <2>14. OneActiveImport'
    BY Zenon, <2>2 DEF Inv, OneActiveImport, Active
  <2> QED
    BY Zenon, <2>4, <2>5, <2>9, <2>12, <2>13, <2>14 DEF Inv
<1> QED
  BY Zenon, <1>3, <1>4 DEF submit, Goto, step

\* The answer: the command is recorded.
LEMMA RequestedStep ==
    ASSUME ConstantsOK, Inv, NEW e \in Executors, MarkImportRequested(e)
    PROVE  Inv'
<1> DEFINE c == exec[e].case
           id == CHOOSE i \in DOMAIN commands : commands[i].case = c
           r == [imports[c] EXCEPT !.state = "requested", !.command = id]
           x == [exec[e] EXCEPT !.pc = "follow", !.execution = r]
<1>1. /\ exec[e] \in [pc : Begun, case : Cases, execution : ImportRecords, checks : Nat]
      /\ c \in Cases /\ store = "open" /\ imports[c] # Absent /\ Submitted(c)
  BY ExecShape DEF Inv, MarkImportRequested, LegacyInv, Idle, Begun, ExecInv, Knows
<1>2. imports[c] \in ImportRecords
  BY Zenon, <1>1 DEF Inv, TypeInv
<1>3. Ours(id, c) /\ id \in Nat
  BY <1>1 DEF Submitted, Ours, Inv, TypeInv
<1>4. CASE UNCHANGED imports /\ Return(e)
  BY Zenon, <1>4, ReturnStep DEF MarkImportRequested, durable
<1>5. CASE imports[c].state = "prepared" /\ Write(c, r) /\ exec' = [exec EXCEPT ![e] = x]
  <2>1. /\ r \in ImportRecords /\ r.state = "requested" /\ r.command = id
        /\ r.preparedAt = imports[c].preparedAt
    BY Zenon, <1>2, <1>3 DEF ImportRecords
  <2> HIDE DEF r, id
  <2>2. /\ x \in [pc : Begun, case : Cases, execution : ImportRecords, checks : Nat]
        /\ x.pc = "follow" /\ x.case = c /\ x.execution = r
    BY Zenon, <1>1, <2>1 DEF Begun
  <2> HIDE DEF x
  <2>3. x \in ExecSteps /\ Knows(x)
    BY Zenon, <1>1, <1>3, <2>1, <2>2 DEF ExecSteps, Knows
  <2>4. Active(c)
    BY Zenon, <1>1, <1>5 DEF Active
  <2>5. UNCHANGED <<observed, legacy, store, began, lidarr>>
    BY Zenon DEF MarkImportRequested
  <2> QED
    BY Zenon, <1>1, <1>3, <1>5, <2>1, <2>2, <2>3, <2>4, <2>5, WriteStep
<1> QED
  BY Zenon, <1>4, <1>5 DEF MarkImportRequested, Goto

\* Reading the history, and looking at the command
LEMMA PollStep ==
    ASSUME ConstantsOK, Inv, NEW e \in Executors, confirm(e) \/ follow(e)
    PROVE  Inv'
<1> DEFINE c == exec[e].case
           to(pc) == [exec[e] EXCEPT !.pc = pc]
<1>1. /\ exec[e] \in [pc : Begun, case : Cases, execution : ImportRecords, checks : Nat]
      /\ c \in Cases /\ store = "open" /\ imports[c] # Absent /\ Knows(exec[e])
      /\ exec[e].pc \in {"resume", "follow", "command"}
  BY ExecShape DEF Inv, confirm, follow, LegacyInv, Idle, Begun, ExecInv, Knows
<1>2. UNCHANGED <<durable, lidarr>>
  BY Zenon DEF confirm, follow
<1>3. CASE Return(e)
  BY Zenon, <1>2, <1>3, ReturnStep
<1>4. ASSUME NEW x, exec' = [exec EXCEPT ![e] = x], exec[e].pc \in {"follow", "command"},
             x \in [pc : Begun, case : Cases, execution : ImportRecords, checks : Nat],
             x.pc \in Polling, x.case = c, x.execution = exec[e].execution
      PROVE  Inv'
  <2>1. Ours(exec[e].execution.command, c)
    BY Zenon, <1>1, <1>4 DEF Knows, Polling
  <2>2. x \in ExecSteps /\ Knows(x) /\ x.pc # "submit"
    BY Zenon, <1>1, <1>4, <2>1 DEF ExecSteps, Knows, Polling
  <2> QED
    BY Zenon, <1>1, <1>2, <1>4, <2>2, GotoStep
<1>5. CASE confirm(e)
  <2> DEFINE found(t) == FindImportedTrack(c, t, exec[e].execution)
             first(t) == CHOOSE i \in found(t) : \A j \in found(t) : i <= j
             x == [pc |-> "confirmed", case |-> c, found |-> [t \in WantedTracks |-> first(t)]]
  <2>1. CASE exec' = [exec EXCEPT ![e] = [exec[e] EXCEPT !.pc = "command"]]
             /\ exec[e].pc # "resume"
    <3> DEFINE y == [exec[e] EXCEPT !.pc = "command"]
    <3>1. /\ y \in [pc : Begun, case : Cases, execution : ImportRecords, checks : Nat]
          /\ y.pc = "command" /\ y.case = c /\ y.execution = exec[e].execution
      BY Zenon, <1>1 DEF Begun
    <3> QED
      BY Zenon, <1>1, <1>4, <2>1, <3>1 DEF Polling
  <2>2. CASE exec' = [exec EXCEPT ![e] = x] /\ \A t \in WantedTracks : found(t) # {}
    <3>1. ASSUME NEW t \in WantedTracks
          PROVE  first(t) \in DOMAIN history /\ first(t) \in Nat
      <4>1. found(t) \in SUBSET Nat /\ found(t) # {} /\ found(t) \subseteq DOMAIN history
        <5>1. DOMAIN history = 1..Len(history) /\ Len(history) \in Nat
          BY DEF Inv, TypeInv
        <5>2. found(t) \subseteq DOMAIN history
          BY Zenon DEF FindImportedTrack
        <5>3. DOMAIN history \subseteq Nat
          BY <5>1
        <5> QED BY Zenon, <2>2, <5>2, <5>3
      <4>2. \E i \in found(t) : \A j \in found(t) : i <= j
        BY Zenon, <4>1, LeastNat
      <4> HIDE DEF found
      <4> QED
        BY Zenon, <4>1, <4>2
    <3>2. /\ x \in [pc : {"confirmed"}, case : Cases, found : [WantedTracks -> Nat]]
          /\ x.pc = "confirmed" /\ x.case = c /\ \A t \in WantedTracks : x.found[t] \in DOMAIN history
      BY Zenon, <1>1, <3>1
    <3> HIDE DEF x
    <3>3. x \in ExecSteps /\ Knows(x) /\ x.pc # "submit"
      BY Zenon, <1>1, <3>2 DEF ExecSteps, Knows, Polling
    <3> QED
      BY Zenon, <1>1, <1>2, <2>2, <3>3, GotoStep
  <2> QED
    BY Zenon, <1>3, <1>5, <2>1, <2>2 DEF confirm, Goto
<1>6. CASE follow(e)
  <2>1. PICK n \in {0, exec[e].checks + 1}, pc \in {"fail", "follow"} :
            exec' = [exec EXCEPT ![e] = [exec[e] EXCEPT !.pc = pc, !.checks = n]]
    BY Zenon, <1>6 DEF follow, Goto
  <2> DEFINE y == [exec[e] EXCEPT !.pc = pc, !.checks = n]
  <2>2. n \in Nat /\ pc \in Begun
    BY <1>1 DEF Begun
  <2>3. /\ y \in [pc : Begun, case : Cases, execution : ImportRecords, checks : Nat]
        /\ y.pc = pc /\ y.case = c /\ y.execution = exec[e].execution
    BY Zenon, <1>1, <2>2
  <2> HIDE DEF y
  <2> QED
    BY Zenon, <1>4, <1>6, <2>1, <2>3 DEF Polling, follow, y
<1> QED
  BY ZenonT(90), <1>5, <1>6

\* The import is recorded as done or as failed.
LEMMA SettleStep ==
    ASSUME ConstantsOK, Inv, NEW e \in Executors, MarkImported(e) \/ MarkImportFailed(e)
    PROVE  Inv'
<1> DEFINE c == exec[e].case
<1>1. /\ c \in Cases /\ store = "open" /\ imports[c] # Absent /\ Knows(exec[e])
  BY ExecShape DEF Inv, MarkImported, MarkImportFailed, LegacyInv, Idle, Begun, ExecInv, Knows
<1>2. imports[c] \in ImportRecords /\ began[c] = imports[c].preparedAt
  BY Zenon, <1>1 DEF Inv, TypeInv, RecordInv
<1>3. Idle \in ExecSteps /\ Knows(Idle) /\ Idle.pc # "submit"
  BY Zenon DEF ExecSteps, Idle, Knows, Begun, Polling
<1>4. exec' = [exec EXCEPT ![e] = Idle] /\ UNCHANGED <<observed, legacy, store, began, lidarr>>
  BY Zenon DEF MarkImported, MarkImportFailed, Return, Goto
<1>5. CASE UNCHANGED imports
  BY Zenon, <1>4, <1>5, ReturnStep DEF Return, Goto, durable
<1>6. CASE /\ MarkImported(e) /\ validateConfirmations(c, imports[c], exec[e].found)
           /\ Write(c, [imports[c] EXCEPT !.state = "imported", !.confirmations = exec[e].found])
  <2> DEFINE r == [imports[c] EXCEPT !.state = "imported", !.confirmations = exec[e].found]
  <2>1. exec[e].found \in [WantedTracks -> Nat] /\ \A t \in WantedTracks : exec[e].found[t] \in DOMAIN history
    BY Zenon, <1>1, <1>6, ExecShape DEF Inv, MarkImported, Knows
  <2>2. r \in ImportRecords /\ r.state = "imported" /\ r.preparedAt = imports[c].preparedAt
    BY Zenon, <1>2, <2>1 DEF ImportRecords
  <2>3. AllTracksIn(c)
    BY Zenon, <1>2, <1>6, <2>1 DEF AllTracksIn, validateConfirmations
  <2> HIDE DEF r
  <2> QED
    BY Zenon, <1>1, <1>3, <1>4, <1>6, <2>2, <2>3, WriteStep DEF r
<1>7. CASE /\ MarkImportFailed(e) /\ imports[c].state = "requested"
           /\ Write(c, [imports[c] EXCEPT !.state = "failed"])
  <2> DEFINE r == [imports[c] EXCEPT !.state = "failed"]
  <2>1. /\ r \in ImportRecords /\ r.state = "failed" /\ r.preparedAt = imports[c].preparedAt
        /\ r.command = imports[c].command
    BY Zenon, <1>2 DEF ImportRecords
  <2>2. Ours(imports[c].command, c)
    BY Zenon, <1>1, <1>7 DEF Inv, RecordInv
  <2> HIDE DEF r
  <2> QED
    BY Zenon, <1>1, <1>3, <1>4, <1>7, <2>1, <2>2, WriteStep DEF r
<1> QED
  BY ZenonT(60), <1>5, <1>6, <1>7 DEF MarkImported, MarkImportFailed

\* Every step an executor takes, and the end of a call that fails
LEMMA ExecutorStep ==
    ASSUME ConstantsOK, Inv, NEW e \in Executors,
           (\E c \in Cases : Execute(e, c)) \/ Executor(e) \/ Fail(e)
    PROVE  Inv'
<1>1. ASSUME NEW c \in Cases, Execute(e, c)
      PROVE  Inv'
  <2> DEFINE x == [pc |-> "authorize", case |-> c, before |-> Now]
  <2>1. x \in [pc : {"authorize", "prepare"}, case : Cases, before : Nat] /\ x.pc = "authorize"
    BY DEF Now, Inv, TypeInv
  <2> HIDE DEF x
  <2>2. x \in ExecSteps /\ Knows(x)
    BY Zenon, <2>1 DEF ExecSteps, Knows, Begun, Polling
  <2> QED
    BY Zenon, <1>1, <2>1, <2>2, GotoStep DEF Execute, Goto, x
<1>2. CASE validateImportAuthorization(e)
  <2> DEFINE x == [exec[e] EXCEPT !.pc = "prepare"]
  <2>1. /\ exec[e] \in [pc : {"authorize", "prepare"}, case : Cases, before : Nat]
        /\ store = "open"
    BY <1>2, ExecShape DEF Inv, validateImportAuthorization, LegacyInv, Idle
  <2>2. x \in [pc : {"authorize", "prepare"}, case : Cases, before : Nat] /\ x.pc = "prepare"
    BY Zenon, <2>1
  <2> HIDE DEF x
  <2>3. x \in ExecSteps /\ Knows(x)
    BY Zenon, <2>2 DEF ExecSteps, Knows, Begun, Polling
  <2>4. CASE Return(e)
    BY Zenon, <1>2, <2>4, ReturnStep DEF validateImportAuthorization
  <2>5. CASE exec' = [exec EXCEPT ![e] = x]
    BY Zenon, <1>2, <2>1, <2>2, <2>3, <2>5, GotoStep DEF validateImportAuthorization
  <2> QED
    BY Zenon, <1>2, <2>4, <2>5 DEF validateImportAuthorization, Goto, x
<1>3. CASE Fail(e)
  BY Zenon, <1>3, ReturnStep DEF Fail
<1> QED
  BY Zenon, <1>1, <1>2, <1>3, PrepareStep, SubmitStep, RequestedStep, PollStep, SettleStep DEF Executor

-----------------------------------------------------------------------------
(* Steps of Lidarr and of the process *)

\* A file comes in.
LEMMA HistoryStep ==
    ASSUME ConstantsOK, Inv, NEW f \in Cases \X WantedTracks, history' = Append(history, f),
           UNCHANGED <<durable, commands, exec>>
    PROVE  Inv'
<1>1. history \in Seq(Cases \X WantedTracks)
  BY Zenon DEF Inv, TypeInv
<1>2. /\ history' \in Seq(Cases \X WantedTracks)
      /\ DOMAIN history' = 1..(Len(history) + 1) /\ DOMAIN history = 1..Len(history)
      /\ Len(history) \in Nat /\ \A i \in 1..Len(history) : history'[i] = history[i]
  BY <1>1, AppendProperties
<1>3. \A i \in DOMAIN history : i \in DOMAIN history' /\ history'[i] = history[i]
  BY <1>2
<1>4. TypeInv' /\ LegacyInv' /\ SubmittedOnce' /\ OneActiveImport'
  BY Zenon, <1>2 DEF Inv, TypeInv, LegacyInv, SubmittedOnce, OneActiveImport, Active, durable
<1>5. RecordInv'
  <2>1. \A c \in Cases : AllTracksIn(c) => AllTracksIn(c)'
    BY Zenon, <1>3 DEF AllTracksIn, durable
  <2> QED
    BY Zenon, <2>1 DEF Inv, RecordInv, Ours, durable
<1>6. ExecInv'
  BY Zenon, <1>3 DEF Inv, ExecInv, Knows, Ours, Submitted, durable
<1> QED
  BY Zenon, <1>4, <1>5, <1>6 DEF Inv

\* A command ends.
LEMMA CommandStep ==
    ASSUME ConstantsOK, Inv, NEW i \in DOMAIN commands, EndCommand(i)
    PROVE  Inv'
<1>1. PICK s \in {"completed", "failed"} : commands' = [commands EXCEPT ![i].status = s]
  BY Zenon DEF EndCommand
<1>2. commands \in Seq([case : Cases, status : Statuses]) /\ i \in 1..Len(commands)
  BY DEF Inv, TypeInv
<1> DEFINE new == [commands[i] EXCEPT !.status = s]
<1>3. commands[i] \in [case : Cases, status : Statuses]
  BY Zenon, <1>2, ElementOfSeq
<1>4. new \in [case : Cases, status : Statuses] /\ new.case = commands[i].case
  BY Zenon, <1>3 DEF Statuses
<1>5. commands' = [commands EXCEPT ![i] = new]
  BY Zenon, <1>1
<1> HIDE DEF new
<1>6. /\ commands' \in Seq([case : Cases, status : Statuses]) /\ DOMAIN commands' = DOMAIN commands
      /\ \A j \in DOMAIN commands : commands'[j].case = commands[j].case
  BY Zenon, <1>2, <1>4, <1>5, ExceptSeq
<1>7. UNCHANGED <<durable, history, exec>>
  BY Zenon DEF EndCommand
<1>8. TypeInv' /\ LegacyInv' /\ OneActiveImport'
  BY Zenon, <1>6, <1>7 DEF Inv, TypeInv, LegacyInv, OneActiveImport, Active, durable
<1>9. RecordInv' /\ SubmittedOnce'
  BY ZenonT(60), <1>6, <1>7 DEF Inv, RecordInv, SubmittedOnce, Ours, AllTracksIn, durable
<1>10. ExecInv'
  BY <1>6, <1>7 DEF Inv, ExecInv, Knows, Ours, Submitted, durable
<1> QED
  BY Zenon, <1>8, <1>9, <1>10 DEF Inv

\* The process dies, or the queue entry is seen with other evidence.
LEMMA ProcessStep ==
    ASSUME ConstantsOK, Inv, Crash \/ Open \/ \E c \in Cases : PutCase(c)
    PROVE  Inv'
<1>1. UNCHANGED <<legacy, imports, began, lidarr>>
  BY Zenon DEF Crash, Open, PutCase
<1>2. exec' = exec \/ exec' = [e \in Executors |-> Idle]
  BY Zenon DEF Crash, Open, PutCase
<1>3. TypeInv'
  BY Zenon, <1>1, <1>2 DEF Crash, Open, PutCase, Inv, TypeInv, lidarr, ExecSteps
<1>4. LegacyInv'
  BY Zenon, <1>1 DEF Crash, Open, PutCase, Inv, LegacyInv
<1>5. RecordInv' /\ SubmittedOnce' /\ OneActiveImport'
  BY <1>1 DEF Inv, RecordInv, Ours, AllTracksIn, SubmittedOnce, OneActiveImport, Active, lidarr
<1>6. ExecInv'
  BY <1>1, <1>2 DEF Inv, ExecInv, Knows, Ours, Submitted, Idle, Begun, Polling, lidarr
<1> QED
  BY Zenon, <1>3, <1>4, <1>5, <1>6 DEF Inv

\* An older release's record becomes the one of its case.
LEMMA MigrateStep ==
    ASSUME ConstantsOK, Inv, migrateLegacyImportExecutions
    PROVE  Inv'
<1> DEFINE c == legacy.case
           r == legacy.record
<1>1. /\ legacy # Absent /\ c \in Cases /\ r \in ImportRecords /\ imports[c] \in {Absent, r}
      /\ r.state = "prepared" /\ r.preparedAt = 0 /\ store = "closed"
      /\ \A d \in Cases \ {c} : imports[d] = Absent
      /\ \A e \in Executors : exec[e] = Idle
  BY Zenon DEF migrateLegacyImportExecutions, Inv, LegacyInv
<1>2. /\ store' = "migrated" /\ imports' = [imports EXCEPT ![c] = r]
      /\ UNCHANGED <<observed, legacy, began, lidarr, exec>>
  BY Zenon, <1>1 DEF migrateLegacyImportExecutions
<1>3. r # Absent
  BY Zenon, <1>1 DEF ConstantsOK
<1>4. \A d \in Cases : imports'[d] = IF d = c THEN r ELSE imports[d]
  BY Zenon, <1>2 DEF Inv, TypeInv
<1>5. TypeInv'
  BY Zenon, <1>1, <1>2 DEF Inv, TypeInv, lidarr
<1>6. LegacyInv'
  BY Zenon, <1>1, <1>2, <1>3, <1>4 DEF LegacyInv
<1>7. began[c] = 0
  BY Zenon, <1>1 DEF Inv, RecordInv
<1>8. RecordInv'
  <2>1. \A i \in DOMAIN commands : commands[i].case \in Cases
    BY Zenon, CommandShape DEF Inv
  <2>2. \A d \in Cases : imports'[d] # Absent =>
            began'[d] = imports'[d].preparedAt /\ imports'[d].state = "prepared"
    BY Zenon, <1>1, <1>2, <1>4, <1>7
  <2>3. \A d \in Cases : imports'[d] = Absent => began'[d] = 0
    BY Zenon, <1>2, <1>3, <1>4 DEF Inv, RecordInv
  <2>4. \A i \in DOMAIN commands' : imports'[commands'[i].case] # Absent
    BY SMTT(60), <1>2, <1>3, <1>4, <2>1 DEF Inv, RecordInv, lidarr
  <2> QED
    BY Zenon, <2>2, <2>3, <2>4 DEF RecordInv
<1>9. ExecInv'
  BY <1>1, <1>2 DEF ExecInv, Knows, Idle, Begun, Polling
<1>10. SubmittedOnce' /\ OneActiveImport'
  BY <1>1, <1>2, <1>4 DEF Inv, SubmittedOnce, OneActiveImport, Active, lidarr
<1> QED
  BY Zenon, <1>5, <1>6, <1>8, <1>9, <1>10 DEF Inv

\* The migration ends when its source is gone.
LEMMA RemoveStep ==
    ASSUME ConstantsOK, Inv, removeLegacy
    PROVE  Inv'
<1>1. store = "migrated" /\ store' = "open" /\ legacy' = Absent
      /\ UNCHANGED <<observed, imports, began, lidarr, exec>>
  BY Zenon DEF removeLegacy
<1>2. TypeInv' /\ LegacyInv'
  BY Zenon, <1>1 DEF Inv, TypeInv, LegacyInv, lidarr
<1>3. RecordInv' /\ SubmittedOnce' /\ OneActiveImport'
  BY <1>1 DEF Inv, RecordInv, Ours, AllTracksIn, SubmittedOnce, OneActiveImport, Active, lidarr
<1>4. ExecInv'
  BY Zenon, <1>1 DEF Inv, ExecInv, Knows, Ours, Submitted, lidarr
<1> QED
  BY Zenon, <1>2, <1>3, <1>4 DEF Inv

-----------------------------------------------------------------------------
(* Theorems *)

\* At first there is at most the record of an older release.
LEMMA InvInit ==
    ASSUME ConstantsOK, Init
    PROVE  Inv
<1>1. TypeInv
  BY DEF Init, TypeInv, ExecSteps
<1>2. LegacyInv
  <2>1. CASE legacy = Absent
    BY Zenon, <2>1 DEF Init, LegacyInv
  <2>2. CASE legacy # Absent
    <3>1. /\ legacy.case \in Cases
          /\ legacy.record \in [state : {"prepared"}, before : {0}, preparedAt : {0},
                                command : {Nothing}, confirmations : {Nothing}]
      BY Zenon, <2>2 DEF Init
    <3>2. /\ legacy.record \in ImportRecords
          /\ legacy.record.state = "prepared" /\ legacy.record.preparedAt = 0
      BY <3>1 DEF ImportRecords
    <3> QED
      BY Zenon, <3>1, <3>2 DEF Init, LegacyInv
  <2> QED
    BY Zenon, <2>1, <2>2
<1>3. RecordInv /\ ExecInv /\ SubmittedOnce /\ OneActiveImport
  BY DEF Init, RecordInv, ExecInv, Knows, Idle, Begun, Polling, SubmittedOnce, OneActiveImport, Active
<1> QED
  BY Zenon, <1>1, <1>2, <1>3 DEF Inv

\* Every step keeps the invariant.
LEMMA InvStep ==
    ASSUME ConstantsOK, Inv, [Next]_vars
    PROVE  Inv'
<1>1. ASSUME NEW i \in DOMAIN commands, NEW t \in WantedTracks, ImportTrack(i, t)
      PROVE  Inv'
  <2>1. <<commands[i].case, t>> \in Cases \X WantedTracks
    BY Zenon, CommandShape DEF Inv
  <2> QED
    BY Zenon, <1>1, <2>1, HistoryStep DEF ImportTrack
<1>2. ASSUME NEW f \in Cases \X WantedTracks, ImportByHand(f)
      PROVE  Inv'
  BY ZenonT(60), <1>2, HistoryStep DEF ImportByHand
<1>3. CASE UNCHANGED vars
  BY <1>3 DEF vars, Inv, TypeInv, LegacyInv, RecordInv, ExecInv, Knows, Ours, Submitted, AllTracksIn,
       SubmittedOnce, OneActiveImport, Active
<1> QED
  BY Zenon, <1>1, <1>2, <1>3, ExecutorStep, CommandStep, ProcessStep, MigrateStep, RemoveStep DEF Next

\* The invariant holds in every reachable state.
THEOREM InvAlways ==
    ASSUME ConstantsOK
    PROVE  Spec => []Inv
BY InvInit, InvStep, PTL DEF Spec

\* ImportExecution.Run, resumePrepared: for any number of cases, executors and crashes,
\* no case's import is submitted twice.
THEOREM NoSecondSubmission ==
    ASSUME ConstantsOK
    PROVE  Spec => []SubmittedOnce
<1>1. Inv => SubmittedOnce
  BY Zenon DEF Inv
<1> QED
  BY <1>1, InvAlways, PTL

\* PrepareImport: the cases of one queue entry are never imported side by side.
THEOREM ImportsAreApart ==
    ASSUME ConstantsOK
    PROVE  Spec => []OneActiveImport
<1>1. Inv => OneActiveImport
  BY Zenon DEF Inv
<1> QED
  BY <1>1, InvAlways, PTL

\* MarkImported, validateConfirmations: an import is recorded as done only when every
\* track came in after it was prepared.
THEOREM DoneMeansImported ==
    ASSUME ConstantsOK
    PROVE  Spec => []ImportedMeansAllTracks
<1>1. Inv => ImportedMeansAllTracks
  BY Zenon DEF Inv, RecordInv, AllTracksIn, ImportedMeansAllTracks
<1> QED
  BY <1>1, InvAlways, PTL

\* migrateLegacyImportExecutions: wherever a migration is cut short, the store opens
\* the next time.
THEOREM MigrationNeverBlocks ==
    ASSUME ConstantsOK
    PROVE  Spec => []StoreOpens
<1>1. Inv => StoreOpens
  BY Zenon DEF Inv, LegacyInv, StoreOpens
<1> QED
  BY <1>1, InvAlways, PTL

-----------------------------------------------------------------------------
(* The planning state *)

\* What a process may rely on between two steps.  A reader's case was the latest
\* at some moment of its read, and the answer it has been given is one that no
\* write can make wrong, since a decision stays.
ProcOK(p) ==
    /\ proc[p].pc = "start" => proc[p].next \in Nat \ {0}
    /\ proc[p].pc = "migrated" => proc[p].next \in 1..Len(Legacy)
    /\ proc[p].pc = "observe" =>
         /\ proc[p].case \in CaseIDs
         /\ \/ proc[p].then = AtRest
            \/ \E i \in 1..Len(Legacy) : proc[p].then = [pc |-> "migrated", next |-> i]
    /\ proc[p].pc \in {"case", "result"} => proc[p].case \in CaseIDs \cap window[p]
    /\ proc[p].pc = "got" /\ proc[p].answer # NoAnswer =>
         /\ proc[p].answer[1] \in CaseIDs \cap window[p]
         /\ proc[p].answer[3] # None
         /\ results[proc[p].answer[1]].decision = proc[p].answer[3]

StoreTypeOK ==
    /\ proc = [p \in Procs |-> proc[p]]
    /\ window \in [Procs -> SUBSET (CaseIDs \cup {None})]
    /\ results \in [CaseIDs -> [decision : Decisions \cup {None}, failures : Nat]]
    /\ observation \in CaseIDs \cup {None}

StoreInv == StoreTypeOK /\ \A p \in Procs : ProcOK(p)

DecisionsStand ==
    \A c \in CaseIDs : results[c].decision # None => results'[c].decision = results[c].decision

\* What the others do leaves a process what it relies on.
LEMMA OthersKeep ==
    ASSUME NEW q \in Procs, ProcOK(q), proc'[q] = proc[q], window[q] \subseteq window'[q],
           DecisionsStand
    PROVE  ProcOK(q)'
<1>1. /\ proc'[q].pc = "start" => proc'[q].next \in Nat \ {0}
      /\ proc'[q].pc = "migrated" => proc'[q].next \in 1..Len(Legacy)
      /\ proc'[q].pc = "observe" =>
           /\ proc'[q].case \in CaseIDs
           /\ \/ proc'[q].then = AtRest
              \/ \E i \in 1..Len(Legacy) : proc'[q].then = [pc |-> "migrated", next |-> i]
  BY Zenon DEF ProcOK
<1>2. proc'[q].pc \in {"case", "result"} => proc'[q].case \in CaseIDs \cap window'[q]
  BY Zenon DEF ProcOK
<1>3. proc'[q].pc = "got" /\ proc'[q].answer # NoAnswer =>
         /\ proc'[q].answer[1] \in CaseIDs \cap window'[q]
         /\ proc'[q].answer[3] # None
         /\ results'[proc'[q].answer[1]].decision = proc'[q].answer[3]
  BY Zenon DEF ProcOK, DecisionsStand
<1> QED  BY Zenon, <1>1, <1>2, <1>3 DEF ProcOK, NoAnswer, None, AtRest

\* Store.PutCase: the process has written the case and will name it.
LEMMA PutCaseKeeps ==
    ASSUME NEW p \in Procs, NEW c \in CaseIDs, NEW b, NEW then, StoreInv, PutCaseFile(p, c, b, then),
           then = AtRest \/ \E i \in 1..Len(Legacy) : then = [pc |-> "migrated", next |-> i]
    PROVE  StoreInv'
<1>1. /\ proc' = [proc EXCEPT ![p] = [pc |-> "observe", case |-> c, then |-> then]]
      /\ UNCHANGED <<results, observation, window>>
  BY Zenon DEF PutCaseFile
<1>2. proc'[p] = [pc |-> "observe", case |-> c, then |-> then] /\ \A q \in Procs \ {p} : proc'[q] = proc[q]
  BY Zenon, <1>1 DEF StoreInv, StoreTypeOK
<1>3. StoreTypeOK'
  BY <1>1 DEF StoreInv, StoreTypeOK
<1>4. ProcOK(p)'
  BY <1>2 DEF ProcOK
<1>5. \A q \in Procs \ {p} : ProcOK(q)'
  BY <1>1, <1>2, OthersKeep, Zenon DEF StoreInv, DecisionsStand
<1> QED  BY Zenon, <1>3, <1>4, <1>5 DEF StoreInv

\* ResultStore.PutDecision: the one place that writes a decision keeps the one there is.
LEMMA DecidedKeeps ==
    ASSUME NEW c \in CaseIDs, NEW d \in Decisions, NEW r \in Decided(c, d), StoreTypeOK,
           results' = [results EXCEPT ![c] = r]
    PROVE  DecisionsStand /\ results' \in [CaseIDs -> [decision : Decisions \cup {None}, failures : Nat]]
<1>1. r = [results[c] EXCEPT !.decision = d] /\ results[c].decision \in {None, d}
  BY Zenon DEF Decided
<1>2. r \in [decision : Decisions \cup {None}, failures : Nat] /\ r.decision = d
  BY <1>1 DEF StoreTypeOK
<1> QED  BY <1>1, <1>2 DEF StoreTypeOK, DecisionsStand

\* The old records are of the cases and decisions of the store.
LEMMA LegacyIsKnown ==
    ASSUME NEW i \in 1..Len(Legacy)
    PROVE  Legacy[i].case \in CaseIDs /\ Legacy[i].decision \in Decisions
<1>1. Legacy[i] \in [case : CaseIDs, bindings : Bindings, decision : Decisions]
  BY Zenon, StoreAssumption, ElementOfSeq
<1> QED  BY <1>1

\* Every step of a process keeps what all of them rely on.
LEMMA StoreStep ==
    ASSUME StoreInv, NEW p \in Procs,
           \/ Observe(p) \/ putObservationLocked(p) \/ PutDecision(p) \/ PutFailure(p)
           \/ ReadObservation(p) \/ readCase(p) \/ readPlanningResult(p) \/ ReturnRead(p)
           \/ migrateLegacyRecords(p) \/ PutLegacyDecision(p) \/ CrashProcess(p)
    PROVE  StoreInv' /\ DecisionsStand
<1> USE StoreAssumption
<1>0. StoreTypeOK /\ ProcOK(p) /\ proc = [q \in Procs |-> proc[q]] /\ window \in [Procs -> SUBSET (CaseIDs \cup {None})]
  BY Zenon DEF StoreInv, StoreTypeOK
<1>f. ASSUME NEW x, proc' = [proc EXCEPT ![p] = x]
      PROVE  proc'[p] = x /\ (\A q \in Procs \ {p} : proc'[q] = proc[q]) /\ proc' = [q \in Procs |-> proc'[q]]
  BY Zenon, <1>0, <1>f
<1>w. ASSUME NEW S \in SUBSET (CaseIDs \cup {None}), window' = [window EXCEPT ![p] = S]
      PROVE  window'[p] = S /\ (\A q \in Procs \ {p} : window'[q] = window[q]) /\ window' \in [Procs -> SUBSET (CaseIDs \cup {None})]
  BY <1>0, <1>w
<1>k. ASSUME StoreTypeOK', ProcOK(p)', DecisionsStand,
             \A q \in Procs \ {p} : proc'[q] = proc[q] /\ window[q] \subseteq window'[q]
      PROVE  StoreInv' /\ DecisionsStand
  <2>1. \A q \in Procs \ {p} : ProcOK(q)'
    BY <1>k, OthersKeep, Zenon DEF StoreInv
  <2> QED  BY Zenon, <1>k, <2>1 DEF StoreInv
<1>1. CASE Observe(p)
  <2>1. PICK c \in CaseIDs, b \in Bindings : PutCaseFile(p, c, b, AtRest)
    BY Zenon, <1>1 DEF Observe
  <2>2. StoreInv'
    BY Zenon, <2>1, PutCaseKeeps
  <2>3. DecisionsStand
    BY Zenon, <2>1 DEF PutCaseFile, DecisionsStand
  <2> QED  BY Zenon, <2>2, <2>3
<1>2. CASE putObservationLocked(p)
  <2>1. /\ proc[p].pc = "observe" /\ observation' = proc[p].case /\ window' = Observed(proc[p].case)
        /\ proc' = [proc EXCEPT ![p] = proc[p].then] /\ results' = results
    BY Zenon, <1>2 DEF putObservationLocked
  <2>2. proc[p].case \in CaseIDs
    BY Zenon, <1>0, <2>1 DEF ProcOK
  <2>3. /\ window' \in [Procs -> SUBSET (CaseIDs \cup {None})]
        /\ \A q \in Procs : window[q] \subseteq window'[q]
    BY <1>0, <2>1, <2>2 DEF Observed
  <2>4. StoreTypeOK'
    BY Zenon, <1>0, <1>f, <2>1, <2>2, <2>3 DEF StoreTypeOK
  <2>5. ProcOK(p)'
    <3>1. CASE proc[p].then = AtRest
      <4>1. proc'[p] = [pc |-> "idle"]
        BY Zenon, <3>1, <2>1, <1>f DEF AtRest
      <4> QED  BY <4>1 DEF ProcOK
    <3>2. ASSUME NEW i \in 1..Len(Legacy), proc[p].then = [pc |-> "migrated", next |-> i]
          PROVE  ProcOK(p)'
      <4>1. proc'[p] = [pc |-> "migrated", next |-> i]
        BY Zenon, <3>2, <2>1, <1>f
      <4> QED  BY <4>1 DEF ProcOK
    <3> QED  BY Zenon, <3>1, <3>2, <2>1, <1>0 DEF ProcOK
  <2>6. DecisionsStand
    BY Zenon, <2>1 DEF DecisionsStand
  <2> QED  BY Zenon, <2>1, <2>3, <2>4, <2>5, <2>6, <1>f, <1>k
<1>3. CASE PutDecision(p)
  <2>1. PICK c \in CaseIDs, d \in Decisions : \E r \in Decided(c, d) : results' = [results EXCEPT ![c] = r]
    BY Zenon, <1>3 DEF PutDecision
  <2>2. /\ DecisionsStand /\ UNCHANGED <<observation, proc, window>>
        /\ results' \in [CaseIDs -> [decision : Decisions \cup {None}, failures : Nat]]
    BY Zenon, <1>0, <1>3, <2>1, DecidedKeeps DEF PutDecision
  <2>3. StoreTypeOK'
    BY Zenon, <1>0, <2>2 DEF StoreTypeOK
  <2>4. ProcOK(p)' /\ \A q \in Procs \ {p} : proc'[q] = proc[q] /\ window[q] \subseteq window'[q]
    BY Zenon, <2>2, <1>0, OthersKeep
  <2> QED  BY Zenon, <2>2, <2>3, <2>4, <1>k
<1>4. CASE PutFailure(p)
  <2>1. PICK c \in CaseIDs : results' = [results EXCEPT ![c].failures = @ + 1]
    BY Zenon, <1>4 DEF PutFailure
  <2>2. DecisionsStand /\ results' \in [CaseIDs -> [decision : Decisions \cup {None}, failures : Nat]]
    BY SMTT(60), <1>0, <2>1 DEF StoreTypeOK, DecisionsStand
  <2>3. UNCHANGED <<observation, proc, window>>
    BY Zenon, <1>4 DEF PutFailure
  <2>4. StoreTypeOK'
    BY Zenon, <1>0, <2>2, <2>3 DEF StoreTypeOK
  <2>5. ProcOK(p)' /\ \A q \in Procs \ {p} : proc'[q] = proc[q] /\ window[q] \subseteq window'[q]
    BY Zenon, <2>2, <2>3, <1>0, OthersKeep
  <2> QED  BY Zenon, <2>2, <2>4, <2>5, <1>k
<1>5. CASE ReadObservation(p)
  <2>1. /\ proc' = [proc EXCEPT ![p] = IF observation = None THEN [pc |-> "got", answer |-> NoAnswer]
                                       ELSE [pc |-> "case", case |-> observation]]
        /\ window' = [window EXCEPT ![p] = {observation}] /\ UNCHANGED <<results, observation>>
    BY Zenon, <1>5 DEF ReadObservation
  <2>2. observation \in CaseIDs \cup {None} /\ {observation} \in SUBSET (CaseIDs \cup {None})
    BY Zenon, <1>0 DEF StoreTypeOK
  <2>3. StoreTypeOK' /\ \A q \in Procs \ {p} : proc'[q] = proc[q] /\ window[q] \subseteq window'[q]
    BY ZenonT(60), <1>0, <1>f, <1>w, <2>1, <2>2 DEF StoreTypeOK
  <2>4. ProcOK(p)'
    BY SMTT(60), <1>0, <1>f, <1>w, <2>1, <2>2 DEF ProcOK
  <2>5. DecisionsStand
    BY Zenon, <2>1 DEF DecisionsStand
  <2> QED  BY Zenon, <2>3, <2>4, <2>5, <1>k
<1>6. CASE readCase(p)
  <2>1. /\ proc[p].pc = "case" /\ UNCHANGED <<results, observation, window>>
        /\ proc' = [proc EXCEPT ![p] =
                      IF stored[proc[p].case] = 0 THEN [pc |-> "got", answer |-> NoAnswer]
                      ELSE [pc |-> "result", case |-> proc[p].case, bindings |-> stored[proc[p].case]]]
    BY Zenon, <1>6 DEF readCase
  <2>2. proc[p].case \in CaseIDs \cap window[p]
    BY Zenon, <1>0, <2>1 DEF ProcOK
  <2>3. StoreTypeOK' /\ \A q \in Procs \ {p} : proc'[q] = proc[q] /\ window[q] \subseteq window'[q]
    BY ZenonT(90), <1>0, <1>f, <2>1 DEF StoreTypeOK
  <2>4. ProcOK(p)'
    BY <1>0, <1>f, <2>1, <2>2 DEF ProcOK
  <2>5. DecisionsStand
    BY Zenon, <2>1 DEF DecisionsStand
  <2> QED  BY Zenon, <2>3, <2>4, <2>5, <1>k
<1>7. CASE readPlanningResult(p)
  <2> DEFINE c == proc[p].case
             d == results[c].decision
             answer == IF d = None THEN NoAnswer ELSE <<c, proc[p].bindings, d>>
  <2>1. /\ proc[p].pc = "result" /\ UNCHANGED <<results, observation, window>>
        /\ proc' = [proc EXCEPT ![p] = [pc |-> "got", answer |-> answer]]
    BY Zenon, <1>7 DEF readPlanningResult
  <2>2. c \in CaseIDs \cap window[p]
    BY Zenon, <1>0, <2>1 DEF ProcOK
  <2>3. StoreTypeOK' /\ \A q \in Procs \ {p} : proc'[q] = proc[q] /\ window[q] \subseteq window'[q]
    BY Zenon, <1>0, <1>f, <2>1 DEF StoreTypeOK
  <2>4. ProcOK(p)'
    <3>1. proc'[p] = [pc |-> "got", answer |-> answer]
      BY ZenonT(60), <2>1, <1>f
    <3>2. answer # NoAnswer => answer[1] = c /\ answer[3] = d /\ d # None
      OBVIOUS
    <3> HIDE DEF answer
    <3> QED  BY <2>1, <2>2, <3>1, <3>2 DEF ProcOK
  <2>5. DecisionsStand
    BY Zenon, <2>1 DEF DecisionsStand
  <2> QED  BY Zenon, <2>3, <2>4, <2>5, <1>k
<1>8. CASE ReturnRead(p)
  <2>1. /\ proc' = [proc EXCEPT ![p] = AtRest] /\ window' = [window EXCEPT ![p] = {}]
        /\ UNCHANGED <<results, observation>>
    BY Zenon, <1>8 DEF ReturnRead
  <2>2. StoreTypeOK' /\ \A q \in Procs \ {p} : proc'[q] = proc[q] /\ window[q] \subseteq window'[q]
    BY Zenon, <1>0, <1>f, <1>w, <2>1 DEF StoreTypeOK
  <2>3. ProcOK(p)'
    BY <1>f, <2>1 DEF ProcOK, AtRest
  <2>4. DecisionsStand
    BY Zenon, <2>1 DEF DecisionsStand
  <2> QED  BY Zenon, <2>2, <2>3, <2>4, <1>k
<1>9. CASE migrateLegacyRecords(p)
  <2>1. proc[p].pc = "start" /\ proc[p].next \in Nat \ {0}
    BY Zenon, <1>0, <1>9 DEF migrateLegacyRecords, ProcOK
  <2>2. CASE proc[p].next > Len(Legacy)
    <3>1. proc' = [proc EXCEPT ![p] = AtRest] /\ UNCHANGED <<results, observation, window>>
      BY Zenon, <1>9, <2>2 DEF migrateLegacyRecords
    <3>2. StoreTypeOK' /\ \A q \in Procs \ {p} : proc'[q] = proc[q] /\ window[q] \subseteq window'[q]
      BY Zenon, <1>0, <1>f, <3>1 DEF StoreTypeOK
    <3>3. ProcOK(p)'
      BY <1>f, <3>1 DEF ProcOK, AtRest
    <3>4. DecisionsStand
      BY Zenon, <3>1 DEF DecisionsStand
    <3> QED  BY Zenon, <3>2, <3>3, <3>4, <1>k
  <2>3. CASE ~(proc[p].next > Len(Legacy))
    <3>0. Len(Legacy) \in Nat
      BY Zenon, StoreAssumption, LenProperties
    <3>1. proc[p].next \in 1..Len(Legacy)
      BY <2>1, <2>3, <3>0
    <3>5. Legacy[proc[p].next].case \in CaseIDs
      BY Zenon, <3>1, LegacyIsKnown
    <3>2. PutCaseFile(p, Legacy[proc[p].next].case, Legacy[proc[p].next].bindings,
                      [pc |-> "migrated", next |-> proc[p].next])
      BY Zenon, <1>9, <2>3 DEF migrateLegacyRecords
    <3>3. StoreInv'
      BY Zenon, <3>1, <3>2, <3>5, PutCaseKeeps
    <3>4. DecisionsStand
      BY Zenon, <3>2 DEF PutCaseFile, DecisionsStand
    <3> QED  BY Zenon, <3>3, <3>4
  <2> QED  BY Zenon, <2>2, <2>3
<1>10. CASE PutLegacyDecision(p)
  <2> DEFINE r == Legacy[proc[p].next]
  <2>1. proc[p].next \in 1..Len(Legacy)
    BY Zenon, <1>0, <1>10 DEF PutLegacyDecision, ProcOK
  <2>2. r.case \in CaseIDs /\ r.decision \in Decisions
    BY Zenon, <2>1, LegacyIsKnown
  <2>6. proc[p].next + 1 \in Nat \ {0}
    BY <2>1
  <2>3. UNCHANGED <<observation, window>>
    BY Zenon, <1>10 DEF PutLegacyDecision
  <2>4. CASE Decided(r.case, r.decision) = {}
    <3>1. proc' = [proc EXCEPT ![p] = [pc |-> "down"]] /\ results' = results
      BY Zenon, <1>10, <2>4 DEF PutLegacyDecision
    <3>2. StoreTypeOK' /\ \A q \in Procs \ {p} : proc'[q] = proc[q] /\ window[q] \subseteq window'[q]
      BY Zenon, <1>0, <1>f, <3>1, <2>3 DEF StoreTypeOK
    <3>3. ProcOK(p)'
      BY ZenonT(90), <1>f, <3>1 DEF ProcOK
    <3>4. DecisionsStand
      BY Zenon, <3>1 DEF DecisionsStand
    <3> QED  BY Zenon, <3>2, <3>3, <3>4, <1>k
  <2>5. CASE Decided(r.case, r.decision) # {}
    <3>1. /\ \E x \in Decided(r.case, r.decision) : results' = [results EXCEPT ![r.case] = x]
          /\ proc' = [proc EXCEPT ![p] = Starting(proc[p].next + 1)]
      BY Zenon, <1>10, <2>5 DEF PutLegacyDecision
    <3>2. DecisionsStand /\ results' \in [CaseIDs -> [decision : Decisions \cup {None}, failures : Nat]]
      BY Zenon, <1>0, <3>1, <2>2, DecidedKeeps
    <3>3. StoreTypeOK' /\ \A q \in Procs \ {p} : proc'[q] = proc[q] /\ window[q] \subseteq window'[q]
      BY ZenonT(60), <1>0, <1>f, <3>1, <3>2, <2>3 DEF StoreTypeOK
    <3>4. ProcOK(p)'
      BY <1>f, <3>1, <2>6 DEF ProcOK, Starting
    <3> QED  BY Zenon, <3>2, <3>3, <3>4, <1>k
  <2> QED  BY Zenon, <2>4, <2>5
<1>11. CASE CrashProcess(p)
  <2>1. /\ proc' = [proc EXCEPT ![p] = Starting(1)] /\ window' = [window EXCEPT ![p] = {}]
        /\ UNCHANGED <<results, observation>>
    BY Zenon, <1>11 DEF CrashProcess
  <2>2. StoreTypeOK' /\ \A q \in Procs \ {p} : proc'[q] = proc[q] /\ window[q] \subseteq window'[q]
    BY Zenon, <1>0, <1>f, <1>w, <2>1 DEF StoreTypeOK
  <2>3. ProcOK(p)'
    <3>1. proc'[p] = [pc |-> "start", next |-> 1]
      BY Zenon, <1>f, <2>1 DEF Starting
    <3> QED  BY <3>1 DEF ProcOK
  <2>4. DecisionsStand
    BY Zenon, <2>1 DEF DecisionsStand
  <2> QED  BY Zenon, <2>2, <2>3, <2>4, <1>k
<1> QED  BY Zenon, <1>1, <1>2, <1>3, <1>4, <1>5, <1>6, <1>7, <1>8, <1>9, <1>10, <1>11

\* At first no process has read anything.
LEMMA StoreStart == StoreInit => StoreInv
<1> SUFFICES ASSUME StoreInit PROVE StoreInv  OBVIOUS
<1>1. StoreTypeOK
  BY DEF StoreInit, StoreTypeOK, Undecided
<1>2. \A p \in Procs : proc[p] = [pc |-> "start", next |-> 1]
  BY Zenon DEF StoreInit, Starting
<1>3. ASSUME NEW p \in Procs PROVE ProcOK(p)
  <2>1. proc[p].pc = "start" /\ proc[p].next = 1
    BY <1>2
  <2> QED  BY <2>1 DEF ProcOK
<1> QED  BY Zenon, <1>1, <1>3 DEF StoreInv

\* Nothing changes between two steps of the store.
LEMMA StoreStutter ==
    ASSUME StoreInv, UNCHANGED storeVars PROVE StoreInv' /\ DecisionsStand
<1>1. proc' = proc /\ window' = window /\ results' = results /\ observation' = observation
  BY Zenon DEF storeVars
<1>2. DecisionsStand /\ StoreTypeOK'
  BY Zenon, <1>1 DEF DecisionsStand, StoreInv, StoreTypeOK
<1>3. \A p \in Procs : ProcOK(p)'
  BY Zenon, <1>1, <1>2, OthersKeep DEF StoreInv
<1> QED  BY Zenon, <1>2, <1>3 DEF StoreInv

\* Every reachable state satisfies the invariant.
LEMMA StoreInvAlways == StoreSpec => []StoreInv
<1>1. StoreInv /\ [StoreNext]_storeVars => StoreInv'
  BY Zenon, StoreStep, StoreStutter DEF StoreNext
<1> QED  BY <1>1, StoreStart, PTL DEF StoreSpec

\* latestPlanned, readPlanningResult: the case a reader is given was the latest at
\* some moment of its read, and the decision it is given is the stored one of that
\* case, whatever the other processes write meanwhile and wherever one dies.
THEOREM AnswersAreTheLatest == StoreSpec => []ReadsTheLatest
<1>1. StoreInv => ReadsTheLatest
  BY Zenon DEF StoreInv, ProcOK, ReadsTheLatest
<1> QED  BY <1>1, StoreInvAlways, PTL

\* Store.PutDecision: a stored decision is not replaced, by no process and no migration.
THEOREM StoredDecisionStays == StoreSpec => DecisionStays
<1>1. StoreInv /\ [StoreNext]_storeVars =>
        [\A c \in CaseIDs : results[c].decision # None => results'[c].decision = results[c].decision]_storeVars
  BY Zenon, StoreStep, StoreStutter DEF StoreNext, DecisionsStand
<1> QED  BY <1>1, StoreInvAlways, PTL DEF StoreSpec, DecisionStays

\* The one write that makes an older observation the latest again is the one of
\* an old record: where there are none, the entry's file names the case that was
\* observed last, also after a crash between the two writes of PutCase.
THEOREM LastObservedIsNamed ==
    ASSUME Legacy = <<>> PROVE StoreSpec => []NamesLastObserved
<1> DEFINE Named == last # None => observation = last
<1>1. StoreInit => Named
  BY Zenon DEF StoreInit
<1>2. ASSUME StoreInv, Named, [StoreNext]_storeVars PROVE Named'
  <2>1. CASE UNCHANGED storeVars
    BY Zenon, <1>2, <2>1 DEF storeVars
  <2>2. ASSUME NEW p \in Procs, putObservationLocked(p) PROVE Named'
    <3>1. ProcOK(p) /\ proc[p].pc = "observe"
      BY Zenon, <1>2, <2>2 DEF StoreInv, putObservationLocked
    <3>2. proc[p].then = AtRest
      <4>1. 1..Len(Legacy) = {}
        OBVIOUS
      <4> QED  BY Zenon, <3>1, <4>1 DEF ProcOK
    <3>3. proc[p].then.pc = "idle"
      BY <3>2 DEF AtRest
    <3> QED  BY Zenon, <2>2, <3>3 DEF putObservationLocked
  <2>3. ASSUME NEW p \in Procs,
               \/ Observe(p) \/ PutDecision(p) \/ PutFailure(p)
               \/ ReadObservation(p) \/ readCase(p) \/ readPlanningResult(p) \/ ReturnRead(p)
               \/ migrateLegacyRecords(p) \/ PutLegacyDecision(p) \/ CrashProcess(p)
        PROVE  Named'
    <3>1. last' = last /\ observation' = observation
      BY Zenon, <2>3 DEF Observe, PutDecision, PutFailure, ReadObservation, readCase,
         readPlanningResult, ReturnRead, migrateLegacyRecords, PutLegacyDecision, CrashProcess,
         PutCaseFile
    <3> QED  BY Zenon, <3>1, <1>2
  <2> QED  BY Zenon, <1>2, <2>1, <2>2, <2>3 DEF StoreNext
<1>3. Named => NamesLastObserved
  BY Zenon DEF NamesLastObserved
<1> QED  BY <1>1, <1>2, <1>3, StoreInvAlways, PTL DEF StoreSpec
=============================================================================
