--------------------------- MODULE RepairrProofs ---------------------------
(***************************************************************************)
(* Safety of Repairr for any number of jobs, attempts, requests and        *)
(* faults: an accepted import is held until it is resolved and never       *)
(* submitted again, repair and removal exclude each other, no request is   *)
(* stranded, a job is repaired only by a plan for the inputs it has, and a *)
(* decision on those inputs is never asked for again.                      *)
(***************************************************************************)
EXTENDS RepairrRows

USE DEF Absent, Observed, Ready, Running, Importing, Imported, Blocked, Failed,
        Removed, Removing, NoAction, Reconsider, Delete

-----------------------------------------------------------------------------
(* The engine's copies *)

\* What a step of the others leaves alone
LEMMA OthersStep ==
    ASSUME Removal \/ Operator \/ Environment
    PROVE  UNCHANGED <<attempt, engine, posts>> /\ (UNCHANGED commands \/ CommandStep)
<1>1. CASE Removal
  BY Zenon, <1>1 DEF Removal, ListRemovals, EndRemovals, BeginRemoval, RemoveTracking,
                        EndRemoval, database, engine, world
<1>2. CASE Operator
  BY Zenon, <1>2 DEF Operator, OpenPage, ReadAnswer, PostAction, PostAnswer, database, engine, world
<1>3. CASE Environment
  BY Zenon, <1>3 DEF Environment, SourceChanges, QueueChanges, RetryDue, Stabilizes,
                        ToggleDisabled, CommandStep, database, engine, world
<1> QED
  BY Zenon, <1>1, <1>2, <1>3

\* What a step of the observation and of the planning leaves alone
LEMMA MainStep ==
    ASSUME Observation \/ Advance
    PROVE  UNCHANGED <<attempt, commands, posts>>
<1>1. CASE Observation
  BY Zenon, <1>1 DEF Observation, ObserveQueue, Collect, ObservationFails, Reconcile,
                          ObserveJob, RequestCleanup, ListComplete, EndCleanup, database, world
<1>2. CASE Advance
  BY Zenon, <1>2 DEF Advance, ListJobs, EndPass, AdvanceJob, Plan, PlanLost, database, world
<1> QED
  BY Zenon, <1>1, <1>2

\* Servarr's steps change neither the job nor the attempt of a command.
LEMMA CommandOrigins ==
    ASSUME TypeOK, CommandStep
    PROVE  \A d \in commands' : \E c \in commands : c.job = d.job /\ c.num = d.num
<1>1. PICK c \in commands : \E d \in commandSteps(c) :
         commands' = (commands \ {c}) \cup {d}
  BY Zenon DEF CommandStep
<1>2. PICK d \in commandSteps(c) : commands' = (commands \ {c}) \cup {d}
  BY Zenon, <1>1
<1>3. d.job = c.job /\ d.num = c.num
  BY Zenon, CommandSteps DEF TypeOK
<1> QED
  BY Zenon, <1>2, <1>3

\* Engine.Run keeps its copy equal to the stored attempt.
LEMMA EngineStep ==
    ASSUME SafetyInv, Engine
    PROVE  EngineInv'
<1>1. TypeOK /\ EngineInv /\ AttemptInv /\ CommandInv
  BY Zenon DEF SafetyInv
<1>2. ASSUME pc' = "work" PROVE EngineInv'
  BY Zenon, <1>2 DEF EngineInv
<1>3. CASE RunReady
  BY Zenon, <1>1, <1>3 DEF RunReady, EngineInv
<1>4. CASE RunImporting
  <2>1. cur \in Jobs
    BY Zenon, <1>1, <1>4 DEF RunImporting, EngineInv
  <2>2. attempt[cur].state = Importing
    BY Zenon, <1>1, <1>4, <2>1 DEF RunImporting, AttemptInv, JobMatchesAttempt, AttemptStates, active
  <2> QED
    BY Zenon, <1>4, <2>1, <2>2 DEF RunImporting, EngineInv, database
<1>5. CASE StartAttempt
  <2>1. cur \in Jobs
    BY Zenon, <1>1, <1>5 DEF StartAttempt, EngineInv
  <2>2. CASE Return
    BY Zenon, <1>2, <2>2 DEF Return
  <2>3. CASE /\ attempt' = [attempt EXCEPT ![cur] = startedAttempt(jobs[cur], attempt[cur])]
             /\ draft' = startedAttempt(jobs[cur], attempt[cur])
             /\ pc' = "authorize" /\ cur' = cur
    <3>1. startedAttempt(jobs[cur], attempt[cur]).state = Running
      BY Zenon DEF startedAttempt, NoAttempt
    <3> QED
      BY Zenon, <1>1, <2>1, <2>3, <3>1 DEF EngineInv, TypeOK
  <2> QED
    BY Zenon, <1>5, <2>2, <2>3 DEF StartAttempt
<1>6. CASE Authorize
  BY Zenon, <1>1, <1>6 DEF Authorize, EngineInv, database
<1>7. CASE PersistIntent
  <2> DEFINE a == [draft EXCEPT !.state = Importing, !.before = history(cur)]
  <2>1. cur \in Jobs /\ draft = attempt[cur] /\ draft.state = Running /\ draft \in Attempt
    BY Zenon, <1>1, <1>7 DEF PersistIntent, EngineInv, TypeOK
  <2>2. CASE Return
    BY Zenon, <1>2, <2>2 DEF Return
  <2>3. CASE /\ mayUpdateAttempt(attempt[cur], a) /\ SaveAttempt(a)
             /\ draft' = a /\ pc' = "submit" /\ cur' = cur
    <3>1. a.state = Importing /\ a.num = draft.num
      BY Zenon, <2>1 DEF Attempt
    <3>2. attempt'[cur] = a
      BY Zenon, <1>1, <2>1, <2>3 DEF SaveAttempt, TypeOK
    <3> HIDE DEF a
    <3>3. \A c \in commands : c.job = cur => c.num # draft.num
      BY Zenon, <1>1, <2>1 DEF CommandInv
    <3>4. commands' = commands
      BY Zenon, <1>7 DEF PersistIntent, world
    <3> QED
      BY Zenon, <2>1, <2>3, <3>1, <3>2, <3>3, <3>4 DEF EngineInv
  <2> QED
    BY Zenon, <1>7, <2>2, <2>3 DEF PersistIntent
<1>8. CASE Submit
  <2>1. cur \in Jobs /\ draft = attempt[cur] /\ draft.state = Importing /\ draft \in Attempt
    BY Zenon, <1>1, <1>8 DEF Submit, EngineInv, TypeOK
  <2>2. draft' = draft \/ draft' = [draft EXCEPT !.command = TRUE]
    BY Zenon, <1>8 DEF Submit
  <2>3. draft'.state = Importing /\ draft'.num = draft.num /\ draft'.before = draft.before
    BY Zenon, <2>1, <2>2 DEF Attempt
  <2> QED
    BY Zenon, <1>8, <2>1, <2>3 DEF Submit, EngineInv, database
<1>9. CASE RecordCommand
  <2>1. cur \in Jobs /\ draft.state = Importing
    BY Zenon, <1>1, <1>9 DEF RecordCommand, EngineInv
  <2>2. CASE Return
    BY Zenon, <1>2, <2>2 DEF Return
  <2>3. CASE /\ mayUpdateAttempt(attempt[cur], draft) /\ SaveAttempt(draft)
             /\ pc' = "check" /\ cur' = cur /\ draft' = draft
    BY Zenon, <1>1, <2>1, <2>3 DEF SaveAttempt, TypeOK, EngineInv
  <2> QED
    BY Zenon, <1>9, <2>2, <2>3 DEF RecordCommand
<1>10. CASE CheckHistory
  BY Zenon, <1>1, <1>2, <1>10 DEF CheckHistory, SaveAndReturn, Return, EngineInv, database
<1>11. CASE RunInterrupted \/ RunNothing \/ AuthorizeBlocked \/ RepairFails
            \/ CheckCommand \/ GiveUpImport
  BY Zenon, <1>2, <1>11 DEF RunInterrupted, RunNothing, AuthorizeBlocked, RepairFails,
                     CheckCommand, GiveUpImport, SaveAndReturn, Return
<1> QED
  BY Zenon, <1>3, <1>4, <1>5, <1>6, <1>7, <1>8, <1>9, <1>10, <1>11 DEF Engine

\* Every step keeps what is known of the copies of the engine and the handler.
LEMMA CopiesStep ==
    ASSUME SafetyInv, [Next]_vars
    PROVE  EngineInv' /\ AnswerInv'
<1>1. TypeOK /\ EngineInv /\ AnswerInv
  BY Zenon DEF SafetyInv
<1>2. EngineInv'
  <2>1. CASE Observation
    BY Zenon, <2>1 DEF Observation, ObserveQueue, Collect, ObservationFails, Reconcile,
                            ObserveJob, RequestCleanup, ListComplete, EndCleanup, EngineInv
  <2>2. ASSUME NEW j \in Jobs, AdvanceJob(j) PROVE EngineInv'
    BY Zenon, <2>2 DEF AdvanceJob, advanceStep, EngineInv
  <2>3. CASE ListJobs \/ EndPass \/ PlanLost \/ \E o \in {"error", "no repair", "repair"} : Plan(o)
    BY Zenon, <2>3 DEF ListJobs, EndPass, PlanLost, Plan, Return, EngineInv
  <2>4. CASE Removal \/ Operator \/ Environment
    BY Zenon, <1>1, <2>4, OthersStep, CommandOrigins DEF EngineInv, engine
  <2>5. CASE Crash
    BY Zenon, <2>5 DEF Crash, EngineInv
  <2>6. CASE UNCHANGED vars
    BY Zenon, <1>1, <2>6 DEF vars, database, engine, world, EngineInv
  <2> QED
    BY Zenon, <2>1, <2>2, <2>3, <2>4, <2>5, <2>6, EngineStep DEF Next, Advance
<1>3. AnswerInv'
  <2>1. CASE Operator
    BY <1>1, <2>1 DEF Operator, OpenPage, ReadAnswer, PostAction, PostAnswer, AnswerInv
  <2>2. CASE Crash
    BY Zenon, <2>2 DEF Crash, AnswerInv
  <2>3. CASE Observation \/ Advance
    BY Zenon, <1>1, <2>3 DEF Observation, ObserveQueue, Collect, ObservationFails, Reconcile,
                                  ObserveJob, RequestCleanup, ListComplete, EndCleanup, Advance,
                                  ListJobs, EndPass, AdvanceJob, Plan, PlanLost, operator, AnswerInv
  <2>4. CASE Engine
    BY Zenon, <1>1, <2>4 DEF Engine, RunReady, RunInterrupted, RunImporting, RunNothing,
                              StartAttempt, Authorize, AuthorizeBlocked, RepairFails, PersistIntent,
                              Submit, RecordCommand, CheckHistory, CheckCommand, GiveUpImport,
                              operator, AnswerInv
  <2>5. CASE Removal \/ Environment
    BY Zenon, <1>1, <2>5 DEF Removal, ListRemovals, EndRemovals, BeginRemoval, RemoveTracking,
                            EndRemoval, Environment, SourceChanges, QueueChanges, RetryDue,
                            Stabilizes, ToggleDisabled, CommandStep, operator, AnswerInv
  <2>6. CASE UNCHANGED vars
    BY Zenon, <1>1, <2>6 DEF vars, operator, AnswerInv
  <2> QED
    BY Zenon, <2>1, <2>2, <2>3, <2>4, <2>5, <2>6 DEF Next
<1> QED
  BY Zenon, <1>2, <1>3

-----------------------------------------------------------------------------
(* Import commands *)

\* What CommandInv says of a command and the latest attempt of its job
Accounted(c, a) ==
    /\ c.num <= a.num
    /\ c.num = a.num => a.state # Running
    /\ c.num < a.num \/ a.state # Importing => settled(c)
    /\ c.num < a.num /\ a.state = Importing /\ c.files = "listed" => c.num \in a.before

\* CommandInv, command by command
LEMMA AccountedFor ==
    ASSUME CommandInv, NEW c \in commands
    PROVE  Accounted(c, attempt[c.job])
  BY Zenon DEF CommandInv, Accounted

\* A saved attempt that accounts for the commands of its job
LEMMA SavedCommands ==
    ASSUME SafetyInv, cur \in Jobs, NEW a \in Attempt, UNCHANGED <<commands, posts>>,
           attempt' = [attempt EXCEPT ![cur] = a],
           \A c \in commands : c.job = cur => Accounted(c, a)
    PROVE  CommandInv'
<1>1. CommandInv /\ attempt \in [Jobs -> Attempt] /\ commands \subseteq Command
  BY Zenon DEF SafetyInv, TypeOK
<1>2. ASSUME NEW c \in commands PROVE Accounted(c, attempt'[c.job])
  <2>1. c.job \in Jobs
    BY Zenon, <1>1 DEF Command
  <2>2. CASE c.job = cur
    BY Zenon, <1>1, <2>2
  <2>3. CASE c.job # cur
    BY Zenon, <1>1, <2>1, <2>3, AccountedFor
  <2> QED
    BY Zenon, <2>2, <2>3
<1> QED
  BY Zenon, <1>1, <1>2 DEF CommandInv, Accounted

\* The same for a write that may fail or conflict
LEMMA SaveStep ==
    ASSUME SafetyInv, cur \in Jobs, NEW a \in Attempt, UNCHANGED <<commands, posts>>,
           SaveAttempt(a) \/ attempt' = attempt,
           a.num = attempt[cur].num =>
               \A c \in commands : c.job = cur => Accounted(c, a)
    PROVE  CommandInv'
<1>1. CASE attempt' = attempt
  BY Zenon, <1>1 DEF SafetyInv, CommandInv
<1>2. CASE mayUpdateAttempt(attempt[cur], a) /\ attempt' = [attempt EXCEPT ![cur] = a]
  BY Zenon, <1>2, SavedCommands DEF mayUpdateAttempt
<1> QED
  BY Zenon, <1>1, <1>2 DEF SaveAttempt

\* The steps of the engine up to the stored intent: no command belongs to an
\* attempt that is Running, so that those of older attempts are settled.
LEMMA RepairCommands ==
    ASSUME SafetyInv, StartAttempt \/ RunInterrupted \/ AuthorizeBlocked \/ RepairFails
                      \/ PersistIntent
    PROVE  CommandInv'
<1>1. TypeOK /\ EngineInv /\ AttemptInv /\ CommandInv
  BY Zenon DEF SafetyInv
<1>2. ASSUME cur \in Jobs, attempt[cur].state = Running, NEW c \in commands, c.job = cur
      PROVE  c.num < attempt[cur].num /\ settled(c)
  <2>1. c.num \in Nat /\ attempt[cur].num \in Nat
    BY Zenon, <1>1, <1>2 DEF TypeOK, Command, Attempt
  <2> QED
    BY <1>2, <1>1, <2>1 DEF CommandInv
<1>3. ASSUME cur \in Jobs, attempt[cur].state = Running, NEW a \in Attempt,
             a.state \in {Failed, Blocked}, UNCHANGED <<commands, posts>>,
             SaveAttempt(a) \/ attempt' = attempt
      PROVE  CommandInv'
  <2>1. ASSUME a.num = attempt[cur].num, NEW c \in commands, c.job = cur
        PROVE  Accounted(c, a)
    <3>1. c.num \in Nat /\ attempt[cur].num \in Nat
      BY Zenon, <1>1, <1>3 DEF TypeOK, Command, Attempt
    <3> QED
      BY <1>2, <1>3, <2>1, <3>1 DEF Accounted
  <2> QED
    BY Zenon, <1>3, <2>1, SaveStep
<1>4. CASE StartAttempt
  <2> DEFINE a == startedAttempt(jobs[cur], attempt[cur])
  <2>1. cur \in Jobs /\ UNCHANGED <<commands, posts>>
    BY Zenon, <1>1, <1>4 DEF StartAttempt, EngineInv, world
  <2>2. CASE attempt' = attempt
    BY Zenon, <1>1, <2>1, <2>2 DEF CommandInv
  <2>3. CASE mayStart(jobs[cur]) /\ attempt' = [attempt EXCEPT ![cur] = a]
    <3>1. a.num = attempt[cur].num + 1 /\ a.state = Running /\ ~active(attempt[cur].state)
      BY Zenon, <2>1, <2>3, RowTypes, StartKeeps
    <3>2. a \in Attempt
      <4>1. attempt' \in [Jobs -> Attempt]
        BY Zenon, <1>4, TypeStep DEF Next, Engine, TypeOK
      <4> QED
        BY Zenon, <1>1, <2>1, <2>3, <4>1 DEF TypeOK
    <3> HIDE DEF a
    <3>3. ASSUME NEW c \in commands, c.job = cur PROVE Accounted(c, a)
      <4>1. c.num \in Nat /\ attempt[cur].num \in Nat
        BY Zenon, <1>1, <2>1 DEF TypeOK, Command, Attempt
      <4>2. c.num <= attempt[cur].num /\ settled(c)
        BY Zenon, <1>1, <3>1, <3>3 DEF CommandInv, active
      <4> QED
        BY <3>1, <4>1, <4>2 DEF Accounted
    <3> QED
      BY Zenon, <2>1, <2>3, <3>2, <3>3, SavedCommands
  <2> QED
    BY Zenon, <1>4, <2>2, <2>3 DEF StartAttempt
<1>5. CASE RunInterrupted
  <2>1. cur \in Jobs /\ attempt[cur].state = Running
    BY Zenon, <1>1, <1>5 DEF RunInterrupted, EngineInv
  <2>2. attempt[cur] \in Attempt /\ Failed \in States
    BY Zenon, <1>1, <2>1 DEF TypeOK, States
  <2>3. /\ [attempt[cur] EXCEPT !.state = Failed] \in Attempt
        /\ [attempt[cur] EXCEPT !.state = Failed].state = Failed
    BY Zenon, <2>2, AttemptTypes
  <2> QED
    BY Zenon, <1>3, <1>5, <2>1, <2>3 DEF RunInterrupted, SaveAndReturn, world
<1>6. CASE AuthorizeBlocked \/ RepairFails
  <2>1. cur \in Jobs /\ attempt[cur].state = Running
    BY Zenon, <1>1, <1>6 DEF AuthorizeBlocked, RepairFails, EngineInv
  <2>2. draft \in Attempt /\ Failed \in States /\ Blocked \in States
    BY Zenon, <1>1 DEF TypeOK, States
  <2>3. /\ [draft EXCEPT !.state = Failed] \in Attempt
        /\ [draft EXCEPT !.state = Failed].state = Failed
        /\ [draft EXCEPT !.state = Blocked] \in Attempt
        /\ [draft EXCEPT !.state = Blocked].state = Blocked
    BY Zenon, <2>2, AttemptTypes
  <2> QED
    BY Zenon, <1>3, <1>6, <2>1, <2>3 DEF AuthorizeBlocked, RepairFails, SaveAndReturn, world
<1>7. CASE PersistIntent
  <2> DEFINE a == [draft EXCEPT !.state = Importing, !.before = history(cur)]
  <2>1. cur \in Jobs /\ attempt[cur].state = Running /\ UNCHANGED <<commands, posts>>
    BY Zenon, <1>1, <1>7 DEF PersistIntent, EngineInv, world
  <2>2. a \in Attempt /\ a.state = Importing /\ a.before = history(cur)
    <3>1. history(cur) \in SUBSET Nat /\ draft \in Attempt /\ Importing \in States
      BY <1>1 DEF history, TypeOK, Command, States
    <3> QED
      BY Zenon, <3>1 DEF Attempt
  <2>3. SaveAttempt(a) \/ attempt' = attempt
    BY Zenon, <1>7 DEF PersistIntent
  <2> HIDE DEF a
  <2>4. ASSUME a.num = attempt[cur].num, NEW c \in commands, c.job = cur
        PROVE  Accounted(c, a)
    <3>1. c.num \in Nat /\ attempt[cur].num \in Nat
      BY Zenon, <1>1, <2>1 DEF TypeOK, Command, Attempt
    <3>2. c.files = "listed" => c.num \in history(cur)
      BY Zenon, <2>4 DEF history
    <3> QED
      <4>1. c.num < attempt[cur].num /\ settled(c)
        BY Zenon, <1>2, <2>1, <2>4
      <4>2. c.num < a.num /\ c.num <= a.num /\ c.num # a.num
        BY SMTT(60), <2>4, <3>1, <4>1
      <4> QED
        BY Zenon, <2>2, <3>2, <4>1, <4>2 DEF Accounted
  <2> QED
    BY Zenon, <2>1, <2>2, <2>3, <2>4, SaveStep
<1> QED
  BY Zenon, <1>4, <1>5, <1>6, <1>7

\* The accepted command is the first one of its attempt.
LEMMA SubmitCommands ==
    ASSUME SafetyInv, Submit
    PROVE  CommandInv'
<1>1. TypeOK /\ EngineInv /\ CommandInv
  BY Zenon DEF SafetyInv
<1>2. /\ cur \in Jobs /\ draft = attempt[cur] /\ draft.state = Importing
      /\ \A c \in commands : c.job = cur => c.num # draft.num
  BY Zenon, <1>1 DEF Submit, EngineInv
<1>3. attempt' = attempt
  BY Zenon DEF Submit, database
<1>4. CASE UNCHANGED <<commands, posts>>
  BY Zenon, <1>1, <1>3, <1>4 DEF CommandInv
<1>5. CASE /\ commands' = commands \cup {accepted}
           /\ posts' = [posts EXCEPT ![cur] = posts[cur] + 1]
  <2>1. /\ accepted.job = cur /\ accepted.num = draft.num
        /\ accepted.post = posts[cur] + 1 /\ accepted.files = "out"
    BY Zenon DEF accepted
  <2>2. draft.num \in Nat /\ posts \in [Jobs -> Nat] /\ posts[cur] \in Nat
    BY Zenon, <1>1, <1>2 DEF TypeOK, Attempt
  <2>3. ASSUME NEW c \in commands
        PROVE  c.job \in Jobs /\ c.num \in Nat /\ c.post \in Nat /\ attempt[c.job].num \in Nat
    BY Zenon, <1>1 DEF TypeOK, Command, Attempt
  <2>4. ASSUME NEW c \in commands
        PROVE  Accounted(c, attempt[c.job]) /\ c.post <= posts'[c.job]
    <3>1. c.post <= posts[c.job]
      BY Zenon, <1>1 DEF CommandInv
    <3> QED
      BY <1>1, <1>5, <2>2, <2>3, <3>1, AccountedFor
  <2>5. Accounted(accepted, attempt[cur]) /\ accepted.post <= posts'[cur]
    BY <1>2, <1>5, <2>1, <2>2 DEF Accounted
  <2>6. ASSUME NEW c \in commands, c.job = cur
        PROVE  c.num < accepted.num /\ c.post < accepted.post
    <3>1. c.num <= draft.num /\ c.num # draft.num /\ c.post <= posts[cur]
      BY Zenon, <1>1, <1>2, <2>6 DEF CommandInv
    <3> QED
      BY <2>1, <2>2, <2>3, <3>1
  <2>7. \A c \in commands' : Accounted(c, attempt'[c.job]) /\ c.post <= posts'[c.job]
    BY Zenon, <1>3, <1>5, <2>1, <2>4, <2>5
  <2>8. ASSUME NEW c \in commands', NEW d \in commands', c.job = d.job
        PROVE  (c.num = d.num => c = d) /\ (c.post < d.post => c.num < d.num)
    <3>1. CASE c \in commands /\ d \in commands
      BY Zenon, <1>1, <2>8, <3>1 DEF CommandInv
    <3>2. CASE c = accepted \/ d = accepted
      <4> HIDE DEF accepted
      <4>1. accepted.num \in Nat /\ accepted.post \in Nat
        BY SMTT(60), <2>1, <2>2
      <4> QED
        BY SMTT(60), <1>5, <2>1, <2>3, <2>6, <2>8, <3>2, <4>1
    <3> QED
      BY Zenon, <1>5, <3>1, <3>2
  <2> QED
    BY Zenon, <2>7, <2>8 DEF CommandInv, Accounted
<1> QED
  BY Zenon, <1>4, <1>5 DEF Submit

\* The steps of the engine after that: an import is given up or found only when
\* its command is settled.
LEMMA ImportCommands ==
    ASSUME SafetyInv, RecordCommand \/ CheckHistory \/ CheckCommand \/ GiveUpImport
    PROVE  CommandInv'
<1>1. TypeOK /\ EngineInv /\ CommandInv
  BY Zenon DEF SafetyInv
<1>2. /\ cur \in Jobs /\ draft \in Attempt /\ draft.state = Importing
      /\ draft.num = attempt[cur].num /\ draft.before = attempt[cur].before
      /\ attempt[cur].state = Importing /\ UNCHANGED <<commands, posts>>
  BY Zenon, <1>1 DEF RecordCommand, CheckHistory, CheckCommand, GiveUpImport, EngineInv, TypeOK, world
<1>3. ASSUME NEW c \in commands, c.job = cur
      PROVE  /\ c.num <= draft.num
             /\ c.num < draft.num => settled(c) /\ (c.files = "listed" => c.num \in draft.before)
             /\ c.num \in Nat /\ draft.num \in Nat
  BY Zenon, <1>1, <1>2, <1>3 DEF CommandInv, TypeOK, Command, Attempt
<1>4. ASSUME NEW a \in Attempt, a.num = draft.num, a.before = draft.before,
             a.state = Importing, SaveAttempt(a) \/ attempt' = attempt
      PROVE  CommandInv'
  BY Zenon, <1>2, <1>3, <1>4, SaveStep DEF Accounted
<1>5. ASSUME NEW a \in Attempt, a.num = draft.num, a.state \in {Imported, Failed},
             \E c \in commands : c.job = cur /\ c.num = draft.num /\ settled(c),
             SaveAttempt(a) \/ attempt' = attempt
      PROVE  CommandInv'
  <2>1. ASSUME NEW d \in commands, d.job = cur PROVE Accounted(d, a)
    <3>1. PICK c \in commands : c.job = cur /\ c.num = draft.num /\ settled(c)
      BY Zenon, <1>5
    <3>2. CASE d.num = draft.num
      <4>1. d = c
        BY Zenon, <1>1, <2>1, <3>1, <3>2 DEF CommandInv
      <4> QED
        BY Zenon, <1>3, <1>5, <2>1, <3>1, <4>1 DEF Accounted
    <3>3. CASE d.num # draft.num
      BY SMTT(60), <1>3, <1>5, <2>1, <3>3 DEF Accounted
    <3> QED
      BY Zenon, <3>2, <3>3
  <2> QED
    BY Zenon, <1>2, <1>5, <2>1, SaveStep
<1>6. /\ [draft EXCEPT !.state = Imported] \in Attempt
      /\ [draft EXCEPT !.state = Imported].state = Imported
      /\ [draft EXCEPT !.state = Imported].num = draft.num
      /\ [draft EXCEPT !.state = Failed] \in Attempt
      /\ [draft EXCEPT !.state = Failed].state = Failed
      /\ [draft EXCEPT !.state = Failed].num = draft.num
      /\ [draft EXCEPT !.terminal = TRUE] \in Attempt
      /\ [draft EXCEPT !.terminal = TRUE].state = Importing
      /\ [draft EXCEPT !.terminal = TRUE].num = draft.num
      /\ [draft EXCEPT !.terminal = TRUE].before = draft.before
  BY Zenon, <1>2 DEF Attempt, States
<1>7. CASE RecordCommand
  <2>1. SaveAttempt(draft) \/ attempt' = attempt
    BY Zenon, <1>7 DEF RecordCommand
  <2> QED
    BY Zenon, <1>2, <1>4, <2>1
<1>8. CASE CheckHistory
  <2>1. CASE /\ history(cur) \ draft.before # {}
             /\ SaveAndReturn([draft EXCEPT !.state = Imported])
    <3>1. PICK c \in commands : /\ c.job = cur /\ c.files = "listed"
                                /\ c.num \notin draft.before
      BY Zenon, <2>1 DEF history
    <3>2. c.num = draft.num /\ settled(c)
      BY <1>3, <3>1 DEF settled
    <3>3. SaveAttempt([draft EXCEPT !.state = Imported]) \/ attempt' = attempt
      BY Zenon, <2>1 DEF SaveAndReturn
    <3> QED
      BY Zenon, <1>5, <1>6, <3>1, <3>2, <3>3
  <2>2. CASE SaveAttempt(draft) \/ attempt' = attempt
    BY Zenon, <1>2, <1>4, <2>2
  <2> QED
    BY Zenon, <1>8, <2>1, <2>2 DEF CheckHistory, SaveAndReturn, database
<1>9. CASE CheckCommand
  <2>1. SaveAttempt(draft) \/ SaveAttempt([draft EXCEPT !.terminal = TRUE]) \/ attempt' = attempt
    BY Zenon, <1>9 DEF CheckCommand, SaveAndReturn, database
  <2> QED
    BY Zenon, <1>2, <1>4, <1>6, <2>1
<1>10. CASE GiveUpImport
  <2>1. PICK c \in commands : c.job = cur /\ c.num = draft.num /\ c.ended
    BY Zenon, <1>10 DEF GiveUpImport, commandEnded
  <2>2. settled(c)
    <3>1. c.files # "in" /\ c.files \in {"out", "in", "listed"}
      BY Zenon, <1>1, <1>10, <2>1 DEF GiveUpImport, graceOver, TypeOK, Command
    <3> QED
      BY Zenon, <2>1, <3>1 DEF settled
  <2>3. SaveAttempt([draft EXCEPT !.state = Failed]) \/ attempt' = attempt
    BY Zenon, <1>10 DEF GiveUpImport, SaveAndReturn
  <2> QED
    BY Zenon, <1>5, <1>6, <2>1, <2>2, <2>3
<1> QED
  BY Zenon, <1>7, <1>8, <1>9, <1>10

\* Servarr settles commands, and never unsettles one.
LEMMA ServarrCommands ==
    ASSUME SafetyInv, CommandStep, UNCHANGED <<attempt, posts>>
    PROVE  CommandInv'
<1>1. CommandInv /\ commands \subseteq Command
  BY Zenon DEF SafetyInv, TypeOK
<1>2. PICK c \in commands : \E d \in commandSteps(c) :
         commands' = (commands \ {c}) \cup {d}
  BY Zenon DEF CommandStep
<1>3. PICK d \in commandSteps(c) : commands' = (commands \ {c}) \cup {d}
  BY Zenon, <1>2
<1>4. /\ d.job = c.job /\ d.num = c.num /\ d.post = c.post
      /\ c.ended => d.ended
      /\ d.files = c.files \/ (c.files = "out" /\ ~c.ended) \/ d.files = "listed"
      /\ d.files = "listed" => c.files \in {"in", "listed"}
      /\ c.files = "listed" => d.files = "listed"
  BY Zenon, <1>1, CommandSteps
<1>5. settled(c) => settled(d) /\ (d.files = "listed" => c.files = "listed")
  BY Zenon, <1>4 DEF settled
<1>6. Accounted(c, attempt[c.job]) /\ c.post <= posts[c.job]
  BY Zenon, <1>1, AccountedFor DEF CommandInv
<1>7. Accounted(d, attempt[d.job]) /\ d.post <= posts[d.job]
  BY Zenon, <1>4, <1>5, <1>6 DEF Accounted
<1>8. \A e \in commands' : Accounted(e, attempt'[e.job]) /\ e.post <= posts'[e.job]
  BY Zenon, <1>1, <1>3, <1>7, AccountedFor DEF CommandInv
<1>9. ASSUME NEW e \in commands', NEW f \in commands', e.job = f.job
      PROVE  (e.num = f.num => e = f) /\ (e.post < f.post => e.num < f.num)
  <2>1. ASSUME NEW g \in commands, g.job = c.job
        PROVE  /\ g.num = c.num => g = c
               /\ g.post < c.post => g.num < c.num
               /\ c.post < g.post => c.num < g.num
    BY Zenon, <1>1, <2>1 DEF CommandInv
  <2>2. d.post \in Nat
    BY Zenon, <1>1, <1>4 DEF Command
  <2>3. CASE e = d /\ f = d
    BY <2>2, <2>3
  <2>4. CASE e = d /\ f # d
    BY Zenon, <1>3, <1>4, <1>9, <2>1, <2>4
  <2>5. CASE e # d /\ f = d
    BY Zenon, <1>3, <1>4, <1>9, <2>1, <2>5
  <2>6. CASE e # d /\ f # d
    BY Zenon, <1>1, <1>3, <1>9, <2>6 DEF CommandInv
  <2> QED
    BY Zenon, <2>3, <2>4, <2>5, <2>6
<1> QED
  BY Zenon, <1>8, <1>9 DEF CommandInv, Accounted

\* Every step keeps the commands accounted for.
LEMMA CommandsStep ==
    ASSUME SafetyInv, [Next]_vars
    PROVE  CommandInv'
<1>1. CASE UNCHANGED <<attempt, commands, posts>>
  BY Zenon, <1>1 DEF SafetyInv, CommandInv
<1>2. CASE Engine
  <2>1. CASE RunReady \/ RunImporting \/ RunNothing \/ Authorize
    BY Zenon, <1>1, <2>1 DEF RunReady, RunImporting, RunNothing, Authorize, database, world
  <2> QED
    BY Zenon, <1>2, <2>1, RepairCommands, SubmitCommands, ImportCommands DEF Engine
<1>3. CASE Removal \/ Operator \/ Environment
  BY Zenon, <1>1, <1>3, OthersStep, ServarrCommands
<1>4. CASE Crash \/ UNCHANGED vars
  BY Zenon, <1>1, <1>4 DEF Crash, vars, database, world
<1> QED
  BY Zenon, <1>1, <1>2, <1>3, <1>4, MainStep DEF Next

-----------------------------------------------------------------------------
(* The theorems *)

\* The invariant holds initially, in every legacy database.
LEMMA SafetyInit == Init => SafetyInv
<1> SUFFICES ASSUME Init PROVE SafetyInv
  BY Zenon
<1>1. \A j \in Jobs : /\ jobs[j] \in Row /\ jobs[j].action = NoAction
                      /\ jobs[j].state \in {Absent, Observed, Blocked}
  <2> SUFFICES ASSUME NEW j \in Jobs
               PROVE  /\ jobs[j] \in Row /\ jobs[j].action = NoAction
                      /\ jobs[j].state \in {Absent, Observed, Blocked}
    BY Zenon
  <2>1. jobs[j] = NoRow \/ jobs[j] \in Legacy
    BY Zenon DEF Init
  <2>2. CASE jobs[j] = NoRow
    BY <2>2, NoRowType DEF NoRow
  <2>3. CASE jobs[j] \in Legacy
    BY Zenon, <2>3, RepairrAssumption
  <2> QED
    BY Zenon, <2>1, <2>2, <2>3
<1>2. TypeOK
  <2>1. jobs \in [Jobs -> Row]
    BY Zenon, <1>1 DEF Init
  <2>2. obs \in [queue : SUBSET Jobs, complete : SUBSET Jobs, seen : [Jobs -> Seen]]
    BY Zenon, NoRowType DEF Init, NoObservation
  <2>3. page \in [Jobs -> [open : BOOLEAN, rev : Nat, src : Sources \cup {NoSource}]]
    BY Zenon DEF Init, NoPage
  <2>4. requested \in [job : Jobs \cup {NoJob}, row : Row]
        /\ answer \in [job : Jobs \cup {NoJob}, row : Row]
    BY Zenon, NoRowType DEF Init, NoAnswer
  <2> QED
    BY Zenon, <2>1, <2>2, <2>3, <2>4, NoRowType DEF Init, TypeOK, MainSteps
<1>3. AttemptInv /\ PendingActionServed /\ ResultsInv
  <2>1. \A j \in Jobs : attempt[j].state = Absent /\ results[j] = {}
    BY Zenon DEF Init, NoAttempt
  <2> QED
    BY Zenon, <1>1, <2>1 DEF AttemptInv, JobMatchesAttempt, AttemptStates, PendingActionServed,
                                ResultsInv, active
<1>4. EngineInv /\ RemovalInv /\ AnswerInv /\ CommandInv
  BY Zenon DEF Init, EngineInv, RemovalInv, AnswerInv, CommandInv
<1> QED
  BY Zenon, <1>2, <1>3, <1>4 DEF SafetyInv

\* The invariant is inductive.
LEMMA SafetyStep == SafetyInv /\ [Next]_vars => SafetyInv'
  BY Zenon, TypeStep, RowsStep, CopiesStep, CommandsStep DEF SafetyInv

\* The inductive invariant holds in every reachable state.
THEOREM SafetyInvariant == Spec => []SafetyInv
  BY SafetyInit, SafetyStep, PTL DEF Spec

\* Every reachable state has its type: in particular, the engine never plans or
\* repairs without a job at hand and never stores a row that is none.
THEOREM TypeCorrect == Spec => []TypeOK
<1>1. SafetyInv => TypeOK
  BY Zenon DEF SafetyInv
<1> QED
  BY <1>1, SafetyInvariant, PTL

\* A job and its latest attempt change together (UpdateAttempt, Start).
THEOREM JobFollowsAttempt == Spec => []JobMatchesAttempt
<1>1. SafetyInv => JobMatchesAttempt
  BY Zenon DEF SafetyInv, AttemptInv
<1> QED
  BY <1>1, SafetyInvariant, PTL

\* Whatever crashes, lost answers, requests and observations come between,
\* an accepted import keeps its job Importing until it is resolved.
THEOREM ImportHeld == Spec => []UnresolvedImportHeld
<1>1. SafetyInv => UnresolvedImportHeld
  <2> SUFFICES ASSUME SafetyInv, NEW c \in commands, ~resolved(c)
               PROVE  /\ attempt[c.job].num = c.num /\ attempt[c.job].state = Importing
                      /\ jobs[c.job].state = Importing
    BY Zenon DEF UnresolvedImportHeld
  <2>1. c.job \in Jobs /\ c.num \in Nat /\ attempt[c.job].num \in Nat
    BY Zenon DEF SafetyInv, TypeOK, Command, Attempt
  <2>2. ~settled(c)
    BY Zenon DEF resolved, settled
  <2>3. attempt[c.job].num = c.num /\ attempt[c.job].state = Importing
    <3>1. Accounted(c, attempt[c.job])
      BY Zenon, AccountedFor DEF SafetyInv
    <3> QED
      BY <2>1, <2>2, <3>1 DEF Accounted
  <2> QED
    BY Zenon, <2>1, <2>3 DEF SafetyInv, AttemptInv, JobMatchesAttempt, active
<1> QED
  BY <1>1, SafetyInvariant, PTL

\* The engine submits an attempt at most once, and a job's next import only
\* after the one before it was resolved.
THEOREM SubmissionsAreSerial == Spec => []ImportsAreSerial
<1>1. SafetyInv => ImportsAreSerial
  <2> SUFFICES ASSUME SafetyInv, NEW c \in commands, NEW d \in commands,
                      c.job = d.job, c # d
               PROVE  c.num # d.num /\ (c.post < d.post => c.num < d.num /\ resolved(c))
    BY Zenon DEF ImportsAreSerial
  <2>1. c.num # d.num /\ (c.post < d.post => c.num < d.num)
    BY Zenon DEF SafetyInv, CommandInv
  <2>2. c.num \in Nat /\ d.num \in Nat /\ attempt[c.job].num \in Nat
    BY Zenon DEF SafetyInv, TypeOK, Command, Attempt
  <2>3. d.num <= attempt[c.job].num
    BY Zenon DEF SafetyInv, CommandInv
  <2>4. c.num < d.num => settled(c)
    <3>1. Accounted(c, attempt[c.job])
      BY Zenon, AccountedFor DEF SafetyInv
    <3> QED
      BY <2>2, <2>3, <3>1 DEF Accounted
  <2> QED
    BY Zenon, <2>1, <2>4 DEF settled, resolved
<1> QED
  BY <1>1, SafetyInvariant, PTL

\* The database keeps the actions goroutine from removing the job the engine is
\* repairing.
THEOREM ExclusionOfRepair == Spec => []RemovalExcludesRepair
<1>1. SafetyInv => RemovalExcludesRepair
  <2> SUFFICES ASSUME SafetyInv, pc \in {"authorize", "transform", "submit", "record"},
                      apc \in {"remove", "finish"}, requested.job = cur
               PROVE  FALSE
    BY Zenon DEF RemovalExcludesRepair
  <2>1. cur \in Jobs /\ attempt[cur].state \in {Running, Importing}
    BY Zenon DEF SafetyInv, EngineInv
  <2>2. jobs[cur].state \in {Running, Importing}
    BY Zenon, <2>1 DEF SafetyInv, AttemptInv, JobMatchesAttempt, active
  <2>3. jobs[cur].state = Removing
    BY Zenon DEF SafetyInv, RemovalInv
  <2> QED
    BY Zenon, <2>2, <2>3
<1> QED
  BY <1>1, SafetyInvariant, PTL

\* No stored request is stranded in a state in which nothing serves it.
THEOREM RequestsAreServed == Spec => []PendingActionServed
<1>1. SafetyInv => PendingActionServed
  BY Zenon DEF SafetyInv
<1> QED
  BY <1>1, SafetyInvariant, PTL

-----------------------------------------------------------------------------
(* Every step keeps plans and decisions *)

\* The steps of a pass over the List snapshot
PassSteps == {"work", "plan", "run", "start", "authorize", "transform", "submit",
              "record", "check", "status"}

\* The rows of the List snapshot are old, but their results are not touched until
\* their turn comes; a row read at the start of a run that may still be started
\* has the inputs it had then.
DecisionCopies ==
    /\ NoRepeatedDecision
    /\ pc \in PassSteps =>
          \A j \in todo : list[j].state = Observed => undecided(results[j], list[j])
    /\ pc \in PassSteps \ {"work"} => cur \notin todo
    /\ pc = "start" /\ mayStart(jobs[cur]) =>
          held.src = jobs[cur].src /\ held.rev = jobs[cur].rev
    /\ pc \in {"authorize", "transform", "submit", "record"} =>
          draft.plan = [src |-> held.src, rev |-> held.rev]

\* What is known of plans and decisions: the rows, and the copies of them that
\* are in flight
DecisionInv ==
    (\A j \in Jobs : DecisionRow(jobs[j], results[j])) /\ DecisionCopies

\* What SafetyInv and DecisionInv say of one row
LEMMA DecisionTypes ==
    ASSUME SafetyInv, DecisionInv, NEW j \in Jobs
    PROVE  /\ jobs[j] \in Row /\ results[j] \in SUBSET Result
           /\ DecisionRow(jobs[j], results[j])
           /\ jobs[j].state = Absent => results[j] = {}
           /\ \A r \in results[j] : r.rev <= jobs[j].rev
<1>1. RowInv(jobs[j], attempt[j], results[j]) /\ jobs[j] \in Row
      /\ results[j] \in SUBSET Result
  BY Zenon, RowTypes
<1> QED
  BY Zenon, <1>1 DEF RowInv, DecisionInv

\* Every row is as it should be after the step.
DecisionsKept == \A j \in Jobs : DecisionRow(jobs'[j], results'[j])

\* A step that leaves the rows and the results alone
LEMMA SameDecisions ==
    ASSUME DecisionInv, jobs' = jobs, results' = results
    PROVE  DecisionsKept
  BY Zenon DEF DecisionInv, DecisionsKept

\* A transaction on the row of one job
LEMMA OneDecision ==
    ASSUME SafetyInv, DecisionInv, NEW i \in Jobs, NEW row,
           jobs' = [jobs EXCEPT ![i] = row], DecisionRow(row, results'[i]),
           \A j \in Jobs \ {i} : results'[j] = results[j]
    PROVE  DecisionsKept
<1>1. jobs'[i] = row /\ \A j \in Jobs \ {i} : jobs'[j] = jobs[j]
  BY Zenon DEF SafetyInv, TypeOK
<1> QED
  BY Zenon, <1>1 DEF DecisionInv, DecisionsKept

\* What the others write to a row: a request, a step of the removal or of the clock
OtherWrite(row, new) ==
    \/ \E a \in {Reconsider, Delete} : new = requestAction(row, a)
    \/ new = StartRemoval(row)
    \/ \E failed \in BOOLEAN : new = FinishRemoval(row, failed)
    \/ new = [row EXCEPT !.retry = FALSE]
    \/ new = [row EXCEPT !.stable = TRUE]

\* Whatever the removal, the operator and the environment do is such a write.
LEMMA OthersWrite ==
    ASSUME SafetyInv, Removal \/ Operator \/ Environment
    PROVE  /\ results' = results
           /\ \/ jobs' = jobs
              \/ \E i \in Jobs : \E new : /\ OtherWrite(jobs[i], new)
                                          /\ jobs' = [jobs EXCEPT ![i] = new]
<1>1. TypeOK /\ RemovalInv /\ AnswerInv
  BY Zenon DEF SafetyInv
<1> USE DEF OtherWrite
<1>2. CASE Removal
  <2>1. CASE ListRemovals \/ EndRemovals \/ RemoveTracking
    BY Zenon, <2>1 DEF ListRemovals, EndRemovals, RemoveTracking, database
  <2>2. ASSUME NEW j \in Jobs, BeginRemoval(j)
        PROVE  /\ results' = results
               /\ jobs' = jobs \/ jobs' = [jobs EXCEPT ![j] = StartRemoval(jobs[j])]
    BY Zenon, <2>2 DEF BeginRemoval
  <2>3. CASE EndRemoval
    <3>1. requested.job \in Jobs /\ failure \in BOOLEAN
      BY Zenon, <1>1, <2>3 DEF EndRemoval, RemovalInv, TypeOK
    <3>2. /\ results' = results
          /\ jobs' = jobs \/ jobs' = [jobs EXCEPT ![requested.job] =
                                         FinishRemoval(jobs[requested.job], failure)]
      BY Zenon, <2>3 DEF EndRemoval
    <3> QED
      BY Zenon, <3>1, <3>2
  <2> QED
    BY Zenon, <1>2, <2>1, <2>2, <2>3 DEF Removal
<1>3. CASE Operator
  <2>1. CASE \E j \in Jobs : OpenPage(j) \/ ReadAnswer(j)
    BY Zenon, <2>1 DEF OpenPage, ReadAnswer, database
  <2>2. ASSUME NEW j \in Jobs, NEW a \in {Reconsider, Delete}, PostAction(j, a)
        PROVE  results' = results /\ jobs' = [jobs EXCEPT ![j] = requestAction(jobs[j], a)]
    BY Zenon, <2>2 DEF PostAction
  <2>3. CASE PostAnswer
    <3>1. answer.job \in Jobs
      BY Zenon, <1>1, <2>3 DEF PostAnswer, AnswerInv
    <3>2. /\ results' = results
          /\ jobs' = jobs \/ jobs' = [jobs EXCEPT ![answer.job] =
                                         requestAction(jobs[answer.job], Reconsider)]
      BY Zenon, <2>3 DEF PostAnswer
    <3> QED
      BY Zenon, <3>1, <3>2
  <2> QED
    BY Zenon, <1>3, <2>1, <2>2, <2>3 DEF Operator
<1>4. CASE Environment
  <2>1. CASE ToggleDisabled \/ CommandStep \/ \E j \in Jobs : SourceChanges(j) \/ QueueChanges(j)
    BY Zenon, <2>1 DEF ToggleDisabled, CommandStep, SourceChanges, QueueChanges, database
  <2>2. ASSUME NEW j \in Jobs, RetryDue(j) \/ Stabilizes(j)
        PROVE  /\ results' = results
               /\ \/ jobs' = [jobs EXCEPT ![j] = [jobs[j] EXCEPT !.retry = FALSE]]
                  \/ jobs' = [jobs EXCEPT ![j] = [jobs[j] EXCEPT !.stable = TRUE]]
    BY Zenon, <2>2 DEF RetryDue, Stabilizes
  <2> QED
    BY Zenon, <1>4, <2>1, <2>2 DEF Environment
<1> QED
  BY Zenon, <1>2, <1>3, <1>4

\* None of these writes makes a row one that may be started.
LEMMA OtherDecision ==
    ASSUME SafetyInv, DecisionInv, NEW i \in Jobs, NEW new, OtherWrite(jobs[i], new)
    PROVE  /\ DecisionRow(new, results[i])
           /\ mayStart(new) => /\ mayStart(jobs[i])
                               /\ new.src = jobs[i].src /\ new.rev = jobs[i].rev
<1>1. /\ jobs[i] \in Row /\ results[i] \in SUBSET Result
      /\ DecisionRow(jobs[i], results[i])
      /\ \A r \in results[i] : r.rev <= jobs[i].rev
  BY Zenon, DecisionTypes
<1>2. ASSUME NEW a \in {Reconsider, Delete}
      PROVE  /\ DecisionRow(requestAction(jobs[i], a), results[i])
             /\ ~mayStart(requestAction(jobs[i], a))
  BY Zenon, <1>1, RequestDecision
<1>3. ASSUME QuietWrite(jobs[i], new), new.state = Ready => jobs[i].state = Ready,
             new.state = Ready => new.action = jobs[i].action
      PROVE  /\ DecisionRow(new, results[i])
             /\ mayStart(new) => /\ mayStart(jobs[i])
                                 /\ new.src = jobs[i].src /\ new.rev = jobs[i].rev
  BY Zenon, <1>1, <1>3, QuietDecision DEF QuietWrite, SameInputs, mayStart
<1>4. CASE new = StartRemoval(jobs[i])
  <2>1. new.state = Removing
    BY Zenon, <1>1, <1>4 DEF StartRemoval, Row
  <2> QED
    BY Zenon, <1>1, <1>3, <1>4, <2>1, QuietWrites
<1>5. ASSUME NEW failed \in BOOLEAN, new = FinishRemoval(jobs[i], failed)
      PROVE  DecisionRow(new, results[i]) /\ ~mayStart(new)
  <2>1. new.state \in {Blocked, Removed}
    BY Zenon, <1>1, <1>5, FinishedRemovalRow
  <2>2. QuietWrite(jobs[i], new)
    BY Zenon, <1>1, <1>5, QuietWrites
  <2> QED
    BY Zenon, <1>1, <2>1, <2>2, QuietDecision DEF mayStart
<1>6. CASE new = [jobs[i] EXCEPT !.retry = FALSE] \/ new = [jobs[i] EXCEPT !.stable = TRUE]
  <2>1. new.state = jobs[i].state /\ new.action = jobs[i].action
    BY Zenon, <1>1, <1>6 DEF Row
  <2>2. QuietWrite(jobs[i], new)
    BY Zenon, <1>1, <1>6, QuietWrites
  <2> QED
    BY Zenon, <1>3, <2>1, <2>2
<1> QED
  BY Zenon, <1>2, <1>4, <1>5, <1>6 DEF OtherWrite

\* Engine.Run starts the job at hand or lets it follow its attempt.
LEMMA EngineWrites ==
    ASSUME Engine
    PROVE  /\ pc \in PassSteps \ {"work"} /\ results' = results
           /\ \/ jobs' = jobs
              \/ mayStart(jobs[cur]) /\ jobs' = [jobs EXCEPT ![cur] = Start(jobs[cur])]
              \/ \E a : SaveAttempt(a)
<1> USE DEF PassSteps
<1>1. CASE RunReady \/ RunImporting \/ RunNothing \/ Authorize \/ Submit
  BY Zenon, <1>1 DEF RunReady, RunImporting, RunNothing, Authorize, Submit, database
<1>2. CASE StartAttempt
  BY Zenon, <1>2 DEF StartAttempt
<1>3. CASE RunInterrupted \/ AuthorizeBlocked \/ RepairFails
  BY Zenon, <1>3 DEF RunInterrupted, AuthorizeBlocked, RepairFails, SaveAndReturn
<1>4. CASE PersistIntent \/ RecordCommand
  BY Zenon, <1>4 DEF PersistIntent, RecordCommand
<1>5. CASE CheckHistory \/ CheckCommand \/ GiveUpImport
  BY Zenon, <1>5 DEF CheckHistory, CheckCommand, GiveUpImport, SaveAndReturn, database
<1> QED
  BY Zenon, <1>1, <1>2, <1>3, <1>4, <1>5 DEF Engine

\* What Engine.Run writes keeps the plan of a job and what was decided.
LEMMA EngineDecisions ==
    ASSUME SafetyInv, SafetyInv', DecisionInv, Engine
    PROVE  DecisionsKept
<1>1. TypeOK /\ EngineInv /\ AttemptInv /\ PendingActionServed
  BY Zenon DEF SafetyInv
<1>2. cur \in Jobs
  BY Zenon, <1>1, EngineWrites DEF EngineInv, PassSteps
<1>3. jobs[cur] \in Row /\ DecisionRow(jobs[cur], results[cur])
  BY Zenon, <1>2, DecisionTypes
<1>4. CASE jobs' = jobs
  BY Zenon, <1>4, EngineWrites, SameDecisions
<1>5. CASE mayStart(jobs[cur]) /\ jobs' = [jobs EXCEPT ![cur] = Start(jobs[cur])]
  <2>1. DecisionRow(Start(jobs[cur]), results[cur])
    BY Zenon, <1>3, <1>5, QuietWrites, QuietDecision
  <2> QED
    BY Zenon, <1>2, <1>5, <2>1, EngineWrites, OneDecision
<1>6. ASSUME NEW a, SaveAttempt(a) PROVE DecisionsKept
  <2>1. CASE ~mayUpdateAttempt(attempt[cur], a)
    BY Zenon, <1>4, <1>6, <2>1 DEF SaveAttempt
  <2>2. CASE mayUpdateAttempt(attempt[cur], a)
    <3>1. /\ attempt' = [attempt EXCEPT ![cur] = a]
          /\ jobs' = [jobs EXCEPT ![cur] = UpdateAttempt(jobs[cur], a)]
      BY Zenon, <1>6, <2>2 DEF SaveAttempt
    <3>2. a.state # Observed
      <4>1. attempt'[cur] = a
        BY Zenon, <1>1, <1>2, <3>1 DEF TypeOK
      <4>2. attempt'[cur].state \in AttemptStates
        BY Zenon, <1>2 DEF SafetyInv, AttemptInv
      <4> QED
        BY Zenon, <4>1, <4>2 DEF AttemptStates
    <3>3. jobs[cur].state \in {Running, Importing} /\ jobs[cur].action = NoAction
      BY Zenon, <1>1, <1>2, <2>2 DEF mayUpdateAttempt, AttemptInv, JobMatchesAttempt, AttemptStates,
                              PendingActionServed, active
    <3>4. DecisionRow(UpdateAttempt(jobs[cur], a), results[cur])
      BY ZenonT(60), <1>3, <3>2, <3>3, QuietWrites, QuietDecision
    <3> QED
      BY Zenon, <1>2, <3>1, <3>4, EngineWrites, OneDecision
  <2> QED
    BY Zenon, <2>1, <2>2
<1> QED
  BY Zenon, <1>4, <1>5, <1>6, EngineWrites

\* Observation and planning
LEMMA MainDecisions ==
    ASSUME SafetyInv, DecisionInv, Observation \/ Advance
    PROVE  DecisionsKept
<1>1. TypeOK /\ EngineInv
  BY Zenon DEF SafetyInv
<1>2. CASE \/ ObserveQueue \/ Collect \/ ObservationFails \/ ListComplete \/ EndCleanup
           \/ ListJobs \/ EndPass \/ PlanLost \/ \E j \in Jobs : AdvanceJob(j)
  <2>1. jobs' = jobs /\ results' = results
    BY Zenon, <1>2 DEF ObserveQueue, Collect, ObservationFails, ListComplete, EndCleanup,
                            ListJobs, EndPass, PlanLost, AdvanceJob, database
  <2> QED
    BY Zenon, <2>1, SameDecisions
<1>3. CASE Reconcile
  <2> SUFFICES ASSUME NEW j \in Jobs PROVE DecisionRow(jobs'[j], results'[j])
    BY Zenon DEF DecisionsKept
  <2>1. jobs'[j] = ReconcileQueue(jobs[j], j \in obs.queue) /\ results' = results
    BY Zenon, <1>3 DEF Reconcile
  <2>2. (j \in obs.queue) \in BOOLEAN /\ jobs[j] \in Row /\ DecisionRow(jobs[j], results[j])
    BY DecisionTypes
  <2>3. QuietWrite(jobs[j], ReconcileQueue(jobs[j], j \in obs.queue))
    BY Zenon, <2>2, QuietWrites
  <2> QED
    BY Zenon, <2>1, <2>2, <2>3, QuietDecision
<1>4. ASSUME NEW j \in Jobs, ObserveJob(j) PROVE DecisionsKept
  <2>1. PICK due \in BOOLEAN :
           /\ jobs' = [jobs EXCEPT ![j] =
                          Observe(results[j], jobs[j], obs.seen[j], due).row]
           /\ results' = [results EXCEPT ![j] =
                             Observe(results[j], jobs[j], obs.seen[j], due).results]
    BY Zenon, <1>4 DEF ObserveJob
  <2> DEFINE o == Observe(results[j], jobs[j], obs.seen[j], due)
  <2>2. obs.seen[j] \in Seen
    BY Zenon, <1>1 DEF TypeOK
  <2>3. DecisionRow(o.row, o.results)
    BY Zenon, <2>2, DecisionTypes, ObserveDecision
  <2> HIDE DEF o
  <2>4. results'[j] = o.results /\ \A i \in Jobs \ {j} : results'[i] = results[i]
    BY Zenon, <1>1, <2>1 DEF TypeOK, o
  <2> QED
    BY Zenon, <2>1, <2>3, <2>4, OneDecision DEF o
<1>5. ASSUME NEW j \in Jobs, RequestCleanup(j) PROVE DecisionsKept
  <2>1. results' = results
    BY Zenon, <1>5 DEF RequestCleanup
  <2>2. CASE jobs' = jobs
    BY Zenon, <2>1, <2>2, SameDecisions
  <2>3. CASE jobs' = [jobs EXCEPT ![j] = requestAction(jobs[j], Delete)]
    <3>1. DecisionRow(requestAction(jobs[j], Delete), results[j])
      BY Zenon, DecisionTypes, RequestDecision
    <3> QED
      BY Zenon, <2>1, <2>3, <3>1, OneDecision
  <2> QED
    BY Zenon, <1>5, <2>2, <2>3 DEF RequestCleanup
<1>6. ASSUME NEW o \in {"error", "no repair", "repair"}, Plan(o) PROVE DecisionsKept
  <2> DEFINE saved == FinishPlanning(jobs[cur], planned(held, o))
  <2>1. cur \in Jobs /\ held \in Row /\ held.src # NoSource /\ held.state = Observed
    BY Zenon, <1>1, <1>6 DEF Plan, EngineInv, TypeOK
  <2>2. CASE jobs' = jobs /\ results' = results
    BY Zenon, <2>2, SameDecisions
  <2>3. CASE /\ mayFinishPlanning(jobs[cur], planned(held, o))
             /\ jobs' = [jobs EXCEPT ![cur] = saved]
             /\ results' = [results EXCEPT ![cur] = rememberPlanning(results[cur], saved)]
    <3>1. DecisionRow(saved, rememberPlanning(results[cur], saved))
      BY Zenon, <2>1, <2>3, DecisionTypes, PlanningDecision
    <3> HIDE DEF saved
    <3>2. /\ results'[cur] = rememberPlanning(results[cur], saved)
          /\ \A i \in Jobs \ {cur} : results'[i] = results[i]
      BY Zenon, <1>1, <2>1, <2>3 DEF TypeOK
    <3> QED
      BY Zenon, <2>1, <2>3, <3>1, <3>2, OneDecision
  <2> QED
    BY Zenon, <1>6, <2>2, <2>3 DEF Plan
<1> QED
  BY Zenon, <1>2, <1>3, <1>4, <1>5, <1>6 DEF Observation, Advance

\* Observation, planning and the end of a pass keep what is held of the rows.
LEMMA MainCopies ==
    ASSUME SafetyInv, DecisionInv, Observation \/ Advance
    PROVE  DecisionCopies'
<1>1. TypeOK /\ DecisionCopies /\ EngineInv
  BY Zenon DEF SafetyInv, DecisionInv
<1>2. ASSUME pc' \notin PassSteps PROVE DecisionCopies'
  BY Zenon, <1>2 DEF DecisionCopies, NoRepeatedDecision, PassSteps
<1>3. CASE Observation
  <2>1. pc' \in {"collect", "advance", "reconcile", "observe", "cleanup"}
    BY Zenon, <1>3 DEF Observation, ObserveQueue, Collect, ObservationFails, Reconcile,
                            ObserveJob, RequestCleanup, ListComplete, EndCleanup
  <2> QED
    BY Zenon, <1>2, <2>1 DEF PassSteps
<1>4. CASE EndPass
  BY Zenon, <1>2, <1>4 DEF EndPass, PassSteps
<1>5. CASE ListJobs
  <2>1. pc' = "work" /\ list' = jobs /\ results' = results /\ todo' \subseteq Jobs
    BY Zenon, <1>5 DEF ListJobs, database
  <2>2. \A j \in todo' : list'[j].state = Observed => undecided(results'[j], list'[j])
    BY Zenon, <2>1 DEF DecisionInv, DecisionRow
  <2> QED
    BY Zenon, <2>1, <2>2 DEF DecisionCopies, NoRepeatedDecision
<1>6. ASSUME NEW j \in Jobs, AdvanceJob(j) PROVE DecisionCopies'
  <2>1. /\ pc = "work" /\ j \in todo /\ todo' = todo \ {j} /\ results' = results
        /\ list' = [list EXCEPT ![j] = NoRow] /\ pc' = advanceStep(list[j])
        /\ pc' # "work" => cur' = j
        /\ pc' = "plan" => held' = list[j]
    BY Zenon, <1>6 DEF AdvanceJob, database
  <2>2. pc' \in {"work", "plan", "run"} /\ (pc' = "plan" => list[j].state = Observed)
    BY Zenon, <2>1 DEF advanceStep
  <2>3. \A i \in todo' : list'[i] = list[i]
    BY Zenon, <1>1, <2>1 DEF TypeOK
  <2>4. \A i \in todo : list[i].state = Observed => undecided(results[i], list[i])
    BY Zenon, <1>1, <2>1 DEF DecisionCopies, PassSteps
  <2>5. pc' = "plan" => undecided(results'[cur'], held')
    BY Zenon, <2>1, <2>2, <2>4
  <2>6. \A i \in todo' : list'[i].state = Observed => undecided(results'[i], list'[i])
    BY Zenon, <2>1, <2>3, <2>4
  <2>7. NoRepeatedDecision'
    BY Zenon, <2>5 DEF NoRepeatedDecision, undecided
  <2>8. pc' # "work" => cur' \notin todo'
    BY Zenon, <2>1
  <2> QED
    BY Zenon, <2>2, <2>6, <2>7, <2>8 DEF DecisionCopies
<1>7. CASE PlanLost \/ \E o \in {"error", "no repair", "repair"} : Plan(o)
  <2>1. pc = "plan" /\ pc' = "work" /\ list' = list /\ todo' = todo
    BY Zenon, <1>7 DEF PlanLost, Plan, Return
  <2>2. cur \in Jobs /\ cur \notin todo /\ todo \subseteq Jobs
    BY Zenon, <1>1, <2>1 DEF EngineInv, DecisionCopies, PassSteps, TypeOK
  <2>3. results' = results \/ \E known : results' = [results EXCEPT ![cur] = known]
    BY Zenon, <1>7 DEF PlanLost, Plan, database
  <2>4. \A i \in todo : results'[i] = results[i]
    BY Zenon, <1>1, <2>2, <2>3 DEF TypeOK
  <2> QED
    BY Zenon, <1>1, <2>1, <2>4 DEF DecisionCopies, NoRepeatedDecision, PassSteps
<1> QED
  BY Zenon, <1>3, <1>4, <1>5, <1>6, <1>7 DEF Advance

\* Engine.Run holds the inputs of the plan it carries out.
LEMMA EngineCopies ==
    ASSUME SafetyInv, DecisionInv, Engine
    PROVE  DecisionCopies'
<1>1. TypeOK /\ DecisionCopies /\ EngineInv
  BY Zenon DEF SafetyInv, DecisionInv
<1>2. /\ list' = list /\ todo' = todo /\ results' = results
      /\ pc \in PassSteps \ {"work"}
      /\ pc' = "work" \/ cur' = cur
      /\ pc' \in PassSteps \ {"plan"}
  <2>1. results' = results /\ pc \in PassSteps \ {"work"}
    BY Zenon, EngineWrites
  <2>2. /\ list' = list /\ todo' = todo
        /\ pc' = "work" \/ cur' = cur
        /\ pc' \in {"work", "check", "start", "authorize", "transform", "submit",
                    "record", "status"}
    BY Zenon DEF Engine, RunReady, RunInterrupted, RunImporting, RunNothing, StartAttempt,
                      Authorize, AuthorizeBlocked, RepairFails, PersistIntent, Submit,
                      RecordCommand, CheckHistory, CheckCommand, GiveUpImport, SaveAndReturn, Return
  <2> QED
    BY Zenon, <2>1, <2>2 DEF PassSteps
<1>3. ASSUME pc' = "start" PROVE held' = jobs[cur] /\ jobs' = jobs
  BY Zenon, <1>3 DEF Engine, RunReady, RunInterrupted, RunImporting, RunNothing, StartAttempt,
                      Authorize, AuthorizeBlocked, RepairFails, PersistIntent, Submit, database,
                      RecordCommand, CheckHistory, CheckCommand, GiveUpImport, SaveAndReturn, Return
<1>4. ASSUME pc' \in {"authorize", "transform", "submit", "record"}
      PROVE  draft'.plan = [src |-> held'.src, rev |-> held'.rev]
  <2>1. draft \in Attempt /\ cur \in Jobs
    BY Zenon, <1>1, <1>2 DEF TypeOK, EngineInv, PassSteps
  <2>2. CASE StartAttempt
    <3>1. /\ pc = "start" /\ mayStart(jobs[cur]) /\ held' = held
          /\ draft' = startedAttempt(jobs[cur], attempt[cur])
      BY Zenon, <1>4, <2>2 DEF StartAttempt, Return
    <3>2. draft'.plan = jobs[cur].plan
      BY Zenon, <3>1 DEF startedAttempt, NoAttempt
    <3>3. jobs[cur].plan = [src |-> jobs[cur].src, rev |-> jobs[cur].rev]
      BY Zenon, <2>1, <3>1 DEF DecisionInv, DecisionRow, mayStart
    <3>4. held.src = jobs[cur].src /\ held.rev = jobs[cur].rev
      BY Zenon, <1>1, <3>1 DEF DecisionCopies
    <3> QED
      BY Zenon, <3>1, <3>2, <3>3, <3>4
  <2>3. CASE Authorize \/ PersistIntent \/ Submit
    <3>1. /\ pc \in {"authorize", "transform", "submit"} /\ held' = held
          /\ \/ draft' = draft
             \/ draft' = [draft EXCEPT !.state = Importing, !.before = history(cur)]
             \/ draft' = [draft EXCEPT !.command = TRUE]
      BY Zenon, <1>4, <2>3 DEF Authorize, PersistIntent, Submit, Return
    <3>2. draft'.plan = draft.plan
      BY Zenon, <2>1, <3>1 DEF Attempt
    <3> QED
      BY Zenon, <1>1, <3>1, <3>2 DEF DecisionCopies
  <2>4. CASE ~(StartAttempt \/ Authorize \/ PersistIntent \/ Submit)
    BY Zenon, <1>4, <2>4 DEF Engine, RunReady, RunInterrupted, RunImporting, RunNothing,
                      AuthorizeBlocked, RepairFails, RecordCommand, CheckHistory, CheckCommand,
                      GiveUpImport, SaveAndReturn, Return
  <2> QED
    BY Zenon, <2>2, <2>3, <2>4
<1>5. pc' \in PassSteps \ {"work"} => cur' \notin todo'
  BY Zenon, <1>1, <1>2 DEF DecisionCopies
<1>6. \A j \in todo' : list'[j].state = Observed => undecided(results'[j], list'[j])
  BY Zenon, <1>1, <1>2 DEF DecisionCopies
<1>7. pc' = "start" /\ mayStart(jobs'[cur']) =>
         held'.src = jobs'[cur'].src /\ held'.rev = jobs'[cur'].rev
  BY Zenon, <1>2, <1>3
<1> QED
  BY Zenon, <1>2, <1>4, <1>5, <1>6, <1>7 DEF DecisionCopies, NoRepeatedDecision

\* The others change no result, and no row to one that may be started.
LEMMA OtherCopies ==
    ASSUME SafetyInv, DecisionInv, Removal \/ Operator \/ Environment
    PROVE  DecisionsKept /\ DecisionCopies'
<1>1. TypeOK /\ DecisionCopies /\ EngineInv
  BY Zenon DEF SafetyInv, DecisionInv
<1>2. UNCHANGED <<pc, cur, list, todo, held, draft>>
  BY Zenon, OthersStep DEF engine
<1>3. CASE jobs' = jobs
  BY Zenon, <1>1, <1>2, <1>3, OthersWrite, SameDecisions DEF DecisionCopies, NoRepeatedDecision
<1>4. ASSUME NEW i \in Jobs, NEW new, OtherWrite(jobs[i], new),
             jobs' = [jobs EXCEPT ![i] = new]
      PROVE  DecisionsKept /\ DecisionCopies'
  <2>1. /\ DecisionRow(new, results[i])
        /\ mayStart(new) => /\ mayStart(jobs[i])
                            /\ new.src = jobs[i].src /\ new.rev = jobs[i].rev
    BY Zenon, <1>4, OtherDecision
  <2>2. results' = results
    BY Zenon, OthersWrite
  <2>3. DecisionsKept
    BY Zenon, <1>4, <2>1, <2>2, OneDecision
  <2>4. pc' = "start" /\ mayStart(jobs'[cur']) =>
           held'.src = jobs'[cur'].src /\ held'.rev = jobs'[cur'].rev
    <3> SUFFICES ASSUME pc = "start", mayStart(jobs'[cur])
                 PROVE  held.src = jobs'[cur].src /\ held.rev = jobs'[cur].rev
      BY Zenon, <1>2
    <3>1. cur \in Jobs
      BY Zenon, <1>1 DEF EngineInv
    <3>2. CASE cur = i
      <4>1. jobs'[cur] = new
        BY Zenon, <1>1, <1>4, <3>2 DEF TypeOK
      <4> QED
        BY Zenon, <1>1, <2>1, <3>2, <4>1 DEF DecisionCopies
    <3>3. CASE cur # i
      <4>1. jobs'[cur] = jobs[cur]
        BY Zenon, <1>1, <1>4, <3>1, <3>3 DEF TypeOK
      <4> QED
        BY Zenon, <1>1, <4>1 DEF DecisionCopies
    <3> QED
      BY Zenon, <3>2, <3>3
  <2> QED
    BY Zenon, <1>1, <1>2, <2>2, <2>3, <2>4 DEF DecisionCopies, NoRepeatedDecision
<1> QED
  BY Zenon, <1>3, <1>4, OthersWrite

\* Nothing is planned or decided at first.
LEMMA DecisionInit == Init => DecisionInv
<1> SUFFICES ASSUME Init PROVE DecisionInv
  BY Zenon
<1>1. pc = "idle" /\ \A j \in Jobs : results[j] = {}
  BY Zenon DEF Init
<1>2. \A j \in Jobs : jobs[j].state \in {Absent, Observed, Blocked}
  <2> SUFFICES ASSUME NEW j \in Jobs PROVE jobs[j].state \in {Absent, Observed, Blocked}
    BY Zenon
  <2>1. jobs[j] = NoRow \/ jobs[j] \in Legacy
    BY Zenon DEF Init
  <2>2. CASE jobs[j] = NoRow
    BY <2>2 DEF NoRow
  <2>3. CASE jobs[j] \in Legacy
    BY Zenon, <2>3, RepairrAssumption
  <2> QED
    BY Zenon, <2>1, <2>2, <2>3
<1>3. ASSUME NEW j \in Jobs PROVE DecisionRow(jobs[j], results[j])
  BY Zenon, <1>1, <1>2 DEF DecisionRow, undecided, oneEach
<1>4. DecisionCopies
  BY Zenon, <1>1 DEF DecisionCopies, NoRepeatedDecision, PassSteps
<1> QED
  BY Zenon, <1>3, <1>4 DEF DecisionInv

\* Together with SafetyInv, the invariant is inductive.
LEMMA DecisionStep ==
    SafetyInv /\ SafetyInv' /\ DecisionInv /\ [Next]_vars => DecisionInv'
<1> SUFFICES ASSUME SafetyInv, SafetyInv', DecisionInv, [Next]_vars PROVE DecisionInv'
  BY Zenon
<1>1. ASSUME DecisionsKept, DecisionCopies' PROVE DecisionInv'
  BY Zenon, <1>1 DEF DecisionInv, DecisionsKept
<1>2. CASE Crash
  <2>1. jobs' = jobs /\ results' = results /\ pc' = "idle"
    BY Zenon, <1>2 DEF Crash, database
  <2>2. DecisionCopies'
    BY Zenon, <2>1 DEF DecisionCopies, NoRepeatedDecision, PassSteps
  <2> QED
    BY Zenon, <1>1, <2>1, <2>2, SameDecisions
<1>3. CASE UNCHANGED vars
  BY Zenon, <1>3 DEF vars, database, engine, DecisionInv, DecisionCopies, NoRepeatedDecision
<1> QED
  BY Zenon, <1>1, <1>2, <1>3, MainDecisions, MainCopies, EngineDecisions, EngineCopies,
     OtherCopies DEF Next

\* The rows and every copy of them the engine holds agree on what was planned and
\* decided (Store.Observe, FinishPlanning, Start, rememberPlanning).
THEOREM DecisionInvariant == Spec => []DecisionInv
  BY DecisionInit, DecisionStep, SafetyInvariant, PTL DEF Spec

\* A plan is carried out only for the source and the revision it was made from,
\* however late the planner answers and whatever is observed, requested or lost
\* in between (FinishPlanning, Observe, Start).
THEOREM PlansAreCurrent == Spec => []PlanMatchesInputs
<1>1. DecisionInv => PlanMatchesInputs
  BY Zenon DEF DecisionInv, DecisionRow, DecisionCopies, PlanMatchesInputs
<1> QED
  BY <1>1, DecisionInvariant, PTL

\* The planner is never asked about inputs that have a decision for their
\* revision, although the List snapshot it is asked from may be old
\* (rememberPlanning, restorePlanning).
THEOREM DecisionsAreKept == Spec => []NoRepeatedDecision
<1>1. DecisionInv => NoRepeatedDecision
  BY Zenon DEF DecisionInv, DecisionCopies
<1> QED
  BY <1>1, DecisionInvariant, PTL
=============================================================================
