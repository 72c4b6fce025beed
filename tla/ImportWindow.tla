---------------------------- MODULE ImportWindow ----------------------------
(***************************************************************************)
(* When Repairr may give an import up (Engine.reconcile).                  *)
(*                                                                         *)
(* One submitted import with the clock that module Repairr leaves out: the *)
(* command puts files into the library and ends, its history record comes  *)
(* up to HistoryLag later, and the engine polls.  A check reads history,   *)
(* then the command, and looks at the clock when both have answered, which *)
(* is up to CheckTime after history was read.                              *)
(***************************************************************************)
EXTENDS Naturals

CONSTANTS Grace,       \* engine.go: 30 seconds from ImportTerminalAt
          HistoryLag,  \* from the end of a command to its history record
          CheckTime,   \* from the read of history to the decision
          MaxTime      \* bound: the clock stops here

\* What the proofs need of the constants
WindowConstantsOK == Grace \in Nat /\ HistoryLag \in Nat /\ CheckTime \in Nat /\ MaxTime \in Nat
ASSUME WindowAssumption == WindowConstantsOK

\* A check is quick enough for the grace period to cover the lag of history.
QuickChecks == HistoryLag + CheckTime < Grace

VARIABLES now,
          command,     \* Servarr: ended, since endedAt; files in the library;
                       \* the history record listed
          attempt,     \* the database: state, ImportTerminalAt when terminal
          check        \* the engine: what it has read, and when it read history

windowVars == <<now, command, attempt, check>>

idle == [step |-> "idle", readAt |-> 0]

WindowInit ==
    /\ now = 0
    /\ command = [ended |-> FALSE, endedAt |-> 0, files |-> FALSE, listed |-> FALSE]
    /\ attempt = [state |-> "importing", terminal |-> FALSE, terminalAt |-> 0]
    /\ check = idle

-----------------------------------------------------------------------------
(* Servarr and the clock *)

\* Time passes unless history or a check is overdue.
Tick ==
    /\ now < MaxTime
    /\ command.ended /\ command.files /\ ~command.listed
           => now < command.endedAt + HistoryLag
    /\ check.step # "idle" => now < check.readAt + CheckTime
    /\ now' = now + 1
    /\ UNCHANGED <<command, attempt, check>>

ImportFiles ==
    /\ ~command.ended /\ ~command.files
    /\ command' = [command EXCEPT !.files = TRUE]
    /\ UNCHANGED <<now, attempt, check>>

EndCommand ==
    /\ ~command.ended
    /\ command' = [command EXCEPT !.ended = TRUE, !.endedAt = now]
    /\ UNCHANGED <<now, attempt, check>>

ListImport ==
    /\ command.files /\ ~command.listed
    /\ command' = [command EXCEPT !.listed = TRUE]
    /\ UNCHANGED <<now, attempt, check>>

-----------------------------------------------------------------------------
(* Engine.reconcile and CheckImport *)

\* A receipt in history settles the import at once.
ReadHistory ==
    /\ attempt.state = "importing" /\ check.step = "idle"
    /\ IF command.listed
       THEN /\ attempt' = [attempt EXCEPT !.state = "imported"]
            /\ UNCHANGED check
       ELSE /\ check' = [step |-> "status", readAt |-> now]
            /\ UNCHANGED attempt
    /\ UNCHANGED <<now, command>>

\* The grace period starts when the command is first seen to have ended.
\* Mutant: it starts at submission.
sinceSubmission == 0

terminalSince == IF attempt.terminal THEN attempt.terminalAt ELSE now

ReadCommand ==
    /\ check.step = "status"
    /\ check' = idle
    /\ attempt' =
          IF command.ended
          THEN [state      |-> IF now >= terminalSince + Grace
                               THEN "failed" ELSE "importing",
                terminal   |-> TRUE,
                terminalAt |-> terminalSince]
          ELSE attempt
    /\ UNCHANGED <<now, command>>

\* A failed read or write, or a crash: the check is forgotten.
AbandonCheck ==
    /\ check.step = "status"
    /\ check' = idle
    /\ UNCHANGED <<now, command, attempt>>

WindowNext == Tick \/ ImportFiles \/ EndCommand \/ ListImport
              \/ ReadHistory \/ ReadCommand \/ AbandonCheck

WindowSpec == WindowInit /\ [][WindowNext]_windowVars

-----------------------------------------------------------------------------
\* The shape of the state.
WindowTypeOK ==
    /\ now \in Nat
    /\ command \in [ended : BOOLEAN, endedAt : Nat, files : BOOLEAN, listed : BOOLEAN]
    /\ attempt \in [state : {"importing", "imported", "failed"},
                    terminal : BOOLEAN, terminalAt : Nat]
    /\ check \in [step : {"idle", "status"}, readAt : Nat]

\* "Give history time to catch up with a completed command" (engine.go): an
\* import whose files reached the library is never recorded as failed.
NoFalseFailure == attempt.state = "failed" => ~command.files
=============================================================================
