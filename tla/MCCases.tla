------------------------------ MODULE MCCases ------------------------------
(***************************************************************************)
(* The life of a case for TLC: its execution record, the time its import   *)
(* is given, and its planning by two processes and over a longer time.     *)
(* Only the part named by the first state takes steps.                     *)
(***************************************************************************)
EXTENDS Executions, ImportWindow, Planning, TLC

VARIABLE part

\* One process and two states of the case, and time to wait for a retry
Retries == INSTANCE Planning WITH Processes <- {"p1"}, CaseStates <- {"s1", "s2"},
                                  Decisions <- {"d"}, Maximum <- 3, MaxClock <- 4

ASSUME RecordConstants == ConstantsOK
ASSUME PlanningConstants == PlanningConstantsOK /\ Retries!PlanningConstantsOK

\* Without it a check may end after the grace period with the history of before it.
ASSUME ChecksAreQuick == QuickChecks

CasesInit ==
    /\ part \in {"window", "records", "planners", "retries"}
    /\ WindowInit
    /\ IF part = "records" THEN Init
       ELSE base = None /\ plan = Absent /\ execution = Absent /\ admitted = {}
    /\ CASE part = "planners" -> PlanningInit
         [] part = "retries" -> Retries!PlanningInit
         [] OTHER -> /\ clock = 0 /\ world = "s1" /\ case = Missing /\ seenAt = <<>>
                     /\ result = Missing /\ requests = {} /\ results = <<>> /\ proc = <<>>
                     /\ report = <<>>
CasesNext ==
    /\ \/ part = "window" /\ WindowNext /\ UNCHANGED <<vars, planningVars>>
       \/ part = "records" /\ Next /\ UNCHANGED <<windowVars, planningVars>>
       \/ part = "planners" /\ PlanningNext /\ UNCHANGED <<vars, windowVars>>
       \/ part = "retries" /\ Retries!PlanningNext /\ UNCHANGED <<vars, windowVars>>
    /\ UNCHANGED part
Cases == CasesInit /\ [][CasesNext]_<<part, vars, windowVars, planningVars>>

Symmetry == Permutations(Files) \cup Permutations(Artifacts) \cup Permutations(Places)
=============================================================================
