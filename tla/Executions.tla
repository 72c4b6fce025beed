----------------------------- MODULE Executions -----------------------------
(***************************************************************************)
(* The execution of a Radarr case as internal/casestore records it: the    *)
(* planner's decision, the plan bound for execution (a reconsidered        *)
(* decision differs from the planner's) and the execution record.  Every   *)
(* operation on a file is one step, which the proof about RecordStore      *)
(* justifies; what an operation checks before it takes the store's lock is *)
(* a step of its own.                                                      *)
(***************************************************************************)
EXTENDS ExecutionRecords

CONSTANT Reconsiderations     \* identities of reconsideration requests

VARIABLES base,       \* what the stored planner decision authorizes
          plan,       \* the bound execution plan
          execution,  \* the execution record
          admitted    \* authorizations checked by a caller that waits for the lock

vars == <<base, plan, execution, admitted>>

Plans == [decision : Authorizations, reconsideration : Reconsiderations \cup {None}]

\* A join prepared by an older release has the execution ID of that release.
Legacy(auth) == {Prepared(auth, TRUE, "prepared", None, at) : at \in Times}

Init ==
    /\ base \in Authorizations
    /\ plan = Absent
    /\ execution \in {Absent} \cup (IF base.kind = "join" THEN Legacy(base) ELSE {})
    /\ admitted = {}

\* GetExecutionPlan: the bound plan, or else the planner's decision
GetExecutionPlan == IF plan = Absent THEN base ELSE plan.decision

\* newExecutionPlanRecord: only a reconsideration changes the decision
newExecutionPlanRecord(p) == p.reconsideration = None => p.decision = base

\* A plan already bound is kept once there is an execution.
BindExecutionPlan(p) ==
    /\ newExecutionPlanRecord(p)
    /\ plan \notin {Absent, p} => execution = Absent
    /\ plan' = p
    /\ UNCHANGED <<base, execution, admitted>>

\* The four Prepare operations validate the authorization under the lock.
Prepare(o) ==
    /\ o.auth = GetExecutionPlan
    /\ execution' \in Written(o, execution)
    /\ UNCHANGED <<base, plan, admitted>>

\* MarkManualImportImported validates the authorization before it locks.
validateManualImportAuthorization(auth) ==
    /\ auth.kind = "manual" /\ auth = GetExecutionPlan
    /\ admitted' = admitted \cup {auth}
    /\ UNCHANGED <<base, plan, execution>>

Confirm(o) ==
    /\ o.op = "MarkManualImportImported" /\ o.auth \in admitted
    /\ execution' \in Written(o, execution)
    /\ admitted' = admitted \ {o.auth}
    /\ UNCHANGED <<base, plan>>

Update(o) ==
    /\ o.op # "MarkManualImportImported"
    /\ execution' \in Written(o, execution)
    /\ UNCHANGED <<base, plan, admitted>>

Next ==
    \/ \E p \in Plans : BindExecutionPlan(p)
    \/ \E a \in Authorizations : validateManualImportAuthorization(a)
    \/ \E o \in PrepareCalls : Prepare(o)
    \/ \E o \in ImportedCalls : Confirm(o)
    \/ \E o \in UpdateCalls : Update(o)

Spec == Init /\ [][Next]_vars

-----------------------------------------------------------------------------
(* Properties *)

\* The encoders and decoders: whatever calls came before, no operation on a case
\* with a planner's decision makes a record that its own encoder refuses, so no case
\* ends in an execution that can neither be continued nor read.
OutcomesReadBack ==
    /\ execution # Absent => validateExecution(execution)
    /\ base # None =>
          \A o \in Calls : \A n \in Outcome(o, execution) : validateExecution(n)

\* MarkJoinImported, MarkRemuxImported, MarkManualImportImported: an execution is
\* imported only by a history entry newer than the request and of the requested
\* file, and a worker's output only after it was verified and published.
ImportsAreProven ==
    execution # Absent =>
        /\ execution.state = "imported" =>
              /\ execution.confirmation.history > execution.before
              /\ execution.confirmation.path =
                    IF execution.kind = "manual" THEN execution.auth.file ELSE execution.path
        /\ execution.path # None => /\ execution.published # None /\ execution.artifact # None
                                    /\ execution.stage \notin Rejections

\* sameManualImport, DeepEqual(previous.Authorization, ...), CommandID: an execution
\* stays bound to the plan it was prepared for, to the first command Radarr
\* accepted and to its end; only a join discarded by an older release is prepared
\* again.
KeepsBound ==
    execution # Absent =>
        /\ execution'.auth = execution.auth
        /\ execution.command # None => execution'.command = execution.command
        /\ execution.state \in {"imported", "import_failed", "failed"} => execution' = execution
        /\ execution.state = "discarded" /\ ~execution.legacy => execution' = execution

\* The same of every step
StaysBound == [][KeepsBound]_vars
=============================================================================
