----------------------------- MODULE LidarrStore -----------------------------
(***************************************************************************)
(* The planning state of Lidarr downloads (lidarrrepair/state.go and       *)
(* planning_state.go): a file per case, a file per planning result, and a  *)
(* file per queue entry that names the case last observed for it.  Writers *)
(* hold a lock on the directory; readers hold none and read three files.   *)
(* A process may die between any two writes; when it starts it takes over  *)
(* the queue-v3 records of earlier versions, which it leaves in place.     *)
(* One queue entry; a file is replaced in one step (RecordStore).          *)
(***************************************************************************)
EXTENDS Naturals, Sequences

CONSTANTS Procs, CaseIDs, Decisions, Bindings,
          Legacy,      \* the old records, in the order of their names
          MaxWrites, MaxCrashes, MaxFailures

None == "none"
Free == "free"
NoAnswer == <<>>

VARIABLES stored,        \* the bindings stored with each case, 0 if there is no file
          results,      \* the decision and the failures of each case
          observation,  \* the case the queue entry's file names
          lock,
          proc,         \* each process: pc and locals
          writes, crashes,
          last,         \* auxiliary: the case a runner observed last
          window        \* auxiliary: what was the latest case during each read

storeVars == <<stored, results, observation, lock, proc, writes, crashes, last, window>>

\* The old records are of cases and decisions of the store.
ASSUME StoreAssumption ==
    /\ None \notin CaseIDs \cup Decisions
    /\ Legacy \in Seq([case : CaseIDs, bindings : Bindings, decision : Decisions])

AtRest == [pc |-> "idle"]
Undecided == [decision |-> None, failures |-> 0]
Starting(i) == [pc |-> "start", next |-> i]

StoreInit ==
    /\ stored = [c \in CaseIDs |-> 0]
    /\ results = [c \in CaseIDs |-> Undecided]
    /\ observation = None
    /\ lock = Free
    /\ proc = [p \in Procs |-> Starting(1)]
    /\ writes = 0 /\ crashes = 0
    /\ last = None
    /\ window = [p \in Procs |-> {}]

Observed(c) == [p \in Procs |-> IF window[p] = {} THEN {} ELSE window[p] \cup {c}]

-----------------------------------------------------------------------------
(* Store.PutCase: the case's file, then the entry's, under the lock.  A case *)
(* that is stored keeps what the planner saw and takes the new bindings.     *)

PutCaseFile(p, c, b, then) ==
    /\ lock = Free
    /\ lock' = p
    /\ stored' = [stored EXCEPT ![c] = b]
    /\ proc' = [proc EXCEPT ![p] = [pc |-> "observe", case |-> c, then |-> then]]
    /\ UNCHANGED <<results, observation, crashes, last, window>>

putObservationLocked(p) ==
    /\ proc[p].pc = "observe"
    /\ observation' = proc[p].case
    /\ window' = Observed(proc[p].case)
    /\ last' = IF proc[p].then.pc = "idle" THEN proc[p].case ELSE last
    /\ lock' = Free
    /\ proc' = [proc EXCEPT ![p] = proc[p].then]
    /\ UNCHANGED <<stored, results, writes, crashes>>

Observe(p) ==
    /\ proc[p].pc = "idle" /\ writes < MaxWrites
    /\ \E c \in CaseIDs, b \in Bindings : PutCaseFile(p, c, b, AtRest)
    /\ writes' = writes + 1

\* ResultStore.PutDecision: {} if the case is not stored or is decided otherwise
Decided(c, d) ==
    IF stored[c] = 0 \/ results[c].decision \notin {None, d}
      THEN {} ELSE {[results[c] EXCEPT !.decision = d]}

PutDecision(p) ==
    /\ proc[p].pc = "idle" /\ lock = Free /\ writes < MaxWrites
    /\ \E c \in CaseIDs, d \in Decisions : \E r \in Decided(c, d) :
         r # results[c] /\ results' = [results EXCEPT ![c] = r]
    /\ writes' = writes + 1
    /\ UNCHANGED <<stored, observation, lock, proc, crashes, last, window>>

PutFailure(p) ==
    /\ proc[p].pc = "idle" /\ lock = Free /\ writes < MaxWrites
    /\ \E c \in CaseIDs :
         /\ stored[c] # 0 /\ results[c].decision = None /\ results[c].failures < MaxFailures
         /\ results' = [results EXCEPT ![c].failures = @ + 1]
    /\ writes' = writes + 1
    /\ UNCHANGED <<stored, observation, lock, proc, crashes, last, window>>

-----------------------------------------------------------------------------
(* Store.Get, i.e. latestPlanned: three reads without the lock *)

ReadObservation(p) ==
    /\ proc[p].pc = "idle"
    /\ proc' = [proc EXCEPT ![p] = IF observation = None THEN [pc |-> "got", answer |-> NoAnswer]
                                   ELSE [pc |-> "case", case |-> observation]]
    /\ window' = [window EXCEPT ![p] = {observation}]
    /\ UNCHANGED <<stored, results, observation, lock, writes, crashes, last>>

readCase(p) ==
    /\ proc[p].pc = "case"
    /\ LET c == proc[p].case
       IN  proc' = [proc EXCEPT ![p] = IF stored[c] = 0 THEN [pc |-> "got", answer |-> NoAnswer]
                                       ELSE [pc |-> "result", case |-> c, bindings |-> stored[c]]]
    /\ UNCHANGED <<stored, results, observation, lock, writes, crashes, last, window>>

\* Mutant: the decision is that of the case observed by now
readPlanningResultNow(p) ==
    /\ proc[p].pc = "result"
    /\ LET d == results[observation].decision
       IN  proc' = [proc EXCEPT ![p] =
                      [pc |-> "got", answer |-> IF d = None THEN NoAnswer
                         ELSE <<proc[p].case, proc[p].bindings, d>>]]
    /\ UNCHANGED <<stored, results, observation, lock, writes, crashes, last, window>>
readPlanningResult(p) ==
    /\ proc[p].pc = "result"
    /\ LET d == results[proc[p].case].decision
       IN  proc' = [proc EXCEPT ![p] =
                      [pc |-> "got", answer |-> IF d = None THEN NoAnswer
                         ELSE <<proc[p].case, proc[p].bindings, d>>]]
    /\ UNCHANGED <<stored, results, observation, lock, writes, crashes, last, window>>

ReturnRead(p) ==
    /\ proc[p].pc = "got"
    /\ proc' = [proc EXCEPT ![p] = AtRest]
    /\ window' = [window EXCEPT ![p] = {}]
    /\ UNCHANGED <<stored, results, observation, lock, writes, crashes, last>>

-----------------------------------------------------------------------------
(* NewStore: migrateLegacyRecords puts every old record, and fails to start  *)
(* if one cannot be put.                                                     *)

migrateLegacyRecords(p) ==
    /\ proc[p].pc = "start"
    /\ IF proc[p].next > Len(Legacy)
         THEN /\ proc' = [proc EXCEPT ![p] = AtRest]
              /\ UNCHANGED <<stored, results, observation, lock, crashes, last, window>>
         ELSE LET r == Legacy[proc[p].next]
              IN  PutCaseFile(p, r.case, r.bindings, [pc |-> "migrated", next |-> proc[p].next])
    /\ UNCHANGED writes

\* The second half of Put: the old record's decision
PutLegacyDecision(p) ==
    /\ proc[p].pc = "migrated" /\ lock = Free
    /\ LET r == Legacy[proc[p].next]
           decided == Decided(r.case, r.decision)
       IN  IF decided = {}
             THEN proc' = [proc EXCEPT ![p] = [pc |-> "down"]] /\ UNCHANGED results
             ELSE /\ \E x \in decided : results' = [results EXCEPT ![r.case] = x]
                  /\ proc' = [proc EXCEPT ![p] = Starting(proc[p].next + 1)]
    /\ UNCHANGED <<stored, observation, lock, writes, crashes, last, window>>

CrashProcess(p) ==
    /\ proc[p].pc \notin {"down", "start"} /\ crashes < MaxCrashes
    /\ crashes' = crashes + 1
    /\ lock' = IF lock = p THEN Free ELSE lock
    /\ proc' = [proc EXCEPT ![p] = Starting(1)]
    /\ window' = [window EXCEPT ![p] = {}]
    /\ UNCHANGED <<stored, results, observation, writes, last>>

StoreNext == \E p \in Procs :
    \/ Observe(p) \/ putObservationLocked(p) \/ PutDecision(p) \/ PutFailure(p)
    \/ ReadObservation(p) \/ readCase(p) \/ readPlanningResult(p) \/ ReturnRead(p)
    \/ migrateLegacyRecords(p) \/ PutLegacyDecision(p) \/ CrashProcess(p)

StoreSpec == StoreInit /\ [][StoreNext]_storeVars

-----------------------------------------------------------------------------
(* Properties *)

\* latestPlanned: what a reader is given is one case with its own decision, and
\* that case was the latest at some moment of the read, whatever the other
\* process wrote between the three reads.
ReadsTheLatest ==
    \A p \in Procs : proc[p].pc = "got" /\ proc[p].answer # NoAnswer =>
      LET c == proc[p].answer[1]
      IN  /\ c \in window[p]
          /\ results[c].decision = proc[p].answer[3]

\* The case store accepts one decision for a case: once stored it is never
\* replaced, by a retry, by another process or by the migration.
DecisionStays ==
    [][\A c \in CaseIDs : results[c].decision # None => results'[c].decision = results[c].decision]_storeVars

\* "TestStoreTracksRepeatedObservationOfOlderCase" (state_test.go): the entry's
\* file names the case that was observed last, also after a restart.
NamesLastObserved ==
    last # None /\ (\A p \in Procs : proc[p].pc # "observe") => observation = last
=============================================================================
