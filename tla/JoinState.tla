------------------------------ MODULE JoinState ------------------------------
(***************************************************************************)
(* The worker's store of join executions (worker/joinstate): the record of *)
(* one execution, and what each operation of the store makes of it.  An    *)
(* operation is given as the set of records it may leave, {} if it returns *)
(* an error; RecordStore says how the result reaches the disk.             *)
(***************************************************************************)
EXTENDS RecordStore

CONSTANTS Specs,          \* specifications; each has its own artifact ID
          Fingerprints,   \* of a staged output
          Places,         \* a root and a path under it
          Reasons,        \* of a failed stage
          Times,
          Nothing         \* no output, place or failure

JoinStates == {"prepared", "staged", "published", "discarded", "failed"}

Executions ==
    [spec : Specs, artifact : Specs, state : JoinStates,
     staged : Fingerprints \cup {Nothing}, published : Places \cup {Nothing},
     failure : Reasons \cup {Nothing}, preparedAt : Times, updatedAt : Times]

ASSUME JoinStateAssumption == NoRecord \notin Executions

\* artifactID: a digest of the specification, so one per specification
artifactID(spec) == spec

\* The calls; transport fields are no part of a specification.
Calls ==
    [op : {"Prepare"}, spec : Specs, at : Times]
        \cup [op : {"MarkStaged"}, artifact : Specs, fingerprint : Fingerprints, at : Times]
        \cup [op : {"MarkStageFailed"}, reason : Reasons, at : Times]
        \cup [op : {"MarkPublished"}, artifact : Specs, fingerprint : Fingerprints,
              published : Places, at : Times]
        \cup [op : {"MarkDiscarded"}, artifact : Specs, fingerprint : Fingerprints, at : Times]

\* validateExecution: what is stored must hold together; checked by every
\* write and by every read
validateExecution(e) ==
    /\ e.artifact = artifactID(e.spec)
    /\ e.updatedAt >= e.preparedAt
    /\ (e.staged # Nothing) = (e.state \in {"staged", "published", "discarded"})
    /\ (e.published # Nothing) = (e.state = "published")
    /\ (e.failure # Nothing) = (e.state = "failed")

-----------------------------------------------------------------------------
\* A transition from one state, or a repetition that changes nothing
Move(e, from, to, repeated) ==
    IF e.state = from THEN {to} ELSE IF repeated THEN {e} ELSE {}

Prepare(o, e) ==
    IF e = NoRecord
    THEN {[spec |-> o.spec, artifact |-> artifactID(o.spec), state |-> "prepared",
           staged |-> Nothing, published |-> Nothing, failure |-> Nothing,
           preparedAt |-> o.at, updatedAt |-> o.at]}
    ELSE IF e.artifact = artifactID(o.spec) /\ e.spec = o.spec THEN {e} ELSE {}

matchArtifact(o, e) ==
    e.artifact = o.artifact /\ e.staged \in {Nothing, o.fingerprint}

MarkStaged(o, e) ==
    IF matchArtifact(o, e)
    THEN Move(e, "prepared", [e EXCEPT !.state = "staged", !.staged = o.fingerprint],
              e.state = "staged" /\ e.staged = o.fingerprint)
    ELSE {}

MarkStageFailed(o, e) ==
    Move(e, "prepared", [e EXCEPT !.state = "failed", !.failure = o.reason],
         e.state = "failed" /\ e.failure = o.reason)

\* Mutant: an artifact is published whatever became of it.
MarkPublishedAgain(o, e) ==
    IF matchArtifact(o, e)
    THEN Move(e, e.state, [e EXCEPT !.state = "published", !.published = o.published], FALSE)
    ELSE {}

MarkPublished(o, e) ==
    IF matchArtifact(o, e)
    THEN Move(e, "staged", [e EXCEPT !.state = "published", !.published = o.published],
              e.state = "published" /\ e.published = o.published)
    ELSE {}

MarkDiscarded(o, e) ==
    IF matchArtifact(o, e)
    THEN Move(e, "staged", [e EXCEPT !.state = "discarded"], e.state = "discarded")
    ELSE {}

marked(o, e) == CASE o.op = "MarkStaged"      -> MarkStaged(o, e)
                  [] o.op = "MarkStageFailed" -> MarkStageFailed(o, e)
                  [] o.op = "MarkPublished"   -> MarkPublished(o, e)
                  [] o.op = "MarkDiscarded"   -> MarkDiscarded(o, e)

\* update: only a prepared execution, never before its preparation
updated(o, e) ==
    IF e = NoRecord THEN {}
    ELSE IF o.at < e.preparedAt THEN {}
    ELSE {IF n = e THEN e ELSE [n EXCEPT !.updatedAt = o.at] : n \in marked(o, e)}

JoinOutcome(o, e) == IF o.op = "Prepare" THEN Prepare(o, e) ELSE updated(o, e)

\* The record store is one of join executions.
JoinRecordsOnly ==
    /\ Ops = Calls
    /\ \A o \in Calls, e \in Executions \cup {NoRecord} : Outcome(o, e) = JoinOutcome(o, e)

-----------------------------------------------------------------------------
(* Properties *)

\* Whatever callers, retries and faults do, a published or discarded artifact and
\* a failure are final, and an execution keeps its specification: only a write no
\* caller was told of can be lost, and only to a power failure.
OutcomeIsFinal ==
    [][/\ told # NoRecord /\ record' # NoRecord => record'.spec = told.spec
       /\ told # NoRecord /\ told.state \in {"published", "discarded", "failed"}
             => record' = told]_recordVars
=============================================================================
