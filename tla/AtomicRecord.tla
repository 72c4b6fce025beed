---------------------------- MODULE AtomicRecord ----------------------------
(***************************************************************************)
(* What a store of locked record files promises the callers of one record: *)
(* every operation takes effect at one instant, on the record as it then   *)
(* is, and a record a caller was told it wrote is never undone.  A record  *)
(* that was written but not yet confirmed may be lost to a power failure.  *)
(***************************************************************************)
CONSTANTS Ops,            \* the operations
          NoRecord,         \* no record yet
          Outcome(_, _)   \* the records an operation may leave; {} refuses it

VARIABLES record,         \* the record every reader sees
          safe,           \* the record that survives a power failure
          told            \* the record last reported to a caller as written

Init == record = NoRecord /\ safe = NoRecord /\ told = NoRecord

Update ==
    /\ \E o \in Ops : record' \in Outcome(o, record)
    /\ UNCHANGED <<safe, told>>

Commit == safe' = record /\ UNCHANGED <<record, told>>

Tell == safe' = record /\ told' = record /\ UNCHANGED record

Lose == record' = safe /\ UNCHANGED <<safe, told>>

Next == Update \/ Commit \/ Tell \/ Lose

Spec == Init /\ [][Next]_<<record, safe, told>>
=============================================================================
