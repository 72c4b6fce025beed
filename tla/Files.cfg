SPECIFICATION FilesSpec
CONSTANTS
    Callers = {c1, c2}
    Ops <- Calls
    Outcome <- JoinOutcome
    NoRecord = NoRecord
    Nothing = Nothing
    Torn = Torn
    Free = Free
    Specs = {s1, s2}
    Fingerprints = {f1}
    Places = {p1}
    Reasons = {r1}
    Times = {1, 2}
    MaxCalls = 2
    MaxFailures = 1
    Artifacts = {"bluray", "dvd"}
    Kind <- Discs
    MaxFiles = 2
    MaxFaults = 2
    MaxChanges = 1
INVARIANTS
    OnlyVerifiedPublished
    AnswerIsDurable
    InventoryIsExact
PROPERTIES
    AtomicSpec
    OutcomeIsFinal
    RetainedNeverLost
CHECK_DEADLOCK FALSE
