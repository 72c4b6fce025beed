SPECIFICATION Services
CONSTANTS
    s1 = s1
    s2 = s2
    s3 = s3
    k1 = k1
    k2 = k2
    Sources = {s1, s2, s3}
    Keys = {k1, k2}
    PlanningKey <- lidarrKeys
    NoSource = NoSource
    NoKey = NoKey
    NoPlan = NoPlan
    MaxTries = 1
    Jobs = {j1}
    NoJob = NoJob
    Lidarr = TRUE
    Legacy <- legacyRows
    MaxRevision = 0
    MaxAttempts = 1
    MaxFaults = 1
    MaxChanges = 2
INVARIANTS
    PlanMatchesInputs
    NoRepeatedDecision
SYMMETRY Symmetry
