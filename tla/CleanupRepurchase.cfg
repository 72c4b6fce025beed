SPECIFICATION Spec
CONSTANTS
    s1 = s1
    s2 = s2
    s3 = s3
    k1 = k1
    k2 = k2
    Sources = {s1, s3}
    Keys = {k1, k2}
    PlanningKey <- lidarrKeys
    NoSource = NoSource
    NoKey = NoKey
    NoPlan = NoPlan
    MaxTries = 1
    Jobs = {j1}
    NoJob = NoJob
    Lidarr = TRUE
    Legacy = {}
    MaxRevision = 1
    MaxAttempts = 1
    MaxFaults = 0
    MaxChanges = 3
INVARIANTS
    NoRepurchase
