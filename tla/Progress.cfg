SPECIFICATION RemovalSpec
CONSTANTS
    s1 = s1
    s2 = s2
    s3 = s3
    k1 = k1
    k2 = k2
    Sources = {s1, s2}
    Keys = {k1}
    PlanningKey <- radarrKeys
    NoSource = NoSource
    NoKey = NoKey
    NoPlan = NoPlan
    MaxTries = 1
    Jobs = {j1}
    NoJob = NoJob
    Lidarr = FALSE
    Legacy = {}
    MaxRevision = 1
    MaxAttempts = 2
    MaxFaults = 1
    MaxChanges = 0
PROPERTIES
    RemovalSettled
    ImportSettled
    RepairSettled
