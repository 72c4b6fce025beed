SPECIFICATION Attempts
CONSTANTS
    Absent = Absent
    Nothing = Nothing
    Torn = Torn
    MaxInt = 2000
    Agreement = 5
    RateParts = 1000
    FeatureLength = 50
    MaxPlaylists = 2
    MaxDiscs = 2
    MinFiles = 3
    MaxFiles = 4
    MaxTracks = 3
    Sources <- Torrent
    Published <- PublishedNames
    Telling <- TellingMessage
    Minute = 100
    MinimumTolerance = 10
    Output <- PublishedOutput
    Runtime = 1
    MaxRuntime = 2
    Failures <- WorkerFailures
    Paths <- PlainPaths
    FileOf <- PlainFile
    ProbeOf <- PlainProbe
    DiscOf <- Disc
    Opinions <- NoOpinion
    Starts <- Pending
    Histories <- Grabbed
    Stabilization = 1
    Proposals <- Offered
    Changes = {"file", "mount"}
    MaxChanges = 1
    MaxTime = 1
    MaxRevisions = 1
    MaxFaults = 0
PROPERTIES
    RepairIsAttempted
    CallsEnd
    
CHECK_DEADLOCK FALSE
