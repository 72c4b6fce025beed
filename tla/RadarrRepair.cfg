SPECIFICATION Repairs
CONSTANTS
    MaxInt = 2000
    Agreement = 5
    RateParts = 1000
    FeatureLength = 50
    MaxPlaylists = 2
    MaxDiscs = 2
    MinFiles = 3
    MaxFiles = 4
    MaxTracks = 3
    Sources <- Torrent
    Published <- PublishedNames
    Telling <- TellingMessage
    Minute = 100
    MinimumTolerance = 10
    Output <- PublishedOutput
    Runtime = 1
    MaxRuntime = 2
    Failures <- WorkerFailures
    Paths <- PlainPaths
    FileOf <- PlainFile
    ProbeOf <- PlainProbe
    DiscOf <- Disc
    Opinions <- NoOpinion
    Starts <- Pending
    Histories <- GrabbedOrNot
    Stabilization = 1
    Proposals <- AnyAnswer
    Changes = {"file", "queue", "client"}
    MaxChanges = 2
    MaxTime = 1
    MaxRevisions = 0
    MaxFaults = 0
INVARIANTS
    RepairIsJustified
    OfferedIsGranted
    JoinIsSound
    VerdictIsSound
PROPERTIES
    NoiseIsHarmless
CHECK_DEADLOCK FALSE
