SPECIFICATION Repairs
CONSTANTS
    Cases = {c1, c2}
    WantedTracks = {t1}
    Executors = {e1, e2}
    TerminalChecks = 2
    MaxHistory = 1
    Absent = Absent
    Nothing = Nothing
    Releases = {"lp", "cd"}
    Order <- Listing
    TracksOf <- AlbumTracks
    Contents <- Versions
    Proposals <- Answers
    Kinds = {"tar", "dir"}
    Changes = {"download", "file", "release", "refresh", "view", "queue", "workspace"}
    MaxChanges = 2
    MaxRevisions = 0
    MaxFaults = 0
    Procs = {"p1", "p2"}
    CaseIDs = {"c1", "c2"}
    Decisions = {"d1", "d2"}
    Bindings = {1, 2}
    Legacy <- OldRecords
    MaxWrites = 3
    MaxCrashes = 2
    MaxFailures = 1
    Names <- InDirectory
    Audio = {"a.wv", "b.flac"}
    Cue = {"c.cue"}
    CueText = {}
    Wv = {"a.wv"}
    Unsafe = {"d.link"}
    Archive = "x.tar"
    Members <- InArchive
    Initially = {"b.flac"}
    Edited = {"a.wv", "b.flac", "c.cue", "d.link"}
    Operations = {"directory"}
    CueTracks <- SheetTracks
    Track <- SplitNames
    MaxEdits = 2
    MaxRequests = 2
    MaxMounts = 1
INVARIANTS
    ImportsWhatWasPlanned
    ImportFitsAlbum
    ReadsTheLatest
    SubmittedOnce
    OneActiveImport
    
PROPERTIES
    AnswersAreAvailable
SYMMETRY Symmetry
CHECK_DEADLOCK FALSE
