SPECIFICATION Queue
CONSTANTS
    a1 = a1
    a2 = a2
    a3 = a3
    a4 = a4
    d1 = d1
    d2 = d2
    Albums = {a1, a2, a3, a4}
    Download <- downloads
    NoDownload = NoDownload
    Ids = {i1, i2, i3}
    Rows = {r1, r2}
    NoRow = NoRow
    NoKey = NoKey
    MaxRevision = 1
    MaxEntries = 4
    PageSize = 1
    MaximumPages = 3
    Shrinking = {"lidarr history"}
    Subjects = {m1, m2}
    None = None
INVARIANTS
    UniqueKeys
    OneJobPerDownload
    
    SoleIdentity
SYMMETRY Symmetry
