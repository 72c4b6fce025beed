SPECIFICATION Spec
CONSTANTS
    a1 = a1
    a2 = a2
    d1 = d1
    Albums = {a1, a2}
    Download <- sharedDownload
    NoDownload = NoDownload
    Ids = {i1, i2, i3}
    Rows = {r1, r2}
    NoRow = NoRow
    NoKey = NoKey
    MaxRevision = 1
INVARIANTS
    RemovalSparesOthers
SYMMETRY identitySymmetry
