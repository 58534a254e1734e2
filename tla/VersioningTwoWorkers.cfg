CONSTANTS
    f1 = f1
    f2 = f2
    d1 = d1
    d2 = d2
    t1 = t1
    t2 = t2
    Files = {f1}
    Data = {d1, d2}
    NumBlocks = 1
    MaxVersion = 3
    Threads = {t1, t2}
    Hole = Hole
    Absent = Absent
    NoName = NoName
    NoRequest = NoRequest
    Crashes = TRUE
    IOErrors = TRUE
    ByName = TRUE

SPECIFICATION Spec
SYMMETRY Symmetry

INVARIANTS
    TypeOK
    NewVersionIsFresh

PROPERTIES
    StoredVersionsImmutable
    VersionsInOrder
    AbortsOnlyWithoutSource
