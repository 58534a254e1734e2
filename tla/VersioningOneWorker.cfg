CONSTANTS
    f1 = f1
    f2 = f2
    d1 = d1
    d2 = d2
    t1 = t1
    t2 = t2
    Files = {f1}
    Data = {d1, d2}
    NumBlocks = 2
    MaxVersion = 3
    Threads = {t1}
    Hole = Hole
    Absent = Absent
    NoName = NoName
    NoRequest = NoRequest
    Crashes = TRUE
    IOErrors = TRUE
    ByName = FALSE

SPECIFICATION FairSpec

INVARIANTS
    WriteIsVersioned
    RestoreSetsCurrent

PROPERTIES
    RequestsAreAnswered
