CONSTANTS
    f1 = f1
    f2 = f2
    d1 = d1
    d2 = d2
    t1 = t1
    Files = {f1, f2}
    Data = {d1}
    NumBlocks = 2
    MaxVersion = 2
    Threads = {t1}
    Hole = Hole
    Absent = Absent
    NoName = NoName
    NoRequest = NoRequest
    Crashes = FALSE
    IOErrors = FALSE
    ByName = FALSE

SPECIFICATION RefinementSpec

PROPERTIES
    ImplementsHistory
