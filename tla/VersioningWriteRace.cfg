CONSTANTS
    f1 = f1
    f2 = f2
    d1 = d1
    d2 = d2
    t1 = t1
    t2 = t2
    Files = {f1}
    Data = {d1, d2}
    NumBlocks = 1
    MaxVersion = 2
    Threads = {t1, t2}
    Hole = Hole
    Absent = Absent
    NoName = NoName
    NoRequest = NoRequest
    Crashes = FALSE
    IOErrors = FALSE
    ByName = FALSE

SPECIFICATION Spec
SYMMETRY Symmetry

INVARIANTS
    WriteIsVersioned
