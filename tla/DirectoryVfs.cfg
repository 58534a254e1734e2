CONSTANTS
    d1 = d1
    a = a
    b = b
    h1 = h1
    h2 = h2
    t1 = t1
    t2 = t2
    Dirs = {d1}
    Files = {a, b}
    Handles = {h1, h2}
    Threads = {t1, t2}
    Entries <- SomeNames
    MaxVersion = 2
    MaxEntries = 3
    PageSize = 1
    NoDir = NoDir
    NoRequest = NoRequest
    NoHandle = NoHandle

SPECIFICATION Spec
SYMMETRY WorkersAndStreams

INVARIANTS
    TypeOK
    ListsOwnVisibleEntries
    ListingIsComplete
    FailedRmdirDeletesNothing
    
