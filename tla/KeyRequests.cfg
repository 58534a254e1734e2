CONSTANTS
    f = f
    k = k
    c1 = c1
    t1 = t1
    t2 = t2
    Files = {f, k}
    KeyFile = k
    Clients = {c1}
    Threads = {t1, t2}
    MaxFd = 1
    MaxQueue = 2
    Free = Free
    NoOne = NoOne
    NoRequest = NoRequest

SPECIFICATION Spec

INVARIANTS
    TypeOK
    
    DescriptorsStayTheirs

PROPERTY
    CallsEndOrStarve
