CONSTANTS
    top = top
    sub = sub
    a = a
    s = s
    l = l
    t1 = t1
    k1 = k1
    p1 = p1
    Top = top
    SubDirs <- TheSubDirs
    Bases <- TheBases
    FileNames <- TheFiles
    LinkNames <- TheLinks
    Roots <- TheRoots
    Creds <- TheCreds
    WalkCreds <- TheWalkCreds
    Threads = {t1}
    MaxHops = 1
    MaxChanges = 2
    Nothing = Nothing
    Placeholder = Placeholder
    NoDir = NoDir
    NoRequest = NoRequest
    NoRecord = NoRecord

SPECIFICATION Spec

INVARIANTS
    TypeOK
    
    UnlockUndoesLock


    
