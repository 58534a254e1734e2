CONSTANTS
    f1 = f1
    f2 = f2
    d1 = d1
    d2 = d2
    k1 = k1
    k2 = k2
    p1 = p1
    t1 = t1
    t2 = t2
    Files = {f1}
    Data = {d1}
    KeyFiles = {k1, k2}
    Passwords = {p1}
    MaxVersion = 1
    MaxOpens = 1
    MaxSeals = 1
    Threads = {t1}
    Nothing = Nothing
    Placeholder = Placeholder
    Garbled = Garbled
    NoDefault = NoDefault
    BadDefault = BadDefault
    NoCred = NoCred
    NoRequest = NoRequest
    Crashes = FALSE
    Disciplined = FALSE

SPECIFICATION Spec

PROPERTIES
    UnlockSparesPlainFiles
