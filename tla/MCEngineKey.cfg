SPECIFICATION Spec
CONSTANTS
    r = r
    d = d
    e = e
    t1 = t1
    t2 = t2
    s1 = s1
    s2 = s2
    Threads = {t1, t2}
    Keys = {r, d, e}
    Sessions = {s1, s2}
    KeyType <- MCType
    Files <- MCFiles
    Stored <- MCStored
    Configs <- MCConfigs
SYMMETRY Symmetric
INVARIANTS TypeOK OwnObject PrivateInItsPlace StandardPadding
