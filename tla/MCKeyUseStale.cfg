SPECIFICATION PathSpec
CONSTANTS
    Threads = {t1, t2}
    Ops = {"sign"}
    MaxInit = 3
    Parts = {"use"}
    Sessions = {1, 2}
    SecretOps = {"encap", "decap", "ecdh"}
    MaxKeys = 2
    Keys = {k1, k2}
    Pairs = {p1, p2}
    Callers = {t1, t2, c}
    Child = {c}
    CACHE = 3
    SMALL = 2
    MaxFills = 2
SYMMETRY Symmetry
INVARIANTS
    NoStaleHandle
