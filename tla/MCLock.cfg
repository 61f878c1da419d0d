SPECIFICATION Spec
CONSTANTS
    k1 = k1
    k2 = k2
    c1 = c1
    c2 = c2
    w1 = w1
    w2 = w2
    Keys = {k1, k2}
    Conns = {c1, c2}
    Fds = {1, 2}
    Workers = {w1, w2}
    Commands = {"set", "delete", "lock", "unlock", "unlock_all", "quit"}
    Exptimes = {0}
    EvictAges = {0}
    MaxConnections = 0
    MaxCas = 2
    MaxAge = 0
    MaxTime = 0
    NoConn = NoConn
SYMMETRY Symmetry
INVARIANT LockOwnership
PROPERTIES LockedIsProtected ThrowIsExplained
CHECK_DEADLOCK FALSE
