SPECIFICATION FairSpec
CONSTANTS
    k1 = k1
    k2 = k2
    c1 = c1
    c2 = c2
    w1 = w1
    w2 = w2
    Keys = {k1}
    Conns = {c1, c2}
    Fds = {1}
    Workers = {w1}
    Commands = {"get", "gat", "touch", "set", "add", "replace", "cas", "append", "incr", "delete", "lock", "lag", "unlock", "rau", "unlock_all", "quit", "flush"}
    Exptimes = {0, 1}
    EvictAges = {0, 1}
    MaxConnections = 0
    MaxCas = 2
    MaxAge = 1
    MaxTime = 1
    NoConn = NoConn
PROPERTIES LocksAreReleased LockedIsProtected ExpiredStaysExpired
CHECK_DEADLOCK FALSE
