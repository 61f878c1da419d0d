SPECIFICATION FairSpec
CONSTANTS
    Keys = {k1}
    Slaves = {s1}
    Workers = {w1, w2}
    GC = GC
    None = None
    MaxSlaves = 1
    BufCnt = 2
    MaxUpdates = 2
INVARIANTS ReplicaIsComplete RemovedIsForgotten
PROPERTIES NeverBackwards GCTerminates
CHECK_DEADLOCK FALSE
