SPECIFICATION FairSpec
CONSTANTS
    r1 = r1
    r2 = r2
    f1 = f1
    f2 = f2
    w1 = w1
    w2 = w2
    GC = GC
    None = None
    Res = {r1, r2}
    Fds = {f1}
    Workers = {w1}
    MaxSlaves = 2
    MaxGCs = 1
    MaxJoins = 1
PROPERTY GarbageIsDestroyed
