SPECIFICATION FairSpec
CONSTANTS
    s1 = s1
    s2 = s2
    o1 = o1
    None = None
    Servers = {s1, s2}
    Objects = {o1}
    MASTER_CHECKS = 2
    MAX_SLAVES = 1
    MaxFaults = 3
INVARIANT ForgetsOldMaster
PROPERTY ClusterConverges
