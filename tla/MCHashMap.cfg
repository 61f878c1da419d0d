SPECIFICATION Spec
CONSTANTS
    k1 = k1
    k2 = k2
    k3 = k3
    Keys = {k1, k2, k3}
    Hash <- MCHash
    buckets = 2
    Threads = {w1, w2}
    gc = gc
    Addresses = {a1, a2, a3}
    null = null
    Payloads <- MCPayloads
    Deltas <- MCDeltas
    Calls <- MCCalls
    MaxOps = 4
    Base = 2
    Width = 2
    heap_data_limit = 2
INVARIANTS
    ChainsAreSound
    ScanIsComplete
    StoredBySize
PROPERTY
    BehavesAsMap
SYMMETRY Symmetry
CHECK_DEADLOCK FALSE
