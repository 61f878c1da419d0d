SPECIFICATION FairSpec
CONSTANTS
    w1 = w1
    w2 = w2
    Reactor = Reactor
    Workers = {w1, w2}
    SendBufSize = 2
    BufCnt = 2
    Lengths <- MCLengths
    MaxMessages = 3
    KernelRoom = 2
    Resets = TRUE
INVARIANTS BuffersAreConserved WaitersCannotSend QueueIsWatched
PROPERTIES SendsAtomically SendsComplete
CHECK_DEADLOCK FALSE
