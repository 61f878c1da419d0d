SPECIFICATION Spec
CONSTANTS
    s1 = s1
    s2 = s2
    NoSock = NoSock
    Socks = {s1, s2}
    NWorkers = 2
    MaxInput = 2
INVARIANTS OneWorkerPerSocket WakeupIsRemembered
PROPERTIES InputIsReceived StopTerminates
CHECK_DEADLOCK FALSE
