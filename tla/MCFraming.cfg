SPECIFICATION Spec
CONSTANTS
    m = m
    c = c
    None = None
    Conns <- MCConns
    Proto <- MCProto
    Scripts <- MCScripts
    BINARY_HEADER_SIZE = 2
    HEADER_SIZE = 2
    MAX_KEY_LENGTH = 2
    MAX_REQUEST_LENGTH = 10
    EXPTIME_THRESHOLD = 2
    Max32 = 6
    MaxTime = 7
    Max64 = 8
    MAX_RECVSIZE = 3
    WORKER_BUFSIZE = 6
    MAX_ITER = 2
    Now = 3
INVARIANT CommandsAsSent
INVARIANT NothingHeldBack
INVARIANT OnlyTooLargeIsDenied
INVARIANT BuffersAreBounded
INVARIANT ReplicaDecodes
CHECK_DEADLOCK FALSE
