CONSTANTS
    ThreadNums <- MCThreadNums
    Fds = {fd1, fd2}
    MaxConns = 4
SPECIFICATION Spec
INVARIANTS
    LoopsReady
    ChannelsOwnFds
    KeptAlive
PROPERTIES
    StartReturns
    EveryCloseFrees
    DestructorReturns
CHECK_DEADLOCK FALSE
