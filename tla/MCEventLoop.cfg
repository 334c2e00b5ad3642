CONSTANTS
    t1 = t1
    t2 = t2
    loop = loop
    sock = sock
    Threads <- MCThreads
    LoopThread = loop
    IoChannels <- MCIoChannels
    MaxPend = 5
SPECIFICATION FairSpec
INVARIANTS
    LockIsHeldOnlyInPend
    NoLostWakeup
    EventfdReadSucceeds
    ExactlyOnceInOrder
    QuitWakesPoll
PROPERTIES
    Refines
    EveryFunctorRuns
    QuitEndsLoop
CHECK_DEADLOCK FALSE
