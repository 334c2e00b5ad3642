CONSTANTS
    c1 = c1
    c2 = c2
    c3 = c3
    Channels <- MCChannels
    FdOf <- ReusedFd
    Readiness <- MCReadiness
SPECIFICATION Spec
INVARIANTS
    OnlyCaredEvents
CHECK_DEADLOCK FALSE
