CONSTANTS
    c1 = c1
    c2 = c2
    c3 = c3
    c4 = c4
    Channels <- MCChannels
    FdOf <- MCFdOf
    FdLimit = 2
    InitListSize = 1
    Readiness <- MCReadiness
SPECIFICATION Spec
INVARIANTS
    TablesAgree
PROPERTIES
    AbortsOnlyForDisabled
    Refines
CHECK_DEADLOCK FALSE
