CONSTANTS
    t1 = t1
    t2 = t2
    Threads <- MCThreads
    MaxSends = 2
SPECIFICATION FairSpec
INVARIANTS
    WritingIffOutput
    InOrder
    LifecycleAsserts
PROPERTIES
    FinAfterOutput
    CloseCompletes
CHECK_DEADLOCK FALSE
