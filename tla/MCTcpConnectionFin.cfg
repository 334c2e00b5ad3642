CONSTANTS
    t1 = t1
    t2 = t2
    Threads <- OneThread
    MaxSends = 1
SPECIFICATION Spec
INVARIANTS
    FinWhenDrained
CHECK_DEADLOCK FALSE
