CONSTANTS
    t1 = t1
    t2 = t2
    Timers <- MCTimers
    Repeating <- MCRepeating
    Cancellable <- MCRepeating
    Interval = 1
    MaxDelay = 0
    MaxFunctors = 1
    MaxTime = 2
SPECIFICATION Spec
INVARIANTS
    SizesAgree
CHECK_DEADLOCK FALSE
