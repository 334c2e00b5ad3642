CONSTANTS
    t1 = t1
    t2 = t2
    Timers <- MCTimers
    Repeating <- MCRepeating
    Cancellable <- MCRepeating
    Interval = 1
    MaxDelay = 1
    MaxFunctors = 2
    MaxTime = 3
SPECIFICATION FairSpec
INVARIANTS
    ArmedForEarliest
PROPERTIES
    EveryTimerExpires
CHECK_DEADLOCK FALSE
