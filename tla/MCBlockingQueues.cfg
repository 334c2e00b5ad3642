CONSTANTS
    Producers = {p1, p2}
    Consumers = {c1, c2}
    capacity_ = 2
    MaxPuts = 3
SPECIFICATION FairSpec
INVARIANTS
    WithinCapacity
    ItemsAreCovered
    PlacesAreCovered
    StopsSoon
PROPERTIES
    EveryItemTaken
CHECK_DEADLOCK FALSE
