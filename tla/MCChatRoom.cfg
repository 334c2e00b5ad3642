CONSTANTS
    c1 = c1
    c2 = c2
    Clients <- MCClients
    kMaxRetryInterval = 1
    MaxLines <- MCMaxLines
    MaxStrays = 2
SPECIFICATION Spec
INVARIANTS
    SameConversation
    RosterIsRight
PROPERTIES
    EveryLineArrives
    EveryClientJoins
