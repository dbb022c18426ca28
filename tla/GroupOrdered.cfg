SPECIFICATION FairSpec
CONSTANTS
    p1 = p1
    p2 = p2
    p3 = p3
    c1 = c1
    c2 = c2
    Pids <- TwoPids
    Clients <- TwoClients
    NoOne = NoOne
    NoPid = NoPid
    SizeModulus <- SmallSize
    AddDuringCalls = FALSE
INVARIANTS
    WaiterWillBeWoken
    FinishedSizeInRange
PROPERTIES
    ImplementsProcessGroup
    CallsReturn
    ExitIsNoticed
