SPECIFICATION Spec
CONSTANTS
    p1 = p1
    p2 = p2
    p3 = p3
    c1 = c1
    c2 = c2
    Pids <- ThreePids
    Clients <- TwoClients
    NoOne = NoOne
    NoPid = NoPid
    SizeModulus <- SmallSize
    AddDuringCalls = TRUE
SYMMETRY Symmetry
INVARIANTS
    CallbackContextAlive
    FinishedOnlyIfExited
    EventSound
    CanceledIsLeaving
