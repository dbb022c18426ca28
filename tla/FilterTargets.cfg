SPECIFICATION Spec
CONSTANTS
    pa = pa
    pb = pb
    pc = pc
    ta = ta
    tb = tb
    NoPid = NoPid
    NoTick = NoTick
    Pids <- AllPids
    Tids <- AllTids
    Originals <- OneTarget
    ProfileChildren = TRUE
    Grace = 2
    MaxTime = 3
SYMMETRY Symmetry
INVARIANTS
    TargetsAreExact
    NoForeignEvent
    NoFreshSampleLost
    LateSamplesKept
CHECK_DEADLOCK FALSE
