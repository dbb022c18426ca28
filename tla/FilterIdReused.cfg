SPECIFICATION Spec
CONSTANTS
    pa = pa
    pb = pb
    pc = pc
    ta = ta
    tb = tb
    NoPid = NoPid
    NoTick = NoTick
    Pids <- AllPids
    Tids <- AllTids
    Originals <- OneTarget
    ProfileChildren = TRUE
    Grace = 1
    MaxTime = 2
SYMMETRY Symmetry
INVARIANTS
    NoSampleLost
CHECK_DEADLOCK FALSE
