SPECIFICATION Spec
CONSTANTS
    a = a
    b = b
    c = c
    d = d
    id1 = id1
    id2 = id2
    id3 = id3
    k1 = k1
    NoProc = NoProc
    NoPid = NoPid
    Procs <- FourProcs
    Pids <- ThreePids
    Originals <- OneTarget
    OriginalPid <- OnePid
    Keys <- OneKey
    MaxPending = 3
INVARIANTS
    GroupIsCurrent
    AddIsNew
    EarlyEndIsUnseen
    StacksAreDefined
PROPERTIES
    ExitEndsProfile
