SPECIFICATION Spec
CONSTANTS
    a = a
    b = b
    c = c
    id1 = id1
    id2 = id2
    h1 = h1
    NoPid = NoPid
    Procs <- ThreeProcs
    Pids <- TwoPids
    Named <- TwoNamed
    TargetPid = id1
    Handlers <- OneHandler
    Modes <- AllModes
INVARIANTS
    NoSuspendedLeft
    ProfilesTheChosen
    NothingLeftRunning
    TraceSurvives
    SuccessIsReal
    OutcomeIsShown
PROPERTIES
    ProfileEnds
