SPECIFICATION Spec
CONSTANTS
    h1 = h1
    h2 = h2
    Main = Main
    Worker = Worker
    NoOne = NoOne
    Handlers <- TwoHandlers
    Failures <- AllButStop
    Kinds <- CtrlCOrExit
    WorkerIsPrompt = TRUE
    DebugOption = FALSE
SYMMETRY Symmetry
INVARIANTS
    WorkerEndsDecided
    SessionIsStopped
    
CHECK_DEADLOCK FALSE
