SPECIFICATION Spec
CONSTANTS
    h1 = h1
    h2 = h2
    Main = Main
    Worker = Worker
    NoOne = NoOne
    Handlers <- TwoHandlers
    Failures <- MergeFails
    Kinds <- CtrlC
    WorkerIsPrompt = TRUE
    DebugOption = FALSE
INVARIANTS
    ErrorIsReported
CHECK_DEADLOCK FALSE
