SPECIFICATION FairSpec
CONSTANTS
    h1 = h1
    h2 = h2
    Main = Main
    Worker = Worker
    NoOne = NoOne
    Handlers <- OneHandler
    Failures <- MergeFails
    Kinds <- CtrlCOrExit
    WorkerIsPrompt = TRUE
    DebugOption = FALSE
INVARIANTS
    WorkerCanFinish
    StopKeepsTrace
PROPERTIES
    StopReturns
    ExitEndsProfile
    ImplementsLifecycle
