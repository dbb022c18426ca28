SPECIFICATION Spec
CONSTANTS
    h1 = h1
    h2 = h2
    h3 = h3
    Main = Main
    NoOne = NoOne
    Handlers <- ThreeHandlers
    Failures <- AllFailures
    Kinds <- CtrlCOrExit
    WorkerIsPrompt = TRUE
    DebugOption = FALSE
PROPERTIES
    PollEnds
    ImplementsLifecycle
