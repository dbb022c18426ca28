SPECIFICATION Spec
CONSTANTS
    h1 = h1
    h2 = h2
    Main = Main
    Worker = Worker
    NoOne = NoOne
    Handlers <- OneHandler
    Failures <- NoFailures
    Kinds <- CtrlC
    WorkerIsPrompt = FALSE
    DebugOption = FALSE
INVARIANTS
    WorkerCanFinish
CHECK_DEADLOCK FALSE
