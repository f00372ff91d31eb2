CONSTANTS
    NumWorkers = 2
    Main = "main"
    Others = {}
    Overlap = FALSE
    Crashes = FALSE
    MaxSignals = 2
SPECIFICATION Spec
INVARIANT SecondSignalIsHandled
CHECK_DEADLOCK FALSE
