CONSTANTS
    NumWorkers = 2
    Main = "main"
    Others = {}
    Overlap = FALSE
    Crashes = TRUE
    MaxSignals = 0
SPECIFICATION Spec
INVARIANT CleanMeansFinished
CHECK_DEADLOCK FALSE
