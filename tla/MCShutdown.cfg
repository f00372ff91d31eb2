CONSTANTS
    NumWorkers = 2
    Main = "main"
    Others = {"admin"}
    Overlap = TRUE
    Crashes = TRUE
    MaxSignals = 1
SPECIFICATION FairSpec
INVARIANTS Inv ReportedDrainedIsOver
PROPERTIES OneStopKeepsConsumer StopReturns StopIsHeard
CHECK_DEADLOCK FALSE
