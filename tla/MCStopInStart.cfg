CONSTANTS
    NumWorkers = 2
    Main = "main"
    Others = {"admin"}
    Overlap = TRUE
    Crashes = FALSE
    MaxSignals = 0
SPECIFICATION FairSpec
PROPERTIES StopReports
CHECK_DEADLOCK FALSE
