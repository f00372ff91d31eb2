CONSTANTS
    NumWorkers = 2
    Main = "main"
    Others = {"admin"}
    Overlap = FALSE
    Crashes = FALSE
    MaxSignals = 0
SPECIFICATION Spec
PROPERTY StragglersKeepConsumer
CHECK_DEADLOCK FALSE
