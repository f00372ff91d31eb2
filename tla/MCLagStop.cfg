CONSTANTS
    Topics <- MCTopics
    NumPartitions = 1
    Clients = {}
    Keys = {}
    KeyHash <- MCKeyHash
    Watched <- MCWatched
    MaxRecords = 0
    MaxStarts = 1
SPECIFICATION FairSpec
PROPERTY StopEndsLoop
CHECK_DEADLOCK FALSE
