CONSTANTS
    Topics <- MCTopics
    NumPartitions = 1
    Clients = {}
    Keys = {}
    KeyHash <- MCKeyHash
    Watched <- MCWatched
    MaxRecords = 0
    MaxStarts = 2
SPECIFICATION Spec
INVARIANT OneLoop
CHECK_DEADLOCK FALSE
