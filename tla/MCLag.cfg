CONSTANTS
    Topics <- MCTopics
    NumPartitions = 1
    Clients = {}
    Keys = {}
    KeyHash <- MCKeyHash
    Watched <- MCWatched
    MaxRecords = 1
    MaxStarts = 1
SPECIFICATION FairSpec
INVARIANTS Inv NoCommitNoSample
PROPERTIES NeverOverstated DeadGroupReports StopInRoundIsHeard
CHECK_DEADLOCK FALSE
