CONSTANTS
    ws = ws
    wr = wr
    Source <- MCSource
    Topics <- MCTopics
    NumPartitions = 1
    Clients = {"c1", "c2"}
    Keys = {}
    KeyHash <- MCKeyHash
    MaxAttempts = 3
    Delays <- MCDelays
    Workers = {ws, wr}
    TopicOf <- MCTopicOf
    ClientOf <- MCClientOf
    BatchSize = 2
    Blocking = TRUE
    Dedupe = TRUE
    Failures = {"retriable"}
    Faults = {}
    Workload <- MCWorkload
    EventNames = {"e1", "e2"}
    MaxNow = 5
    MaxFaults = 0
SPECIFICATION DSpec
INVARIANT RetryTopicsInDueOrder
CHECK_DEADLOCK FALSE
