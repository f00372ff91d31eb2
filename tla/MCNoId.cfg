CONSTANTS
    w1 = w1
    Source <- MCSource
    Topics <- MCTopics
    NumPartitions = 2
    Clients = {"c1"}
    Keys = {}
    KeyHash <- MCKeyHash
    MaxAttempts = 1
    Delays <- MCDelays
    Workers = {w1}
    TopicOf <- MCTopicOf
    ClientOf <- MCClientOf
    BatchSize = 2
    Blocking = TRUE
    Dedupe = TRUE
    Failures = {}
    Faults = {}
    Workload <- MCWorkload
    EventNames = {}
    MaxNow = 0
    MaxFaults = 0
SPECIFICATION DSpec
INVARIANT NoEventLost
CHECK_DEADLOCK FALSE
