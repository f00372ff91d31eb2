CONSTANTS
    w1 = w1
    w2 = w2
    Source <- MCSource
    Topics <- MCTopics
    NumPartitions = 2
    Clients = {"c1", "c2"}
    Keys = {"k"}
    KeyHash <- MCKeyHash
    MaxAttempts = 1
    Delays <- MCDelays
    Workers = {w1, w2}
    TopicOf <- MCTopicOf
    ClientOf <- MCClientOf
    BatchSize = 2
    Blocking = TRUE
    Dedupe = TRUE
    Failures = {"escape"}
    Faults = {"close", "store_error"}
    Workload <- MCWorkload
    EventNames = {"e1", "e2", "e3"}
    MaxNow = 0
    MaxFaults = 2
SPECIFICATION DSpec
INVARIANTS Inv NoEventLost
PROPERTIES SuccessIsRemembered ImplementsAtLeastOnce
CHECK_DEADLOCK FALSE
