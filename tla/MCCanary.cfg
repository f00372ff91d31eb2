CONSTANTS
    ws = ws
    wr1 = wr1
    wr2 = wr2
    op1 = op1
    op2 = op2
    Source <- MCSource
    Topics <- MCTopics
    NumPartitions = 1
    Clients = {"c1", "c2", "c3"}
    Keys = {}
    KeyHash <- MCKeyHash
    MaxAttempts = 3
    Delays <- MCDelays
    Workers = {ws, wr1, wr2}
    TopicOf <- MCTopicOf
    ClientOf <- MCClientOf
    BatchSize = 2
    Blocking = TRUE
    Dedupe = TRUE
    Failures = {"retriable"}
    Faults = {"drain"}
    Workload <- MCWorkload
    EventNames = {"e1"}
    MaxNow = 6
    MaxFaults = 0
    Operators = {"op"}
    Filtered = FALSE
    Limits = {1, 9}
    MaxReplays = 3
SPECIFICATION QSpec
INVARIANT CanaryThenRest
CHECK_DEADLOCK FALSE
