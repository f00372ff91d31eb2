CONSTANTS
    ws = ws
    wr = wr
    Source <- MCSource
    Topics <- MCTopics
    NumPartitions = 2
    Clients = {"c1", "c2"}
    Keys = {"k"}
    KeyHash <- MCKeyHash
    MaxAttempts = 2
    Delays <- MCDelays
    Workers = {ws, wr}
    TopicOf <- MCTopicOf
    ClientOf <- MCClientOf
    BatchSize = 2
    Blocking = FALSE
    Dedupe = TRUE
    Failures = {"retriable", "permanent"}
    Faults = {"send_error"}
    Workload <- MCWorkload
    EventNames = {"e1", "e2", "e3"}
    MaxNow = 7
    MaxFaults = 1
    Fleet <- MCFleet
    IdleRounds <- MCIdleRounds
SPECIFICATION ResumeSpec
INVARIANT NothingCommittedUnsettled
CHECK_DEADLOCK FALSE
