CONSTANTS
    ws = ws
    wr = wr
    Source <- MCSource
    Topics <- MCTopics
    NumPartitions = 1
    Clients = {"c1", "c2"}
    Keys = {}
    KeyHash <- MCKeyHash
    MaxAttempts = 2
    Delays <- MCDelays
    Workers = {ws, wr}
    TopicOf <- MCTopicOf
    ClientOf <- MCClientOf
    BatchSize = 2
    Blocking = TRUE
    Dedupe = TRUE
    Failures = {"retriable", "escape"}
    Faults = {"poll_error", "send_error", "commit_error", "store_error", "forget", "drain", "abandon", "close"}
    Workload <- MCWorkload
    EventNames = {"e1"}
    MaxNow = 4
    MaxFaults = 1
SPECIFICATION FairSpec
INVARIANTS DInv TypeOK NothingCommittedUnsettled NoEventLost ConcludedOnce AttemptHeaderCountsTries BackoffRespected
PROPERTIES SuccessIsRemembered EveryEventConcludes BacklogDrains
CHECK_DEADLOCK FALSE
