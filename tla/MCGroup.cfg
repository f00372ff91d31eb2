CONSTANTS
    Topics <- MCTopics
    NumPartitions = 3
    Clients = {"c1", "c2", "c3", "c4", "c5"}
    Keys = {}
    KeyHash <- MCKeyHash
SPECIFICATION GroupSpec
INVARIANTS OneOwnerEach Balanced
