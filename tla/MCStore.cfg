CONSTANTS
    Ids = {"a", "b", "c"}
    MaxSize = 2
    TTL = 3
    MaxNow = 8
SPECIFICATION Spec
INVARIANTS Inv DuplicatesAreFresh RecentIdsSurvive
CHECK_DEADLOCK FALSE
