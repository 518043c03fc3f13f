SPECIFICATION FairSpec
CONSTANTS
    FirstRetries = 1
    LaterRetries = 2
    RetryModulus = 3
    StackBytes = {"breakin", "other"}
    Capacity = 2
    MaxAttempts = 2
    MaxMessages = 3
    MaxRequests = 2
    MaxTroubles = 1
    HostMayDie = TRUE
CHECK_DEADLOCK FALSE
INVARIANTS StoppedTargetWaits RequestsRunOnce
PROPERTIES LinkSpec SendsEnd
