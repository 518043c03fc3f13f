SPECIFICATION FairSpec
CONSTANTS
    FirstRetries = 1
    LaterRetries = 2
    RetryModulus = 4
    StackBytes = {"breakin", "other"}
    HostMayDie = TRUE
    MaxMessages = 5
    MaxRequests = 2
    MaxStrays = 1
CHECK_DEADLOCK FALSE
INVARIANTS NoTornMessage
PROPERTIES LinkSpec SendsEnd
