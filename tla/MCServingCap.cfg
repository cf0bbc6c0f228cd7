CONSTANTS
    Requests <- AllRequests
    KeyOf <- Caller
    Streams <- Streaming
    RateLimit = 1
    Window = 1
    MaxGenerations = 1
    MaxAttempts = 2
    HasDeadline = TRUE
    MaxClock = 2
SPECIFICATION ServingSpec
CHECK_DEADLOCK FALSE
INVARIANT GenerationsCapped
