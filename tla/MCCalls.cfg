CONSTANTS
    Kids = {k1, k2}
    Leeway = 1
    MaxTime = 3
    Life = 2
    MaxLogins = 2
    MaxPieces = 2
    Requests <- AllRequests
    KeyOf <- Caller
    Streams <- Streaming
    RateLimit = 1
    Window = 1
    MaxGenerations = 1
    MaxAttempts = 2
    HasDeadline = TRUE
    MaxClock = 2
    Limit = 3
    Polls = 2
    Budgets = {1, 3, 4, 6, 8}
    Costs = {1, 3}
    MaxResult = 1
    MaxLength = 3
SPECIFICATION CallsSpec
CHECK_DEADLOCK FALSE
INVARIANT CallsTypeOK
INVARIANT PageIsHonest
INVARIANT SlotsBalanced
INVARIANT RateBounded
INVARIANT CommandsAreStopped
INVARIANT PacksTheMost
PROPERTY RefusalsJustified
PROPERTY EverythingEnds
