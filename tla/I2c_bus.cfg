SPECIFICATION FairSpec
CONSTANTS
    Requests = {r1, r2, r3}
    NoRequest = NoRequest
    SyncDriver = TRUE
    PoolMayBeEmpty = FALSE
INVARIANTS OneInFlight DataBeforeSuccess
PROPERTIES ImplementsService EventuallyAnswered
CHECK_DEADLOCK FALSE
