SPECIFICATION Spec
CONSTANTS
    Requests = {r1, r2}
    NoRequest = NoRequest
    SyncDriver = FALSE
    PoolMayBeEmpty = FALSE
PROPERTIES NoLateFill
CHECK_DEADLOCK FALSE
