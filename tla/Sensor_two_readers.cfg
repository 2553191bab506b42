SPECIFICATION FairSpec
CONSTANTS
    Requests = {r1, r2}
    NoRequest = NoRequest
    MaxPending = 3
    Overlap = TRUE
    QuickDriver = FALSE
PROPERTIES EventuallyAnswered
CHECK_DEADLOCK FALSE
