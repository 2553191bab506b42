SPECIFICATION FairSpec
CONSTANTS
    Requests = {r1, r2, r3, r4}
    NoRequest = NoRequest
    MaxPending = 3
    Overlap = FALSE
    QuickDriver = FALSE
INVARIANTS Accounting FreshData
PROPERTIES EventuallyAnswered
CHECK_DEADLOCK FALSE
