SPECIFICATION PldmFairSpec
CONSTANTS
    QueueSize = 2
    ReservedId = 5
    ChecksumSize = 2
    TerminusMax = 3
    Sizes = {2, 4}
    Buffers = {2}
    Preset = 1
    MaxEvents = 5
    MaxResizes = 1
    MaxLosses = 1
PROPERTIES EventuallyDelivered
CHECK_DEADLOCK FALSE
