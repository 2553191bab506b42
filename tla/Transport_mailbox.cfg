SPECIFICATION Spec
CONSTANTS
    Channels = {0, 1}
    NoChannel = NoChannel
    IrqAgents = {0, 1}
    PollAgents = {1}
    BadLengths = TRUE
    Spurious = TRUE
    PoolMayBeFull = TRUE
INVARIANTS
    LockHeld
PROPERTY
    ImplementsMailbox
