SPECIFICATION FairSpec
CONSTANTS
    Channels = {0, 1}
    NoChannel = NoChannel
    IrqAgents = {0}
    PollAgents = {1}
    BadLengths = FALSE
    Spurious = FALSE
    PoolMayBeFull = FALSE
INVARIANTS
    LockMatchesService
    NoLostDoorbell
PROPERTIES
    InterruptMeansDone
    EveryRequestAnswered
\* When the first request of every channel has been discarded, nothing is left
\* to happen: the agents wait.
CHECK_DEADLOCK FALSE
