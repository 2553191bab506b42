SPECIFICATION Spec
CONSTANTS
    Alarms = {a, b, c}
    NoAlarm = NoAlarm
    Delays = {0, 3}
    MaxDelay = 2
    MinDelay = 1
    MaxLate = 1
    Stoppable = {a, b, c}
    SelfStop = {a, b, c}
    CrossStop = FALSE
    Query = TRUE
    LateIrq = TRUE
    Careful = FALSE
SYMMETRY Symmetry
INVARIANTS
    ListInv
    StoppedDoesNotTrigger
