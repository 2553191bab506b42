SPECIFICATION Spec
CONSTANTS
    Alarms = {a, b}
    NoAlarm = NoAlarm
    Delays = {1, 2}
    MaxDelay = 2
    MinDelay = 1
    MaxLate = 1
    Stoppable = {}
    SelfStop = {}
    CrossStop = TRUE
    Query = FALSE
    LateIrq = FALSE
    Careful = FALSE
INVARIANTS
    StoppedDoesNotTrigger
