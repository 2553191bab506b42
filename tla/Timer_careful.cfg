SPECIFICATION FairSpec
CONSTANTS
    Alarms = {a, b}
    NoAlarm = NoAlarm
    Delays = {1, 3}
    MaxDelay = 2
    MinDelay = 1
    MaxLate = 1
    Stoppable = {a, b}
    SelfStop = {a}
    CrossStop = FALSE
    Query = TRUE
    LateIrq = FALSE
    Careful = TRUE
INVARIANTS
    InterruptsAreDue
    Armed
PROPERTIES
    AlarmRings
