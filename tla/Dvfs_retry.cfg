SPECIFICATION Spec
CONSTANTS
    Levels <- MCLevels
    Voltage <- MCVoltage
    Frequency <- MCFrequency
    BootVoltages <- MCBootVoltages
    BootFrequencies <- MCBootFrequencies
    Sustained = 2
    MaxRetries = 4
    MayFail = TRUE
    Revert = FALSE
    MaxAsks = 2
PROPERTIES FailedIsRetried
CHECK_DEADLOCK FALSE
