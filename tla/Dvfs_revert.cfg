SPECIFICATION FairSpec
CONSTANTS
    Levels <- MCLevels
    Voltage <- MCVoltage
    Frequency <- MCFrequency
    BootVoltages <- MCBootVoltages
    BootFrequencies <- MCBootFrequencies
    Sustained = 2
    MaxRetries = 4
    MayFail = FALSE
    Revert = TRUE
    MaxAsks = 2
PROPERTIES LastRequestWins
CHECK_DEADLOCK FALSE
