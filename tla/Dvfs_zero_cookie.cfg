SPECIFICATION FairSpec
CONSTANTS
    Levels <- MCLevels
    Voltage <- MCVoltage
    Frequency <- MCFrequency
    BootVoltages <- MCBootVoltages
    BootFrequencies <- MCBootFrequencies
    Sustained = 2
    MaxRetries = 4
    MayFail = TRUE
    Revert = FALSE
    MaxAsks = 2
PROPERTIES EveryReaderAnswered
CHECK_DEADLOCK FALSE
