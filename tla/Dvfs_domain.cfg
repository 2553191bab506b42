SPECIFICATION FairSpec
CONSTANTS
    Levels <- MCLevels
    Voltage <- MCVoltage
    Frequency <- MCFrequency
    BootVoltages <- MCBootVoltages
    BootFrequencies <- MCBootFrequencies
    Sustained = 2
    MaxRetries = 4
    MayFail = TRUE
    Revert = FALSE
    MaxAsks = 5
INVARIANTS FrequencySupported HardwareMatches
PROPERTIES LastRequestWins ReaderAnswered
CHECK_DEADLOCK FALSE
