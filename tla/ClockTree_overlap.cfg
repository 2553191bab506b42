SPECIFICATION FairSpec
CONSTANTS
    Clocks <- MCClocks
    Parent <- MCParent
    BootStates <- MCBootStates
    Rates = {1, 2}
    None = None
    Client = Client
    Fails = {}
    Overlap = TRUE
    StopUnheld = FALSE
    Rounds = FALSE
    Width = 16
    Plans <- MCTwoAsks
PROPERTIES EveryoneAnswered
CHECK_DEADLOCK FALSE
