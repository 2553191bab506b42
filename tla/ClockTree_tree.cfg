SPECIFICATION FairSpec
CONSTANTS
    Clocks <- MCClocks
    Parent <- MCParent
    BootStates <- MCBootStates
    Rates = {1, 2}
    None = None
    Client = Client
    Fails = {"start", "read"}
    Overlap = FALSE
    StopUnheld = FALSE
    Rounds = FALSE
    Width = 16
    Plans <- MCPlans
INVARIANTS NeededRuns RefsAgree RatesAgree
PROPERTIES EveryoneAnswered
CHECK_DEADLOCK FALSE
