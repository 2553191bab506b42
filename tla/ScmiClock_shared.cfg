SPECIFICATION ScmiFairSpec
CONSTANTS
    Agents = {a1, a2, a3}
    None = None
    GetMayFail = FALSE
    StartsMeanwhile = FALSE
INVARIANTS OneUnderWay ToldRuns
PROPERTIES EveryRequestAnswered
CHECK_DEADLOCK FALSE
