SPECIFICATION ScmiFairSpec
CONSTANTS
    Agents = {a1, a2, a3}
    None = None
    GetMayFail = FALSE
    StartsMeanwhile = TRUE
INVARIANTS ToldRuns
CHECK_DEADLOCK FALSE
