SPECIFICATION ScmiFairSpec
CONSTANTS
    Agents = {a1, a2, a3}
    None = None
    GetMayFail = TRUE
    StartsMeanwhile = FALSE
INVARIANTS BusyWhilePending
CHECK_DEADLOCK FALSE
