\* Three processes; four requests make at most eight syncs; programs end.
CONSTANTS
    N = 3
    MaxGen = 2
    MaxSyncs = 8
    Requests = {"k1", "k2"}
    Unsupported = {"bad"}
    Programs <- RequestPrograms
    LeftBehind = FALSE
SPECIFICATION FairSpec
CHECK_DEADLOCK FALSE
INVARIANTS PlanIntact SameOutcome
PROPERTIES AllAnswered
