\* Sessions that follow each other on one key, with crashes.  A constructor of a
\* later session may wait forever on a stale Vault, so a state without a step
\* is not an error.
CONSTANTS
    N = 3
    MaxSessions = 3
    MayCrash = TRUE
SPECIFICATION FairSpec
CHECK_DEADLOCK FALSE
INVARIANTS ReadyMeansMet ReadyMeansBound
PROPERTIES ConstructorsReturn
