\* One import fails and the caller repeats the call.
CONSTANTS
    N = 2
    Buffers = {"a", "b"}
    Slots = 2
    Programs <- TwoBuffers
    MaxFailures <- OneFailure
    Retry = TRUE
SPECIFICATION Spec
CHECK_DEADLOCK FALSE
INVARIANTS FastPathIsFresh
