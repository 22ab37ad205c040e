\* Three processes, more buffers than cache entries, up to three failing imports;
\* a program ends, so a state without a step is not an error.
CONSTANTS
    N = 3
    Buffers = {"a", "b", "c"}
    Slots = 2
    Programs <- AllPrograms
    MaxFailures <- SomeFailures
    Retry = FALSE
SPECIFICATION FairSpec
CHECK_DEADLOCK FALSE
INVARIANTS FastPathIsFresh BoundToPeersBuffers ExchangesAligned NoDanglingBinding
PROPERTIES AllComplete
