\* Two ranks, two chunks per shard: grids of several CTAs in every kernel.
\* Programs end, so a state without a step is not an error.
CONSTANTS
    N = 2
    K = 2
    Programs <- TwoRankPrograms
    Stride = 4
    IntHalf = 64
    CounterMod = 64
SPECIFICATION FairSpec
CHECK_DEADLOCK FALSE
INVARIANTS CompletionMeansReceived BufferReleased FanoutAfterRendezvous
PROPERTIES AllComplete
