\* Two ranks, two CTAs: the grid barrier is needed whenever a slice has two
\* windows or more and the reduce task runs on one CTA.  Programs end, so a
\* state without a step is not an error.
CONSTANTS
    N = 2
    Programs <- TwoRankPrograms
    WindowElems = 1
    MaxCtas = 2
    MaxFanout = 4
    BatchPublish = TRUE
    MaxWindows = 3
SPECIFICATION FairSpec
CHECK_DEADLOCK FALSE
INVARIANTS CompletionMeansReceived BufferReleased
PROPERTIES AllComplete
