\* Two ranks; candidates of five and four tiles; two collectives stand for
\* the hundreds of a session; searches end.
CONSTANTS
    N = 2
    Collectives = 2
    Tiles <- TwoCandidates
    Setups <- BothSearches
    Orders <- SomeOrders
    Durations = {1, 2}
    WaveTime = 3
    CommTime <- StartAndSize
SPECIFICATION SearchFairSpec
CHECK_DEADLOCK FALSE
INVARIANTS SegmentsCover PrefixIsStable PredictedIsMakespan SavedIsBest
PROPERTIES SearchEnds
