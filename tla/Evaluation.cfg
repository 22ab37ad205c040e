\* One shape, two configurations, two trials of which one is skipped; the
\* script is killed at most once, at any point.
CONSTANTS
    Builtin <- OneBuiltin
    TopMissing = 1
    Shapes = {1}
    Csv <- TwoRows
    Slacks = {4, 6}
    Trials = 2
    Skipped <- FirstSkipped
    Invocations <- ThreeWays
    MaxKills = 1
SPECIFICATION FairSpec
INVARIANTS TestedAsSearched
PROPERTIES OkKept Heals
