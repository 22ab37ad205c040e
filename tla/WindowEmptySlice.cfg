\* An all-reduce of one element on two ranks: the slice of rank 1 is empty.
CONSTANTS
    N = 2
    Programs <- OneElement
    WindowElems = 1
    MaxCtas = 1
    MaxFanout = 4
    BatchPublish = TRUE
    MaxWindows = 1
SPECIFICATION FairSpec
CHECK_DEADLOCK FALSE
PROPERTIES AllComplete
