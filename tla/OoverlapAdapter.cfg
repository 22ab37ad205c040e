\* Three ranks; two layers, five all-reduces, in a pool of four slots, so that
\* it wraps at another place in each pass and once within each; a failing
\* constructor leaves its peers blocked, so the system may stop.
CONSTANTS
    N = 3
    Slots = 4
    AgSlots = 2
    Layers = 2
    Forwards = 3
SPECIFICATION FairSpec
CHECK_DEADLOCK FALSE
INVARIANTS ResultIsSum ResidualUntilWrap SlotsImported
PROPERTIES AllServed
