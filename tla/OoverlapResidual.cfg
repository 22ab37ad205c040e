\* evalution/run_vllm_paperlike.sh on two GPUs: 32 slots, four for the
\* all-gathers, and a model of 28 layers; one forward pass.
CONSTANTS
    N = 2
    Slots = 32
    AgSlots = 4
    Layers = 28
    Forwards = 1
SPECIFICATION Spec
CHECK_DEADLOCK FALSE
INVARIANT ResidualIntact
