CONSTANTS
    None = None
    Waiting = {w1, w2}
    CpuEvents = {c1}
    GpuEvents = {g1}
    Needs <- DistinctNeeds
    Timed = {}
SPECIFICATION Spec
CHECK_DEADLOCK FALSE
INVARIANTS InterruptReachesPoll
