CONSTANTS
    None = None
    Waiting = {w1, w2}
    CpuEvents = {c1}
    GpuEvents = {g1}
    Needs <- DistinctNeeds
    Timed = {w1}
SPECIFICATION FairSpec
CHECK_DEADLOCK FALSE
INVARIANTS EveryWaitIsWatched
PROPERTIES NotifiedWaitReturns
