CONSTANTS
    Objects = {o1, o2, o3}
    MaxQueues = 2
    MaxToken = 1
    RECLAIM_BUDGET = 1
SPECIFICATION FairSpec
CHECK_DEADLOCK FALSE
INVARIANTS NoUseAfterReclaim FifoSound ReclaimSound
PROPERTIES DeferredIsReclaimed
