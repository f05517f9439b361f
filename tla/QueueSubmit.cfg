CONSTANTS
    Threads = {t1}
    Queues = {qa, qb}
    HostTimelines = {h}
    GpuTimelines = {qb}
    Binaries = {s}
    RingSize = 1
    MaxSubs = 3
    MaxValue = 1
    MaxOps = 1
SPECIFICATION Spec
CHECK_DEADLOCK FALSE
PROPERTIES QueueOrder SubmitsComplete
