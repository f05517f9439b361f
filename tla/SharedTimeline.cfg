SPECIFICATION Spec
CONSTANTS
    Procs = {a, b}
    Signallers = {a}
    GpuWaiters = {b}
    MaxValue = 1
    MaxQueries = 1
CHECK_DEADLOCK FALSE
INVARIANTS
    SharedTruth
PROPERTIES
    FailureReaches
    
    ComesToRest
