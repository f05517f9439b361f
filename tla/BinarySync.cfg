SPECIFICATION Spec
CONSTANTS
    Slots = {s1, s2, s3}
    Objects = {o1, o2}
    Queues = {qa}
    ExportQueue = qx
    Foreigns = {f}
    MaxBatch = 2
    MaxOps = 2
SYMMETRY Symmetry
CHECK_DEADLOCK FALSE
INVARIANTS
    BinaryTruth
    
