CONSTANTS
    Epoch = 8
    Readers = {r1}
    Maximum1st = {r1}
    MaxValue = 9
    MaxPending = 2
SPECIFICATION Spec
CHECK_DEADLOCK FALSE
INVARIANTS ReadExact
