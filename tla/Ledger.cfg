CONSTANTS
    Epoch = 6
    QUEUE_ENTRIES = 4
    Shapes <- SmallShapes
    Native64 = FALSE
    MaxToken = 8
SPECIFICATION FairSpec
CHECK_DEADLOCK FALSE
INVARIANTS RingIntact CommandsIntact RetirementExact NoSpuriousFailure
PROPERTIES ExecutesInOrder SubmissionResolves
