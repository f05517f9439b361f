CONSTANTS
    RunParts = {"state", "shadow", "batch", "query", "shader"}
    Contexts = {c1, c2}
    BatchContexts = {c1}
SPECIFICATION Spec
CHECK_DEADLOCK FALSE
SYMMETRY Sym
INVARIANTS
    DrawsSeeTheirState
    UncutPassesReachLinear
    BatchIntact
    CountersExact
    
