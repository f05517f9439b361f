CONSTANTS
    RunParts = {"cmdstate", "images", "hash", "cmds", "registry", "xlate",
               "gputime", "gtnames", "anb", "astc", "device",
               "window", "window3", "front"}
    Contexts = {c1, c2}
    BatchContexts = {c1}
SPECIFICATION Spec
CHECK_DEADLOCK FALSE
INVARIANTS
    
    
    CallsExact
    
    TexelsAreDecoded
    DeviceHoldsOffers
    GpuTimeExact
    
