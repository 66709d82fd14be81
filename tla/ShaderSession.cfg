SPECIFICATION Spec
CONSTANTS
    Faults = {"critical"}
    MaxDepth = 2
    Frame <- MixedFrame
    Stages = {"vertex", "fragment"}
    PauseAt = {}
    UserActs = {}
INVARIANTS TypeOK QueriesCount DebugIsReady NoStaleObjects QueryInv
