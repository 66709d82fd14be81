SPECIFICATION Spec
CONSTANTS
    Faults = {"gl"}
    MaxDepth = 2
    Frame <- MixedFrame
    Stages = {"fragment"}
    PauseAt = {}
    UserActs = {"cancel"}
INVARIANTS NothingDrawnTwice OnceInv
