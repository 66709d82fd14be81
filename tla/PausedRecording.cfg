SPECIFICATION Spec
CONSTANTS
    Faults = {"critical"}
    MaxDepth = 2
    Frame <- MixedFrame
    Stages = {"fragment"}
    PauseAt = {"vertex"}
    UserActs = {}
INVARIANTS DrawnAsCalled TraceIsClean StoredForStep SInv DrawInv
