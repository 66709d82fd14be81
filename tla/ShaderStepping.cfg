SPECIFICATION FairSpec
CONSTANTS
    Shaders <- All
    MaxIter = 1
    Leaves = {1, 2, 3, 4}
    Kinds = {1, 2, 3, 4, 5, 6}
INVARIANTS JumpInv AlwaysStops OneTargetPerFrame MarksLeadToTargets StopIsShown WatchIsCurrent
PROPERTIES JumpSpec WatchSpec WalkSpec EndReached
