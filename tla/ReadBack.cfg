SPECIFICATION Spec
CONSTANTS
    Shaders <- All
    MaxIter = 1
    MaxTrue = 2
    Leaves = {1, 2, 3, 4}
    Kinds = {1, 2, 3, 4, 5, 6}
INVARIANTS CoverageIsReached ValueIsCurrent BranchIsShown NothingDisturbed
CHECK_DEADLOCK FALSE
