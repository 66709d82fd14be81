SPECIFICATION FairSpec
CONSTANTS
    Shaders <- Nested
    MaxIter = 1
    Leaves = {1}
    Kinds = {1}
INVARIANT DialogShowsItsLoop
