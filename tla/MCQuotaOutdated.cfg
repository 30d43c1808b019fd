SPECIFICATION FairSpec
CONSTANTS
    a = a
    b = b
    w1 = w1
    w2 = w2
    None = None
    Foreign = Foreign
    Workspaces = {w1, w2}
    Workers = {x1, x2}
    MaxRevision = 3
    Content <- ThereAndBack
    MaxAttempts = 2
    Scenes <- ScenesHere

PROPERTIES OutdatedEnds
CHECK_DEADLOCK FALSE
