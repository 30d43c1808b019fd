SPECIFICATION FairSpec
CONSTANTS
    s1 = s1
    s2 = s2
    v1 = v1
    w1 = w1
    w2 = w2
    yes1 = yes1
    no1 = no1
    None = None
    Requests = {s1, s2, v1, w1, w2, yes1, no1}
    KindOf <- KindsHere
    DecisionOf <- DecisionsHere
    MaxSuspends = 2
    MaxTroubles = 1
    Together <- TogetherHere
INVARIANTS TypeOK WrittenOnce ChargedIsDelivered
PROPERTIES OneDecision RowSettles
CHECK_DEADLOCK FALSE
