SPECIFICATION FairSpec
CONSTANTS
    o1 = o1
    o2 = o2
    i1 = i1
    i2 = i2
    a1 = a1
    p1 = p1
    r1 = r1
    s1 = s1
    Jobs = {o1, o2, i1, i2, a1, p1, s1}
    KindOf <- KindsHere
    Faults = {"close", "signin", "credential"}
    None = None
INVARIANTS Accounted ClosedMeansClosed BlockedForCause
PROPERTIES NoSessionWhilePaused EveryCallEnds
CHECK_DEADLOCK FALSE
