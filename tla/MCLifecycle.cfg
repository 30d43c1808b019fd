SPECIFICATION LSpec
CONSTANTS
    o1 = o1
    c1 = c1
    c2 = c2
    p1 = p1
    r1 = r1
    t1 = t1
    t2 = t2
    Jobs = {o1, c1, c2, p1, r1, t1, t2}
    KindOf <- KindsHere
    Faults = {"close", "signin"}
    None = None
    Ops = {c1, c2, p1, r1, t1, t2}
    OpKindOf <- OpKindsHere
    MaxFail = 1
INVARIANTS ActiveHasCredential
PROPERTIES TransitionsHold
CHECK_DEADLOCK FALSE
