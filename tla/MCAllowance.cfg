SPECIFICATION Spec
CONSTANTS
    gift = gift
    tbase = tbase
    tup = tup
    pbase = pbase
    pup1 = pup1
    k1 = k1
    k2 = k2
    r1 = r1
    c1 = c1
    c2 = c2
    c3 = c3
    c4 = c4
    c5 = c5
    c6 = c6
    c7 = c7
    c8 = c8
    s1 = s1
    s2 = s2
    s3 = s3
    Buckets = {gift, tbase, tup, pbase, pup1}
    TermsOf <- TermsHere
    Sources = {"trial", "sub"}
    Periods = {"gift", "trial1", "paid1"}
    Names = {k1, k2}
    Runs = {r1}
    Amount = 2
    Window = 1
    MaxTime = 1
    MaxHolds = 3
    None = None
    Calls = {c1, c2, c3, c4, c5, c6, c7, c8}
    CallOf <- CallsHere
    Syncs = {s1, s2, s3}
    DirOf <- DirsHere
    Moves <- MovesHere
    Together <- TogetherHere
    Sizes = {3}
    MaxTries = 2
    MaxCuts = 1
INVARIANTS TypeOK HeldIsOpen CyclesKept
PROPERTIES NoRevival KeepsPromise
CHECK_DEADLOCK FALSE
