SPECIFICATION FairSpec
CONSTANTS
    k1 = k1
    k2 = k2
    a1 = a1
    a2 = a2
    b1 = b1
    None = None
    Keys = {k1, k2}
    Calls = {a1, a2, b1}
    KeyOf <- KeysHere
    MaxTries = 2
    May = {"query", "crash", "over", "revoke", "rival", "collision", "unready", "slow"}
    MaxTroubles = 2
INVARIANTS TypeOK ActiveIsWhole ClaimMatches OneTrial
CHECK_DEADLOCK FALSE
PROPERTY TrialArrives
