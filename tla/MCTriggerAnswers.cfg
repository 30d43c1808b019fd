SPECIFICATION FairSpec
CONSTANTS
    c1 = c1
    c2 = c2
    t1 = t1
    t2 = t2
    Procs = {p1}
    Triggers = {t1, t2}
    Calls = {c1, c2}
    KeysOf <- OwnKeys
    CascadesOf <- ToT2
    Requests = {}
    Troubles = {"query", "closed", "stop"}
    MaxTrouble = 1
    MaxAttempts = 2
    MaxPerWindow = 2
    MaxChainDepth = 1
    None = None
INVARIANT HousekeepingIsSafe
PROPERTY EveryCallAnswered
CHECK_DEADLOCK FALSE
