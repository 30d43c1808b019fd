SPECIFICATION Spec
CONSTANTS
    c1 = c1
    c2 = c2
    t1 = t1
    t2 = t2
    Procs = {p1, p2}
    Triggers = {t1}
    Calls = {c1}
    KeysOf <- SameKey
    CascadesOf <- NoCascade
    Requests = {}
    Troubles = {"crash", "query", "closed", "lease", "watchdog"}
    MaxTrouble = 2
    MaxAttempts = 2
    MaxPerWindow = 1
    MaxChainDepth = 1
    None = None
SYMMETRY Symmetry
INVARIANTS OneAtATime
PROPERTIES RowsAreTrue
CHECK_DEADLOCK FALSE
