SPECIFICATION Spec
CONSTANTS
    c1 = c1
    c2 = c2
    t1 = t1
    t2 = t2
    Procs = {p1}
    Triggers = {t1, t2}
    Calls = {c1, c2}
    KeysOf <- OwnOrSame
    CascadesOf <- NoCascade
    Requests = {"reconcile", "resume"}
    Troubles = {"query", "crash", "watchdog", "lease"}
    MaxTrouble = 1
    MaxAttempts = 2
    MaxPerWindow = 2
    MaxChainDepth = 1
    None = None
INVARIANTS WaiterKept
PROPERTIES AnswersAreTrue
CHECK_DEADLOCK FALSE
