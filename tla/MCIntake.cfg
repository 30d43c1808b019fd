SPECIFICATION FairSpec
CONSTANTS
    w1 = w1
    w2 = w2
    e1 = e1
    e2 = e2
    e3 = e3
    e4 = e4
    roll = roll
    take = take
    stop = stop
    halt = halt
    over = over
    back = back
    basic = basic
    plus = plus
    own = own
    None = None
    Provided = provided
    Workspaces = {w1, w2}
    Events = {e1, e2, e3, e4}
    Intents = {roll, take, halt, stop, over, back}
    Plans = {basic, plus}
    Subscriptions = {provided, own}
    Runs = {x1, x2}
    Snapshot <- SnapshotHere
    Order <- OrderHere
    FirstPlan <- BasicForAll
    MaxAttempts = 2
    MaxTime = 2
    Scenes <- ScenesHere
INVARIANTS TypeOK LatestSnapshot WantedIsEntitled
PROPERTIES ClosedActsNoMore JobsEnd DueIsSwept
CHECK_DEADLOCK FALSE
