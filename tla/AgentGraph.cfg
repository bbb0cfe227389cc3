CONSTANTS
    a = a
    b = b
    plan = plan
    publish = publish
    check = check
    Edit = Edit
    Newest = Newest
    Callers = {a, b}
    Nodes = {plan, publish, check}
    Entry = plan
    Rank <- NameOrder
    Routes <- LoopingRoutes
    Gates = {publish}
    RecursionLimit = 3
    MaxPerThread = 2
    MaxRuns = 3
    MaxCrashes = 1
SPECIFICATION FairSpec
CHECK_DEADLOCK FALSE
INVARIANTS TypeOK GateWaitsForResume HistoryIsALine SuperstepsFollow
PROPERTIES ProgressIsKept EveryRunEnds
