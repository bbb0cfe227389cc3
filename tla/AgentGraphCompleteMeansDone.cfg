CONSTANTS
    a = a
    b = b
    plan = plan
    publish = publish
    check = check
    Edit = Edit
    Newest = Newest
    Callers = {a}
    Nodes = {plan, publish, check}
    Entry = plan
    Rank <- NameOrder
    Routes <- LoopingRoutes
    Gates = {publish}
    RecursionLimit = 3
    MaxPerThread = 2
    MaxRuns = 2
    MaxCrashes = 1
SPECIFICATION Spec
CHECK_DEADLOCK FALSE
PROPERTY CompleteMeansDone
