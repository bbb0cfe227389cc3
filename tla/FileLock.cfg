CONSTANTS
    a = a
    b = b
    d = d
    p1 = p1
    p2 = p2
    p3 = p3
    NoClient = NoClient
    NoPid = NoPid
    NoLock = NoLock
    Clients = {a, b}
    Pids = {p1, p2, p3}
    FirstPid <- OwnPids
    MaxCrashes = 2
    MaxRestarts = 2
    MaxFaults = 1
SPECIFICATION FairSpec
INVARIANTS TypeOK HolderKeepsItsFile
PROPERTIES ImplementsLock WaitIsBounded StaleLockIsReclaimed
