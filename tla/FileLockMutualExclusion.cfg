CONSTANTS
    a = a
    b = b
    d = d
    p1 = p1
    p2 = p2
    p3 = p3
    NoClient = NoClient
    NoPid = NoPid
    NoLock = NoLock
    Clients = {a, b, d}
    Pids = {p1, p2, p3}
    FirstPid <- OwnPids
    MaxCrashes = 1
    MaxRestarts = 0
    MaxFaults = 0
SPECIFICATION Spec
INVARIANT MutualExclusion
