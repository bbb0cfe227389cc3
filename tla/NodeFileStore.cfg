CONSTANTS
    a = a
    b = b
    d = d
    NoClient = NoClient
    NoDoc = NoDoc
    Clients = {a, b, d}
    Watchers = {}
    Bumps = {0, 1}
    MaxWrites = 3
    Failing = {"openTmp", "writeTmp", "syncTmp", "rename"}
    MaxFaults = 1
    MaxCrashes = 1
    MaxRestarts = 0
SPECIFICATION Spec
CHECK_DEADLOCK FALSE
INVARIANTS TypeOK AckedIsInFile
PROPERTIES ImplementsStore
