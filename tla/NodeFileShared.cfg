CONSTANTS
    a = a
    b = b
    d = d
    NoClient = NoClient
    NoDoc = NoDoc
    Clients = {a, b}
    Watchers = {b}
    Bumps = {1}
    MaxWrites = 3
    Failing = {"stat", "read", "restat", "openTmp", "writeTmp", "syncTmp", "rename", "stampOwn"}
    MaxFaults = 3
    MaxCrashes = 1
    MaxRestarts = 1
SPECIFICATION Spec
CHECK_DEADLOCK FALSE
 
PROPERTY AnnouncedIsForeign
