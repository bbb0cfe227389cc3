CONSTANTS
    a = a
    b = b
    d = d
    NoClient = NoClient
    NoDoc = NoDoc
    Clients = {a, b}
    Watchers = {b}
    Bumps = {1}
    MaxWrites = 3
    Failing = {}
    MaxFaults = 0
    MaxCrashes = 0
    MaxRestarts = 0
SPECIFICATION Spec
CHECK_DEADLOCK FALSE
PROPERTY NoLostCommit
