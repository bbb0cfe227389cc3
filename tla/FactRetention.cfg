CONSTANTS
    a = a
    b = b
    d = d
    p = p
    q = q
    k1 = k1
    k2 = k2
    NoTtl = NoTtl
    NoFact = NoFact
    NoTombstone = NoTombstone
    NoBase = NoBase
    NoOp = NoOp
    Callers = {a, b}
    SyncCallers = {a, b}
    Scopes = {p}
    ScopeOf <- OneScope
    Keys = {k1, k2}
    Ttls <- Forever
    Incoming <- OldLeading
    LegacyJournal <- NoLegacyRow
    MaxEntries = 1
    MaxOps = 3
    MaxTime = 0
SPECIFICATION Spec
CHECK_DEADLOCK FALSE
SYMMETRY CallersAndKeys
INVARIANTS SettledIsAcked VersionsAreUnique
PROPERTIES LaterWriteSortsFirst DisappearanceIsAccounted
