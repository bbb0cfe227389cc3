CONSTANTS
    a = a
    b = b
    d = d
    p = p
    q = q
    k1 = k1
    k2 = k2
    NoTtl = NoTtl
    NoFact = NoFact
    NoTombstone = NoTombstone
    NoBase = NoBase
    NoOp = NoOp
    Callers = {a, b, d}
    SyncCallers = {a, b}
    Scopes = {p, q}
    ScopeOf <- OwnScope
    Keys = {k1}
    Ttls <- Short
    Incoming <- OldShort
    LegacyJournal <- LegacyRows
    MaxEntries = 0
    MaxOps = 3
    MaxTime = 1
SPECIFICATION Spec
CHECK_DEADLOCK FALSE
SYMMETRY CallersAndKeys
INVARIANTS TypeOK PendingIsOwed JournalIsOwed TombstoneMeansAbsent RevisionNamesAWrite
PROPERTY ScopesAreIsolated
