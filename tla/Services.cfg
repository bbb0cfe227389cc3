SPECIFICATION MCSpec
CONSTANTS
  Keys = {k1, k2}
  Calls = {c1, c2}
  None = None
  MaxTexts = 2
  MaxCalls = 3
  MaxEdits = 2
  MaxDeaths = 1
  Sources = {s1}
  Slots = {c1, c2}
  ChunkHashes = {k1, k2}
  NoHash = NoHash
  Erased = Erased
  UpsertBatch = 1
  MaxChunks = 2
  MaxIngests = 3
  MaxFailures = 2
  Ids = {i1, i2, i3}
  Vectors = {v1, v2}
  Absent = Absent
  Bare = Bare
  AnnThreshold = 2
  RatioOver = 1
  RatioUnder = 2
  Cognitions = {k1, k2}
  Committers = {c1, c2}
  Readers = {r1}
  Beliefs = {b1, b2}
  NoBelief = NoBelief
  MaxCommits = 3
  MaxRecalls = 1
  Callers = {c1, c2}
  Hashes = {h1}
  Timer = timer
  Row = row
  MaxChanges = 2
  MaxFaults = 2
  Requests = {1, 2, 3, 4}
  Cap = 3
  GrowEvery = 2
SYMMETRY Alike
INVARIANTS ServicesTypeOK StubsAreBacked NewestIsRead KnownIsMirrored IngestedIsExact SearchIsCurrent CommitIsAtomic SlotsAreUsed
PROPERTIES ImplementsDurableStore
CHECK_DEADLOCK FALSE
