# Verification of builderforce-memory

TLA+ models of the parts of this repository that keep facts safe across
callers, processes, failures and restarts, with TLC configurations that check
them on small instances and TLAPS proofs of the properties that matter most.
Paths below are relative to `packages/memory/src/` unless they start with
`packages/`.

    tlc -config FactRepository.cfg MCFactRepository      # one run
    tlapm FactRepositoryProofs.tla                       # one proof module

## 1. The system

`packages/memory` is a memory for agents: facts under keys, recalled by key,
tag or similarity, kept in IndexedDB, in memory, or in one JSON file that
several processes share. `packages/memory-mcp` serves a memory over MCP, from a
second kind of shared JSON file. `packages/memory-engine` is the numeric engine
(kernels, training, codecs) underneath. Around the store the memory package has
an agent-graph runner, an ingestion pipeline, a code-review and knowledge
subsystem, caches, sessions and telemetry.

### Inventory

| component | state | operations | talks to | hard behaviour |
|---|---|---|---|---|
| fact repository (`storage/ScopedFactRepository.ts`, `factMutations`, `factRetention`, `factImport`, `syncJournal`) | facts, tombstones, journal, counters (seq, revision, opSeq) | remember, compare-and-set, forget, clear, import, evictForCap, purgeExpired, pendingOps, markSynced | a storage port: one transaction per call; change notes | calls of several callers and processes between the transactions of one; acknowledgements of overtaken writes; imports with foreign clocks |
| MemoryStore (`memory/`) | TTL and cap policy, a sweeper timer | remember then cap eviction, rememberCas, recall, importAll | the repository, a sync target | remember is several transactions; expired records still have revisions |
| lock file (`storage/fileLock.ts`) | `<file>.lock` with a pid, a deadline per waiter | run: create, probe, reclaim, wait, release | the file system, pids | deaths between any two calls, reused pids, two reclaims at once |
| node file adapter (`storage/nodeFileAdapter.ts`, `fileTransaction.ts`) | the file, its tmp file, one document and one stamp per process, a watcher | open, transact, poll | the lock, the file system, subscribers | unlocked reads, stat and read in two calls, failed writes, recovery |
| IndexedDB adapter (`storage/idbAdapter.ts`) | a connection, a broadcast channel | open with upgrade, transact, publish | the browser | blocked upgrade, unavailable database |
| agent graph (`orchestration/`) | thread state, frontier, checkpoints | stream, invoke, resume, save, load | a checkpointer, node functions | death between supersteps, interrupts, concurrent runs of a thread |
| MCP backend (`packages/memory-mcp/src/backends`, `persistence`) | a snapshot file, a fact archive, an in-memory copy | remember, forget, recall, archive, refresh | files shared without a lock | lost updates between processes, reload racing a write |
| MCP compaction (`packages/memory-mcp/src/compaction*.ts`, `restore.ts`) | stubs in the store, originals in the archive | compact, restore | the backend, a model probe | a write between reading a body and replacing it |
| MCP experience (`packages/memory-mcp/src/experience`, engine `experience`) | a corpus file, a training schedule | record, approve, train | files, the engine | two trainings, a crash while training |
| ingestion (`ingest/IngestionPipeline.ts`) | a manifest, a vector store | ingest, forget | parsers, an embedder, a vector store | failures between steps, concurrent ingests of one source |
| knowledge snapshot (`knowledge/stores/localSnapshotStore.ts`) | maps, a pending log, a dirty flag, a queue | mutate, batch, persist, load | a file port | log and snapshot failing separately |
| code review (`knowledge/review*.ts`, `judge*.ts`, `orderedPool`, `modelLimiter`, `jobDeadline`) | call budget, breaker, limiter width, run record | plan, judge, store | a model, a store | bounded pools in order, aborts, budgets, durable order |
| cognition (`cognition/EvermindCognition.ts`) | a mutex and a versioned recall cache per instance | commit, recall | a MemoryStore, an evidence gatherer | two instances over one store; failing writes |
| working memory, handoff (`working/`, `handoff/`) | items with budgets, a consolidation marker | add, summarise, consolidate, pack | a session | a marker that outlives its work |
| bridges, caches, router (`bridges/`, `cache/`, `router/`) | response and semantic caches | complete, stream | model services | stale and shared entries |
| in-memory vector store (`vectorstore/MemoryVectorStore.ts`) | records, a graph over their vectors, tombstones | upsert, delete, query | retrievers, ingestion | a graph that cannot be changed follows records that are |
| retrieval, remote vector stores, rag | indexes | search | embeddings, services | numeric |
| sessions, agent, runtime, distillation, limbic | one model object | generate, adapt, save | the engine | numeric |
| workflow, telemetry, eval, publish, wire, diagnostics | — | — | — | input and output |
| engine | tensors | — | GPU | numeric |
| plugin hooks, scripts, publication, docs | — | — | — | scripts and text |

What makes the modelled components correct: nothing acknowledged is lost;
nothing rejected stays; what is owed to the sync target stays owed until it is
acknowledged; versions are unique, so that compare-and-set means what it says;
one partition never touches another; one writer at a time, with a lock that
survives its holders; waits end; a note of work done (a manifest, a stub, a
cache entry) never says more than what it is a note of.

## 2. The modules

| module | models | proofs |
|---|---|---|
| `FactRepository` | the fact repository and the MemoryStore calls that drive it; one action per committed transaction | `FactRepositoryProofs` |
| `ExclusiveLock` | abstract: what a lock promises | |
| `FileLock` | the lock file, one action per file-system call; implements `ExclusiveLock` | `FileLockProofs` |
| `AtomicStore` | abstract: a store of atomic, cumulative transactions | |
| `NodeFileStore` | the node file adapter, one action per file-system call, over `ExclusiveLock`; implements `AtomicStore` | `NodeFileStoreProofs` |
| `AgentGraph` | a graph on one thread with its key-value checkpointer, one action per await on it and per superstep | `AgentGraphProofs` |
| `DurableStore` | abstract: what a knowledge store promises | |
| `SnapshotStore` | the knowledge snapshot store, one action per await on its queue and ports; implements `DurableStore` | `SnapshotStoreProofs` |
| `Review` | reviews of a directory, one action per await of the reader, the judges and the writer; its store is `DurableStore` | `ReviewProofs`, which also proves what every `DurableStore` keeps |
| `ModelLimiter` | the limiter of the model calls of a review | `ServicesProofs` |
| `MemoryServer` | an MCP memory server over its shared snapshot and archive, with compaction and restore | `MemoryServerProofs` |
| `Ingestion` | the ingestion pipeline over a vector store and a manifest | `ServicesProofs` |
| `MemoryVectorStore` | the in-memory vector store, one action per record or call | `ServicesProofs` |
| `Cognition` | instances of cognition over one fact store | `ServicesProofs` |
| `MCFactRepository`, `MCFileLock`, `MCNodeFileStore`, `MCAgentGraph`, `MCReview`, `MCServices` | values for the constants; the last lets one of several components move in a behaviour | `ServicesProofs` for the last |

Three layers of the fact store fit: `FileLock` implements the `ExclusiveLock` that
`NodeFileStore` takes its `Acquire` and `Release` from, and `NodeFileStore`
implements the atomic transactions that each action of `FactRepository` is.
That the adapter uses its lock in no other way is a theorem
(`LockIsUsedAsPromised`). Where an implementation holds only under a hypothesis
(section 5), so does the layer above it. In the same way `SnapshotStore`
implements the `DurableStore` whose steps `Review` takes for its calls on the
store, and no others (`StoreIsUsedAsPromised`).

### FactRepository

`facts`, `tombstones`, `journal` and `counters` are the four object stores. A
record's content is the identity of the write that stored it, its `opId`:
which write a record came from is all the properties ask about. An operation id
is the pair of the caller and its number (`contextId:opSeq` in
`factMutations.ts`).

| action | code |
|---|---|
| `Remember`, `CountForCap`, `EvictForCap` | `MemoryStore.remember`, which is a write and then, in transactions of their own, a count and an eviction; the caller's `capPass` says where it is, and other callers run in between |
| `RecallVersioned`, `RememberCas`, `CasConflict`, `ForgetCas` | the versioned read (an expired record reads as absent), and the compare-and-set calls based on it |
| `Forget`, `Clear`, `PurgeExpired` | deletions; `deleteWithTombstone` writes a marker and a journal row when the caller syncs, and just deletes when it does not |
| `Import` | `importInto`, merge and overwrite, several records in one transaction |
| `PendingOps`, `MarkSynced` | a sync client reads the unsynced rows, and later acknowledges any part of what it read; anything may happen in between |
| `Crash`, `Tick` | a caller that dies between two transactions; the clock |

`Numberings(ids)` stands for the order in which a loop over several records
threads the counters: any order, one number each. `sending` and `acked` are the
sync client and a history of what it acknowledged.

### FileLock

A client's `pc` is the system call it makes next. `Create` is `openSync(wx)`,
`WritePid` the write after it, `ReadHolder` and `Probe` the look at an existing
file, `Confirm` and `Unlink` the two halves of `_reclaim`, `Check` the deadline
and `Release` the final unlink. The sleep before a retry is no step: any delay
is possible before every step. `Fault` is a call that throws: the attempt fails,
and what it had created stays, as in the code. A restarted client takes any pid
no live client has, dead ones included.

`Inside` begins with the successful create: from there on the code believes it
has the lock. `overlapped` is a history variable: it becomes true when two
processes stand between the second read of a reclaim and its unlink, or a new
process gets the pid whose lock is being reclaimed. Both are races of the code
(the first is refuted exclusion, section 3), and no state of the program tells
afterwards that one happened. What the lock does promise is said until then.
`Owner` is the refinement mapping to `ExclusiveLock`; it names nobody once
`overlapped` holds.

### NodeFileStore

`disk` and `tmp` are the two files; `mem` and `stamp` are `_doc` and `_stamp`. A
document is the set of transactions whose effect it holds and its revision. A
transaction is `Begin` (the lock), `Stat`, `ReadDocument`, `Restat` (the
refresh, when the stamp differs), `Mutate`, `OpenTmp`, `WriteTmp`, `SyncTmp` (fsync
and close), `Rename`, `StampOwn` and `Finish` (the lock goes and the promise
settles); `MutateThrows` and `PersistFails` are the ways it rejects. A failing
call of `_persist` leaves the tmp file as it is by then: that of an earlier
transaction when it cannot be opened, torn when it cannot be written, complete
after that. The watcher is `Poll`, the same refresh without the lock, and `Note`.
`Open` is a process that starts again, with `Recover` when the file cannot be
read; `salvaged` is a history variable, the transactions that such an open took
out of a tmp file. `Failing` names the calls that may throw.

The poll timer cannot fire inside a transaction: between the refresh and the
rename the code runs synchronous calls and awaits promises that are already
resolved, which leaves no turn to a timer. It can fire between transactions and
while one waits for the lock, which the model's `idle` covers.

### AgentGraph

`run[c]` is the loop's `state`, `frontier`, `path` and `step`; `history` the
list under the thread's key. An update is the name of its node, so `state` tells
what was merged and in which order, a human's `Edit` included.

| action | code |
|---|---|
| `Invoke`, `Resume` | the calls; `Resume` takes an edit, saves it under the checkpoint's id and goes on with a graph without gates (`open`) |
| `Load` | `stream` takes up the named or the newest checkpoint, or starts afresh |
| `Complete`, `Limited`, `Pause` | the ways out of the loop before a superstep |
| `Superstep` | the frontier runs, in any order and with any failures; updates merge in name order; a failure ends a `failFast` run before its checkpoint |
| `Get`, `Put` | the two halves of `save`, with other callers in between |
| `Route` | the edges choose the next frontier; an abort ends the run |
| `Crash` | a process that dies |

A conditional edge may choose anything in `Routes`, since what it reads of the
state is not kept. `tangled` is a history variable: it becomes true when two
runs overlap on the thread or one goes on from a checkpoint that is not the
newest, where a linear history is not to be expected.

### SnapshotStore and DurableStore

A change is a number: a row of the snapshot or an entry of the extract cache
under a hash. `rows`, `cache`, `pending`, `dirty`, `torn` and `depth` are the
fields of the class; `snapshot` and `log` its files; `chain` the promises chained
on `persisting`, and `due` what was in effect when each was asked for.

| action | code |
|---|---|
| `Load` | `doLoad`: the log wins over a cache in an old snapshot, which moves into the log; a log that ends within a line is known as torn |
| `ChangeRows`, `PutExtracted`, `PutSame`, `Decide` | a mutation: applied in memory, then persisted, or held by a batch with perhaps a checkpoint |
| `BeginBatch`, `FlushBatch`, `EndBatch` | `batched` |
| `StartJob`, `Appended`, `AppendFails`, `Written`, `WriteFails` | `persistIfDirty`: the log first, then the snapshot, either of which may fail |
| `StoreDies` | a process that dies, also within an append, which leaves any of its lines; the next one may have a log where this one had none |

The refinement maps `held`, `durable` and `promised` to what reads see, what a
new process would load, and what was acknowledged. A change of the cache that a
later one replaced counts as durable with it. `AfterAppend` is the point of the
torn line: an append to a log that ends within a line loses its first entry
unless it starts with a newline.

### Review and ModelLimiter

What a run learns is `<<file, section, version>>`. `stage` is a file on its way
from the reader to the writer, `call` a section on its way to a judgement;
`filesM`, `judgedM`, `awaitM` and `owedM` are the manifests, `filesNow`,
`judgedNow`, `claims` and `finished` the copies the run works on.

| action | code |
|---|---|
| `Start` | `planDetail`: what changed or is owed; what is gone |
| `Pull`, `Read` | `prefetchOrdered`, and a read that finds the planned bytes or fails |
| `Dispatch`, `Ask`, `Answer` | `startJudge` reserves calls in plan order; `callSections` asks within the slice, the breaker stops after failures in a row |
| `ApplyUnread`, `ApplyBinary`, `ApplyUnjudged`, `ApplyJudged`, `Drained` | the one writer, in plan order |
| `Abort`, `LoopEnds` | the caller's signal, which cuts the run when it hits the writer; nothing outlives the loop |
| `Retire`, `Compare`, `Flush`, `SaveAwaiting`, `SaveFiles`, `SaveJudged`, `SaveOwed` | the end of a run in the order of `review.ts:308-334` |
| `FlushFails`, `SaveFails`, `ReviewDies`, `Checkpoint`, `Edit` | failures, deaths, the store's own checkpoints, and edits of the directory at any time |

`halfSaved` is a history variable: a run ended between two manifests.
`ModelLimiter` is the whole of `createModelLimiter`. A call that has settled
still counts as in flight until `finally` runs, which is the turn between
`Answers` and `Frees`.

### MemoryServer

`mem` is the store, `snap` and `arch` are the two files, and `stamp` is what the
process knows of `snap`. A text is a number; a stub is the number of the text it
stands for. A body without the stub marker that `memory_compact` is handed for its
`stub` is `Given`: whoever reads it finds a text (`isStub`). A call is at the await
it has come to.

| action | code |
|---|---|
| `Goes`, `List`, `Drop`, `Replay`, `Accept` | `ensureFresh`: a file that changed is read, and `replaceStore` takes it over key by key, with other calls in between |
| `Remember`, `Forget`, `ApplyChange` | the writing calls |
| `Snapshot`, `Stamp` | `SharedJsonFile.write` at the end of each: all of the memory is renamed over the file, and then the file that is there by now is stamped; other processes may come in between |
| `LookUp`, `Get`, `Probe`, `ArchiveFact`, `WriteStub` | `memory_get`, `memory_compact` and `memory_restore`; a compaction archives, looks at the file again, and then writes its body |
| `EditText`, `EditCompacts`, `Touch`, `Respawn` | others rewrite the file; the process dies and the next one hydrates |

`apart` and `late` are history variables for races the code does not exclude
(section 3). `late` becomes true when the process stamps a file that is no longer
the text it means: an absorbed file that was written over meanwhile, or one that
another process renamed there between `Snapshot` and `Stamp`.

### Ingestion, MemoryVectorStore, Cognition

`Ingestion`: `doc[w]` is what slot `w` of `mapWithConcurrency` works on.
`PlanSync` is `_planSync`, `Upsert` one batch, then `DeleteStale` and
`RecordManifest`; `Erase` and `Unlist` are `forget`; `Fails` is a throw, or a
death, at any await, with part of the store's operation done. `odds` is a history
variable: the contents that were left half done in a source.

`MemoryVectorStore`: `UpsertRecord`, `Delete` and `DenseSearch` change `records`,
the graph and its tombstones as the code does; no method awaits, so each is one
step. The graph's search is taken to find every node.

`Cognition`: a commit goes through `Commit` (it queues on the mutex),
`ReadIncumbent`, `Supported` or `Rejected`, `Write` and `Bump`; a recall through
`Recall`, `Search` and `Fill`. `strayed` and `meddled` are history variables:
writes of other instances, and writes the store failed after they were in.

## 3. The runs

| run | instance | shows |
|---|---|---|
| `FactRepository` | 2 interchangeable syncing callers of one partition, a caller of another that does not sync, 1 key, records that expire, imports from an older clock with a leading sequence, a journal row of an older version, a cap of 0, 3 operations | `TypeOK`, `PendingIsOwed`, `JournalIsOwed`, `TombstoneMeansAbsent`, `RevisionNamesAWrite`, `ScopesAreIsolated` |
| `FactRetention` | 2 syncing callers, 2 keys, a cap of 1, imports with a leading sequence, 3 operations | `SettledIsAcked`, `VersionsAreUnique`, `LaterWriteSortsFirst`, `DisappearanceIsAccounted` |
| `FileLock` | 2 processes, 2 deaths, 2 restarts under any free pid, 1 failing call, fairness | `TypeOK`, `HolderKeepsItsFile`, `ImplementsLock`, `WaitIsBounded`, `StaleLockIsReclaimed` |
| `NodeFileStore` | 3 processes without watchers, 3 transactions, a failing call of `_persist`, 1 death | `TypeOK`, `AckedIsInFile`, `ImplementsStore` |
| `NodeFileShared` | 2 processes, one watching, 3 transactions, 3 failing calls of any kind, 1 death, 1 restart | `AbortedLeavesNothing`, `AnnouncedIsForeign` |
| `AgentGraph` | 2 callers, 3 nodes: a fan-out to a gated and an ungated node and a cycle, recursion limit 3, 2 checkpoints kept, 3 calls, 1 death, fairness | `TypeOK`, `GateWaitsForResume`, `HistoryIsALine`, `SuperstepsFollow`, `ProgressIsKept`, `EveryRunEnds` |
| `Review` | 2 files of 2 sections, both to judge or one of them binary, 3 calls, an edit or a death, and 1 file with 2 runs and 2 edits or deaths, fairness | `ReviewTypeOK`, `ManifestNotAhead`, `SkippedIsKnown`, `BudgetInFileOrder`, `ReviewEnds` |
| `Services` | the server: 2 keys, 2 calls at once, 3 calls, edits and deaths in all, or 4 with 2 calls and either one edit or one key; ingestion: 2 slots, 1 source, up to 2 chunks, 4 documents and failures in all; the vector store: 3 ids, 2 vectors; cognition: 2 instances, 2 committers, 3 commits, a recall; the snapshot store: 2 callers, 2 changes, 1 hash, 2 faults; the limiter: 4 calls, a cap of 3 | `ServicesTypeOK`, `StubsAreBacked`, `NewestIsRead`, `KnownIsMirrored`, `IngestedIsExact`, `SearchIsCurrent`, `CommitIsAtomic`, `SlotsAreUsed`, `ImplementsDurableStore` |

Runs that find a statement of the repository refuted by its code:

| run | statement | counterexample |
|---|---|---|
| `FactTombstonePreventsResurrection` | tombstones prevent resurrection (`storage/types.ts:120`) | forget, then merge an older copy |
| `FileLockMutualExclusion` | two processes never both write (`nodeFileAdapter.ts:16-17`) | the holder dies; two waiters both confirm that; one unlinks and creates; the other unlinks the new lock, and a create follows |
| `NodeFileNoLostCommit` | writers build on each other's commits (`nodeFileAdapter.ts:18-20`) | the watcher reads, another process renames, the watcher stats: an old document with a new stamp, and the next transaction skips its refresh |
| `AgentGraphCompleteMeansDone` | `'complete'` means every branch reached END (`orchestration/types.ts:83`), and a checkpoint resumes a run exactly (`orchestration/AgentGraph.ts:12-14`) | the checkpoint of a superstep is saved before its frontier is known; the run dies or is aborted there; the next invocation finds an empty frontier and is complete |

Seen while modelling, behaviours of the models without a run of their own:

- a stat or a read that fails under the lock counts as nothing new
  (`nodeFileAdapter.ts:168-172`, 211), so the transaction writes over commits it
  could not read;
- a transaction whose fsync, close or rename failed is rejected and leaves its
  complete tmp file (`nodeFileAdapter.ts:226-230`). The next open that cannot read
  the file takes it (153-155), and the rejected transaction is back, against 243-244
  ("no partial commits, in memory or on disk"). `AbortedLeavesNothing` speaks of
  all others (`salvaged`);
- a foreign change that a transaction's own refresh takes over between two polls
  is never announced (300), against the header's line 24-26;
- a record that expired reads as absent and keeps its revision, so a
  compare-and-set based on that read conflicts although nothing was written
  since (`storage/types.ts:227`);
- eviction and acknowledgement commit without moving the generation
  (`storage/types.ts:154` speaks of every committed write transaction);
- a resume removes every gate of the graph for its run, those of later
  supersteps included (`orchestration/AgentGraph.ts:357`), so
  `GateWaitsForResume` speaks of the thread and not of each gate;
- two callers that save checkpoints of one thread at once lose one
  (`orchestration/checkpoint.ts:92-99`);
- a review saves files, judged sections and debts one after the other
  (`knowledge/review.ts:328-334`): a death in between forgets the debt of a file
  that was judged in part, and if the file then goes back to what the manifest
  knows, no review looks at it again (`halfSaved`);
- the breaker counts failures in a row in the order in which they arrive, so
  with a failing provider what a review judges depends on its widths
  (`review.ts:12-14` speaks of every width);
- `memory_compact` reads a body, awaits a probe, then archives and replaces what
  it read: a body remembered meanwhile is lost (`compaction-tools.ts:99-134`);
- an edit that one call absorbs while another writes may lose what the other
  acknowledged: `replaceStore` forgets the key, or replays the old body, after it
  was remembered (`backends/memory-store.ts:357`);
- a text that is accepted after another call has written the file again sets the
  stamp back; an edit that restores just that text is then never absorbed
  (`persistence/shared-json-file.ts:114-118`, `late`);
- a file that another process renames there between our rename and our stat gets
  our hash under its own mtime and size
  (`persistence/shared-json-file.ts:138`, 150); the next check takes it for known
  (105), its text is never absorbed and the next write drops it (`late`);
- the `stub` argument of `memory_compact` may lack the marker
  (`packages/memory-mcp/src/compaction.ts:168`). The body is then no stub, a read
  returns it in place of the archived original
  (`backends/memory-store.ts:91`), though the tool promises that reads "still
  return it" (`compaction-tools.ts:67-68`), and a second compaction archives it over
  the original. In `NewestIsRead` such a body is a text like any other;
- two processes that archive at once may drop each other's rows, against
  `persistence/fact-archive.ts:56-57`;
- after a "diff" ingest that failed and a success of other content, chunks stay
  behind until the source is forgotten; a `forget` that dies before its manifest
  entry goes makes the next ingest of the same content skip everything
  (`ingest/IngestionPipeline.ts:152-155`); "diff" without a manifest appends
  (264-282), where `ingest/types.ts:81` speaks of replace;
- a record of the vector store that is updated above the threshold is not found
  by an unfiltered dense search until enough tombstones force a rebuild, and one
  that loses its vector keeps an old node without a tombstone, by which it is
  scored when it gets a vector again (`vectorstore/MemoryVectorStore.ts:87-94`,
  `lapsed`);
- two cognitions over one store decide against the same incumbent and both write
  (`meddled`); a write that the store fails after it is in leaves the recalls of
  its own instance stale (`strayed`).

### Bounds, and why they are enough

- Fact runs, 3 operations: the longest story a property needs is write,
  overwrite or delete, and write again, with an acknowledgement or a cap pass
  of another caller in between. Acknowledgements, reads, evictions and clock
  ticks do not count. `FactRetention` needs the second key for the cap to have
  something to choose from; `FactRepository` needs the clock.
- `MaxTime` is 1: an expiry needs one tick.
- Lock: with two processes each can be the holder that dies, the survivor that
  reclaims and the newcomer with the dead one's pid. Three processes are needed
  for two survivors to race over a dead third, which `FileLockMutualExclusion`
  does. The safety half is proved for any number.
- Adapter: a lost commit needs two transactions and a third to make the loss
  durable. Faults and deaths occur at every step. Three faults of `NodeFileShared`
  are a failing fsync, close or rename, an unreadable file at the next open, and one
  more after the rejected transaction is back.
- Graph: three calls are a first run, one after its gate and one more; with a
  recursion limit of 3 the cycle is entered and stopped; a history of 2 prunes.
  Two callers are enough to interleave two saves.

- Store: two changes are one that is acknowledged and one that overtakes it in
  the log or the snapshot; two faults are one that leaves a torn line and one
  that needs it to be loaded again.
- Reviews: order, the budget and the widths need two files at once, with 3 calls
  for 4 sections; a debt needs two runs over one file and an edit back. Both at
  once add nothing a file of its own does not meet.
- Limiter: four calls and a cap of 3 let the width fall to 1 and grow again while
  a call waits.
- Server: the shortest stories of loss have two calls, one edit and one death; a
  stamp that is set back needs a second edit, of the same key.
  Ingestion: a failure, a retry, and another content or a forget. Vector store:
  no bound but its size; the graph of 3 nodes passes its ratio of a half with 2
  tombstones. Cognition: two commits of one instance, one of the other, and a
  recall that spans them.

In `Services` one component moves in a behaviour: they share no state, so that a
property of one depends on none of the others, and moving them together would add
nothing but interleavings of unrelated steps. For the same reason `Review` is a
run of its own: a review reaches the store only through what `DurableStore`
promises, and the limiter only through answers that may come at any time.

`CHECK_DEADLOCK FALSE` is said in every run but those of the lock, where behaviours stop
when their operations are used up. The lock runs check for deadlock: a process
can always ask again.

Symmetry is declared over the callers of one partition and over keys, in `Services`
over calls, callers, committers, slots, chunk hashes and instances of cognition as
well, where every constant is invariant under it, and in no run with a liveness
property.

### Fairness

`FileLock!FairSpec`: a live process goes on with the system call it is at, and
its deadline passes; requests, faults, deaths and restarts are never promised.
A waiting process sleeps on a timer and a deadline is a comparison with the
clock, so both are what the event loop gives. `AgentGraph!FairSpec`: a run goes
on, that is, node functions and the key-value store answer in the end; that
anybody calls is not promised. `Review!ReviewFairness`: a run that was started
goes on; its reads have deadlines (`jobDeadline.ts`) and its model calls are
answered, fail or time out in the end. Edits, aborts, failures and the next run
are not promised. No other module states fairness.

Every property of a passing run is broken by some mutant of the definitions it
is about: the operators whose comment begins with "Mutant of" are those bugs,
and belong to no specification.

## 4. Properties in words

- `PendingIsOwed`, `JournalIsOwed`: a pending record has its own unsynced row,
  and an unsynced row was never acknowledged. `markSynced` settles rows by
  operation, so an acknowledgement of an overtaken write settles nothing newer.
- `SettledIsAcked`, `DisappearanceIsAccounted`: eviction reaches only what the
  target has.
- `VersionsAreUnique`, `RevisionNamesAWrite`: no revision or operation id is
  used twice, also within one transaction and across delete and rewrite.
- `LaterWriteSortsFirst`: imports with sequences from elsewhere never make a
  later local write look older.
- `ScopesAreIsolated`: a transaction changes one partition.
- `ImplementsLock`, `HolderKeepsItsFile`: one process inside at a time, and a
  live writer's lock is not stolen, however slow it is, until two reclaims
  overlap.
- `WaitIsBounded`, `StaleLockIsReclaimed`: an attempt always ends, and one that
  finds the lock of a dead process gets rid of it first.
- `AbortedLeavesNothing`: what a rejected transaction changed is in no file, no
  document that is read and no note, whatever calls failed, unless an open took it
  out of the tmp file.
- `AnnouncedIsForeign`: a process is never told of nothing but its own commits.
- `ImplementsStore`: a crash or failure at any point leaves either all of a
  transaction or none of it, and no acknowledged transaction goes.
- `GateWaitsForResume`: a gated node has run only on a resumed thread, whatever
  checkpoint the run began from.
- `HistoryIsALine`, `ProgressIsKept`: later checkpoints extend earlier ones, and
  no death or new call takes back what the newest one holds.
- `SuperstepsFollow`: a superstep merges in name order and runs what was queued.
- `EveryRunEnds`: also a cyclic graph, and also one taken up from a checkpoint.
- `ImplementsDurableStore`: an acknowledged change survives whatever fails or
  dies, torn lines and the move of the cache into the log included.
- `ManifestNotAhead`: what a manifest calls done is durable.
- `SkippedIsKnown`: a file the next plan passes over has been judged in all its
  sections at the content it has.
- `BudgetInFileOrder`: no more calls than the budget, and earlier files first,
  however many are judged at once.
- `SlotsAreUsed`: no slot of the limiter is idle while a call waits.
- `ReviewEnds`: also with failing reads and calls, and an abort anywhere.
- `StubsAreBacked`: a stub is never the only copy.
- `NewestIsRead`: a read returns the newest text, behind a stub or not, as long as
  calls do not meet in the ways section 3 names; a body that a compaction leaves
  without the marker is the newest text.
- `KnownIsMirrored`: a server at rest that takes the file for known has it in
  memory, until it stamps a file that is no longer the one it means.
- `IngestedIsExact`: the store holds what the manifest says, once a document got
  through after what failed.
- `SearchIsCurrent`: a search over the graph scores a record by the vector it
  has, and misses no more records than the rebuild ratio lets pass.
- `CommitIsAtomic`: an instance writes over what it decided against, and its
  cache serves nothing that its own commits superseded.

## 5. The proofs

Every theorem is checked by TLAPS for all values of the constants: any number
of processes, callers, keys and transactions.

**FactRepository.** Proved from the named assumptions on the constants alone.
The properties are not inductive: that a new operation id differs from all that
are stored needs every number ever handed out to be below its counter, also
those in the journal, in flight (`sending`), acknowledged and in the bases of
compare-and-sets. `NumbersAreCounted` and `SeqIsCounted` say so; `IInv` adds
them to the invariants, and each action has a lemma that it preserves `IInv`.
The lemmas on `BumpOp`, `Journal`, `Put` and `DeleteWithTombstone` carry what
the actions share. `TypeCorrectness`, `NothingPendingIsLost`, `SettledOnlyByAck`,
`JournalHoldsWhatIsOwed`, `DeletedIsAbsent`, `VersionUniqueness` and `NoABA`
follow from it, and the action properties `RecencyOrder`, `NoSilentLoss` and
`ScopeIsolation` from one step under it.

**FileLock.** Proved from the assumptions on the constants alone, restarts and
reused pids included. `IInv` says that `Sound` holds until `overlapped` does:
whoever is inside keeps its file, the pid in it is its creator's, what is being
reclaimed names a dead process, and what is about to be unlinked is vacant;
`TypeCorrectness` is its other half. The
lemmas `StepOutside` and `StepInside` split the steps by whether they can touch
the file of a process inside. `Exclusion`, `NobodyIsRobbed` and, step by step,
`Refinement` follow. `CrashFreeExclusion` is plain `MutualExclusion` where
nobody dies: nobody then reclaims, so nothing overlaps.

**NodeFileStore.** Two invariants. `BasicInv` needs no hypothesis on what fails
or overlaps: types, that whoever is in a transaction owns the lock
(`OwnerIsInTransaction`), that the tmp file it is about to rename is
its document (`TmpIsWritten`), that a transaction is newer than all there is until
its unit of work has run (`TransactionIsNew`), and that a document made from a
transaction's has all that one had (`DocumentsGrow`). It gives `TypeCorrectness` and, step by step,
`LockIsUsedAsPromised`: seen from the lock, the adapter takes the steps of
`ExclusiveLock`. `RejectedIsUndone` rests on it: that a
rejected transaction is nowhere is not inductive, since documents are copied from
one process to the next, so `AbortedIsNowhere` speaks of the files, every
document in memory and every note at once, and the lemmas say that every step
but the unit of work copies what was at hand. It holds for any `Failing`: what a
failing fsync, close or rename leaves is in the tmp file alone until an open takes
it, which puts it into `salvaged`. `NewsIsForeign` has no hypothesis on
failures or overlaps: a process has the document of its own last commit
until another one commits (`KnowsOwnCommit`), so that what a poll brings ends with
another's commit (`PollIsForeign`). The property itself speaks of processes that
have not come back from the dead.

For the second, `[]NoReadOverlap` (no rename falls between an unlocked read
and its stat) and `ReadsSucceed` (only writes and renames fail) are what the
code rests on; `NodeFileNoLostCommit` and the failing read of section 3 show that each
is needed. `IInv` says at each step of a transaction how its document stands to
the file (`TransactionBuildsOnFile`). It gives `AcknowledgedIsDurable`,
`StampsAreSound`, `TmpIsNeverBehind`, `NothingIsLost` and `Refinement`.
`LockedWritersLoseNothing` has no hypothesis on the interleaving: where nobody
watches and nobody opens the file late, the lock suffices.

**AgentGraph.** Proved from the assumptions on the graph alone: any graph with
finitely many nodes, any gates, callers, deaths and history size.
`GateWaitsForResume` is not inductive, since a run takes its path from a history
that a pending save may be about to write: `NothingPassed` says that until a
resume no path in the history, in a run or in what a save has read holds a gated
node, and that every graph still has its gates. `LatestIsThere` (a finite
non-empty history has a newest checkpoint) gives `load` its type.
`HistoryIsALine`, `SuperstepsFollow` and `ProgressIsKept` hold until runs are
`tangled`, and say nothing of the runs that will write the next checkpoints.
`LineInv` does: until then one caller at most is in a run, and that run is at the
newest checkpoint, at a human's edit of it, or one superstep beyond it
(`Continuing`). A save then lengthens the line at its end, also when it prunes the
other end; `LineInvariance` gives `LaterExtendsEarlier` and `SuperstepsInOrder`,
and one step under it `NothingIsTakenBack`.

**Cognition.** Proved from the assumptions on the constants alone, for any number
of instances, committers and readers. `CommitIsAtomic` is not inductive:
`Chains` says that a commit under way is chained once, on one instance, and only
the head of a chain is past its start, so that the belief cannot move under a
decision; `Current` says the same of a recall that has searched but not yet
filled the cache, unless the version it began with is gone. `CognitionInv` adds
both, and each action has a lemma. `CognitionInvariance` gives `CognitionTypes`
and `Atomicity`.

**Ingestion.** Proved from the assumptions on the constants alone, for any
sources, chunks, slots, batches, strategy and failures. `IngestedIsExact` speaks
of a source at rest; to get there, the proof has to say what the store may hold
while slots work on it and after some have failed. `StoreIsExplained`: the store
has at each index what the manifest says, what a slot is putting in, or
what is on record as half done (for "replace", which wipes first, only when nothing
was tried). `PlanIsCarriedOut`: a planned text is in the store but for what its
slot has yet to write and delete, and for texts tried beside it; `WipeIsComplete`:
a slot that wipes the source and is alone leaves only its own text there.
`OverlapsAreOdd`: two texts that overlapped on a source stay on record.
`IngestInv` adds `SlotIsSound` and the types. At rest nothing but the manifest is
left to explain a stored chunk (`IngestionIsExact`).

**MemoryVectorStore.** Proved from the assumptions on the constants alone, for any
set of ids, finite or not, and any rebuild ratio. `SearchIsCurrent` is about the
answer of a search; `VectorInv` says why the graph may be trusted: a dropped graph
has no nodes and no tombstones (`DroppedIsEmpty`), a node without a tombstone
stands for a record, with the vector it has unless it lapsed (`NodesStand`), and
the tombstones are below the ratio after every call (`TombsAreFew`). `NoStaleNeighbour`
follows.

**ModelLimiter.** Proved from the assumption on the constants alone, for any number of
calls, any cap and any growth. `LimiterInv` adds to `SlotsAreUsed` that the line
has every waiting call once (`InLine`), without which `pump` could take a call
twice and count one slot for both, and that the calls in flight can be counted.
Lemmas on what `pump` takes from the line carry the steps to `NoIdleSlot`.

**The components side by side.** `MCServices` runs six components at once, each of
which moves alone. `PartsRunAlone` says that a behaviour of all is a behaviour of
each, so that what is proved of one alone it keeps among the others:
`ServicesTypes` and `ServicesKeepTheirPromises`, which are all the properties of
the run `Services`.

**SnapshotStore.** Proved from the assumptions on the constants alone, for any
callers, hashes, faults and deaths. The invariant says how the files follow
memory: `LogCatchesUp` that what the log lacks is being appended or waits for the
next append, an entry that only an old snapshot has included, and that a log
that ends within a line is known as torn; `SnapshotCatchesUp` that memory is
dirty unless the snapshot, or the one being written, has its rows;
`DueIsOnItsWay` that what the first request answers for is durable once its job
is done, which needs `OneRequestEach`, or a later request could widen an answer
under way. `FilesGrow` says that no step takes anything out of the files, and
`AnsweredIsDurable` that no call is answered too early; with them each step is one
of `DurableStore` or a stutter (`SnapRefinement`).

**Review.** Proved from the assumptions on the constants alone, for any files,
packs, widths and budgets, and any number of runs, edits and deaths.
`KnowledgeIsHeld` follows what the next manifests will say from memory to what is
durable; `UntouchedUntilApplied` says that a file not yet applied has the
judgements it began with, so that a reused one is current;
`UnowedIsJudged` says of the saved manifests, and of the run's copies of them,
that a file nobody owes is judged in full. They give `ManifestsFollow` and
`NothingIsForgotten`; the second holds until a run ended between two manifests, as
the property says. The budget has an invariant of its own, `BudgetInv`, the last
section of `Review`. `BudgetInFileOrder` compares reservations with calls made, and
a reservation may outlive or precede its calls: `CallsAreCounted` says that the
calls used are those made and those that dispatched files may still make
(`Unspent`, a finite set of sections); `FilesInTurn` that files are dispatched in
the order of the plan, so that none gets calls before an earlier one had its
share; `ShortTakesLast` that a file that got less than it needs took all that was
left; `JudgedAsPlanned` that a run judges a file at the content it was planned
with, so that what it needs is what was reckoned.
`BudgetInvariance` gives `ReviewTypes` and `BudgetInOrder`. `StoreIsUsedAsPromised`
shows that every step of a review is a step of `DurableStore` or leaves the store
alone, and `PromisesAreKept` that in every such store what was promised is
durable and what is durable can be read: with `SnapRefinement` that is what a
review may count on with the store of `SnapshotStore` underneath.

**MemoryServer.** Proved from the assumptions on the constants alone, for any
keys and concurrent calls. `CallsAgree` says what a call has found and archived by
the time it needs it, `MirrorAdvances` how far an absorbing call has taken the
memory, `NewestIsKept` and the parts below it what holds while accesses are kept
apart; `StampsItsOwn` there says that between a rename and its stat nothing else has
moved. Each action is a lemma, and `Stepping` carries what the steps of a call
share. `ServerTypes`, `Backing`, `Mirroring` and `Reading` follow from
`Invariance`.

**Only model-checked**: `WaitIsBounded`, `StaleLockIsReclaimed`, `EveryRunEnds`
and `ReviewEnds`, which are liveness properties (fairness and `ENABLED` are out of
the proof system's reach), and of course the statements the runs of section 3
refute. Every other property of a passing run is stated by a theorem. Induction
over data and recursive operators would be out of reach too; no module uses them.

## 6. What is not modelled

- Contents, tags, embeddings, similarity, formatting and logging.
- Change notes of the repository (`subscribe`, `_publish`), beyond the watcher's.
- Operation ids and timestamps chosen by a caller of the repository; MemoryStore
  passes none.
- A memory file deleted or edited by a stranger; two documents with equal mtime
  and size, in the adapter and in the server's files; a torn tmp file that parses.
- Retries of a node, the events of a stream, and two runs of one graph object,
  which share a result field (`orchestration/AgentGraph.ts:193`).
- The order of journal rows, which differs between adapters.
- Knowledge store: snapshots that do not parse (kept aside), loads that fail, two
  windows on one snapshot; the snapshot port is taken to write all or nothing.
- Review: mechanical and narrowed passes, analyzers, anchors of shared facts, time
  budgets, the resumable run record, stores without batches.
- Server: remembered texts that begin with the stub marker, batches of several keys,
  expiry, the entry cap, failing disk writes,
  backups, unreadable files, archive writes of two processes at once.
- Ingestion: a store operation that goes on after its call has failed. Vector
  store: filters, keyword search, a graph search that misses nodes. Cognition:
  several subjects, aliases, trust.
- The numeric engine, sessions and retrieval, whose content is floating-point
  arithmetic, and the wiring, wire formats and scripts; most of the repository's
  lines are there.
- All components whose status is `not_modelled` in `PROJECT.json`, with reasons.

## 7. Plan

1. Proofs: the layers put together, where so far each is proved against the
   abstraction between them: `FileLock` under `NodeFileStore`, and `SnapshotStore`
   under `Review`.
2. `Experience`: the corpus file, approval and one training at a time; the
   consolidation marker, response caches, session persistence, the IndexedDB
   adapter.
3. The resumable run record of a review and its narrowed second pass; two windows
   on one knowledge snapshot; archive writes of two servers.
4. The fact repository over the adapter as one composed specification.
