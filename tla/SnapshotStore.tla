---------------------------- MODULE SnapshotStore ---------------------------
(* knowledge/stores/localSnapshotStore.ts: knowledge in memory, written to   *)
(* one snapshot and, for the extract cache, to an append-only log.           *)
(*                                                                           *)
(* A change is named by its number: numbers are given in the order in which  *)
(* the changes are applied. A change is a row (a fact, a relation, a mark),  *)
(* or an entry of the cache under a hash, which replaces the entry before.   *)
(* The snapshot port is taken to write all of a snapshot or nothing, as the  *)
(* MCP host's shared file does; an append may leave any of its lines.        *)
EXTENDS Naturals, Sequences, FiniteSets

CONSTANTS Callers, Hashes,
          Timer,        \* the requester that stands for the checkpoint
          Row,          \* the kind of a change that is not a cache entry
          MaxChanges,   \* bound: changes
          MaxFaults     \* bound: failing calls of the ports and deaths

ASSUME SnapshotAssumption ==
  /\ Timer \notin Callers
  /\ Row \notin Hashes
  /\ MaxChanges \in Nat /\ MaxFaults \in Nat

Requesters == Callers \union {Timer}
Cached == [Hashes -> Nat]           \* the newest change of each hash, or 0
NoEntries == [h \in Hashes |-> 0]

VARIABLES
  \* memory
  loaded,     \* the files were read
  logged,     \* the store has a log for the cache
  rows,       \* the row changes applied
  cache,      \* the entry of each hash
  pending,    \* entries that are not in the log yet
  dirty,      \* rows are ahead of the snapshot
  torn,       \* the log is believed to end within a line
  depth,      \* open batches
  \* files
  snapshot,   \* [rows, extracted]: extracted is what a store without log keeps there
  log,        \* [entries, open]: open while it ends within a line
  \* calls
  pc,         \* where each caller is
  inBatch,    \* the callers between the begin and the end of a batch
  chain,      \* requests for persistence, in order
  due,        \* the changes each request answers for
  job,        \* what the first request is at
  \* history
  kind,       \* of each change: Row or its hash
  acked,      \* changes whose persistence was acknowledged
  faults

memory == <<loaded, logged, rows, cache, pending, dirty, torn, depth>>
files == <<snapshot, log>>
calls == <<pc, inBatch, chain, due, job>>
snapVars == <<memory, files, calls, kind, acked, faults>>

Idle == [at |-> "idle", batch |-> NoEntries, image |-> [rows |-> {}, extracted |-> NoEntries]]
Newest == Len(kind)
Overlay(new, old) == [h \in Hashes |-> IF new[h] # 0 THEN new[h] ELSE old[h]]

\* What a process finds that reads the files now: the log's entries win.
Reloaded == Overlay(log.entries, snapshot.extracted)

\* The changes that are in effect, or replaced by a later one that is, where
\* the rows are R and the cache is C.
InEffect(R, C) ==
  {m \in 1..Newest : IF kind[m] = Row THEN m \in R ELSE m <= C[kind[m]]}

SnapTypeOK ==
  /\ loaded \in BOOLEAN /\ logged \in BOOLEAN /\ dirty \in BOOLEAN /\ torn \in BOOLEAN
  /\ rows \subseteq Nat /\ cache \in Cached /\ pending \in Cached
  /\ depth \in Nat
  /\ snapshot \in [rows : SUBSET Nat, extracted : Cached]
  /\ log \in [entries : Cached, open : BOOLEAN]
  /\ pc \in [Callers -> {"idle", "applied", "ended", "waiting"}]
  /\ inBatch \subseteq Callers
  /\ chain \in Seq(Requesters)
  /\ due \in [Requesters -> SUBSET Nat]
  /\ job \in [at : {"idle", "append", "write"}, batch : Cached,
              image : [rows : SUBSET Nat, extracted : Cached]]
  /\ kind \in Seq(Hashes \union {Row})
  /\ acked \subseteq Nat
  /\ faults \in 0..MaxFaults

SnapInit ==
  /\ loaded = FALSE /\ logged \in BOOLEAN
  /\ rows = {} /\ cache = NoEntries /\ pending = NoEntries
  /\ dirty = FALSE /\ torn = FALSE /\ depth = 0
  /\ snapshot = [rows |-> {}, extracted |-> NoEntries]
  /\ log = [entries |-> NoEntries, open |-> FALSE]
  /\ pc = [c \in Callers |-> "idle"] /\ inBatch = {}
  /\ chain = <<>> /\ due = [r \in Requesters |-> {}] /\ job = Idle
  /\ kind = <<>> /\ acked = {} /\ faults = 0

Fault == faults < MaxFaults /\ faults' = faults + 1

-----------------------------------------------------------------------------
(* Loading: once, by the first call, a read or a change. A load that fails    *)
(* rejects its call, changes nothing and is tried again by the next.         *)

\* Entries of a snapshot from before the log wait for the log, and make the
\* snapshot one that has to be written without them. Compacting the log keeps
\* its live lines, or fails and changes nothing.
Load ==
  /\ ~loaded
  /\ loaded' = TRUE
  /\ rows' = snapshot.rows
  /\ cache' = Reloaded
  /\ LET legacy == [h \in Hashes |-> IF log.entries[h] = 0 THEN snapshot.extracted[h] ELSE 0] IN
     IF logged THEN pending' = legacy /\ dirty' = (snapshot.extracted # NoEntries)
               ELSE UNCHANGED <<pending, dirty>>
  /\ \/ torn' = (logged /\ log.open) /\ UNCHANGED log
     \/ logged /\ torn' = FALSE /\ log' = [log EXCEPT !.open = FALSE]
  /\ UNCHANGED <<logged, depth, snapshot, calls, kind, acked, faults>>

-----------------------------------------------------------------------------
(* Changes. The call goes on to persist when no batch is open.               *)

\* write and markStale.
ChangeRows(c) ==
  /\ loaded /\ pc[c] = "idle" /\ Newest < MaxChanges
  /\ kind' = Append(kind, Row)
  /\ rows' = rows \union {Newest + 1}
  /\ dirty' = TRUE
  /\ pc' = [pc EXCEPT ![c] = "applied"]
  /\ UNCHANGED <<loaded, logged, cache, pending, torn, depth, files, inBatch, chain, due, job, acked, faults>>

PutExtracted(c, h) ==
  /\ loaded /\ pc[c] = "idle" /\ Newest < MaxChanges
  /\ kind' = Append(kind, h)
  /\ cache' = [cache EXCEPT ![h] = Newest + 1]
  /\ IF logged THEN pending' = [pending EXCEPT ![h] = Newest + 1] /\ UNCHANGED dirty
               ELSE dirty' = TRUE /\ UNCHANGED pending
  /\ pc' = [pc EXCEPT ![c] = "applied"]
  /\ UNCHANGED <<loaded, logged, rows, torn, depth, files, inBatch, chain, due, job, acked, faults>>

\* The entry the cache has already: nothing changes, and the call persists
\* what there is, as any other.
PutSame(c) ==
  /\ loaded /\ pc[c] = "idle" /\ cache # NoEntries
  /\ pc' = [pc EXCEPT ![c] = "applied"]
  /\ UNCHANGED <<memory, files, inBatch, chain, due, job, kind, acked, faults>>

Request(r) == /\ chain' = Append(chain, r)
              /\ due' = [due EXCEPT ![r] = InEffect(rows, cache)]

\* The second half of a change, and of a batch that has ended. Inside a batch
\* the change is held, and a checkpoint may be due (any delay is possible
\* between two changes).
Decide(c) ==
  /\ pc[c] \in {"applied", "ended"}
  /\ \/ /\ depth = 0
        /\ Request(c)
        /\ pc' = [pc EXCEPT ![c] = "waiting"]
     \/ /\ depth > 0
        /\ pc' = [pc EXCEPT ![c] = "idle"]
        /\ \/ UNCHANGED <<chain, due>>
           \/ /\ pc[c] = "applied" /\ \A i \in DOMAIN chain : chain[i] # Timer
              /\ Request(Timer)
  /\ UNCHANGED <<memory, files, inBatch, job, kind, acked, faults>>

BeginBatch(c) ==
  /\ pc[c] = "idle" /\ c \notin inBatch /\ Newest < MaxChanges
  /\ inBatch' = inBatch \union {c}
  /\ depth' = depth + 1
  /\ UNCHANGED <<loaded, logged, rows, cache, pending, dirty, torn, files, pc, chain, due, job, kind, acked, faults>>

\* Mutant of FlushBatch: the batch counts as ended.
FlushBatchEnds(c) ==
  /\ pc[c] = "idle" /\ c \in inBatch
  /\ Request(c)
  /\ depth' = depth - 1
  /\ pc' = [pc EXCEPT ![c] = "waiting"]
  /\ UNCHANGED <<loaded, logged, rows, cache, pending, dirty, torn, files, inBatch, job, kind, acked, faults>>

FlushBatch(c) ==
  /\ pc[c] = "idle" /\ c \in inBatch
  /\ Request(c)
  /\ pc' = [pc EXCEPT ![c] = "waiting"]
  /\ UNCHANGED <<memory, files, inBatch, job, kind, acked, faults>>

EndBatch(c) ==
  /\ pc[c] = "idle" /\ c \in inBatch
  /\ inBatch' = inBatch \ {c}
  /\ depth' = depth - 1
  /\ pc' = [pc EXCEPT ![c] = "ended"]
  /\ UNCHANGED <<loaded, logged, rows, cache, pending, dirty, torn, files, chain, due, job, kind, acked, faults>>

-----------------------------------------------------------------------------
(* persistIfDirty: one request at a time, the log before the snapshot.       *)

Answered(r) == /\ pc' = [c \in Callers |-> IF c = r THEN "idle" ELSE pc[c]]
               /\ due' = [due EXCEPT ![r] = {}]

\* The first request is answered: all is durable that was there when it came.
Resolve == /\ Answered(Head(chain))
           /\ chain' = Tail(chain)
           /\ job' = Idle
           /\ acked' = IF Head(chain) = Timer THEN acked
                       ELSE acked \union due[Head(chain)]

Reject == /\ Answered(Head(chain))
          /\ chain' = Tail(chain)
          /\ job' = Idle
          /\ UNCHANGED acked

\* What serialize makes of the memory.
Image == [rows |-> rows, extracted |-> IF logged THEN NoEntries ELSE cache]

\* The snapshot is written if memory is ahead of it, and the request is
\* answered if not.
WriteSnapshot ==
  \/ /\ dirty
     /\ dirty' = FALSE
     /\ job' = [at |-> "write", batch |-> NoEntries, image |-> Image]
     /\ UNCHANGED <<pc, chain, due, acked>>
  \/ /\ ~dirty
     /\ Resolve
     /\ UNCHANGED dirty

StartJob ==
  /\ chain # <<>> /\ job.at = "idle"
  /\ \/ /\ ~loaded
        /\ Resolve
        /\ UNCHANGED <<pending, dirty>>
     \/ /\ loaded /\ logged /\ pending # NoEntries
        /\ job' = [job EXCEPT !.at = "append", !.batch = pending]
        /\ pending' = NoEntries
        /\ UNCHANGED <<dirty, pc, chain, due, acked>>
     \/ /\ loaded /\ ~(logged /\ pending # NoEntries)
        /\ WriteSnapshot
        /\ UNCHANGED pending
  /\ UNCHANGED <<loaded, logged, rows, cache, torn, depth, files, inBatch, kind, faults>>

\* Mutant of AfterAppend: no fresh line is started after a torn one.
AfterAppendTorn(E, fresh) ==
  IF log.open
    THEN {[h \in Hashes |-> IF h # first /\ E[h] # 0 THEN E[h] ELSE log.entries[h]] :
            first \in {h \in Hashes : E[h] # 0}}
    ELSE {Overlay(E, log.entries)}

\* The lines of E come after the end of the log. A log that ends within a line
\* swallows the first of them, unless the append starts a fresh one.
AfterAppend(E, fresh) ==
  IF log.open /\ ~fresh
    THEN {[h \in Hashes |-> IF h # first /\ E[h] # 0 THEN E[h] ELSE log.entries[h]] :
            first \in {h \in Hashes : E[h] # 0}}
    ELSE {Overlay(E, log.entries)}

Appended ==
  /\ job.at = "append"
  /\ \E es \in AfterAppend(job.batch, torn) : log' = [entries |-> es, open |-> FALSE]
  /\ torn' = FALSE
  /\ WriteSnapshot
  /\ UNCHANGED <<loaded, logged, rows, cache, pending, depth, snapshot, inBatch, kind, faults>>

\* Some of the lines that were being appended are in the log.
Part == {[h \in Hashes |-> IF h \in H THEN job.batch[h] ELSE 0] : H \in SUBSET Hashes}

AppendFails ==
  /\ job.at = "append" /\ Fault
  /\ \E part \in Part, open \in BOOLEAN :
       log' = [entries |-> Overlay(part, log.entries), open |-> open]
  /\ torn' = TRUE
  /\ pending' = Overlay(pending, job.batch)
  /\ Reject
  /\ UNCHANGED <<loaded, logged, rows, cache, dirty, depth, snapshot, inBatch, kind>>

Written ==
  /\ job.at = "write"
  /\ snapshot' = job.image
  /\ Resolve
  /\ UNCHANGED <<memory, log, inBatch, kind, faults>>

\* A port that reports a failure has written all of the snapshot or nothing.
WriteFails ==
  /\ job.at = "write" /\ Fault
  /\ snapshot' \in {snapshot, job.image}
  /\ dirty' = TRUE
  /\ Reject
  /\ UNCHANGED <<loaded, logged, rows, cache, pending, torn, depth, log, inBatch, kind>>

\* The process dies, also within an append or a write. The next one may be the
\* first that has a log.
StoreDies ==
  /\ Fault
  /\ \/ /\ job.at = "idle" /\ UNCHANGED files
     \/ /\ job.at = "append" /\ UNCHANGED snapshot
        /\ \E part \in Part, open \in BOOLEAN :
             log' = [entries |-> Overlay(part, log.entries), open |-> open]
     \/ /\ job.at = "write" /\ snapshot' \in {snapshot, job.image} /\ UNCHANGED log
  /\ logged' \in {logged, TRUE}
  /\ loaded' = FALSE /\ rows' = {} /\ cache' = NoEntries /\ pending' = NoEntries
  /\ dirty' = FALSE /\ torn' = FALSE /\ depth' = 0
  /\ pc' = [c \in Callers |-> "idle"] /\ inBatch' = {}
  /\ chain' = <<>> /\ due' = [r \in Requesters |-> {}] /\ job' = Idle
  /\ UNCHANGED <<kind, acked>>

SnapNext ==
  \/ Load \/ StartJob \/ Appended \/ AppendFails \/ Written \/ WriteFails \/ StoreDies
  \/ \E c \in Callers :
       \/ ChangeRows(c) \/ PutSame(c) \/ Decide(c)
       \/ BeginBatch(c) \/ FlushBatch(c) \/ EndBatch(c)
       \/ \E h \in Hashes : PutExtracted(c, h)

SnapSpec == SnapInit /\ [][SnapNext]_snapVars

-----------------------------------------------------------------------------
(* What the store implements.                                                *)

Durable == InEffect(snapshot.rows, Reloaded)
Held == IF loaded THEN InEffect(rows, cache) ELSE Durable

Promises == INSTANCE DurableStore WITH held <- Held, durable <- Durable, promised <- acked

\* A call that resolves has made its change durable, whatever fails before,
\* meanwhile or after: nothing durable is lost by a later write, a torn line, a
\* death or the move of the cache into the log (localSnapshotStore.ts:14-16,
\* 273-279).
ImplementsDurableStore == Promises!StoreSpec

-----------------------------------------------------------------------------
(* The inductive invariant of SnapshotStoreProofs.                           *)

BatchesAreOpen == IsFiniteSet(inBatch) /\ depth = Cardinality(inBatch)

\* Changes are numbered as they come.
Numbered ==
  /\ rows \union snapshot.rows \subseteq 1..Newest
  /\ \A h \in Hashes : cache[h] <= Newest /\ Reloaded[h] <= Newest

\* The files are not ahead of memory.
MemoryLeads ==
  /\ ~loaded => /\ rows = {} /\ cache = NoEntries /\ job.at = "idle"
                /\ \A r \in Requesters : due[r] = {}
  /\ loaded => snapshot.rows \subseteq rows /\ \A h \in Hashes : Reloaded[h] <= cache[h]

\* An entry that only the snapshot has, which the next snapshot drops.
OnlyInSnapshot(h) == snapshot.extracted[h] # 0 /\ log.entries[h] = 0

\* What the log lacks is in what is being appended, or waits for the next append.
LogCatchesUp ==
  /\ ~logged => log.entries = NoEntries /\ job.at # "append"
  /\ job.at # "append" => job.batch = NoEntries
  /\ loaded /\ logged =>
       /\ log.open => torn
       /\ \A h \in Hashes :
            /\ pending[h] # 0 => pending[h] = cache[h]
            /\ job.batch[h] # 0 => /\ Reloaded[h] <= job.batch[h] /\ job.batch[h] <= cache[h]
                                   /\ pending[h] = 0 => job.batch[h] = cache[h]
            /\ pending[h] = 0 /\ job.batch[h] = 0 => Reloaded[h] = cache[h]
            /\ OnlyInSnapshot(h) => \/ job.at = "idle" /\ pending[h] # 0
                                    \/ job.at = "append" /\ job.batch[h] # 0

\* What the snapshot lacks is in the one being written, or memory is dirty.
SnapshotCatchesUp ==
  /\ loaded /\ ~dirty /\ job.at # "write" =>
       rows = snapshot.rows /\ (~logged => cache = snapshot.extracted)
  /\ job.at = "write" =>
       /\ snapshot.rows \subseteq job.image.rows /\ job.image.rows \subseteq rows
       /\ ~dirty => rows = job.image.rows
       /\ logged => job.image.extracted = NoEntries
       /\ ~logged => /\ ~dirty => cache = job.image.extracted
                     /\ \A h \in Hashes : /\ snapshot.extracted[h] <= job.image.extracted[h]
                                           /\ job.image.extracted[h] <= cache[h]

\* Each requester asks once at a time, and only the first is being answered.
OneRequestEach ==
  /\ \A i, j \in DOMAIN chain : chain[i] = chain[j] => i = j
  /\ \A i \in DOMAIN chain : chain[i] \in Callers => pc[chain[i]] = "waiting"
  /\ job.at # "idle" => chain # <<>>

\* What the first request answers for is durable once its job is done.
DueIsOnItsWay ==
  /\ \A r \in Requesters : due[r] \subseteq InEffect(rows, cache)
  /\ job.at = "append" => \A m \in due[Head(chain)] :
       kind[m] # Row => m <= Overlay(job.batch, Reloaded)[kind[m]]
  /\ job.at = "write" =>
       due[Head(chain)] \subseteq InEffect(job.image.rows, Overlay(log.entries, job.image.extracted))

SnapInv ==
  /\ SnapTypeOK /\ BatchesAreOpen /\ Numbered /\ MemoryLeads /\ LogCatchesUp /\ SnapshotCatchesUp
  /\ OneRequestEach /\ DueIsOnItsWay
=============================================================================
