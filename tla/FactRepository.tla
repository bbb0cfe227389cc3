--------------------------- MODULE FactRepository ---------------------------
(***************************************************************************)
(* The durable fact store behind MemoryStore: ScopedFactRepository and the *)
(* write primitives, retention, import and sync-journal code it shares.    *)
(*                                                                         *)
(* Every repository call runs inside one storage transaction, so an action *)
(* here is one committed transaction (NodeFileStore models what the file   *)
(* adapter does to make that true).  MemoryStore.remember is the exception *)
(* the model keeps visible: its cap eviction is a second and a third       *)
(* transaction, and other callers run in between.                          *)
(*                                                                         *)
(* Content is abstracted to the identity of the write that stored it, its  *)
(* opId.  Two callers may be two processes, two tabs or two concurrent     *)
(* calls in one process; each is sequential.                               *)
(***************************************************************************)
EXTENDS Integers, FiniteSets, Functions

CONSTANTS
    Callers,        \* contexts writing to the store (MutationContext.contextId)
    SyncCallers,    \* the ones opened with sync enabled
    Scopes,         \* ownership partitions
    ScopeOf,        \* the partition each caller is bound to
    Keys,           \* caller-facing keys
    Ttls,           \* time-to-live values in use; NoTtl is none
    Incoming,       \* the source records an import may bring
    LegacyJournal,  \* rows an older version left, already marked synced
    MaxEntries,     \* MemoryStoreOptions.maxEntries
    MaxOps,         \* bound: operations the store ever numbers
    MaxTime,        \* bound: clock readings
    NoTtl, NoFact, NoTombstone, NoBase, NoOp

VARIABLES
    facts,          \* the 'facts' store: record id -> record
    tombstones,     \* the 'tombstones' store: record id -> deletion marker
    journal,        \* the 'journal' store
    counters,       \* the 'meta' row: seq, revision, opSeq
    now,            \* the clock
    capPass,        \* where each caller's remember is in its eviction pass
    base,           \* the version each caller last read for a compare-and-set
    sending,        \* operations the sync client has read and is delivering
    acked           \* history: operations acknowledged so far

vars == <<facts, tombstones, journal, counters, now, capPass, base, sending, acked>>

stores == <<facts, tombstones, journal, counters>>
-----------------------------------------------------------------------------
Ids == Scopes \X Keys

OpIds == Callers \X Nat

Fact == [timestamp: Nat, seq: Nat, revision: Nat, opId: OpIds,
         ttl: Ttls, pendingSync: BOOLEAN]

Tombstone == [deletedAt: Nat, revision: Nat, opId: OpIds, pendingSync: BOOLEAN]

JournalEntry == [opId: OpIds, kind: {"remember", "forget"}, id: Ids,
                 revision: Nat, synced: BOOLEAN]

\* What a caller knows of a record it read; `opId` is history, the write that
\* was really stored there.
Base == [id: Ids, revision: Nat, opId: OpIds \cup {NoOp}]

ASSUME CallersAssumption ==
    /\ SyncCallers \subseteq Callers
    /\ ScopeOf \in [Callers -> Scopes]
    /\ IsFiniteSet(Scopes) /\ IsFiniteSet(Keys)

ASSUME BoundsAssumption ==
    MaxEntries \in Nat /\ MaxOps \in Nat /\ MaxTime \in Nat

ASSUME DataAssumption ==
    /\ \A t \in Ttls : t = NoTtl \/ t \in Nat
    /\ Incoming \subseteq [timestamp: Nat, seq: Nat, ttl: Ttls]
    /\ \A e \in LegacyJournal : e \in JournalEntry /\ e.synced /\ e.opId[2] = 0

ASSUME SentinelAssumption ==
    /\ NoFact \notin Fact
    /\ NoTombstone \notin Tombstone
    /\ NoBase \notin Base
    /\ NoOp \notin OpIds

\* scopedRecordId: the physical id of a caller's key.
ScopedRecordId(c, key) == <<ScopeOf[c], key>>

Present(id) == facts[id] # NoFact

\* Mutant of FactsInScope: the partition is not looked at.
FactsAnywhere(scope) == {id \in Ids : Present(id)}

\* factsInScope: exactly one partition, expired records included.
FactsInScope(scope) == {id \in Ids : id[1] = scope /\ Present(id)}

\* isExpired: a record without a TTL never expires.
IsExpired(fact) == fact.ttl # NoTtl /\ now > fact.timestamp + fact.ttl

\* readCounters on a store with no 'meta' row.
FreshCounters == [seq |-> 0, revision |-> 0, opSeq |-> 0]
-----------------------------------------------------------------------------
(* The write primitives.  A transaction that writes several records numbers
   them one after the other; `n` is a record's place in that order. *)

\* Mutant of Numberings: the loop drops the counters bumpOp returned.
NumberingsNotCarried(ids) == {[id \in ids |-> 1]}

\* The orders in which one transaction may visit the records `ids`.
Numberings(ids) == Bijection(ids, 1 .. Cardinality(ids))

Syncs(c) == c \in SyncCallers

\* Mutants of BumpOp: one of the two counters is not moved forward.
BumpRevisionOnly(n) == [counters EXCEPT !.revision = @ + n]
BumpOpSeqOnly(n) == [counters EXCEPT !.opSeq = @ + n]
BumpOpSeqDown(n) == [counters EXCEPT !.revision = @ + n, !.opSeq = @ - n]

\* bumpOp applied n times.
BumpOp(n) == [counters EXCEPT !.revision = @ + n, !.opSeq = @ + n]

OpId(c, n) == <<c, counters.opSeq + n>>

Within(n) == counters.opSeq + n <= MaxOps

\* The record a write stores: the caller's data under the store's own identity.
Stored(c, n, data) ==
    [timestamp |-> data.timestamp, seq |-> data.seq, revision |-> counters.revision + n,
     opId |-> OpId(c, n), ttl |-> data.ttl, pendingSync |-> Syncs(c)]

\* journal: rows are appended only when sync is enabled.
Journal(c, kind, num) ==
    IF Syncs(c)
    THEN journal \cup {[opId |-> OpId(c, num[id]), kind |-> kind, id |-> id,
                        revision |-> counters.revision + num[id], synced |-> FALSE] :
                          id \in DOMAIN num}
    ELSE journal

\* Mutant of ClearTombstones: a write leaves the marker in place.
KeepTombstones(ids) == tombstones

\* clearTombstone for every id written.
ClearTombstones(ids) ==
    [id \in Ids |-> IF id \in ids THEN NoTombstone ELSE tombstones[id]]

\* deleteWithTombstone for every record of `num`, in that order, and the
\* writeCounters that ends the transaction.
DeleteWithTombstone(c, num) ==
    /\ Within(Cardinality(DOMAIN num))
    /\ facts' = [id \in Ids |-> IF id \in DOMAIN num THEN NoFact ELSE facts[id]]
    /\ tombstones' =
          [id \in Ids |->
              IF id \in DOMAIN num /\ Syncs(c)
              THEN [deletedAt |-> now, revision |-> counters.revision + num[id],
                    opId |-> OpId(c, num[id]), pendingSync |-> TRUE]
              ELSE tombstones[id]]
    /\ journal' = Journal(c, "forget", num)
    /\ counters' = BumpOp(Cardinality(DOMAIN num))

\* put, clearTombstone and journal for every record of `num`, and writeCounters.
Put(c, num, data, seq) ==
    /\ Within(Cardinality(DOMAIN num))
    /\ facts' = [id \in Ids |-> IF id \in DOMAIN num THEN Stored(c, num[id], data[id]) ELSE facts[id]]
    /\ tombstones' = ClearTombstones(DOMAIN num)
    /\ journal' = Journal(c, "remember", num)
    /\ counters' = [BumpOp(Cardinality(DOMAIN num)) EXCEPT !.seq = seq]

\* One record, written by this store's clock and sequence.
PutFact(c, id, ttl) ==
    LET seq == counters.seq + 1
    IN  Put(c, [i \in {id} |-> 1],
            [i \in {id} |-> [timestamp |-> now, seq |-> seq, ttl |-> ttl]], seq)
-----------------------------------------------------------------------------
TypeOK ==
    /\ facts \in [Ids -> Fact \cup {NoFact}]
    /\ tombstones \in [Ids -> Tombstone \cup {NoTombstone}]
    /\ journal \subseteq JournalEntry
    /\ counters \in [seq: Nat, revision: Nat, opSeq: 0 .. MaxOps]
    /\ now \in 0 .. MaxTime
    /\ capPass \in [Callers -> {"idle", "count", "evict"}]
    /\ base \in [Callers -> Base \cup {NoBase}]
    /\ sending \subseteq OpIds
    /\ acked \subseteq OpIds

Init ==
    /\ facts = [id \in Ids |-> NoFact]
    /\ tombstones = [id \in Ids |-> NoTombstone]
    /\ journal = LegacyJournal
    /\ counters = FreshCounters
    /\ now = 0
    /\ capPass = [c \in Callers |-> "idle"]
    /\ base = [c \in Callers |-> NoBase]
    /\ sending = {}
    /\ acked = {}

Idle(c) == capPass[c] = "idle"

\* MemoryStore.remember: a blind write; the eviction pass is still to come.
Remember(c, key, ttl) ==
    /\ Idle(c)
    /\ PutFact(c, ScopedRecordId(c, key), ttl)
    /\ capPass' = [capPass EXCEPT ![c] = "count"]
    /\ UNCHANGED <<now, base, sending, acked>>

\* evictForCap's first transaction: a readonly count decides whether a second
\* one is opened at all.
CountForCap(c) ==
    /\ capPass[c] = "count"
    /\ capPass' = [capPass EXCEPT ![c] =
                      IF Cardinality(FactsInScope(ScopeOf[c])) <= MaxEntries THEN "idle" ELSE "evict"]
    /\ UNCHANGED <<stores, now, base, sending, acked>>

\* Mutant of CapVictims: pending records are candidates like any other.
CapVictimsAny(mine) ==
    {victims \in SUBSET mine : Cardinality(victims) = Cardinality(mine) - MaxEntries}

\* What evictForCap may remove from `mine`: as many records as are over the
\* cap, none of them pending, expired ones first.  Importance is not modelled,
\* so records equally expired may be taken in any order.
CapVictims(mine) ==
    LET evictable == {id \in mine : ~facts[id].pendingSync}
        excess    == Cardinality(mine) - MaxEntries
        wanted    == IF excess <= 0 THEN 0
                     ELSE IF excess < Cardinality(evictable) THEN excess
                     ELSE Cardinality(evictable)
    IN  {victims \in SUBSET evictable :
            /\ Cardinality(victims) = wanted
            /\ \A v \in victims, kept \in evictable \ victims :
                  IsExpired(facts[kept]) => IsExpired(facts[v])}

\* evictForCap's second transaction re-reads the scope and deletes without
\* tombstone, journal row or counter.
EvictForCap(c) ==
    /\ capPass[c] = "evict"
    /\ \E victims \in CapVictims(FactsInScope(ScopeOf[c])) :
          facts' = [id \in Ids |-> IF id \in victims THEN NoFact ELSE facts[id]]
    /\ capPass' = [capPass EXCEPT ![c] = "idle"]
    /\ UNCHANGED <<tombstones, journal, counters, now, base, sending, acked>>

\* The write whose record is stored under `id`.
StoredOp(id) == IF Present(id) THEN facts[id].opId ELSE NoOp

\* MemoryStore.recallVersioned: the read half of a compare-and-set.  An expired
\* record reads as absent.
RecallVersioned(c, key) ==
    LET id   == ScopedRecordId(c, key)
        live == Present(id) /\ ~IsExpired(facts[id])
    IN  /\ Idle(c)
        /\ base' = [base EXCEPT ![c] =
                       [id |-> id, revision |-> IF live THEN facts[id].revision ELSE 0,
                        opId |-> StoredOp(id)]]
        /\ UNCHANGED <<stores, now, capPass, sending, acked>>

\* The revision a compare-and-set finds; 0 stands for an absent record.
CurrentRevision(id) == IF Present(id) THEN facts[id].revision ELSE 0

\* expectedRevision matches the stored record.
CasHolds(c) == base[c].revision = CurrentRevision(base[c].id)

\* MemoryStore.rememberCas with what the caller read; it runs no eviction pass.
RememberCas(c, ttl) ==
    /\ Idle(c)
    /\ base[c] # NoBase
    /\ CasHolds(c)
    /\ PutFact(c, base[c].id, ttl)
    /\ base' = [base EXCEPT ![c] = NoBase]
    /\ UNCHANGED <<now, capPass, sending, acked>>

\* STORAGE_CONFLICT: nothing is written, and the caller has to read again.
CasConflict(c) ==
    /\ Idle(c)
    /\ base[c] # NoBase
    /\ ~CasHolds(c)
    /\ base' = [base EXCEPT ![c] = NoBase]
    /\ UNCHANGED <<stores, now, capPass, sending, acked>>

\* ScopedFactRepository.forget without a base revision; absent keys are a no-op.
Forget(c, key) ==
    LET id == ScopedRecordId(c, key)
    IN  /\ Idle(c)
        /\ Present(id)
        /\ DeleteWithTombstone(c, [i \in {id} |-> 1])
        /\ UNCHANGED <<now, capPass, base, sending, acked>>

\* ScopedFactRepository.forget with expectedRevision.
ForgetCas(c) ==
    /\ Idle(c)
    /\ base[c] # NoBase
    /\ base[c].revision # 0
    /\ CasHolds(c)
    /\ DeleteWithTombstone(c, [i \in {base[c].id} |-> 1])
    /\ base' = [base EXCEPT ![c] = NoBase]
    /\ UNCHANGED <<now, capPass, sending, acked>>

\* ScopedFactRepository.clear: every fact of the caller's own scope.
Clear(c) ==
    LET mine == FactsInScope(ScopeOf[c])
    IN  /\ Idle(c)
        /\ mine # {}
        /\ \E num \in Numberings(mine) : DeleteWithTombstone(c, num)
        /\ UNCHANGED <<now, capPass, base, sending, acked>>

\* purgeExpired: TTL expiry is a deletion like any other.
PurgeExpired(c) ==
    LET expired == {id \in FactsInScope(ScopeOf[c]) : IsExpired(facts[id])}
    IN  /\ Idle(c)
        /\ expired # {}
        /\ \E num \in Numberings(expired) : DeleteWithTombstone(c, num)
        /\ UNCHANGED <<now, capPass, base, sending, acked>>

\* The records of an import that importInto writes: 'merge' keeps the record
\* with the newer source timestamp.
ImportWrites(batch, strategy) ==
    {id \in DOMAIN batch :
        \/ strategy = "overwrite"
        \/ ~Present(id)
        \/ facts[id].timestamp < batch[id].timestamp}

\* Mutant of SeqCandidates: the incoming sequence is not taken into account.
SeqLocalOnly(batch, num) == {counters.seq + Cardinality(DOMAIN num)}

\* counters.seq := max(counters.seq + 1, incoming.seq), record after record:
\* the values that maximum can come from once all of `num` is written.
SeqCandidates(batch, num) ==
    LET n == Cardinality(DOMAIN num)
    IN  {counters.seq + n} \cup {batch[id].seq + (n - num[id]) : id \in DOMAIN num}

\* importInto.  The source's timestamp, sequence and TTL survive; revision and
\* opId are the store's own.  (A batch naming a key twice writes it twice, as
\* two batches would.)
Import(c, batch, strategy) ==
    LET writes == ImportWrites(batch, strategy)
    IN  /\ Idle(c)
        /\ writes # {}
        /\ \E num \in Numberings(writes) : \E top \in SeqCandidates(batch, num) :
              /\ \A s \in SeqCandidates(batch, num) : s <= top
              /\ Put(c, num, batch, top)
        /\ UNCHANGED <<now, capPass, base, sending, acked>>

\* pendingOps: the sync client (external) reads what is owed to its target.
PendingOps ==
    /\ sending' = {e.opId : e \in {r \in journal : ~r.synced}}
    /\ UNCHANGED <<stores, now, capPass, base, acked>>

\* Mutants of MarkSynced: rows, or pending marks, go by record instead of by
\* operation.
AckedIds(opIds) == {e.id : e \in {r \in journal : r.opId \in opIds}}
MarkSyncedRowsByRecord(opIds) ==
    /\ opIds # {}
    /\ journal' = {e \in journal : ~(e.synced \/ e.id \in AckedIds(opIds))}
    /\ sending' = {}
    /\ acked' = acked \cup opIds
    /\ UNCHANGED <<facts, tombstones, counters, now, capPass, base>>
MarkSyncedFactsByRecord(opIds) ==
    /\ opIds # {}
    /\ journal' = {e \in journal : ~(e.synced \/ e.opId \in opIds)}
    /\ facts' = [id \in Ids |->
                    IF Present(id) /\ id \in AckedIds(opIds)
                    THEN [facts[id] EXCEPT !.pendingSync = FALSE]
                    ELSE facts[id]]
    /\ sending' = {}
    /\ acked' = acked \cup opIds
    /\ UNCHANGED <<tombstones, counters, now, capPass, base>>

\* markSynced: the client acknowledges what it delivered, by then maybe stale.
MarkSynced(opIds) ==
    /\ opIds # {}
    /\ journal' = {e \in journal : ~(e.synced \/ e.opId \in opIds)}
    /\ facts' = [id \in Ids |->
                    IF Present(id) /\ facts[id].opId \in opIds
                    THEN [facts[id] EXCEPT !.pendingSync = FALSE]
                    ELSE facts[id]]
    /\ tombstones' = [id \in Ids |->
                         IF tombstones[id] # NoTombstone /\ tombstones[id].opId \in opIds
                         THEN [tombstones[id] EXCEPT !.pendingSync = FALSE]
                         ELSE tombstones[id]]
    /\ sending' = {}
    /\ acked' = acked \cup opIds
    /\ UNCHANGED <<counters, now, capPass, base>>

\* A caller dies: what it had in memory goes, what it committed stays.
Crash(c) ==
    /\ capPass[c] # "idle" \/ base[c] # NoBase
    /\ capPass' = [capPass EXCEPT ![c] = "idle"]
    /\ base' = [base EXCEPT ![c] = NoBase]
    /\ UNCHANGED <<stores, now, sending, acked>>

Tick ==
    /\ now < MaxTime
    /\ now' = now + 1
    /\ UNCHANGED <<stores, capPass, base, sending, acked>>

\* The batches an import into the scope of `c` may bring.
Batches(c) ==
    UNION {[{ScopedRecordId(c, key) : key \in ks} -> Incoming] : ks \in (SUBSET Keys) \ {{}}}

Next ==
    \/ \E c \in Callers, key \in Keys :
          \/ \E ttl \in Ttls : Remember(c, key, ttl)
          \/ RecallVersioned(c, key)
          \/ Forget(c, key)
    \/ \E c \in Callers :
          \/ CountForCap(c)
          \/ EvictForCap(c)
          \/ \E ttl \in Ttls : RememberCas(c, ttl)
          \/ CasConflict(c)
          \/ ForgetCas(c)
          \/ Clear(c)
          \/ PurgeExpired(c)
          \/ \E batch \in Batches(c), strategy \in {"merge", "overwrite"} :
                Import(c, batch, strategy)
          \/ Crash(c)
    \/ PendingOps
    \/ \E opIds \in SUBSET sending : MarkSynced(opIds)
    \/ Tick

Spec == Init /\ [][Next]_vars
-----------------------------------------------------------------------------
(* What a record's sync state is owed. *)

RowFor(e, opId, kind, id) == e.opId = opId /\ e.kind = kind /\ e.id = id /\ ~e.synced

\* A pending fact or tombstone is in the journal, under the very operation that
\* wrote it: an acknowledgement of an older write of the key (markSynced with
\* opIds read before the newer write) never leaves it pending but unowed.
PendingIsOwed ==
    \A id \in Ids :
        /\ Present(id) /\ facts[id].pendingSync =>
              \E e \in journal : RowFor(e, facts[id].opId, "remember", id)
        /\ tombstones[id] # NoTombstone /\ tombstones[id].pendingSync =>
              \E e \in journal : RowFor(e, tombstones[id].opId, "forget", id)

\* What a sync-enabled caller wrote is out of `pendingSync` only once the target
\* acknowledged that write, so cap eviction cannot reach it any earlier.
SettledIsAcked ==
    \A id \in Ids :
        Present(id) /\ ~facts[id].pendingSync /\ facts[id].opId[1] \in SyncCallers =>
            facts[id].opId \in acked

\* syncJournal.ts: the journal holds only operations still owed.
JournalIsOwed == \A e \in journal : e.synced \/ e.opId \notin acked

\* A key is stored or deleted, never both.
TombstoneMeansAbsent == \A id \in Ids : Present(id) => tombstones[id] = NoTombstone

\* Revisions and operation ids are never handed out twice: two records, or a
\* record and a deletion marker, never carry the same one.
VersionsAreUnique ==
    /\ \A i, j \in Ids :
          /\ i # j /\ Present(i) /\ Present(j) => facts[i].revision # facts[j].revision
          /\ Present(i) /\ tombstones[j] # NoTombstone =>
                facts[i].revision # tombstones[j].revision
    /\ \A d, e \in journal : d.opId = e.opId /\ ~d.synced /\ ~e.synced => d = e

\* A compare-and-set that finds the revision it expects finds the write its
\* caller read: no delete, eviction and rewrite in between can bring the
\* revision back (ABA).
RevisionNamesAWrite ==
    \A c \in Callers :
        base[c] # NoBase /\ base[c].revision # 0 /\ CasHolds(c) =>
            StoredOp(base[c].id) = base[c].opId

\* Of two records with the same clock reading the one written later
\* sorts first (records.ts newestFirst), also after an import of records
\* numbered by another store.
LaterWriteSortsFirst ==
    [][\A c \in Callers, id, other \in Ids, ttl \in Ttls :
          PutFact(c, id, ttl) /\ other # id /\ Present(other) /\ facts[other].timestamp = now =>
              facts'[id].seq > facts[other].seq]_vars

\* A fact leaves the store as a deletion the target will hear of, with a marker
\* newer than the fact, or because the target already has that very write:
\* eviction never drops knowledge that is still owed.
DisappearanceIsAccounted ==
    [][SyncCallers = Callers =>
          \A id \in Ids :
              facts[id] # NoFact /\ facts'[id] = NoFact =>
                  \/ /\ tombstones'[id] # NoTombstone
                     /\ tombstones'[id].revision > facts[id].revision
                     /\ \E e \in journal' : e.opId = tombstones'[id].opId /\ e.id = id
                  \/ facts[id].opId \in acked]_vars

Rewritten(id) == StoredOp(id) # StoredOp(id)'

\* One transaction writes and deletes in one ownership partition: eviction,
\* clear, purge and import never reach into another one (types.ts:38-44).
ScopesAreIsolated ==
    [][\A i, j \in Ids : Rewritten(i) /\ Rewritten(j) => i[1] = j[1]]_vars
-----------------------------------------------------------------------------
(* The inductive invariant: what the durable counters owe every number ever
   handed out. *)

\* No stored sequence number is ahead of the durable counter.
SeqIsCounted == \A id \in Ids : Present(id) => facts[id].seq <= counters.seq

Issued(opId) == 0 < opId[2] /\ opId[2] <= counters.opSeq

NumbersAreCounted ==
    /\ \A id \in Ids :
          /\ Present(id) =>
                /\ 0 < facts[id].revision /\ facts[id].revision <= counters.revision
                /\ Issued(facts[id].opId)
          /\ tombstones[id] # NoTombstone =>
                /\ 0 < tombstones[id].revision /\ tombstones[id].revision <= counters.revision
                /\ Issued(tombstones[id].opId)
    /\ \A e \in journal : ~e.synced => Issued(e.opId)
    /\ \A opId \in sending \cup acked : Issued(opId)
    /\ \A c \in Callers : base[c] # NoBase => base[c].revision <= counters.revision

IInv ==
    /\ TypeOK
    /\ NumbersAreCounted
    /\ SeqIsCounted
    /\ PendingIsOwed
    /\ SettledIsAcked
    /\ JournalIsOwed
    /\ TombstoneMeansAbsent
    /\ VersionsAreUnique
    /\ RevisionNamesAWrite

-----------------------------------------------------------------------------
(* What the repository's comments say, and the code does not do. *)

\* types.ts:120 and ScopedFactRepository.ts:246: a deletion is not undone by a
\* record the source wrote before it.
TombstonePreventsResurrection ==
    [][\A id \in Ids :
          tombstones[id] # NoTombstone /\ facts[id] = NoFact /\ facts'[id] # NoFact =>
              facts'[id].timestamp >= tombstones[id].deletedAt]_vars
=============================================================================
