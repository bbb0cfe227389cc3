----------------------- MODULE FactRepositoryProofs -----------------------
(***************************************************************************)
(* Theorems about FactRepository, for every set of callers, partitions and *)
(* keys and every value of the bounds.                                     *)
(*                                                                         *)
(* Both write primitives number the records of a transaction by an         *)
(* injection into 1..n and add n to the durable counters; the lemmas about *)
(* Put and DeleteWithTombstone carry the whole argument, and every         *)
(* operation is one of them or leaves the numbers alone.                   *)
(***************************************************************************)
EXTENDS FactRepository, FiniteSetTheorems, TLAPS

\* What the write primitives are given: an order on some of the record ids.
IsNumbering(num) ==
    /\ DOMAIN num \subseteq Ids
    /\ Cardinality(DOMAIN num) \in Nat
    /\ num \in [DOMAIN num -> 1 .. Cardinality(DOMAIN num)]
    /\ \A i, j \in DOMAIN num : num[i] = num[j] => i = j

\* A step that may make callers forget what they read, and nothing else.
ForgetsBases ==
    /\ base' \in [Callers -> Base \cup {NoBase}]
    /\ \A c \in Callers : base'[c] = base[c] \/ base'[c] = NoBase

\* A store has finitely many record ids, so a transaction visits finitely many.
LEMMA IdsFinite == ASSUME NEW ids \in SUBSET Ids PROVE IsFiniteSet(ids)
<1>1. IsFiniteSet(Ids)
  BY CallersAssumption, FS_Product DEF Ids
<1>2. QED
  BY <1>1, FS_Subset

\* Every order a transaction may take numbers its records from 1 to n.
LEMMA NumberingsNumber ==
    ASSUME NEW ids \in SUBSET Ids, NEW num \in Numberings(ids)
    PROVE  IsNumbering(num) /\ DOMAIN num = ids
<1>1. num \in [ids -> 1 .. Cardinality(ids)] /\ \A i, j \in ids : num[i] = num[j] => i = j
  BY DEF Numberings, Bijection, Injection, IsInjective
<1>2. Cardinality(ids) \in Nat
  BY IdsFinite, FS_CardinalityType
<1>3. QED
  BY <1>1, <1>2 DEF IsNumbering

\* A write of one record numbers it 1.
LEMMA OneNumbering ==
    ASSUME NEW id \in Ids
    PROVE  IsNumbering([i \in {id} |-> 1]) /\ DOMAIN [i \in {id} |-> 1] = {id}
<1>1. Cardinality({id}) = 1
  BY FS_Singleton
<1>2. QED
  BY <1>1 DEF IsNumbering

\* Every key of every caller has a record id.
LEMMA ScopedRecordIdType ==
    ASSUME NEW c \in Callers, NEW key \in Keys PROVE ScopedRecordId(c, key) \in Ids
BY CallersAssumption DEF ScopedRecordId, Ids
-----------------------------------------------------------------------------
\* Initially nothing is stored, and legacy rows are already marked synced.
LEMMA InitIInv == Init => IInv
<1> SUFFICES ASSUME Init PROVE IInv
  OBVIOUS
<1> USE DEF Init, FreshCounters
<1>1. TypeOK
  BY DataAssumption, BoundsAssumption DEF TypeOK
<1>2. NumbersAreCounted
  BY DataAssumption DEF NumbersAreCounted, Present
<1>3. JournalIsOwed /\ VersionsAreUnique
  BY DataAssumption DEF JournalIsOwed, VersionsAreUnique, Present
<1>4. SeqIsCounted /\ PendingIsOwed /\ SettledIsAcked /\ TombstoneMeansAbsent /\ RevisionNamesAWrite
  BY DEF SeqIsCounted, PendingIsOwed, SettledIsAcked, TombstoneMeansAbsent, RevisionNamesAWrite, Present
<1>5. QED
  BY <1>1, <1>2, <1>3, <1>4 DEF IInv

-----------------------------------------------------------------------------
(* One lemma per write primitive, then one per operation. *)

\* The store's own numbers after a write: what is new lies above the counters,
\* what is old at or below them.
LEMMA PutPreserves ==
    ASSUME IInv,
           NEW c \in Callers, NEW num, IsNumbering(num), NEW data, NEW seq \in Nat,
           \A id \in DOMAIN num :
              data[id].timestamp \in Nat /\ data[id].seq \in Nat /\ data[id].ttl \in Ttls
              /\ data[id].seq <= seq,
           counters.seq <= seq,
           Put(c, num, data, seq),
           UNCHANGED <<now, sending, acked>>,
           ForgetsBases, capPass' \in [Callers -> {"idle", "count", "evict"}]
    PROVE  IInv'
<1> DEFINE n == Cardinality(DOMAIN num)
           rev(id) == counters.revision + num[id]
           row(id) == [opId |-> OpId(c, num[id]), kind |-> "remember", id |-> id,
                       revision |-> rev(id), synced |-> FALSE]
<1>1. /\ n \in Nat
      /\ \A id \in DOMAIN num : id \in Ids /\ num[id] \in Nat /\ 0 < num[id] /\ num[id] <= n
      /\ \A i, j \in DOMAIN num : num[i] = num[j] => i = j
  BY DEF IsNumbering
<1>2. /\ counters.seq \in Nat /\ counters.revision \in Nat /\ counters.opSeq \in Nat
      /\ counters = [seq |-> counters.seq, revision |-> counters.revision, opSeq |-> counters.opSeq]
      /\ \A id \in Ids : Present(id) => facts[id] \in Fact
      /\ \A id \in Ids : tombstones[id] # NoTombstone => tombstones[id] \in Tombstone
      /\ journal \subseteq JournalEntry /\ sending \subseteq OpIds /\ acked \subseteq OpIds
  BY DEF IInv, TypeOK, Present
<1> HIDE DEF n
<1>3. /\ counters' = [seq |-> seq, revision |-> counters.revision + n, opSeq |-> counters.opSeq + n]
      /\ counters.opSeq + n <= MaxOps
  BY <1>1, <1>2 DEF Put, BumpOp, Within, n
<1>4. \A id \in DOMAIN num :
         /\ facts'[id] = Stored(c, num[id], data[id])
         /\ facts'[id] \in Fact
         /\ Present(id)'
         /\ facts'[id].revision = rev(id) /\ facts'[id].opId = <<c, counters.opSeq + num[id]>>
         /\ facts'[id].seq = data[id].seq
         /\ facts'[id].pendingSync <=> c \in SyncCallers
         /\ tombstones'[id] = NoTombstone
  <2>1. \A id \in DOMAIN num : Stored(c, num[id], data[id]) \in Fact
    BY <1>1, <1>2 DEF Stored, OpId, Fact, OpIds, Syncs
  <2>2. QED
    BY <1>1, <2>1, SentinelAssumption DEF Put, ClearTombstones, Stored, OpId, Syncs, Present
<1>5. \A id \in Ids \ DOMAIN num :
         facts'[id] = facts[id] /\ tombstones'[id] = tombstones[id] /\ (Present(id)' <=> Present(id))
  BY DEF Put, ClearTombstones, Present
<1>6. \A id \in DOMAIN num : row(id) \in JournalEntry
  BY <1>1, <1>2 DEF JournalEntry, OpIds, OpId
<1>7. /\ \A e \in journal' : e \in journal \/ \E id \in DOMAIN num : e = row(id)
      /\ journal \subseteq journal'
      /\ c \in SyncCallers => \A id \in DOMAIN num : row(id) \in journal'
  BY DEF Put, Journal, Syncs
<1>8. sending' = sending /\ acked' = acked
  OBVIOUS
<1>9. TypeOK'
  <2>1. facts' \in [Ids -> Fact \cup {NoFact}]
    BY <1>4, <1>5 DEF Put, IInv, TypeOK
  <2>2. tombstones' \in [Ids -> Tombstone \cup {NoTombstone}]
    BY DEF Put, ClearTombstones, IInv, TypeOK
  <2>3. journal' \subseteq JournalEntry
    BY <1>2, <1>6, <1>7
  <2>4. counters' \in [seq: Nat, revision: Nat, opSeq: 0 .. MaxOps]
    BY <1>1, <1>2, <1>3, BoundsAssumption
  <2>5. QED
    BY <2>1, <2>2, <2>3, <2>4 DEF TypeOK, ForgetsBases, IInv
<1>10. NumbersAreCounted'
  <2>1. \A opId \in OpIds : Issued(opId) => 0 < opId[2] /\ opId[2] <= counters'.opSeq
    BY <1>1, <1>2, <1>3 DEF Issued, OpIds
  <2>2. \A id \in DOMAIN num :
           /\ 0 < row(id).opId[2] /\ row(id).opId[2] <= counters'.opSeq
           /\ 0 < rev(id) /\ rev(id) <= counters'.revision
    BY <1>1, <1>2, <1>3 DEF OpId
  <2>3. ASSUME NEW id \in Ids
        PROVE  /\ Present(id)' =>
                     /\ 0 < facts'[id].revision /\ facts'[id].revision <= counters'.revision
                     /\ 0 < facts'[id].opId[2] /\ facts'[id].opId[2] <= counters'.opSeq
               /\ tombstones'[id] # NoTombstone =>
                     /\ 0 < tombstones'[id].revision /\ tombstones'[id].revision <= counters'.revision
                     /\ 0 < tombstones'[id].opId[2] /\ tombstones'[id].opId[2] <= counters'.opSeq
    <3>1. CASE id \in DOMAIN num
      BY <3>1, <1>4, <2>2 DEF OpId
    <3>2. CASE id \notin DOMAIN num
      <4>1. /\ Present(id) => /\ facts[id].revision \in Nat /\ facts[id].opId \in OpIds
                              /\ 0 < facts[id].revision /\ facts[id].revision <= counters.revision
                              /\ Issued(facts[id].opId)
            /\ tombstones[id] # NoTombstone =>
                  /\ tombstones[id].revision \in Nat /\ tombstones[id].opId \in OpIds
                  /\ 0 < tombstones[id].revision /\ tombstones[id].revision <= counters.revision
                  /\ Issued(tombstones[id].opId)
        BY <1>2 DEF IInv, NumbersAreCounted, Fact, Tombstone
      <4>2. QED
        BY <3>2, <4>1, <1>1, <1>2, <1>3, <1>5, <2>1
    <3>3. QED
      BY <3>1, <3>2
  <2>4. \A e \in journal' : ~e.synced => 0 < e.opId[2] /\ e.opId[2] <= counters'.opSeq
    <3>1. \A e \in journal : ~e.synced => Issued(e.opId) /\ e.opId \in OpIds
      BY <1>2 DEF IInv, NumbersAreCounted, JournalEntry
    <3>2. QED
      BY <1>7, <2>1, <2>2, <3>1
  <2>5. \A opId \in sending' \cup acked' : 0 < opId[2] /\ opId[2] <= counters'.opSeq
    BY <1>2, <1>8, <2>1 DEF IInv, NumbersAreCounted
  <2>6. \A d \in Callers : base'[d] # NoBase => base'[d].revision <= counters'.revision
    <3>1. \A d \in Callers : base[d] # NoBase => base[d].revision \in Nat /\ base[d].revision <= counters.revision
      BY DEF IInv, NumbersAreCounted, TypeOK, Base
    <3>2. QED
      BY <1>1, <1>2, <1>3, <3>1 DEF ForgetsBases
  <2>7. QED
    BY <2>3, <2>4, <2>5, <2>6 DEF NumbersAreCounted, Issued
<1>11. SeqIsCounted'
  <2>1. \A id \in Ids : Present(id) => facts[id].seq \in Nat /\ facts[id].seq <= counters.seq
    BY <1>2 DEF IInv, SeqIsCounted, Fact
  <2>2. \A id \in Ids : Present(id)' => facts'[id].seq <= seq
    BY <1>2, <1>4, <1>5, <2>1
  <2>3. QED
    BY <1>3, <2>2 DEF SeqIsCounted
<1>12. PendingIsOwed'
  <2>1. \A id \in DOMAIN num : facts'[id].pendingSync =>
           \E e \in journal' : RowFor(e, facts'[id].opId, "remember", id)
    BY <1>4, <1>7 DEF RowFor, OpId
  <2>2. QED
    BY <1>4, <1>5, <1>7, <2>1 DEF PendingIsOwed, IInv
<1>13. SettledIsAcked'
  BY <1>4, <1>5, <1>8 DEF SettledIsAcked, IInv
<1>14. JournalIsOwed'
  <2>1. \A id \in DOMAIN num : row(id).opId \notin acked
    BY <1>1, <1>2 DEF IInv, NumbersAreCounted, Issued, OpId
  <2>2. QED
    BY <1>7, <1>8, <2>1 DEF JournalIsOwed, IInv
<1>15. TombstoneMeansAbsent'
  BY <1>4, <1>5 DEF TombstoneMeansAbsent, IInv
<1>16. VersionsAreUnique'
  <2>1. /\ \A id \in Ids \ DOMAIN num :
              /\ Present(id)' => facts'[id].revision \in Nat /\ facts'[id].revision <= counters.revision
              /\ tombstones'[id] # NoTombstone =>
                    tombstones'[id].revision \in Nat /\ tombstones'[id].revision <= counters.revision
        /\ \A id \in DOMAIN num : facts'[id].revision \in Nat /\ facts'[id].revision > counters.revision
    BY <1>1, <1>2, <1>4, <1>5 DEF IInv, NumbersAreCounted, Fact, Tombstone
  <2>2. ASSUME NEW i \in Ids, NEW j \in Ids, i # j, Present(i)', Present(j)'
        PROVE  facts'[i].revision # facts'[j].revision
    <3>1. CASE i \in DOMAIN num /\ j \in DOMAIN num
      BY <2>2, <3>1, <1>1, <1>2, <1>4
    <3>2. CASE i \notin DOMAIN num /\ j \notin DOMAIN num
      BY <2>2, <3>2, <1>5 DEF IInv, VersionsAreUnique
    <3>3. CASE (i \in DOMAIN num) # (j \in DOMAIN num)
      BY <2>1, <2>2, <3>3, <1>2
    <3>4. QED
      BY <3>1, <3>2, <3>3
  <2>3. ASSUME NEW i \in Ids, NEW j \in Ids, Present(i)', tombstones'[j] # NoTombstone
        PROVE  facts'[i].revision # tombstones'[j].revision
    <3>1. j \notin DOMAIN num
      BY <2>3, <1>4
    <3>2. CASE i \in DOMAIN num
      BY <2>1, <2>3, <3>1, <3>2, <1>2
    <3>3. CASE i \notin DOMAIN num
      BY <2>3, <3>1, <3>3, <1>5 DEF IInv, VersionsAreUnique
    <3>4. QED
      BY <3>2, <3>3
  <2>4. ASSUME NEW d \in journal', NEW e \in journal', d.opId = e.opId, ~d.synced, ~e.synced
        PROVE  d = e
    <3>1. \A r \in journal : ~r.synced => r.opId[2] \in Nat /\ r.opId[2] <= counters.opSeq
      BY <1>2 DEF IInv, NumbersAreCounted, Issued, JournalEntry, OpIds
    <3>2. \A i \in DOMAIN num : row(i).opId[2] = counters.opSeq + num[i]
      BY DEF OpId
    <3>3. CASE d \in journal /\ e \in journal
      BY <2>4, <3>3 DEF IInv, VersionsAreUnique
    <3>4. ASSUME NEW i \in DOMAIN num, d = row(i) PROVE d = e
      BY <2>4, <3>1, <3>2, <3>4, <1>1, <1>2, <1>7
    <3>5. ASSUME NEW i \in DOMAIN num, e = row(i) PROVE d = e
      BY <2>4, <3>1, <3>2, <3>5, <1>1, <1>2, <1>7
    <3>6. QED
      BY <3>3, <3>4, <3>5, <1>7
  <2>5. QED
    BY <2>2, <2>3, <2>4 DEF VersionsAreUnique
<1>17. RevisionNamesAWrite'
  <2> SUFFICES ASSUME NEW d \in Callers, base'[d] # NoBase, base'[d].revision # 0, CasHolds(d)'
               PROVE  (StoredOp(base[d].id) = base[d].opId)'
    BY DEF RevisionNamesAWrite
  <2>1. base'[d] = base[d] /\ base[d] \in Base /\ base[d].id \in Ids
        /\ base[d].revision \in Nat /\ base[d].revision <= counters.revision
    BY DEF ForgetsBases, IInv, TypeOK, Base, NumbersAreCounted
  <2> DEFINE id == base[d].id
  <2>2. Present(id)' /\ facts'[id].revision = base[d].revision
    BY <2>1 DEF CasHolds, CurrentRevision, Present
  <2>3. id \notin DOMAIN num
    BY <1>1, <1>2, <1>4, <2>1, <2>2
  <2>4. CasHolds(d) /\ (StoredOp(base[d].id))' = StoredOp(id)
    BY <1>5, <2>1, <2>2, <2>3 DEF CasHolds, CurrentRevision, StoredOp, Present
  <2>5. QED
    BY <2>1, <2>4 DEF IInv, RevisionNamesAWrite
<1>18. QED
  BY <1>9, <1>10, <1>11, <1>12, <1>13, <1>14, <1>15, <1>16, <1>17 DEF IInv

\* The same for deletions.  A caller without sync leaves no marker, so what a
\* marker already there says of an id stays as it is.
LEMMA DeletePreserves ==
    ASSUME IInv,
           NEW c \in Callers, NEW num, IsNumbering(num),
           DeleteWithTombstone(c, num),
           UNCHANGED <<now, sending, acked>>,
           ForgetsBases, capPass' \in [Callers -> {"idle", "count", "evict"}]
    PROVE  IInv'
<1> DEFINE n == Cardinality(DOMAIN num)
           rev(id) == counters.revision + num[id]
           row(id) == [opId |-> OpId(c, num[id]), kind |-> "forget", id |-> id,
                       revision |-> rev(id), synced |-> FALSE]
           mark(id) == [deletedAt |-> now, revision |-> rev(id), opId |-> OpId(c, num[id]),
                        pendingSync |-> TRUE]
<1>1. /\ n \in Nat
      /\ \A id \in DOMAIN num : id \in Ids /\ num[id] \in Nat /\ 0 < num[id] /\ num[id] <= n
      /\ \A i, j \in DOMAIN num : num[i] = num[j] => i = j
  BY DEF IsNumbering
<1>2. /\ counters.seq \in Nat /\ counters.revision \in Nat /\ counters.opSeq \in Nat
      /\ counters = [seq |-> counters.seq, revision |-> counters.revision, opSeq |-> counters.opSeq]
      /\ \A id \in Ids : Present(id) => facts[id] \in Fact
      /\ \A id \in Ids : tombstones[id] # NoTombstone => tombstones[id] \in Tombstone
      /\ journal \subseteq JournalEntry /\ sending \subseteq OpIds /\ acked \subseteq OpIds
      /\ now \in Nat
  BY BoundsAssumption DEF IInv, TypeOK, Present
<1> HIDE DEF n
<1>3. /\ counters' = [seq |-> counters.seq, revision |-> counters.revision + n,
                       opSeq |-> counters.opSeq + n]
      /\ counters.opSeq + n <= MaxOps
  BY <1>1, <1>2 DEF DeleteWithTombstone, BumpOp, Within, n
<1>4. \A id \in Ids :
         /\ Present(id)' <=> Present(id) /\ id \notin DOMAIN num
         /\ Present(id)' => facts'[id] = facts[id]
  BY DEF DeleteWithTombstone, Present
<1>5. /\ \A id \in Ids : ~(id \in DOMAIN num /\ c \in SyncCallers) => tombstones'[id] = tombstones[id]
      /\ \A id \in DOMAIN num : c \in SyncCallers =>
            /\ tombstones'[id] = mark(id)
            /\ tombstones'[id].revision = rev(id) /\ tombstones'[id].opId = OpId(c, num[id])
  BY <1>1 DEF DeleteWithTombstone, Syncs
<1>6. /\ \A id \in DOMAIN num : row(id) \in JournalEntry
      /\ \A id \in DOMAIN num : mark(id) \in Tombstone
  <2>1. \A id \in DOMAIN num : OpId(c, num[id]) \in OpIds /\ rev(id) \in Nat
    BY <1>1, <1>2 DEF OpIds, OpId
  <2>2. QED
    BY <1>1, <1>2, <2>1 DEF JournalEntry, Tombstone
<1>7. /\ \A e \in journal' : e \in journal \/ \E id \in DOMAIN num : e = row(id)
      /\ journal \subseteq journal'
      /\ c \in SyncCallers => \A id \in DOMAIN num : row(id) \in journal'
  BY DEF DeleteWithTombstone, Journal, Syncs
<1>8. sending' = sending /\ acked' = acked
  OBVIOUS
<1>9. TypeOK'
  <2>1. facts' \in [Ids -> Fact \cup {NoFact}]
    BY DEF DeleteWithTombstone, IInv, TypeOK
  <2>2. tombstones' \in [Ids -> Tombstone \cup {NoTombstone}]
    BY <1>5, <1>6 DEF DeleteWithTombstone, IInv, TypeOK
  <2>3. journal' \subseteq JournalEntry
    BY <1>2, <1>6, <1>7
  <2>4. counters' \in [seq: Nat, revision: Nat, opSeq: 0 .. MaxOps]
    BY <1>1, <1>2, <1>3, BoundsAssumption
  <2>5. QED
    BY <2>1, <2>2, <2>3, <2>4 DEF TypeOK, ForgetsBases, IInv
<1>10. NumbersAreCounted'
  <2>1. \A opId \in OpIds : Issued(opId) => 0 < opId[2] /\ opId[2] <= counters'.opSeq
    BY <1>1, <1>2, <1>3 DEF Issued, OpIds
  <2>2. \A id \in DOMAIN num :
           /\ 0 < row(id).opId[2] /\ row(id).opId[2] <= counters'.opSeq
           /\ 0 < rev(id) /\ rev(id) <= counters'.revision
    BY <1>1, <1>2, <1>3 DEF OpId
  <2>3. ASSUME NEW id \in Ids, Present(id)'
        PROVE  /\ 0 < facts'[id].revision /\ facts'[id].revision <= counters'.revision
               /\ 0 < facts'[id].opId[2] /\ facts'[id].opId[2] <= counters'.opSeq
    <3>1. /\ facts[id].revision \in Nat /\ facts[id].opId \in OpIds
          /\ 0 < facts[id].revision /\ facts[id].revision <= counters.revision
          /\ Issued(facts[id].opId)
      BY <1>2, <1>4, <2>3 DEF IInv, NumbersAreCounted, Fact
    <3>2. QED
      BY <1>1, <1>2, <1>3, <1>4, <2>1, <2>3, <3>1
  <2>4. ASSUME NEW id \in Ids, tombstones'[id] # NoTombstone
        PROVE  /\ 0 < tombstones'[id].revision /\ tombstones'[id].revision <= counters'.revision
               /\ 0 < tombstones'[id].opId[2] /\ tombstones'[id].opId[2] <= counters'.opSeq
    <3>1. CASE id \in DOMAIN num /\ c \in SyncCallers
      BY <3>1, <1>5, <2>2
    <3>2. CASE ~(id \in DOMAIN num /\ c \in SyncCallers)
      <4>1. /\ tombstones'[id] = tombstones[id]
            /\ tombstones[id].revision \in Nat /\ tombstones[id].opId \in OpIds
            /\ 0 < tombstones[id].revision /\ tombstones[id].revision <= counters.revision
            /\ Issued(tombstones[id].opId)
        BY <1>2, <1>5, <2>4, <3>2 DEF IInv, NumbersAreCounted, Tombstone
      <4>2. QED
        BY <1>1, <1>2, <1>3, <2>1, <4>1
    <3>3. QED
      BY <3>1, <3>2
  <2>5. \A e \in journal' : ~e.synced => 0 < e.opId[2] /\ e.opId[2] <= counters'.opSeq
    <3>1. \A e \in journal : ~e.synced => Issued(e.opId) /\ e.opId \in OpIds
      BY <1>2 DEF IInv, NumbersAreCounted, JournalEntry
    <3>2. QED
      BY <1>7, <2>1, <2>2, <3>1
  <2>6. \A opId \in sending' \cup acked' : 0 < opId[2] /\ opId[2] <= counters'.opSeq
    BY <1>2, <1>8, <2>1 DEF IInv, NumbersAreCounted
  <2>7. \A d \in Callers : base'[d] # NoBase => base'[d].revision <= counters'.revision
    <3>1. \A d \in Callers : base[d] # NoBase => base[d].revision \in Nat /\ base[d].revision <= counters.revision
      BY DEF IInv, NumbersAreCounted, TypeOK, Base
    <3>2. QED
      BY <1>1, <1>2, <1>3, <3>1 DEF ForgetsBases
  <2>8. QED
    BY <2>3, <2>4, <2>5, <2>6, <2>7 DEF NumbersAreCounted, Issued
<1>11. SeqIsCounted'
  BY <1>2, <1>3, <1>4 DEF SeqIsCounted, IInv
<1>12. PendingIsOwed'
  <2>1. \A id \in Ids : Present(id)' /\ facts'[id].pendingSync =>
           \E e \in journal' : RowFor(e, facts'[id].opId, "remember", id)
    BY <1>4, <1>7 DEF PendingIsOwed, IInv
  <2>2. ASSUME NEW id \in Ids, tombstones'[id] # NoTombstone, tombstones'[id].pendingSync
        PROVE  \E e \in journal' : RowFor(e, tombstones'[id].opId, "forget", id)
    <3>1. CASE id \in DOMAIN num /\ c \in SyncCallers
      BY <3>1, <1>5, <1>7 DEF RowFor
    <3>2. CASE ~(id \in DOMAIN num /\ c \in SyncCallers)
      BY <3>2, <1>5, <1>7, <2>2 DEF PendingIsOwed, IInv
    <3>3. QED
      BY <3>1, <3>2
  <2>3. QED
    BY <2>1, <2>2 DEF PendingIsOwed
<1>13. SettledIsAcked'
  BY <1>4, <1>8 DEF SettledIsAcked, IInv
<1>14. JournalIsOwed'
  <2>1. \A id \in DOMAIN num : row(id).opId \notin acked
    BY <1>1, <1>2 DEF IInv, NumbersAreCounted, Issued, OpId
  <2>2. QED
    BY <1>7, <1>8, <2>1 DEF JournalIsOwed, IInv
<1>15. TombstoneMeansAbsent'
  BY <1>4, <1>5 DEF TombstoneMeansAbsent, IInv
<1>16. VersionsAreUnique'
  <2>1. \A i, j \in Ids : i # j /\ Present(i)' /\ Present(j)' => facts'[i].revision # facts'[j].revision
    BY <1>4 DEF IInv, VersionsAreUnique
  <2>2. ASSUME NEW i \in Ids, NEW j \in Ids, Present(i)', tombstones'[j] # NoTombstone
        PROVE  facts'[i].revision # tombstones'[j].revision
    <3>1. /\ Present(i) /\ facts'[i] = facts[i]
          /\ facts[i].revision \in Nat /\ facts[i].revision <= counters.revision
      BY <1>2, <1>4, <2>2 DEF IInv, NumbersAreCounted, Fact
    <3>2. CASE j \in DOMAIN num /\ c \in SyncCallers
      <4>1. tombstones'[j].revision = counters.revision + num[j] /\ num[j] \in Nat /\ 0 < num[j]
        BY <1>1, <1>5, <3>2
      <4>2. QED
        BY <1>2, <3>1, <4>1
    <3>3. CASE ~(j \in DOMAIN num /\ c \in SyncCallers)
      BY <1>5, <2>2, <3>1, <3>3 DEF IInv, VersionsAreUnique
    <3>4. QED
      BY <3>2, <3>3
  <2>3. ASSUME NEW d \in journal', NEW e \in journal', d.opId = e.opId, ~d.synced, ~e.synced
        PROVE  d = e
    <3>1. \A r \in journal : ~r.synced => r.opId[2] \in Nat /\ r.opId[2] <= counters.opSeq
      BY <1>2 DEF IInv, NumbersAreCounted, Issued, JournalEntry, OpIds
    <3>2. \A i \in DOMAIN num : row(i).opId[2] = counters.opSeq + num[i]
      BY DEF OpId
    <3>3. CASE d \in journal /\ e \in journal
      BY <2>3, <3>3 DEF IInv, VersionsAreUnique
    <3>4. ASSUME NEW i \in DOMAIN num, d = row(i) PROVE d = e
      BY <2>3, <3>1, <3>2, <3>4, <1>1, <1>2, <1>7
    <3>5. ASSUME NEW i \in DOMAIN num, e = row(i) PROVE d = e
      BY <2>3, <3>1, <3>2, <3>5, <1>1, <1>2, <1>7
    <3>6. QED
      BY <3>3, <3>4, <3>5, <1>7
  <2>4. QED
    BY <2>1, <2>2, <2>3 DEF VersionsAreUnique
<1>17. RevisionNamesAWrite'
  <2> SUFFICES ASSUME NEW d \in Callers, base'[d] # NoBase, base'[d].revision # 0, CasHolds(d)'
               PROVE  (StoredOp(base[d].id) = base[d].opId)'
    BY DEF RevisionNamesAWrite
  <2>1. base'[d] = base[d] /\ base[d] \in Base /\ base[d].id \in Ids
    BY DEF ForgetsBases, IInv, TypeOK, Base
  <2> DEFINE id == base[d].id
  <2>2. Present(id)' /\ facts'[id].revision = base[d].revision
    BY <2>1 DEF CasHolds, CurrentRevision, Present
  <2>3. CasHolds(d) /\ (StoredOp(base[d].id))' = StoredOp(id)
    BY <1>4, <2>1, <2>2 DEF CasHolds, CurrentRevision, StoredOp, Present
  <2>4. QED
    BY <2>1, <2>3 DEF IInv, RevisionNamesAWrite
<1>18. QED
  BY <1>9, <1>10, <1>11, <1>12, <1>13, <1>14, <1>15, <1>16, <1>17 DEF IInv

-----------------------------------------------------------------------------
\* A step that leaves the store's numbers alone keeps the invariant when it
\* only takes facts away (cap eviction).
LEMMA EvictPreserves ==
    ASSUME IInv, NEW c \in Callers, EvictForCap(c) PROVE IInv'
<1>1. PICK victims \in CapVictims(FactsInScope(ScopeOf[c])) :
         facts' = [id \in Ids |-> IF id \in victims THEN NoFact ELSE facts[id]]
  BY DEF EvictForCap
<1>2. \A id \in Ids : Present(id)' => Present(id) /\ facts'[id] = facts[id]
  BY <1>1 DEF Present
<1>3. /\ tombstones' = tombstones /\ journal' = journal /\ counters' = counters /\ now' = now
      /\ base' = base /\ sending' = sending /\ acked' = acked
      /\ capPass' = [capPass EXCEPT ![c] = "idle"]
  BY DEF EvictForCap
<1>4. TypeOK'
  BY <1>1, <1>3 DEF IInv, TypeOK
<1>5. NumbersAreCounted'
  BY <1>2, <1>3 DEF IInv, NumbersAreCounted, Issued
<1>6. SeqIsCounted' /\ PendingIsOwed' /\ SettledIsAcked' /\ JournalIsOwed' /\ TombstoneMeansAbsent'
  BY <1>2, <1>3
     DEF IInv, SeqIsCounted, PendingIsOwed, RowFor, SettledIsAcked, JournalIsOwed, TombstoneMeansAbsent
<1>7. VersionsAreUnique'
  BY <1>2, <1>3 DEF IInv, VersionsAreUnique
<1>8. RevisionNamesAWrite'
  <2> SUFFICES ASSUME NEW d \in Callers, base[d] # NoBase, base[d].revision # 0, CasHolds(d)'
               PROVE  (StoredOp(base[d].id) = base[d].opId)'
    BY <1>3 DEF RevisionNamesAWrite
  <2>1. base[d].id \in Ids
    BY DEF IInv, TypeOK, Base
  <2>2. CasHolds(d) /\ (StoredOp(base[d].id))' = StoredOp(base[d].id)
    BY <1>2, <1>3, <2>1 DEF CasHolds, CurrentRevision, StoredOp, Present
  <2>3. QED
    BY <1>3, <2>2 DEF IInv, RevisionNamesAWrite
<1>9. QED
  BY <1>4, <1>5, <1>6, <1>7, <1>8 DEF IInv

\* A read for a compare-and-set notes the revision of the write it saw.
LEMMA ReadPreserves ==
    ASSUME IInv, NEW c \in Callers, NEW key \in Keys, RecallVersioned(c, key) PROVE IInv'
<1> DEFINE id == ScopedRecordId(c, key)
           live == Present(id) /\ ~IsExpired(facts[id])
           read == [id |-> id, revision |-> IF live THEN facts[id].revision ELSE 0,
                    opId |-> StoredOp(id)]
<1>1. id \in Ids
  BY ScopedRecordIdType
<1>2. /\ base' = [base EXCEPT ![c] = read]
      /\ UNCHANGED <<facts, tombstones, journal, counters, now, capPass, sending, acked>>
  BY DEF RecallVersioned, stores
<1>3. /\ read \in Base /\ read.revision \in Nat /\ read.revision <= counters.revision
      /\ read.id = id /\ read.opId = StoredOp(id)
  <2>1. Present(id) => /\ facts[id].revision \in Nat /\ facts[id].opId \in OpIds
                       /\ facts[id].revision <= counters.revision
    BY <1>1 DEF IInv, TypeOK, NumbersAreCounted, Present, Fact
  <2>2. counters.revision \in Nat
    BY DEF IInv, TypeOK
  <2>3. QED
    BY <1>1, <2>1, <2>2 DEF Base, StoredOp
<1> HIDE DEF read
<1>4. TypeOK'
  BY <1>2, <1>3 DEF IInv, TypeOK
<1>5. NumbersAreCounted'
  <2>1. \A d \in Callers : base'[d] # NoBase => base'[d].revision <= counters.revision
    BY <1>2, <1>3 DEF IInv, NumbersAreCounted, TypeOK
  <2>2. QED
    BY <1>2, <2>1 DEF IInv, NumbersAreCounted, Issued, Present
<1>6. SeqIsCounted' /\ PendingIsOwed' /\ SettledIsAcked' /\ JournalIsOwed' /\ TombstoneMeansAbsent'
      /\ VersionsAreUnique'
  BY <1>2
     DEF IInv, SeqIsCounted, PendingIsOwed, RowFor, SettledIsAcked, JournalIsOwed, TombstoneMeansAbsent,
         VersionsAreUnique, Present
<1>7. RevisionNamesAWrite'
  <2> SUFFICES ASSUME NEW d \in Callers, base'[d] # NoBase, base'[d].revision # 0, CasHolds(d)'
               PROVE  (StoredOp(base[d].id) = base[d].opId)'
    BY DEF RevisionNamesAWrite
  <2>1. CASE d = c
    BY <1>2, <1>3, <2>1 DEF StoredOp, Present, IInv, TypeOK
  <2>2. CASE d # c
    BY <1>2, <2>2 DEF IInv, TypeOK, RevisionNamesAWrite, CasHolds, CurrentRevision, StoredOp, Present
  <2>3. QED
    BY <2>1, <2>2
<1>8. QED
  BY <1>4, <1>5, <1>6, <1>7 DEF IInv

\* pendingOps reads only rows still owed, so only operations already issued.
LEMMA PendingOpsPreserves == ASSUME IInv, PendingOps PROVE IInv'
<1>1. /\ sending' = {e.opId : e \in {r \in journal : ~r.synced}}
      /\ UNCHANGED <<facts, tombstones, journal, counters, now, capPass, base, acked>>
  BY DEF PendingOps, stores
<1>2. sending' \subseteq OpIds /\ \A opId \in sending' : Issued(opId)
  BY <1>1 DEF IInv, TypeOK, NumbersAreCounted, JournalEntry
<1>3. TypeOK'
  BY <1>1, <1>2 DEF IInv, TypeOK
<1>4. NumbersAreCounted'
  BY <1>1, <1>2 DEF IInv, NumbersAreCounted, Issued, Present
<1>5. SeqIsCounted' /\ PendingIsOwed' /\ SettledIsAcked' /\ JournalIsOwed' /\ TombstoneMeansAbsent'
      /\ VersionsAreUnique' /\ RevisionNamesAWrite'
  BY <1>1
     DEF IInv, SeqIsCounted, PendingIsOwed, RowFor, SettledIsAcked, JournalIsOwed, TombstoneMeansAbsent,
         VersionsAreUnique, Present, RevisionNamesAWrite, CasHolds, CurrentRevision, StoredOp
<1>6. QED
  BY <1>3, <1>4, <1>5 DEF IInv
-----------------------------------------------------------------------------
\* An acknowledgement settles exactly the operations it names: a record or a
\* marker written since keeps its own row, so it stays owed.
LEMMA MarkSyncedPreserves ==
    ASSUME IInv, NEW opIds \in SUBSET sending, MarkSynced(opIds) PROVE IInv'
<1>1. /\ tombstones' = [id \in Ids |->
             IF tombstones[id] # NoTombstone /\ tombstones[id].opId \in opIds
             THEN [tombstones[id] EXCEPT !.pendingSync = FALSE]
             ELSE tombstones[id]]
      /\ facts' = [id \in Ids |->
             IF Present(id) /\ facts[id].opId \in opIds
             THEN [facts[id] EXCEPT !.pendingSync = FALSE]
             ELSE facts[id]]
      /\ journal' = {e \in journal : ~(e.synced \/ e.opId \in opIds)}
      /\ sending' = {} /\ acked' = acked \cup opIds
      /\ counters' = counters /\ now' = now /\ capPass' = capPass /\ base' = base
  BY DEF MarkSynced
<1>2. /\ \A id \in Ids : Present(id) => facts[id] \in Fact
      /\ \A id \in Ids : tombstones[id] # NoTombstone => tombstones[id] \in Tombstone
      /\ journal \subseteq JournalEntry /\ sending \subseteq OpIds /\ acked \subseteq OpIds
  BY DEF IInv, TypeOK, Present
<1>3. \A id \in Ids :
         /\ Present(id)' <=> Present(id)
         /\ Present(id) =>
               /\ facts'[id] \in Fact
               /\ facts'[id].revision = facts[id].revision
               /\ facts'[id].seq = facts[id].seq
               /\ facts'[id].opId = facts[id].opId
               /\ facts'[id].pendingSync <=> facts[id].pendingSync /\ facts[id].opId \notin opIds
  BY <1>1, <1>2, SentinelAssumption DEF Present, Fact
<1>4. \A id \in Ids :
         /\ tombstones'[id] # NoTombstone <=> tombstones[id] # NoTombstone
         /\ tombstones[id] # NoTombstone =>
               /\ tombstones'[id] \in Tombstone
               /\ tombstones'[id].revision = tombstones[id].revision
               /\ tombstones'[id].opId = tombstones[id].opId
               /\ tombstones'[id].pendingSync <=>
                     tombstones[id].pendingSync /\ tombstones[id].opId \notin opIds
  BY <1>1, <1>2, SentinelAssumption DEF Tombstone
<1>5. TypeOK'
  <2>1. facts' \in [Ids -> Fact \cup {NoFact}]
    BY <1>1, <1>3 DEF Present
  <2>2. tombstones' \in [Ids -> Tombstone \cup {NoTombstone}]
    BY <1>1, <1>4
  <2>3. QED
    BY <1>1, <1>2, <2>1, <2>2 DEF IInv, TypeOK
<1>6. NumbersAreCounted'
  BY <1>1, <1>3, <1>4 DEF IInv, NumbersAreCounted, Issued
<1>7. SeqIsCounted' /\ TombstoneMeansAbsent' /\ VersionsAreUnique'
  <2>1. SeqIsCounted' /\ TombstoneMeansAbsent'
    BY <1>1, <1>3, <1>4 DEF IInv, SeqIsCounted, TombstoneMeansAbsent
  <2>2. ASSUME NEW i \in Ids, NEW j \in Ids
        PROVE  /\ i # j /\ Present(i)' /\ Present(j)' => facts'[i].revision # facts'[j].revision
               /\ Present(i)' /\ tombstones'[j] # NoTombstone =>
                     facts'[i].revision # tombstones'[j].revision
    BY <1>3, <1>4 DEF IInv, VersionsAreUnique
  <2>3. \A d, e \in journal' : d.opId = e.opId /\ ~d.synced /\ ~e.synced => d = e
    BY <1>1 DEF IInv, VersionsAreUnique
  <2>4. QED
    BY <2>1, <2>2, <2>3 DEF VersionsAreUnique
<1>8. PendingIsOwed'
  <2>1. ASSUME NEW id \in Ids, Present(id)', facts'[id].pendingSync
        PROVE  \E e \in journal' : RowFor(e, facts'[id].opId, "remember", id)
    BY <1>1, <1>3, <2>1 DEF IInv, PendingIsOwed, RowFor
  <2>2. ASSUME NEW id \in Ids, tombstones'[id] # NoTombstone, tombstones'[id].pendingSync
        PROVE  \E e \in journal' : RowFor(e, tombstones'[id].opId, "forget", id)
    BY <1>1, <1>4, <2>2 DEF IInv, PendingIsOwed, RowFor
  <2>3. QED
    BY <2>1, <2>2 DEF PendingIsOwed
<1>9. SettledIsAcked'
  <2>1. ASSUME NEW id \in Ids, Present(id)', ~facts'[id].pendingSync, facts'[id].opId[1] \in SyncCallers
        PROVE  facts'[id].opId \in acked'
    <3>1. Present(id) /\ facts'[id].opId = facts[id].opId
          /\ (~facts[id].pendingSync \/ facts[id].opId \in opIds)
      BY <1>3, <2>1
    <3>2. QED
      BY <1>1, <2>1, <3>1 DEF IInv, SettledIsAcked
  <2>2. QED
    BY <2>1 DEF SettledIsAcked
<1>10. JournalIsOwed'
  BY <1>1 DEF IInv, JournalIsOwed
<1>11. RevisionNamesAWrite'
  <2>1. \A d \in Callers : base[d] # NoBase => base[d].id \in Ids
    BY DEF IInv, TypeOK, Base
  <2>2. ASSUME NEW d \in Callers, base'[d] # NoBase, base'[d].revision # 0, CasHolds(d)'
        PROVE  (StoredOp(base[d].id) = base[d].opId)'
    <3>1. base' = base /\ base[d].id \in Ids
      BY <1>1, <2>1, <2>2
    <3>2. CasHolds(d)
      BY <1>3, <2>2, <3>1 DEF CasHolds, CurrentRevision
    <3>3. (StoredOp(base[d].id))' = StoredOp(base[d].id)
      BY <1>3, <3>1 DEF StoredOp
    <3>4. QED
      BY <2>2, <3>1, <3>2, <3>3 DEF IInv, RevisionNamesAWrite
  <2>3. QED
    BY <2>2 DEF RevisionNamesAWrite
<1>12. QED
  BY <1>5, <1>6, <1>7, <1>8, <1>9, <1>10, <1>11 DEF IInv

\* A step that writes nothing: the clock, a crash, a conflict, a count.
LEMMA QuietPreserves ==
    ASSUME IInv, UNCHANGED <<facts, tombstones, journal, counters, sending, acked>>,
           now' \in 0 .. MaxTime, ForgetsBases,
           capPass' \in [Callers -> {"idle", "count", "evict"}]
    PROVE  IInv'
<1>1. TypeOK'
  BY DEF IInv, TypeOK, ForgetsBases
<1>2. NumbersAreCounted'
  BY DEF IInv, NumbersAreCounted, Issued, Present, ForgetsBases
<1>3. SeqIsCounted' /\ PendingIsOwed' /\ SettledIsAcked' /\ JournalIsOwed' /\ TombstoneMeansAbsent'
      /\ VersionsAreUnique'
  BY DEF IInv, SeqIsCounted, PendingIsOwed, RowFor, SettledIsAcked, JournalIsOwed,
         TombstoneMeansAbsent, VersionsAreUnique, Present
<1>4. RevisionNamesAWrite'
  BY DEF IInv, RevisionNamesAWrite, CasHolds, CurrentRevision, StoredOp, Present, ForgetsBases
<1>5. QED
  BY <1>1, <1>2, <1>3, <1>4 DEF IInv
-----------------------------------------------------------------------------
(* The operations. *)

\* One record written under the store's own clock and sequence.
LEMMA PutFactPreserves ==
    ASSUME IInv, NEW c \in Callers, NEW id \in Ids, NEW ttl \in Ttls, PutFact(c, id, ttl),
           UNCHANGED <<now, sending, acked>>, ForgetsBases,
           capPass' \in [Callers -> {"idle", "count", "evict"}]
    PROVE  IInv'
<1> DEFINE num  == [i \in {id} |-> 1]
           seq  == counters.seq + 1
           data == [i \in {id} |-> [timestamp |-> now, seq |-> seq, ttl |-> ttl]]
<1>1. counters.seq \in Nat /\ now \in Nat
  BY BoundsAssumption DEF IInv, TypeOK
<1>2. /\ seq \in Nat /\ counters.seq <= seq
      /\ \A i \in DOMAIN num :
            data[i].timestamp \in Nat /\ data[i].seq \in Nat /\ data[i].ttl \in Ttls /\ data[i].seq <= seq
  BY <1>1
<1>3. IsNumbering(num)
  BY OneNumbering
<1>4. Put(c, num, data, seq)
  BY DEF PutFact
<1> HIDE DEF num, seq, data
<1>5. QED
  BY <1>2, <1>3, <1>4, PutPreserves

\* One record deleted.
LEMMA DeleteOnePreserves ==
    ASSUME IInv, NEW c \in Callers, NEW id \in Ids, DeleteWithTombstone(c, [i \in {id} |-> 1]),
           UNCHANGED <<now, sending, acked>>, ForgetsBases,
           capPass' \in [Callers -> {"idle", "count", "evict"}]
    PROVE  IInv'
<1> DEFINE num == [i \in {id} |-> 1]
<1>1. IsNumbering(num) /\ DeleteWithTombstone(c, num)
  BY OneNumbering
<1> HIDE DEF num
<1>2. QED
  BY <1>1, DeletePreserves

\* What an import brings is typed, and named by record ids.
LEMMA BatchType ==
    ASSUME NEW c \in Callers, NEW batch \in Batches(c)
    PROVE  /\ DOMAIN batch \subseteq Ids
           /\ \A id \in DOMAIN batch : batch[id] \in [timestamp: Nat, seq: Nat, ttl: Ttls]
<1>1. PICK ks \in (SUBSET Keys) \ {{}} : batch \in [{ScopedRecordId(c, key) : key \in ks} -> Incoming]
  BY DEF Batches
<1>2. /\ DOMAIN batch = {ScopedRecordId(c, key) : key \in ks}
      /\ \A id \in DOMAIN batch : batch[id] \in Incoming
  BY <1>1
<1>3. {ScopedRecordId(c, key) : key \in ks} \subseteq Ids
  BY ScopedRecordIdType
<1>4. QED
  BY <1>2, <1>3, DataAssumption

\* The sequence an import ends with is no smaller than any it stored.
LEMMA ImportPreserves ==
    ASSUME IInv, NEW c \in Callers, NEW batch \in Batches(c),
           NEW strategy \in {"merge", "overwrite"}, Import(c, batch, strategy)
    PROVE  IInv'
<1> DEFINE writes == ImportWrites(batch, strategy)
<1>0. PICK num \in Numberings(writes) :
         \E max \in SeqCandidates(batch, num) :
            (\A s \in SeqCandidates(batch, num) : s <= max) /\ Put(c, num, batch, max)
  BY DEF Import
<1>1. PICK top \in SeqCandidates(batch, num) :
         (\A s \in SeqCandidates(batch, num) : s <= top) /\ Put(c, num, batch, top)
  BY <1>0
<1>2. /\ DOMAIN batch \subseteq Ids
      /\ \A id \in DOMAIN batch : batch[id] \in [timestamp: Nat, seq: Nat, ttl: Ttls]
  BY BatchType
<1>3. writes \subseteq DOMAIN batch /\ writes \in SUBSET Ids
  BY <1>2 DEF ImportWrites
<1>4. IsNumbering(num) /\ DOMAIN num = writes
  BY <1>3, NumberingsNumber
<1> DEFINE n == Cardinality(DOMAIN num)
<1>5. n \in Nat /\ \A id \in DOMAIN num : num[id] \in 1 .. n
  BY <1>4 DEF IsNumbering
<1>6. counters.seq + n \in SeqCandidates(batch, num)
      /\ \A id \in DOMAIN num : batch[id].seq + (n - num[id]) \in SeqCandidates(batch, num)
  BY DEF SeqCandidates
<1>7. top = counters.seq + n \/ \E id \in DOMAIN num : top = batch[id].seq + (n - num[id])
  BY <1>1 DEF SeqCandidates
<1>8. counters.seq \in Nat /\ \A id \in DOMAIN num : batch[id].seq \in Nat
  BY <1>2, <1>3, <1>4 DEF IInv, TypeOK
<1> HIDE DEF n
<1>9. top \in Nat
  BY <1>5, <1>7, <1>8
<1>10. counters.seq <= top
  BY <1>1, <1>5, <1>6, <1>8, <1>9
<1>11. \A id \in DOMAIN num : batch[id].seq <= top
  BY <1>1, <1>5, <1>6, <1>8, <1>9
<1>12. \A id \in DOMAIN num :
          batch[id].timestamp \in Nat /\ batch[id].seq \in Nat /\ batch[id].ttl \in Ttls
          /\ batch[id].seq <= top
  BY <1>2, <1>3, <1>4, <1>11
<1>13. /\ UNCHANGED <<now, sending, acked>> /\ ForgetsBases
       /\ capPass' \in [Callers -> {"idle", "count", "evict"}]
  BY DEF Import, ForgetsBases, IInv, TypeOK
<1>14. QED
  BY <1>1, <1>4, <1>9, <1>10, <1>12, <1>13, PutPreserves

\* Every operation keeps the invariant, and so does a step of no operation.
LEMMA NextPreserves == IInv /\ [Next]_vars => IInv'
<1> SUFFICES ASSUME IInv, [Next]_vars PROVE IInv'
  OBVIOUS
<1> DEFINE Passes == [Callers -> {"idle", "count", "evict"}]
<1>1. /\ capPass \in Passes /\ now \in 0 .. MaxTime
      /\ base \in [Callers -> Base \cup {NoBase}]
      /\ \A d \in Callers : base[d] # NoBase => base[d].id \in Ids
  BY DEF IInv, TypeOK, Base
<1>2. ASSUME NEW c \in Callers, base' = base \/ base' = [base EXCEPT ![c] = NoBase]
      PROVE  ForgetsBases
  BY <1>1, <1>2 DEF ForgetsBases
<1>3. ASSUME NEW c \in Callers, NEW key \in Keys, NEW ttl \in Ttls, Remember(c, key, ttl)
      PROVE  IInv'
  <2>1. ScopedRecordId(c, key) \in Ids
    BY ScopedRecordIdType
  <2>2. /\ PutFact(c, ScopedRecordId(c, key), ttl) /\ UNCHANGED <<now, sending, acked>>
        /\ base' = base /\ capPass' \in Passes
    BY <1>1, <1>3 DEF Remember
  <2>3. QED
    BY <1>2, <2>1, <2>2, PutFactPreserves
<1>4. ASSUME NEW c \in Callers, NEW ttl \in Ttls, RememberCas(c, ttl) PROVE IInv'
  <2>1. /\ base[c].id \in Ids /\ PutFact(c, base[c].id, ttl) /\ UNCHANGED <<now, sending, acked>>
        /\ base' = [base EXCEPT ![c] = NoBase] /\ capPass' \in Passes
    BY <1>1, <1>4 DEF RememberCas
  <2>2. QED
    BY <1>2, <2>1, PutFactPreserves
<1>5. ASSUME NEW c \in Callers, NEW key \in Keys, Forget(c, key) PROVE IInv'
  <2>1. ScopedRecordId(c, key) \in Ids
    BY ScopedRecordIdType
  <2>2. /\ DeleteWithTombstone(c, [i \in {ScopedRecordId(c, key)} |-> 1])
        /\ UNCHANGED <<now, sending, acked>> /\ base' = base /\ capPass' \in Passes
    BY <1>1, <1>5 DEF Forget
  <2>3. QED
    BY <1>2, <2>1, <2>2, DeleteOnePreserves
<1>6. ASSUME NEW c \in Callers, ForgetCas(c) PROVE IInv'
  <2>1. /\ base[c].id \in Ids /\ DeleteWithTombstone(c, [i \in {base[c].id} |-> 1])
        /\ UNCHANGED <<now, sending, acked>>
        /\ base' = [base EXCEPT ![c] = NoBase] /\ capPass' \in Passes
    BY <1>1, <1>6 DEF ForgetCas
  <2>2. QED
    BY <1>2, <2>1, DeleteOnePreserves
<1>7. ASSUME NEW c \in Callers, Clear(c) PROVE IInv'
  <2>1. PICK num \in Numberings(FactsInScope(ScopeOf[c])) : DeleteWithTombstone(c, num)
    BY <1>7 DEF Clear
  <2>2. IsNumbering(num)
    BY NumberingsNumber DEF FactsInScope
  <2>3. UNCHANGED <<now, sending, acked>> /\ base' = base /\ capPass' \in Passes
    BY <1>1, <1>7 DEF Clear
  <2>4. QED
    BY <1>2, <2>1, <2>2, <2>3, DeletePreserves
<1>8. ASSUME NEW c \in Callers, PurgeExpired(c) PROVE IInv'
  <2> DEFINE expired == {id \in FactsInScope(ScopeOf[c]) : IsExpired(facts[id])}
  <2>1. PICK num \in Numberings(expired) : DeleteWithTombstone(c, num)
    BY <1>8 DEF PurgeExpired
  <2>2. IsNumbering(num)
    <3>1. expired \in SUBSET Ids
      BY DEF FactsInScope
    <3>2. QED
      BY <3>1, NumberingsNumber
  <2>3. UNCHANGED <<now, sending, acked>> /\ base' = base /\ capPass' \in Passes
    BY <1>1, <1>8 DEF PurgeExpired
  <2>4. QED
    BY <1>2, <2>1, <2>2, <2>3, DeletePreserves
<1>9. ASSUME NEW c \in Callers, CountForCap(c) \/ CasConflict(c) \/ Crash(c) PROVE IInv'
  <2>1. /\ UNCHANGED <<facts, tombstones, journal, counters, sending, acked>>
        /\ now' \in 0 .. MaxTime /\ capPass' \in Passes
        /\ base' = base \/ base' = [base EXCEPT ![c] = NoBase]
    BY <1>1, <1>9 DEF CountForCap, CasConflict, Crash, stores
  <2>2. QED
    BY <1>2, <2>1, QuietPreserves
<1>10. ASSUME Tick \/ UNCHANGED vars PROVE IInv'
  <2>1. /\ UNCHANGED <<facts, tombstones, journal, counters, sending, acked>>
        /\ now' \in 0 .. MaxTime /\ capPass' \in Passes /\ ForgetsBases
    BY <1>1, <1>10, BoundsAssumption DEF Tick, stores, vars, ForgetsBases
  <2>2. QED
    BY <2>1, QuietPreserves
<1>11. QED
  BY <1>3, <1>4, <1>5, <1>6, <1>7, <1>8, <1>9, <1>10, ReadPreserves, EvictPreserves,
     ImportPreserves, PendingOpsPreserves, MarkSyncedPreserves DEF Next

-----------------------------------------------------------------------------
\* The inductive invariant holds in every reachable state.
THEOREM Invariance == Spec => []IInv
BY InitIInv, NextPreserves, PTL DEF Spec

\* Every variable keeps its type: the counters stay within their bound and what
\* is stored is a record of this store.
THEOREM TypeCorrectness == Spec => []TypeOK
<1>1. IInv => TypeOK
  BY DEF IInv
<1>2. QED
  BY <1>1, Invariance, PTL

\* What is pending is in the journal under the operation that wrote it.
THEOREM NothingPendingIsLost == Spec => []PendingIsOwed
<1>1. IInv => PendingIsOwed
  BY DEF IInv
<1>2. QED
  BY <1>1, Invariance, PTL

\* A record counts as settled only once its own write was acknowledged.
THEOREM SettledOnlyByAck == Spec => []SettledIsAcked
<1>1. IInv => SettledIsAcked
  BY DEF IInv
<1>2. QED
  BY <1>1, Invariance, PTL

\* The journal never holds a row the target has acknowledged, legacy rows apart.
THEOREM JournalHoldsWhatIsOwed == Spec => []JournalIsOwed
<1>1. IInv => JournalIsOwed
  BY DEF IInv
<1>2. QED
  BY <1>1, Invariance, PTL

\* No key is stored and deleted at once.
THEOREM DeletedIsAbsent == Spec => []TombstoneMeansAbsent
<1>1. IInv => TombstoneMeansAbsent
  BY DEF IInv
<1>2. QED
  BY <1>1, Invariance, PTL

\* Revisions and operation ids are handed out once.
THEOREM VersionUniqueness == Spec => []VersionsAreUnique
<1>1. IInv => VersionsAreUnique
  BY DEF IInv
<1>2. QED
  BY <1>1, Invariance, PTL

\* A compare-and-set that succeeds replaces the very write its caller read.
THEOREM NoABA == Spec => []RevisionNamesAWrite
<1>1. IInv => RevisionNamesAWrite
  BY DEF IInv
<1>2. QED
  BY <1>1, Invariance, PTL
-----------------------------------------------------------------------------
\* The store's own sequence is ahead of every record, imported ones included,
\* so a write at the same clock reading sorts before them.
THEOREM RecencyOrder == Spec => LaterWriteSortsFirst
<1> DEFINE A == \A c \in Callers, id, other \in Ids, ttl \in Ttls :
                   PutFact(c, id, ttl) /\ other # id /\ Present(other) /\ facts[other].timestamp = now =>
                       facts'[id].seq > facts[other].seq
<1>1. IInv => A
  <2> SUFFICES ASSUME IInv, NEW c \in Callers, NEW id \in Ids, NEW other \in Ids, NEW ttl \in Ttls,
                      PutFact(c, id, ttl), Present(other)
               PROVE  facts'[id].seq > facts[other].seq
    OBVIOUS
  <2>1. facts'[id].seq = counters.seq + 1
    BY DEF PutFact, Put, Stored
  <2>2. counters.seq \in Nat /\ facts[other].seq \in Nat /\ facts[other].seq <= counters.seq
    BY DEF IInv, TypeOK, SeqIsCounted, Present, Fact
  <2>3. QED
    BY <2>1, <2>2
<1> HIDE DEF A
<1>2. IInv => [A]_vars
  BY <1>1
<1>3. Spec => [][A]_vars
  BY <1>2, Invariance, PTL
<1>4. QED
  BY <1>3 DEF A, LaterWriteSortsFirst

\* A write or an import never removes a record.
LEMMA PutKeepsFacts ==
    ASSUME IInv, NEW c \in Callers, NEW num, NEW data, NEW seq, IsNumbering(num),
           \A id \in DOMAIN num : data[id] \in [timestamp: Nat, seq: Nat, ttl: Ttls],
           Put(c, num, data, seq), NEW id \in Ids, facts[id] # NoFact
    PROVE  facts'[id] # NoFact
<1>1. counters.revision \in Nat /\ counters.opSeq \in Nat
  BY DEF IInv, TypeOK
<1>2. \A i \in DOMAIN num : num[i] \in Nat
  BY DEF IsNumbering
<1>3. \A i \in DOMAIN num : Stored(c, num[i], data[i]) \in Fact
  BY <1>1, <1>2 DEF Stored, OpId, Fact, OpIds, Syncs
<1>4. QED
  BY <1>3, SentinelAssumption DEF Put

\* A deletion of a synced caller leaves a newer marker, and the row that says so.
LEMMA DeleteLeavesMarker ==
    ASSUME IInv, SyncCallers = Callers, NEW c \in Callers, NEW num, IsNumbering(num),
           DeleteWithTombstone(c, num), NEW id \in Ids, facts[id] # NoFact, facts'[id] = NoFact
    PROVE  /\ tombstones'[id] # NoTombstone
           /\ tombstones'[id].revision > facts[id].revision
           /\ \E e \in journal' : e.opId = tombstones'[id].opId /\ e.id = id
<1> DEFINE mark == [deletedAt |-> now, revision |-> counters.revision + num[id],
                    opId |-> OpId(c, num[id]), pendingSync |-> TRUE]
<1>1. id \in DOMAIN num /\ tombstones'[id] = mark
  BY DEF DeleteWithTombstone, Syncs
<1>2. /\ now \in Nat /\ counters.revision \in Nat /\ counters.opSeq \in Nat
      /\ num[id] \in Nat /\ 0 < num[id]
      /\ facts[id].revision \in Nat /\ facts[id].revision <= counters.revision
  BY <1>1, BoundsAssumption DEF IInv, TypeOK, NumbersAreCounted, Present, Fact, IsNumbering
<1>3. mark \in Tombstone /\ mark.revision > facts[id].revision
  BY <1>2 DEF Tombstone, OpIds, OpId
<1> DEFINE row == [opId |-> OpId(c, num[id]), kind |-> "forget", id |-> id,
                   revision |-> counters.revision + num[id], synced |-> FALSE]
<1>4. row \in journal' /\ row.opId = mark.opId /\ row.id = id
  BY <1>1 DEF DeleteWithTombstone, Journal, Syncs
<1>5. QED
  BY <1>1, <1>3, <1>4, SentinelAssumption

\* A record goes by a deletion the target will hear of, or after the target
\* acknowledged it.
THEOREM NoSilentLoss == Spec => DisappearanceIsAccounted
<1> DEFINE Gone(id) ==
              \/ /\ tombstones'[id] # NoTombstone
                 /\ tombstones'[id].revision > facts[id].revision
                 /\ \E e \in journal' : e.opId = tombstones'[id].opId /\ e.id = id
              \/ facts[id].opId \in acked
           A == SyncCallers = Callers =>
                   \A id \in Ids : facts[id] # NoFact /\ facts'[id] = NoFact => Gone(id)
<1>1. IInv /\ [Next]_vars => A
  <2> SUFFICES ASSUME IInv, [Next]_vars, SyncCallers = Callers,
                      NEW id \in Ids, facts[id] # NoFact, facts'[id] = NoFact
               PROVE  Gone(id)
    OBVIOUS
  <2>1. ASSUME NEW c \in Callers, NEW num, IsNumbering(num), DeleteWithTombstone(c, num) PROVE Gone(id)
    BY <2>1, DeleteLeavesMarker
  <2>2. ASSUME NEW c \in Callers, NEW i \in Ids, NEW ttl \in Ttls, PutFact(c, i, ttl) PROVE FALSE
    <3> DEFINE num  == [j \in {i} |-> 1]
               data == [j \in {i} |-> [timestamp |-> now, seq |-> counters.seq + 1, ttl |-> ttl]]
    <3>1. IsNumbering(num) /\ Put(c, num, data, counters.seq + 1)
      BY <2>2, OneNumbering DEF PutFact
    <3>2. \A j \in DOMAIN num : data[j] \in [timestamp: Nat, seq: Nat, ttl: Ttls]
      BY BoundsAssumption DEF IInv, TypeOK
    <3> HIDE DEF num, data
    <3>3. QED
      BY <3>1, <3>2, PutKeepsFacts
  <2>3. ASSUME NEW c \in Callers, NEW key \in Keys PROVE ScopedRecordId(c, key) \in Ids
    BY ScopedRecordIdType
  <2>4. ASSUME NEW c \in Callers, base[c] # NoBase PROVE base[c].id \in Ids
    BY <2>4 DEF IInv, TypeOK, Base
  <2>5. ASSUME NEW c \in Callers, NEW key \in Keys, NEW ttl \in Ttls, Remember(c, key, ttl) PROVE Gone(id)
    BY <2>2, <2>3, <2>5 DEF Remember
  <2>6. ASSUME NEW c \in Callers, NEW ttl \in Ttls, RememberCas(c, ttl) PROVE Gone(id)
    BY <2>2, <2>4, <2>6 DEF RememberCas
  <2>7. ASSUME NEW c \in Callers, NEW key \in Keys, Forget(c, key) PROVE Gone(id)
    <3>1. IsNumbering([i \in {ScopedRecordId(c, key)} |-> 1])
      BY <2>3, OneNumbering
    <3>2. QED
      BY <2>1, <2>7, <3>1 DEF Forget
  <2>8. ASSUME NEW c \in Callers, ForgetCas(c) PROVE Gone(id)
    <3>1. IsNumbering([i \in {base[c].id} |-> 1])
      BY <2>4, <2>8, OneNumbering DEF ForgetCas
    <3>2. QED
      BY <2>1, <2>8, <3>1 DEF ForgetCas
  <2>9. ASSUME NEW c \in Callers, Clear(c) \/ PurgeExpired(c) PROVE Gone(id)
    <3>1. PICK ids \in SUBSET Ids : \E num \in Numberings(ids) : DeleteWithTombstone(c, num)
      BY <2>9 DEF Clear, PurgeExpired, FactsInScope
    <3>2. PICK num \in Numberings(ids) : DeleteWithTombstone(c, num)
      BY <3>1
    <3>3. IsNumbering(num)
      BY NumberingsNumber
    <3>4. QED
      BY <2>1, <3>2, <3>3
  <2>10. ASSUME NEW c \in Callers, NEW batch \in Batches(c), NEW strategy \in {"merge", "overwrite"},
                Import(c, batch, strategy)
         PROVE  Gone(id)
    <3>1. /\ DOMAIN batch \subseteq Ids
          /\ \A i \in DOMAIN batch : batch[i] \in [timestamp: Nat, seq: Nat, ttl: Ttls]
      BY BatchType
    <3>2. ImportWrites(batch, strategy) \subseteq DOMAIN batch
      BY DEF ImportWrites
    <3>3. PICK num \in Numberings(ImportWrites(batch, strategy)) : \E top : Put(c, num, batch, top)
      BY <2>10 DEF Import
    <3>4. PICK top : Put(c, num, batch, top)
      BY <3>3
    <3>5. IsNumbering(num) /\ DOMAIN num = ImportWrites(batch, strategy)
      BY <3>1, <3>2, NumberingsNumber
    <3>6. \A i \in DOMAIN num : batch[i] \in [timestamp: Nat, seq: Nat, ttl: Ttls]
      BY <3>1, <3>2, <3>5
    <3>7. QED
      BY <3>4, <3>5, <3>6, PutKeepsFacts
  <2>11. ASSUME NEW c \in Callers, EvictForCap(c) PROVE Gone(id)
    <3>1. ~facts[id].pendingSync
      BY <2>11 DEF EvictForCap, CapVictims
    <3>2. facts[id] \in Fact
      BY DEF IInv, TypeOK
    <3>3. facts[id].opId[1] \in SyncCallers
      BY <3>2 DEF Fact, OpIds
    <3>4. QED
      BY <3>1, <3>3 DEF IInv, SettledIsAcked, Present
  <2>12. ASSUME NEW opIds \in SUBSET sending, MarkSynced(opIds) PROVE FALSE
    <3>1. facts[id] \in Fact
      BY DEF IInv, TypeOK
    <3>2. facts'[id] = facts[id] \/ facts'[id] = [facts[id] EXCEPT !.pendingSync = FALSE]
      BY <2>12 DEF MarkSynced
    <3>3. facts'[id] \in Fact
      BY <3>1, <3>2 DEF Fact
    <3>4. QED
      BY <3>3, SentinelAssumption
  <2>13. ASSUME facts' = facts PROVE FALSE
    BY <2>13
  <2>14. ASSUME NEW c \in Callers, \/ \E key \in Keys : RecallVersioned(c, key)
                                   \/ CountForCap(c) \/ CasConflict(c) \/ Crash(c)
         PROVE  FALSE
    BY <2>13, <2>14 DEF RecallVersioned, CountForCap, CasConflict, Crash, stores
  <2>15. PendingOps \/ Tick \/ UNCHANGED vars => FALSE
    BY <2>13 DEF PendingOps, Tick, vars, stores
  <2> HIDE DEF Gone
  <2>16. QED
    BY <2>5, <2>6, <2>7, <2>8, <2>9, <2>10, <2>11, <2>12, <2>14, <2>15 DEF Next
<1> HIDE DEF A
<1>2. IInv /\ [Next]_vars => [A]_vars
  BY <1>1
<1>3. Spec => [][A]_vars
  BY <1>2, Invariance, PTL DEF Spec
<1>4. QED
  BY <1>3 DEF A, DisappearanceIsAccounted

\* Whatever a transaction rewrites is in the partition of its caller.
THEOREM ScopeIsolation == Spec => ScopesAreIsolated
<1> DEFINE A == \A i, j \in Ids : Rewritten(i) /\ Rewritten(j) => i[1] = j[1]
<1>1. IInv /\ [Next]_vars => A
  <2> SUFFICES ASSUME IInv, [Next]_vars, NEW i \in Ids, NEW j \in Ids, Rewritten(i), Rewritten(j)
               PROVE  i[1] = j[1]
    OBVIOUS
  <2>1. ASSUME NEW ids, \A id \in Ids \ ids : facts'[id] = facts[id],
               \A k, l \in ids : k[1] = l[1]
        PROVE  i[1] = j[1]
    BY <2>1 DEF Rewritten, StoredOp, Present
  <2>2. ASSUME NEW id, \A k \in Ids \ {id} : facts'[k] = facts[k] PROVE i[1] = j[1]
    BY <2>2 DEF Rewritten, StoredOp, Present
  <2>3. ASSUME NEW c \in Callers, NEW key \in Keys,
               (\E ttl \in Ttls : Remember(c, key, ttl)) \/ Forget(c, key)
        PROVE  i[1] = j[1]
    <3>1. \A k \in Ids \ {ScopedRecordId(c, key)} : facts'[k] = facts[k]
      BY <2>3 DEF Remember, Forget, PutFact, Put, DeleteWithTombstone
    <3>2. QED
      BY <2>2, <3>1
  <2>4. ASSUME NEW c \in Callers, (\E ttl \in Ttls : RememberCas(c, ttl)) \/ ForgetCas(c)
        PROVE  i[1] = j[1]
    <3>1. \A k \in Ids \ {base[c].id} : facts'[k] = facts[k]
      BY <2>4 DEF RememberCas, ForgetCas, PutFact, Put, DeleteWithTombstone
    <3>2. QED
      BY <2>2, <3>1
  <2>5. ASSUME NEW c \in Callers, NEW ids \in SUBSET FactsInScope(ScopeOf[c]),
               \A id \in Ids \ ids : facts'[id] = facts[id]
        PROVE  i[1] = j[1]
    BY <2>1, <2>5 DEF FactsInScope
  <2>6. ASSUME NEW c \in Callers, Clear(c) \/ PurgeExpired(c) PROVE i[1] = j[1]
    <3>1. PICK ids \in SUBSET FactsInScope(ScopeOf[c]) :
             \E num \in Numberings(ids) : DeleteWithTombstone(c, num)
      BY <2>6 DEF Clear, PurgeExpired
    <3>2. PICK num \in Numberings(ids) : DeleteWithTombstone(c, num)
      BY <3>1
    <3>3. ids \in SUBSET Ids
      BY <3>1 DEF FactsInScope
    <3>4. DOMAIN num = ids
      BY <3>3, NumberingsNumber
    <3>5. \A id \in Ids \ ids : facts'[id] = facts[id]
      BY <3>2, <3>4 DEF DeleteWithTombstone
    <3>6. QED
      BY <2>5, <3>5
  <2>7. ASSUME NEW c \in Callers, EvictForCap(c) PROVE i[1] = j[1]
    <3>1. PICK victims \in CapVictims(FactsInScope(ScopeOf[c])) :
             facts' = [id \in Ids |-> IF id \in victims THEN NoFact ELSE facts[id]]
      BY <2>7 DEF EvictForCap
    <3>2. victims \in SUBSET FactsInScope(ScopeOf[c])
      BY <3>1 DEF CapVictims
    <3>3. QED
      BY <2>5, <3>1, <3>2
  <2>8. ASSUME NEW c \in Callers, NEW batch \in Batches(c), NEW strategy \in {"merge", "overwrite"},
               Import(c, batch, strategy)
        PROVE  i[1] = j[1]
    <3>1. DOMAIN batch \subseteq Ids /\ \A k \in DOMAIN batch : k[1] = ScopeOf[c]
      <4>1. PICK ks \in SUBSET Keys : batch \in [{ScopedRecordId(c, key) : key \in ks} -> Incoming]
        BY DEF Batches
      <4>2. QED
        BY <4>1, BatchType DEF ScopedRecordId
    <3>2. ImportWrites(batch, strategy) \subseteq DOMAIN batch
      BY DEF ImportWrites
    <3>3. PICK num \in Numberings(ImportWrites(batch, strategy)) : \E top : Put(c, num, batch, top)
      BY <2>8 DEF Import
    <3>4. DOMAIN num = ImportWrites(batch, strategy)
      BY <3>1, <3>2, NumberingsNumber
    <3>5. \A id \in Ids \ ImportWrites(batch, strategy) : facts'[id] = facts[id]
      BY <3>3, <3>4 DEF Put
    <3>6. QED
      BY <2>1, <3>1, <3>2, <3>5
  <2>9. ASSUME NEW opIds \in SUBSET sending, MarkSynced(opIds) PROVE FALSE
    <3>1. facts[i] \in Fact \cup {NoFact} /\ NoFact \notin Fact
      BY SentinelAssumption DEF IInv, TypeOK
    <3>2. facts'[i] = facts[i] \/ (Present(i) /\ facts'[i] = [facts[i] EXCEPT !.pendingSync = FALSE])
      BY <2>9 DEF MarkSynced
    <3>3. Present(i) => [facts[i] EXCEPT !.pendingSync = FALSE] \in Fact
      BY <3>1 DEF Present, Fact
    <3>4. QED
      BY <3>1, <3>2, <3>3 DEF Rewritten, StoredOp, Present, Fact
  <2>10. ASSUME facts' = facts PROVE FALSE
    BY <2>10 DEF Rewritten, StoredOp, Present
  <2>11. ASSUME NEW c \in Callers, \/ \E key \in Keys : RecallVersioned(c, key)
                                   \/ CountForCap(c) \/ CasConflict(c) \/ Crash(c)
         PROVE  FALSE
    BY <2>10, <2>11 DEF RecallVersioned, CountForCap, CasConflict, Crash, stores
  <2>12. PendingOps \/ Tick \/ UNCHANGED vars => FALSE
    BY <2>10 DEF PendingOps, Tick, vars, stores
  <2>13. QED
    BY <2>3, <2>4, <2>6, <2>7, <2>8, <2>9, <2>11, <2>12 DEF Next
<1> HIDE DEF A
<1>2. IInv /\ [Next]_vars => [A]_vars
  BY <1>1
<1>3. Spec => [][A]_vars
  BY <1>2, Invariance, PTL DEF Spec
<1>4. QED
  BY <1>3 DEF A, ScopesAreIsolated
=============================================================================
