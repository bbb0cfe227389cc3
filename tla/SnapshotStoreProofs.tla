------------------------- MODULE SnapshotStoreProofs -------------------------
(* The snapshot store implements the abstract store: for any callers, hashes, *)
(* changes, failing ports, torn lines and deaths.                             *)
EXTENDS SnapshotStore, FiniteSetTheorems, TLAPS

-----------------------------------------------------------------------------
(* Caches and what is in effect.                                             *)

\* InEffect, of given changes.
Effective(K, R, C) == {m \in 1..Len(K) : IF K[m] = Row THEN m \in R ELSE m <= C[K[m]]}

Kinds == Seq(Hashes \union {Row})

LEMMA NoEntriesIsCached == NoEntries \in Cached /\ \A h \in Hashes : NoEntries[h] = 0
  BY DEF NoEntries, Cached

LEMMA OverlayIsCached ==
  ASSUME NEW C \in Cached, NEW D \in Cached
  PROVE  /\ Overlay(C, D) \in Cached
         /\ \A h \in Hashes : Overlay(C, D)[h] = IF C[h] # 0 THEN C[h] ELSE D[h]
  BY DEF Overlay, Cached

\* An entry is that of the first of three caches that has one.
LEMMA OverlayTwice ==
  ASSUME NEW B \in Cached, NEW C \in Cached, NEW D \in Cached
  PROVE  Overlay(Overlay(B, C), D) = Overlay(B, Overlay(C, D))
  BY DEF Overlay, Cached

LEMMA MoreIsInEffect ==
  ASSUME NEW K \in Kinds, NEW R, NEW S, R \subseteq S, NEW C \in Cached, NEW D \in Cached,
         \A h \in Hashes : C[h] <= D[h]
  PROVE  Effective(K, R, C) \subseteq Effective(K, S, D)
<1>1. ASSUME NEW m \in 1..Len(K), K[m] # Row, m <= C[K[m]] PROVE m <= D[K[m]]
  <2>1. K[m] \in Hashes
    BY <1>1 DEF Kinds
  <2>2. C[K[m]] \in Nat /\ D[K[m]] \in Nat /\ C[K[m]] <= D[K[m]]
    BY <2>1 DEF Cached
  <2>3. QED
    BY <1>1, <2>2
<1>2. QED
  BY <1>1 DEF Effective

\* A new change is not in the effect of what was there before it.
LEMMA NewChange ==
  ASSUME NEW K \in Kinds, NEW k \in Hashes \union {Row}, NEW R, R \subseteq 1..Len(K),
         NEW C \in Cached, \A h \in Hashes : C[h] <= Len(K)
  PROVE  Effective(Append(K, k), R, C) = Effective(K, R, C)
<1>1. /\ Append(K, k) \in Kinds /\ Len(Append(K, k)) = Len(K) + 1 /\ Len(K) \in Nat
      /\ \A m \in 1..Len(K) : Append(K, k)[m] = K[m]
      /\ Append(K, k)[Len(K) + 1] = k
  BY DEF Kinds
<1>2. Len(K) + 1 \notin Effective(Append(K, k), R, C)
  <2>1. CASE k = Row
    BY <1>1, <2>1 DEF Effective
  <2>2. CASE k \in Hashes /\ k # Row
    <3>1. C[k] \in Nat /\ C[k] <= Len(K)
      BY <2>2 DEF Cached
    <3>2. QED
      BY <1>1, <2>2, <3>1 DEF Effective
  <2>3. QED
    BY <2>1, <2>2
<1>3. \A m : m \in 1..(Len(K) + 1) <=> (m \in 1..Len(K) \/ m = Len(K) + 1)
  BY <1>1
<1>4. QED
  BY <1>1, <1>2, <1>3 DEF Effective

-----------------------------------------------------------------------------
(* Types.                                                                    *)

LEMMA IdleIsTyped ==
  Idle \in [at : {"idle", "append", "write"}, batch : Cached, image : [rows : SUBSET Nat, extracted : Cached]]
  BY NoEntriesIsCached DEF Idle

LEMMA InEffectIsTyped == ASSUME NEW R, NEW C PROVE InEffect(R, C) \in SUBSET Nat
  BY DEF InEffect

LEMMA ResolveTypes ==
  ASSUME SnapTypeOK, Resolve \/ Reject, chain # <<>>
  PROVE  /\ pc' \in [Callers -> {"idle", "applied", "ended", "waiting"}]
         /\ chain' \in Seq(Requesters)
         /\ due' \in [Requesters -> SUBSET Nat]
         /\ job' = Idle
         /\ acked' \subseteq Nat
<1>1. Head(chain) \in Requesters /\ Tail(chain) \in Seq(Requesters)
  BY DEF SnapTypeOK
<1>2. due[Head(chain)] \subseteq Nat
  BY <1>1 DEF SnapTypeOK
<1>3. pc' \in [Callers -> {"idle", "applied", "ended", "waiting"}]
  BY DEF Resolve, Reject, Answered, SnapTypeOK
<1>4. due' \in [Requesters -> SUBSET Nat]
  <2>1. due' = [due EXCEPT ![Head(chain)] = {}]
    BY DEF Resolve, Reject, Answered
  <2>2. QED
    BY <2>1 DEF SnapTypeOK
<1>5. chain' = Tail(chain) /\ job' = Idle
  BY DEF Resolve, Reject
<1>6. acked' \subseteq acked \union due[Head(chain)]
  BY DEF Resolve, Reject
<1>7. QED
  BY <1>1, <1>2, <1>3, <1>4, <1>5, <1>6 DEF SnapTypeOK

LEMMA RequestTypes ==
  ASSUME SnapTypeOK, NEW r \in Requesters, Request(r)
  PROVE  chain' \in Seq(Requesters) /\ due' \in [Requesters -> SUBSET Nat]
  BY InEffectIsTyped DEF SnapTypeOK, Request

LEMMA BatchesStay == ASSUME SnapInv, SnapNext PROVE BatchesAreOpen'
<1>1. BatchesAreOpen /\ inBatch \subseteq Callers
  BY DEF SnapInv, SnapTypeOK
<1>2. ASSUME UNCHANGED <<inBatch, depth>> PROVE BatchesAreOpen'
  BY <1>1, <1>2 DEF BatchesAreOpen
<1>3. ASSUME NEW c \in Callers, BeginBatch(c) PROVE BatchesAreOpen'
  <2>1. c \notin inBatch /\ inBatch' = inBatch \union {c} /\ depth' = depth + 1
    BY <1>3 DEF BeginBatch
  <2>2. QED
    BY <1>1, <2>1, FS_AddElement DEF BatchesAreOpen
<1>4. ASSUME NEW c \in Callers, EndBatch(c) PROVE BatchesAreOpen'
  <2>1. c \in inBatch /\ inBatch' = inBatch \ {c} /\ depth' = depth - 1
    BY <1>4 DEF EndBatch
  <2>2. QED
    BY <1>1, <2>1, FS_RemoveElement DEF BatchesAreOpen
<1>5. CASE StoreDies
  <2>1. inBatch' = {} /\ depth' = 0
    BY <1>5 DEF StoreDies
  <2>2. QED
    BY <2>1, FS_EmptySet DEF BatchesAreOpen
<1>6. CASE Load \/ StartJob \/ Appended \/ AppendFails \/ Written \/ WriteFails
  BY <1>2, <1>6 DEF Load, StartJob, Appended, AppendFails, Written, WriteFails, memory, calls
<1>7. CASE \E c \in Callers :
       ChangeRows(c) \/ PutSame(c) \/ Decide(c) \/ FlushBatch(c) \/ \E h \in Hashes : PutExtracted(c, h)
  BY <1>2, <1>7 DEF ChangeRows, PutSame, Decide, FlushBatch, PutExtracted, memory
<1>8. QED
  BY <1>3, <1>4, <1>5, <1>6, <1>7 DEF SnapNext

LEMMA SnapTypesStay == ASSUME SnapInv, SnapNext PROVE SnapTypeOK'
<1> USE SnapshotAssumption
<1>1. SnapTypeOK /\ OneRequestEach
  BY DEF SnapInv
<1>2. Reloaded \in Cached
  BY <1>1, OverlayIsCached DEF Reloaded, SnapTypeOK
<1>3. CASE Load
  <2>1. rows' \subseteq Nat /\ cache' \in Cached /\ loaded' \in BOOLEAN
    BY <1>1, <1>2, <1>3 DEF Load, SnapTypeOK
  <2>2. pending' \in Cached /\ dirty' \in BOOLEAN
    <3>1. CASE logged
      <4>1. pending' = [h \in Hashes |-> IF log.entries[h] = 0 THEN snapshot.extracted[h] ELSE 0]
        BY <1>3, <3>1 DEF Load
      <4>2. log.entries \in [Hashes -> Nat] /\ snapshot.extracted \in [Hashes -> Nat]
        BY <1>1 DEF SnapTypeOK, Cached
      <4>3. dirty' \in BOOLEAN
        BY <1>3, <3>1 DEF Load
      <4>4. QED
        BY <4>1, <4>2, <4>3 DEF Cached
    <3>2. CASE ~logged
      BY <1>1, <1>3, <3>2 DEF Load, SnapTypeOK
    <3>3. QED
      BY <3>1, <3>2
  <2>3. torn' \in BOOLEAN /\ log' \in [entries : Cached, open : BOOLEAN]
    BY <1>1, <1>3 DEF Load, SnapTypeOK
  <2>4. QED
    BY <1>1, <1>3, <2>1, <2>2, <2>3 DEF Load, SnapTypeOK, calls
<1>4. ASSUME NEW c \in Callers, ChangeRows(c) PROVE SnapTypeOK'
  <2>1. Newest + 1 \in Nat /\ kind' \in Seq(Hashes \union {Row})
    BY <1>1, <1>4 DEF ChangeRows, SnapTypeOK, Newest
  <2>2. QED
    BY <1>1, <1>4, <2>1 DEF ChangeRows, SnapTypeOK, files
<1>5. ASSUME NEW c \in Callers, NEW h \in Hashes, PutExtracted(c, h) PROVE SnapTypeOK'
  <2>1. Newest + 1 \in Nat /\ kind' \in Seq(Hashes \union {Row})
    BY <1>1, <1>5 DEF PutExtracted, SnapTypeOK, Newest
  <2>2. cache' \in Cached /\ pending' \in Cached /\ dirty' \in BOOLEAN
    <3>1. cache \in [Hashes -> Nat] /\ pending \in [Hashes -> Nat] /\ dirty \in BOOLEAN
      BY <1>1 DEF SnapTypeOK, Cached
    <3>2. /\ cache' = [cache EXCEPT ![h] = Newest + 1]
          /\ pending' = [pending EXCEPT ![h] = Newest + 1] \/ pending' = pending
          /\ dirty' = dirty \/ dirty' = TRUE
      BY <1>5 DEF PutExtracted
    <3>3. QED
      BY <2>1, <3>1, <3>2 DEF Cached
  <2>3. QED
    BY <1>1, <1>5, <2>1, <2>2 DEF PutExtracted, SnapTypeOK, files
<1>6. ASSUME NEW c \in Callers, PutSame(c) PROVE SnapTypeOK'
  BY <1>1, <1>6 DEF PutSame, SnapTypeOK, memory, files
<1>7. ASSUME NEW c \in Callers, Decide(c) PROVE SnapTypeOK'
  <2>1. chain' \in Seq(Requesters) /\ due' \in [Requesters -> SUBSET Nat]
    BY <1>1, <1>7, RequestTypes DEF Decide, SnapTypeOK, Requesters
  <2>2. pc' \in [Callers -> {"idle", "applied", "ended", "waiting"}]
    BY <1>1, <1>7 DEF Decide, SnapTypeOK
  <2>3. QED
    BY <1>1, <1>7, <2>1, <2>2 DEF Decide, SnapTypeOK, memory, files
<1>8. ASSUME NEW c \in Callers, BeginBatch(c) PROVE SnapTypeOK'
  BY <1>1, <1>8 DEF BeginBatch, SnapTypeOK, files
<1>9. ASSUME NEW c \in Callers, FlushBatch(c) PROVE SnapTypeOK'
  <2>1. chain' \in Seq(Requesters) /\ due' \in [Requesters -> SUBSET Nat]
    BY <1>1, <1>9, RequestTypes DEF FlushBatch, Requesters
  <2>2. pc' \in [Callers -> {"idle", "applied", "ended", "waiting"}]
    BY <1>1, <1>9 DEF FlushBatch, SnapTypeOK
  <2>3. QED
    BY <1>1, <1>9, <2>1, <2>2 DEF FlushBatch, SnapTypeOK, memory, files
<1>10. ASSUME NEW c \in Callers, EndBatch(c) PROVE SnapTypeOK'
  <2>1. depth' \in Nat
    <3>1. /\ IsFiniteSet(inBatch \ {c}) /\ Cardinality(inBatch \ {c}) = depth - 1
      BY <1>10, FS_RemoveElement DEF SnapInv, BatchesAreOpen, EndBatch
    <3>2. QED
      BY <1>10, <3>1, FS_CardinalityType DEF EndBatch
  <2>2. QED
    BY <1>1, <1>10, <2>1 DEF EndBatch, SnapTypeOK, files
<1>11. Image \in [rows : SUBSET Nat, extracted : Cached]
  BY <1>1, NoEntriesIsCached DEF Image, SnapTypeOK
<1>12. ASSUME WriteSnapshot, chain # <<>>
       PROVE  /\ pc' \in [Callers -> {"idle", "applied", "ended", "waiting"}]
              /\ chain' \in Seq(Requesters)
              /\ due' \in [Requesters -> SUBSET Nat]
              /\ job' \in [at : {"idle", "append", "write"}, batch : Cached,
                           image : [rows : SUBSET Nat, extracted : Cached]]
              /\ acked' \subseteq Nat /\ dirty' \in BOOLEAN
  <2>1. CASE ~dirty
    <3>1. Resolve /\ UNCHANGED dirty
      BY <1>12, <2>1 DEF WriteSnapshot
    <3>2. dirty' \in BOOLEAN
      BY <1>1, <3>1 DEF SnapTypeOK
    <3>3. QED
      BY <1>1, <1>12, <3>1, <3>2, ResolveTypes, IdleIsTyped
  <2>2. CASE dirty
    <3>1. /\ dirty' = FALSE /\ UNCHANGED <<pc, chain, due, acked>>
          /\ job' = [at |-> "write", batch |-> NoEntries, image |-> Image]
      BY <1>12, <2>2 DEF WriteSnapshot
    <3>2. QED
      BY <1>1, <1>11, <3>1, NoEntriesIsCached DEF SnapTypeOK
  <2>3. QED
    BY <2>1, <2>2
<1>13. CASE StartJob
  <2>1. CASE ~loaded
    BY <1>1, <1>13, <2>1, ResolveTypes, IdleIsTyped DEF StartJob, SnapTypeOK, files
  <2>2. CASE loaded /\ logged /\ pending # NoEntries
    <3>1. job' \in [at : {"idle", "append", "write"}, batch : Cached,
                    image : [rows : SUBSET Nat, extracted : Cached]]
      BY <1>1, <1>13, <2>2 DEF StartJob, SnapTypeOK
    <3>2. QED
      BY <1>1, <1>13, <2>2, <3>1, NoEntriesIsCached DEF StartJob, SnapTypeOK, files
  <2>3. CASE loaded /\ ~(logged /\ pending # NoEntries)
    BY <1>1, <1>12, <1>13, <2>3 DEF StartJob, SnapTypeOK, files
  <2>4. QED
    BY <2>1, <2>2, <2>3
<1>14. CASE Appended
  <2>1. chain # <<>> /\ job.batch \in Cached /\ log.entries \in Cached
    BY <1>1, <1>14 DEF Appended, OneRequestEach, SnapTypeOK
  <2>2. \A es \in AfterAppend(job.batch, torn) : es \in Cached
    BY <2>1, OverlayIsCached DEF AfterAppend, Cached
  <2>3. log' \in [entries : Cached, open : BOOLEAN]
    BY <1>14, <2>2 DEF Appended
  <2>4. WriteSnapshot /\ torn' = FALSE /\ UNCHANGED <<loaded, logged, rows, cache, pending, depth, snapshot, inBatch, kind, faults>>
    BY <1>14 DEF Appended
  <2>5. QED
    BY <1>1, <1>12, <2>1, <2>3, <2>4 DEF SnapTypeOK
<1>15. \A part \in Part : part \in Cached /\ Overlay(part, log.entries) \in Cached
  <2>1. job.batch \in [Hashes -> Nat] /\ log.entries \in Cached
    BY <1>1 DEF SnapTypeOK, Cached
  <2>2. ASSUME NEW part \in Part PROVE part \in Cached
    BY <2>1 DEF Part, Cached
  <2>3. QED
    BY <2>1, <2>2, OverlayIsCached
<1>16. CASE AppendFails
  <2>1. chain # <<>>
    BY <1>1, <1>16 DEF AppendFails, OneRequestEach
  <2>2. log' \in [entries : Cached, open : BOOLEAN]
    BY <1>15, <1>16 DEF AppendFails
  <2>3. pending' \in Cached
    BY <1>1, <1>16, OverlayIsCached DEF AppendFails, SnapTypeOK
  <2>4. faults' \in 0..MaxFaults
    BY <1>1, <1>16 DEF AppendFails, Fault, SnapTypeOK
  <2>5. QED
    BY <1>1, <1>16, <2>1, <2>2, <2>3, <2>4, ResolveTypes, IdleIsTyped DEF AppendFails, SnapTypeOK
<1>17. CASE Written
  <2>1. chain # <<>>
    BY <1>1, <1>17 DEF Written, OneRequestEach
  <2>2. QED
    BY <1>1, <1>17, <2>1, ResolveTypes, IdleIsTyped DEF Written, SnapTypeOK, memory
<1>18. CASE WriteFails
  <2>1. chain # <<>>
    BY <1>1, <1>18 DEF WriteFails, OneRequestEach
  <2>2. faults' \in 0..MaxFaults
    BY <1>1, <1>18 DEF WriteFails, Fault, SnapTypeOK
  <2>3. QED
    BY <1>1, <1>18, <2>1, <2>2, ResolveTypes, IdleIsTyped DEF WriteFails, SnapTypeOK
<1>19. CASE StoreDies
  <2>1. log' \in [entries : Cached, open : BOOLEAN] /\ snapshot' \in [rows : SUBSET Nat, extracted : Cached]
    BY <1>1, <1>15, <1>19 DEF StoreDies, SnapTypeOK, files
  <2>2. faults' \in 0..MaxFaults
    BY <1>1, <1>19 DEF StoreDies, Fault, SnapTypeOK
  <2>3. /\ loaded' \in BOOLEAN /\ logged' \in BOOLEAN /\ dirty' \in BOOLEAN /\ torn' \in BOOLEAN
    BY <1>1, <1>19 DEF StoreDies, SnapTypeOK
  <2>4. /\ rows' \subseteq Nat /\ cache' \in Cached /\ pending' \in Cached /\ depth' \in Nat
        /\ pc' \in [Callers -> {"idle", "applied", "ended", "waiting"}] /\ inBatch' \subseteq Callers
        /\ chain' \in Seq(Requesters) /\ due' \in [Requesters -> SUBSET Nat] /\ job' = Idle
    BY <1>19, NoEntriesIsCached DEF StoreDies
  <2>5. UNCHANGED <<kind, acked>>
    BY <1>19 DEF StoreDies
  <2>6. QED
    BY <1>1, <2>1, <2>2, <2>3, <2>4, <2>5, IdleIsTyped DEF SnapTypeOK
<1>20. QED
  BY <1>3, <1>4, <1>5, <1>6, <1>7, <1>8, <1>9, <1>10, <1>13, <1>14, <1>16, <1>17, <1>18, <1>19 DEF SnapNext

-----------------------------------------------------------------------------
(* What a step does to the files and to memory.                              *)

LEMMA ReloadedIs ==
  ASSUME SnapTypeOK
  PROVE  /\ Reloaded \in Cached
         /\ \A h \in Hashes : Reloaded[h] = IF log.entries[h] # 0 THEN log.entries[h] ELSE snapshot.extracted[h]
  BY OverlayIsCached DEF Reloaded, SnapTypeOK

LEMMA NextReloadedIs ==
  ASSUME SnapTypeOK'
  PROVE  /\ Reloaded' \in Cached
         /\ \A h \in Hashes : Reloaded'[h] = IF log'.entries[h] # 0 THEN log'.entries[h] ELSE snapshot'.extracted[h]
<1>1. log'.entries \in Cached /\ snapshot'.extracted \in Cached
  BY DEF SnapTypeOK
<1>2. Reloaded' = Overlay(log'.entries, snapshot'.extracted)
  BY DEF Reloaded
<1>3. QED
  BY <1>1, <1>2, OverlayIsCached

LEMMA CachesAreNumbers ==
  ASSUME SnapTypeOK, NEW h \in Hashes
  PROVE  /\ cache[h] \in Nat /\ pending[h] \in Nat /\ job.batch[h] \in Nat /\ job.image.extracted[h] \in Nat
         /\ log.entries[h] \in Nat /\ snapshot.extracted[h] \in Nat /\ Reloaded[h] \in Nat
         /\ NoEntries[h] = 0
<1>1. /\ cache \in Cached /\ pending \in Cached /\ job.batch \in Cached /\ job.image.extracted \in Cached
      /\ log.entries \in Cached /\ snapshot.extracted \in Cached /\ Reloaded \in Cached
  BY ReloadedIs DEF SnapTypeOK
<1>2. QED
  BY <1>1, NoEntriesIsCached DEF Cached

\* Some lines of the append that is under way.
LEMMA PartIs ==
  ASSUME SnapTypeOK, NEW part \in Part
  PROVE  part \in Cached /\ \A h \in Hashes : part[h] = 0 \/ part[h] = job.batch[h]
<1>1. job.batch \in [Hashes -> Nat]
  BY DEF SnapTypeOK, Cached
<1>2. QED
  BY <1>1 DEF Part, Cached

\* What an append leaves of the log, whether it ends, fails or dies.
AppendedPart == \E part \in Cached :
  /\ \A h \in Hashes : part[h] = 0 \/ part[h] = job.batch[h]
  /\ log'.entries = Overlay(part, log.entries)

LEMMA AppendIsSound ==
  ASSUME SnapInv, Appended
  PROVE  log'.entries = Overlay(job.batch, log.entries) /\ log'.open = FALSE
<1>1. job.at = "append" /\ loaded /\ logged
  BY DEF Appended, SnapInv, MemoryLeads, LogCatchesUp
<1>2. log.open => torn
  BY <1>1 DEF SnapInv, LogCatchesUp
<1>3. QED
  BY <1>2 DEF Appended, AfterAppend

LEMMA FilesMove ==
  ASSUME SnapInv, SnapNext
  PROVE  \/ log'.entries = log.entries /\ snapshot' = snapshot
         \/ /\ job.at = "append" /\ loaded /\ logged
            /\ snapshot' = snapshot /\ AppendedPart
         \/ /\ job.at = "write" /\ loaded
            /\ log' = log /\ snapshot' = job.image
<1> USE DEF files
<1>1. SnapTypeOK /\ (job.at # "idle" => loaded) /\ (job.at = "append" => logged)
  BY DEF SnapInv, MemoryLeads, LogCatchesUp
<1>2. CASE Load
  BY <1>1, <1>2 DEF Load, SnapTypeOK
<1>3. CASE Appended
  <2>1. log'.entries = Overlay(job.batch, log.entries) /\ job.batch \in Cached
    BY <1>1, <1>3, AppendIsSound DEF SnapTypeOK
  <2>2. AppendedPart
    BY <2>1 DEF AppendedPart
  <2>3. QED
    BY <1>1, <1>3, <2>2 DEF Appended
<1>4. ASSUME NEW part \in Part, NEW open, log' = [entries |-> Overlay(part, log.entries), open |-> open]
      PROVE  AppendedPart
  BY <1>1, <1>4, PartIs DEF AppendedPart
<1>5. CASE AppendFails
  BY <1>1, <1>4, <1>5 DEF AppendFails
<1>6. CASE Written \/ WriteFails
  BY <1>1, <1>6 DEF Written, WriteFails
<1>7. CASE StoreDies
  BY <1>1, <1>4, <1>7 DEF StoreDies
<1>8. CASE StartJob
  BY <1>8 DEF StartJob
<1>9. CASE \E c \in Callers :
       \/ ChangeRows(c) \/ PutSame(c) \/ Decide(c) \/ BeginBatch(c) \/ FlushBatch(c) \/ EndBatch(c)
       \/ \E h \in Hashes : PutExtracted(c, h)
  BY <1>9 DEF ChangeRows, PutSame, Decide, BeginBatch, FlushBatch, EndBatch, PutExtracted
<1>10. QED
  BY <1>2, <1>3, <1>5, <1>6, <1>7, <1>8, <1>9 DEF SnapNext

\* No step takes anything out of the files, and none puts into them what memory
\* lacks.
LEMMA FilesGrow ==
  ASSUME SnapInv, SnapNext
  PROVE  /\ snapshot.rows \subseteq snapshot'.rows
         /\ \A h \in Hashes : Reloaded[h] <= Reloaded'[h]
         /\ loaded => snapshot'.rows \subseteq rows /\ \A h \in Hashes : Reloaded'[h] <= cache[h]
         /\ ~loaded => snapshot'.rows = snapshot.rows /\ Reloaded' = Reloaded
<1>1. SnapTypeOK /\ SnapTypeOK'
  BY SnapTypesStay DEF SnapInv
<1>2. /\ loaded => snapshot.rows \subseteq rows /\ \A h \in Hashes : Reloaded[h] <= cache[h]
      /\ job.at = "append" => logged
  BY DEF SnapInv, MemoryLeads, LogCatchesUp
<1>3. \A h \in Hashes : /\ Reloaded[h] \in Nat /\ Reloaded'[h] \in Nat /\ cache[h] \in Nat
                        /\ job.batch[h] \in Nat /\ log.entries[h] \in Nat /\ snapshot.extracted[h] \in Nat
                        /\ job.image.extracted[h] \in Nat
  BY <1>1, CachesAreNumbers, NextReloadedIs DEF Cached
<1>4. \A h \in Hashes : /\ Reloaded[h] = IF log.entries[h] # 0 THEN log.entries[h] ELSE snapshot.extracted[h]
                        /\ Reloaded'[h] = IF log'.entries[h] # 0 THEN log'.entries[h] ELSE snapshot'.extracted[h]
  BY <1>1, ReloadedIs, NextReloadedIs
<1>5. CASE log'.entries = log.entries /\ snapshot' = snapshot
  <2>1. Reloaded' = Reloaded
    BY <1>5 DEF Reloaded
  <2>2. QED
    BY <1>2, <1>3, <1>5, <2>1
<1>6. CASE /\ job.at = "append" /\ loaded /\ logged
           /\ snapshot' = snapshot /\ AppendedPart
  <2>1. PICK part \in Cached : /\ \A h \in Hashes : part[h] = 0 \/ part[h] = job.batch[h]
                               /\ log'.entries = Overlay(part, log.entries)
    BY <1>6 DEF AppendedPart
  <2>2. log.entries \in Cached
    BY <1>1 DEF SnapTypeOK
  <2>3. \A h \in Hashes : log'.entries[h] = IF part[h] # 0 THEN part[h] ELSE log.entries[h]
    BY <2>1, <2>2, OverlayIsCached
  <2>4. \A h \in Hashes : job.batch[h] # 0 => Reloaded[h] <= job.batch[h] /\ job.batch[h] <= cache[h]
    BY <1>6 DEF SnapInv, LogCatchesUp
  <2>5. ASSUME NEW h \in Hashes PROVE Reloaded'[h] = Reloaded[h] \/ (job.batch[h] # 0 /\ Reloaded'[h] = job.batch[h])
    BY <1>4, <1>6, <2>1, <2>3
  <2>6. QED
    BY <1>2, <1>3, <1>6, <2>4, <2>5
<1>7. CASE /\ job.at = "write" /\ loaded
           /\ log' = log /\ snapshot' = job.image
  <2>1. snapshot.rows \subseteq job.image.rows /\ job.image.rows \subseteq rows
    BY <1>7 DEF SnapInv, SnapshotCatchesUp
  <2>2. CASE logged
    <3>1. \A h \in Hashes : job.image.extracted[h] = 0 /\ ~OnlyInSnapshot(h)
      BY <1>7, <2>2, NoEntriesIsCached DEF SnapInv, LogCatchesUp, SnapshotCatchesUp
    <3>2. \A h \in Hashes : Reloaded'[h] = Reloaded[h]
      BY <1>3, <1>4, <1>7, <3>1 DEF OnlyInSnapshot
    <3>3. QED
      BY <1>2, <1>3, <1>7, <2>1, <3>2
  <2>3. CASE ~logged
    <3>1. \A h \in Hashes : /\ snapshot.extracted[h] <= job.image.extracted[h]
                            /\ job.image.extracted[h] <= cache[h]
      BY <1>7, <2>3 DEF SnapInv, SnapshotCatchesUp
    <3>2. \A h \in Hashes : log.entries[h] = 0
      BY <2>3, NoEntriesIsCached DEF SnapInv, LogCatchesUp
    <3>3. \A h \in Hashes : Reloaded'[h] = job.image.extracted[h] /\ Reloaded[h] = snapshot.extracted[h]
      BY <1>4, <1>7, <3>2
    <3>4. QED
      BY <1>7, <2>1, <3>1, <3>3
  <2>4. QED
    BY <2>2, <2>3
<1>8. QED
  BY <1>5, <1>6, <1>7, FilesMove

\* Memory takes what the files have, or what is new.
LEMMA MemoryMoves ==
  ASSUME SnapInv, SnapNext
  PROVE  \/ Load
         \/ StoreDies
         \/ \E c \in Callers : ChangeRows(c)
         \/ \E c \in Callers, h \in Hashes : PutExtracted(c, h)
         \/ UNCHANGED <<loaded, logged, rows, cache, kind>>
<1> USE DEF memory
<1>1. CASE StartJob \/ Appended \/ AppendFails \/ Written \/ WriteFails
  BY <1>1 DEF StartJob, Appended, AppendFails, Written, WriteFails
<1>2. CASE \E c \in Callers : PutSame(c) \/ Decide(c) \/ BeginBatch(c) \/ FlushBatch(c) \/ EndBatch(c)
  BY <1>2 DEF PutSame, Decide, BeginBatch, FlushBatch, EndBatch
<1>3. QED
  BY <1>1, <1>2 DEF SnapNext

LEMMA NumberedStays == ASSUME SnapInv, SnapNext PROVE Numbered'
<1>1. SnapTypeOK /\ SnapTypeOK' /\ Numbered /\ Newest \in Nat
  BY SnapTypesStay DEF SnapInv, SnapTypeOK, Newest
<1>2. \A h \in Hashes : Reloaded[h] \in Nat /\ Reloaded'[h] \in Nat /\ cache[h] \in Nat
  BY <1>1, CachesAreNumbers, NextReloadedIs DEF Cached
<1>3. snapshot'.rows \subseteq 1..Newest /\ \A h \in Hashes : Reloaded'[h] <= Newest
  <2>1. CASE loaded
    <3>1. snapshot'.rows \subseteq rows /\ \A h \in Hashes : Reloaded'[h] <= cache[h]
      BY <2>1, FilesGrow
    <3>2. QED
      BY <1>1, <1>2, <3>1 DEF Numbered
  <2>2. CASE ~loaded
    BY <1>1, <2>2, FilesGrow DEF Numbered
  <2>3. QED
    BY <2>1, <2>2
<1>4. ASSUME UNCHANGED kind, rows' \subseteq 1..Newest, \A h \in Hashes : cache'[h] <= Newest PROVE Numbered'
  BY <1>3, <1>4 DEF Numbered, Newest
<1>5. CASE Load
  BY <1>1, <1>4, <1>5 DEF Load, Numbered
<1>6. CASE StoreDies
  BY <1>1, <1>4, <1>6, NoEntriesIsCached DEF StoreDies
<1>7. CASE UNCHANGED <<loaded, logged, rows, cache, kind>>
  BY <1>1, <1>4, <1>7 DEF Numbered
<1>8. ASSUME Newest' = Newest + 1, rows' \subseteq rows \union {Newest + 1},
             \A h \in Hashes : cache'[h] = cache[h] \/ cache'[h] = Newest + 1
      PROVE  Numbered'
  <2>1. 1..Newest \subseteq 1..Newest' /\ Newest + 1 \in 1..Newest' /\ Newest <= Newest'
    BY <1>1, <1>8
  <2>2. rows' \union snapshot'.rows \subseteq 1..Newest'
    BY <1>1, <1>3, <1>8, <2>1 DEF Numbered
  <2>3. \A h \in Hashes : cache'[h] <= Newest' /\ Reloaded'[h] <= Newest'
    BY <1>1, <1>2, <1>3, <1>8, <2>1 DEF Numbered
  <2>4. QED
    BY <2>2, <2>3 DEF Numbered
<1>9. ASSUME NEW c \in Callers, ChangeRows(c) PROVE Numbered'
  BY <1>1, <1>8, <1>9 DEF ChangeRows, Newest, SnapTypeOK
<1>10. ASSUME NEW c \in Callers, NEW h \in Hashes, PutExtracted(c, h) PROVE Numbered'
  <2>1. Newest' = Newest + 1 /\ rows' = rows /\ cache' = [cache EXCEPT ![h] = Newest + 1]
    BY <1>1, <1>10 DEF PutExtracted, Newest, SnapTypeOK
  <2>2. \A g \in Hashes : cache'[g] = cache[g] \/ cache'[g] = Newest + 1
    BY <1>1, <2>1 DEF SnapTypeOK, Cached
  <2>3. QED
    BY <1>8, <2>1, <2>2
<1>11. QED
  BY <1>5, <1>6, <1>7, <1>9, <1>10, MemoryMoves

LEMMA NothingInEffect == ASSUME SnapTypeOK PROVE InEffect({}, NoEntries) = {}
<1>1. ASSUME NEW m \in 1..Newest, kind[m] # Row PROVE NoEntries[kind[m]] = 0
  <2>1. kind[m] \in Hashes
    BY <1>1 DEF SnapTypeOK, Newest
  <2>2. QED
    BY <2>1, NoEntriesIsCached
<1>2. QED
  BY <1>1 DEF InEffect

LEMMA LeadsStay == ASSUME SnapInv, SnapNext PROVE MemoryLeads'
<1>1. SnapTypeOK /\ SnapTypeOK' /\ MemoryLeads /\ Numbered /\ Newest \in Nat
  BY SnapTypesStay DEF SnapInv, SnapTypeOK, Newest
<1>2. \A h \in Hashes : Reloaded[h] \in Nat /\ Reloaded'[h] \in Nat /\ cache[h] \in Nat
  BY <1>1, CachesAreNumbers, NextReloadedIs DEF Cached
<1>3. CASE StoreDies
  BY <1>3 DEF StoreDies, MemoryLeads, Idle
<1>4. CASE Load
  <2>1. loaded' /\ ~loaded /\ rows' = snapshot.rows /\ cache' = Reloaded
    BY <1>4 DEF Load
  <2>2. snapshot'.rows = snapshot.rows /\ Reloaded' = Reloaded
    BY <2>1, FilesGrow
  <2>3. QED
    BY <1>2, <2>1, <2>2 DEF MemoryLeads
<1>5. CASE loaded /\ ~StoreDies
  <2>1. ~Load
    BY <1>5 DEF Load
  <2>2. loaded' /\ rows \subseteq rows' /\ \A h \in Hashes : cache[h] <= cache'[h]
    <3>1. CASE \E c \in Callers : ChangeRows(c)
      BY <1>2, <1>5, <3>1 DEF ChangeRows
    <3>2. ASSUME NEW c \in Callers, NEW g \in Hashes, PutExtracted(c, g)
          PROVE  loaded' /\ rows \subseteq rows' /\ \A h \in Hashes : cache[h] <= cache'[h]
      <4>1. loaded' = loaded /\ rows' = rows /\ cache' = [cache EXCEPT ![g] = Newest + 1]
        BY <3>2 DEF PutExtracted
      <4>2. \A h \in Hashes : cache'[h] = cache[h] \/ cache'[h] = Newest + 1
        BY <1>1, <4>1 DEF SnapTypeOK, Cached
      <4>3. QED
        BY <1>1, <1>2, <1>5, <4>1, <4>2 DEF Numbered
    <3>3. CASE UNCHANGED <<loaded, logged, rows, cache, kind>>
      BY <1>2, <1>5, <3>3
    <3>4. QED
      BY <1>5, <2>1, <3>1, <3>2, <3>3, MemoryMoves
  <2>3. snapshot'.rows \subseteq rows /\ \A h \in Hashes : Reloaded'[h] <= cache[h]
    BY <1>5, FilesGrow
  <2>4. \A h \in Hashes : cache'[h] \in Nat
    BY <1>1 DEF SnapTypeOK, Cached
  <2>5. QED
    BY <1>2, <2>2, <2>3, <2>4 DEF MemoryLeads
<1>6. CASE ~loaded /\ ~Load /\ ~StoreDies
  <2>1. UNCHANGED <<loaded, logged, rows, cache, kind>>
    BY <1>6, MemoryMoves DEF ChangeRows, PutExtracted
  <2>2. rows = {} /\ cache = NoEntries /\ job.at = "idle" /\ \A r \in Requesters : due[r] = {}
    BY <1>1, <1>6 DEF MemoryLeads
  <2>3. job'.at = "idle" /\ \A r \in Requesters : due'[r] = {}
    <3>1. CASE StartJob
      <4>1. job' = Idle /\ due' = [due EXCEPT ![Head(chain)] = {}]
        BY <1>6, <3>1 DEF StartJob, Resolve, Answered
      <4>2. QED
        BY <1>1, <2>2, <4>1 DEF SnapTypeOK, Idle
    <3>2. ASSUME NEW r \in Requesters, Request(r) PROVE \A q \in Requesters : due'[q] = {}
      BY <1>1, <2>2, <3>2, NothingInEffect DEF Request, SnapTypeOK
    <3>3. CASE \E c \in Callers : Decide(c) \/ FlushBatch(c)
      BY <2>2, <3>2, <3>3 DEF Decide, FlushBatch, Requesters
    <3>4. CASE \E c \in Callers : PutSame(c) \/ BeginBatch(c) \/ EndBatch(c)
      BY <2>2, <3>4 DEF PutSame, BeginBatch, EndBatch
    <3>5. QED
      BY <1>6, <2>2, <3>1, <3>3, <3>4
         DEF SnapNext, Appended, AppendFails, Written, WriteFails, ChangeRows, PutExtracted
  <2>4. QED
    BY <1>6, <2>1, <2>2, <2>3 DEF MemoryLeads
<1>7. QED
  BY <1>3, <1>4, <1>5, <1>6

-----------------------------------------------------------------------------
(* The log.                                                                  *)

\* What the first job that needs no append leaves of a log that has all.
LEMMA NoAppendLeft ==
  ASSUME SnapInv, SnapTypeOK', UNCHANGED <<loaded, logged, cache, pending, torn, snapshot, log>>,
         job.at # "append", job'.at # "append", job'.batch = NoEntries,
         logged => pending = NoEntries
  PROVE  LogCatchesUp'
<1>1. LogCatchesUp /\ SnapTypeOK /\ Reloaded' = Reloaded
  BY DEF SnapInv, Reloaded
<1>2. \A h \in Hashes : job.batch[h] = 0 /\ job'.batch[h] = 0
  BY <1>1, NoEntriesIsCached DEF LogCatchesUp
<1>3. logged => \A h \in Hashes : pending[h] = 0
  BY NoEntriesIsCached
<1>4. \A h \in Hashes : OnlyInSnapshot(h)' = OnlyInSnapshot(h)
  BY DEF OnlyInSnapshot
<1>5. QED
  BY <1>1, <1>2, <1>3, <1>4 DEF LogCatchesUp

LEMMA LogStays == ASSUME SnapInv, SnapNext PROVE LogCatchesUp'
<1>1. SnapTypeOK /\ SnapTypeOK' /\ LogCatchesUp /\ MemoryLeads
  BY SnapTypesStay DEF SnapInv
<1>2. \A h \in Hashes : /\ cache[h] \in Nat /\ pending[h] \in Nat /\ job.batch[h] \in Nat
                        /\ log.entries[h] \in Nat /\ snapshot.extracted[h] \in Nat
                        /\ Reloaded[h] \in Nat /\ NoEntries[h] = 0
  BY <1>1, CachesAreNumbers
<1>3. \A h \in Hashes : /\ Reloaded[h] = IF log.entries[h] # 0 THEN log.entries[h] ELSE snapshot.extracted[h]
                        /\ Reloaded'[h] = IF log'.entries[h] # 0 THEN log'.entries[h] ELSE snapshot'.extracted[h]
  BY <1>1, ReloadedIs, NextReloadedIs
<1>4. ASSUME UNCHANGED <<loaded, logged, cache, pending, torn, snapshot, log, job>> PROVE LogCatchesUp'
  BY <1>1, <1>4 DEF LogCatchesUp, OnlyInSnapshot, Reloaded
<1>5. CASE Load
  <2>1. /\ ~loaded /\ cache' = Reloaded /\ snapshot' = snapshot /\ logged' = logged /\ job' = job
        /\ logged => pending' = [h \in Hashes |-> IF log.entries[h] = 0 THEN snapshot.extracted[h] ELSE 0]
    BY <1>5 DEF Load, calls
  <2>2. log'.entries = log.entries /\ (logged /\ log'.open => torn')
    <3>1. CASE log' = log /\ torn' = (logged /\ log.open)
      BY <3>1
    <3>2. CASE log' = [log EXCEPT !.open = FALSE]
      BY <1>1, <3>2 DEF SnapTypeOK
    <3>3. QED
      BY <1>5, <3>1, <3>2 DEF Load
  <2>3. Reloaded' = Reloaded
    BY <2>1, <2>2 DEF Reloaded
  <2>4. job.at = "idle" /\ job.batch = NoEntries
    BY <1>1, <2>1 DEF MemoryLeads, LogCatchesUp
  <2>5. ASSUME logged, NEW h \in Hashes
        PROVE  /\ pending'[h] # 0 => pending'[h] = cache'[h]
               /\ job'.batch[h] = 0
               /\ pending'[h] = 0 => Reloaded'[h] = cache'[h]
               /\ OnlyInSnapshot(h)' => pending'[h] # 0
    BY <1>2, <1>3, <2>1, <2>2, <2>3, <2>4, <2>5 DEF OnlyInSnapshot
  <2>6. QED
    BY <1>1, <2>1, <2>2, <2>4, <2>5 DEF LogCatchesUp
<1>6. ASSUME NEW c \in Callers, NEW g \in Hashes, PutExtracted(c, g) PROVE LogCatchesUp'
  <2>1. /\ loaded /\ UNCHANGED <<loaded, logged, torn, snapshot, log, job>>
        /\ cache' = [cache EXCEPT ![g] = Newest + 1]
        /\ logged => pending' = [pending EXCEPT ![g] = Newest + 1]
    BY <1>6 DEF PutExtracted, files
  <2>2. Newest \in Nat /\ Numbered
    BY <1>1 DEF SnapTypeOK, Newest, SnapInv
  <2>3. \A h \in Hashes \ {g} : cache'[h] = cache[h] /\ (logged => pending'[h] = pending[h])
    BY <1>1, <2>1 DEF SnapTypeOK, Cached
  <2>4. cache'[g] = Newest + 1 /\ (logged => pending'[g] = Newest + 1)
    BY <1>1, <2>1 DEF SnapTypeOK, Cached
  <2>5. cache[g] <= Newest
    BY <2>2 DEF Numbered
  <2>6. Reloaded' = Reloaded /\ \A h \in Hashes : OnlyInSnapshot(h)' = OnlyInSnapshot(h)
    BY <2>1 DEF Reloaded, OnlyInSnapshot
  <2>7. ASSUME logged
        PROVE  \A h \in Hashes :
            /\ pending'[h] # 0 => pending'[h] = cache'[h]
            /\ job.batch[h] # 0 => /\ Reloaded[h] <= job.batch[h] /\ job.batch[h] <= cache'[h]
                                   /\ pending'[h] = 0 => job.batch[h] = cache'[h]
            /\ pending'[h] = 0 /\ job.batch[h] = 0 => Reloaded[h] = cache'[h]
            /\ pending[h] # 0 => pending'[h] # 0
    <3>1. \A h \in Hashes \ {g} :
            /\ pending'[h] # 0 => pending'[h] = cache'[h]
            /\ job.batch[h] # 0 => /\ Reloaded[h] <= job.batch[h] /\ job.batch[h] <= cache'[h]
                                   /\ pending'[h] = 0 => job.batch[h] = cache'[h]
            /\ pending'[h] = 0 /\ job.batch[h] = 0 => Reloaded[h] = cache'[h]
            /\ pending[h] # 0 => pending'[h] # 0
      BY <1>1, <2>1, <2>3, <2>7 DEF LogCatchesUp
    <3>2. job.batch[g] # 0 => Reloaded[g] <= job.batch[g] /\ job.batch[g] <= cache[g]
      BY <1>1, <2>1, <2>7 DEF LogCatchesUp
    <3>3. QED
      BY <1>2, <2>2, <2>4, <2>5, <2>7, <3>1, <3>2
  <2>8. QED
    BY <1>1, <2>1, <2>6, <2>7 DEF LogCatchesUp
<1>7. CASE StartJob
  <2>1. /\ job.at = "idle" /\ job.batch = NoEntries
        /\ UNCHANGED <<loaded, logged, cache, torn, snapshot, log>>
    BY <1>1, <1>7 DEF StartJob, LogCatchesUp, files
  <2>2. CASE ~loaded
    <3>1. job' = Idle
      BY <1>7, <2>2 DEF StartJob, Resolve
    <3>2. QED
      BY <1>1, <2>1, <2>2, <3>1 DEF LogCatchesUp, Idle
  <2>3. CASE loaded /\ logged /\ pending # NoEntries
    <3>1. job'.at = "append" /\ job'.batch = pending /\ pending' = NoEntries
      BY <1>1, <1>7, <2>3 DEF StartJob, SnapTypeOK
    <3>2. Reloaded' = Reloaded /\ \A h \in Hashes : OnlyInSnapshot(h)' = OnlyInSnapshot(h)
      BY <2>1 DEF Reloaded, OnlyInSnapshot
    <3>3. \A h \in Hashes : Reloaded[h] <= cache[h]
      BY <1>1, <2>3 DEF MemoryLeads
    <3>4. QED
      BY <1>1, <1>2, <2>1, <2>3, <3>1, <3>2, <3>3 DEF LogCatchesUp
  <2>4. CASE loaded /\ ~(logged /\ pending # NoEntries)
    <3>1. UNCHANGED pending /\ job'.at # "append" /\ job'.batch = NoEntries
      BY <1>7, <2>4 DEF StartJob, WriteSnapshot, Resolve, Idle
    <3>2. QED
      BY <1>1, <2>1, <2>4, <3>1, NoAppendLeft
  <2>5. QED
    BY <2>2, <2>3, <2>4
<1>8. ASSUME job.at = "append", snapshot' = snapshot, UNCHANGED <<loaded, logged, cache>>,
             NEW part \in Cached, \A h \in Hashes : part[h] = 0 \/ part[h] = job.batch[h],
             log'.entries = Overlay(part, log.entries)
      PROVE  \A h \in Hashes :
               /\ part[h] # 0 => Reloaded'[h] = job.batch[h]
               /\ part[h] = 0 => Reloaded'[h] = Reloaded[h]
               /\ OnlyInSnapshot(h)' => OnlyInSnapshot(h) /\ part[h] = 0
  <2>1. log.entries \in Cached
    BY <1>1 DEF SnapTypeOK
  <2>2. \A h \in Hashes : log'.entries[h] = IF part[h] # 0 THEN part[h] ELSE log.entries[h]
    BY <1>8, <2>1, OverlayIsCached
  <2>3. QED
    BY <1>3, <1>8, <2>2 DEF OnlyInSnapshot
<1>9. CASE Appended
  <2>1. /\ job.at = "append" /\ loaded /\ logged
        /\ UNCHANGED <<loaded, logged, cache, pending, snapshot>>
        /\ job'.at # "append" /\ job'.batch = NoEntries
    BY <1>1, <1>9 DEF Appended, WriteSnapshot, Resolve, Idle, MemoryLeads, LogCatchesUp
  <2>2. log'.entries = Overlay(job.batch, log.entries) /\ log'.open = FALSE /\ job.batch \in Cached
    BY <1>1, <1>9, AppendIsSound DEF SnapTypeOK
  <2>3. \A h \in Hashes :
               /\ job.batch[h] # 0 => Reloaded'[h] = job.batch[h]
               /\ job.batch[h] = 0 => Reloaded'[h] = Reloaded[h]
               /\ OnlyInSnapshot(h)' => OnlyInSnapshot(h) /\ job.batch[h] = 0
    BY <1>8, <2>1, <2>2
  <2>4. \A h \in Hashes : OnlyInSnapshot(h) => job.batch[h] # 0
    BY <1>1, <2>1 DEF LogCatchesUp
  <2>5. \A h \in Hashes :
            /\ pending[h] # 0 => pending[h] = cache[h]
            /\ pending[h] = 0 => Reloaded'[h] = cache[h]
    BY <1>1, <2>1, <2>3 DEF LogCatchesUp
  <2>6. QED
    BY <1>2, <2>1, <2>2, <2>3, <2>4, <2>5 DEF LogCatchesUp
<1>10. CASE AppendFails
  <2>1. /\ job.at = "append" /\ loaded /\ logged /\ torn' = TRUE
        /\ UNCHANGED <<loaded, logged, cache, snapshot>>
        /\ pending' = Overlay(pending, job.batch)
        /\ job'.at = "idle" /\ job'.batch = NoEntries
    BY <1>1, <1>10 DEF AppendFails, Reject, Idle, MemoryLeads, LogCatchesUp
  <2>2. PICK part \in Part : log'.entries = Overlay(part, log.entries)
    BY <1>10 DEF AppendFails
  <2>3. part \in Cached /\ \A h \in Hashes : part[h] = 0 \/ part[h] = job.batch[h]
    BY <1>1, PartIs
  <2>4. \A h \in Hashes :
               /\ part[h] # 0 => Reloaded'[h] = job.batch[h]
               /\ part[h] = 0 => Reloaded'[h] = Reloaded[h]
               /\ OnlyInSnapshot(h)' => OnlyInSnapshot(h) /\ part[h] = 0
    BY <1>8, <2>1, <2>2, <2>3
  <2>5. \A h \in Hashes : pending'[h] = IF pending[h] # 0 THEN pending[h] ELSE job.batch[h]
    BY <1>1, <2>1, OverlayIsCached DEF SnapTypeOK
  <2>6. \A h \in Hashes : OnlyInSnapshot(h) => job.batch[h] # 0
    BY <1>1, <2>1 DEF LogCatchesUp
  <2>7. \A h \in Hashes :
            /\ pending'[h] # 0 => pending'[h] = cache[h]
            /\ pending'[h] = 0 => Reloaded'[h] = cache[h]
            /\ OnlyInSnapshot(h)' => pending'[h] # 0
    BY <1>1, <2>1, <2>3, <2>4, <2>5, <2>6 DEF LogCatchesUp
  <2>8. QED
    BY <1>2, <2>1, <2>7 DEF LogCatchesUp
<1>11. CASE Written \/ WriteFails
  <2>1. /\ job.at = "write" /\ loaded
        /\ UNCHANGED <<loaded, logged, cache, pending, torn, log>>
        /\ snapshot' = snapshot \/ snapshot' = job.image
        /\ job'.at = "idle" /\ job'.batch = NoEntries
    BY <1>1, <1>11 DEF Written, WriteFails, Resolve, Reject, Idle, MemoryLeads, memory
  <2>2. CASE logged
    <3>1. \A h \in Hashes : job.batch[h] = 0 /\ job'.batch[h] = 0 /\ ~OnlyInSnapshot(h) /\ job.image.extracted[h] = 0
      BY <1>1, <2>1, <2>2, NoEntriesIsCached DEF LogCatchesUp, SnapInv, SnapshotCatchesUp
    <3>2. \A h \in Hashes : Reloaded'[h] = Reloaded[h] /\ ~OnlyInSnapshot(h)'
      BY <1>3, <2>1, <3>1 DEF OnlyInSnapshot
    <3>3. QED
      BY <1>1, <2>1, <2>2, <3>1, <3>2 DEF LogCatchesUp
  <2>3. CASE ~logged
    BY <1>1, <2>1, <2>3 DEF LogCatchesUp
  <2>4. QED
    BY <2>2, <2>3
<1>12. CASE StoreDies
  <2>1. loaded' = FALSE /\ (~logged' => ~logged) /\ job'.at = "idle" /\ job'.batch = NoEntries
    <3>1. loaded' = FALSE /\ job' = Idle /\ logged' \in {logged, TRUE}
      BY <1>12 DEF StoreDies
    <3>2. ~logged' => ~logged
      BY <3>1
    <3>3. QED
      BY <3>1, <3>2 DEF Idle
  <2>2. ASSUME ~logged PROVE log'.entries = NoEntries
    BY <1>1, <2>2, FilesMove DEF LogCatchesUp
  <2>3. QED
    BY <2>1, <2>2 DEF LogCatchesUp
<1>13. CASE \E c \in Callers :
       ChangeRows(c) \/ PutSame(c) \/ Decide(c) \/ BeginBatch(c) \/ FlushBatch(c) \/ EndBatch(c)
  BY <1>4, <1>13 DEF ChangeRows, PutSame, Decide, BeginBatch, FlushBatch, EndBatch, memory, files
<1>14. QED
  BY <1>5, <1>6, <1>7, <1>9, <1>10, <1>11, <1>12, <1>13 DEF SnapNext

-----------------------------------------------------------------------------
(* The snapshot.                                                             *)

LEMMA ImageIsMemory ==
  ASSUME SnapInv, loaded, WriteSnapshot, job.at # "write", UNCHANGED <<loaded, logged, rows, cache, snapshot>>
  PROVE  SnapshotCatchesUp'
<1>1. SnapTypeOK /\ SnapshotCatchesUp /\ MemoryLeads /\ LogCatchesUp
  BY DEF SnapInv
<1>2. CASE dirty
  <2>1. /\ dirty' = FALSE /\ job'.at = "write" /\ job'.image.rows = rows
        /\ job'.image.extracted = IF logged THEN NoEntries ELSE cache
    BY <1>2 DEF WriteSnapshot, Image
  <2>2. snapshot.rows \subseteq rows
    BY <1>1 DEF MemoryLeads
  <2>3. ASSUME ~logged, NEW h \in Hashes PROVE snapshot.extracted[h] <= cache[h] /\ cache[h] <= cache[h]
    <3>1. log.entries[h] = 0
      BY <1>1, <2>3, NoEntriesIsCached DEF LogCatchesUp
    <3>2. Reloaded[h] = snapshot.extracted[h]
      BY <1>1, <3>1, ReloadedIs
    <3>3. Reloaded[h] <= cache[h] /\ cache[h] \in Nat
      BY <1>1, CachesAreNumbers DEF MemoryLeads
    <3>4. QED
      BY <3>2, <3>3
  <2>4. QED
    BY <1>1, <2>1, <2>2, <2>3 DEF SnapshotCatchesUp
<1>3. CASE ~dirty
  <2>1. dirty' = dirty /\ job' = Idle
    BY <1>3 DEF WriteSnapshot, Resolve
  <2>2. QED
    BY <1>1, <1>3, <2>1 DEF SnapshotCatchesUp, Idle
<1>4. QED
  BY <1>2, <1>3

LEMMA SnapshotStays == ASSUME SnapInv, SnapNext PROVE SnapshotCatchesUp'
<1>1. SnapTypeOK /\ SnapshotCatchesUp /\ MemoryLeads /\ LogCatchesUp
  BY DEF SnapInv
<1>2. ASSUME UNCHANGED <<loaded, logged, rows, cache, dirty, snapshot>>,
             job' = job \/ (job.at # "write" /\ job'.at # "write")
      PROVE  SnapshotCatchesUp'
  BY <1>1, <1>2 DEF SnapshotCatchesUp
<1>3. CASE Load
  <2>1. /\ ~loaded /\ rows' = snapshot.rows /\ cache' = Reloaded /\ UNCHANGED <<logged, snapshot, job>>
    BY <1>3 DEF Load, calls
  <2>2. job'.at # "write"
    BY <1>1, <2>1 DEF MemoryLeads
  <2>3. ASSUME ~logged PROVE Reloaded = snapshot.extracted
    <3>1. \A h \in Hashes : log.entries[h] = 0
      BY <1>1, <2>3, NoEntriesIsCached DEF LogCatchesUp
    <3>2. \A h \in Hashes : Reloaded[h] = snapshot.extracted[h]
      BY <1>1, <3>1, ReloadedIs
    <3>3. Reloaded \in [Hashes -> Nat] /\ snapshot.extracted \in [Hashes -> Nat]
      BY <1>1, ReloadedIs DEF SnapTypeOK, Cached
    <3>4. QED
      BY <3>2, <3>3
  <2>4. QED
    BY <2>1, <2>2, <2>3 DEF SnapshotCatchesUp
<1>4. ASSUME NEW c \in Callers, ChangeRows(c) PROVE SnapshotCatchesUp'
  <2>1. rows \subseteq rows' /\ dirty' = TRUE /\ UNCHANGED <<loaded, logged, cache, snapshot, job>>
    BY <1>4 DEF ChangeRows, files
  <2>2. QED
    BY <1>1, <2>1 DEF SnapshotCatchesUp
<1>5. ASSUME NEW c \in Callers, NEW g \in Hashes, PutExtracted(c, g) PROVE SnapshotCatchesUp'
  <2>1. /\ cache' = [cache EXCEPT ![g] = Newest + 1] /\ UNCHANGED <<loaded, logged, rows, snapshot, job>>
        /\ (logged => dirty' = dirty) /\ (~logged => dirty' = TRUE)
    BY <1>5 DEF PutExtracted, files
  <2>2. Newest \in Nat /\ cache[g] <= Newest /\ cache[g] \in Nat
    BY <1>1, CachesAreNumbers DEF SnapTypeOK, Newest, SnapInv, Numbered
  <2>3. \A h \in Hashes : /\ cache[h] \in Nat /\ cache'[h] \in Nat /\ cache[h] <= cache'[h]
                          /\ job.image.extracted[h] \in Nat
    <3>1. \A h \in Hashes : cache[h] \in Nat /\ job.image.extracted[h] \in Nat
      BY <1>1, CachesAreNumbers
    <3>2. \A h \in Hashes : cache'[h] = IF h = g THEN Newest + 1 ELSE cache[h]
      BY <1>1, <2>1 DEF SnapTypeOK, Cached
    <3>3. QED
      BY <2>2, <3>1, <3>2
  <2>4. QED
    BY <1>1, <2>1, <2>3 DEF SnapshotCatchesUp
<1>6. CASE StartJob
  <2>1. job.at = "idle" /\ UNCHANGED <<loaded, logged, rows, cache, snapshot>>
    BY <1>6 DEF StartJob, files
  <2>2. CASE ~loaded
    BY <1>2, <1>6, <2>1, <2>2 DEF StartJob, Resolve, Idle
  <2>3. CASE loaded /\ logged /\ pending # NoEntries
    <3>1. job'.at = "append" /\ dirty' = dirty
      BY <1>1, <1>6, <2>3 DEF StartJob, SnapTypeOK
    <3>2. QED
      BY <1>2, <2>1, <3>1
  <2>4. CASE loaded /\ ~(logged /\ pending # NoEntries)
    BY <1>6, <2>1, <2>4, ImageIsMemory DEF StartJob
  <2>5. QED
    BY <2>2, <2>3, <2>4
<1>7. CASE Appended
  BY <1>1, <1>7, ImageIsMemory DEF Appended, MemoryLeads
<1>8. CASE AppendFails
  BY <1>2, <1>8 DEF AppendFails, Reject, Idle
<1>9. CASE Written
  <2>1. /\ job.at = "write" /\ job'.at = "idle" /\ snapshot' = job.image
        /\ UNCHANGED <<loaded, logged, rows, cache, dirty>>
    BY <1>9 DEF Written, Resolve, Idle, memory
  <2>2. QED
    BY <1>1, <2>1 DEF SnapshotCatchesUp
<1>10. CASE WriteFails
  BY <1>10 DEF WriteFails, Reject, Idle, SnapshotCatchesUp
<1>11. CASE StoreDies
  BY <1>11 DEF StoreDies, Idle, SnapshotCatchesUp
<1>12. CASE \E c \in Callers : PutSame(c) \/ Decide(c) \/ BeginBatch(c) \/ FlushBatch(c) \/ EndBatch(c)
  BY <1>2, <1>12 DEF PutSame, Decide, BeginBatch, FlushBatch, EndBatch, memory, files
<1>13. QED
  BY <1>3, <1>4, <1>5, <1>6, <1>7, <1>8, <1>9, <1>10, <1>11, <1>12 DEF SnapNext

-----------------------------------------------------------------------------
(* The requests.                                                             *)

LEMMA OneMore ==
  ASSUME SnapTypeOK, OneRequestEach, NEW r \in Requesters, Request(r),
         \A i \in DOMAIN chain : chain[i] # r, r \in Callers => pc'[r] = "waiting",
         \A q \in Callers : pc[q] = "waiting" => pc'[q] = "waiting", job' = job
  PROVE  OneRequestEach'
<1>1. chain' = Append(chain, r) /\ chain \in Seq(Requesters)
  BY DEF Request, SnapTypeOK
<1>2. /\ DOMAIN chain' = DOMAIN chain \union {Len(chain) + 1}
      /\ chain'[Len(chain) + 1] = r /\ chain' # <<>>
      /\ \A i \in DOMAIN chain : chain'[i] = chain[i]
  BY <1>1
<1>3. QED
  BY <1>2 DEF OneRequestEach

LEMMA OneLess ==
  ASSUME SnapTypeOK, OneRequestEach, Resolve \/ Reject, chain # <<>>
  PROVE  OneRequestEach'
<1>1. chain' = Tail(chain) /\ job' = Idle /\ pc' = [c \in Callers |-> IF c = Head(chain) THEN "idle" ELSE pc[c]]
  BY DEF Resolve, Reject, Answered
<1>2. chain \in Seq(Requesters) /\ Len(chain) \in Nat /\ Len(chain) > 0
  BY DEF SnapTypeOK
<1>3. \A i \in DOMAIN chain' : i \in Nat /\ i + 1 \in DOMAIN chain /\ chain'[i] = chain[i + 1] /\ i + 1 # 1
  BY <1>1, <1>2
<1>4. Head(chain) = chain[1] /\ 1 \in DOMAIN chain
  BY <1>2
<1>5. \A i \in DOMAIN chain' : chain'[i] # Head(chain)
  BY <1>3, <1>4 DEF OneRequestEach
<1>6. \A i \in DOMAIN chain' : chain'[i] \in Callers => pc'[chain'[i]] = "waiting"
  BY <1>1, <1>3, <1>5 DEF OneRequestEach
<1>7. \A i, j \in DOMAIN chain' : chain'[i] = chain'[j] => i = j
  <2>1. ASSUME NEW i \in DOMAIN chain', NEW j \in DOMAIN chain', chain'[i] = chain'[j] PROVE i = j
    <3>1. i + 1 = j + 1
      BY <1>3, <2>1 DEF OneRequestEach
    <3>2. QED
      BY <1>3, <2>1, <3>1
  <2>2. QED
    BY <2>1
<1>8. QED
  BY <1>1, <1>6, <1>7 DEF OneRequestEach, Idle

\* A caller that is not waiting is not in the chain.
LEMMA NotAsked ==
  ASSUME OneRequestEach, NEW c \in Callers, pc[c] # "waiting"
  PROVE  \A i \in DOMAIN chain : chain[i] # c
  BY DEF OneRequestEach

LEMMA RequestsStay == ASSUME SnapInv, SnapNext PROVE OneRequestEach'
<1>1. SnapTypeOK /\ OneRequestEach
  BY DEF SnapInv
<1>2. ASSUME UNCHANGED chain, \A q \in Callers : pc[q] = "waiting" => pc'[q] = "waiting",
             job' = job \/ chain # <<>>
      PROVE  OneRequestEach'
  BY <1>1, <1>2 DEF OneRequestEach
<1>3. ASSUME NEW c \in Callers, pc[c] # "waiting", NEW at, pc' = [pc EXCEPT ![c] = at]
      PROVE  \A q \in Callers : pc[q] = "waiting" => pc'[q] = "waiting"
  BY <1>1, <1>3 DEF SnapTypeOK
<1>4. ASSUME NEW c \in Callers, Decide(c) PROVE OneRequestEach'
  <2>1. pc[c] # "waiting" /\ job' = job
    BY <1>4 DEF Decide
  <2>2. \A q \in Callers : pc[q] = "waiting" => pc'[q] = "waiting"
    BY <1>3, <1>4, <2>1 DEF Decide
  <2>3. CASE Request(c) /\ pc' = [pc EXCEPT ![c] = "waiting"]
    BY <1>1, <2>1, <2>2, <2>3, NotAsked, OneMore DEF SnapTypeOK, Requesters
  <2>4. CASE Request(Timer) /\ \A i \in DOMAIN chain : chain[i] # Timer
    BY <1>1, <2>1, <2>2, <2>4, OneMore, SnapshotAssumption DEF Requesters
  <2>5. CASE UNCHANGED chain
    BY <1>2, <2>1, <2>2, <2>5
  <2>6. QED
    BY <1>4, <2>3, <2>4, <2>5 DEF Decide
<1>5. ASSUME NEW c \in Callers, FlushBatch(c) PROVE OneRequestEach'
  <2>1. pc[c] # "waiting" /\ job' = job /\ Request(c) /\ pc' = [pc EXCEPT ![c] = "waiting"]
    BY <1>5 DEF FlushBatch
  <2>2. \A q \in Callers : pc[q] = "waiting" => pc'[q] = "waiting"
    BY <1>3, <2>1
  <2>3. pc'[c] = "waiting"
    BY <1>1, <2>1 DEF SnapTypeOK
  <2>4. QED
    BY <1>1, <2>1, <2>2, <2>3, NotAsked, OneMore DEF Requesters
<1>6. ASSUME NEW c \in Callers,
             \/ ChangeRows(c) \/ PutSame(c) \/ BeginBatch(c) \/ EndBatch(c)
             \/ \E h \in Hashes : PutExtracted(c, h)
      PROVE  OneRequestEach'
  <2>1. pc[c] # "waiting" /\ UNCHANGED <<chain, job>> /\ (pc' = pc \/ \E at : pc' = [pc EXCEPT ![c] = at])
    BY <1>6 DEF ChangeRows, PutSame, BeginBatch, EndBatch, PutExtracted
  <2>2. QED
    BY <1>2, <1>3, <2>1
<1>7. CASE Load
  BY <1>2, <1>7 DEF Load, calls
<1>8. ASSUME WriteSnapshot, chain # <<>> PROVE OneRequestEach'
  BY <1>1, <1>2, <1>8, OneLess DEF WriteSnapshot
<1>9. CASE StartJob
  BY <1>1, <1>2, <1>8, <1>9, OneLess DEF StartJob
<1>10. CASE Appended \/ AppendFails \/ Written \/ WriteFails
  <2>1. chain # <<>>
    BY <1>1, <1>10 DEF Appended, AppendFails, Written, WriteFails, OneRequestEach
  <2>2. QED
    BY <1>1, <1>8, <1>10, <2>1, OneLess DEF Appended, AppendFails, Written, WriteFails
<1>11. CASE StoreDies
  BY <1>11 DEF StoreDies, Idle, OneRequestEach
<1>12. QED
  BY <1>4, <1>5, <1>6, <1>7, <1>9, <1>10, <1>11 DEF SnapNext

-----------------------------------------------------------------------------
(* What requests answer for.                                                 *)

LEMMA InEffectIs ==
  /\ \A R, C : InEffect(R, C) = Effective(kind, R, C)
  /\ Held = IF loaded THEN Effective(kind, rows, cache) ELSE Effective(kind, snapshot.rows, Reloaded)
  /\ Durable = Effective(kind, snapshot.rows, Reloaded)
<1>1. \A R, C : InEffect(R, C) = Effective(kind, R, C)
  BY DEF InEffect, Effective, Newest
<1>2. QED
  BY <1>1 DEF Held, Durable

LEMMA NextInEffectIs ==
  /\ InEffect(rows, cache)' = Effective(kind', rows', cache')
  /\ InEffect(job.image.rows, Overlay(log.entries, job.image.extracted))'
       = Effective(kind', job'.image.rows, Overlay(log'.entries, job'.image.extracted))
  /\ Held' = IF loaded' THEN Effective(kind', rows', cache') ELSE Effective(kind', snapshot'.rows, Reloaded')
  /\ Durable' = Effective(kind', snapshot'.rows, Reloaded')
<1>1. InEffect(rows, cache)' = Effective(kind', rows', cache')
  BY DEF InEffect, Effective, Newest
<1>2. InEffect(job.image.rows, Overlay(log.entries, job.image.extracted))'
       = Effective(kind', job'.image.rows, Overlay(log'.entries, job'.image.extracted))
  BY DEF InEffect, Effective, Newest, Overlay
<1>3. InEffect(snapshot.rows, Reloaded)' = Effective(kind', snapshot'.rows, Reloaded')
  BY DEF InEffect, Effective, Newest
<1>4. QED
  BY <1>1, <1>2, <1>3 DEF Held, Durable

LEMMA MoreChanges ==
  ASSUME NEW K \in Kinds, NEW k \in Hashes \union {Row}, NEW R, NEW C
  PROVE  /\ Effective(K, R, C) \subseteq Effective(Append(K, k), R, C)
         /\ \A m \in 1..Len(K) : Append(K, k)[m] = K[m]
<1>1. /\ Len(Append(K, k)) = Len(K) + 1 /\ Len(K) \in Nat
      /\ \A m \in 1..Len(K) : Append(K, k)[m] = K[m]
  BY DEF Kinds
<1>2. QED
  BY <1>1 DEF Effective

\* Changes and entries come on top of what is in effect.
LEMMA EffectGrows ==
  ASSUME SnapInv, SnapNext, loaded, ~StoreDies
  PROVE  InEffect(rows, cache) \subseteq InEffect(rows, cache)'
<1>1. /\ SnapTypeOK /\ SnapTypeOK' /\ Numbered /\ kind \in Kinds /\ kind' \in Kinds
      /\ cache \in Cached /\ cache' \in Cached /\ Newest \in Nat
  BY SnapTypesStay DEF SnapInv, SnapTypeOK, Kinds, Newest
<1>2. \A h \in Hashes : cache[h] \in Nat /\ cache[h] <= Newest
  BY <1>1, CachesAreNumbers DEF Numbered
<1>3. ASSUME NEW k \in Hashes \union {Row}, kind' = Append(kind, k), rows \subseteq rows',
             \A h \in Hashes : cache[h] <= cache'[h]
      PROVE  Effective(kind, rows, cache) \subseteq Effective(kind', rows', cache')
  <2>1. Effective(kind, rows, cache) \subseteq Effective(kind', rows, cache)
    BY <1>1, <1>3, MoreChanges
  <2>2. Effective(kind', rows, cache) \subseteq Effective(kind', rows', cache')
    BY <1>1, <1>3, MoreIsInEffect
  <2>3. QED
    BY <2>1, <2>2
<1>4. ASSUME NEW c \in Callers, ChangeRows(c)
      PROVE  Effective(kind, rows, cache) \subseteq Effective(kind', rows', cache')
  <2>1. kind' = Append(kind, Row) /\ rows \subseteq rows' /\ cache' = cache
    BY <1>4 DEF ChangeRows
  <2>2. \A h \in Hashes : cache[h] <= cache'[h]
    BY <1>2, <2>1
  <2>3. QED
    BY <1>3, <2>1, <2>2
<1>5. ASSUME NEW c \in Callers, NEW g \in Hashes, PutExtracted(c, g)
      PROVE  Effective(kind, rows, cache) \subseteq Effective(kind', rows', cache')
  <2>1. cache' = [cache EXCEPT ![g] = Newest + 1] /\ kind' = Append(kind, g) /\ rows' = rows
    BY <1>5 DEF PutExtracted
  <2>2. \A h \in Hashes : cache'[h] = cache[h] \/ cache'[h] = Newest + 1
    BY <1>1, <2>1 DEF Cached
  <2>3. \A h \in Hashes : cache[h] <= cache'[h]
    BY <1>1, <1>2, <2>2
  <2>4. QED
    BY <1>3, <2>1, <2>3
<1>6. ASSUME UNCHANGED <<loaded, logged, rows, cache, kind>>
      PROVE  Effective(kind, rows, cache) \subseteq Effective(kind', rows', cache')
  BY <1>6
<1>7. ~Load
  BY DEF Load
<1>8. Effective(kind, rows, cache) \subseteq Effective(kind', rows', cache')
  BY <1>4, <1>5, <1>6, <1>7, MemoryMoves
<1>9. QED
  BY <1>8, InEffectIs, NextInEffectIs

\* Where nothing is under way and the log and the snapshot need nothing, the
\* files hold what memory does.
LEMMA CleanIsDurable ==
  ASSUME SnapInv, loaded, ~dirty, job.at = "idle", logged => pending = NoEntries
  PROVE  Effective(kind, rows, cache) \subseteq Durable
<1>1. SnapTypeOK /\ LogCatchesUp /\ SnapshotCatchesUp
  BY DEF SnapInv
<1>2. rows = snapshot.rows
  BY <1>1 DEF SnapshotCatchesUp
<1>3. ASSUME NEW h \in Hashes PROVE cache[h] = Reloaded[h]
  <2>1. CASE logged
    BY <1>1, <2>1, NoEntriesIsCached DEF LogCatchesUp
  <2>2. CASE ~logged
    <3>1. log.entries[h] = 0 /\ cache = snapshot.extracted
      BY <1>1, <2>2, NoEntriesIsCached DEF LogCatchesUp, SnapshotCatchesUp
    <3>2. QED
      BY <1>1, <3>1, ReloadedIs
  <2>3. QED
    BY <2>1, <2>2
<1>4. \A h \in Hashes : cache[h] <= Reloaded[h]
  BY <1>1, <1>3, CachesAreNumbers
<1>5. QED
  <2>1. kind \in Kinds /\ cache \in Cached /\ Reloaded \in Cached
    BY <1>1, ReloadedIs DEF SnapTypeOK, Kinds
  <2>2. Effective(kind, rows, cache) \subseteq Effective(kind, snapshot.rows, Reloaded)
    BY <1>2, <1>4, <2>1, MoreIsInEffect
  <2>3. QED
    BY <2>2, InEffectIs

\* The same once the first request's append is done.
LEMMA AppendedIsDurable ==
  ASSUME SnapInv, Appended, NEW m \in due[Head(chain)]
  PROVE  /\ Head(chain) \in Requesters /\ m \in 1..Newest
         /\ kind[m] = Row => m \in rows
         /\ kind[m] # Row => kind[m] \in Hashes /\ m <= log'.entries[kind[m]]
<1>1. SnapTypeOK /\ LogCatchesUp /\ DueIsOnItsWay
  BY DEF SnapInv
<1>2. job.at = "append" /\ chain # <<>>
  BY DEF Appended, SnapInv, OneRequestEach
<1>3. Head(chain) \in Requesters
  BY <1>1, <1>2 DEF SnapTypeOK
<1>4. m \in InEffect(rows, cache)
  BY <1>1, <1>3 DEF DueIsOnItsWay
<1>5. m \in 1..Newest /\ (kind[m] = Row => m \in rows) /\ kind[m] \in Hashes \union {Row}
  BY <1>1, <1>4 DEF InEffect, Newest, SnapTypeOK
<1>6. ASSUME kind[m] # Row PROVE m <= log'.entries[kind[m]]
  <2>1. kind[m] \in Hashes /\ m \in Nat /\ m > 0
    BY <1>1, <1>5, <1>6 DEF SnapTypeOK, Newest
  <2>2. m <= Overlay(job.batch, Reloaded)[kind[m]]
    BY <1>1, <1>2, <1>6 DEF DueIsOnItsWay
  <2>3. /\ Overlay(job.batch, Reloaded)[kind[m]]
             = IF job.batch[kind[m]] # 0 THEN job.batch[kind[m]] ELSE Reloaded[kind[m]]
        /\ Overlay(job.batch, log.entries)[kind[m]]
             = IF job.batch[kind[m]] # 0 THEN job.batch[kind[m]] ELSE log.entries[kind[m]]
    BY <1>1, <2>1, OverlayIsCached, ReloadedIs DEF SnapTypeOK
  <2>4. Reloaded[kind[m]] = IF log.entries[kind[m]] # 0 THEN log.entries[kind[m]] ELSE snapshot.extracted[kind[m]]
    BY <1>1, <2>1, ReloadedIs
  <2>5. ~(OnlyInSnapshot(kind[m]) /\ job.batch[kind[m]] = 0)
    <3>1. loaded /\ logged
      BY <1>1, <1>2 DEF SnapInv, MemoryLeads, LogCatchesUp
    <3>2. QED
      BY <1>1, <1>2, <2>1, <3>1 DEF LogCatchesUp
  <2>6. log'.entries = Overlay(job.batch, log.entries)
    BY AppendIsSound
  <2>7. /\ job.batch[kind[m]] \in Nat /\ log.entries[kind[m]] \in Nat /\ snapshot.extracted[kind[m]] \in Nat
    BY <1>1, <2>1, CachesAreNumbers
  <2>8. QED
    BY <2>1, <2>2, <2>3, <2>4, <2>5, <2>6, <2>7 DEF OnlyInSnapshot
<1>7. QED
  BY <1>3, <1>5, <1>6

\* A call is answered when what it asked for is in the files.
LEMMA AnsweredIsDurable ==
  ASSUME SnapInv, SnapNext, acked' # acked
  PROVE  acked' = acked \union due[Head(chain)] /\ due[Head(chain)] \subseteq Durable'
<1>1. SnapTypeOK /\ SnapTypeOK' /\ LogCatchesUp /\ SnapshotCatchesUp /\ MemoryLeads /\ DueIsOnItsWay /\ kind \in Kinds
  BY SnapTypesStay DEF SnapInv, SnapTypeOK, Kinds
<1>2. /\ Durable' = Effective(kind', snapshot'.rows, Reloaded')
      /\ Durable = Effective(kind, snapshot.rows, Reloaded)
      /\ InEffect(rows, cache) = Effective(kind, rows, cache)
  BY InEffectIs, NextInEffectIs
<1>3. ASSUME chain # <<>> PROVE Head(chain) \in Requesters /\ due[Head(chain)] \subseteq Effective(kind, rows, cache)
  <2>1. Head(chain) \in Requesters
    BY <1>1, <1>3 DEF SnapTypeOK
  <2>2. QED
    BY <1>1, <1>2, <2>1 DEF DueIsOnItsWay
<1>4. CASE StartJob
  <2>1. Resolve /\ chain # <<>> /\ job.at = "idle" /\ UNCHANGED <<kind, snapshot, log>>
    BY <1>4 DEF StartJob, WriteSnapshot, files
  <2>2. acked' = acked \union due[Head(chain)]
    BY <2>1 DEF Resolve
  <2>3. Durable' = Durable
    BY <1>2, <2>1 DEF Reloaded
  <2>4. CASE ~loaded
    BY <1>1, <1>3, <2>1, <2>2, <2>4 DEF MemoryLeads
  <2>5. CASE loaded
    <3>1. (logged => pending = NoEntries) /\ ~dirty
      BY <1>4, <2>5 DEF StartJob, WriteSnapshot
    <3>2. Effective(kind, rows, cache) \subseteq Durable
      BY <2>1, <2>5, <3>1, CleanIsDurable
    <3>3. QED
      BY <1>3, <2>1, <2>2, <2>3, <3>2
  <2>6. QED
    BY <2>4, <2>5
<1>5. CASE Appended
  <2>1. /\ Resolve /\ ~dirty /\ job.at = "append" /\ loaded
        /\ UNCHANGED <<kind, snapshot, rows>>
    BY <1>1, <1>5 DEF Appended, WriteSnapshot, MemoryLeads
  <2>2. acked' = acked \union due[Head(chain)]
    BY <2>1 DEF Resolve
  <2>3. rows = snapshot.rows
    BY <1>1, <2>1 DEF SnapshotCatchesUp
  <2>4. ASSUME NEW m \in due[Head(chain)] PROVE m \in Effective(kind, snapshot.rows, Reloaded')
    <3>1. /\ m \in 1..Newest /\ (kind[m] = Row => m \in rows)
          /\ kind[m] # Row => kind[m] \in Hashes /\ m <= log'.entries[kind[m]]
      BY <1>5, AppendedIsDurable
    <3>2. ASSUME kind[m] # Row PROVE m <= Reloaded'[kind[m]]
      <4>1. kind[m] \in Hashes /\ m \in 1..Newest /\ m <= log'.entries[kind[m]]
        BY <3>1, <3>2
      <4>2. log'.entries[kind[m]] \in Nat
        BY <1>1, <4>1 DEF SnapTypeOK, Cached
      <4>3. m \in Nat /\ m > 0
        BY <1>1, <4>1 DEF Newest, SnapTypeOK
      <4>4. QED
        BY <1>1, <4>1, <4>2, <4>3, NextReloadedIs
    <3>3. QED
      BY <2>3, <3>1, <3>2 DEF Effective, Newest
  <2>5. QED
    BY <1>2, <2>1, <2>2, <2>4
<1>6. CASE Written
  <2>1. /\ Resolve /\ job.at = "write" /\ snapshot' = job.image /\ UNCHANGED <<kind, log>>
    BY <1>6 DEF Written
  <2>2. acked' = acked \union due[Head(chain)]
    BY <2>1 DEF Resolve
  <2>3. due[Head(chain)] \subseteq Effective(kind, job.image.rows, Overlay(log.entries, job.image.extracted))
    BY <1>1, <2>1, InEffectIs DEF DueIsOnItsWay
  <2>4. Reloaded' = Overlay(log.entries, job.image.extracted)
    BY <2>1 DEF Reloaded
  <2>5. QED
    BY <1>2, <2>1, <2>2, <2>3, <2>4
<1>7. UNCHANGED acked \/ StartJob \/ Appended \/ Written
  BY DEF SnapNext, Load, AppendFails, Reject, WriteFails, StoreDies, ChangeRows, PutExtracted, PutSame,
         Decide, BeginBatch, FlushBatch, EndBatch
<1>8. QED
  BY <1>4, <1>5, <1>6, <1>7

LEMMA DueMoves ==
  ASSUME SnapInv, SnapNext, NEW r \in Requesters
  PROVE  due'[r] \subseteq due[r] \/ due'[r] = InEffect(rows, cache)
<1>1. SnapTypeOK
  BY DEF SnapInv
<1>2. ASSUME NEW q \in Requesters, Request(q) PROVE due'[r] = due[r] \/ due'[r] = InEffect(rows, cache)
  BY <1>1, <1>2 DEF Request, SnapTypeOK
<1>3. ASSUME NEW q, Answered(q) PROVE due'[r] \subseteq due[r]
  BY <1>1, <1>3 DEF Answered, SnapTypeOK
<1>4. CASE \E c \in Callers : Decide(c) \/ FlushBatch(c)
  BY <1>2, <1>4 DEF Decide, FlushBatch, Requesters
<1>5. CASE StartJob \/ Appended \/ AppendFails \/ Written \/ WriteFails
  BY <1>3, <1>5 DEF StartJob, Appended, AppendFails, Written, WriteFails, WriteSnapshot, Resolve, Reject
<1>6. CASE StoreDies
  BY <1>6 DEF StoreDies
<1>7. CASE Load \/ \E c \in Callers :
       \/ ChangeRows(c) \/ PutSame(c) \/ BeginBatch(c) \/ EndBatch(c)
       \/ \E h \in Hashes : PutExtracted(c, h)
  BY <1>7 DEF Load, calls, ChangeRows, PutSame, BeginBatch, EndBatch, PutExtracted
<1>8. QED
  BY <1>4, <1>5, <1>6, <1>7 DEF SnapNext

\* While a request is answered, callers add changes and requests behind it.
LEMMA FirstStays ==
  ASSUME SnapInv, job.at # "idle", NEW c \in Callers,
         \/ ChangeRows(c) \/ PutSame(c) \/ Decide(c) \/ BeginBatch(c) \/ FlushBatch(c) \/ EndBatch(c)
         \/ \E h \in Hashes : PutExtracted(c, h)
  PROVE  /\ UNCHANGED <<job, snapshot, log>>
         /\ Head(chain') = Head(chain) /\ due'[Head(chain')] = due[Head(chain)]
         /\ kind' = kind \/ \E k \in Hashes \union {Row} : kind' = Append(kind, k)
<1>1. SnapTypeOK /\ OneRequestEach /\ chain # <<>>
  BY DEF SnapInv, OneRequestEach
<1>2. Head(chain) = chain[1] /\ 1 \in DOMAIN chain /\ Head(chain) \in Requesters
  BY <1>1 DEF SnapTypeOK
<1>3. ASSUME NEW r \in Requesters, Request(r), r # Head(chain)
      PROVE  Head(chain') = Head(chain) /\ due'[Head(chain')] = due[Head(chain)]
  <2>1. chain' = Append(chain, r) /\ due' = [due EXCEPT ![r] = InEffect(rows, cache)]
    BY <1>3 DEF Request
  <2>2. Head(chain') = Head(chain)
    BY <1>1, <2>1 DEF SnapTypeOK
  <2>3. QED
    BY <1>1, <1>2, <1>3, <2>1, <2>2 DEF SnapTypeOK
<1>4. pc[c] # "waiting" => c # Head(chain)
  BY <1>1, <1>2 DEF OneRequestEach
<1>5. CASE Decide(c)
  <2>1. pc[c] # "waiting" /\ UNCHANGED <<job, snapshot, log, kind>>
    BY <1>5 DEF Decide, files
  <2>2. CASE Request(c)
    BY <1>3, <1>4, <2>1, <2>2 DEF Requesters
  <2>3. CASE Request(Timer) /\ \A i \in DOMAIN chain : chain[i] # Timer
    BY <1>2, <1>3, <2>1, <2>3 DEF Requesters
  <2>4. CASE UNCHANGED <<chain, due>>
    BY <2>1, <2>4
  <2>5. QED
    BY <1>5, <2>2, <2>3, <2>4 DEF Decide
<1>6. CASE FlushBatch(c)
  BY <1>3, <1>4, <1>6 DEF FlushBatch, Requesters, files
<1>7. CASE ChangeRows(c)
  BY <1>7 DEF ChangeRows, files
<1>8. ASSUME NEW h \in Hashes, PutExtracted(c, h)
      PROVE  UNCHANGED <<job, snapshot, log, chain, due>> /\ kind' = Append(kind, h)
  BY <1>8 DEF PutExtracted, files
<1>9. CASE PutSame(c) \/ BeginBatch(c) \/ EndBatch(c)
  BY <1>9 DEF PutSame, BeginBatch, EndBatch, files
<1>10. QED
  BY <1>5, <1>6, <1>7, <1>8, <1>9

LEMMA DueStays == ASSUME SnapInv, SnapNext PROVE DueIsOnItsWay'
<1>1. SnapTypeOK /\ SnapTypeOK' /\ DueIsOnItsWay /\ MemoryLeads /\ LogCatchesUp /\ kind \in Kinds /\ Newest = Len(kind)
  BY SnapTypesStay DEF SnapInv, SnapTypeOK, Kinds, Newest
<1>2. ASSUME NEW r \in Requesters PROVE due'[r] \subseteq InEffect(rows, cache)'
  <2>1. CASE StoreDies
    BY <2>1 DEF StoreDies
  <2>2. CASE ~StoreDies /\ loaded
    BY <1>1, <1>2, <2>2, DueMoves, EffectGrows DEF DueIsOnItsWay
  <2>3. CASE ~StoreDies /\ ~loaded
    BY <1>1, <1>2, <2>3, DueMoves, NothingInEffect DEF MemoryLeads
  <2>4. QED
    BY <2>1, <2>2, <2>3
<1>3. ASSUME NEW m, m \in due[Head(chain)], chain # <<>>
      PROVE  /\ m \in Effective(kind, rows, cache) /\ m \in 1..Newest
             /\ kind[m] # Row => kind[m] \in Hashes /\ m <= cache[kind[m]]
  <2>1. Head(chain) \in Requesters
    BY <1>1, <1>3 DEF SnapTypeOK
  <2>2. m \in Effective(kind, rows, cache)
    BY <1>1, <1>3, <2>1, InEffectIs DEF DueIsOnItsWay
  <2>3. QED
    BY <1>1, <2>2 DEF Effective, Kinds
<1>4. ASSUME job.at # "idle", NEW c \in Callers,
             \/ ChangeRows(c) \/ PutSame(c) \/ Decide(c) \/ BeginBatch(c) \/ FlushBatch(c) \/ EndBatch(c)
             \/ \E h \in Hashes : PutExtracted(c, h)
      PROVE  DueIsOnItsWay'
  <2>1. /\ UNCHANGED <<job, snapshot, log>> /\ due'[Head(chain')] = due[Head(chain)]
        /\ kind' = kind \/ \E k \in Hashes \union {Row} : kind' = Append(kind, k)
    BY <1>4, FirstStays
  <2>2. chain # <<>>
    BY <1>4 DEF SnapInv, OneRequestEach
  <2>3. Reloaded' = Reloaded /\ Overlay(job.batch, Reloaded)' = Overlay(job.batch, Reloaded)
    BY <2>1 DEF Reloaded, Overlay
  <2>4. \A m \in due[Head(chain)] : kind'[m] = kind[m]
    BY <1>1, <1>3, <2>1, <2>2, MoreChanges
  <2>5. job.at = "append" => \A m \in due'[Head(chain')] :
          kind'[m] # Row => m <= Overlay(job.batch, Reloaded)'[kind'[m]]
    BY <1>1, <2>1, <2>3, <2>4 DEF DueIsOnItsWay
  <2>6. job.at = "write" =>
          due'[Head(chain')] \subseteq Effective(kind', job.image.rows, Overlay(log.entries, job.image.extracted))
    BY <1>1, <2>1, InEffectIs, MoreChanges DEF DueIsOnItsWay
  <2>7. QED
    BY <1>2, <2>1, <2>5, <2>6, NextInEffectIs DEF DueIsOnItsWay
<1>5. ASSUME job'.at = "idle" PROVE DueIsOnItsWay'
  BY <1>2, <1>5 DEF DueIsOnItsWay
<1>6. CASE StartJob
  <2>1. chain # <<>> /\ job.at = "idle" /\ job.batch = NoEntries /\ UNCHANGED <<kind, snapshot, log, rows, cache>>
    BY <1>1, <1>6 DEF StartJob, LogCatchesUp, files
  <2>2. CASE ~loaded
    BY <1>5, <1>6, <2>2 DEF StartJob, Resolve, Idle
  <2>3. CASE loaded /\ logged /\ pending # NoEntries
    <3>1. job'.at = "append" /\ job'.batch = pending /\ UNCHANGED <<chain, due>>
      BY <1>1, <1>6, <2>3 DEF StartJob, SnapTypeOK
    <3>2. Overlay(job.batch, Reloaded)' = Overlay(pending, Reloaded)
      BY <2>1, <3>1 DEF Reloaded, Overlay
    <3>3. ASSUME NEW h \in Hashes PROVE Overlay(pending, Reloaded)[h] = cache[h]
      <4>1. job.batch[h] = 0
        BY <2>1, NoEntriesIsCached
      <4>2. Overlay(pending, Reloaded)[h] = IF pending[h] # 0 THEN pending[h] ELSE Reloaded[h]
        BY <1>1, OverlayIsCached, ReloadedIs DEF SnapTypeOK
      <4>3. (pending[h] # 0 => pending[h] = cache[h]) /\ (pending[h] = 0 => Reloaded[h] = cache[h])
        BY <1>1, <2>3, <4>1 DEF LogCatchesUp
      <4>4. QED
        BY <4>2, <4>3
    <3>4. \A m \in due'[Head(chain')] : kind'[m] # Row => m <= Overlay(job.batch, Reloaded)'[kind'[m]]
      BY <1>3, <2>1, <3>1, <3>2, <3>3
    <3>5. QED
      BY <1>2, <3>1, <3>4 DEF DueIsOnItsWay
  <2>4. CASE loaded /\ ~(logged /\ pending # NoEntries) /\ ~dirty
    BY <1>5, <1>6, <2>4 DEF StartJob, WriteSnapshot, Resolve, Idle
  <2>5. CASE loaded /\ ~(logged /\ pending # NoEntries) /\ dirty
    <3>1. /\ job'.at = "write" /\ job'.image = Image /\ UNCHANGED <<chain, due>>
      <4>1. WriteSnapshot
        BY <1>6, <2>5 DEF StartJob
      <4>2. QED
        BY <2>5, <4>1 DEF WriteSnapshot
    <3>2. ASSUME NEW h \in Hashes PROVE cache[h] <= Overlay(log.entries, Image.extracted)[h]
      <4>1. Overlay(log.entries, Image.extracted)[h]
              = IF log.entries[h] # 0 THEN log.entries[h] ELSE Image.extracted[h]
        BY <1>1, OverlayIsCached, NoEntriesIsCached DEF SnapTypeOK, Image
      <4>2. cache[h] \in Nat /\ log.entries[h] \in Nat /\ snapshot.extracted[h] \in Nat /\ NoEntries[h] = 0
        BY <1>1, CachesAreNumbers
      <4>3. CASE logged
        <5>1. pending[h] = 0 /\ job.batch[h] = 0
          BY <2>1, <2>5, <4>3, NoEntriesIsCached
        <5>2. Reloaded[h] = cache[h] /\ ~OnlyInSnapshot(h)
          BY <1>1, <2>1, <2>5, <4>3, <5>1 DEF LogCatchesUp
        <5>3. Reloaded[h] = IF log.entries[h] # 0 THEN log.entries[h] ELSE snapshot.extracted[h]
          BY <1>1, ReloadedIs
        <5>4. Image.extracted[h] = 0
          BY <4>2, <4>3 DEF Image
        <5>5. QED
          BY <4>1, <4>2, <5>2, <5>3, <5>4 DEF OnlyInSnapshot
      <4>4. CASE ~logged
        <5>1. log.entries[h] = 0 /\ Image.extracted = cache
          BY <1>1, <4>4, NoEntriesIsCached DEF LogCatchesUp, Image
        <5>2. QED
          BY <4>1, <4>2, <5>1
      <4>5. QED
        BY <4>3, <4>4
    <3>3. Image.rows = rows /\ Image.extracted \in Cached
      BY <1>1, NoEntriesIsCached DEF Image, SnapTypeOK
    <3>4. Overlay(log.entries, Image.extracted) \in Cached
      BY <1>1, <3>3, OverlayIsCached DEF SnapTypeOK
    <3>5. Effective(kind, rows, cache) \subseteq Effective(kind, Image.rows, Overlay(log.entries, Image.extracted))
      BY <1>1, <3>2, <3>3, <3>4, MoreIsInEffect DEF SnapTypeOK
    <3>6. due'[Head(chain')] \subseteq Effective(kind, rows, cache)
      BY <1>3, <2>1, <3>1
    <3>7. QED
      BY <1>2, <2>1, <3>1, <3>5, <3>6, NextInEffectIs DEF DueIsOnItsWay
  <2>6. QED
    BY <2>2, <2>3, <2>4, <2>5
<1>7. CASE Appended
  <2>1. CASE ~dirty
    BY <1>5, <1>7, <2>1 DEF Appended, WriteSnapshot, Resolve, Idle
  <2>2. CASE dirty
    <3>1. /\ job'.at = "write" /\ job'.image = Image /\ UNCHANGED <<kind, chain, due>>
          /\ logged
      BY <1>1, <1>7, <2>2 DEF Appended, WriteSnapshot, LogCatchesUp
    <3>2. Image.rows = rows /\ Image.extracted = NoEntries
      BY <3>1 DEF Image
    <3>3. log'.entries \in Cached
      BY <1>1 DEF SnapTypeOK
    <3>4. \A h \in Hashes : Overlay(log'.entries, NoEntries)[h] = log'.entries[h]
      BY <3>3, NoEntriesIsCached, OverlayIsCached
    <3>5. ASSUME NEW m \in due[Head(chain)] PROVE m \in Effective(kind, rows, Overlay(log'.entries, NoEntries))
      <4>1. /\ m \in 1..Newest
            /\ kind[m] = Row => m \in rows
            /\ kind[m] # Row => kind[m] \in Hashes /\ m <= log'.entries[kind[m]]
        BY <1>7, AppendedIsDurable
      <4>2. QED
        BY <1>1, <3>4, <4>1 DEF Effective
    <3>6. QED
      BY <1>2, <3>1, <3>2, <3>5, NextInEffectIs DEF DueIsOnItsWay
  <2>3. QED
    BY <2>1, <2>2
<1>8. CASE AppendFails \/ Written \/ WriteFails \/ StoreDies
  <2>1. job' = Idle
    BY <1>8 DEF AppendFails, Written, WriteFails, StoreDies, Resolve, Reject
  <2>2. QED
    BY <1>5, <2>1 DEF Idle
<1>9. CASE Load
  BY <1>1, <1>5, <1>9 DEF Load, calls, MemoryLeads
<1>10. CASE job.at = "idle" /\ \E c \in Callers :
         \/ ChangeRows(c) \/ PutSame(c) \/ Decide(c) \/ BeginBatch(c) \/ FlushBatch(c) \/ EndBatch(c)
         \/ \E h \in Hashes : PutExtracted(c, h)
  BY <1>5, <1>10 DEF ChangeRows, PutSame, Decide, BeginBatch, FlushBatch, EndBatch, PutExtracted
<1>11. QED
  BY <1>4, <1>6, <1>7, <1>8, <1>9, <1>10 DEF SnapNext

-----------------------------------------------------------------------------
(* The invariant, and the abstract store.                                    *)

LEMMA SnapStarts == ASSUME SnapInit PROVE SnapInv
<1> USE NoEntriesIsCached DEF SnapInit
<1>1. SnapTypeOK
  <2>1. /\ snapshot \in [rows : SUBSET Nat, extracted : Cached]
        /\ log \in [entries : Cached, open : BOOLEAN]
    OBVIOUS
  <2>2. chain \in Seq(Requesters) /\ kind \in Seq(Hashes \union {Row})
    OBVIOUS
  <2>3. /\ pc \in [Callers -> {"idle", "applied", "ended", "waiting"}]
        /\ due \in [Requesters -> SUBSET Nat] /\ faults \in 0..MaxFaults
    BY SnapshotAssumption
  <2>4. QED
    BY <2>1, <2>2, <2>3, IdleIsTyped DEF SnapTypeOK
<1>2. BatchesAreOpen
  BY FS_EmptySet DEF BatchesAreOpen
<1>3. \A h \in Hashes : Reloaded[h] = 0
  BY <1>1, ReloadedIs
<1>4. Numbered /\ MemoryLeads
  BY <1>3 DEF Numbered, MemoryLeads, Newest, Idle
<1>5. LogCatchesUp /\ SnapshotCatchesUp
  BY DEF LogCatchesUp, SnapshotCatchesUp, Idle
<1>6. OneRequestEach /\ DueIsOnItsWay
  BY DEF OneRequestEach, DueIsOnItsWay, Idle
<1>7. QED
  BY <1>1, <1>2, <1>4, <1>5, <1>6 DEF SnapInv

LEMMA SnapStutters == ASSUME SnapInv, UNCHANGED snapVars PROVE SnapInv'
<1> USE DEF snapVars, memory, files, calls
<1>1. SnapTypeOK' /\ BatchesAreOpen'
  BY DEF SnapInv, SnapTypeOK, BatchesAreOpen
<1>2. Reloaded' = Reloaded
  BY DEF Reloaded
<1>3. Numbered' /\ MemoryLeads'
  BY <1>2 DEF SnapInv, Numbered, MemoryLeads, Newest
<1>4. LogCatchesUp' /\ SnapshotCatchesUp'
  BY <1>2 DEF SnapInv, LogCatchesUp, SnapshotCatchesUp, OnlyInSnapshot
<1>5. OneRequestEach'
  BY DEF SnapInv, OneRequestEach
<1>6. DueIsOnItsWay'
  <2>1. /\ InEffect(rows, cache)' = InEffect(rows, cache)
        /\ InEffect(job.image.rows, Overlay(log.entries, job.image.extracted))'
             = InEffect(job.image.rows, Overlay(log.entries, job.image.extracted))
        /\ Overlay(job.batch, Reloaded)' = Overlay(job.batch, Reloaded)
    BY <1>2, InEffectIs, NextInEffectIs DEF Overlay
  <2>2. QED
    BY <2>1 DEF SnapInv, DueIsOnItsWay
<1>7. QED
  BY <1>1, <1>3, <1>4, <1>5, <1>6 DEF SnapInv

\* The store keeps what its memory, its files and its requests owe each other,
\* whichever port fails and wherever it dies.
THEOREM SnapInvariance == SnapSpec => []SnapInv
<1>1. SnapInv /\ [SnapNext]_snapVars => SnapInv'
  <2>1. ASSUME SnapInv, SnapNext PROVE SnapInv'
    BY <2>1, SnapTypesStay, BatchesStay, NumberedStays, LeadsStay, LogStays, SnapshotStays, RequestsStay, DueStays
       DEF SnapInv
  <2>2. QED
    BY <2>1, SnapStutters
<1>2. QED
  BY <1>1, SnapStarts, PTL DEF SnapSpec

LEMMA StepsAreAbstract ==
  ASSUME SnapInv, SnapNext
  PROVE  Promises!StoreNext \/ UNCHANGED Promises!store
<1>1. SnapTypeOK /\ SnapTypeOK' /\ SnapInv' /\ kind \in Kinds /\ kind' \in Kinds /\ Newest = Len(kind)
  <2>1. SnapInv'
    BY SnapTypesStay, BatchesStay, NumberedStays, LeadsStay, LogStays, SnapshotStays, RequestsStay, DueStays
       DEF SnapInv
  <2>2. QED
    BY <2>1 DEF SnapInv, SnapTypeOK, Kinds, Newest
<1>2. /\ Held = IF loaded THEN Effective(kind, rows, cache) ELSE Effective(kind, snapshot.rows, Reloaded)
      /\ Durable = Effective(kind, snapshot.rows, Reloaded)
      /\ Held' = IF loaded' THEN Effective(kind', rows', cache') ELSE Effective(kind', snapshot'.rows, Reloaded')
      /\ Durable' = Effective(kind', snapshot'.rows, Reloaded')
  BY InEffectIs, NextInEffectIs
<1>3. Reloaded \in Cached /\ Reloaded' \in Cached /\ cache \in Cached
  BY <1>1, ReloadedIs, NextReloadedIs DEF SnapTypeOK
<1>4. ASSUME UNCHANGED kind PROVE Durable \subseteq Durable' /\ Durable' \subseteq Held
  <2>1. Durable \subseteq Durable'
    BY <1>1, <1>2, <1>3, <1>4, FilesGrow, MoreIsInEffect
  <2>2. loaded => Durable' \subseteq Held
    BY <1>1, <1>2, <1>3, <1>4, FilesGrow, MoreIsInEffect
  <2>3. ~loaded => Durable' \subseteq Held
    BY <1>2, <1>4, FilesGrow
  <2>4. QED
    BY <2>1, <2>2, <2>3
<1>5. ASSUME NEW k \in Hashes \union {Row}, kind' = Append(kind, k), loaded, ~StoreDies,
             UNCHANGED <<loaded, snapshot, log, acked>>
      PROVE  Promises!StoreNext
  <2>1. Reloaded' = Reloaded
    BY <1>5 DEF Reloaded
  <2>2. snapshot.rows \subseteq 1..Newest /\ \A h \in Hashes : Reloaded[h] <= Newest
    BY DEF SnapInv, Numbered
  <2>3. Durable' = Durable
    BY <1>1, <1>2, <1>3, <1>5, <2>1, <2>2, NewChange
  <2>4. Held \subseteq Held'
    BY <1>2, <1>5, EffectGrows, InEffectIs, NextInEffectIs
  <2>5. QED
    BY <1>5, <2>3, <2>4 DEF Promises!StoreNext, Promises!Apply
<1>6. ASSUME NEW c \in Callers, ChangeRows(c) PROVE Promises!StoreNext
  BY <1>5, <1>6 DEF ChangeRows, StoreDies, files
<1>7. ASSUME NEW c \in Callers, NEW h \in Hashes, PutExtracted(c, h) PROVE Promises!StoreNext
  BY <1>5, <1>7 DEF PutExtracted, StoreDies, files
<1>8. CASE StoreDies
  <2>1. ~loaded' /\ UNCHANGED <<kind, acked>>
    BY <1>8 DEF StoreDies
  <2>2. Held' = Durable'
    BY <1>2, <2>1
  <2>3. QED
    BY <1>4, <2>1, <2>2 DEF Promises!StoreNext, Promises!Die
<1>9. ASSUME UNCHANGED kind, Held' = Held PROVE Promises!StoreNext
  <2>1. acked \subseteq acked' /\ acked' \ acked \subseteq Durable'
    BY AnsweredIsDurable
  <2>2. QED
    BY <1>4, <1>9, <2>1 DEF Promises!StoreNext, Promises!Persist
<1>10. CASE Load
  <2>1. ~loaded /\ loaded' /\ rows' = snapshot.rows /\ cache' = Reloaded /\ UNCHANGED kind
    BY <1>10 DEF Load
  <2>2. QED
    BY <1>2, <1>9, <2>1
<1>11. CASE UNCHANGED <<loaded, logged, rows, cache, kind>>
  <2>1. CASE loaded
    BY <1>2, <1>9, <1>11, <2>1
  <2>2. CASE ~loaded
    BY <1>2, <1>9, <1>11, <2>2, FilesGrow
  <2>3. QED
    BY <2>1, <2>2
<1>12. QED
  BY <1>6, <1>7, <1>8, <1>10, <1>11, MemoryMoves

\* The snapshot store implements the abstract store: what it acknowledged is
\* never lost, whatever fails or dies (persistIfDirty, load and the log's
\* fresh lines).
THEOREM SnapRefinement == SnapSpec => ImplementsDurableStore
<1>1. SnapInit => Promises!StoreInit
  <2>1. ASSUME SnapInit PROVE Held = {} /\ Durable = {} /\ acked = {}
    BY <2>1, InEffectIs DEF SnapInit, Effective
  <2>2. QED
    BY <2>1 DEF Promises!StoreInit
<1>2. SnapInv /\ [SnapNext]_snapVars => [Promises!StoreNext]_(Promises!store)
  <2>1. ASSUME SnapInv, UNCHANGED snapVars PROVE UNCHANGED Promises!store
    <3>1. Reloaded' = Reloaded
      BY <2>1 DEF snapVars, files, Reloaded
    <3>2. Held' = Held /\ Durable' = Durable
      BY <2>1, <3>1, InEffectIs, NextInEffectIs DEF snapVars, memory, files
    <3>3. QED
      BY <2>1, <3>2 DEF snapVars, Promises!store
  <2>2. QED
    BY <2>1, StepsAreAbstract
<1>3. QED
  BY <1>1, <1>2, SnapInvariance, PTL DEF SnapSpec, ImplementsDurableStore, Promises!StoreSpec
==============================================================================
