------------------------ MODULE NodeFileStoreProofs ------------------------
(***************************************************************************)
(* First, whatever calls fail and however unlocked reads and renames       *)
(* interleave: types, what rejects is undone, news is another's commit.    *)
(*                                                                         *)
(* Then, no commit is ever lost, for any number of processes,              *)
(* transactions, failed writes, crashes and restarts, as long as no rename *)
(* falls between an unlocked read of the file and the stat after it        *)
(* (NoReadOverlap) and the file can always be read and stat'ed             *)
(* (ReadsSucceed).  Both hypotheses are needed: NodeFileNoLostCommit drops *)
(* the first, and a read that fails under the lock loses a commit as well. *)
(***************************************************************************)
EXTENDS NodeFileStore, TLAPS

USE DEF Persisting

-----------------------------------------------------------------------------
(* Whatever fails and overlaps. *)

\* A step of p.
Step(p) ==
    \/ Begin(p) \/ Stat(p) \/ StatFails(p) \/ ReadDocument(p) \/ ReadFails(p) \/ Restat(p)
    \/ Mutate(p) \/ MutateThrows(p) \/ OpenTmp(p) \/ WriteTmp(p) \/ SyncTmp(p) \/ Rename(p)
    \/ PersistFails(p)
    \/ StampOwn(p) \/ Finish(p) \/ Poll(p) \/ Note(p) \/ Crash(p) \/ Open(p)

\* A transaction runs under the number its process began it with.
TransactionIsNumbered == \A p \in Clients : InTransaction(p) => 0 < begun /\ txn[p] = <<p, begun>>

\* The types the step lemmas use.
LEMMA Types ==
    ASSUME TypeOK
    PROVE  /\ disk = [doc |-> disk.doc, stamp |-> disk.stamp]
           /\ disk.doc \in Doc /\ disk.stamp \in Nat /\ begun \in Nat
           /\ pc \in [Clients -> Steps] /\ task \in [Clients -> Tasks]
           /\ mem \in [Clients -> Doc] /\ buf \in [Clients -> Doc] /\ snapshot \in [Clients -> Doc]
           /\ told \in [Clients -> SUBSET Writes]
           /\ stamp \in [Clients -> Nat] /\ txn \in [Clients -> Clients \X (0 .. MaxWrites)]
           /\ \A p \in Clients : stamp[p] \in 0 .. MaxWrites
           /\ \A w \in disk.doc.writes : w \in Writes
BY BoundAssumption DEF TypeOK, Doc

\* The number a transaction runs under is one it may have.
LEMMA NumbersAreBounded ==
    ASSUME TypeOK, TransactionIsNumbered, NEW p \in Clients, InTransaction(p)
    PROVE  txn[p] \in Writes /\ txn[p][2] \in 0 .. MaxWrites
BY DEF TypeOK, TransactionIsNumbered, Writes

\* Taking a stamp, whether or not the stat fails.
LEMMA StampIsTyped ==
    ASSUME TypeOK, NEW p \in Clients, NEW call, TakeStamp(p, call)
    PROVE  stamp' \in [Clients -> 0 .. MaxWrites] /\ faults' \in 0 .. MaxFaults
BY BoundAssumption DEF TypeOK, TakeStamp, Fails, Gone

\* Every step keeps the types, given that the tmp file is written before it is renamed.
LEMMA StepKeepsTypes ==
    ASSUME TypeOK, TmpIsWritten, TransactionIsNumbered, NEW p \in Clients, Step(p)
    PROVE  TypeOK'
<1>0. EmptyDoc \in Doc /\ NoFile \in [doc: Doc, stamp: 0 .. MaxWrites]
  BY BoundAssumption DEF EmptyDoc, Doc, NoFile
<1>a. /\ mem[p] \in Doc /\ mem[p].rev \in Nat /\ mem[p].writes \in SUBSET Writes
      /\ buf[p] \in Doc /\ buf[p].rev \in Nat /\ buf[p].writes \in SUBSET Writes
      /\ disk.doc \in Doc
  BY DEF TypeOK, Doc
<1>1. CASE Begin(p)
  BY <1>1, BoundAssumption, ClientAssumption
     DEF Begin, Goto, Lock!Acquire, TypeOK, Steps, Tasks, memory, bounds
<1>2. CASE Stat(p)
  BY <1>2, <1>0, BoundAssumption DEF Stat, Goto, AfterRefresh, TypeOK, Steps, bounds
<1>3. CASE StatFails(p)
  BY <1>3, BoundAssumption DEF StatFails, Fails, Goto, AfterRefresh, TypeOK, Steps, memory
<1>4. CASE ReadDocument(p)
  BY <1>4, <1>a DEF ReadDocument, Goto, TypeOK, Steps, bounds
<1>5. CASE ReadFails(p)
  <2>1. pc' \in [Clients -> Steps] /\ faults' \in 0 .. MaxFaults
    BY <1>5, BoundAssumption DEF ReadFails, Fails, Gone, Goto, AfterRefresh, TypeOK, Steps
  <2>2. ASSUME Recover(p)
        PROVE  /\ disk' \in [doc: Doc, stamp: 0 .. MaxWrites] /\ mem' \in [Clients -> Doc]
               /\ stamp' \in [Clients -> 0 .. MaxWrites]
               /\ last' \in [Clients -> Nat] /\ told' \in [Clients -> SUBSET Writes]
               /\ salvaged' \subseteq Writes
    <3>1. PICK doc \in Doc, number \in 0 .. MaxWrites :
             TakeOver(p, doc, number) /\ disk' \in {disk, NoFile}
      <4>1. tmp # NoDoc => \A w \in tmp.writes : w[2] \in 0 .. MaxWrites
        BY BoundAssumption DEF TypeOK, Doc, Writes
      <4>2. QED
        BY <2>2, <4>1, <1>0, BoundAssumption DEF Recover, TypeOK
    <3>2. doc.rev \in Nat /\ doc.writes \in SUBSET Writes
      BY DEF Doc
    <3>3. salvaged' \subseteq Writes
      BY <2>2 DEF Recover, TypeOK, Doc
    <3>4. QED
      BY <3>1, <3>2, <3>3, <1>0 DEF TypeOK, TakeOver, Subscribe
  <2>3. QED
    BY <1>5, <2>1, <2>2 DEF ReadFails, TypeOK
<1>6. CASE Restat(p)
  <2>1. stamp' \in [Clients -> 0 .. MaxWrites] /\ faults' \in 0 .. MaxFaults
    BY <1>6, StampIsTyped DEF Restat
  <2>2. last' \in [Clients -> Nat] /\ told' \in [Clients -> SUBSET Writes]
    BY <1>6, <1>a DEF TypeOK, Restat, Subscribe
  <2>3. mem' \in [Clients -> Doc] /\ pc' \in [Clients -> Steps]
    BY <1>6, <1>a DEF TypeOK, Restat, Goto, AfterRefresh, Steps
  <2>4. QED
    BY <1>6, <2>1, <2>2, <2>3 DEF TypeOK, Restat
<1>7. CASE Mutate(p)
  <2>1. txn[p] \in Writes
    BY <1>7, NumbersAreBounded DEF InTransaction, Mutate, Goto
  <2>2. \A n \in Bumps : [writes |-> mem[p].writes \cup {txn[p]}, rev |-> mem[p].rev + n] \in Doc
    BY <2>1, <1>a, BoundAssumption DEF Doc
  <2>3. PICK n \in Bumps :
           mem' = [mem EXCEPT ![p] =
                     [writes |-> mem[p].writes \cup {txn[p]}, rev |-> mem[p].rev + n]]
    BY <1>7 DEF Mutate
  <2>4. mem' \in [Clients -> Doc] /\ snapshot' \in [Clients -> Doc] /\ pc' \in [Clients -> Steps]
    BY <1>7, <2>2, <2>3 DEF TypeOK, Mutate, Goto, Steps
  <2>5. QED
    BY <1>7, <2>4 DEF TypeOK, Mutate, bounds
<1>8. CASE MutateThrows(p) \/ PersistFails(p)
  <2>1. txn[p] \in Writes
    BY <1>8, NumbersAreBounded DEF InTransaction, MutateThrows, PersistFails, Goto
  <2>2. faults' \in 0 .. MaxFaults
    <3>1. faults' = faults \/ (faults < MaxFaults /\ faults' = faults + 1)
      BY <1>8 DEF MutateThrows, PersistFails, Fails, bounds
    <3>2. QED
      BY <3>1, BoundAssumption DEF TypeOK
  <2>3. pc' \in [Clients -> Steps]
    BY <1>8 DEF TypeOK, MutateThrows, PersistFails, Goto, Steps
  <2>6. mem' \in [Clients -> Doc] /\ snapshot' \in [Clients -> Doc]
    BY <1>8, <1>a DEF TypeOK, MutateThrows, PersistFails
  <2>4. aborted' \subseteq Writes /\ tmp' \in Doc \cup {NoDoc}
    BY <1>8, <2>1 DEF TypeOK, MutateThrows, PersistFails
  <2>5. QED
    BY <1>8, <2>2, <2>3, <2>4, <2>6 DEF TypeOK, MutateThrows, PersistFails, bounds
<1>9. CASE OpenTmp(p) \/ WriteTmp(p) \/ SyncTmp(p)
  BY <1>9, <1>a DEF OpenTmp, WriteTmp, SyncTmp, Goto, TypeOK, Steps, memory, bounds
<1>10. CASE Rename(p)
  <2>1. tmp \in Doc /\ txn[p][2] \in 0 .. MaxWrites
    BY <1>10, <1>a, NumbersAreBounded DEF InTransaction, Rename, Goto, TmpIsWritten
  <2>2. QED
    BY <1>10, <2>1 DEF Rename, Goto, TypeOK, Steps, memory, bounds
<1>11. CASE StampOwn(p)
  <2>1. stamp' \in [Clients -> 0 .. MaxWrites] /\ faults' \in 0 .. MaxFaults
    BY <1>11, StampIsTyped DEF StampOwn
  <2>2. QED
    BY <1>11, <2>1 DEF StampOwn, Goto, TypeOK, Steps
<1>12. CASE Finish(p)
  <2>1. txn[p] \in Writes
    BY <1>12, NumbersAreBounded DEF InTransaction, Finish, Goto
  <2>2. QED
    BY <1>12, <2>1 DEF TypeOK, Finish, Goto, Steps, memory, bounds, Lock!Release
<1>13. CASE Poll(p)
  BY <1>13, <1>a DEF TypeOK, Poll, Goto, Steps, Tasks, bounds
<1>14. CASE Note(p)
  BY <1>14, <1>a DEF TypeOK, Note, Goto, Steps, bounds
<1>15. CASE Crash(p)
  BY <1>15, BoundAssumption, ClientAssumption
     DEF Crash, Lock!Release, TypeOK, Steps, memory
<1>16. CASE Open(p)
  <2>1. restarts' \in 0 .. MaxRestarts
    BY <1>16, BoundAssumption DEF TypeOK, Open
  <2>2. QED
    BY <1>16, <1>0, <2>1, BoundAssumption DEF TypeOK, Open, Goto, Steps, Tasks
<1>17. QED
  BY <1>1, <1>2, <1>3, <1>4, <1>5, <1>6, <1>7, <1>8, <1>9, <1>10, <1>11, <1>12, <1>13, <1>14,
     <1>15, <1>16 DEF Step

\* One process at a time is in a transaction, and it holds the lock.
LEMMA StepKeepsOwner ==
    ASSUME TypeOK, OwnerIsInTransaction, NEW p \in Clients, Step(p)
    PROVE  OwnerIsInTransaction'
<1>1. CASE Begin(p) \/ Mutate(p) \/ MutateThrows(p) \/ OpenTmp(p) \/ WriteTmp(p) \/ SyncTmp(p)
           \/ Rename(p) \/ Finish(p)
  BY <1>1, Types, ClientAssumption
     DEF Begin, Mutate, MutateThrows, OpenTmp, WriteTmp, SyncTmp, Rename, Finish, Goto,
         Lock!Acquire, Lock!Release,
         OwnerIsInTransaction, InTransaction
<1>2. CASE Stat(p) \/ StatFails(p) \/ ReadDocument(p) \/ ReadFails(p) \/ Restat(p)
  <2>1. task' = task /\ owner' = owner
    BY <1>2 DEF Stat, StatFails, ReadDocument, ReadFails, Restat
  <2>2. pc' = [pc EXCEPT ![p] = pc'[p]] /\ (InTransaction(p)' <=> InTransaction(p))
    BY <1>2, <2>1, Types
       DEF Stat, StatFails, ReadDocument, ReadFails, Restat, Goto, AfterRefresh, InTransaction
  <2>3. QED
    BY <2>1, <2>2, Types DEF OwnerIsInTransaction, InTransaction
<1>3. CASE PersistFails(p) \/ StampOwn(p) \/ Poll(p) \/ Note(p) \/ Open(p)
  BY <1>3, Types
     DEF PersistFails, StampOwn, Poll, Note, Open, Goto, OwnerIsInTransaction, InTransaction
<1>4. CASE Crash(p)
  BY <1>4, Types, ClientAssumption
     DEF Crash, Lock!Release, OwnerIsInTransaction, InTransaction, memory
<1>5. QED
  BY <1>1, <1>2, <1>3, <1>4 DEF Step

\* Only the owner of the lock touches the tmp file.
LEMMA StepKeepsTmp ==
    ASSUME TypeOK, OwnerIsInTransaction, TmpIsWritten, NEW p \in Clients, Step(p)
    PROVE  TmpIsWritten'
<1>1. CASE OpenTmp(p) \/ WriteTmp(p) \/ SyncTmp(p) \/ Rename(p) \/ PersistFails(p)
  <2>1. \A q \in Clients \ {p} : pc'[q] \notin {"syncTmp", "rename"}
    BY <1>1, Types
       DEF OpenTmp, WriteTmp, SyncTmp, Rename, PersistFails, Goto, OwnerIsInTransaction,
           InTransaction
  <2>2. pc'[p] \in {"syncTmp", "rename"} => tmp' = mem'[p]
    BY <1>1, Types
       DEF OpenTmp, WriteTmp, SyncTmp, Rename, PersistFails, Goto, memory, TmpIsWritten
  <2>3. QED
    BY <2>1, <2>2 DEF TmpIsWritten
<1>2. CASE ~(OpenTmp(p) \/ WriteTmp(p) \/ SyncTmp(p) \/ Rename(p) \/ PersistFails(p))
  <2>1. tmp' = tmp
    BY <1>2 DEF Step, Begin, Stat, StatFails, ReadDocument, ReadFails, Restat, Mutate, MutateThrows,
       StampOwn, Finish, Poll, Note, Crash, Open
  <2>2. \A q \in Clients \ {p} : pc'[q] = pc[q] /\ mem'[q] = mem[q]
    BY <1>2, Types DEF Step, Begin, Stat, StatFails, ReadDocument, ReadFails, Recover, TakeOver,
       Restat,
       Mutate,
       MutateThrows, StampOwn, Finish, Poll, Note, Crash, Open, Goto, memory
  <2>3. pc'[p] \notin {"syncTmp", "rename"}
    BY <1>2, Types DEF Step, Begin, Stat, StatFails, ReadDocument, ReadFails, Restat, Mutate,
       MutateThrows, StampOwn, Finish, Poll, Note, Crash, Open, Goto, AfterRefresh
  <2>4. QED
    BY <2>1, <2>2, <2>3 DEF TmpIsWritten
<1>3. QED
  BY <1>1, <1>2
-----------------------------------------------------------------------------
LEMMA InElsewhere ==
    ASSUME NEW q \in Clients, NEW V
    PROVE  V \in Elsewhere(q) <=>
              \/ V = disk.doc.writes
              \/ tmp # NoDoc /\ V = tmp.writes
              \/ \E r \in Clients : r # q /\ V = mem[r].writes
              \/ \E r \in Clients :
                    V = buf[r].writes \/ V = snapshot[r].writes \/ V = told[r]
BY DEF Elsewhere, Shown

LEMMA InElsewhereNext ==
    ASSUME NEW q \in Clients, NEW V
    PROVE  V \in Elsewhere(q)' <=>
              \/ V = disk'.doc.writes
              \/ tmp' # NoDoc /\ V = tmp'.writes
              \/ \E r \in Clients : r # q /\ V = mem'[r].writes
              \/ \E r \in Clients :
                    V = buf'[r].writes \/ V = snapshot'[r].writes \/ V = told'[r]
BY DEF Elsewhere, Shown

\* Whichever process one looks from, the versions are the same.
LEMMA VersionsAre ==
    ASSUME NEW q \in Clients
    PROVE  /\ Versions = Elsewhere(q) \cup {mem[q].writes}
           /\ Versions' = Elsewhere(q)' \cup {mem'[q].writes}
BY InElsewhere, InElsewhereNext DEF Versions

LEMMA InShown ==
    ASSUME NEW q \in Clients, NEW V
    PROVE  V \in Shown(q) <=>
              \/ V = disk.doc.writes
              \/ \E r \in Clients : r # q /\ V = mem[r].writes
              \/ \E r \in Clients :
                    V = buf[r].writes \/ V = snapshot[r].writes \/ V = told[r]
BY DEF Shown

LEMMA InShownNext ==
    ASSUME NEW q \in Clients, NEW V
    PROVE  V \in Shown(q)' <=>
              \/ V = disk'.doc.writes
              \/ \E r \in Clients : r # q /\ V = mem'[r].writes
              \/ \E r \in Clients :
                    V = buf'[r].writes \/ V = snapshot'[r].writes \/ V = told'[r]
BY DEF Shown

LEMMA VisibleAre ==
    ASSUME NEW q \in Clients
    PROVE  /\ Visible = Shown(q) \cup {mem[q].writes} /\ Visible \subseteq Versions
           /\ Visible' = Shown(q)' \cup {mem'[q].writes} /\ Visible' \subseteq Versions'
BY InShown, InShownNext DEF Visible, Versions, Elsewhere

\* The versions p can reach: its own memory and the files.
InHand(p) == {{}, disk.doc.writes, mem[p].writes, buf[p].writes, snapshot[p].writes, told[p]}

AtHand(p) == InHand(p) \cup {t.writes : t \in {tmp} \ {NoDoc}}

\* What p has at hand is somewhere else than in its memory, too, as others see it.
LEMMA AtHandIsElsewhere ==
    ASSUME NEW p \in Clients, NEW V \in AtHand(p)
    PROVE  V = {} \/ (V \in Versions /\ \A q \in Clients \ {p} : V \in Elsewhere(q))
BY VersionsAre, InElsewhere DEF AtHand, InHand

\* But for the unit of work, every step of p only copies what p has at hand, and
\* only an open takes something out of the tmp file.
LEMMA StepCopies ==
    ASSUME TypeOK, TmpIsWritten, NEW p \in Clients, Step(p), ~Mutate(p)
    PROVE  /\ \A V \in {disk'.doc.writes, mem'[p].writes, buf'[p].writes, snapshot'[p].writes,
                        told'[p]} :
                 V \in AtHand(p) /\ (V \in InHand(p) \/ V \subseteq salvaged')
           /\ tmp' # NoDoc => tmp'.writes \in AtHand(p)
<1>0. EmptyDoc.writes = {} /\ NoFile.doc.writes = {} /\ mem[p] \in Doc
  BY DEF EmptyDoc, NoFile, TypeOK
<1>a. /\ \A V \in {{}, disk.doc.writes, mem[p].writes, buf[p].writes, snapshot[p].writes, told[p]} :
            V \in InHand(p) /\ V \in AtHand(p)
      /\ tmp # NoDoc => tmp.writes \in AtHand(p)
  BY DEF AtHand, InHand
<1>1. CASE Begin(p) \/ StatFails(p) \/ Finish(p) \/ Poll(p) \/ Crash(p)
  <2>1. UNCHANGED <<disk, tmp, mem, buf, snapshot, told>>
    BY <1>1 DEF Begin, StatFails, Finish, Poll, Crash, memory
  <2>2. QED
    BY <2>1, <1>a
<1>2. CASE Stat(p)
  <2>1. mem'[p] \in {mem[p], EmptyDoc}
    BY <1>2, Types DEF Stat
  <2>2. QED
    BY <1>2, <2>1, <1>0, <1>a DEF Stat
<1>3. CASE Open(p)
  BY <1>3, <1>0, <1>a, Types DEF Open
<1>4. CASE ReadDocument(p)
  BY <1>4, <1>a, Types DEF ReadDocument
<1>5. CASE ReadFails(p)
  <2>1. CASE Recover(p)
    <3>1. \E d \in {EmptyDoc, tmp} :
             /\ d = EmptyDoc \/ (tmp # NoDoc /\ tmp.writes \subseteq salvaged')
             /\ mem'[p] = d /\ told'[p] = d.writes
      BY <2>1, Types DEF Recover, TakeOver, Subscribe
    <3>2. UNCHANGED <<tmp, buf, snapshot>> /\ disk' \in {disk, NoFile}
      BY <1>5, <2>1 DEF ReadFails, Recover
    <3>3. QED
      BY <3>1, <3>2, <1>0, <1>a
  <2>2. CASE ~Recover(p)
    BY <1>5, <2>2, <1>a DEF ReadFails
  <2>3. QED
    BY <2>1, <2>2
<1>6. CASE Restat(p)
  <2>1. told'[p] \in {told[p], buf[p].writes} /\ mem'[p] = buf[p]
    BY <1>6, Types DEF Restat, Subscribe
  <2>2. QED
    BY <1>6, <2>1, <1>a DEF Restat
<1>7. CASE MutateThrows(p) \/ OpenTmp(p) \/ WriteTmp(p) \/ SyncTmp(p) \/ PersistFails(p)
           \/ StampOwn(p)
  BY <1>7, <1>a, Types DEF MutateThrows, OpenTmp, WriteTmp, SyncTmp, PersistFails, StampOwn, memory
<1>8. CASE Rename(p)
  <2>1. tmp = mem[p]
    BY <1>8 DEF Rename, Goto, TmpIsWritten
  <2>2. QED
    BY <1>8, <2>1, <1>a DEF Rename, memory
<1>9. CASE Note(p)
  BY <1>9, <1>a, Types DEF Note
<1>10. QED
  BY <1>1, <1>2, <1>3, <1>4, <1>5, <1>6, <1>7, <1>8, <1>9 DEF Step

\* A step of p leaves the documents of the others alone.
LEMMA StepIsLocal ==
    ASSUME TypeOK, NEW p \in Clients, Step(p), NEW q \in Clients, q # p
    PROVE  /\ pc'[q] = pc[q] /\ task'[q] = task[q] /\ txn'[q] = txn[q]
           /\ mem'[q] = mem[q] /\ buf'[q] = buf[q] /\ snapshot'[q] = snapshot[q]
           /\ stamp'[q] = stamp[q] /\ before'[q] = before[q] /\ told'[q] = told[q]
<1>1. CASE \/ Begin(p) \/ Stat(p) \/ StatFails(p) \/ ReadDocument(p) \/ Mutate(p)
           \/ MutateThrows(p) \/ OpenTmp(p) \/ WriteTmp(p) \/ SyncTmp(p) \/ Rename(p)
           \/ PersistFails(p)
  BY <1>1, Types DEF Begin, Stat, StatFails, ReadDocument, Mutate, MutateThrows, OpenTmp,
     WriteTmp, SyncTmp, Rename,
     PersistFails, Goto, memory
<1>2. CASE ReadFails(p) \/ Restat(p)
  BY <1>2, Types DEF ReadFails, Recover, TakeOver, Restat, Subscribe, TakeStamp, Goto, TypeOK
<1>3. CASE \/ StampOwn(p) \/ Finish(p) \/ Poll(p) \/ Note(p) \/ Crash(p) \/ Open(p)
  BY <1>3, Types DEF StampOwn, TakeStamp, Finish, Poll, Note, Crash, Open, Goto, memory, TypeOK
<1>4. QED
  BY <1>1, <1>2, <1>3 DEF Step

\* So the versions stay the ones there are.
LEMMA VersionsStay ==
    ASSUME TypeOK, TmpIsWritten, NEW p \in Clients, Step(p), ~Mutate(p)
    PROVE  /\ \A V \in Versions' : V = {} \/ V \in Versions
           /\ \A q \in Clients \ {p} : \A V \in Elsewhere(q)' : V = {} \/ V \in Elsewhere(q)
<1>1. ASSUME NEW V \in Versions', V \notin AtHand(p)
      PROVE  V \in Versions
  BY <1>1, StepCopies, StepIsLocal, InElsewhere, InElsewhereNext, VersionsAre
<1>2. ASSUME NEW q \in Clients \ {p}, NEW V \in Elsewhere(q)', V \notin AtHand(p)
      PROVE  V \in Elsewhere(q)
  BY <1>2, StepCopies, StepIsLocal, InElsewhere, InElsewhereNext
<1>3. QED
  BY <1>1, <1>2, AtHandIsElsewhere

\* What an open takes out of the tmp file is noted, and the documents that are
\* read otherwise stay the ones there are.
LEMMA ShownStay ==
    ASSUME TypeOK, TmpIsWritten, NEW p \in Clients, Step(p), ~Mutate(p)
    PROVE  /\ \A V \in Visible' : V = {} \/ V \in Visible \/ V \subseteq salvaged'
           /\ \A q \in Clients \ {p} :
                 \A V \in Shown(q)' : V = {} \/ V \in Shown(q) \/ V \subseteq salvaged'
<1>1. ASSUME NEW V \in Visible', V \notin InHand(p), ~(V \subseteq salvaged')
      PROVE  V \in Visible
  BY <1>1, StepCopies, StepIsLocal, InShown, InShownNext, VisibleAre
<1>2. ASSUME NEW q \in Clients \ {p}, NEW V \in Shown(q)', V \notin InHand(p),
             ~(V \subseteq salvaged')
      PROVE  V \in Shown(q)
  BY <1>2, StepCopies, StepIsLocal, InShown, InShownNext
<1>3. ASSUME NEW V \in InHand(p)
      PROVE  V = {} \/ (V \in Visible /\ \A q \in Clients \ {p} : V \in Shown(q))
  BY <1>3, VisibleAre, InShown DEF InHand
<1>4. QED
  BY <1>1, <1>2, <1>3

\* What was salvaged stays so.
LEMMA SalvagedStays ==
    ASSUME NEW p \in Clients, Step(p)
    PROVE  salvaged \subseteq salvaged'
BY DEF Step, Begin, Stat, StatFails, ReadDocument, ReadFails, Recover, Restat, Mutate, MutateThrows,
   OpenTmp, WriteTmp, SyncTmp, Rename, PersistFails, StampOwn, Finish, Poll, Note, Crash, Open

\* Transactions are pairs of a process and a number.
LEMMA VersionsAreTyped ==
    ASSUME TypeOK, NEW V \in Versions
    PROVE  V \subseteq Writes /\ \A w \in V : w[2] \in Nat
<1>1. V \subseteq Writes
  <2>1. PICK q \in Clients : V \in Elsewhere(q) \/ V = mem[q].writes
    BY DEF Versions
  <2>2. \A d \in Doc : d.writes \subseteq Writes
    BY DEF Doc
  <2>3. /\ disk.doc \in Doc /\ (tmp # NoDoc => tmp \in Doc)
        /\ \A r \in Clients :
              mem[r] \in Doc /\ buf[r] \in Doc /\ snapshot[r] \in Doc /\ told[r] \subseteq Writes
    BY DEF TypeOK
  <2>4. QED
    BY <2>1, <2>2, <2>3, InElsewhere
<1>2. QED
  BY <1>1, BoundAssumption DEF Writes

\* Copies of documents grow as documents do.
LEMMA CopiesGrow ==
    ASSUME TypeOK, TmpIsWritten, DocumentsGrow, NEW p \in Clients, Step(p), ~Mutate(p)
    PROVE  DocumentsGrow'
BY VersionsStay DEF DocumentsGrow, Latest

\* The unit of work makes one new version: p's document and the transaction,
\* which is newer than anything there is.
LEMMA MutateVersions ==
    ASSUME TypeOK, OwnerIsInTransaction, TransactionIsNew, NEW p \in Clients, Mutate(p)
    PROVE  /\ txn[p] = <<p, begun>> /\ InTransaction(p)
           /\ \A V \in Versions : \A w \in V : w[2] < begun /\ w[2] \in Nat
           /\ \A V \in Versions' : V \in Versions \/ V = mem[p].writes \cup {txn[p]}
           /\ mem[p].writes \in Versions
           /\ \A V \in Elsewhere(p)' : V \in Versions
           /\ mem'[p].writes = snapshot'[p].writes \cup {txn[p]} /\ snapshot'[p] = mem[p]
<1>1. InTransaction(p) /\ Untried(p)
  BY DEF Mutate, Goto, InTransaction, Untried
<1>2. mem'[p].writes = mem[p].writes \cup {txn[p]} /\ snapshot'[p] = mem[p]
  <2>1. PICK n \in Bumps :
           mem' = [mem EXCEPT ![p] =
                     [writes |-> mem[p].writes \cup {txn[p]}, rev |-> mem[p].rev + n]]
    BY DEF Mutate
  <2>2. QED
    BY <2>1, Types DEF Mutate
<1>3. mem[p].writes \in Versions
  BY VersionsAre
<1>4. \A V \in Elsewhere(p)' : V \in Versions
  <2>1. UNCHANGED <<disk, tmp, buf, told>>
    BY DEF Mutate
  <2>2. \A q \in Clients \ {p} : mem'[q] = mem[q] /\ snapshot'[q] = snapshot[q]
    BY StepIsLocal DEF Step
  <2>3. QED
    BY <1>2, <1>3, <2>1, <2>2, InElsewhere, InElsewhereNext, VersionsAre
<1>5. \A V \in Versions' : V \in Versions \/ V = mem[p].writes \cup {txn[p]}
  BY <1>2, <1>4, VersionsAre
<1>6. \A V \in Versions : \A w \in V : w[2] < begun /\ w[2] \in Nat
  BY <1>1, VersionsAreTyped DEF TransactionIsNew
<1>7. QED
  BY <1>1, <1>2, <1>3, <1>4, <1>5, <1>6 DEF TransactionIsNew

\* The new version is made out of one there was.
LEMMA MutateGrows ==
    ASSUME TypeOK, OwnerIsInTransaction, TransactionIsNew, DocumentsGrow,
           NEW p \in Clients, Mutate(p)
    PROVE  DocumentsGrow'
<1> DEFINE N == mem[p].writes \cup {txn[p]}
<1>0. txn[p][2] = begun /\ begun \in Nat
  BY MutateVersions, Types
<1>1. SUFFICES ASSUME NEW U \in Versions', NEW V \in Versions', NEW w \in V,
                      \A v \in V : v[2] <= w[2], w \in U
               PROVE  V \subseteq U
  BY DEF DocumentsGrow, Latest
<1>2. (U \in Versions \/ U = N) /\ (V \in Versions \/ V = N)
  BY MutateVersions
<1>3. CASE V = N
  <2>1. w = txn[p]
    BY <1>0, <1>1, <1>3, MutateVersions
  <2>2. U = N
    BY <2>1, <1>0, <1>1, <1>2, MutateVersions
  <2>3. QED
    BY <1>3, <2>2
<1>4. CASE V \in Versions /\ U = N
  <2>1. w \in mem[p].writes
    BY <1>0, <1>1, <1>4, MutateVersions
  <2>2. QED
    BY <1>1, <1>4, <2>1, MutateVersions DEF DocumentsGrow, Latest
<1>5. CASE V \in Versions /\ U \in Versions
  BY <1>1, <1>5 DEF DocumentsGrow, Latest
<1>6. QED
  BY <1>2, <1>3, <1>4, <1>5

\* What a step, other than beginning a transaction and its unit of work, does to
\* the transaction of p.
LEMMA StepKeepsNumbers ==
    ASSUME TypeOK, NEW p \in Clients, Step(p), ~Begin(p), ~Mutate(p)
    PROVE  /\ begun' = begun /\ txn' = txn
           /\ InTransaction(p)' => InTransaction(p)
           /\ Untried(p)' => Untried(p)
           /\ pc'[p] \in Persisting =>
                 pc[p] \in Persisting /\ mem'[p] = mem[p] /\ snapshot'[p] = snapshot[p]
<1>1. CASE Stat(p) \/ StatFails(p) \/ ReadDocument(p) \/ ReadFails(p) \/ Restat(p)
  BY <1>1, Types DEF Stat, StatFails, ReadDocument, ReadFails, Restat, Goto, AfterRefresh,
     InTransaction, Untried, memory, bounds
<1>2. CASE \/ MutateThrows(p) \/ OpenTmp(p) \/ WriteTmp(p) \/ SyncTmp(p) \/ Rename(p)
           \/ PersistFails(p) \/ StampOwn(p)
           \/ Finish(p)
  BY <1>2, Types DEF MutateThrows, OpenTmp, WriteTmp, SyncTmp, Rename, PersistFails, StampOwn,
     Finish, Goto,
     InTransaction, Untried, memory, bounds
<1>3. CASE Poll(p) \/ Note(p) \/ Crash(p) \/ Open(p)
  BY <1>3, Types DEF Poll, Note, Crash, Open, Goto, InTransaction, Untried, memory, bounds
<1>4. QED
  BY <1>1, <1>2, <1>3 DEF Step

\* Only Begin takes a number, and only Mutate uses it.
LEMMA StepKeepsNew ==
    ASSUME TypeOK, OwnerIsInTransaction, TmpIsWritten, TransactionIsNew, NEW p \in Clients, Step(p)
    PROVE  TransactionIsNew'
<1>0. \A q \in Clients \ {p} :
         /\ InTransaction(q)' <=> InTransaction(q)
         /\ Untried(q)' <=> Untried(q)
         /\ pc'[q] = pc[q] /\ mem'[q] = mem[q] /\ snapshot'[q] = snapshot[q] /\ txn'[q] = txn[q]
  BY StepIsLocal DEF InTransaction, Untried
<1>1. CASE ~Begin(p) /\ ~Mutate(p)
  <2>1. begun' = begun /\ txn' = txn
    BY <1>1, StepKeepsNumbers
  <2>2. \A V \in Versions' : \A w \in V : w[2] <= begun'
    BY <1>1, <2>1, VersionsStay DEF TransactionIsNew
  <2>3. ASSUME NEW q \in Clients
        PROVE  /\ InTransaction(q)' => 0 < begun' /\ txn'[q] = <<q, begun'>>
               /\ Untried(q)' => \A V \in Versions' : \A w \in V : w[2] < begun'
    BY <1>0, <1>1, <2>1, StepKeepsNumbers, VersionsStay DEF TransactionIsNew
  <2>4. ASSUME NEW q \in Clients, pc'[q] \in Persisting
        PROVE  /\ mem'[q].writes = snapshot'[q].writes \cup {txn'[q]}
               /\ \A w \in snapshot'[q].writes : w[2] < begun'
    <3>1. pc[q] \in Persisting /\ mem'[q] = mem[q] /\ snapshot'[q] = snapshot[q]
      BY <1>0, <1>1, <2>4, StepKeepsNumbers
    <3>2. QED
      BY <2>1, <3>1 DEF TransactionIsNew
  <2>5. QED
    BY <2>2, <2>3, <2>4 DEF TransactionIsNew
<1>2. CASE Begin(p)
  <2>1. begun' = begun + 1 /\ begun \in Nat /\ txn'[p] = <<p, begun + 1>> /\ pc'[p] = "stat"
    BY <1>2, Types DEF Begin, Goto
  <2>2. ASSUME NEW V \in Versions', NEW w \in V
        PROVE  w[2] \in Nat /\ w[2] < begun'
    <3>1. V \in Versions
      BY <1>2, VersionsStay DEF Begin, Mutate, Goto
    <3>2. QED
      BY <2>1, <3>1, VersionsAreTyped DEF TransactionIsNew
  <2>3. \A q \in Clients \ {p} : ~InTransaction(q)'
    BY <1>0, <1>2, ClientAssumption DEF Begin, Lock!Acquire, OwnerIsInTransaction
  <2>4. QED
    BY <2>1, <2>2, <2>3 DEF TransactionIsNew, InTransaction, Untried
<1>3. CASE Mutate(p)
  <2>1. begun' = begun /\ txn' = txn /\ begun \in Nat /\ pc'[p] = "openTmp"
    BY <1>3, Types DEF Mutate, Goto, bounds
  <2>2. \A V \in Versions' : \A w \in V : w[2] <= begun'
    BY <1>3, <2>1, MutateVersions
  <2>3. \A q \in Clients \ {p} : ~InTransaction(q)'
    BY <1>0, <1>3, MutateVersions DEF OwnerIsInTransaction
  <2>4. 0 < begun /\ ~Untried(p)'
    BY <1>3, <2>1, MutateVersions DEF TransactionIsNew, Untried
  <2>5. \A w \in snapshot'[p].writes : w[2] < begun'
    BY <1>3, <2>1, MutateVersions
  <2>6. QED
    BY <1>3, <2>1, <2>2, <2>3, <2>4, <2>5, MutateVersions DEF TransactionIsNew,
       InTransaction, Untried
<1>4. QED
  BY <1>1, <1>2, <1>3

\* An absent file, and nobody doing anything.
LEMMA InitBasic == Init => BasicInv /\ AbortedIsNowhere
<1> SUFFICES ASSUME Init PROVE BasicInv /\ AbortedIsNowhere
  OBVIOUS
<1>1. EmptyDoc \in Doc /\ EmptyDoc.writes = {} /\ disk.doc = EmptyDoc /\ disk.stamp = 0
  BY DEF Init, NoFile, EmptyDoc, Doc
<1>2. TypeOK
  BY <1>1, ClientAssumption, BoundAssumption DEF Init, TypeOK, Steps, Tasks, NoFile, Lock!LockInit
<1>3. OwnerIsInTransaction /\ TmpIsWritten /\ (\A p \in Clients : ~InTransaction(p) /\ ~Untried(p))
  BY ClientAssumption
     DEF Init, OwnerIsInTransaction, TmpIsWritten, InTransaction, Untried, Lock!LockInit
<1>4. \A V \in Versions : V = {}
  <2>1. ASSUME NEW V \in Versions PROVE V = {}
    <3>1. PICK q \in Clients : V \in Elsewhere(q) \/ V = mem[q].writes
      BY <2>1 DEF Versions
    <3>2. QED
      BY <1>1, <3>1, InElsewhere DEF Init
  <2>2. QED
    BY <2>1
<1>5. TransactionIsNew
  BY <1>3, <1>4 DEF TransactionIsNew, Init
<1>6. DocumentsGrow
  BY <1>4 DEF DocumentsGrow
<1>7. AbortedIsNowhere
  BY <1>3 DEF AbortedIsNowhere, Init
<1>8. QED
  BY <1>2, <1>3, <1>5, <1>6, <1>7 DEF BasicInv

\* The second invariant, step by step.
LEMMA StepKeepsBasic ==
    ASSUME BasicInv, NEW p \in Clients, Step(p)
    PROVE  BasicInv'
<1>1. TypeOK'
  BY StepKeepsTypes DEF BasicInv, TransactionIsNew, TransactionIsNumbered
<1>2. OwnerIsInTransaction' /\ TmpIsWritten' /\ TransactionIsNew'
  BY StepKeepsOwner, StepKeepsTmp, StepKeepsNew DEF BasicInv
<1>3. DocumentsGrow'
  BY CopiesGrow, MutateGrows DEF BasicInv
<1>4. QED
  BY <1>1, <1>2, <1>3 DEF BasicInv

LEMMA NextKeepsBasic ==
    ASSUME BasicInv, [Next]_vars
    PROVE  BasicInv'
<1>1. CASE UNCHANGED vars
  <2>1. Versions' = Versions /\ \A p \in Clients : Elsewhere(p)' = Elsewhere(p)
    BY <1>1 DEF vars, memory, Versions, Elsewhere, Shown
  <2>2. TypeOK' /\ OwnerIsInTransaction' /\ TmpIsWritten' /\ DocumentsGrow'
    BY <1>1, <2>1 DEF BasicInv, vars, memory, bounds, TypeOK, OwnerIsInTransaction, InTransaction,
       TmpIsWritten, DocumentsGrow
  <2>3. TransactionIsNew'
    BY <1>1, <2>1 DEF BasicInv, vars, memory, bounds, TransactionIsNew, InTransaction, Untried
  <2>4. QED
    BY <2>2, <2>3 DEF BasicInv
<1>2. QED
  BY <1>1, StepKeepsBasic DEF Next, Step

\* Every variable keeps its type: no step takes over a torn tmp file, and no
\* transaction has a number out of bounds.
THEOREM TypeCorrectness == Spec => []TypeOK
<1>1. BasicInv => TypeOK
  BY DEF BasicInv
<1>2. QED
  BY <1>1, InitBasic, NextKeepsBasic, PTL DEF Spec

\* The adapter takes its lock only when it is free, and only the holder, or the
\* death of the holder, gives it back: it uses the lock as ExclusiveLock says.
THEOREM LockIsUsedAsPromised == Spec => Lock!LockSpec
<1>1. Init => Lock!LockInit
  BY DEF Init
<1>2. ASSUME NEW p \in Clients, Begin(p) \/ Finish(p) PROVE Lock!LockNext
  BY <1>2 DEF Begin, Finish, Lock!LockNext
<1>3. ASSUME NEW p \in Clients, Crash(p) PROVE Lock!LockNext \/ owner' = owner
  BY <1>3 DEF Crash, Lock!LockNext
<1>4. ASSUME NEW p \in Clients,
             \/ Stat(p) \/ StatFails(p) \/ ReadDocument(p) \/ ReadFails(p) \/ Restat(p) \/ Mutate(p)
             \/ MutateThrows(p) \/ OpenTmp(p) \/ WriteTmp(p) \/ SyncTmp(p) \/ Rename(p)
             \/ PersistFails(p) \/ StampOwn(p)
             \/ Poll(p) \/ Note(p) \/ Open(p)
      PROVE  owner' = owner
  BY <1>4 DEF Stat, StatFails, ReadDocument, ReadFails, Restat, Mutate, MutateThrows, OpenTmp,
     WriteTmp, SyncTmp, Rename,
     PersistFails, StampOwn, Poll, Note, Open
<1>5. [Next]_vars => [Lock!LockNext]_owner
  BY <1>2, <1>3, <1>4 DEF Next, vars
<1>6. QED
  BY <1>1, <1>5, PTL DEF Spec, Lock!LockSpec

\* But for a transaction that rejects, nothing new is in any document that is read.
LEMMA AbortedStaysNowhere ==
    ASSUME BasicInv, AbortedIsNowhere, NEW p \in Clients, Step(p)
    PROVE  AbortedIsNowhere'
<1>0. /\ TypeOK /\ OwnerIsInTransaction /\ TmpIsWritten /\ TransactionIsNew /\ begun \in Nat
      /\ OwnerIsInTransaction' /\ salvaged \subseteq salvaged'
  BY Types, StepKeepsBasic, SalvagedStays DEF BasicInv
<1>a. \A q \in Clients \ {p} :
         (InTransaction(q)' <=> InTransaction(q)) /\ txn'[q] = txn[q] /\ pc'[q] = pc[q]
  BY <1>0, StepIsLocal DEF InTransaction
<1>b. ASSUME InTransaction(p) \/ InTransaction(p)' PROVE \A q \in Clients \ {p} : ~InTransaction(q)
  BY <1>0, <1>a, <1>b DEF OwnerIsInTransaction
<1>c. \A q \in Clients : pc[q] \in Persisting => InTransaction(q)
  BY DEF InTransaction
<1>d. ASSUME ~Mutate(p), NEW q \in Clients \ {p}, pc'[q] \in Persisting, txn'[q] \notin salvaged'
      PROVE  \A V \in Shown(q)' : txn'[q] \notin V
  BY <1>0, <1>a, <1>d, ShownStay DEF AbortedIsNowhere
<1>e. ASSUME ~Mutate(p), NEW w \in aborted \ salvaged', NEW V \in Visible'
      PROVE  w \notin V
  BY <1>0, <1>e, ShownStay DEF AbortedIsNowhere
<1>1. CASE Begin(p)
  <2>1. /\ txn'[p] = <<p, begun + 1>> /\ begun' = begun + 1 /\ pc'[p] = "stat"
        /\ acked' = acked /\ aborted' = aborted /\ ~Mutate(p)
    BY <1>1, <1>0, Types DEF Begin, Goto, Mutate
  <2>2. \A w \in acked \cup aborted : w[2] \in Nat
    BY <1>0, BoundAssumption DEF TypeOK, Writes
  <2>3. txn'[p] \notin acked \cup aborted
    BY <2>1, <2>2, <1>0 DEF AbortedIsNowhere
  <2>4. \A w \in acked \cup aborted : w[2] <= begun'
    BY <2>1, <2>2, <1>0 DEF AbortedIsNowhere
  <2>5. \A q \in Clients : pc'[q] \in Persisting => q # p
    BY <2>1
  <2>6. QED
    BY <1>a, <1>d, <1>e, <2>1, <2>3, <2>4, <2>5 DEF AbortedIsNowhere
<1>2. CASE Mutate(p)
  <2>1. /\ acked' = acked /\ aborted' = aborted /\ salvaged' = salvaged
        /\ txn' = txn /\ begun' = begun /\ pc[p] = "mutate"
    BY <1>2 DEF Mutate, Goto, bounds
  <2>2. InTransaction(p) /\ txn[p] \notin aborted
    BY <2>1 DEF InTransaction, AbortedIsNowhere
  <2>3. \A w \in aborted \ salvaged, V \in Visible' : w \notin V
    <3>1. SUFFICES ASSUME NEW w \in aborted \ salvaged, NEW V \in Visible' PROVE w \notin V
      OBVIOUS
    <3>2. V \in Visible \/ V = mem[p].writes \cup {txn[p]}
      <4>1. CASE V = mem'[p].writes
        BY <1>0, <1>2, <4>1, MutateVersions
      <4>2. CASE V \in Shown(p)'
        <5>1. UNCHANGED <<disk, buf, told>> /\ snapshot'[p] = mem[p]
          BY <1>0, <1>2, MutateVersions DEF Mutate
        <5>2. QED
          BY <1>0, <4>2, <5>1, StepIsLocal, InShown, InShownNext, VisibleAre
      <4>3. QED
        BY <4>1, <4>2, VisibleAre
    <3>3. mem[p].writes \in Visible
      BY VisibleAre
    <3>4. QED
      BY <2>2, <3>2, <3>3 DEF AbortedIsNowhere
  <2>4. \A V \in Shown(p)' : txn[p] \notin V
    <3>1. \A V \in Shown(p)' : V \in Elsewhere(p)'
      BY DEF Elsewhere
    <3>2. QED
      BY <1>0, <1>2, <3>1, MutateVersions
  <2>5. QED
    BY <1>a, <1>b, <1>c, <2>1, <2>2, <2>3, <2>4 DEF AbortedIsNowhere
<1>3. CASE MutateThrows(p)
  <2>1. /\ acked' = acked /\ aborted' = aborted \cup {txn[p]} /\ txn' = txn /\ begun' = begun
        /\ pc[p] = "mutate" /\ pc'[p] = "release" /\ ~Mutate(p)
    BY <1>0, <1>3, Types DEF MutateThrows, Goto, bounds, Mutate
  <2>2. InTransaction(p) /\ txn[p] \notin acked /\ txn[p][2] = begun
    BY <2>1, <1>0 DEF InTransaction, AbortedIsNowhere, TransactionIsNew
  <2>3. \A V \in Versions : txn[p] \notin V
    BY <1>0, <2>1, <2>2 DEF TransactionIsNew, InTransaction, Untried
  <2>4. \A V \in Visible' : txn[p] \in salvaged' \/ txn[p] \notin V
    BY <1>0, <2>1, <2>3, ShownStay, VisibleAre
  <2>5. QED
    BY <1>0, <1>a, <1>b, <1>c, <1>e, <2>1, <2>2, <2>4 DEF AbortedIsNowhere
<1>4. CASE PersistFails(p)
  <2>1. /\ acked' = acked /\ aborted' = aborted \cup {txn[p]} /\ salvaged' = salvaged
        /\ txn' = txn /\ begun' = begun
        /\ pc[p] \in Persisting /\ pc'[p] = "release" /\ ~Mutate(p)
    BY <1>0, <1>4, Types DEF PersistFails, Goto, Fails, Mutate
  <2>2. InTransaction(p) /\ txn[p] \notin acked /\ txn[p][2] = begun
    BY <2>1, <1>0 DEF InTransaction, AbortedIsNowhere, TransactionIsNew
  <2>3. \A V \in Visible' : V \in Shown(p)
    <3>1. mem'[p] = snapshot[p] /\ UNCHANGED <<disk, buf, snapshot, told>>
      BY <1>0, <1>4, Types DEF PersistFails
    <3>2. \A q \in Clients \ {p} : mem'[q] = mem[q]
      BY <1>0, StepIsLocal
    <3>3. QED
      BY <3>1, <3>2, InShown, InShownNext, VisibleAre
  <2>4. txn[p] \in salvaged \/ \A V \in Visible' : txn[p] \notin V
    BY <2>1, <2>3 DEF AbortedIsNowhere
  <2>5. QED
    BY <1>0, <1>a, <1>b, <1>c, <1>e, <2>1, <2>2, <2>4 DEF AbortedIsNowhere
<1>5. CASE Finish(p)
  <2>1. /\ acked' = (IF txn[p] \in aborted THEN acked ELSE acked \cup {txn[p]})
        /\ aborted' = aborted /\ txn' = txn /\ begun' = begun
        /\ pc[p] = "release" /\ pc'[p] = "idle" /\ ~Mutate(p)
    BY <1>0, <1>5, Types DEF Finish, Goto, memory, bounds, Mutate
  <2>2. InTransaction(p) /\ ~InTransaction(p)' /\ txn[p][2] = begun
    BY <2>1, <1>0 DEF InTransaction, TransactionIsNew
  <2>3. QED
    BY <1>0, <1>a, <1>b, <1>c, <1>e, <2>1, <2>2 DEF AbortedIsNowhere
<1>6. CASE ~(Begin(p) \/ Mutate(p) \/ MutateThrows(p) \/ PersistFails(p) \/ Finish(p))
  <2>1. acked' = acked /\ aborted' = aborted
    BY <1>6 DEF Step, Stat, StatFails, ReadDocument, ReadFails, Restat, OpenTmp, WriteTmp, SyncTmp,
       Rename, StampOwn, Poll, Note, Crash, Open
  <2>2. /\ begun' = begun /\ txn' = txn
        /\ InTransaction(p)' => InTransaction(p)
    BY <1>0, <1>6, StepKeepsNumbers
  <2>3. InTransaction(p)' /\ pc[p] = "release" => pc'[p] = "release"
    BY <1>0, <1>6, Types DEF Step, Stat, StatFails, ReadDocument, ReadFails, Restat, OpenTmp,
       WriteTmp, SyncTmp, Rename,
       StampOwn, Poll, Note, Crash, Open, Goto, InTransaction
  <2>4. ASSUME pc'[p] \in Persisting
        PROVE  pc[p] \in Persisting /\ \A V \in Shown(p)' : V \in Shown(p)
    <3>1. OpenTmp(p) \/ WriteTmp(p) \/ SyncTmp(p)
      BY <1>0, <1>6, <2>4, Types DEF Step, Stat, StatFails, ReadDocument, ReadFails, Restat, Rename,
         StampOwn, Poll, Note, Crash, Open, Goto, AfterRefresh
    <3>2. pc[p] \in Persisting /\ UNCHANGED <<disk, mem, buf, snapshot, told>>
      BY <3>1 DEF OpenTmp, WriteTmp, SyncTmp, Goto, memory
    <3>3. QED
      BY <3>2, InShown, InShownNext
  <2>5. \A q \in Clients :
           pc'[q] \in Persisting /\ txn'[q] \notin salvaged' =>
               \A V \in Shown(q)' : txn'[q] \notin V
    BY <1>0, <1>6, <1>d, <2>2, <2>4 DEF AbortedIsNowhere
  <2>6. QED
    BY <1>a, <1>e, <1>6, <2>1, <2>2, <2>3, <2>5 DEF AbortedIsNowhere
<1>7. QED
  BY <1>1, <1>2, <1>3, <1>4, <1>5, <1>6

\* A transaction that rejected, whatever call failed, has left nothing behind that
\* anybody reads: neither in the file, nor in a document, nor with a subscriber.
\* The ones an open took out of the tmp file are the only exception.
THEOREM RejectedIsUndone == Spec => []AbortedLeavesNothing
<1>1. BasicInv /\ AbortedIsNowhere /\ [Next]_vars => AbortedIsNowhere'
  <2>1. ASSUME BasicInv, AbortedIsNowhere, UNCHANGED vars PROVE AbortedIsNowhere'
    BY <2>1 DEF AbortedIsNowhere, vars, memory, bounds, InTransaction, Visible, Shown
  <2>2. QED
    BY <2>1, AbortedStaysNowhere DEF Next, Step
<1>2. BasicInv /\ AbortedIsNowhere => AbortedLeavesNothing
  <2>1. ASSUME BasicInv, AbortedIsNowhere, NEW w \in aborted \ salvaged
        PROVE  /\ w \notin disk.doc.writes \cup acked
               /\ \A p \in Clients : w \notin told[p] /\ w \notin mem[p].writes
    <3>1. \E p \in Clients : TRUE
      BY <2>1 DEF BasicInv, TypeOK, Writes
    <3>2. QED
      BY <2>1, <3>1, VisibleAre, InShown DEF AbortedIsNowhere
  <2>2. QED
    BY <2>1 DEF AbortedLeavesNothing
<1>3. QED
  BY <1>1, <1>2, InitBasic, NextKeepsBasic, PTL DEF Spec

\* While nobody comes back, only a rename writes the file.
LEMMA FileIsOnlyRenamed ==
    ASSUME TypeOK, restarts = 0, \A q \in Clients : FileStays(q), NEW p \in Clients, Step(p)
    PROVE  ~Rename(p) => disk' = disk
BY DEF FileStays, Step, Begin, Stat, StatFails, ReadDocument, ReadFails, Restat, Mutate,
   MutateThrows, OpenTmp, WriteTmp, SyncTmp, PersistFails, StampOwn, Finish, Poll, Note, Crash,
   Open, Goto

\* While nobody comes back: what p's own steps do to its poll.  IsLastIn and
\* IsForeignTo stay opaque, for the file does not change.
LEMMA StepKeepsPolls ==
    ASSUME TypeOK, restarts = 0, restarts' = 0,
           disk = NoFile \/ \E w \in disk.doc.writes : Latest(disk.doc.writes, w),
           \A q \in Clients : FileStays(q),
           NEW p \in Clients, KnowsOwnCommit(p), PollIsForeign(p), Step(p), ~Rename(p)
    PROVE  FileStays(p)' /\ KnowsOwnCommit(p)' /\ PollIsForeign(p)'
<1>0. disk' = disk /\ FileStays(p)
  BY FileIsOnlyRenamed
<1>t. /\ IsLastIn(disk.doc, p)' <=> IsLastIn(disk.doc, p)
      /\ \A d : IsForeignTo(d, p)' <=> IsForeignTo(d, p)
  BY <1>0 DEF IsLastIn, IsForeignTo
<1>1. CASE Begin(p)
  <2>1. /\ pc'[p] = "stat" /\ task'[p] = "write" /\ pc[p] = "idle"
        /\ mem'[p] = mem[p] /\ buf'[p] = buf[p] /\ before'[p] = before[p] /\ stamp'[p] = stamp[p]
    BY <1>1, Types DEF Begin, Goto
  <2>2. QED
    BY <1>0, <1>t, <2>1 DEF FileStays, KnowsOwnCommit, PollIsForeign
<1>2. CASE Stat(p)
  <2>1. /\ pc[p] = "stat" /\ pc'[p] \in {"read", AfterRefresh(p)} /\ task'[p] = task[p]
        /\ mem'[p] = mem[p] /\ buf'[p] = buf[p] /\ before'[p] = before[p] /\ stamp'[p] = stamp[p]
    BY <1>2, Types, <1>0 DEF Stat, Goto, FileStays
  <2>2. QED
    BY <1>0, <1>t, <2>1 DEF FileStays, KnowsOwnCommit, PollIsForeign, AfterRefresh
<1>3. CASE StatFails(p)
  <2>1. /\ pc[p] = "stat" /\ pc'[p] = AfterRefresh(p) /\ task'[p] = task[p]
        /\ mem'[p] = mem[p] /\ buf'[p] = buf[p] /\ before'[p] = before[p] /\ stamp'[p] = stamp[p]
    BY <1>3, Types DEF StatFails, Goto, memory
  <2>2. QED
    BY <1>0, <1>t, <2>1 DEF FileStays, KnowsOwnCommit, PollIsForeign, AfterRefresh
<1>4. CASE ReadDocument(p)
  <2>1. /\ pc[p] = "read" /\ pc'[p] = "restat" /\ task'[p] = task[p] /\ disk # NoFile
        /\ buf'[p] = disk.doc
        /\ mem'[p] = mem[p] /\ before'[p] = before[p] /\ stamp'[p] = stamp[p]
    BY <1>4, Types DEF ReadDocument, Goto
  <2>2. IsLastIn(disk.doc, p) \/ IsForeignTo(disk.doc, p)
    BY <2>1 DEF IsLastIn, IsForeignTo
  <2>3. QED
    BY <1>0, <1>t, <2>1, <2>2 DEF FileStays, KnowsOwnCommit, PollIsForeign
<1>5. CASE ReadFails(p)
  <2>1. /\ pc[p] = "read" /\ pc'[p] = AfterRefresh(p) /\ task'[p] = task[p]
        /\ mem'[p] = mem[p] /\ buf'[p] = buf[p] /\ before'[p] = before[p] /\ stamp'[p] = stamp[p]
    BY <1>5, Types, <1>0 DEF ReadFails, Goto, FileStays
  <2>2. QED
    BY <1>0, <1>t, <2>1 DEF FileStays, KnowsOwnCommit, PollIsForeign, AfterRefresh
<1>6. CASE Restat(p)
  <2>1. /\ pc[p] = "restat" /\ pc'[p] = AfterRefresh(p) /\ task'[p] = task[p]
        /\ mem'[p] = buf[p]
        /\ disk = NoFile => stamp'[p] = stamp[p]
        /\ buf'[p] = buf[p] /\ before'[p] = before[p]
    BY <1>6, Types DEF Restat, Goto, TakeStamp
  <2>2. QED
    BY <1>0, <1>t, <2>1 DEF FileStays, KnowsOwnCommit, PollIsForeign, AfterRefresh
<1>7. CASE Mutate(p)
  <2>1. /\ pc[p] = "mutate" /\ pc'[p] = "openTmp" /\ task'[p] = task[p]
        /\ snapshot'[p] = mem[p]
        /\ buf'[p] = buf[p] /\ before'[p] = before[p] /\ stamp'[p] = stamp[p]
    BY <1>7, Types DEF Mutate, Goto
  <2>2. QED
    BY <1>0, <1>t, <2>1 DEF FileStays, KnowsOwnCommit, PollIsForeign
<1>8. CASE MutateThrows(p)
  <2>1. /\ pc[p] = "mutate" /\ pc'[p] = "release" /\ task'[p] = task[p]
        /\ mem'[p] = mem[p] /\ buf'[p] = buf[p] /\ before'[p] = before[p] /\ stamp'[p] = stamp[p]
    BY <1>8, Types DEF MutateThrows, Goto
  <2>2. QED
    BY <1>0, <1>t, <2>1 DEF FileStays, KnowsOwnCommit, PollIsForeign
<1>9. CASE OpenTmp(p) \/ WriteTmp(p) \/ SyncTmp(p)
  <2>1. /\ pc[p] \in Persisting /\ pc'[p] \in Persisting /\ task'[p] = task[p]
        /\ mem'[p] = mem[p] /\ buf'[p] = buf[p] /\ before'[p] = before[p]
        /\ stamp'[p] = stamp[p] /\ snapshot'[p] = snapshot[p]
    BY <1>9, Types DEF OpenTmp, WriteTmp, SyncTmp, Goto, memory
  <2>2. QED
    BY <1>0, <1>t, <2>1 DEF FileStays, KnowsOwnCommit, PollIsForeign
<1>10. CASE PersistFails(p)
  <2>1. /\ pc[p] \in Persisting /\ pc'[p] = "release" /\ task'[p] = task[p]
        /\ mem'[p] = snapshot[p]
        /\ buf'[p] = buf[p] /\ before'[p] = before[p] /\ stamp'[p] = stamp[p]
    BY <1>10, Types DEF PersistFails, Goto
  <2>2. QED
    BY <1>0, <1>t, <2>1 DEF FileStays, KnowsOwnCommit, PollIsForeign
<1>11. CASE StampOwn(p)
  <2>1. /\ pc[p] = "stampOwn" /\ pc'[p] = "release" /\ task'[p] = task[p]
        /\ disk = NoFile => stamp'[p] = stamp[p]
        /\ mem'[p] = mem[p] /\ buf'[p] = buf[p] /\ before'[p] = before[p]
    BY <1>11, Types DEF StampOwn, Goto, TakeStamp
  <2>2. QED
    BY <1>0, <1>t, <2>1 DEF FileStays, KnowsOwnCommit, PollIsForeign
<1>12. CASE Finish(p)
  <2>1. /\ pc[p] = "release" /\ pc'[p] = "idle" /\ task'[p] = task[p]
        /\ mem'[p] = mem[p] /\ buf'[p] = buf[p] /\ before'[p] = before[p] /\ stamp'[p] = stamp[p]
    BY <1>12, Types DEF Finish, Goto, memory
  <2>2. QED
    BY <1>0, <1>t, <2>1 DEF FileStays, KnowsOwnCommit, PollIsForeign
<1>13. CASE Poll(p)
  <2>1. /\ pc[p] = "idle" /\ pc'[p] = "stat" /\ task'[p] = "watch"
        /\ before'[p] = mem[p].rev
        /\ mem'[p] = mem[p] /\ buf'[p] = buf[p] /\ stamp'[p] = stamp[p]
    BY <1>13, Types DEF Poll, Goto, TypeOK
  <2>2. QED
    BY <1>0, <1>t, <2>1 DEF FileStays, KnowsOwnCommit, PollIsForeign
<1>14. CASE Note(p)
  <2>1. /\ pc[p] = "note" /\ pc'[p] = "idle"
        /\ mem'[p] = mem[p] /\ buf'[p] = buf[p] /\ before'[p] = before[p] /\ stamp'[p] = stamp[p]
    BY <1>14, Types DEF Note, Goto
  <2>2. QED
    BY <1>0, <1>t, <2>1 DEF FileStays, KnowsOwnCommit, PollIsForeign
<1>15. CASE Crash(p)
  <2>1. /\ pc'[p] = "dead"
        /\ stamp'[p] = stamp[p]
    BY <1>15, Types DEF Crash, memory
  <2>2. QED
    BY <1>0, <1>t, <2>1 DEF FileStays, KnowsOwnCommit, PollIsForeign
<1>16. CASE Open(p)
  BY <1>16, Types DEF Open
<1>17. QED
  BY <1>1, <1>2, <1>3, <1>4, <1>5, <1>6, <1>7, <1>8, <1>9, <1>10, <1>11, <1>12, <1>13, <1>14,
     <1>15, <1>16 DEF Step

\* A rename puts p's transaction in the file, as its last.
LEMMA RenameIsLast ==
    ASSUME BasicInv, NEW p \in Clients, Rename(p)
    PROVE  /\ disk' = [doc |-> mem[p], stamp |-> begun] /\ disk' # NoFile
           /\ txn[p] \in mem[p].writes /\ txn[p] = <<p, begun>>
           /\ \A w \in mem[p].writes : Latest(mem[p].writes, w) <=> w = txn[p]
<1>1. /\ tmp = mem[p] /\ mem[p].writes = snapshot[p].writes \cup {txn[p]}
      /\ txn[p] = <<p, begun>> /\ 0 < begun /\ begun \in Nat
      /\ \A w \in snapshot[p].writes : w[2] < begun
  BY Types DEF BasicInv, TmpIsWritten, TransactionIsNew, InTransaction, Rename, Goto
<1>2. mem[p].writes \in Versions
  BY VersionsAre
<1>3. \A w \in mem[p].writes : w[2] \in Nat
  BY <1>2, VersionsAreTyped DEF BasicInv
<1>4. disk' = [doc |-> mem[p], stamp |-> begun] /\ disk' # NoFile
  BY <1>1 DEF Rename, NoFile
<1>5. txn[p] \in mem[p].writes /\ \A v \in mem[p].writes : v[2] <= txn[p][2]
  BY <1>1, <1>3
<1>6. \A w \in mem[p].writes : w # txn[p] => w[2] < txn[p][2]
  BY <1>1, <1>3
<1>7. ASSUME NEW w \in mem[p].writes
      PROVE  Latest(mem[p].writes, w) <=> w = txn[p]
  <2>1. CASE w = txn[p]
    BY <1>5, <2>1 DEF Latest
  <2>2. CASE w # txn[p]
    <3>1. w[2] < txn[p][2] /\ w[2] \in Nat /\ txn[p][2] \in Nat
      BY <1>3, <1>5, <1>6, <2>2
    <3>2. ~(txn[p][2] <= w[2])
      BY <3>1
    <3>3. QED
      BY <1>5, <2>2, <3>2 DEF Latest
  <2>3. QED
    BY <2>1, <2>2
<1>8. QED
  BY <1>1, <1>4, <1>5, <1>7

\* A rename makes p's document the file; for everybody else it is foreign.
LEMMA StepKeepsForeign ==
    ASSUME BasicInv, PollsBringForeign, NEW p \in Clients, Step(p)
    PROVE  PollsBringForeign'
<1> SUFFICES ASSUME restarts' = 0 PROVE PollsBringForeign'
  BY DEF PollsBringForeign
<1>0. /\ TypeOK /\ restarts = 0
      /\ disk = NoFile \/ \E w \in disk.doc.writes : Latest(disk.doc.writes, w)
      /\ \A q \in Clients : FileStays(q) /\ KnowsOwnCommit(q) /\ PollIsForeign(q)
  <2>1. restarts = 0
    BY DEF BasicInv, TypeOK, Step, Begin, Stat, StatFails, ReadDocument, ReadFails, Restat, Mutate,
       MutateThrows, OpenTmp, WriteTmp, SyncTmp, Rename, PersistFails, StampOwn, Finish, Poll,
       Note, Crash, Open,
       bounds
  <2>2. QED
    BY <2>1 DEF BasicInv, PollsBringForeign
<1>1. CASE ~Rename(p)
  <2>1. disk' = disk
    BY <1>0, <1>1, FileIsOnlyRenamed
  <2>2. FileStays(p)' /\ KnowsOwnCommit(p)' /\ PollIsForeign(p)'
    BY <1>0, <1>1, StepKeepsPolls
  <2>3. \A q \in Clients \ {p} : FileStays(q)' /\ KnowsOwnCommit(q)' /\ PollIsForeign(q)'
    BY <1>0, <2>1, StepIsLocal
       DEF FileStays, KnowsOwnCommit, PollIsForeign, IsLastIn, IsForeignTo, Latest
  <2>4. disk' = NoFile \/ \E w \in disk'.doc.writes : Latest(disk'.doc.writes, w)
    BY <1>0, <2>1
  <2>5. QED
    BY <2>2, <2>3, <2>4 DEF PollsBringForeign, Latest
<1>2. CASE Rename(p)
  <2>1. /\ disk'.doc = mem[p] /\ disk' # NoFile
        /\ txn[p] \in mem[p].writes /\ txn[p][1] = p
        /\ \A w \in mem[p].writes : Latest(mem[p].writes, w) <=> w = txn[p]
    BY <1>2, RenameIsLast
  <2>2. \A q \in Clients \ {p} : ~IsLastIn(mem[p], q)
    BY <2>1 DEF IsLastIn
  <2>3. \A q \in Clients \ {p} : FileStays(q)' /\ KnowsOwnCommit(q)' /\ PollIsForeign(q)'
    <3>1. SUFFICES ASSUME NEW q \in Clients \ {p}
                   PROVE  FileStays(q)' /\ KnowsOwnCommit(q)' /\ PollIsForeign(q)'
      OBVIOUS
    <3>2. ~IsLastIn(disk.doc, q)'
      BY <2>1, <2>2 DEF IsLastIn, Latest
    <3>3. PollIsForeign(q)'
      BY <1>0, StepIsLocal DEF PollIsForeign, IsForeignTo, Latest
    <3>4. FileStays(q)'
      BY <1>0, <2>1, StepIsLocal DEF FileStays
    <3>5. QED
      BY <3>2, <3>3, <3>4 DEF KnowsOwnCommit
  <2>4. pc[p] = "rename" /\ pc'[p] = "stampOwn" /\ mem' = mem
    BY <1>0, <1>2, Types DEF Rename, Goto, memory
  <2>5. FileStays(p)' /\ KnowsOwnCommit(p)' /\ PollIsForeign(p)'
    BY <2>1, <2>4 DEF FileStays, KnowsOwnCommit, PollIsForeign
  <2>6. \E w \in disk'.doc.writes : Latest(disk'.doc.writes, w)
    BY <2>1
  <2>7. QED
    BY <2>3, <2>5, <2>6 DEF PollsBringForeign, Latest
<1>3. QED
  BY <1>1, <1>2

\* A subscriber is told of a revision only when the poll brought another process's
\* commit that is news to it.
THEOREM NewsIsForeign == Spec => AnnouncedIsForeign
<1>1. Init => PollsBringForeign
  BY DEF Init, PollsBringForeign, FileStays, KnowsOwnCommit, PollIsForeign, IsLastIn, NoFile,
     EmptyDoc
<1>2. BasicInv /\ PollsBringForeign /\ [Next]_vars => PollsBringForeign'
  <2>1. ASSUME PollsBringForeign, UNCHANGED vars PROVE PollsBringForeign'
    BY <2>1 DEF PollsBringForeign, FileStays, KnowsOwnCommit, PollIsForeign, IsLastIn, IsForeignTo,
       Latest, vars, memory, bounds
  <2>2. QED
    BY <2>1, StepKeepsForeign DEF Next, Step
<1>3. ASSUME BasicInv, PollsBringForeign, NEW p \in Watchers, Note(p),
             ~(told'[p] \subseteq told[p]), restarts = 0
      PROVE  \E w \in told'[p] \ told[p] : w[1] # p
  <2>1. p \in Clients /\ pc[p] = "note"
    BY <1>3, ClientAssumption DEF Note, Goto
  <2>2. told'[p] = mem[p].writes /\ mem[p].rev # before[p]
    BY <1>3, <2>1, Types DEF BasicInv, Note
  <2>3. PICK w \in mem[p].writes : Latest(mem[p].writes, w) /\ w[1] # p
    BY <1>3, <2>1, <2>2 DEF PollsBringForeign, PollIsForeign, IsForeignTo
  <2>4. mem[p].writes \in Versions /\ told[p] \in Versions
    BY <2>1, VersionsAre, InElsewhere
  <2>5. w \notin told[p]
    BY <1>3, <2>2, <2>3, <2>4 DEF BasicInv, DocumentsGrow
  <2>6. QED
    BY <2>2, <2>3, <2>5
<1>4. BasicInv /\ PollsBringForeign =>
         \A p \in Watchers :
            Note(p) /\ ~(told'[p] \subseteq told[p]) /\ restarts = 0 =>
                \E w \in told'[p] \ told[p] : w[1] # p
  BY <1>3
<1>5. QED
  BY <1>1, <1>2, <1>4, InitBasic, NextKeepsBasic, PTL DEF Spec, AnnouncedIsForeign
-----------------------------------------------------------------------------
(* Commits, where reads succeed and do not overlap with renames. *)

\* Only the calls that write may fail.
ReadsSucceed == Failing \subseteq Persisting

\* An absent file, and nobody doing anything.
LEMMA InitIInv == Init => IInv
<1> SUFFICES ASSUME Init PROVE IInv
  OBVIOUS
<1>1. EmptyDoc \in Doc /\ EmptyDoc.writes = {} /\ disk.doc = EmptyDoc /\ disk.stamp = 0
  BY DEF Init, NoFile, EmptyDoc, Doc
<1>2. TypeOK
  BY <1>1, ClientAssumption, BoundAssumption DEF Init, TypeOK, Steps, Tasks, NoFile, Lock!LockInit
<1>3. OwnerIsInTransaction
  BY ClientAssumption DEF Init, OwnerIsInTransaction, InTransaction, Lock!LockInit
<1>4. BufferIsFile /\ TransactionBuildsOnFile /\ StampNamesDocument /\ AckedIsInFile /\ TmpIsAhead
  BY <1>1
     DEF Init, BufferIsFile, TransactionBuildsOnFile, StampNamesDocument, Settled, AckedIsInFile,
         TmpIsAhead
<1>5. NumbersAreBegun /\ FileIsThere
  BY <1>1 DEF Init, NumbersAreBegun, InTransaction, Uncommitted, FileIsThere
<1>6. QED
  BY <1>2, <1>3, <1>4, <1>5 DEF IInv

\* With the file there and readable, a stat takes its stamp and a refresh does not
\* fail.
LEMMA Readable ==
    ASSUME IInv, ReadsSucceed, NEW p \in Clients
    PROVE  /\ ~StatFails(p) /\ ~ReadFails(p)
           /\ Stat(p) => mem' = mem /\ stamp' = stamp
           /\ Restat(p) \/ StampOwn(p) =>
                 stamp' = [stamp EXCEPT ![p] = disk.stamp] /\ faults' = faults
<1>1. ~StatFails(p) /\ ~ReadFails(p)
  BY DEF IInv, ReadsSucceed, StatFails, ReadFails, Fails, Gone, FileIsThere, Goto
<1>2. disk = NoFile => stamp[p] = 0
  BY Types DEF IInv, NumbersAreBegun, NoFile
<1>3. Stat(p) => mem' = mem /\ stamp' = stamp
  BY <1>2 DEF Stat
<1>4. Restat(p) \/ StampOwn(p) => stamp' = [stamp EXCEPT ![p] = disk.stamp] /\ faults' = faults
  BY DEF IInv, ReadsSucceed, Restat, StampOwn, TakeStamp, Fails, Gone, FileIsThere, Goto
<1>5. QED
  BY <1>1, <1>3, <1>4

\* The types and the lock are kept as before.
LEMMA StepKeepsBasis ==
    ASSUME IInv, NEW p \in Clients, Step(p)
    PROVE  TypeOK' /\ OwnerIsInTransaction'
BY StepKeepsTypes, StepKeepsOwner
   DEF IInv, TransactionBuildsOnFile, TmpIsWritten, NumbersAreBegun, TransactionIsNumbered

\* The transaction that gets the lock has a number nobody had before.
LEMMA BeginPreserves ==
    ASSUME IInv, NEW p \in Clients, Begin(p)
    PROVE  IInv'
<1>1. TypeOK' /\ OwnerIsInTransaction'
  BY StepKeepsBasis DEF Step
<1>2. FileIsThere' /\ BufferIsFile'
  BY Types DEF IInv, Begin, Goto, Lock!Acquire, FileIsThere, BufferIsFile, memory, bounds
<1>3. TransactionBuildsOnFile'
  BY Types
     DEF IInv, Begin, Goto, Lock!Acquire, TransactionBuildsOnFile, OwnerIsInTransaction,
         InTransaction, memory, bounds
<1>4. NumbersAreBegun'
  <2>1. /\ owner = NoClient /\ begun' = begun + 1 /\ txn' = [txn EXCEPT ![p] = <<p, begun + 1>>]
        /\ disk' = disk /\ stamp' = stamp
    BY DEF Begin, Lock!Acquire
  <2>2. \A q \in Clients \ {p} : ~InTransaction(q)' /\ ~Uncommitted(q)'
    BY <2>1, Types, ClientAssumption
       DEF IInv, Begin, Goto, OwnerIsInTransaction, InTransaction, Uncommitted
  <2>3. \A w \in disk.doc.writes : w[2] \in Nat /\ w[2] <= begun
    BY Types, BoundAssumption DEF IInv, NumbersAreBegun, Writes
  <2>4. <<p, begun + 1>> \notin disk.doc.writes
    BY <2>3, Types DEF IInv
  <2>5. QED
    BY <2>1, <2>2, <2>3, <2>4, Types DEF IInv, NumbersAreBegun
<1>5. StampNamesDocument'
  BY Types DEF IInv, Begin, Goto, Lock!Acquire, StampNamesDocument, Settled, memory, bounds
<1>6. AckedIsInFile' /\ TmpIsAhead'
  BY Types DEF IInv, Begin, Goto, Lock!Acquire, AckedIsInFile, TmpIsAhead, memory, bounds
<1>7. QED
  BY <1>1, <1>2, <1>3, <1>4, <1>5, <1>6 DEF IInv

\* Whoever skips the read has the document of the file already.
LEMMA StatPreserves ==
    ASSUME IInv, ReadsSucceed, NEW p \in Clients, Stat(p)
    PROVE  IInv'
<1>a. mem' = mem /\ stamp' = stamp
  BY Readable
<1>1. TypeOK' /\ OwnerIsInTransaction'
  BY StepKeepsBasis DEF Step
<1>2. FileIsThere' /\ BufferIsFile'
  BY Types, <1>a DEF IInv, Stat, Goto, AfterRefresh, FileIsThere, BufferIsFile, NoFile
<1>3. TransactionBuildsOnFile'
  <2>1. disk.stamp \in {0, stamp[p]} => mem[p] = disk.doc /\ stamp[p] = disk.stamp
    BY Types DEF IInv, Stat, Goto, StampNamesDocument, Settled, NumbersAreBegun
  <2>2. QED
    BY <2>1, <1>a, Types DEF IInv, Stat, Goto, AfterRefresh, TransactionBuildsOnFile
<1>4. NumbersAreBegun'
  BY Types, <1>a
     DEF IInv, Stat, Goto, NumbersAreBegun, InTransaction, Uncommitted, memory, bounds, AfterRefresh
<1>5. StampNamesDocument'
  BY Types, <1>a DEF IInv, Stat, Goto, StampNamesDocument, Settled, memory, bounds, AfterRefresh
<1>6. AckedIsInFile' /\ TmpIsAhead'
  BY Types, <1>a DEF IInv, Stat, Goto, AckedIsInFile, TmpIsAhead, memory, bounds, AfterRefresh
<1>7. QED
  BY <1>1, <1>2, <1>3, <1>4, <1>5, <1>6 DEF IInv

\* What is read is the document of the file.
LEMMA ReadDocumentPreserves ==
    ASSUME IInv, NEW p \in Clients, ReadDocument(p)
    PROVE  IInv'
<1>1. TypeOK' /\ OwnerIsInTransaction'
  BY StepKeepsBasis DEF Step
<1>2. FileIsThere' /\ BufferIsFile'
  BY Types DEF IInv, ReadDocument, Goto, FileIsThere, BufferIsFile, memory, bounds
<1>3. TransactionBuildsOnFile'
  BY Types
     DEF IInv, ReadDocument, Goto, TransactionBuildsOnFile, OwnerIsInTransaction, InTransaction,
         memory, bounds
<1>4. NumbersAreBegun'
  BY Types DEF IInv, ReadDocument, Goto, NumbersAreBegun, InTransaction, Uncommitted, memory, bounds
<1>5. StampNamesDocument'
  BY Types DEF IInv, ReadDocument, Goto, StampNamesDocument, Settled, memory, bounds
<1>6. AckedIsInFile' /\ TmpIsAhead'
  BY Types DEF IInv, ReadDocument, Goto, AckedIsInFile, TmpIsAhead, memory, bounds
<1>7. QED
  BY <1>1, <1>2, <1>3, <1>4, <1>5, <1>6 DEF IInv

\* No rename came in between, so the stamp is that of the document read.
LEMMA RestatPreserves ==
    ASSUME IInv, ReadsSucceed, NoReadOverlap, NEW p \in Clients, Restat(p)
    PROVE  IInv'
<1>a. stamp' = [stamp EXCEPT ![p] = disk.stamp] /\ faults' = faults
  BY Readable
<1>1. TypeOK' /\ OwnerIsInTransaction'
  BY StepKeepsBasis DEF Step
<1>2. FileIsThere' /\ BufferIsFile'
  BY Types, <1>a DEF IInv, Restat, Goto, FileIsThere, BufferIsFile, memory, bounds, AfterRefresh
<1>3. TransactionBuildsOnFile'
  <2>1. mem' = [mem EXCEPT ![p] = disk.doc]
    BY DEF IInv, Restat, Goto, BufferIsFile
  <2>2. QED
    BY <2>1, <1>a, Types DEF IInv, Restat, Goto, AfterRefresh, TransactionBuildsOnFile
<1>4. NumbersAreBegun'
  <2>1. \A q \in Clients :
            /\ InTransaction(q)' <=> InTransaction(q)
            /\ Uncommitted(q)' => Uncommitted(q)
    BY Types DEF Restat, Goto, AfterRefresh, IInv, InTransaction, Uncommitted
  <2>2. disk' = disk /\ begun' = begun /\ txn' = txn
    BY DEF Restat
  <2>3. \A q \in Clients : stamp'[q] <= disk.stamp
    BY <1>a, Types DEF IInv, NumbersAreBegun
  <2>4. QED
    BY <2>1, <2>2, <2>3 DEF IInv, NumbersAreBegun
<1>5. StampNamesDocument'
  <2>1. mem' = [mem EXCEPT ![p] = disk.doc]
    BY DEF IInv, Restat, Goto, BufferIsFile
  <2>2. QED
    BY <2>1, <1>a, Types DEF IInv, Restat, Goto, AfterRefresh, StampNamesDocument, Settled
<1>6. AckedIsInFile' /\ TmpIsAhead'
  BY Types, <1>a DEF IInv, Restat, Goto, AckedIsInFile, TmpIsAhead, memory, bounds, AfterRefresh
<1>7. QED
  BY <1>1, <1>2, <1>3, <1>4, <1>5, <1>6 DEF IInv

\* The transaction builds on the document of the file.
LEMMA MutatePreserves ==
    ASSUME IInv, NEW p \in Clients, Mutate(p)
    PROVE  IInv'
<1>1. TypeOK' /\ OwnerIsInTransaction'
  BY StepKeepsBasis DEF Step
<1>2. FileIsThere' /\ BufferIsFile'
  BY Types DEF IInv, Mutate, Goto, FileIsThere, BufferIsFile, memory, bounds
<1>3. TransactionBuildsOnFile'
  BY Types
     DEF IInv, Mutate, Goto, TransactionBuildsOnFile, OwnerIsInTransaction, InTransaction, memory,
         bounds
<1>4. NumbersAreBegun'
  BY Types DEF IInv, Mutate, Goto, NumbersAreBegun, InTransaction, Uncommitted, memory, bounds
<1>5. StampNamesDocument'
  BY Types DEF IInv, Mutate, Goto, StampNamesDocument, Settled, memory, bounds
<1>6. AckedIsInFile' /\ TmpIsAhead'
  BY Types DEF IInv, Mutate, Goto, AckedIsInFile, TmpIsAhead, memory, bounds
<1>7. QED
  BY <1>1, <1>2, <1>3, <1>4, <1>5, <1>6 DEF IInv

\* A unit of work that throws leaves the document of the file in memory.
LEMMA MutateThrowsPreserves ==
    ASSUME IInv, NEW p \in Clients, MutateThrows(p)
    PROVE  IInv'
<1>1. TypeOK' /\ OwnerIsInTransaction'
  BY StepKeepsBasis DEF Step
<1>2. FileIsThere' /\ BufferIsFile'
  BY Types DEF IInv, MutateThrows, Goto, FileIsThere, BufferIsFile, memory, bounds
<1>3. TransactionBuildsOnFile'
  BY Types
     DEF IInv, MutateThrows, Goto, TransactionBuildsOnFile, OwnerIsInTransaction, InTransaction,
         memory, bounds
<1>4. NumbersAreBegun'
  BY Types DEF IInv, MutateThrows, Goto, NumbersAreBegun, InTransaction, Uncommitted, memory, bounds
<1>5. StampNamesDocument'
  BY Types DEF IInv, MutateThrows, Goto, StampNamesDocument, Settled, memory, bounds
<1>6. AckedIsInFile' /\ TmpIsAhead'
  BY Types DEF IInv, MutateThrows, Goto, AckedIsInFile, TmpIsAhead, memory, bounds
<1>7. QED
  BY <1>1, <1>2, <1>3, <1>4, <1>5, <1>6 DEF IInv

\* A tmp file that is being written stands in for nothing.
LEMMA OpenTmpPreserves ==
    ASSUME IInv, NEW p \in Clients, OpenTmp(p)
    PROVE  IInv'
<1>1. TypeOK' /\ OwnerIsInTransaction'
  BY StepKeepsBasis DEF Step
<1>2. FileIsThere' /\ BufferIsFile'
  BY Types DEF IInv, OpenTmp, Goto, FileIsThere, BufferIsFile, memory, bounds
<1>3. TransactionBuildsOnFile'
  BY Types
     DEF IInv, OpenTmp, Goto, TransactionBuildsOnFile, OwnerIsInTransaction, InTransaction, memory,
         bounds
<1>4. NumbersAreBegun'
  BY Types DEF IInv, OpenTmp, Goto, NumbersAreBegun, InTransaction, Uncommitted, memory, bounds
<1>5. StampNamesDocument'
  BY Types DEF IInv, OpenTmp, Goto, StampNamesDocument, Settled, memory, bounds
<1>6. AckedIsInFile' /\ TmpIsAhead'
  BY Types DEF IInv, OpenTmp, Goto, AckedIsInFile, TmpIsAhead, TransactionBuildsOnFile
<1>7. QED
  BY <1>1, <1>2, <1>3, <1>4, <1>5, <1>6 DEF IInv

\* A complete tmp file holds what is in the file, and the transaction.
LEMMA WriteTmpPreserves ==
    ASSUME IInv, NEW p \in Clients, WriteTmp(p)
    PROVE  IInv'
<1>1. TypeOK' /\ OwnerIsInTransaction'
  BY StepKeepsBasis DEF Step
<1>2. FileIsThere' /\ BufferIsFile'
  BY Types DEF IInv, WriteTmp, Goto, FileIsThere, BufferIsFile, memory, bounds
<1>3. TransactionBuildsOnFile'
  BY Types
     DEF IInv, WriteTmp, Goto, TransactionBuildsOnFile, OwnerIsInTransaction, InTransaction, memory,
         bounds
<1>4. NumbersAreBegun'
  BY Types DEF IInv, WriteTmp, Goto, NumbersAreBegun, InTransaction, Uncommitted, memory, bounds
<1>5. StampNamesDocument'
  BY Types DEF IInv, WriteTmp, Goto, StampNamesDocument, Settled, memory, bounds
<1>6. AckedIsInFile' /\ TmpIsAhead'
  BY Types DEF IInv, WriteTmp, Goto, AckedIsInFile, TmpIsAhead, TransactionBuildsOnFile
<1>7. QED
  BY <1>1, <1>2, <1>3, <1>4, <1>5, <1>6 DEF IInv

\* A synced tmp file is the one written.
LEMMA SyncTmpPreserves ==
    ASSUME IInv, NEW p \in Clients, SyncTmp(p)
    PROVE  IInv'
<1>1. TypeOK' /\ OwnerIsInTransaction'
  BY StepKeepsBasis DEF Step
<1>2. FileIsThere' /\ BufferIsFile'
  BY Types DEF IInv, SyncTmp, Goto, FileIsThere, BufferIsFile, memory, bounds
<1>3. TransactionBuildsOnFile'
  BY Types
     DEF IInv, SyncTmp, Goto, TransactionBuildsOnFile, OwnerIsInTransaction, InTransaction, memory,
         bounds
<1>4. NumbersAreBegun'
  BY Types DEF IInv, SyncTmp, Goto, NumbersAreBegun, InTransaction, Uncommitted, memory, bounds
<1>5. StampNamesDocument'
  BY Types DEF IInv, SyncTmp, Goto, StampNamesDocument, Settled, memory, bounds
<1>6. AckedIsInFile' /\ TmpIsAhead'
  BY Types DEF IInv, SyncTmp, Goto, AckedIsInFile, TmpIsAhead, TransactionBuildsOnFile
<1>7. QED
  BY <1>1, <1>2, <1>3, <1>4, <1>5, <1>6 DEF IInv

\* The file gets the transaction on top of what it held, under a new stamp:
\* whoever read it before knows that it changed.
LEMMA RenamePreserves ==
    ASSUME IInv, NoReadOverlap, NEW p \in Clients, Rename(p)
    PROVE  IInv'
<1>1. TypeOK' /\ OwnerIsInTransaction'
  BY StepKeepsBasis DEF Step
<1>2. FileIsThere' /\ BufferIsFile'
  <2>1. disk'.stamp # 0
    BY Types DEF IInv, Rename, Goto, NumbersAreBegun, InTransaction
  <2>2. FileIsThere'
    BY <2>1 DEF FileIsThere, NoFile
  <2>3. \A q \in Clients : pc'[q] # "restat"
    BY Types DEF IInv, Rename, Goto, NoReadOverlap, OwnerIsInTransaction, InTransaction
  <2>4. QED
    BY <2>2, <2>3 DEF BufferIsFile
<1>3. TransactionBuildsOnFile'
  BY Types
     DEF IInv, Rename, Goto, TransactionBuildsOnFile, OwnerIsInTransaction, InTransaction, memory,
         bounds
<1>4. NumbersAreBegun'
  <2>1. /\ InTransaction(p) /\ Uncommitted(p) /\ txn[p] = <<p, begun>> /\ 0 < begun
        /\ disk'.stamp = begun /\ disk'.doc.writes = disk.doc.writes \cup {txn[p]}
    BY DEF IInv, Rename, Goto, NumbersAreBegun, InTransaction, Uncommitted, TransactionBuildsOnFile
  <2>2. \A q \in Clients : q # p => ~InTransaction(q)' /\ ~Uncommitted(q)'
    BY <2>1, Types DEF IInv, Rename, Goto, OwnerIsInTransaction, InTransaction, Uncommitted
  <2>3. ~Uncommitted(p)'
    BY Types DEF IInv, Rename, Goto, Uncommitted
  <2>4. \A q \in Clients : stamp[q] <= begun
    BY Types DEF IInv, NumbersAreBegun
  <2>5. QED
    BY <2>1, <2>2, <2>3, <2>4, Types DEF IInv, Rename, NumbersAreBegun, memory, bounds
<1>5. StampNamesDocument'
  <2>1. disk'.stamp = begun /\ disk.stamp < begun
    BY DEF IInv, Rename, Goto, NumbersAreBegun, InTransaction, Uncommitted
  <2>2. \A q \in Clients : stamp'[q] # disk'.stamp
    BY <2>1, Types DEF IInv, Rename, NumbersAreBegun, memory
  <2>3. QED
    BY <2>2 DEF StampNamesDocument
<1>6. AckedIsInFile' /\ TmpIsAhead'
  BY Types DEF IInv, Rename, Goto, AckedIsInFile, TmpIsAhead, TransactionBuildsOnFile
<1>7. QED
  BY <1>1, <1>2, <1>3, <1>4, <1>5, <1>6 DEF IInv

\* The document in memory goes back to that of the file.
LEMMA PersistFailsPreserves ==
    ASSUME IInv, NEW p \in Clients, PersistFails(p)
    PROVE  IInv'
<1>1. TypeOK' /\ OwnerIsInTransaction'
  BY StepKeepsBasis DEF Step
<1>2. FileIsThere' /\ BufferIsFile'
  BY Types DEF IInv, PersistFails, Goto, FileIsThere, BufferIsFile, memory, bounds
<1>3. TransactionBuildsOnFile'
  BY Types
     DEF IInv, PersistFails, Goto, TransactionBuildsOnFile, OwnerIsInTransaction, InTransaction,
         memory, bounds
<1>4. NumbersAreBegun'
  BY Types DEF IInv, PersistFails, Goto, NumbersAreBegun, InTransaction, Uncommitted, memory, bounds
<1>5. StampNamesDocument'
  BY Types DEF IInv, PersistFails, Goto, StampNamesDocument, Settled, memory, bounds
<1>6. AckedIsInFile' /\ TmpIsAhead'
  BY Types DEF IInv, PersistFails, Goto, AckedIsInFile, TmpIsAhead, memory, bounds
<1>7. QED
  BY <1>1, <1>2, <1>3, <1>4, <1>5, <1>6 DEF IInv

\* The stamp is that of the document in memory: the lock is still held.
LEMMA StampOwnPreserves ==
    ASSUME IInv, ReadsSucceed, NEW p \in Clients, StampOwn(p)
    PROVE  IInv'
<1>a. stamp' = [stamp EXCEPT ![p] = disk.stamp] /\ faults' = faults
  BY Readable
<1>1. TypeOK' /\ OwnerIsInTransaction'
  BY StepKeepsBasis DEF Step
<1>2. FileIsThere' /\ BufferIsFile'
  BY Types, <1>a DEF IInv, StampOwn, Goto, FileIsThere, BufferIsFile, memory, bounds
<1>3. TransactionBuildsOnFile'
  BY Types, <1>a
     DEF IInv, StampOwn, Goto, TransactionBuildsOnFile, OwnerIsInTransaction, InTransaction, memory,
         bounds
<1>4. NumbersAreBegun'
  <2>1. \A q \in Clients :
            /\ InTransaction(q)' <=> InTransaction(q)
            /\ Uncommitted(q)' => Uncommitted(q)
    BY Types DEF StampOwn, Goto, IInv, InTransaction, Uncommitted
  <2>2. disk' = disk /\ begun' = begun /\ txn' = txn
    BY DEF StampOwn
  <2>3. \A q \in Clients : stamp'[q] <= disk.stamp
    BY <1>a, Types DEF IInv, NumbersAreBegun
  <2>4. QED
    BY <2>1, <2>2, <2>3 DEF IInv, NumbersAreBegun
<1>5. StampNamesDocument'
  BY Types, <1>a DEF IInv, StampOwn, Goto, StampNamesDocument, Settled, memory, bounds
<1>6. AckedIsInFile' /\ TmpIsAhead'
  BY Types, <1>a DEF IInv, StampOwn, Goto, AckedIsInFile, TmpIsAhead, memory, bounds
<1>7. QED
  BY <1>1, <1>2, <1>3, <1>4, <1>5, <1>6 DEF IInv

\* What is acknowledged is in the file.
LEMMA FinishPreserves ==
    ASSUME IInv, NEW p \in Clients, Finish(p)
    PROVE  IInv'
<1>1. TypeOK' /\ OwnerIsInTransaction'
  BY StepKeepsBasis DEF Step
<1>2. FileIsThere' /\ BufferIsFile'
  BY Types DEF IInv, Finish, Goto, Lock!Release, FileIsThere, BufferIsFile, memory, bounds
<1>3. TransactionBuildsOnFile'
  BY Types
     DEF IInv, Finish, Goto, Lock!Release, TransactionBuildsOnFile, OwnerIsInTransaction,
         InTransaction, memory, bounds
<1>4. NumbersAreBegun'
  BY Types
     DEF IInv, Finish, Goto, Lock!Release, NumbersAreBegun, InTransaction, Uncommitted, memory,
         bounds
<1>5. StampNamesDocument'
  BY Types DEF IInv, Finish, Goto, StampNamesDocument, Settled, TransactionBuildsOnFile, memory
<1>6. AckedIsInFile' /\ TmpIsAhead'
  BY Types DEF IInv, Finish, Goto, AckedIsInFile, TmpIsAhead, TransactionBuildsOnFile
<1>7. QED
  BY <1>1, <1>2, <1>3, <1>4, <1>5, <1>6 DEF IInv

\* A poll only begins.
LEMMA PollPreserves ==
    ASSUME IInv, NEW p \in Clients, Poll(p)
    PROVE  IInv'
<1>1. TypeOK' /\ OwnerIsInTransaction'
  BY StepKeepsBasis DEF Step
<1>2. FileIsThere' /\ BufferIsFile'
  BY Types DEF IInv, Poll, Goto, FileIsThere, BufferIsFile, memory, bounds
<1>3. TransactionBuildsOnFile'
  BY Types
     DEF IInv, Poll, Goto, TransactionBuildsOnFile, OwnerIsInTransaction, InTransaction, memory,
         bounds
<1>4. NumbersAreBegun'
  BY Types DEF IInv, Poll, Goto, NumbersAreBegun, InTransaction, Uncommitted, memory, bounds
<1>5. StampNamesDocument'
  BY Types DEF IInv, Poll, Goto, StampNamesDocument, Settled, memory, bounds
<1>6. AckedIsInFile' /\ TmpIsAhead'
  BY Types DEF IInv, Poll, Goto, AckedIsInFile, TmpIsAhead, memory, bounds
<1>7. QED
  BY <1>1, <1>2, <1>3, <1>4, <1>5, <1>6 DEF IInv

\* A poll ends with what the refresh brought.
LEMMA NotePreserves ==
    ASSUME IInv, NEW p \in Clients, Note(p)
    PROVE  IInv'
<1>1. TypeOK' /\ OwnerIsInTransaction'
  BY StepKeepsBasis DEF Step
<1>2. FileIsThere' /\ BufferIsFile'
  BY Types DEF IInv, Note, Goto, FileIsThere, BufferIsFile, memory, bounds
<1>3. TransactionBuildsOnFile'
  BY Types
     DEF IInv, Note, Goto, TransactionBuildsOnFile, OwnerIsInTransaction, InTransaction, memory,
         bounds
<1>4. NumbersAreBegun'
  BY Types DEF IInv, Note, Goto, NumbersAreBegun, InTransaction, Uncommitted, memory, bounds
<1>5. StampNamesDocument'
  BY Types DEF IInv, Note, Goto, StampNamesDocument, Settled, memory, bounds
<1>6. AckedIsInFile' /\ TmpIsAhead'
  BY Types DEF IInv, Note, Goto, AckedIsInFile, TmpIsAhead, memory, bounds
<1>7. QED
  BY <1>1, <1>2, <1>3, <1>4, <1>5, <1>6 DEF IInv

\* A dead process holds no lock and reads nothing.
LEMMA CrashPreserves ==
    ASSUME IInv, NEW p \in Clients, Crash(p)
    PROVE  IInv'
<1>1. TypeOK' /\ OwnerIsInTransaction'
  BY StepKeepsBasis DEF Step
<1>2. FileIsThere' /\ BufferIsFile'
  BY Types DEF IInv, Crash, Lock!Release, FileIsThere, BufferIsFile, memory, bounds
<1>3. TransactionBuildsOnFile'
  BY Types
     DEF IInv, Crash, Lock!Release, TransactionBuildsOnFile, OwnerIsInTransaction, InTransaction,
         memory, bounds
<1>4. NumbersAreBegun'
  BY Types
     DEF IInv, Crash, Lock!Release, NumbersAreBegun, InTransaction, Uncommitted, memory, bounds
<1>5. StampNamesDocument'
  BY Types DEF IInv, Crash, Lock!Release, StampNamesDocument, Settled, memory, bounds
<1>6. AckedIsInFile' /\ TmpIsAhead'
  BY Types DEF IInv, Crash, Lock!Release, AckedIsInFile, TmpIsAhead, memory, bounds
<1>7. QED
  BY <1>1, <1>2, <1>3, <1>4, <1>5, <1>6 DEF IInv

\* A process that comes back has no stamp, or there is no file.
LEMMA OpenPreserves ==
    ASSUME IInv, NEW p \in Clients, Open(p)
    PROVE  IInv'
<1>1. TypeOK' /\ OwnerIsInTransaction'
  BY StepKeepsBasis DEF Step
<1>2. FileIsThere' /\ BufferIsFile'
  BY Types DEF IInv, Open, Goto, FileIsThere, BufferIsFile, memory, bounds
<1>3. TransactionBuildsOnFile'
  BY Types
     DEF IInv, Open, Goto, TransactionBuildsOnFile, OwnerIsInTransaction, InTransaction, memory,
         bounds
<1>4. NumbersAreBegun'
  BY Types DEF IInv, Open, Goto, NumbersAreBegun, InTransaction, Uncommitted, memory, bounds
<1>5. StampNamesDocument'
  BY Types DEF IInv, Open, Goto, StampNamesDocument, Settled, NumbersAreBegun, NoFile
<1>6. AckedIsInFile' /\ TmpIsAhead'
  BY Types DEF IInv, Open, Goto, AckedIsInFile, TmpIsAhead, memory, bounds
<1>7. QED
  BY <1>1, <1>2, <1>3, <1>4, <1>5, <1>6 DEF IInv

\* Every step keeps the invariant, unless it renames over the file between an
\* unlocked read and its stat.
LEMMA NextPreserves ==
    ASSUME ReadsSucceed, NoReadOverlap, IInv, [Next]_vars
    PROVE  IInv'
<1>1. CASE UNCHANGED vars
  BY <1>1 DEF IInv, vars, memory, bounds, TypeOK, OwnerIsInTransaction, InTransaction, FileIsThere,
     BufferIsFile, TransactionBuildsOnFile, NumbersAreBegun, Uncommitted, StampNamesDocument,
     Settled, AckedIsInFile, TmpIsAhead
<1>2. ASSUME NEW p \in Clients,
             \/ Begin(p) \/ Stat(p) \/ StatFails(p) \/ ReadDocument(p) \/ ReadFails(p) \/ Restat(p)
             \/ Mutate(p) \/ MutateThrows(p) \/ OpenTmp(p) \/ WriteTmp(p) \/ SyncTmp(p)
             \/ Rename(p) \/ PersistFails(p)
             \/ StampOwn(p) \/ Finish(p) \/ Poll(p) \/ Note(p) \/ Crash(p) \/ Open(p)
      PROVE  IInv'
  BY <1>2, Readable, BeginPreserves, StatPreserves, ReadDocumentPreserves, RestatPreserves,
     MutatePreserves, MutateThrowsPreserves, OpenTmpPreserves, WriteTmpPreserves,
     SyncTmpPreserves, RenamePreserves,
     PersistFailsPreserves, StampOwnPreserves, FinishPreserves, PollPreserves, NotePreserves,
     CrashPreserves, OpenPreserves
<1>3. QED
  BY <1>1, <1>2 DEF Next
-----------------------------------------------------------------------------
\* The inductive invariant holds in every reachable state.
THEOREM Invariance ==
    ASSUME ReadsSucceed PROVE Spec /\ []NoReadOverlap => []IInv
<1>1. Init => IInv
  BY InitIInv
<1>2. NoReadOverlap /\ IInv /\ [Next]_vars => IInv'
  BY NextPreserves
<1>3. QED
  BY <1>1, <1>2, PTL DEF Spec

\* A transaction that resolved stays in the file.
THEOREM AcknowledgedIsDurable ==
    ASSUME ReadsSucceed PROVE Spec /\ []NoReadOverlap => []AckedIsInFile
<1>1. IInv => AckedIsInFile
  BY DEF IInv
<1>2. QED
  BY <1>1, Invariance, PTL

\* A stamp that is still the file's names the document in memory.
THEOREM StampsAreSound ==
    ASSUME ReadsSucceed PROVE Spec /\ []NoReadOverlap => []StampNamesDocument
<1>1. IInv => StampNamesDocument
  BY DEF IInv
<1>2. QED
  BY <1>1, Invariance, PTL

\* A complete tmp file holds everything the file it would stand in for does.
THEOREM TmpIsNeverBehind ==
    ASSUME ReadsSucceed PROVE Spec /\ []NoReadOverlap => []TmpIsAhead
<1>1. IInv => TmpIsAhead
  BY DEF IInv
<1>2. QED
  BY <1>1, Invariance, PTL

\* A step that does not rename leaves the file alone.
LEMMA OnlyRenameWrites ==
    ASSUME ReadsSucceed, IInv, [Next]_vars, \A p \in Clients : ~Rename(p)
    PROVE  disk' = disk
<1>1. ASSUME NEW p \in Clients,
             \/ Begin(p) \/ Stat(p) \/ ReadDocument(p) \/ Restat(p) \/ Mutate(p)
             \/ MutateThrows(p) \/ OpenTmp(p) \/ WriteTmp(p) \/ SyncTmp(p) \/ PersistFails(p)
             \/ StampOwn(p) \/ Finish(p)
             \/ Poll(p) \/ Note(p) \/ Crash(p) \/ Open(p)
      PROVE  disk' = disk
  BY <1>1 DEF Begin, Stat, ReadDocument, Restat, Mutate, MutateThrows, OpenTmp, WriteTmp, SyncTmp,
     PersistFails,
     StampOwn, Finish, Poll, Note, Crash, Open
<1>2. QED
  BY <1>1, Readable DEF Next, vars

\* A rename adds the transaction to what the file held.
LEMMA RenameCommits ==
    ASSUME IInv, NEW p \in Clients, Rename(p)
    PROVE  /\ txn[p] \in Writes /\ txn[p] \notin disk.doc.writes
           /\ disk'.doc.writes = disk.doc.writes \cup {txn[p]}
           /\ acked' = acked
<1>1. txn[p] \in Writes /\ txn[p] \notin disk.doc.writes
  <2>1. InTransaction(p) /\ Uncommitted(p)
    BY DEF Rename, Goto, InTransaction, Uncommitted
  <2>2. QED
    BY <2>1, NumbersAreBounded DEF IInv, NumbersAreBegun, TransactionIsNumbered
<1>2. disk'.doc.writes = disk.doc.writes \cup {txn[p]}
  BY DEF IInv, Rename, Goto, TransactionBuildsOnFile
<1>3. QED
  BY <1>1, <1>2 DEF Rename

\* No transaction loses another one's write.
THEOREM NothingIsLost ==
    ASSUME ReadsSucceed PROVE Spec /\ []NoReadOverlap => NoLostCommit
<1>1. IInv /\ [Next]_vars => disk.doc.writes \subseteq disk'.doc.writes
  BY OnlyRenameWrites, RenameCommits
<1>2. QED
  BY <1>1, Invariance, PTL DEF Spec, NoLostCommit

\* A rename is a commit, the end of a transaction that did not reject is its
\* acknowledgement, and every other step is invisible.
LEMMA StepRefines ==
    ASSUME ReadsSucceed, IInv, [Next]_vars
    PROVE  [Store!StoreNext]_<<disk.doc.writes, acked>>
<1>1. ASSUME NEW p \in Clients, Rename(p)
      PROVE  Store!StoreNext
  BY <1>1, RenameCommits DEF Store!StoreNext, Store!Commit
<1>2. ASSUME NEW p \in Clients, Finish(p), txn[p] \notin aborted
      PROVE  Store!StoreNext
  <2>1. txn[p] \in disk.doc.writes /\ txn[p] \in Writes
    BY <1>2, Types DEF IInv, Finish, Goto, TransactionBuildsOnFile
  <2>2. QED
    BY <1>2, <2>1 DEF Finish, Store!StoreNext, Store!Acknowledge
<1>3. ASSUME NEW p \in Clients, Finish(p), txn[p] \in aborted
      PROVE  acked' = acked
  BY <1>3 DEF Finish
<1>4. ASSUME NEW p \in Clients,
             \/ Begin(p) \/ Stat(p) \/ ReadDocument(p) \/ Restat(p) \/ Mutate(p)
             \/ MutateThrows(p) \/ OpenTmp(p) \/ WriteTmp(p) \/ SyncTmp(p) \/ PersistFails(p)
             \/ StampOwn(p)
             \/ Poll(p) \/ Note(p) \/ Crash(p) \/ Open(p)
      PROVE  acked' = acked
  BY <1>4 DEF Begin, Stat, ReadDocument, Restat, Mutate, MutateThrows, OpenTmp, WriteTmp, SyncTmp,
     PersistFails,
     StampOwn, Poll, Note, Crash, Open
<1>5. (\E p \in Clients : Rename(p)) \/ disk' = disk
  BY OnlyRenameWrites
<1>6. (\E p \in Clients : Rename(p) \/ Finish(p)) \/ acked' = acked
  BY <1>4, Readable DEF Next, vars
<1>7. QED
  BY <1>1, <1>2, <1>3, <1>5, <1>6

\* The file behaves as one store with atomic, cumulative transactions.
THEOREM Refinement ==
    ASSUME ReadsSucceed PROVE Spec /\ []NoReadOverlap => ImplementsStore
<1>1. Init => Store!StoreInit
  BY DEF Init, NoFile, EmptyDoc, Store!StoreInit
<1>2. IInv /\ [Next]_vars => [Store!StoreNext]_<<disk.doc.writes, acked>>
  BY StepRefines
<1>3. QED
  BY <1>1, <1>2, Invariance, PTL DEF Spec, ImplementsStore, Store!StoreSpec
-----------------------------------------------------------------------------
(* Where no process watches or opens the file while others write, nobody reads
   without the lock, and nothing has to be supposed of the interleaving. *)

\* Every read of the file is part of a transaction.
ReadsAreLocked ==
    \A p \in Clients : pc[p] # "note" /\ (pc[p] \in {"stat", "read", "restat"} => task[p] = "write")

\* No poll and no open begins an unlocked read.
LEMMA LockedPreserves ==
    ASSUME ReadsSucceed, Watchers = {}, MaxRestarts = 0, IInv, ReadsAreLocked, [Next]_vars
    PROVE  ReadsAreLocked'
<1>1. pc \in [Clients -> Steps] /\ task \in [Clients -> Tasks] /\ restarts = 0
  BY DEF IInv, TypeOK
<1>2. ASSUME NEW p \in Clients,
             \/ Begin(p) \/ Stat(p) \/ ReadDocument(p) \/ Restat(p) \/ Mutate(p)
             \/ MutateThrows(p) \/ OpenTmp(p) \/ WriteTmp(p) \/ SyncTmp(p) \/ Rename(p)
             \/ PersistFails(p) \/ StampOwn(p)
             \/ Finish(p) \/ Note(p) \/ Crash(p)
      PROVE  ReadsAreLocked'
  BY <1>1, <1>2 DEF ReadsAreLocked, Goto, AfterRefresh, Begin, Stat, ReadDocument, Restat, Mutate,
     MutateThrows, OpenTmp, WriteTmp, SyncTmp, Rename, PersistFails, StampOwn, Finish, Note, Crash
<1>3. ASSUME NEW p \in Clients, Poll(p) \/ Open(p) PROVE FALSE
  BY <1>1, <1>3 DEF Poll, Open
<1>4. CASE UNCHANGED vars
  BY <1>4 DEF ReadsAreLocked, vars
<1>5. QED
  BY <1>2, <1>3, <1>4, Readable DEF Next

\* Processes that only run transactions never lose each other's writes.
THEOREM LockedWritersLoseNothing ==
    ASSUME ReadsSucceed, Watchers = {}, MaxRestarts = 0
    PROVE  Spec => NoLostCommit /\ []AckedIsInFile
<1>1. Init => IInv /\ ReadsAreLocked
  BY InitIInv DEF Init, ReadsAreLocked
<1>2. ReadsAreLocked => NoReadOverlap
  BY DEF ReadsAreLocked, NoReadOverlap
<1>3. NoReadOverlap /\ IInv /\ [Next]_vars => IInv'
  BY NextPreserves
<1>4. IInv /\ ReadsAreLocked /\ [Next]_vars => ReadsAreLocked'
  BY LockedPreserves
<1>5. IInv => AckedIsInFile
  BY DEF IInv
<1>6. IInv /\ [Next]_vars => disk.doc.writes \subseteq disk'.doc.writes
  BY OnlyRenameWrites, RenameCommits
<1>7. QED
  BY <1>1, <1>2, <1>3, <1>4, <1>5, <1>6, PTL DEF Spec, NoLostCommit
=============================================================================
