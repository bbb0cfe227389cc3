--------------------------- MODULE NodeFileStore ---------------------------
(***************************************************************************)
(* NodeFileStorageAdapter: processes sharing one JSON memory file, each    *)
(* with its own in-memory document.  A read-write transaction refreshes,   *)
(* mutates and persists under the exclusive lock; opening the file and     *)
(* the change watcher read it without.                                     *)
(*                                                                         *)
(* The lock is ExclusiveLock, what FileLock implements while reclaims do   *)
(* not overlap.  Every file-system call is a step.  A document is the set  *)
(* of transactions whose effect it holds and the revision of its counters. *)
(* Nobody else deletes or rewrites the file, and every rename gives it a   *)
(* new mtime and size, for which the number of the transaction stands.     *)
(***************************************************************************)
EXTENDS Integers, FiniteSets

CONSTANTS
    Clients,        \* the processes sharing one memory file
    Watchers,       \* the ones with a subscriber and watchIntervalMs > 0
    Bumps,          \* by how much a transaction may move the revision
    MaxWrites,      \* bound: transactions begun
    Failing,        \* the file-system calls that may fail
    MaxFaults,      \* bound: file-system calls that fail
    MaxCrashes,     \* bound: processes that die
    MaxRestarts,    \* bound: processes that come back
    NoClient, NoDoc

VARIABLES
    disk,           \* <file>: its document and its mtime and size
    tmp,            \* <file>.tmp, where a complete document is in it
    owner,          \* the holder of <file>.lock
    pc,             \* the file-system call each process makes next
    task,           \* what that call is for
    mem,            \* _doc
    stamp,          \* _stamp; 0 is null
    buf,            \* a document read and not yet taken over
    snapshot,       \* _readWrite's copy of the document before the mutation
    before, last,   \* the watcher's revisions: before this poll, last seen
    told,           \* history: transactions the subscriber has been told of
    txn,            \* the transaction each process runs
    acked, aborted, \* history: transactions that resolved, that rejected
    salvaged,       \* history: transactions an open took out of the tmp file
    begun, faults, crashes, restarts

memory == <<mem, stamp, buf, snapshot, before, last, told, txn>>

bounds == <<begun, faults, crashes, restarts>>

vars == <<disk, tmp, owner, pc, task, memory, acked, aborted, salvaged, bounds>>

ASSUME ClientAssumption == Watchers \subseteq Clients /\ NoClient \notin Clients

ASSUME BoundAssumption ==
    /\ MaxWrites \in Nat /\ MaxFaults \in Nat /\ MaxCrashes \in Nat /\ MaxRestarts \in Nat
    /\ Bumps \subseteq Nat
    /\ Failing \subseteq {"stat", "read", "restat", "openTmp", "writeTmp", "syncTmp", "rename",
                          "stampOwn"}

Writes == Clients \X (1 .. MaxWrites)

Doc == [writes: SUBSET Writes, rev: Nat]

ASSUME DocAssumption == NoDoc \notin Doc

EmptyDoc == [writes |-> {}, rev |-> 0]

\* An absent file is the empty document with no stamp.
NoFile == [doc |-> EmptyDoc, stamp |-> 0]

\* The calls of _persist up to the rename.
Persisting == {"openTmp", "writeTmp", "syncTmp", "rename"}

Steps == Persisting \cup {"idle", "stat", "read", "restat", "note", "mutate",
                          "stampOwn", "release", "dead"}

Tasks == {"write", "watch", "open"}

TypeOK ==
    /\ disk \in [doc: Doc, stamp: 0 .. MaxWrites]
    /\ tmp \in Doc \cup {NoDoc}
    /\ owner \in Clients \cup {NoClient}
    /\ pc \in [Clients -> Steps]
    /\ task \in [Clients -> Tasks]
    /\ mem \in [Clients -> Doc] /\ buf \in [Clients -> Doc] /\ snapshot \in [Clients -> Doc]
    /\ stamp \in [Clients -> 0 .. MaxWrites]
    /\ before \in [Clients -> Nat] /\ last \in [Clients -> Nat]
    /\ told \in [Clients -> SUBSET Writes]
    /\ txn \in [Clients -> Clients \X (0 .. MaxWrites)]
    /\ acked \subseteq Writes /\ aborted \subseteq Writes /\ salvaged \subseteq Writes
    /\ begun \in 0 .. MaxWrites /\ faults \in 0 .. MaxFaults
    /\ crashes \in 0 .. MaxCrashes /\ restarts \in 0 .. MaxRestarts

Lock == INSTANCE ExclusiveLock

Init ==
    /\ disk = NoFile /\ tmp = NoDoc
    /\ Lock!LockInit
    /\ pc = [p \in Clients |-> "idle"]
    /\ task = [p \in Clients |-> "open"]
    /\ mem = [p \in Clients |-> EmptyDoc]
    /\ stamp = [p \in Clients |-> 0]
    /\ buf = mem /\ snapshot = mem
    /\ before = stamp /\ last = stamp
    /\ told = [p \in Clients |-> {}]
    /\ txn = [p \in Clients |-> <<p, 0>>]
    /\ acked = {} /\ aborted = {} /\ salvaged = {}
    /\ begun = 0 /\ faults = 0 /\ crashes = 0 /\ restarts = 0

Goto(p, from, to) == pc[p] = from /\ pc' = [pc EXCEPT ![p] = to]

\* w is the transaction a document was made by.
Latest(V, w) == w \in V /\ \A v \in V : v[2] <= w[2]

\* Where a refresh leads back to.
AfterRefresh(p) ==
    IF task[p] = "write" THEN "mutate" ELSE IF task[p] = "watch" THEN "note" ELSE "idle"
-----------------------------------------------------------------------------
(* Reading the file: _refreshIfChanged and _readDocument. *)

\* A call fails, which costs one of the faults there are.
Fails(call) == call \in Failing /\ faults < MaxFaults /\ faults' = faults + 1

Gone == disk = NoFile /\ UNCHANGED faults

\* Equal stamps, or no file yet and no stamp, mean nothing to read; a file that
\* went away is an empty document.
Stat(p) ==
    LET lost == disk = NoFile /\ stamp[p] # 0
    IN  /\ Goto(p, "stat", IF disk.stamp \in {0, stamp[p]} THEN AfterRefresh(p) ELSE "read")
        /\ mem' = IF lost THEN [mem EXCEPT ![p] = EmptyDoc] ELSE mem
        /\ stamp' = IF lost THEN [stamp EXCEPT ![p] = 0] ELSE stamp
        /\ UNCHANGED <<disk, tmp, owner, task, buf, snapshot, before, last, told, txn,
                       acked, aborted, salvaged, bounds>>

\* A stat that throws counts as nothing to read.
StatFails(p) ==
    /\ Fails("stat")
    /\ Goto(p, "stat", AfterRefresh(p))
    /\ UNCHANGED <<disk, tmp, owner, task, memory, acked, aborted, salvaged,
                   begun, crashes, restarts>>

\* _readDocument reads the contents ...
ReadDocument(p) ==
    /\ disk # NoFile
    /\ Goto(p, "read", "restat")
    /\ buf' = [buf EXCEPT ![p] = disk.doc]
    /\ UNCHANGED <<disk, tmp, owner, task, mem, stamp, snapshot, before, last, told, txn,
                   acked, aborted, salvaged, bounds>>

\* What the subscriber of a process knows once the process has opened the file.
Subscribe(p, doc) ==
    /\ last' = [last EXCEPT ![p] = doc.rev]
    /\ told' = [told EXCEPT ![p] = doc.writes]

\* A process that opens the file takes over a document and its stamp.
TakeOver(p, doc, number) ==
    /\ mem' = [mem EXCEPT ![p] = doc]
    /\ stamp' = [stamp EXCEPT ![p] = number]
    /\ Subscribe(p, doc)

\* _loadFromDisk without a document: the tmp file, whatever became of the
\* transaction that wrote it last, stands in for a file that cannot be read.  If
\* it cannot be read either, the file is moved away, or not, and the document is
\* empty.
Recover(p) ==
    \/ /\ disk # NoFile /\ tmp # NoDoc
       /\ \E w \in tmp.writes : Latest(tmp.writes, w) /\ TakeOver(p, tmp, w[2])
       /\ salvaged' = salvaged \cup tmp.writes
       /\ UNCHANGED disk
    \/ /\ TakeOver(p, EmptyDoc, 0)
       /\ disk' \in {disk, NoFile}
       /\ UNCHANGED salvaged

\* The contents cannot be read or parsed: a refresh keeps the document in memory.
ReadFails(p) ==
    /\ Gone \/ Fails("read")
    /\ Goto(p, "read", AfterRefresh(p))
    /\ IF task[p] = "open" THEN Recover(p)
                           ELSE UNCHANGED <<disk, mem, stamp, last, told, salvaged>>
    /\ UNCHANGED <<tmp, owner, task, buf, snapshot, before, txn,
                   acked, aborted, begun, crashes, restarts>>

\* A stat whose failure leaves the old stamp.
TakeStamp(p, call) ==
    \/ disk # NoFile /\ stamp' = [stamp EXCEPT ![p] = disk.stamp] /\ UNCHANGED faults
    \/ (Gone \/ Fails(call)) /\ UNCHANGED stamp

\* ... and then stats the file it names by now.  A process that opens the file
\* subscribes to it at once.
Restat(p) ==
    /\ Goto(p, "restat", AfterRefresh(p))
    /\ mem' = [mem EXCEPT ![p] = buf[p]]
    /\ TakeStamp(p, "restat")
    /\ IF task[p] = "open" THEN Subscribe(p, buf[p]) ELSE UNCHANGED <<last, told>>
    /\ UNCHANGED <<disk, tmp, owner, task, buf, snapshot, before, txn,
                   acked, aborted, salvaged, begun, crashes, restarts>>

-----------------------------------------------------------------------------
(* The read-write transaction. *)

\* Mutant of Begin: a transaction builds on the document it has in memory.
BeginUnrefreshed(p) ==
    /\ begun < MaxWrites
    /\ Goto(p, "idle", "mutate")
    /\ Lock!Acquire(p)
    /\ task' = [task EXCEPT ![p] = "write"]
    /\ begun' = begun + 1
    /\ txn' = [txn EXCEPT ![p] = <<p, begun + 1>>]
    /\ UNCHANGED <<disk, tmp, mem, stamp, buf, snapshot, before, last, told,
                   acked, aborted, salvaged, faults, crashes, restarts>>

\* transact: the next queued transaction gets the lock.
Begin(p) ==
    /\ begun < MaxWrites
    /\ Goto(p, "idle", "stat")
    /\ Lock!Acquire(p)
    /\ task' = [task EXCEPT ![p] = "write"]
    /\ begun' = begun + 1
    /\ txn' = [txn EXCEPT ![p] = <<p, begun + 1>>]
    /\ UNCHANGED <<disk, tmp, mem, stamp, buf, snapshot, before, last, told,
                   acked, aborted, salvaged, faults, crashes, restarts>>

\* The unit of work changes the live document in place.
Mutate(p) ==
    /\ Goto(p, "mutate", "openTmp")
    /\ snapshot' = [snapshot EXCEPT ![p] = mem[p]]
    /\ \E n \in Bumps :
          mem' = [mem EXCEPT ![p] = [writes |-> @.writes \cup {txn[p]}, rev |-> @.rev + n]]
    /\ UNCHANGED <<disk, tmp, owner, task, stamp, buf, before, last, told, txn,
                   acked, aborted, salvaged, bounds>>

\* Mutant of MutateThrows: a unit of work that threw half way is not undone.
MutateThrowsKept(p) ==
    /\ Goto(p, "mutate", "release")
    /\ aborted' = aborted \cup {txn[p]}
    /\ mem' = [mem EXCEPT ![p].writes = @ \cup {txn[p]}]
    /\ UNCHANGED <<disk, tmp, owner, task, stamp, buf, snapshot, before, last, told, txn,
                   acked, salvaged, bounds>>

\* The unit of work throws; the document is restored from the snapshot.
MutateThrows(p) ==
    /\ Goto(p, "mutate", "release")
    /\ aborted' = aborted \cup {txn[p]}
    /\ snapshot' = [snapshot EXCEPT ![p] = mem[p]]
    /\ UNCHANGED <<disk, tmp, owner, task, mem, stamp, buf, before, last, told, txn,
                   acked, salvaged, bounds>>

\* _persist opens the tmp file, which empties it, ...
OpenTmp(p) ==
    /\ Goto(p, "openTmp", "writeTmp")
    /\ tmp' = NoDoc
    /\ UNCHANGED <<disk, owner, task, memory, acked, aborted, salvaged, bounds>>

\* Mutant of WriteTmp: a torn write goes unnoticed.
WriteTmpTorn(p) ==
    /\ Goto(p, "writeTmp", "syncTmp")
    /\ UNCHANGED <<disk, tmp, owner, task, memory, acked, aborted, salvaged, bounds>>

\* ... writes the document, ...
WriteTmp(p) ==
    /\ Goto(p, "writeTmp", "syncTmp")
    /\ tmp' = mem[p]
    /\ UNCHANGED <<disk, owner, task, memory, acked, aborted, salvaged, bounds>>

\* ... and syncs and closes the file.
SyncTmp(p) ==
    /\ Goto(p, "syncTmp", "rename")
    /\ UNCHANGED <<disk, tmp, owner, task, memory, acked, aborted, salvaged, bounds>>

\* Atomically replaces the file.
Rename(p) ==
    /\ Goto(p, "rename", "stampOwn")
    /\ disk' = [doc |-> tmp, stamp |-> txn[p][2]]
    /\ tmp' = NoDoc
    /\ UNCHANGED <<owner, task, memory, acked, aborted, salvaged, bounds>>

\* A call before the rename, or the rename, fails; the document in memory goes
\* back to the snapshot.  The tmp file stays as it is by then: the old one when
\* it cannot be opened, torn when it cannot be written, complete after that.
PersistFails(p) ==
    /\ \E call \in Persisting : Fails(call) /\ Goto(p, call, "release")
    /\ mem' = [mem EXCEPT ![p] = snapshot[p]]
    /\ aborted' = aborted \cup {txn[p]}
    /\ UNCHANGED <<disk, tmp, owner, task, stamp, buf, snapshot, before, last, told, txn,
                   acked, salvaged, begun, crashes, restarts>>

\* The stat after the rename.
StampOwn(p) ==
    /\ Goto(p, "stampOwn", "release")
    /\ TakeStamp(p, "stampOwn")
    /\ UNCHANGED <<disk, tmp, owner, task, mem, buf, snapshot, before, last, told, txn,
                   acked, aborted, salvaged, begun, crashes, restarts>>

\* The lock goes, and the caller's promise settles.
Finish(p) ==
    /\ Goto(p, "release", "idle")
    /\ Lock!Release(p)
    /\ acked' = IF txn[p] \in aborted THEN acked ELSE acked \cup {txn[p]}
    /\ UNCHANGED <<disk, tmp, task, memory, aborted, salvaged, bounds>>
-----------------------------------------------------------------------------
(* The watcher, and processes that die and come back. *)

\* A poll: the timer fires between transactions, or while one waits for the lock.
Poll(p) ==
    /\ p \in Watchers
    /\ Goto(p, "idle", "stat")
    /\ task' = [task EXCEPT ![p] = "watch"]
    /\ before' = [before EXCEPT ![p] = mem[p].rev]
    /\ UNCHANGED <<disk, tmp, owner, mem, stamp, buf, snapshot, last, told, txn,
                   acked, aborted, salvaged, bounds>>

\* Mutant of Note: only the last revision announced is compared with.
NoteOwnCommits(p) ==
    /\ Goto(p, "note", "idle")
    /\ last' = [last EXCEPT ![p] = mem[p].rev]
    /\ told' = [told EXCEPT ![p] = IF mem[p].rev # last[p] THEN mem[p].writes ELSE @]
    /\ UNCHANGED <<disk, tmp, owner, task, mem, stamp, buf, snapshot, before, txn,
                   acked, aborted, salvaged, bounds>>

\* Subscribers get a note when this very poll brought a revision not yet seen.
Note(p) ==
    /\ Goto(p, "note", "idle")
    /\ last' = [last EXCEPT ![p] = mem[p].rev]
    /\ told' = [told EXCEPT ![p] =
                   IF mem[p].rev # before[p] /\ mem[p].rev # last[p] THEN mem[p].writes ELSE @]
    /\ UNCHANGED <<disk, tmp, owner, task, mem, stamp, buf, snapshot, before, txn,
                   acked, aborted, salvaged, bounds>>

\* Memory goes, and with it the lock: its pid is dead.
Crash(p) ==
    /\ crashes < MaxCrashes
    /\ pc[p] # "dead"
    /\ crashes' = crashes + 1
    /\ pc' = [pc EXCEPT ![p] = "dead"]
    /\ IF owner = p THEN Lock!Release(p) ELSE UNCHANGED owner
    /\ UNCHANGED <<disk, tmp, task, memory, acked, aborted, salvaged, begun, faults, restarts>>

\* open: a file that is not there is the empty document; the tmp file of a dead
\* process is looked at only when the file itself cannot be parsed.
Open(p) ==
    /\ restarts < MaxRestarts
    /\ restarts' = restarts + 1
    /\ Goto(p, "dead", IF disk = NoFile THEN "idle" ELSE "read")
    /\ task' = [task EXCEPT ![p] = "open"]
    /\ mem' = [mem EXCEPT ![p] = EmptyDoc]
    /\ stamp' = [stamp EXCEPT ![p] = 0]
    /\ last' = [last EXCEPT ![p] = 0]
    /\ told' = [told EXCEPT ![p] = {}]
    /\ UNCHANGED <<disk, tmp, owner, buf, snapshot, before, txn,
                   acked, aborted, salvaged, begun, faults, crashes>>

Next ==
    \E p \in Clients :
        \/ Begin(p) \/ Stat(p) \/ StatFails(p) \/ ReadDocument(p) \/ ReadFails(p) \/ Restat(p)
        \/ Mutate(p) \/ MutateThrows(p)
        \/ OpenTmp(p) \/ WriteTmp(p) \/ SyncTmp(p) \/ Rename(p) \/ PersistFails(p)
        \/ StampOwn(p) \/ Finish(p)
        \/ Poll(p) \/ Note(p) \/ Crash(p) \/ Open(p)

Spec == Init /\ [][Next]_vars
-----------------------------------------------------------------------------
\* Between transactions: what readonly transactions and subscribers see.
Settled(p) == pc[p] \in {"idle", "stat", "read", "restat", "note"}

\* A transaction that rejected has left nothing behind, neither in the file nor
\* in a document that is read, nor has a subscriber heard of it
\* (nodeFileAdapter.ts:21-22, 243-244).  The ones an open took out of the tmp
\* file excepted: a failed fsync, close or rename leaves a complete tmp file of
\* a transaction that rejected, and nothing says so (:153-155).
AbortedLeavesNothing ==
    \A w \in aborted \ salvaged :
        /\ w \notin disk.doc.writes \cup acked
        /\ \A p \in Clients : w \notin told[p] /\ (Settled(p) => w \notin mem[p].writes)

\* nodeFileAdapter.ts:306, origin 'foreign': a note that brings anything new
\* brings some other process's commit, never just this one's own.  To a process
\* that came back, what it committed in its former life may be news.
AnnouncedIsForeign ==
    [][\A p \in Watchers :
          Note(p) /\ ~(told'[p] \subseteq told[p]) /\ restarts = 0 =>
              \E w \in told'[p] \ told[p] : w[1] # p]_vars

\* Everything acknowledged is in the file.
AckedIsInFile == acked \subseteq disk.doc.writes

\* A stamp that is still the file's means that the document is, too, so that
\* skipping the read loses nothing.
StampNamesDocument ==
    \A p \in Clients : Settled(p) /\ stamp[p] = disk.stamp => mem[p] = disk.doc

\* A complete tmp file is never behind the file it would stand in for.
TmpIsAhead == tmp # NoDoc => disk.doc.writes \subseteq tmp.writes

\* The file behaves as one store with atomic, cumulative transactions.
Store == INSTANCE AtomicStore WITH Transactions <- Writes, store <- disk.doc.writes

ImplementsStore == Store!StoreSpec

\* nodeFileAdapter.ts:16-17: two processes never both build on the same stale
\* document, so that one loses the other's write.
NoLostCommit == [][disk.doc.writes \subseteq disk'.doc.writes]_vars
-----------------------------------------------------------------------------
(* The inductive invariant, for processes that do not read the file without
   the lock while another one renames over it. *)

InTransaction(p) ==
    \/ pc[p] \in Persisting \cup {"mutate", "stampOwn", "release"}
    \/ pc[p] \in {"stat", "read", "restat"} /\ task[p] = "write"

\* Its transaction is not in the file yet.
Uncommitted(p) == InTransaction(p) /\ pc[p] \notin {"stampOwn", "release"}

\* No rename falls between an unlocked read of the file and the stat after it.
NoReadOverlap ==
    \A p, q \in Clients : pc[p] = "restat" /\ task[p] # "write" => pc[q] # "rename"

OwnerIsInTransaction == \A p \in Clients : InTransaction(p) <=> owner = p

\* What was just read is what is in the file.
BufferIsFile == \A p \in Clients : pc[p] = "restat" => buf[p] = disk.doc

\* Whoever reads or stamps the file finds it.
FileIsThere == \A p \in Clients : pc[p] \in {"read", "restat", "stampOwn"} => disk # NoFile

\* Where a transaction's document stands against the file, step by step.
TransactionBuildsOnFile ==
    \A p \in Clients :
        /\ pc[p] \in {"mutate", "release"} => mem[p] = disk.doc /\ stamp[p] = disk.stamp
        /\ pc[p] \in Persisting =>
              /\ snapshot[p] = disk.doc /\ stamp[p] = disk.stamp
              /\ mem[p].writes = disk.doc.writes \cup {txn[p]}
        /\ pc[p] \in {"syncTmp", "rename"} => tmp = mem[p]
        /\ pc[p] = "stampOwn" => mem[p] = disk.doc /\ txn[p] \in disk.doc.writes
        /\ pc[p] = "release" => txn[p] \in aborted \cup disk.doc.writes

\* Stamps and transactions are numbered as they begin.
NumbersAreBegun ==
    /\ disk.stamp <= begun /\ (disk.stamp = 0 => disk = NoFile)
    /\ \A p \in Clients :
          /\ stamp[p] <= disk.stamp
          /\ InTransaction(p) => 0 < begun /\ txn[p] = <<p, begun>>
          /\ Uncommitted(p) => disk.stamp < begun /\ txn[p] \notin disk.doc.writes
    /\ \A w \in disk.doc.writes : w[2] <= begun

IInv ==
    /\ TypeOK
    /\ OwnerIsInTransaction
    /\ FileIsThere
    /\ BufferIsFile
    /\ TransactionBuildsOnFile
    /\ NumbersAreBegun
    /\ StampNamesDocument
    /\ AckedIsInFile
    /\ TmpIsAhead
-----------------------------------------------------------------------------
(* A second inductive invariant, for any reads without the lock and any calls
   that fail: what the documents are, not which of them is where. *)

\* The documents that are read, besides the one in p's memory, as sets of
\* transactions ...
Shown(p) ==
    {disk.doc.writes} \cup {mem[q].writes : q \in Clients \ {p}}
    \cup {buf[q].writes : q \in Clients} \cup {snapshot[q].writes : q \in Clients}
    \cup {told[q] : q \in Clients}

Visible == UNION {Shown(p) \cup {mem[p].writes} : p \in Clients}

\* ... and the tmp file.
Elsewhere(p) == Shown(p) \cup {t.writes : t \in {tmp} \ {NoDoc}}

Versions == UNION {Elsewhere(p) \cup {mem[p].writes} : p \in Clients}

\* Before its unit of work has run.
Untried(p) == InTransaction(p) /\ pc[p] \notin Persisting \cup {"stampOwn", "release"}

TmpIsWritten == \A p \in Clients : pc[p] \in {"syncTmp", "rename"} => tmp = mem[p]

\* A transaction is newer than anything there is until its unit of work has run.
TransactionIsNew ==
    /\ \A V \in Versions : \A w \in V : w[2] <= begun
    /\ \A p \in Clients :
          /\ InTransaction(p) => 0 < begun /\ txn[p] = <<p, begun>>
          /\ Untried(p) => \A V \in Versions : \A w \in V : w[2] < begun
          /\ pc[p] \in Persisting =>
                /\ mem[p].writes = snapshot[p].writes \cup {txn[p]}
                /\ \A w \in snapshot[p].writes : w[2] < begun

\* A transaction is in what its document is from then on made into.
DocumentsGrow == \A U, V \in Versions : \A w \in V : Latest(V, w) /\ w \in U => V \subseteq U

BasicInv == TypeOK /\ OwnerIsInTransaction /\ TmpIsWritten /\ TransactionIsNew /\ DocumentsGrow

\* What rejected is nowhere, and what is being written is in nobody else's
\* document, if no open took it out of the tmp file.
AbortedIsNowhere ==
    /\ \A w \in acked \cup aborted : w[2] <= begun
    /\ \A w \in aborted : w \notin acked
    /\ \A w \in aborted \ salvaged : \A V \in Visible : w \notin V
    /\ \A p \in Clients :
          /\ InTransaction(p) => txn[p] \notin acked /\ (pc[p] # "release" => txn[p] \notin aborted)
          /\ pc[p] \in Persisting /\ txn[p] \notin salvaged => \A V \in Shown(p) : txn[p] \notin V

\* The last transaction in the file, if it is p's.
IsLastIn(doc, p) == \E w \in doc.writes : Latest(doc.writes, w) /\ w[1] = p
IsForeignTo(doc, p) == \E w \in doc.writes : Latest(doc.writes, w) /\ w[1] # p

\* A process has the document of its own last commit until another one commits ...
KnowsOwnCommit(p) ==
    IsLastIn(disk.doc, p) /\ pc[p] # "dead" =>
        /\ (IF pc[p] \in Persisting THEN snapshot[p] ELSE mem[p]) = disk.doc
        /\ pc[p] = "restat" => buf[p] = disk.doc

\* ... so that what a poll brings is another's commit.
PollIsForeign(p) ==
    /\ pc[p] \in {"stat", "read", "restat"} /\ task[p] = "watch" => before[p] = mem[p].rev
    /\ pc[p] = "restat" /\ task[p] = "watch" => buf[p] = mem[p] \/ IsForeignTo(buf[p], p)
    /\ pc[p] = "note" => before[p] = mem[p].rev \/ IsForeignTo(mem[p], p)

\* Nobody moves the file away or finds it gone.
FileStays(p) ==
    /\ disk = NoFile => stamp[p] = 0
    /\ pc[p] \in {"stat", "read", "restat", "note"} => task[p] # "open"

PollsBringForeign ==
    restarts = 0 =>
        /\ disk = NoFile \/ \E w \in disk.doc.writes : Latest(disk.doc.writes, w)
        /\ \A p \in Clients : FileStays(p) /\ KnowsOwnCommit(p) /\ PollIsForeign(p)
=============================================================================
