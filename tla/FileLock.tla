------------------------------ MODULE FileLock ------------------------------
(***************************************************************************)
(* The cross-process lock of the node-file adapter: a lock file created    *)
(* exclusively, holding the PID of its holder, reclaimed once that PID is  *)
(* dead.                                                                   *)
(*                                                                         *)
(* A client is one process with one FileLock on the memory file; the       *)
(* adapter's queue runs its transactions one at a time.  Every system call *)
(* is a step, so that other processes run between any two of them.         *)
(***************************************************************************)
EXTENDS Integers, FiniteSets

CONSTANTS
    Clients,        \* the processes sharing one memory file
    Pids,           \* process ids the system hands out
    FirstPid,       \* the pid each process starts with
    MaxCrashes,     \* bound: processes that die
    MaxRestarts,    \* bound: processes that come back
    MaxFaults,      \* bound: file-system calls that fail for good
    NoClient, NoPid, NoLock

VARIABLES
    lockFile,       \* <file>.lock: who created it and the pid written into it
    pc,             \* the system call each client makes next
    holder,         \* the pid each client last read from the lock file
    expired,        \* whether each client's deadline has passed
    pid,            \* the process id of each client
    crashes, restarts, faults,
    overlapped      \* history: whether a reclaim was not alone (see Overlap)

vars == <<lockFile, pc, holder, expired, pid, crashes, restarts, faults, overlapped>>

ASSUME PidAssumption ==
    /\ FirstPid \in [Clients -> Pids]
    /\ \A c, d \in Clients : FirstPid[c] = FirstPid[d] => c = d
    /\ NoPid \notin Pids

ASSUME BoundAssumption == MaxCrashes \in Nat /\ MaxRestarts \in Nat /\ MaxFaults \in Nat

\* The creator stands for the inode: it is not part of the file's contents.
LockFile == [creator: Clients, pid: Pids \cup {NoPid}]

ASSUME LockAssumption == NoLock \notin LockFile /\ NoClient \notin Clients

Steps == {"idle", "create", "writePid", "read", "probe", "confirm", "unlink", "check", "held", "dead"}

\* kill(pid, 0)
IsAlive(p) == \E c \in Clients : pc[c] # "dead" /\ pid[c] = p

TypeOK ==
    /\ lockFile \in LockFile \cup {NoLock}
    /\ pc \in [Clients -> Steps]
    /\ holder \in [Clients -> Pids \cup {NoPid}]
    /\ expired \in [Clients -> BOOLEAN]
    /\ pid \in [Clients -> Pids]
    /\ crashes \in 0 .. MaxCrashes /\ restarts \in 0 .. MaxRestarts /\ faults \in 0 .. MaxFaults
    /\ overlapped \in BOOLEAN

Init ==
    /\ lockFile = NoLock
    /\ pc = [c \in Clients |-> "idle"]
    /\ holder = [c \in Clients |-> NoPid]
    /\ expired = [c \in Clients |-> FALSE]
    /\ pid = FirstPid
    /\ crashes = 0 /\ restarts = 0 /\ faults = 0
    /\ overlapped = FALSE

\* From one call to the next.
Goto(c, from, to) == pc[c] = from /\ pc' = [pc EXCEPT ![c] = to]

Quiet == UNCHANGED <<expired, pid, crashes, restarts, faults>>

\* run: a read-write transaction asks for the lock; its deadline starts here.
Request(c) ==
    /\ Goto(c, "idle", "create")
    /\ expired' = [expired EXCEPT ![c] = FALSE]
    /\ UNCHANGED <<lockFile, holder, pid, crashes, restarts, faults>>

\* Mutant of Create: flag 'w' instead of 'wx'.
CreateAnyway(c) ==
    /\ Goto(c, "create", "writePid")
    /\ lockFile' = [creator |-> c, pid |-> NoPid]
    /\ UNCHANGED holder /\ Quiet

\* open 'wx': atomic create-if-absent.
Create(c) ==
    /\ lockFile = NoLock
    /\ Goto(c, "create", "writePid")
    /\ lockFile' = [creator |-> c, pid |-> NoPid]
    /\ UNCHANGED holder /\ Quiet

\* EEXIST
CreateExists(c) ==
    /\ lockFile # NoLock
    /\ Goto(c, "create", "read")
    /\ UNCHANGED <<lockFile, holder>> /\ Quiet

\* The pid goes through the descriptor, so it reaches the lock file only if
\* that is still the file this client created.
WritePid(c) ==
    /\ Goto(c, "writePid", "held")
    /\ lockFile' = IF lockFile # NoLock /\ lockFile.creator = c
                   THEN [lockFile EXCEPT !.pid = pid[c]]
                   ELSE lockFile
    /\ UNCHANGED holder /\ Quiet

\* Mutant of ReadHolder: the missing file is reported as the holder.
ReadHolderMissing(c) ==
    /\ Goto(c, "read", "probe")
    /\ holder' = [holder EXCEPT ![c] = IF lockFile = NoLock THEN NoLock ELSE lockFile.pid]
    /\ UNCHANGED lockFile /\ Quiet

\* readHolder: the lock may be gone by now, or its pid not written yet.
ReadHolder(c) ==
    /\ Goto(c, "read", "probe")
    /\ holder' = [holder EXCEPT ![c] = IF lockFile = NoLock THEN NoPid ELSE lockFile.pid]
    /\ UNCHANGED lockFile /\ Quiet

\* Mutant of Reclaimable: staleness goes by age.
ReclaimableByAge(c) == holder[c] # NoPid /\ holder[c] # pid[c] /\ expired[c]

\* Mutant of Reclaimable: no liveness probe is available, every pid looks alive.
NeverReclaimable(c) == FALSE

\* A holder that is known, not this process, and dead.
Reclaimable(c) == holder[c] # NoPid /\ holder[c] # pid[c] /\ ~IsAlive(holder[c])

Probe(c) ==
    /\ Goto(c, "probe", IF Reclaimable(c) THEN "confirm" ELSE "check")
    /\ UNCHANGED <<lockFile, holder>> /\ Quiet

\* _reclaim's second read: only a lock that still names the dead holder goes.
Confirm(c) ==
    /\ Goto(c, "confirm", IF lockFile # NoLock /\ lockFile.pid = holder[c] THEN "unlink" ELSE "create")
    /\ UNCHANGED <<lockFile, holder>> /\ Quiet

\* _reclaim's unlink takes whatever is at the path by now; ENOENT is fine.
Unlink(c) ==
    /\ Goto(c, "unlink", "create")
    /\ lockFile' = NoLock
    /\ UNCHANGED holder /\ Quiet

\* Mutant of Check: the retry loop forgets its deadline.
CheckForever(c) ==
    /\ Goto(c, "check", "create")
    /\ UNCHANGED <<lockFile, holder>> /\ Quiet

\* Past the deadline the transaction rejects, otherwise it sleeps and retries.
Check(c) ==
    /\ Goto(c, "check", IF expired[c] THEN "idle" ELSE "create")
    /\ UNCHANGED <<lockFile, holder>> /\ Quiet

\* _release: unlink without a look at whose lock it is; ENOENT is fine.
Release(c) ==
    /\ Goto(c, "held", "idle")
    /\ lockFile' = NoLock
    /\ UNCHANGED holder /\ Quiet

\* A call fails for another reason: run throws.  A lock file already created is
\* left where it is, without a pid or with the pid of a process that moved on.
Fault(c) ==
    /\ faults < MaxFaults
    /\ faults' = faults + 1
    /\ \E step \in {"create", "writePid", "read", "confirm", "unlink", "held"} : Goto(c, step, "idle")
    /\ UNCHANGED <<lockFile, holder, expired, pid, crashes, restarts>>

DeadlinePasses(c) ==
    /\ pc[c] \notin {"idle", "held", "dead"}
    /\ ~expired[c]
    /\ expired' = [expired EXCEPT ![c] = TRUE]
    /\ UNCHANGED <<lockFile, pc, holder, pid, crashes, restarts, faults>>

Crash(c) ==
    /\ crashes < MaxCrashes
    /\ pc[c] # "dead"
    /\ crashes' = crashes + 1
    /\ pc' = [pc EXCEPT ![c] = "dead"]
    /\ UNCHANGED <<lockFile, holder, expired, pid, restarts, faults>>

\* A new process takes over, with any pid no live process has: its own old one
\* possibly, as in a container.
Restart(c) ==
    /\ restarts < MaxRestarts
    /\ restarts' = restarts + 1
    /\ Goto(c, "dead", "idle")
    /\ \E p \in Pids : ~IsAlive(p) /\ pid' = [pid EXCEPT ![c] = p]
    /\ holder' = [holder EXCEPT ![c] = NoPid]
    /\ expired' = [expired EXCEPT ![c] = FALSE]
    /\ UNCHANGED <<lockFile, crashes, faults>>

\* What a process does on its own once it wants the lock.
Proceed(c) ==
    \/ Create(c) \/ CreateExists(c) \/ WritePid(c) \/ ReadHolder(c) \/ Probe(c)
    \/ Confirm(c) \/ Unlink(c) \/ Check(c) \/ Release(c)

\* This step makes two processes be between the second read of a reclaim and
\* its unlink, or gives a new process the pid whose lock is being reclaimed.
Overlap ==
    \/ \E c, d \in Clients : c # d /\ pc'[c] = "unlink" /\ pc'[d] = "unlink"
    \/ \E c, d \in Clients :
          pc[c] = "dead" /\ pc'[c] # "dead" /\ pc[d] = "confirm" /\ pid'[c] = holder[d]

Step(c) ==
    \/ Request(c) \/ Create(c) \/ CreateExists(c) \/ WritePid(c) \/ ReadHolder(c)
    \/ Probe(c) \/ Confirm(c) \/ Unlink(c) \/ Check(c) \/ Release(c)
    \/ Fault(c) \/ DeadlinePasses(c) \/ Crash(c) \/ Restart(c)

Noted == overlapped' = (overlapped \/ Overlap)

Next == (\E c \in Clients : Step(c)) /\ Noted

Spec == Init /\ [][Next]_vars

\* A live process keeps running and its clock keeps moving; nothing makes it
\* ask for the lock, fail, die or come back.
FairSpec ==
    Spec /\ \A c \in Clients : WF_vars(Proceed(c) /\ Noted) /\ WF_vars(DeadlinePasses(c) /\ Noted)
-----------------------------------------------------------------------------
\* The client inside its transaction, from its successful create on.
Inside(c) == pc[c] \in {"writePid", "held"}

\* Two processes never run a read-write transaction at once (fileLock.ts:9-13,
\* nodeFileAdapter.ts:14-17).
MutualExclusion == \A c, d \in Clients : Inside(c) /\ Inside(d) => c = d

\* They do not, while every reclaim is alone.
ExclusionBarringOverlap == overlapped \/ MutualExclusion

Keeps(c) == lockFile # NoLock /\ lockFile.creator = c

\* A process in its transaction still has the lock file it created: nobody
\* stole the lock of a live writer, however slow.
HolderKeepsItsFile == overlapped \/ \A c \in Clients : Inside(c) => Keeps(c)

\* The lock as its clients see it, for as long as it is one.
Owner ==
    IF ~overlapped /\ \E c \in Clients : Inside(c)
    THEN CHOOSE c \in Clients : Inside(c)
    ELSE NoClient

Lock == INSTANCE ExclusiveLock WITH owner <- Owner

\* Until two reclaims overlap, the lock file implements an exclusive lock.
ImplementsLock == Lock!LockSpec

Waiting(c) == pc[c] \notin {"idle", "held", "dead"}

\* fileLock.ts:14-15: waiting is bounded, whatever happened to the holder.
WaitIsBounded == \A c \in Clients : Waiting(c) ~> ~Waiting(c)

\* The recorded pid is known and no process has it.
Stale == lockFile # NoLock /\ lockFile.pid # NoPid /\ ~IsAlive(lockFile.pid)

\* fileLock.ts:11: whoever tries to create the lock while it is stale sees to it
\* that it goes, before the deadline can end the attempt; a failing call may.
StaleLockIsReclaimed ==
    \A c \in Clients : Stale /\ pc[c] = "create" ~> ~Stale \/ pc[c] = "dead" \/ faults > 0
-----------------------------------------------------------------------------
(* The inductive invariant, for as long as reclaims do not overlap. *)

\* The pid in the lock file of a process inside is its own.
PidIsCreators ==
    lockFile # NoLock /\ Inside(lockFile.creator) =>
        lockFile.pid = NoPid \/ lockFile.pid = pid[lockFile.creator]

\* A holder being reclaimed is still dead.
ReclaimedIsDead ==
    \A c \in Clients : pc[c] = "confirm" => holder[c] # NoPid /\ ~IsAlive(holder[c])

\* What is about to be unlinked is nobody's any more.
UnlinkedIsVacant ==
    \A c \in Clients : pc[c] = "unlink" => lockFile # NoLock /\ ~Inside(lockFile.creator)

SingleReclaimer == \A c, d \in Clients : pc[c] = "unlink" /\ pc[d] = "unlink" => c = d

Sound ==
    /\ \A c \in Clients : Inside(c) => Keeps(c)
    /\ PidIsCreators
    /\ ReclaimedIsDead
    /\ UnlinkedIsVacant
    /\ SingleReclaimer

IInv == TypeOK /\ (overlapped \/ Sound)
=============================================================================
