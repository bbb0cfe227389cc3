--------------------------- MODULE FileLockProofs ---------------------------
(***************************************************************************)
(* Mutual exclusion of FileLock, for any number of processes, deaths,      *)
(* restarts and failing calls, as long as every reclaim is alone: no two   *)
(* processes between the second read of a reclaim and its unlink, and no   *)
(* new process under the pid that is being reclaimed.  The history         *)
(* variable `overlapped` says when that ends, and the run                  *)
(* FileLockMutualExclusion what happens then.                              *)
(***************************************************************************)
EXTENDS FileLock, TLAPS

\* The lock is free and nobody asks for it.
LEMMA InitIInv == Init => IInv
<1> SUFFICES ASSUME Init PROVE IInv
  OBVIOUS
<1>1. TypeOK
  <2>1. crashes \in 0 .. MaxCrashes /\ restarts \in 0 .. MaxRestarts /\ faults \in 0 .. MaxFaults
    BY BoundAssumption DEF Init
  <2>2. overlapped \in BOOLEAN
    BY DEF Init
  <2>3. QED
    BY <2>1, <2>2, PidAssumption DEF Init, TypeOK, Steps
<1>2. Sound
  BY DEF Init, Sound, PidIsCreators, Inside, ReclaimedIsDead, UnlinkedIsVacant, SingleReclaimer
<1>3. QED
  BY <1>1, <1>2 DEF IInv

-----------------------------------------------------------------------------
(* Types. *)

\* Every step of a client keeps the types.
LEMMA StepKeepsTypes ==
    ASSUME TypeOK, NEW c \in Clients, Step(c), Noted PROVE TypeOK'
<1>1. /\ lockFile \in LockFile \cup {NoLock}
      /\ pc \in [Clients -> Steps]
      /\ holder \in [Clients -> Pids \cup {NoPid}]
      /\ expired \in [Clients -> BOOLEAN]
      /\ pid \in [Clients -> Pids]
      /\ crashes \in 0 .. MaxCrashes /\ restarts \in 0 .. MaxRestarts /\ faults \in 0 .. MaxFaults
      /\ MaxCrashes \in Nat /\ MaxRestarts \in Nat /\ MaxFaults \in Nat
      /\ overlapped \in BOOLEAN
  BY BoundAssumption DEF TypeOK
<1>2. overlapped' \in BOOLEAN
  BY <1>1 DEF Noted
<1>3. pc' \in [Clients -> Steps]
  BY <1>1 DEF Step, Request, Create, CreateExists, WritePid, ReadHolder, Probe, Confirm, Unlink,
              Check, Release, Fault, DeadlinePasses, Crash, Restart, Goto, Steps
<1>4. lockFile' \in LockFile \cup {NoLock}
  <2>1. ASSUME Create(c) \/ Unlink(c) \/ Release(c) PROVE lockFile' \in LockFile \cup {NoLock}
    BY <2>1 DEF Create, Unlink, Release, LockFile
  <2>2. ASSUME WritePid(c) PROVE lockFile' \in LockFile \cup {NoLock}
    BY <1>1, <2>2 DEF WritePid, LockFile
  <2>3. ASSUME ~(Create(c) \/ Unlink(c) \/ Release(c) \/ WritePid(c)) PROVE lockFile' = lockFile
    BY <2>3 DEF Step, Request, CreateExists, ReadHolder, Probe, Confirm, Check, Fault,
                DeadlinePasses, Crash, Restart
  <2>4. QED
    BY <1>1, <2>1, <2>2, <2>3
<1>5. holder' \in [Clients -> Pids \cup {NoPid}]
  <2>1. ASSUME ReadHolder(c) \/ Restart(c) PROVE holder' \in [Clients -> Pids \cup {NoPid}]
    BY <1>1, <2>1 DEF ReadHolder, Restart, LockFile
  <2>2. ASSUME ~(ReadHolder(c) \/ Restart(c)) PROVE holder' = holder
    BY <2>2 DEF Step, Request, Create, CreateExists, WritePid, Probe, Confirm, Unlink, Check,
                Release, Fault, DeadlinePasses, Crash
  <2>3. QED
    BY <1>1, <2>1, <2>2
<1>6. expired' \in [Clients -> BOOLEAN]
  BY <1>1 DEF Step, Request, Create, CreateExists, WritePid, ReadHolder, Probe, Confirm, Unlink,
              Check, Release, Fault, DeadlinePasses, Crash, Restart, Quiet
<1>7. /\ pid' \in [Clients -> Pids]
      /\ crashes' \in 0 .. MaxCrashes /\ restarts' \in 0 .. MaxRestarts /\ faults' \in 0 .. MaxFaults
  BY <1>1 DEF Step, Request, Create, CreateExists, WritePid, ReadHolder, Probe, Confirm, Unlink,
              Check, Release, Fault, DeadlinePasses, Crash, Restart, Quiet
<1>8. QED
  BY <1>2, <1>3, <1>4, <1>5, <1>6, <1>7 DEF TypeOK

-----------------------------------------------------------------------------
(* What is sound stays sound while every reclaim is alone. *)

\* Two conjuncts follow from the reclaims being alone, whatever the step.
LEMMA Alone ==
    ASSUME TypeOK, TypeOK', Sound, ~Overlap,
           \A d \in Clients : pc'[d] = "confirm" =>
               /\ holder'[d] = holder[d]
               /\ pc[d] = "confirm" \/ (holder[d] # NoPid /\ ~IsAlive(holder[d])),
           \A d \in Clients : pid'[d] = pid[d] \/ pc[d] = "dead",
           \A d, e \in Clients :
               pc[d] = "dead" /\ pc'[d] # "dead" /\ pc'[e] = "confirm" => pc[e] = "confirm"
    PROVE  SingleReclaimer' /\ ReclaimedIsDead'
<1>1. SingleReclaimer'
  BY DEF Overlap, SingleReclaimer
<1>2. ReclaimedIsDead'
  <2> SUFFICES ASSUME NEW e \in Clients, pc'[e] = "confirm",
                      holder'[e] = NoPid \/ \E d \in Clients : pc'[d] # "dead" /\ pid'[d] = holder'[e]
               PROVE  FALSE
    BY DEF ReclaimedIsDead, IsAlive
  <2>1. holder'[e] = holder[e] /\ holder[e] # NoPid /\ ~IsAlive(holder[e])
    BY DEF Sound, ReclaimedIsDead
  <2>2. PICK d \in Clients : pc'[d] # "dead" /\ pid'[d] = holder[e]
    BY <2>1
  <2>3. pc[d] = "dead"
    BY <2>1, <2>2 DEF IsAlive
  <2>4. pc[e] = "confirm"
    BY <2>2, <2>3
  <2>5. QED
    BY <2>2, <2>3, <2>4 DEF Overlap
<1>3. QED
  BY <1>1, <1>2

\* A step that leaves the lock file alone and moves one client to a place where
\* it neither reclaims nor holds the lock.
LEMMA StepOutside ==
    ASSUME TypeOK, TypeOK', Sound, ~Overlap, NEW c \in Clients, lockFile' = lockFile,
           pc' = pc \/ \E to \in Steps \ {"confirm", "unlink", "writePid", "held"} :
                          pc' = [pc EXCEPT ![c] = to],
           \A d \in Clients : pc'[d] = "confirm" => holder'[d] = holder[d],
           \A d \in Clients : pid'[d] = pid[d] \/ pc[d] = "dead"
    PROVE  Sound'
<1>1. /\ pc \in [Clients -> Steps] /\ lockFile \in LockFile \cup {NoLock}
      /\ \A d \in Clients : pc'[d] = pc[d] \/ pc'[d] \notin {"confirm", "unlink", "writePid", "held"}
      /\ lockFile # NoLock => lockFile.creator \in Clients
  BY DEF TypeOK, LockFile
<1>2. \A d \in Clients : pc'[d] = "confirm" => pc[d] = "confirm"
  BY <1>1
<1>3. SingleReclaimer' /\ ReclaimedIsDead'
  <2>1. \A d \in Clients : pc'[d] = "confirm" =>
           /\ holder'[d] = holder[d]
           /\ pc[d] = "confirm" \/ (holder[d] # NoPid /\ ~IsAlive(holder[d]))
    BY <1>2
  <2>2. \A d, e \in Clients :
           pc[d] = "dead" /\ pc'[d] # "dead" /\ pc'[e] = "confirm" => pc[e] = "confirm"
    BY <1>2
  <2>3. QED
    BY <2>1, <2>2, Alone
<1>4. PidIsCreators' /\ \A d \in Clients : Inside(d)' => Keeps(d)'
  BY <1>1 DEF Sound, PidIsCreators, Inside, Keeps
<1>5. UnlinkedIsVacant'
  BY <1>1 DEF Sound, UnlinkedIsVacant, Inside
<1>6. QED
  BY <1>3, <1>4, <1>5 DEF Sound

\* A step that changes no pid and takes nobody into a reclaim.
LEMMA StepInside ==
    ASSUME TypeOK, TypeOK', Sound, ~Overlap, UNCHANGED <<pid, holder>>,
           NEW c \in Clients, NEW to \in Steps \ {"confirm"}, pc' = [pc EXCEPT ![c] = to]
    PROVE  SingleReclaimer' /\ ReclaimedIsDead'
<1>1. \A d \in Clients : pc'[d] = "confirm" => pc[d] = "confirm"
  BY DEF TypeOK
<1>2. \A d \in Clients : pc'[d] = "confirm" =>
         /\ holder'[d] = holder[d]
         /\ pc[d] = "confirm" \/ (holder[d] # NoPid /\ ~IsAlive(holder[d]))
  BY <1>1
<1>3. \A d, e \in Clients :
         pc[d] = "dead" /\ pc'[d] # "dead" /\ pc'[e] = "confirm" => pc[e] = "confirm"
  BY <1>1
<1>4. \A d \in Clients : pid'[d] = pid[d] \/ pc[d] = "dead"
  OBVIOUS
<1>5. QED
  BY <1>2, <1>3, <1>4, Alone

\* No step of a client breaks what is sound, while reclaims do not overlap.
LEMMA StepKeepsSound ==
    ASSUME TypeOK, TypeOK', Sound, ~Overlap, NEW c \in Clients, Step(c) PROVE Sound'
<1>1. /\ pc \in [Clients -> Steps] /\ lockFile \in LockFile \cup {NoLock}
      /\ pid \in [Clients -> Pids]
      /\ lockFile # NoLock => lockFile.creator \in Clients
  BY DEF TypeOK, LockFile
<1>2. ASSUME \/ Request(c) \/ CreateExists(c) \/ ReadHolder(c) \/ Check(c) \/ Fault(c)
             \/ DeadlinePasses(c) \/ Crash(c) \/ Restart(c)
      PROVE  Sound'
  <2>1. /\ lockFile' = lockFile
        /\ pc' = pc \/ \E to \in Steps \ {"confirm", "unlink", "writePid", "held"} :
                          pc' = [pc EXCEPT ![c] = to]
    BY <1>2 DEF Request, CreateExists, ReadHolder, Check, Fault, DeadlinePasses, Crash, Restart,
                Goto, Quiet, Steps
  <2>2. \A d \in Clients : pid'[d] = pid[d] \/ pc[d] = "dead"
    BY <1>1, <1>2 DEF Request, CreateExists, ReadHolder, Check, Fault, DeadlinePasses, Crash,
                      Restart, Goto, Quiet
  <2>3. \A d \in Clients : pc'[d] = "confirm" => holder'[d] = holder[d]
    BY <1>1, <1>2 DEF TypeOK, Request, CreateExists, ReadHolder, Check, Fault, DeadlinePasses,
                      Crash, Restart, Goto, Quiet
  <2>4. QED
    BY <2>1, <2>2, <2>3, StepOutside
<1>3. ASSUME Create(c) PROVE Sound'
  <2>1. /\ lockFile = NoLock /\ pc[c] = "create" /\ pc' = [pc EXCEPT ![c] = "writePid"]
        /\ lockFile' # NoLock /\ lockFile'.creator = c /\ lockFile'.pid = NoPid
        /\ UNCHANGED <<holder, pid>>
    BY <1>3, LockAssumption DEF Create, Goto, Quiet, LockFile
  <2>2. SingleReclaimer' /\ ReclaimedIsDead'
    BY <2>1, StepInside DEF Steps
  <2>3. \A d \in Clients : ~Inside(d) /\ pc[d] # "unlink"
    BY <2>1 DEF Sound, Keeps, UnlinkedIsVacant
  <2>4. PidIsCreators' /\ UnlinkedIsVacant' /\ \A d \in Clients : Inside(d)' => Keeps(d)'
    BY <1>1, <2>1, <2>3 DEF PidIsCreators, UnlinkedIsVacant, Inside, Keeps
  <2>5. QED
    BY <2>2, <2>4 DEF Sound
<1>4. ASSUME WritePid(c) PROVE Sound'
  <2>1. pc[c] = "writePid" /\ pc' = [pc EXCEPT ![c] = "held"] /\ UNCHANGED <<holder, pid>>
    BY <1>4 DEF WritePid, Goto, Quiet
  <2>2. lockFile # NoLock /\ lockFile.creator = c /\ lockFile \in LockFile
    BY <1>1, <2>1 DEF Sound, Keeps, Inside
  <2>3. lockFile' # NoLock /\ lockFile'.creator = c /\ lockFile'.pid = pid[c]
    BY <1>1, <1>4, <2>2, LockAssumption DEF WritePid, LockFile
  <2>4. SingleReclaimer' /\ ReclaimedIsDead'
    BY <2>1, StepInside DEF Steps
  <2>5. PidIsCreators' /\ UnlinkedIsVacant' /\ \A d \in Clients : Inside(d)' => Keeps(d)'
    BY <1>1, <2>1, <2>2, <2>3 DEF Sound, PidIsCreators, UnlinkedIsVacant, Inside, Keeps
  <2>6. QED
    BY <2>4, <2>5 DEF Sound
<1>5. ASSUME Probe(c) PROVE Sound'
  <2>1. /\ pc[c] = "probe" /\ lockFile' = lockFile /\ UNCHANGED <<holder, pid>>
        /\ pc' = [pc EXCEPT ![c] = IF Reclaimable(c) THEN "confirm" ELSE "check"]
    BY <1>5 DEF Probe, Goto, Quiet
  <2>2. CASE ~Reclaimable(c)
    BY <2>1, <2>2, StepOutside DEF Steps
  <2>3. CASE Reclaimable(c)
    <3>1. pc' = [pc EXCEPT ![c] = "confirm"] /\ holder[c] # NoPid /\ ~IsAlive(holder[c])
      BY <2>1, <2>3 DEF Reclaimable
    <3>2. \A d \in Clients : pc[d] = "dead" => pc'[d] = "dead"
      BY <1>1, <2>1, <3>1
    <3>3. \A d \in Clients : pc'[d] = "confirm" => pc[d] = "confirm" \/ d = c
      BY <1>1, <3>1
    <3>4. SingleReclaimer' /\ ReclaimedIsDead'
      <4>1. \A d \in Clients : pc'[d] = "confirm" =>
               /\ holder'[d] = holder[d]
               /\ pc[d] = "confirm" \/ (holder[d] # NoPid /\ ~IsAlive(holder[d]))
        BY <2>1, <3>1, <3>3
      <4>2. \A d, e \in Clients :
               pc[d] = "dead" /\ pc'[d] # "dead" /\ pc'[e] = "confirm" => pc[e] = "confirm"
        BY <3>2
      <4>3. \A d \in Clients : pid'[d] = pid[d] \/ pc[d] = "dead"
        BY <2>1
      <4>4. QED
        BY <4>1, <4>2, <4>3, Alone
    <3>5. PidIsCreators' /\ UnlinkedIsVacant' /\ \A d \in Clients : Inside(d)' => Keeps(d)'
      BY <1>1, <2>1, <3>1 DEF Sound, PidIsCreators, UnlinkedIsVacant, Inside, Keeps
    <3>6. QED
      BY <3>4, <3>5 DEF Sound
  <2>4. QED
    BY <2>2, <2>3
<1>6. ASSUME Confirm(c) PROVE Sound'
  <2>1. /\ pc[c] = "confirm" /\ lockFile' = lockFile /\ UNCHANGED <<holder, pid>>
        /\ pc' = [pc EXCEPT ![c] =
                     IF lockFile # NoLock /\ lockFile.pid = holder[c] THEN "unlink" ELSE "create"]
    BY <1>6 DEF Confirm, Goto, Quiet
  <2>2. CASE ~(lockFile # NoLock /\ lockFile.pid = holder[c])
    BY <2>1, <2>2, StepOutside DEF Steps
  <2>3. CASE lockFile # NoLock /\ lockFile.pid = holder[c]
    <3>1. pc' = [pc EXCEPT ![c] = "unlink"]
      BY <2>1, <2>3
    <3>2. SingleReclaimer' /\ ReclaimedIsDead'
      BY <2>1, <3>1, StepInside DEF Steps
    <3>3. ~Inside(lockFile.creator)
      BY <1>1, <2>1, <2>3 DEF Sound, PidIsCreators, ReclaimedIsDead, IsAlive, Inside
    <3>4. PidIsCreators' /\ UnlinkedIsVacant' /\ \A d \in Clients : Inside(d)' => Keeps(d)'
      BY <1>1, <2>1, <2>3, <3>1, <3>3 DEF Sound, PidIsCreators, UnlinkedIsVacant, Inside, Keeps
    <3>5. QED
      BY <3>2, <3>4 DEF Sound
  <2>4. QED
    BY <2>2, <2>3
<1>7. ASSUME Unlink(c) PROVE Sound'
  <2>1. /\ pc[c] = "unlink" /\ lockFile' = NoLock /\ pc' = [pc EXCEPT ![c] = "create"]
        /\ UNCHANGED <<holder, pid>>
    BY <1>7 DEF Unlink, Goto, Quiet
  <2>2. SingleReclaimer' /\ ReclaimedIsDead'
    BY <2>1, StepInside DEF Steps
  <2>3. \A d \in Clients : ~Inside(d) /\ (pc[d] = "unlink" => d = c)
    BY <2>1 DEF Sound, Keeps, UnlinkedIsVacant, SingleReclaimer
  <2>4. PidIsCreators' /\ UnlinkedIsVacant' /\ \A d \in Clients : Inside(d)' => Keeps(d)'
    BY <1>1, <2>1, <2>3 DEF PidIsCreators, UnlinkedIsVacant, Inside, Keeps
  <2>5. QED
    BY <2>2, <2>4 DEF Sound
<1>8. ASSUME Release(c) PROVE Sound'
  <2>1. /\ pc[c] = "held" /\ lockFile' = NoLock /\ pc' = [pc EXCEPT ![c] = "idle"]
        /\ UNCHANGED <<holder, pid>>
    BY <1>8 DEF Release, Goto, Quiet
  <2>2. SingleReclaimer' /\ ReclaimedIsDead'
    BY <2>1, StepInside DEF Steps
  <2>3. \A d \in Clients : pc[d] # "unlink" /\ (Inside(d) => d = c)
    BY <2>1 DEF Sound, Keeps, UnlinkedIsVacant, Inside
  <2>4. PidIsCreators' /\ UnlinkedIsVacant' /\ \A d \in Clients : Inside(d)' => Keeps(d)'
    BY <1>1, <2>1, <2>3 DEF PidIsCreators, UnlinkedIsVacant, Inside, Keeps
  <2>5. QED
    BY <2>2, <2>4 DEF Sound
<1>9. QED
  BY <1>2, <1>3, <1>4, <1>5, <1>6, <1>7, <1>8 DEF Step

\* Every step keeps the invariant.
LEMMA NextPreserves == ASSUME IInv, [Next]_vars PROVE IInv'
<1>1. CASE UNCHANGED vars
  BY <1>1 DEF vars, IInv, TypeOK, Sound, PidIsCreators, ReclaimedIsDead, IsAlive, UnlinkedIsVacant,
              SingleReclaimer, Inside, Keeps
<1>2. ASSUME NEW c \in Clients, Step(c), Noted PROVE IInv'
  <2>1. TypeOK'
    BY <1>2, StepKeepsTypes DEF IInv
  <2>2. CASE overlapped'
    BY <2>1, <2>2 DEF IInv
  <2>3. CASE ~overlapped'
    <3>1. ~overlapped /\ ~Overlap
      BY <1>2, <2>3 DEF Noted
    <3>2. Sound'
      BY <1>2, <2>1, <3>1, StepKeepsSound DEF IInv
    <3>3. QED
      BY <2>1, <3>2 DEF IInv
  <2>4. QED
    BY <2>2, <2>3
<1>3. QED
  BY <1>1, <1>2 DEF Next

\* The inductive invariant holds.
THEOREM Invariance == Spec => []IInv
<1>1. Init => IInv
  BY InitIInv
<1>2. IInv /\ [Next]_vars => IInv'
  BY NextPreserves
<1>3. QED
  BY <1>1, <1>2, PTL DEF Spec

\* No two processes hold one lock file.
LEMMA KeepersExclude == (\A c \in Clients : Inside(c) => Keeps(c)) => MutualExclusion
BY DEF Keeps, MutualExclusion

\* Every variable keeps its type: among them the pids in lock files and in what
\* anybody read of one.
THEOREM TypeCorrectness == Spec => []TypeOK
<1>1. IInv => TypeOK
  BY DEF IInv
<1>2. QED
  BY <1>1, Invariance, PTL

\* Two processes never run a read-write transaction at once, whatever dies,
\* comes back and fails, while every reclaim is alone.
THEOREM Exclusion == Spec => []ExclusionBarringOverlap
<1>1. IInv => ExclusionBarringOverlap
  BY KeepersExclude DEF IInv, Sound, ExclusionBarringOverlap
<1>2. QED
  BY <1>1, Invariance, PTL

\* Nor does anyone lose the lock file it created.
THEOREM NobodyIsRobbed == Spec => []HolderKeepsItsFile
<1>1. IInv => HolderKeepsItsFile
  BY DEF IInv, Sound, HolderKeepsItsFile
<1>2. QED
  BY <1>1, Invariance, PTL
-----------------------------------------------------------------------------
(* Without deaths nobody ever reclaims, and nothing has to be supposed. *)

\* Everybody is alive, and the pid in the lock file, or anybody's last reading
\* of it, is somebody's.
Quietly ==
    /\ ~overlapped
    /\ lockFile # NoLock => lockFile.pid = NoPid \/ \E d \in Clients : pid[d] = lockFile.pid
    /\ \A c \in Clients :
          /\ pc[c] \notin {"dead", "confirm", "unlink"}
          /\ holder[c] # NoPid => \E d \in Clients : pid[d] = holder[c]

\* The pid read from a lock file is a live process's, so no probe finds it dead.
LEMMA QuietlyPreserves ==
    ASSUME MaxCrashes = 0, TypeOK, Quietly, [Next]_vars PROVE Quietly'
<1>1. /\ pc \in [Clients -> Steps] /\ holder \in [Clients -> Pids \cup {NoPid}]
      /\ crashes = 0 /\ lockFile \in LockFile \cup {NoLock} /\ pid \in [Clients -> Pids]
  BY DEF TypeOK
<1>2. \A c \in Clients : ~Reclaimable(c)
  BY DEF Quietly, Reclaimable, IsAlive
<1>3. ASSUME NEW c \in Clients, Step(c) PROVE pid' = pid /\ ~Crash(c) /\ ~Restart(c)
  BY <1>1, <1>3
     DEF Quietly, Step, Quiet, Request, Create, CreateExists, WritePid, ReadHolder, Probe,
         Confirm, Unlink, Check, Release, Fault, DeadlinePasses, Crash, Restart, Goto
<1>4. ASSUME NEW c \in Clients, Step(c)
      PROVE  \A d \in Clients : pc'[d] \notin {"dead", "confirm", "unlink"}
  BY <1>1, <1>2, <1>3, <1>4
     DEF Quietly, Step, Request, Create, CreateExists, WritePid, ReadHolder, Probe,
         Confirm, Unlink, Check, Release, Fault, DeadlinePasses, Goto
<1>5. ASSUME NEW c \in Clients, Step(c)
      PROVE  lockFile' # NoLock => lockFile'.pid = NoPid \/ \E d \in Clients : pid[d] = lockFile'.pid
  <2>1. CASE WritePid(c)
    BY <1>1, <2>1, LockAssumption DEF Quietly, WritePid, LockFile
  <2>2. CASE ~WritePid(c)
    BY <1>1, <1>3, <1>5, <2>2
       DEF Quietly, Step, Request, Create, CreateExists, ReadHolder, Probe,
           Confirm, Unlink, Check, Release, Fault, DeadlinePasses
  <2>3. QED
    BY <2>1, <2>2
<1>6. ASSUME NEW c \in Clients, Step(c)
      PROVE  \A e \in Clients : holder'[e] # NoPid => \E d \in Clients : pid[d] = holder'[e]
  <2>1. CASE ReadHolder(c)
    BY <1>1, <2>1 DEF Quietly, ReadHolder
  <2>2. CASE ~ReadHolder(c)
    <3>1. holder' = holder
      BY <1>3, <1>6, <2>2
         DEF Step, Request, Create, CreateExists, WritePid, Probe, Confirm, Unlink, Check,
             Release, Fault, DeadlinePasses
    <3>2. QED
      BY <3>1 DEF Quietly
  <2>3. QED
    BY <2>1, <2>2
<1>7. ASSUME NEW c \in Clients, Step(c), Noted PROVE ~overlapped'
  BY <1>4, <1>7 DEF Quietly, Noted, Overlap
<1>8. CASE UNCHANGED vars
  BY <1>8 DEF Quietly, vars
<1>9. QED
  BY <1>3, <1>4, <1>5, <1>6, <1>7, <1>8 DEF Next, Quietly

\* Without deaths two processes never run a read-write transaction at once.
THEOREM CrashFreeExclusion ==
    ASSUME MaxCrashes = 0 PROVE Spec => []MutualExclusion
<1>1. Init => Quietly
  BY DEF Init, Quietly
<1>2. IInv /\ Quietly /\ [Next]_vars => Quietly'
  BY QuietlyPreserves DEF IInv
<1>3. IInv /\ Quietly => MutualExclusion
  BY KeepersExclude DEF IInv, Sound, Quietly
<1>4. QED
  BY <1>1, <1>2, <1>3, Invariance, PTL DEF Spec

-----------------------------------------------------------------------------
(* The refinement: what a step does to the lock its clients see. *)

\* With one client at most inside, Owner is that client.
LEMMA OwnerIsInside ==
    ASSUME MutualExclusion, ~overlapped
    PROVE  /\ \A c \in Clients : Inside(c) => Owner = c
           /\ (\A c \in Clients : ~Inside(c)) => Owner = NoClient
BY DEF MutualExclusion, Owner

\* A step moves one client.
LEMMA OneMoves ==
    ASSUME TypeOK, [Next]_vars
    PROVE  pc' = pc \/ \E c \in Clients : \A d \in Clients \ {c} : pc'[d] = pc[d]
<1>1. pc \in [Clients -> Steps]
  BY DEF TypeOK
<1>2. CASE UNCHANGED vars
  BY <1>2 DEF vars
<1>3. ASSUME NEW c \in Clients, Step(c) PROVE \A d \in Clients \ {c} : pc'[d] = pc[d]
  BY <1>1, <1>3
     DEF Step, Request, Create, CreateExists, WritePid, ReadHolder, Probe, Confirm, Unlink, Check,
         Release, Fault, DeadlinePasses, Crash, Restart, Goto
<1>4. QED
  BY <1>2, <1>3 DEF Next

\* Entering a transaction acquires the lock, leaving it by any way releases it,
\* and so does the overlap that ends the lock; every other step is invisible.
LEMMA StepRefines ==
    ASSUME IInv, IInv', [Next]_vars PROVE [Lock!LockNext]_Owner
<1>1. overlapped => overlapped'
  BY DEF Next, Noted, vars
<1>2. CASE overlapped
  <2>1. Owner = NoClient /\ Owner' = NoClient
    BY <1>1, <1>2 DEF Owner
  <2>2. QED
    BY <2>1
<1>3. CASE ~overlapped /\ overlapped'
  <2>1. Owner' = NoClient
    BY <1>3 DEF Owner
  <2>2. Owner \in Clients \cup {NoClient}
    BY DEF Owner
  <2>3. QED
    BY <2>1, <2>2 DEF Lock!LockNext, Lock!Release
<1>4. CASE ~overlapped /\ ~overlapped'
  <2>1. MutualExclusion /\ MutualExclusion'
    BY <1>4, KeepersExclude DEF IInv, Sound, Keeps, MutualExclusion
  <2>2. /\ \A c \in Clients : Inside(c) => Owner = c
        /\ (\A c \in Clients : ~Inside(c)) => Owner = NoClient
    BY <1>4, <2>1, OwnerIsInside
  <2>3. /\ \A c \in Clients : Inside(c)' => Owner' = c
        /\ (\A c \in Clients : ~Inside(c)') => Owner' = NoClient
    BY <1>4, <2>1 DEF MutualExclusion, Owner
  <2>4. CASE pc' = pc
    <3>1. \A c \in Clients : Inside(c)' <=> Inside(c)
      BY <2>4 DEF Inside
    <3>2. Owner' = Owner
      BY <2>2, <2>3, <3>1
    <3>3. QED
      BY <3>2
  <2>5. ASSUME NEW c \in Clients, \A d \in Clients \ {c} : pc'[d] = pc[d]
        PROVE  [Lock!LockNext]_Owner
    <3>1. \A d \in Clients \ {c} : Inside(d)' <=> Inside(d)
      BY <2>5 DEF Inside
    <3>2. CASE Inside(c) <=> Inside(c)'
      <4>1. Owner' = Owner
        BY <2>2, <2>3, <3>1, <3>2
      <4>2. QED
        BY <4>1
    <3>3. CASE ~Inside(c) /\ Inside(c)'
      <4>1. \A d \in Clients : ~Inside(d)
        BY <2>1, <3>1, <3>3 DEF MutualExclusion
      <4>2. Owner = NoClient /\ Owner' = c
        BY <2>2, <2>3, <3>3, <4>1
      <4>3. QED
        BY <4>2 DEF Lock!LockNext, Lock!Acquire
    <3>4. CASE Inside(c) /\ ~Inside(c)'
      <4>1. \A d \in Clients : ~Inside(d)'
        BY <2>1, <3>1, <3>4 DEF MutualExclusion
      <4>2. Owner = c /\ Owner' = NoClient
        BY <2>2, <2>3, <3>4, <4>1
      <4>3. QED
        BY <4>2 DEF Lock!LockNext, Lock!Release
    <3>5. QED
      BY <3>2, <3>3, <3>4
  <2>6. QED
    BY <2>4, <2>5, OneMoves DEF IInv
<1>5. QED
  BY <1>2, <1>3, <1>4

\* Until two reclaims overlap, the lock file implements an exclusive lock.
THEOREM Refinement == Spec => ImplementsLock
<1>1. Init => Lock!LockInit
  BY DEF Init, Lock!LockInit, Owner, Inside
<1>2. IInv /\ IInv' /\ [Next]_vars => [Lock!LockNext]_Owner
  BY StepRefines
<1>3. QED
  BY <1>1, <1>2, Invariance, PTL DEF Spec, ImplementsLock, Lock!LockSpec
=============================================================================
