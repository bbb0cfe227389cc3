-------------------------- MODULE AgentGraphProofs --------------------------
(***************************************************************************)
(* No gated node runs on a thread that no human has resumed, whatever the  *)
(* graph, the gates, the number of callers and the size of the history.    *)
(* And until two runs of the thread overlap its checkpoints are one line, *)
(* of which no step takes anything back.                                   *)
(***************************************************************************)
EXTENDS AgentGraph, FiniteSetTheorems, SequenceTheorems, WellFoundedInduction, TLAPS

\* A history has a newest checkpoint.
LEMMA LatestIsThere ==
    ASSUME NEW H, H \subseteq Checkpoint, IsFiniteSet(H), H # {}
    PROVE  Latest(H) \in H /\ \A j \in H : j.step <= Latest(H).step
<1> DEFINE Later(k) == {j \in H : j.step > k.step}
           Laters == {Later(k) : k \in H}
<1>1. Laters \subseteq FiniteSubsetsOf(H) /\ Laters # {}
  <2>1. FiniteSubsetsOf(H) = SUBSET H
    BY FS_FiniteSubsetsOfFinite
  <2>2. \A k \in H : Later(k) \in SUBSET H
    OBVIOUS
  <2>3. Laters \subseteq SUBSET H
    BY <2>2
  <2>4. Laters # {}
    OBVIOUS
  <2>5. QED
    BY <2>1, <2>3, <2>4
<1>2. PICK s \in Laters : \A t \in Laters : ~ (<<t, s>> \in StrictSubsetOrdering(H))
  <2>1. IsWellFoundedOn(StrictSubsetOrdering(H), FiniteSubsetsOf(H))
    BY FS_StrictSubsetOrderingWellFounded
  <2>2. QED
    BY <1>1, <2>1, WFMin
<1>3. PICK k \in H : s = Later(k)
  OBVIOUS
<1>4. ASSUME NEW j \in H PROVE j.step <= k.step
  <2>1. j.step \in Nat /\ k.step \in Nat /\ \A i \in H : i.step \in Nat
    BY DEF Checkpoint
  <2>2. SUFFICES ASSUME j.step > k.step PROVE FALSE
    BY <2>1
  <2>3. Later(j) \subseteq Later(k) /\ j \in Later(k) /\ j \notin Later(j)
    BY <2>1, <2>2
  <2>4. <<Later(j), s>> \in StrictSubsetOrdering(H)
    BY <1>3, <2>3 DEF StrictSubsetOrdering
  <2>5. QED
    BY <1>2, <2>4
<1>5. QED
  BY <1>4 DEF Latest

\* load finds a checkpoint of the history.
LEMMA FoundIsThere ==
    ASSUME IInv, NEW id, Finds(id)
    PROVE  Found(id) \in history /\ Found(id) \in Checkpoint
<1>1. history \subseteq Checkpoint /\ IsFiniteSet(history) /\ history # {}
  BY DEF IInv, TypeOK, HistoriesAreFinite, Finds
<1>2. CASE id = Newest
  BY <1>1, <1>2, LatestIsThere DEF Found
<1>3. CASE id # Newest
  <2>1. \E k \in history : k.step = id
    BY <1>3 DEF Finds
  <2>2. QED
    BY <1>1, <1>3, <2>1 DEF Found
<1>4. QED
  BY <1>2, <1>3

\* A merge is a sequence of the nodes that succeeded.
LEMMA MergedIsSequence ==
    ASSUME NEW nodes \in SUBSET Nodes, NEW order \in Merged(nodes)
    PROVE  order \in Seq(Nodes) /\ ToSet(order) \subseteq nodes /\ Sorted(order)
<1>1. IsFiniteSet(nodes)
  BY GraphAssumption, FS_Subset
<1>2. Cardinality(nodes) \in Nat
  BY <1>1, FS_CardinalityType
<1>3. order \in [1 .. Cardinality(nodes) -> nodes]
  BY DEF Merged, SetToSeqs
<1>4. order \in [1 .. Cardinality(nodes) -> Nodes]
  BY <1>3
<1>5. order \in Seq(Nodes)
  BY <1>2, <1>4, IsASeq
<1>6. ToSet(order) \subseteq nodes
  BY <1>3 DEF ToSet
<1>7. QED
  BY <1>5, <1>6 DEF Merged

\* A path that is extended holds nothing but its nodes and the new ones.
LEMMA PathGrows ==
    ASSUME NEW path \in Seq(Nodes), NEW order \in Seq(Nodes)
    PROVE  path \o order \in Seq(Nodes) /\ ToSet(path \o order) \subseteq ToSet(path) \cup ToSet(order)
<1>1. path \o order \in Seq(Nodes)
  OBVIOUS
<1>2. ASSUME NEW i \in DOMAIN (path \o order)
      PROVE  (path \o order)[i] \in ToSet(path) \cup ToSet(order)
  <2>1. i \in 1 .. Len(path) + Len(order)
    OBVIOUS
  <2>2. CASE i <= Len(path)
    <3>1. i \in DOMAIN path /\ (path \o order)[i] = path[i]
      BY <2>1, <2>2
    <3>2. QED
      BY <3>1 DEF ToSet
  <2>3. CASE i > Len(path)
    <3>1. i - Len(path) \in DOMAIN order /\ (path \o order)[i] = order[i - Len(path)]
      BY <2>1, <2>3
    <3>2. QED
      BY <3>1 DEF ToSet
  <2>4. QED
    BY <2>1, <2>2, <2>3
<1>3. QED
  BY <1>1, <1>2 DEF ToSet

\* The fields of a checkpoint.
LEMMA Fields ==
    ASSUME NEW k \in Checkpoint
    PROVE  /\ k = [step |-> k.step, state |-> k.state, path |-> k.path, frontier |-> k.frontier]
           /\ k.step \in Nat /\ k.state \in Seq(Nodes \cup {Edit})
           /\ k.path \in Seq(Nodes) /\ k.frontier \in SUBSET Nodes
BY DEF Checkpoint

\* The next step, at another frontier, and a human's edit: of the same path.
LEMMA StepOn ==
    ASSUME NEW k \in Checkpoint, NEW frontier \in SUBSET Nodes
    PROVE  /\ [k EXCEPT !.step = @ + 1, !.frontier = frontier] \in Checkpoint
           /\ [k EXCEPT !.step = @ + 1, !.frontier = frontier].path = k.path
<1>1. k.step + 1 \in Nat
  BY Fields
<1>2. [k EXCEPT !.step = @ + 1, !.frontier = frontier] \in Checkpoint
  BY <1>1 DEF Checkpoint
<1>3. QED
  BY <1>2 DEF Checkpoint

LEMMA EditOn ==
    ASSUME NEW k \in Checkpoint, NEW edit \in Seq(Nodes \cup {Edit})
    PROVE  [k EXCEPT !.state = @ \o edit] \in Checkpoint
<1>1. k.state \in Seq(Nodes \cup {Edit})
  BY Fields
<1>2. k.state \o edit \in Seq(Nodes \cup {Edit})
  BY <1>1
<1>3. QED
  BY <1>2 DEF Checkpoint

\* A fresh run is at the entry point, and has passed no gate.
LEMMA FreshIsClean == Fresh \in Checkpoint /\ Gateless(Fresh)
<1>1. <<>> \in Seq(Nodes) /\ <<>> \in Seq(Nodes \cup {Edit}) /\ {Entry} \subseteq Nodes
  BY GraphAssumption
<1>2. ToSet(<<>>) = {}
  BY DEF ToSet
<1>3. QED
  BY <1>1, <1>2 DEF Fresh, Checkpoint, Gateless

LEMMA InitIInv == Init => IInv
<1> SUFFICES ASSUME Init PROVE IInv
  OBVIOUS
<1>1. TypeOK
  <2>1. run \in [Callers -> Checkpoint] /\ history \subseteq Checkpoint
    BY FreshIsClean DEF Init
  <2>2. runs \in 0 .. MaxRuns /\ crashes \in 0 .. MaxCrashes
    BY BoundAssumption DEF Init
  <2>3. /\ pc \in [Callers -> {"idle", "load", "head", "get", "put", "route"}]
        /\ after \in [Callers -> {"idle", "load", "route"}]
    BY DEF Init
  <2>4. /\ open \in [Callers -> BOOLEAN] /\ want \in [Callers -> Nat \cup {Newest}]
        /\ view \in [Callers -> SUBSET Checkpoint]
        /\ failFast \in BOOLEAN /\ resumed \in BOOLEAN /\ tangled \in BOOLEAN
    BY DEF Init
  <2>5. QED
    BY <2>1, <2>2, <2>3, <2>4 DEF TypeOK
<1>2. NothingPassed
  BY FreshIsClean DEF Init, NothingPassed
<1>3. HistoriesAreFinite
  BY FS_EmptySet DEF Init, HistoriesAreFinite
<1>4. QED
  BY <1>1, <1>2, <1>3 DEF IInv

\* A run that stays as it is, or ends, leaves the invariant as it was.
LEMMA RunLeaves ==
    ASSUME TypeOK, NothingPassed, NEW c \in Callers
    PROVE  /\ Left(c) \in [Callers -> Checkpoint]
           /\ ~resumed => \A d \in Callers : Gateless(Left(c)[d])
BY FreshIsClean DEF TypeOK, NothingPassed, Left

\* A superstep runs no gated node as long as the run has its gates.
LEMMA SuperstepIsClean ==
    ASSUME IInv, NEW c \in Callers, NEW failed \in SUBSET run[c].frontier,
           NEW order \in Merged(run[c].frontier \ failed), ~Pausing(c)
    PROVE  Advanced(c, order) \in Checkpoint /\ (~resumed => Gateless(Advanced(c, order)))
<1>1. run[c] \in Checkpoint
  BY DEF IInv, TypeOK
<1>2. /\ run[c].state \in Seq(Nodes \cup {Edit}) /\ run[c].path \in Seq(Nodes)
      /\ run[c].frontier \subseteq Nodes /\ run[c].step \in Nat
  BY <1>1 DEF Checkpoint
<1>3. order \in Seq(Nodes) /\ ToSet(order) \subseteq run[c].frontier
  BY <1>2, MergedIsSequence
<1>4. /\ run[c].path \o order \in Seq(Nodes)
      /\ ToSet(run[c].path \o order) \subseteq ToSet(run[c].path) \cup ToSet(order)
  BY <1>2, <1>3, PathGrows
<1>5. run[c].state \o order \in Seq(Nodes \cup {Edit})
  <2>1. order \in Seq(Nodes \cup {Edit})
    BY <1>3
  <2>2. QED
    BY <1>2, <2>1
<1>6. Advanced(c, order).path = run[c].path \o order
  BY <1>1 DEF Advanced, Checkpoint
<1>7. Advanced(c, order) \in Checkpoint
  BY <1>1, <1>2, <1>3, <1>4, <1>5 DEF Advanced, Checkpoint
<1>8. ~resumed => Gateless(Advanced(c, order))
  <2>1. ~resumed => run[c].frontier \cap Gates = {} /\ Gateless(run[c])
    BY DEF IInv, NothingPassed, Pausing
  <2>2. QED
    BY <1>3, <1>4, <1>6, <2>1 DEF Gateless
<1>9. QED
  BY <1>7, <1>8

\* What is saved is a checkpoint with the path of its run.
LEMMA DraftIsClean ==
    ASSUME IInv, NEW c \in Callers
    PROVE  Draft(c) \in Checkpoint /\ Draft(c).path = run[c].path
<1>1. run[c] \in Checkpoint
  BY DEF IInv, TypeOK
<1>2. QED
  BY <1>1, StepOn DEF Draft

LEMMA PutPreserves ==
    ASSUME IInv, NEW c \in Callers, Put(c)
    PROVE  IInv'
<1> DEFINE Written == {k \in view[c] : k.step # Draft(c).step} \cup {Draft(c)}
<1>1. Written \subseteq Checkpoint /\ IsFiniteSet(Written)
  <2>1. view[c] \subseteq Checkpoint /\ IsFiniteSet(view[c])
    BY DEF IInv, TypeOK, HistoriesAreFinite
  <2>2. IsFiniteSet({k \in view[c] : k.step # Draft(c).step})
    BY <2>1, FS_Subset
  <2>3. QED
    BY <2>1, <2>2, DraftIsClean, FS_AddElement
<1>2. history' \subseteq Written /\ IsFiniteSet(history')
  BY <1>1, FS_Subset DEF Put, Kept
<1>3. TypeOK'
  BY <1>1, <1>2, RunLeaves DEF IInv, TypeOK, Put, Goto
<1>4. NothingPassed'
  <2>1. ~resumed => \A k \in Written : Gateless(k)
    BY DraftIsClean DEF IInv, NothingPassed, Gateless
  <2>2. ~resumed => \A d \in Callers : Gateless(run'[d])
    BY RunLeaves DEF IInv, NothingPassed, Put
  <2>3. QED
    BY <1>2, <2>1, <2>2 DEF IInv, TypeOK, NothingPassed, Put
<1>5. HistoriesAreFinite'
  BY <1>2, FS_EmptySet DEF IInv, TypeOK, HistoriesAreFinite, Put
<1>6. QED
  BY <1>3, <1>4, <1>5 DEF IInv

LEMMA CallPreserves ==
    ASSUME IInv, NEW c \in Callers, NEW id \in Ids, Invoke(c, id) \/ Resume(c, id)
    PROVE  IInv'
<1>1. id \in Nat \cup {Newest}
  BY DEF IInv, TypeOK, Checkpoint, Ids
<1>2. CASE Invoke(c, id)
  <2>1. TypeOK'
    BY <1>1, <1>2, BoundAssumption DEF IInv, TypeOK, Invoke, Begin, Goto
  <2>2. NothingPassed' /\ HistoriesAreFinite'
    BY <1>2 DEF IInv, TypeOK, NothingPassed, HistoriesAreFinite, Invoke, Begin
  <2>3. QED
    BY <2>1, <2>2 DEF IInv
<1>3. CASE Resume(c, id)
  <2>1. Found(id) \in Checkpoint
    BY <1>3, FoundIsThere DEF Resume
  <2>2. ASSUME NEW edit \in {<<>>, <<Edit>>}
        PROVE  [Found(id) EXCEPT !.state = @ \o edit] \in Checkpoint
    <3>1. <<>> \in Seq(Nodes \cup {Edit}) /\ <<Edit>> \in Seq(Nodes \cup {Edit})
      OBVIOUS
    <3>2. QED
      BY <2>1, <3>1, EditOn
  <2>3. run' \in [Callers -> Checkpoint]
    BY <1>3, <2>2 DEF IInv, TypeOK, Resume
  <2>4. want' \in [Callers -> Nat \cup {Newest}]
    <3>1. Found(id).step \in Nat
      BY <2>1, Fields
    <3>2. QED
      BY <1>3, <3>1 DEF IInv, TypeOK, Resume
  <2>5. runs' \in 0 .. MaxRuns /\ tangled' \in BOOLEAN
    BY <1>3, BoundAssumption DEF IInv, TypeOK, Resume, Begin, Tangles
  <2>6. TypeOK'
    BY <1>3, <2>3, <2>4, <2>5 DEF IInv, TypeOK, Resume, Begin, Goto
  <2>7. NothingPassed' /\ HistoriesAreFinite'
    BY <1>3 DEF IInv, NothingPassed, HistoriesAreFinite, Resume, Begin
  <2>8. QED
    BY <2>6, <2>7 DEF IInv
<1>4. QED
  BY <1>2, <1>3

LEMMA SuperstepPreserves ==
    ASSUME IInv, NEW c \in Callers, Superstep(c)
    PROVE  IInv'
<1>0. PICK failed \in SUBSET run[c].frontier : \E order \in Merged(run[c].frontier \ failed) :
          LET stops == failed # {} /\ failFast
          IN  /\ Continues(c) /\ ~Pausing(c)
              /\ Goto(c, "head", IF stops THEN "idle" ELSE "get")
              /\ run' = IF stops THEN Left(c) ELSE [run EXCEPT ![c] = Advanced(c, order)]
              /\ after' = [after EXCEPT ![c] = IF stops THEN @ ELSE "route"]
              /\ UNCHANGED <<history, failFast, open, want, view, resumed, tangled, runs, crashes>>
  BY DEF Superstep
<1>1. PICK order \in Merged(run[c].frontier \ failed) :
          LET stops == failed # {} /\ failFast
          IN  /\ Continues(c) /\ ~Pausing(c)
              /\ Goto(c, "head", IF stops THEN "idle" ELSE "get")
              /\ run' = IF stops THEN Left(c) ELSE [run EXCEPT ![c] = Advanced(c, order)]
              /\ after' = [after EXCEPT ![c] = IF stops THEN @ ELSE "route"]
              /\ UNCHANGED <<history, failFast, open, want, view, resumed, tangled, runs, crashes>>
  BY <1>0
<1>2. Advanced(c, order) \in Checkpoint /\ (~resumed => Gateless(Advanced(c, order)))
  BY <1>1, SuperstepIsClean
<1>3. TypeOK'
  BY <1>1, <1>2, RunLeaves DEF IInv, TypeOK, Goto
<1>4. ~resumed => \A d \in Callers : Gateless(run'[d])
  BY <1>1, <1>2, RunLeaves DEF IInv, TypeOK, NothingPassed
<1>5. NothingPassed' /\ HistoriesAreFinite'
  BY <1>1, <1>4 DEF IInv, NothingPassed, HistoriesAreFinite
<1>6. QED
  BY <1>3, <1>5 DEF IInv

LEMMA RoutePreserves ==
    ASSUME IInv, NEW c \in Callers, Route(c)
    PROVE  IInv'
<1>1. PICK frontier \in Frontiers(run[c].frontier), to \in {"head", "idle"} :
          /\ Goto(c, "route", to)
          /\ run' = IF to = "idle" THEN Left(c)
                    ELSE [run EXCEPT ![c].step = @ + 1, ![c].frontier = frontier]
          /\ UNCHANGED <<history, failFast, open, want, view, after, resumed, tangled, runs, crashes>>
  BY DEF Route
<1> DEFINE Onward == [run[c] EXCEPT !.step = @ + 1, !.frontier = frontier]
<1>2. frontier \subseteq Nodes
  BY DEF Frontiers
<1>3. run[c] \in Checkpoint
  BY DEF IInv, TypeOK
<1>4. /\ [run EXCEPT ![c].step = @ + 1, ![c].frontier = frontier] = [run EXCEPT ![c] = Onward]
      /\ Onward \in Checkpoint /\ Onward.path = run[c].path
  <2>1. [run EXCEPT ![c].step = @ + 1, ![c].frontier = frontier] = [run EXCEPT ![c] = Onward]
    BY DEF IInv, TypeOK
  <2>2. Onward \in Checkpoint /\ Onward.path = run[c].path
    BY <1>2, <1>3, StepOn
  <2>3. QED
    BY <2>1, <2>2
<1>5. TypeOK'
  BY <1>1, <1>4, RunLeaves DEF IInv, TypeOK, Goto
<1>6. ~resumed => \A d \in Callers : Gateless(run'[d])
  BY <1>1, <1>4, RunLeaves DEF IInv, TypeOK, NothingPassed, Gateless
<1>7. NothingPassed' /\ HistoriesAreFinite'
  BY <1>1, <1>6 DEF IInv, NothingPassed, HistoriesAreFinite
<1>8. QED
  BY <1>5, <1>7 DEF IInv

\* The other steps of a run move it on, read the history or end it.
LEMMA StepPreserves ==
    ASSUME IInv, NEW c \in Callers,
           Load(c) \/ Complete(c) \/ Limited(c) \/ Pause(c) \/ Get(c) \/ Crash(c)
    PROVE  IInv'
<1>1. CASE Load(c)
  <2>1. /\ Finds(want[c]) => Found(want[c]) \in history /\ Found(want[c]) \in Checkpoint
        /\ Fresh \in Checkpoint /\ Gateless(Fresh)
    BY FoundIsThere, FreshIsClean
  <2>2. TypeOK' /\ HistoriesAreFinite'
    BY <1>1, <2>1 DEF IInv, TypeOK, HistoriesAreFinite, Load, Goto
  <2>3. NothingPassed'
    BY <1>1, <2>1 DEF IInv, TypeOK, NothingPassed, Load
  <2>4. QED
    BY <2>2, <2>3 DEF IInv
<1>2. CASE Ends(c)
  <2>1. TypeOK'
    BY <1>2, RunLeaves DEF IInv, TypeOK, Ends, Goto
  <2>2. NothingPassed' /\ HistoriesAreFinite'
    BY <1>2, RunLeaves DEF IInv, NothingPassed, HistoriesAreFinite, Ends
  <2>3. QED
    BY <2>1, <2>2 DEF IInv
<1>3. CASE Pause(c)
  <2>1. TypeOK'
    BY <1>3 DEF IInv, TypeOK, Pause, Goto
  <2>2. NothingPassed' /\ HistoriesAreFinite'
    BY <1>3 DEF IInv, NothingPassed, HistoriesAreFinite, Pause
  <2>3. QED
    BY <2>1, <2>2 DEF IInv
<1>4. CASE Get(c)
  <2>1. TypeOK'
    BY <1>4 DEF IInv, TypeOK, Get, Goto
  <2>2. NothingPassed' /\ HistoriesAreFinite'
    BY <1>4 DEF IInv, TypeOK, NothingPassed, HistoriesAreFinite, Get
  <2>3. QED
    BY <2>1, <2>2 DEF IInv
<1>5. CASE Crash(c)
  <2>1. TypeOK'
    BY <1>5, RunLeaves, BoundAssumption DEF IInv, TypeOK, Crash
  <2>2. NothingPassed'
    BY <1>5, RunLeaves DEF IInv, TypeOK, NothingPassed, Crash
  <2>3. HistoriesAreFinite'
    BY <1>5, FS_EmptySet DEF IInv, TypeOK, HistoriesAreFinite, Crash
  <2>4. QED
    BY <2>1, <2>2, <2>3 DEF IInv
<1>6. QED
  BY <1>1, <1>2, <1>3, <1>4, <1>5 DEF Complete, Limited

LEMMA NextPreserves == IInv /\ [Next]_vars => IInv'
<1> SUFFICES ASSUME IInv, [Next]_vars PROVE IInv'
  OBVIOUS
<1>1. CASE UNCHANGED vars
  BY <1>1 DEF IInv, TypeOK, NothingPassed, HistoriesAreFinite, vars, control
<1>2. CASE Next
  BY <1>2, CallPreserves, SuperstepPreserves, PutPreserves, RoutePreserves, StepPreserves DEF Next
<1>3. QED
  BY <1>1, <1>2

THEOREM Invariance == Spec => []IInv
BY InitIInv, NextPreserves, PTL DEF Spec

\* Every state of the graph and its checkpointer is well-typed.
THEOREM TypeCorrectness == Spec => []TypeOK
<1>1. IInv => TypeOK
  BY DEF IInv
<1>2. QED
  BY <1>1, Invariance, PTL

\* A gated node has run only on a thread that was resumed.
THEOREM GatesHold == Spec => []GateWaitsForResume
<1>1. IInv => GateWaitsForResume
  BY DEF IInv, NothingPassed, GateWaitsForResume, Gateless
<1>2. QED
  BY <1>1, Invariance, PTL
-----------------------------------------------------------------------------
(* The history is a line.                                                    *)

\* A prefix, element by element.
LEMMA PrefixIs ==
    ASSUME NEW S, NEW s \in Seq(S), NEW t \in Seq(S)
    PROVE  IsPrefix(s, t) <=> Len(s) <= Len(t) /\ \A i \in 1 .. Len(s) : s[i] = t[i]
<1>1. ASSUME Len(s) <= Len(t)
      PROVE  /\ SubSeq(s, 1, Len(s)) \in Seq(S) /\ SubSeq(t, 1, Len(s)) \in Seq(S)
             /\ Len(SubSeq(s, 1, Len(s))) = Len(s) /\ Len(SubSeq(t, 1, Len(s))) = Len(s)
             /\ \A i \in 1 .. Len(s) : SubSeq(s, 1, Len(s))[i] = s[i] /\ SubSeq(t, 1, Len(s))[i] = t[i]
  BY <1>1
<1>2. ASSUME Len(s) <= Len(t), \A i \in 1 .. Len(s) : s[i] = t[i]
      PROVE  SubSeq(s, 1, Len(s)) = SubSeq(t, 1, Len(s))
  BY <1>1, <1>2, SeqEqual
<1>3. QED
  BY <1>1, <1>2 DEF IsPrefix

LEMMA PrefixOrder ==
    ASSUME NEW S, NEW s \in Seq(S), NEW t \in Seq(S), NEW u \in Seq(S)
    PROVE  /\ IsPrefix(s, s) /\ IsPrefix(s, s \o t)
           /\ IsPrefix(s, t) /\ IsPrefix(t, u) => IsPrefix(s, u)
<1>1. IsPrefix(s, s)
  BY PrefixIs
<1>2. IsPrefix(s, s \o t)
  <2>1. s \o t \in Seq(S) /\ Len(s) <= Len(s \o t) /\ \A i \in 1 .. Len(s) : (s \o t)[i] = s[i]
    OBVIOUS
  <2>2. QED
    BY <2>1, PrefixIs
<1>3. ASSUME IsPrefix(s, t), IsPrefix(t, u) PROVE IsPrefix(s, u)
  <2>1. Len(s) <= Len(t) /\ \A i \in 1 .. Len(s) : s[i] = t[i]
    BY <1>3, PrefixIs
  <2>2. Len(t) <= Len(u) /\ \A i \in 1 .. Len(t) : t[i] = u[i]
    BY <1>3, PrefixIs
  <2>3. Len(s) <= Len(u) /\ \A i \in 1 .. Len(s) : s[i] = u[i]
    BY <2>1, <2>2
  <2>4. QED
    BY <2>3, PrefixIs
<1>4. QED
  BY <1>1, <1>2, <1>3

\* What a sequence gains is what is appended to it.
LEMMA AppendedIsGained ==
    ASSUME NEW S, NEW s \in Seq(S), NEW t \in Seq(S)
    PROVE  SubSeq(s \o t, Len(s) + 1, Len(s \o t)) = t
<1> DEFINE r == SubSeq(s \o t, Len(s) + 1, Len(s \o t))
<1>1. s \o t \in Seq(S) /\ Len(s \o t) = Len(s) + Len(t) /\ Len(s) \in Nat /\ Len(t) \in Nat
  OBVIOUS
<1>2. r \in Seq(S) /\ Len(r) = Len(t)
  BY <1>1
<1>3. \A i \in 1 .. Len(t) : r[i] = t[i]
  BY <1>1
<1> HIDE DEF r
<1>4. r = t
  BY <1>2, <1>3, SeqEqual
<1>5. QED
  BY <1>4 DEF r

\* The newest checkpoint, of a line, is one.
LEMMA TopIsOne ==
    ASSUME IInv, IsALine(history), NEW m, Tops(m), NEW n, Tops(n)
    PROVE  m = n
<1>1. m.step \in Nat /\ n.step \in Nat /\ m.step <= n.step /\ n.step <= m.step /\ m \in history /\ n \in history
  BY DEF Tops, IInv, TypeOK, Checkpoint
<1>2. m.step = n.step
  BY <1>1
<1>3. QED
  BY <1>1, <1>2 DEF IsALine

LEMMA LatestTops ==
    ASSUME IInv, history # {}
    PROVE  Tops(Latest(history)) /\ Latest(history) \in Checkpoint
BY LatestIsThere DEF IInv, TypeOK, HistoriesAreFinite, Tops

\* The steps of one caller leave the others idle.
LEMMA OthersIdle ==
    ASSUME LineInv, ~tangled', NEW c \in Callers,
           \/ \E id \in Ids : Invoke(c, id) \/ Resume(c, id)
           \/ Load(c) \/ Complete(c) \/ Limited(c) \/ Pause(c) \/ Superstep(c) \/ Get(c) \/ Put(c)
           \/ Route(c) \/ Crash(c)
    PROVE  ~tangled /\ \A d \in Callers : d # c => pc'[d] = "idle"
<1>0. TypeOK
  BY DEF LineInv, IInv
<1>1. CASE \E id \in Ids : Invoke(c, id) \/ Resume(c, id)
  <2>1. PICK id \in Ids : Invoke(c, id) \/ Resume(c, id)
    BY <1>1
  <2>2. Begin(c, "load", id) \/ Begin(c, "get", id)
    BY <2>1 DEF Invoke, Resume
  <2>3. ~tangled /\ \A d \in Callers \ {c} : pc[d] = "idle"
    BY <2>2 DEF Begin, Tangles
  <2>4. QED
    BY <1>0, <2>2, <2>3 DEF Begin, Goto, TypeOK
<1>2. CASE \/ Load(c) \/ Complete(c) \/ Limited(c) \/ Pause(c) \/ Superstep(c) \/ Get(c) \/ Put(c)
           \/ Route(c) \/ Crash(c)
  <2>1. /\ tangled' = tangled /\ pc[c] # "idle"
        /\ \A d \in Callers : d # c => pc'[d] = pc[d]
    <3>1. \E from, to : Goto(c, from, to) /\ from # "idle" /\ tangled' = tangled
      <4>1. CASE Superstep(c)
        BY <4>1 DEF Superstep
      <4>2. CASE Crash(c)
        BY <1>0, <4>2 DEF Crash, Goto, TypeOK
      <4>3. CASE \/ Load(c) \/ Complete(c) \/ Limited(c) \/ Pause(c) \/ Get(c) \/ Put(c) \/ Route(c)
        BY <4>3 DEF Load, Complete, Limited, Ends, Pause, Get, Put, Route
      <4>4. QED
        BY <1>2, <4>1, <4>2, <4>3
    <3>2. QED
      BY <1>0, <3>1 DEF Goto, TypeOK
  <2>2. QED
    BY <2>1 DEF LineInv
<1>3. QED
  BY <1>1, <1>2

\* It remains to see what the caller knows after its step.
LEMMA LineStep ==
    ASSUME IInv', IsALine(history'), NEW c \in Callers,
           \A d \in Callers : d # c => pc'[d] = "idle",
           pc'[c] # "idle" => Continuing(c)'
    PROVE  LineInv'
<1>1. \A d \in Callers : pc'[d] = "idle" => Continuing(d)'
  BY DEF Continuing
<1>2. QED
  BY <1>1 DEF LineInv

LEMMA CallContinues ==
    ASSUME LineInv, ~tangled', NEW c \in Callers, NEW id \in Ids, Invoke(c, id) \/ Resume(c, id), ~tangled
    PROVE  Continuing(c)' /\ history' = history
<1>0. TypeOK /\ IInv /\ IsALine(history)
  BY DEF LineInv, IInv
<1>1. id = Newest /\ history' = history
  BY DEF Invoke, Resume, Begin, Tangles
<1>2. CASE Invoke(c, id)
  BY <1>0, <1>1, <1>2 DEF Continuing, Invoke, Begin, Goto, TypeOK
<1>3. CASE Resume(c, id)
  <2> DEFINE m == Latest(history)
  <2>1. history # {} /\ Found(id) = m
    BY <1>1, <1>3 DEF Resume, Finds, Found
  <2>2. Tops(m) /\ m \in Checkpoint
    BY <1>0, <2>1, LatestTops
  <2> HIDE DEF m
  <2>3. PICK edit \in {<<>>, <<Edit>>} : run' = [run EXCEPT ![c] = [m EXCEPT !.state = @ \o edit]]
    BY <1>3, <2>1 DEF Resume
  <2>4. /\ run'[c].step = m.step /\ run'[c].path = m.path
        /\ run'[c].state = m.state \o edit
    BY <1>0, <2>2, <2>3 DEF TypeOK, Checkpoint
  <2>5. IsPrefix(m.state, run'[c].state)
    <3>1. m.state \in Seq(Nodes \cup {Edit})
      BY <2>2, Fields
    <3>2. <<>> \in Seq(Nodes \cup {Edit}) /\ <<Edit>> \in Seq(Nodes \cup {Edit})
      OBVIOUS
    <3>3. edit \in Seq(Nodes \cup {Edit})
      BY <3>2
    <3>4. QED
      BY <2>4, <3>1, <3>3, PrefixOrder
  <2>6. pc'[c] = "get" /\ after'[c] = "load" /\ want'[c] = m.step
    BY <1>0, <1>3, <2>1 DEF Resume, Begin, Goto, TypeOK
  <2>7. \A n \in history' : Tops(n)' => n = m
    <3>1. ASSUME NEW n \in history', Tops(n)' PROVE n = m
      <4>1. Tops(n)
        BY <1>1, <3>1 DEF Tops
      <4>2. QED
        BY <1>0, <2>2, <4>1, TopIsOne
    <3>2. QED
      BY <3>1
  <2>8. QED
    BY <1>1, <2>4, <2>5, <2>6, <2>7 DEF Continuing, IsEdited
<1>4. QED
  BY <1>1, <1>2, <1>3

LEMMA LoadContinues ==
    ASSUME LineInv, ~tangled, NEW c \in Callers, Load(c)
    PROVE  Continuing(c)' /\ history' = history
<1>0. TypeOK /\ IInv /\ IsALine(history) /\ Continuing(c) /\ pc[c] = "load" /\ history' = history
  BY DEF LineInv, IInv, Load, Goto
<1>1. ASSUME NEW m \in history, Tops(m) PROVE IsAt(run'[c], m)
  <2>1. Finds(want[c]) /\ Found(want[c]) = m
    <3>1. CASE want[c] = Newest
      <4>1. Tops(Latest(history))
        BY <1>0, <1>1, LatestTops
      <4>2. QED
        BY <1>0, <1>1, <3>1, <4>1, TopIsOne DEF Finds, Found
    <3>2. CASE want[c] # Newest
      <4>1. PICK n \in history : Tops(n) /\ want[c] = n.step
        BY <1>0, <3>2 DEF Continuing
      <4>2. n = m
        BY <1>0, <1>1, <4>1, TopIsOne
      <4>3. \A k \in history : k.step = want[c] => k = m
        BY <1>0, <1>1, <4>1, <4>2 DEF IsALine
      <4>4. QED
        BY <1>1, <3>2, <4>1, <4>2, <4>3 DEF Finds, Found
    <3>3. QED
      BY <3>1, <3>2
  <2>2. run'[c] = m
    BY <1>0, <2>1 DEF Load, TypeOK
  <2>3. QED
    BY <2>2 DEF IsAt
<1>2. pc'[c] = "head"
  BY <1>0 DEF Load, Goto, TypeOK
<1>3. QED
  BY <1>0, <1>1, <1>2 DEF Continuing, Tops

LEMMA SuperstepContinues ==
    ASSUME LineInv, ~tangled, NEW c \in Callers, Superstep(c)
    PROVE  (pc'[c] # "idle" => Continuing(c)') /\ history' = history
<1>0. TypeOK /\ IInv /\ IsALine(history) /\ Continuing(c) /\ pc[c] = "head" /\ run[c] \in Checkpoint
  BY DEF LineInv, IInv, TypeOK, Superstep, Goto
<1>1. PICK failed \in SUBSET run[c].frontier : \E order \in Merged(run[c].frontier \ failed) :
          LET stops == failed # {} /\ failFast
          IN  /\ Goto(c, "head", IF stops THEN "idle" ELSE "get")
              /\ run' = IF stops THEN Left(c) ELSE [run EXCEPT ![c] = Advanced(c, order)]
              /\ after' = [after EXCEPT ![c] = IF stops THEN @ ELSE "route"]
              /\ UNCHANGED history
  BY DEF Superstep
<1>2. PICK order \in Merged(run[c].frontier \ failed) :
          LET stops == failed # {} /\ failFast
          IN  /\ Goto(c, "head", IF stops THEN "idle" ELSE "get")
              /\ run' = IF stops THEN Left(c) ELSE [run EXCEPT ![c] = Advanced(c, order)]
              /\ after' = [after EXCEPT ![c] = IF stops THEN @ ELSE "route"]
              /\ UNCHANGED history
  BY <1>1
<1>3. history' = history
  BY <1>2
<1>4. SUFFICES ASSUME pc'[c] # "idle" PROVE Continuing(c)'
  BY <1>3
<1>5. /\ pc'[c] = "get" /\ after'[c] = "route"
      /\ run' = [run EXCEPT ![c] = Advanced(c, order)]
  BY <1>0, <1>2, <1>4 DEF Goto, TypeOK
<1>6. /\ run[c].state \in Seq(Nodes \cup {Edit}) /\ run[c].path \in Seq(Nodes)
      /\ order \in Seq(Nodes) /\ ToSet(order) \subseteq run[c].frontier /\ Sorted(order)
  <2>1. run[c].frontier \ failed \in SUBSET Nodes
    BY <1>0, Fields
  <2>2. QED
    BY <1>0, <2>1, Fields, MergedIsSequence
<1>7. /\ run'[c].step = run[c].step /\ run'[c].path = run[c].path \o order
      /\ run'[c].state = run[c].state \o order
  BY <1>0, <1>5 DEF TypeOK, Advanced, Checkpoint
<1>8. ASSUME NEW m \in history, Tops(m) PROVE IsBeyond(run'[c], m)
  <2>1. IsAt(run[c], m)
    BY <1>0, <1>8 DEF Continuing
  <2>2. m.step = run[c].step /\ m.path = run[c].path /\ m.state = run[c].state
        /\ (m.frontier # {} => run[c].frontier = m.frontier)
    BY <2>1 DEF IsAt
  <2>3. IsPrefix(run[c].path, run[c].path \o order)
    BY <1>6, PrefixOrder
  <2>4. IsPrefix(run[c].state, run[c].state \o order)
    <3>1. order \in Seq(Nodes \cup {Edit})
      BY <1>6
    <3>2. QED
      BY <1>6, <3>1, PrefixOrder
  <2>5. Gained(m, run'[c]) = order
    BY <1>6, <1>7, <2>2, AppendedIsGained DEF Gained
  <2>6. QED
    BY <1>6, <1>7, <2>2, <2>3, <2>4, <2>5 DEF IsBeyond
<1>9. QED
  BY <1>3, <1>5, <1>8 DEF Continuing, Tops

LEMMA GoesOnContinues ==
    ASSUME LineInv, ~tangled, NEW c \in Callers,
           Complete(c) \/ Limited(c) \/ Pause(c) \/ Get(c) \/ Crash(c) \/ Route(c)
    PROVE  (pc'[c] # "idle" => Continuing(c)') /\ history' = history
<1>0. TypeOK /\ IInv /\ IsALine(history) /\ (pc[c] # "idle" => Continuing(c)) /\ run[c] \in Checkpoint
  BY DEF LineInv, IInv, TypeOK
<1>1. CASE Complete(c) \/ Limited(c) \/ Crash(c)
  BY <1>0, <1>1 DEF Complete, Limited, Ends, Crash, Goto, TypeOK
<1>2. CASE Pause(c)
  <2>1. /\ pc[c] = "head" /\ pc'[c] = "get" /\ after'[c] = "idle"
        /\ run' = run /\ history' = history
    BY <1>0, <1>2 DEF Pause, Goto, TypeOK
  <2>2. QED
    BY <1>0, <2>1 DEF Continuing, Tops
<1>3. CASE Get(c)
  <2>1. /\ pc[c] = "get" /\ pc'[c] = "put" /\ after' = after /\ want' = want
        /\ run' = run /\ history' = history /\ view'[c] = history
    BY <1>0, <1>3 DEF Get, Goto, TypeOK
  <2>2. QED
    BY <1>0, <2>1 DEF Continuing, Tops
<1>4. CASE Route(c)
  <2>1. PICK frontier \in Frontiers(run[c].frontier), to \in {"head", "idle"} :
            /\ Goto(c, "route", to)
            /\ run' = IF to = "idle" THEN Left(c)
                      ELSE [run EXCEPT ![c].step = @ + 1, ![c].frontier = frontier]
            /\ UNCHANGED history
    BY <1>4 DEF Route
  <2>2. pc[c] = "route" /\ pc'[c] = to /\ history' = history
    BY <1>0, <2>1 DEF Goto, TypeOK
  <2>3. SUFFICES ASSUME to = "head" PROVE Continuing(c)'
    BY <2>2
  <2>4. /\ run'[c].step = run[c].step + 1 /\ run'[c].path = run[c].path
        /\ run'[c].state = run[c].state
    BY <1>0, <2>1, <2>3 DEF TypeOK, Checkpoint
  <2>5. PICK m \in history : /\ Tops(m) /\ m.step = run[c].step + 1 /\ m.frontier = {}
                             /\ m.path = run[c].path /\ m.state = run[c].state
    BY <1>0, <2>2 DEF Continuing
  <2>6. \A n \in history : Tops(n) => IsAt(run'[c], n)
    BY <1>0, <2>4, <2>5, TopIsOne DEF IsAt
  <2>7. QED
    BY <2>2, <2>3, <2>6 DEF Continuing, Tops
<1>5. QED
  BY <1>1, <1>2, <1>3, <1>4
\* What is saved goes on from every checkpoint before it.
LEMMA DraftGoesOn ==
    ASSUME LineInv, ~tangled, NEW c \in Callers, pc[c] = "put",
           NEW D, D = Draft(c), NEW m, Tops(m)
    PROVE  /\ m.step <= D.step /\ IsPrefix(m.state, D.state)
           /\ \A j \in history : j.step < D.step =>
                 /\ IsPrefix(j.path, D.path) /\ IsPrefix(j.state, D.state)
                 /\ D.step = j.step + 1 =>
                       /\ Sorted(Gained(j, D))
                       /\ j.frontier # {} => ToSet(Gained(j, D)) \subseteq j.frontier
<1>0. /\ TypeOK /\ IInv /\ IsALine(history) /\ Continuing(c) /\ run[c] \in Checkpoint /\ D \in Checkpoint
      /\ history \subseteq Checkpoint /\ m \in history
  BY DraftIsClean DEF LineInv, IInv, TypeOK, Tops
<1>1. /\ m.step \in Nat /\ m.path \in Seq(Nodes) /\ m.state \in Seq(Nodes \cup {Edit})
      /\ D.step \in Nat /\ D.path \in Seq(Nodes) /\ D.state \in Seq(Nodes \cup {Edit})
      /\ run[c].step \in Nat
      /\ \A j \in history : /\ j.step \in Nat /\ j.step <= m.step
                            /\ j.path \in Seq(Nodes) /\ j.state \in Seq(Nodes \cup {Edit})
  BY <1>0 DEF Checkpoint, Tops
<1>2. ASSUME NEW j \in history, j.step < m.step, IsPrefix(m.path, D.path), IsPrefix(m.state, D.state)
      PROVE  IsPrefix(j.path, D.path) /\ IsPrefix(j.state, D.state)
  <2>1. IsPrefix(j.path, m.path) /\ IsPrefix(j.state, m.state)
    BY <1>0, <1>2 DEF IsALine
  <2>2. IsPrefix(j.path, D.path)
    BY <1>1, <1>2, <2>1, PrefixOrder
  <2>3. IsPrefix(j.state, D.state)
    BY <1>1, <1>2, <2>1, PrefixOrder
  <2>4. QED
    BY <2>2, <2>3
<1>3. CASE after[c] = "route"
  <2>1. D.step = run[c].step + 1 /\ D.path = run[c].path /\ D.state = run[c].state
    BY <1>0, <1>3 DEF Draft, Checkpoint
  <2>2. IsBeyond(run[c], m)
    BY <1>0, <1>3 DEF Continuing
  <2>3. /\ D.step = m.step + 1 /\ IsPrefix(m.path, D.path) /\ IsPrefix(m.state, D.state)
        /\ Sorted(Gained(m, D)) /\ (m.frontier # {} => ToSet(Gained(m, D)) \subseteq m.frontier)
    BY <2>1, <2>2 DEF IsBeyond, Gained
  <2>4. ASSUME NEW j \in history, j.step < D.step
        PROVE  /\ IsPrefix(j.path, D.path) /\ IsPrefix(j.state, D.state)
               /\ D.step = j.step + 1 =>
                     /\ Sorted(Gained(j, D))
                     /\ j.frontier # {} => ToSet(Gained(j, D)) \subseteq j.frontier
    <3>1. CASE j.step = m.step
      <4>1. j = m
        BY <1>0, <3>1 DEF IsALine
      <4>2. QED
        BY <2>3, <4>1
    <3>2. CASE j.step < m.step
      <4>1. D.step # j.step + 1
        BY <1>1, <2>3, <3>2
      <4>2. QED
        BY <1>2, <2>3, <3>2, <4>1
    <3>3. QED
      BY <1>1, <3>1, <3>2
  <2>5. QED
    BY <1>1, <2>3, <2>4
<1>4. CASE after[c] \in {"idle", "load"}
  <2>1. D = run[c]
    BY <1>4 DEF Draft
  <2>2. D.step = m.step /\ D.path = m.path /\ IsPrefix(m.state, D.state)
    <3>1. IsAt(run[c], m) \/ IsEdited(run[c], m)
      BY <1>0, <1>4 DEF Continuing
    <3>2. IsPrefix(m.state, m.state)
      BY <1>1, PrefixOrder
    <3>3. QED
      BY <2>1, <3>1, <3>2 DEF IsAt, IsEdited
  <2>3. IsPrefix(m.path, D.path)
    BY <1>1, <2>2, PrefixOrder
  <2>4. ASSUME NEW j \in history, j.step < D.step
        PROVE  /\ IsPrefix(j.path, D.path) /\ IsPrefix(j.state, D.state)
               /\ D.step = j.step + 1 =>
                     /\ Sorted(Gained(j, D))
                     /\ j.frontier # {} => ToSet(Gained(j, D)) \subseteq j.frontier
    <3>1. Gained(j, D) = Gained(j, m)
      BY <2>2 DEF Gained
    <3>2. QED
      BY <1>0, <1>2, <2>2, <2>3, <2>4, <3>1 DEF IsALine
  <2>5. m.step <= D.step /\ IsPrefix(m.state, D.state)
    BY <1>1, <2>2
  <2>6. QED
    BY <2>4, <2>5
<1>5. QED
  BY <1>0, <1>3, <1>4 DEF TypeOK

\* A save puts what it saves at the end of the line, and keeps it.
LEMMA PutContinues ==
    ASSUME LineInv, ~tangled, NEW c \in Callers, Put(c)
    PROVE  /\ IsALine(history') /\ (pc'[c] # "idle" => Continuing(c)')
           /\ \E D \in history' : Tops(D)' /\ \A m \in history : Tops(m) =>
                 m.step <= D.step /\ IsPrefix(m.state, D.state)
<1>1. SUFFICES ASSUME NEW D, D = Draft(c)
               PROVE  /\ IsALine(history') /\ (pc'[c] # "idle" => Continuing(c)')
                      /\ \E E \in history' : Tops(E)' /\ \A m \in history : Tops(m) =>
                            m.step <= E.step /\ IsPrefix(m.state, E.state)
  OBVIOUS
<1> DEFINE W == {k \in history : k.step # D.step} \cup {D}
<1>2. /\ TypeOK /\ IInv /\ IsALine(history) /\ Continuing(c) /\ run[c] \in Checkpoint /\ D \in Checkpoint
      /\ pc[c] = "put" /\ pc'[c] = after[c] /\ history \subseteq Checkpoint
  BY <1>1, DraftIsClean DEF LineInv, IInv, TypeOK, Put, Goto
<1>3. view[c] = history /\ history' = Kept(W)
  BY <1>1, <1>2 DEF Continuing, Put
<1>4. D.step \in Nat /\ \A k \in history : k.step \in Nat
  BY <1>2 DEF Checkpoint
<1>5. \A k \in history : k.step <= D.step
  <2>1. SUFFICES ASSUME NEW k \in history PROVE k.step <= D.step
    OBVIOUS
  <2>2. Tops(Latest(history)) /\ Latest(history) \in history
    BY <1>2, LatestTops DEF Tops
  <2>3. Latest(history).step <= D.step
    BY <1>1, <1>2, <2>2, DraftGoesOn
  <2>4. QED
    BY <1>4, <2>2, <2>3 DEF Tops
<1>6. \A k \in W : k = D \/ (k \in history /\ k.step < D.step)
  BY <1>4, <1>5
<1>7. history' \subseteq W /\ D \in history'
  <2>1. {j \in W : j.step > D.step} = {}
    BY <1>4, <1>6
  <2>2. Cardinality({j \in W : j.step > D.step}) < MaxPerThread
    BY <2>1, FS_EmptySet, BoundAssumption
  <2>3. QED
    BY <1>3, <2>2 DEF Kept
<1>8. Tops(D)'
  BY <1>4, <1>6, <1>7 DEF Tops
<1>9. \A k \in history : k.step < D.step =>
         /\ IsPrefix(k.path, D.path) /\ IsPrefix(k.state, D.state)
         /\ D.step = k.step + 1 =>
               /\ Sorted(Gained(k, D))
               /\ k.frontier # {} => ToSet(Gained(k, D)) \subseteq k.frontier
  <2>1. ASSUME history # {} PROVE Tops(Latest(history))
    BY <1>2, <2>1, LatestTops
  <2>2. QED
    BY <1>1, <1>2, <2>1, DraftGoesOn
<1>10. IsALine(history')
  <2>1. SUFFICES ASSUME NEW j \in W, NEW k \in W
                 PROVE  /\ j.step = k.step => j = k
                        /\ j.step < k.step => IsPrefix(j.path, k.path) /\ IsPrefix(j.state, k.state)
                        /\ k.step = j.step + 1 =>
                              /\ Sorted(Gained(j, k))
                              /\ j.frontier # {} => ToSet(Gained(j, k)) \subseteq j.frontier
    BY <1>7 DEF IsALine
  <2>2. CASE j \in history /\ k \in history /\ j # D /\ k # D
    BY <1>2, <2>2 DEF IsALine
  <2>3. CASE k = D /\ j # D
    BY <1>4, <1>6, <1>9, <2>3
  <2>4. CASE j = D
    <3>1. ~(j.step < k.step) /\ k.step # j.step + 1 /\ (j.step = k.step => j = k)
      BY <1>4, <1>6, <2>4
    <3>2. QED
      BY <3>1
  <2>5. QED
    BY <1>6, <2>2, <2>3, <2>4
<1>11. pc'[c] # "idle" => Continuing(c)'
  <2>1. SUFFICES ASSUME pc'[c] # "idle" PROVE Continuing(c)'
    OBVIOUS
  <2>2. run' = run /\ want' = want /\ after[c] \in {"load", "route"}
    BY <1>2, <2>1 DEF Put, TypeOK
  <2>3. CASE after[c] = "load"
    <3>1. D = run[c] /\ want[c] = D.step
      BY <1>1, <1>2, <2>3 DEF Draft, Continuing
    <3>2. QED
      BY <1>2, <1>7, <1>8, <2>2, <2>3, <3>1 DEF Continuing
  <2>4. CASE after[c] = "route"
    <3>1. /\ D.step = run[c].step + 1 /\ D.path = run[c].path /\ D.state = run[c].state
          /\ D.frontier = {}
      BY <1>1, <1>2, <2>4 DEF Draft, Checkpoint
    <3>2. QED
      BY <1>2, <1>7, <1>8, <2>2, <2>4, <3>1 DEF Continuing
  <2>5. QED
    BY <2>2, <2>3, <2>4
<1>12. \A m \in history : Tops(m) => m.step <= D.step /\ IsPrefix(m.state, D.state)
  BY <1>1, <1>2, DraftGoesOn
<1>13. QED
  BY <1>7, <1>8, <1>10, <1>11, <1>12

LEMMA NextKeepsLine == LineInv /\ [Next]_vars => LineInv'
<1> SUFFICES ASSUME LineInv, [Next]_vars PROVE LineInv'
  OBVIOUS
<1>1. IInv'
  BY NextPreserves DEF LineInv
<1>2. CASE UNCHANGED vars
  BY <1>1, <1>2 DEF LineInv, Continuing, Tops, vars, control
<1>3. CASE Next
  <2>1. CASE tangled'
    BY <1>1, <2>1 DEF LineInv
  <2>2. CASE ~tangled'
    <3>1. PICK c \in Callers :
            \/ \E id \in Ids : Invoke(c, id) \/ Resume(c, id)
            \/ Load(c) \/ Complete(c) \/ Limited(c) \/ Pause(c) \/ Superstep(c) \/ Get(c) \/ Put(c)
            \/ Route(c) \/ Crash(c)
      BY <1>3 DEF Next
    <3>2. ~tangled /\ \A d \in Callers : d # c => pc'[d] = "idle"
      BY <2>2, <3>1, OthersIdle
    <3>3. IsALine(history)
      BY <3>2 DEF LineInv
    <3>4. IsALine(history') /\ (pc'[c] # "idle" => Continuing(c)')
      <4>1. CASE \E id \in Ids : Invoke(c, id) \/ Resume(c, id)
        BY <2>2, <3>2, <3>3, <4>1, CallContinues
      <4>2. CASE Load(c)
        BY <3>2, <3>3, <4>2, LoadContinues
      <4>3. CASE Superstep(c)
        BY <3>2, <3>3, <4>3, SuperstepContinues
      <4>4. CASE Put(c)
        BY <3>2, <4>4, PutContinues
      <4>5. CASE Complete(c) \/ Limited(c) \/ Pause(c) \/ Get(c) \/ Crash(c) \/ Route(c)
        BY <3>2, <3>3, <4>5, GoesOnContinues
      <4>6. QED
        BY <3>1, <4>1, <4>2, <4>3, <4>4, <4>5
    <3>5. QED
      BY <1>1, <3>2, <3>4, LineStep
  <2>3. QED
    BY <2>1, <2>2
<1>4. QED
  BY <1>2, <1>3

\* As long as runs follow each other, each from the newest checkpoint, the
\* history is a line and every run knows its end.
THEOREM LineInvariance == Spec => []LineInv
<1>1. Init => LineInv
  <2>1. Init => IInv
    BY InitIInv
  <2>2. Init => history = {} /\ \A c \in Callers : pc[c] = "idle"
    BY DEF Init
  <2>3. QED
    BY <2>1, <2>2 DEF LineInv, IsALine, Continuing
<1>2. QED
  BY <1>1, NextKeepsLine, PTL DEF Spec

\* Later checkpoints extend earlier ones (checkpoint.ts:30-31), for any graph,
\* any size of the history and any deaths.
THEOREM LaterExtendsEarlier == Spec => []HistoryIsALine
<1>1. LineInv => HistoryIsALine
  BY DEF LineInv, IsALine, HistoryIsALine
<1>2. QED
  BY <1>1, LineInvariance, PTL

\* A superstep merges in name order and runs what the checkpoint queued
\* (types.ts:25-27).
THEOREM SuperstepsInOrder == Spec => []SuperstepsFollow
<1>1. LineInv => SuperstepsFollow
  BY DEF LineInv, IsALine, SuperstepsFollow
<1>2. QED
  BY <1>1, LineInvariance, PTL

\* No call and no death takes back what the newest checkpoint holds.
THEOREM NothingIsTakenBack == Spec => ProgressIsKept
<1>1. LineInv /\ [Next]_vars =>
        [history # {} /\ ~tangled' =>
            /\ history' # {}
            /\ Latest(history).step <= Latest(history').step
            /\ IsPrefix(Latest(history).state, Latest(history').state)]_vars
  <2>1. SUFFICES ASSUME LineInv, Next, history # {}, ~tangled', LineInv'
                 PROVE  /\ history' # {}
                        /\ Latest(history).step <= Latest(history').step
                        /\ IsPrefix(Latest(history).state, Latest(history').state)
    BY NextKeepsLine
  <2>2. PICK c \in Callers :
            \/ \E id \in Ids : Invoke(c, id) \/ Resume(c, id)
            \/ Load(c) \/ Complete(c) \/ Limited(c) \/ Pause(c) \/ Superstep(c) \/ Get(c) \/ Put(c)
            \/ Route(c) \/ Crash(c)
    BY <2>1 DEF Next
  <2>3. ~tangled
    BY <2>1, <2>2, OthersIdle
  <2>4. Tops(Latest(history)) /\ Latest(history) \in Checkpoint /\ Latest(history) \in history
    BY <2>1, LatestTops DEF LineInv, Tops
  <2>5. CASE Put(c)
    <3>1. PICK D \in history' : Tops(D)' /\ \A m \in history : Tops(m) =>
                 m.step <= D.step /\ IsPrefix(m.state, D.state)
      BY <2>1, <2>3, <2>5, PutContinues
    <3>2. Latest(history') = D
      <4>1. IInv' /\ IsALine(history') /\ history' # {}
        BY <2>1, <3>1 DEF LineInv
      <4>2. history' \subseteq Checkpoint /\ IsFiniteSet(history')
        BY <4>1 DEF IInv, TypeOK, HistoriesAreFinite
      <4>3. Latest(history') \in history' /\ \A j \in history' : j.step <= Latest(history').step
        BY <4>1, <4>2, LatestIsThere
      <4>4. D.step \in Nat /\ Latest(history').step \in Nat
        BY <3>1, <4>2, <4>3 DEF Checkpoint
      <4>5. D.step = Latest(history').step
        BY <3>1, <4>3, <4>4 DEF Tops
      <4>6. QED
        BY <3>1, <4>1, <4>3, <4>5 DEF IsALine
    <3>3. QED
      BY <2>4, <3>1, <3>2
  <2>6. CASE ~Put(c)
    <3>1. history' = history
      BY <2>1, <2>2, <2>3, <2>6, CallContinues, LoadContinues, SuperstepContinues, GoesOnContinues
    <3>2. Latest(history).step <= Latest(history).step /\ IsPrefix(Latest(history).state, Latest(history).state)
      BY <2>4, Fields, PrefixOrder
    <3>3. QED
      BY <2>1, <3>1, <3>2
  <2>7. QED
    BY <2>5, <2>6
<1>2. QED
  BY <1>1, LineInvariance, PTL DEF Spec, ProgressIsKept
=============================================================================
