----------------------------- MODULE AgentGraph -----------------------------
(***************************************************************************)
(* AgentGraph and its KeyValueCheckpointer: processes that invoke and      *)
(* resume one graph on one thread.  A run takes supersteps: the frontier's *)
(* nodes run, their updates are merged, a checkpoint is saved, the edges   *)
(* name the next frontier.                                                 *)
(*                                                                         *)
(* An update is the name of its node, and the state what was merged, in    *)
(* order (an appendReducer channel).  Every await on the checkpointer ends *)
(* a step; between two of them a run touches nothing that is shared.       *)
(* Checkpoints are identified by their step, and every superstep has its   *)
(* own, so a thread's history is a set of them.                            *)
(***************************************************************************)
EXTENDS Integers, FiniteSets, SequencesExt

CONSTANTS
    Callers,        \* processes that run the graph on this thread
    Nodes,          \* its nodes
    Entry,          \* its entry point
    Rank,           \* the order of their names
    Routes,         \* what the edges of each node may name; {} is END
    Gates,          \* interruptBefore
    RecursionLimit, \* recursionLimit
    MaxPerThread,   \* maxPerThread
    MaxRuns,        \* bound: calls of invoke and resume
    MaxCrashes,     \* bound: processes that die
    Edit, Newest

VARIABLES
    history,        \* the thread's checkpoints, under its key
    failFast,       \* an option of the graph
    pc,             \* what each caller awaits next
    run,            \* state, frontier, path and step of its run
    open,           \* whether its graph is one _withoutInterrupts returned
    want,           \* the checkpoint its run asks for
    view,           \* the history save has read
    after,          \* what the save is followed by
    resumed,        \* history: whether resume was ever called
    tangled,        \* history: see Tangles
    runs, crashes

control == <<pc, open, want, view, after>>

vars == <<history, failFast, control, run, resumed, tangled, runs, crashes>>

ASSUME GraphAssumption ==
    /\ Entry \in Nodes /\ Gates \subseteq Nodes /\ Edit \notin Nodes
    /\ Rank \in [Nodes -> Nat] /\ \A m, n \in Nodes : Rank[m] = Rank[n] => m = n
    /\ Routes \in [Nodes -> SUBSET SUBSET Nodes] /\ IsFiniteSet(Nodes)

ASSUME BoundAssumption ==
    /\ RecursionLimit \in Nat \ {0} /\ MaxPerThread \in Nat \ {0}
    /\ MaxRuns \in Nat /\ MaxCrashes \in Nat /\ Newest \notin Nat

Checkpoint == [step: Nat, state: Seq(Nodes \cup {Edit}), path: Seq(Nodes), frontier: SUBSET Nodes]

\* _initialState, at the entry point.
Fresh == [step |-> 0, state |-> <<>>, path |-> <<>>, frontier |-> {Entry}]

TypeOK ==
    /\ history \subseteq Checkpoint
    /\ failFast \in BOOLEAN
    /\ pc \in [Callers -> {"idle", "load", "head", "get", "put", "route"}]
    /\ run \in [Callers -> Checkpoint]
    /\ open \in [Callers -> BOOLEAN]
    /\ want \in [Callers -> Nat \cup {Newest}]
    /\ view \in [Callers -> SUBSET Checkpoint]
    /\ after \in [Callers -> {"idle", "load", "route"}]
    /\ resumed \in BOOLEAN /\ tangled \in BOOLEAN
    /\ runs \in 0 .. MaxRuns /\ crashes \in 0 .. MaxCrashes

Init ==
    /\ history = {}
    /\ failFast \in BOOLEAN
    /\ pc = [c \in Callers |-> "idle"]
    /\ run = [c \in Callers |-> Fresh]
    /\ open = [c \in Callers |-> FALSE]
    /\ want = [c \in Callers |-> Newest]
    /\ view = [c \in Callers |-> {}]
    /\ after = [c \in Callers |-> "idle"]
    /\ resumed = FALSE /\ tangled = FALSE
    /\ runs = 0 /\ crashes = 0

Goto(c, from, to) == pc[c] = from /\ pc' = [pc EXCEPT ![c] = to]

\* A run that ends leaves nothing behind in its process.
Left(c) == [run EXCEPT ![c] = Fresh]

-----------------------------------------------------------------------------
(* The checkpointer. *)

\* Mutant of Latest: the list is taken for oldest first.
LatestIsOldest(checkpoints) ==
    CHOOSE k \in checkpoints : \A j \in checkpoints : k.step <= j.step

Latest(checkpoints) == CHOOSE k \in checkpoints : \A j \in checkpoints : j.step <= k.step

\* Whether load finds the checkpoint with this id, or any.
Finds(id) == \E k \in history : id \in {Newest, k.step}

\* load
Found(id) == IF id = Newest THEN Latest(history) ELSE CHOOSE k \in history : k.step = id

\* The newest maxPerThread of them.
Kept(checkpoints) ==
    {k \in checkpoints : Cardinality({j \in checkpoints : j.step > k.step}) < MaxPerThread}

\* save, first half: the thread's history is read ...
Get(c) ==
    /\ Goto(c, "get", "put")
    /\ view' = [view EXCEPT ![c] = history]
    /\ UNCHANGED <<history, failFast, open, want, after, run, resumed, tangled, runs, crashes>>

\* What is saved: after a superstep, the next step and no frontier.
Draft(c) ==
    IF after[c] = "route" THEN [run[c] EXCEPT !.step = @ + 1, !.frontier = {}] ELSE run[c]

\* ... and written, with a checkpoint of the same id replaced.
Put(c) ==
    /\ Goto(c, "put", after[c])
    /\ history' = Kept({k \in view[c] : k.step # Draft(c).step} \cup {Draft(c)})
    /\ view' = [view EXCEPT ![c] = {}]
    /\ after' = [after EXCEPT ![c] = "idle"]
    /\ run' = IF after[c] = "idle" THEN Left(c) ELSE run
    /\ UNCHANGED <<failFast, open, want, resumed, tangled, runs, crashes>>
-----------------------------------------------------------------------------
(* The calls. *)

\* A thread's history is one line as long as its runs follow each other and
\* each goes on from the newest checkpoint.
Tangles(c, id) == (\E d \in Callers \ {c} : pc[d] # "idle") \/ id # Newest

Begin(c, from, id) ==
    /\ runs < MaxRuns
    /\ runs' = runs + 1
    /\ Goto(c, "idle", from)
    /\ tangled' = (tangled \/ Tangles(c, id))
    /\ UNCHANGED <<history, failFast, view, crashes>>

\* invoke and stream, from a checkpoint or from the newest.
Invoke(c, id) ==
    /\ Begin(c, "load", id)
    /\ open' = [open EXCEPT ![c] = FALSE]
    /\ want' = [want EXCEPT ![c] = id]
    /\ UNCHANGED <<run, after, resumed>>

\* resume: the human's edit is merged and saved under the same id; the run that
\* follows has no gates.  A thread without a checkpoint rejects.
Resume(c, id) ==
    /\ Finds(id)
    /\ Begin(c, "get", id)
    /\ resumed' = TRUE
    /\ \E edit \in {<<>>, <<Edit>>} :
          run' = [run EXCEPT ![c] = [Found(id) EXCEPT !.state = @ \o edit]]
    /\ open' = [open EXCEPT ![c] = TRUE]
    /\ want' = [want EXCEPT ![c] = Found(id).step]
    /\ after' = [after EXCEPT ![c] = "load"]

\* Mutant of Load: the checkpoint is not looked at.
LoadAfresh(c) ==
    /\ Goto(c, "load", "head")
    /\ run' = [run EXCEPT ![c] = Fresh]
    /\ want' = [want EXCEPT ![c] = Newest]
    /\ UNCHANGED <<history, failFast, open, view, after, resumed, tangled, runs, crashes>>

\* stream begins from the checkpoint, or afresh when there is none.
Load(c) ==
    /\ Goto(c, "load", "head")
    /\ run' = [run EXCEPT ![c] = IF Finds(want[c]) THEN Found(want[c]) ELSE Fresh]
    /\ want' = [want EXCEPT ![c] = Newest]
    /\ UNCHANGED <<history, failFast, open, view, after, resumed, tangled, runs, crashes>>
-----------------------------------------------------------------------------
(* The superstep loop. *)

\* The run ends here, with 'complete' or 'recursion-limit'.
Ends(c) ==
    /\ Goto(c, "head", "idle")
    /\ run' = Left(c)
    /\ UNCHANGED <<history, failFast, open, want, view, after, resumed, tangled, runs, crashes>>

Complete(c) == run[c].frontier = {} /\ Ends(c)

Limited(c) == run[c].frontier # {} /\ run[c].step >= RecursionLimit /\ Ends(c)

Continues(c) == run[c].frontier # {} /\ run[c].step < RecursionLimit

Pausing(c) == ~open[c] /\ run[c].frontier \cap Gates # {}

\* Mutant of Pause: the loop is not left.
PauseGoesOn(c) ==
    /\ Continues(c) /\ Pausing(c)
    /\ Goto(c, "head", "get")
    /\ after' = [after EXCEPT ![c] = "head"]
    /\ UNCHANGED <<history, failFast, open, want, view, run, resumed, tangled, runs, crashes>>

\* A gate: the frontier is checkpointed, and the run ends 'interrupted'.
Pause(c) ==
    /\ Continues(c) /\ Pausing(c)
    /\ Goto(c, "head", "get")
    /\ after' = [after EXCEPT ![c] = "idle"]
    /\ UNCHANGED <<history, failFast, open, want, view, run, resumed, tangled, runs, crashes>>

Sorted(order) == \A i \in 1 .. Len(order) - 1 : Rank[order[i]] < Rank[order[i + 1]]

\* Mutant of Merged: updates are merged as the nodes finish.
MergedAsFinished(nodes) == SetToSeqs(nodes)

\* The nodes finish in any order; their updates are sorted by name.
Merged(nodes) == {order \in SetToSeqs(nodes) : Sorted(order)}

\* What a run looks like after `nodes` of its frontier have succeeded.
Advanced(c, order) ==
    [run[c] EXCEPT !.state = @ \o order, !.path = @ \o order, !.frontier = ToSet(order)]

\* Mutant of Superstep: gates are looked at only when the run begins.
SuperstepUngated(c) ==
    \E failed \in SUBSET run[c].frontier : \E order \in Merged(run[c].frontier \ failed) :
        LET stops == failed # {} /\ failFast
        IN  /\ Continues(c) /\ (~Pausing(c) \/ run[c].step > 0)
            /\ Goto(c, "head", IF stops THEN "idle" ELSE "get")
            /\ run' = IF stops THEN Left(c) ELSE [run EXCEPT ![c] = Advanced(c, order)]
            /\ after' = [after EXCEPT ![c] = IF stops THEN @ ELSE "route"]
            /\ UNCHANGED <<history, failFast, open, want, view, resumed, tangled, runs, crashes>>

\* The frontier runs; a node that threw after its retries ends a failFast run
\* before its checkpoint.
Superstep(c) ==
    \E failed \in SUBSET run[c].frontier : \E order \in Merged(run[c].frontier \ failed) :
        LET stops == failed # {} /\ failFast
        IN  /\ Continues(c) /\ ~Pausing(c)
            /\ Goto(c, "head", IF stops THEN "idle" ELSE "get")
            /\ run' = IF stops THEN Left(c) ELSE [run EXCEPT ![c] = Advanced(c, order)]
            /\ after' = [after EXCEPT ![c] = IF stops THEN @ ELSE "route"]
            /\ UNCHANGED <<history, failFast, open, want, view, resumed, tangled, runs, crashes>>

\* Mutant of Frontiers: END is not filtered out.
FrontiersWithEnd(nodes) ==
    {UNION {IF choice[n] = {} THEN {"__end__"} ELSE choice[n] : n \in nodes} :
        choice \in {f \in [nodes -> SUBSET Nodes] : \A n \in nodes : f[n] \in Routes[n]}}

\* The frontiers the edges of these nodes may name: a conditional edge decides
\* by the state, which is more than is kept of it here.
Frontiers(nodes) ==
    {UNION {choice[n] : n \in nodes} :
        choice \in {f \in [nodes -> SUBSET Nodes] : \A n \in nodes : f[n] \in Routes[n]}}

\* The next frontier.  A run that was aborted ends here, and so does one whose
\* edge names no node.
Route(c) ==
    \E frontier \in Frontiers(run[c].frontier), to \in {"head", "idle"} :
        /\ Goto(c, "route", to)
        /\ run' = IF to = "idle" THEN Left(c)
                  ELSE [run EXCEPT ![c].step = @ + 1, ![c].frontier = frontier]
        /\ UNCHANGED <<history, failFast, open, want, view, after, resumed, tangled, runs, crashes>>

\* A process dies; what runs next on its thread is another call.
Crash(c) ==
    /\ crashes < MaxCrashes
    /\ crashes' = crashes + 1
    /\ pc[c] # "idle"
    /\ pc' = [pc EXCEPT ![c] = "idle"]
    /\ run' = Left(c)
    /\ view' = [view EXCEPT ![c] = {}]
    /\ want' = [want EXCEPT ![c] = Newest]
    /\ after' = [after EXCEPT ![c] = "idle"]
    /\ UNCHANGED <<history, failFast, open, resumed, tangled, runs>>

Proceed(c) ==
    \/ Load(c) \/ Complete(c) \/ Limited(c) \/ Pause(c) \/ Superstep(c)
    \/ Get(c) \/ Put(c) \/ Route(c)

Ids == {Newest} \cup {k.step : k \in history}

Next ==
    \E c \in Callers :
        \/ \E id \in Ids : Invoke(c, id) \/ Resume(c, id)
        \/ Load(c) \/ Complete(c) \/ Limited(c) \/ Pause(c) \/ Superstep(c) \/ Get(c) \/ Put(c)
        \/ Route(c) \/ Crash(c)

Spec == Init /\ [][Next]_vars

\* A run goes on, its nodes and its checkpointer being what answers in the end;
\* nothing makes anybody call.
FairSpec == Spec /\ \A c \in Callers : WF_vars(Proceed(c))
-----------------------------------------------------------------------------
\* A gated node runs, in any run or history, only on a thread that a human has
\* resumed (AgentGraph.ts:60), whatever died and whoever runs at once.
GateWaitsForResume ==
    \A k \in history \cup {run[c] : c \in Callers} : ToSet(k.path) \cap Gates # {} => resumed

Gateless(k) == ToSet(k.path) \cap Gates = {}

\* Until a resume every graph has its gates, and no gated node has run: not in
\* the history, not in what a save has read of it, not in a run.
NothingPassed ==
    ~resumed =>
        /\ \A k \in history : Gateless(k)
        /\ \A c \in Callers : ~open[c] /\ Gateless(run[c]) /\ \A k \in view[c] : Gateless(k)

HistoriesAreFinite == IsFiniteSet(history) /\ \A c \in Callers : IsFiniteSet(view[c])

\* What an induction needs besides the types.
IInv == TypeOK /\ NothingPassed /\ HistoriesAreFinite

\* Later checkpoints extend earlier ones (checkpoint.ts:30-31).
HistoryIsALine ==
    ~tangled => \A j, k \in history :
        j.step < k.step => IsPrefix(j.path, k.path) /\ IsPrefix(j.state, k.state)

\* Neither a crash nor a call loses what the thread's newest checkpoint holds,
\* human edits included.
ProgressIsKept ==
    [][history # {} /\ ~tangled' =>
          /\ history' # {}
          /\ Latest(history).step <= Latest(history').step
          /\ IsPrefix(Latest(history).state, Latest(history').state)]_vars

\* What was merged between two consecutive checkpoints.
Gained(j, k) == SubSeq(k.path, Len(j.path) + 1, Len(k.path))

\* A superstep merges each of its nodes once and in name order (types.ts:25-27),
\* and a resumed one runs what the checkpoint queued.
SuperstepsFollow ==
    ~tangled => \A j, k \in history :
        k.step = j.step + 1 =>
            LET new == Gained(j, k)
            IN  /\ Sorted(new)
                /\ j.frontier # {} => ToSet(new) \subseteq j.frontier

\* Every call ends: cyclic graphs stop at the recursion limit (AgentGraph.ts:55-57).
EveryRunEnds == \A c \in Callers : pc[c] # "idle" ~> pc[c] = "idle"

\* 'complete' means that every branch reached END (types.ts:83): the last node
\* that was merged is one with an edge to it.
CompleteMeansDone ==
    [][\A c \in Callers : Complete(c) /\ failFast => {} \in Routes[Last(run[c].path)]]_vars
-----------------------------------------------------------------------------
(* What a run knows of the newest checkpoint, as long as nothing is tangled. *)

Tops(m) == m \in history /\ \A j \in history : j.step <= m.step

\* A run that m was taken up for, or that saved m: still at m ...
IsAt(r, m) ==
    /\ r.step = m.step /\ r.path = m.path /\ r.state = m.state
    /\ m.frontier # {} => r.frontier = m.frontier

\* ... edited by a human, who has the run of it to himself ...
IsEdited(r, m) ==
    r.step = m.step /\ r.path = m.path /\ IsPrefix(m.state, r.state)

\* ... or a superstep further, which is not saved yet.
IsBeyond(r, m) ==
    /\ r.step = m.step /\ IsPrefix(m.path, r.path) /\ IsPrefix(m.state, r.state)
    /\ Sorted(Gained(m, r))
    /\ m.frontier # {} => ToSet(Gained(m, r)) \subseteq m.frontier

Continuing(c) ==
    /\ pc[c] = "load" /\ want[c] # Newest => \E m \in history : Tops(m) /\ want[c] = m.step
    /\ pc[c] = "head" => \A m \in history : Tops(m) => IsAt(run[c], m)
    /\ pc[c] \in {"get", "put"} =>
          \/ after[c] = "idle" /\ \A m \in history : Tops(m) => IsAt(run[c], m)
          \/ /\ after[c] = "load"
             /\ \A m \in history : Tops(m) => IsEdited(run[c], m) /\ want[c] = m.step
             /\ want[c] = run[c].step
          \/ after[c] = "route" /\ \A m \in history : Tops(m) => IsBeyond(run[c], m)
    /\ pc[c] = "put" => view[c] = history
    /\ pc[c] = "route" => \E m \in history :
          /\ Tops(m) /\ m.step = run[c].step + 1 /\ m.frontier = {}
          /\ m.path = run[c].path /\ m.state = run[c].state

IsALine(checkpoints) ==
    \A j, k \in checkpoints :
        /\ j.step = k.step => j = k
        /\ j.step < k.step => IsPrefix(j.path, k.path) /\ IsPrefix(j.state, k.state)
        /\ k.step = j.step + 1 =>
              /\ Sorted(Gained(j, k))
              /\ j.frontier # {} => ToSet(Gained(j, k)) \subseteq j.frontier

LineInv ==
    /\ IInv
    /\ ~tangled =>
          /\ IsALine(history)
          /\ \A c, d \in Callers : pc[c] # "idle" /\ pc[d] # "idle" => c = d
          /\ \A c \in Callers : Continuing(c)
=============================================================================
