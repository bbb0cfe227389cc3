------------------------- MODULE MemoryVectorStore -------------------------
(* vectorstore/MemoryVectorStore.ts: records, and above a threshold a graph   *)
(* over their vectors that is extended by upserts and never changed: an       *)
(* outdated node is tombstoned, and the graph is dropped once tombstones pass *)
(* a share of it. No method awaits: each is one step, an upsert one per       *)
(* record. The graph's search is taken to find every node.                    *)
EXTENDS Naturals, FiniteSets

CONSTANTS Ids, Vectors, Absent, Bare, AnnThreshold,
          RatioOver, RatioUnder   \* the rebuild ratio, RatioOver / RatioUnder

ASSUME VectorAssumption ==
  /\ Absent \notin Vectors /\ Bare \notin Vectors /\ Absent # Bare
  /\ AnnThreshold \in Nat \ {0} /\ RatioOver \in Nat /\ RatioUnder \in Nat \ {0}

VARIABLES
  records,   \* the vector of each record; Bare for a record without one
  built,     \* is there a graph
  graph,     \* the vector of each node of the graph
  tombs,     \* the tombstones
  lapsed     \* history: the records whose node outlived their vector

vectorVars == <<records, built, graph, tombs, lapsed>>

NoGraph == [i \in Ids |-> Absent]

VectorTypeOK ==
  /\ records \in [Ids -> Vectors \union {Absent, Bare}]
  /\ built \in BOOLEAN /\ graph \in [Ids -> Vectors \union {Absent}]
  /\ tombs \subseteq Ids /\ lapsed \subseteq Ids

VectorInit == /\ records = NoGraph /\ graph = NoGraph
              /\ built = FALSE /\ tombs = {} /\ lapsed = {}

Embedded == {i \in Ids : records[i] \in Vectors}
Nodes == {i \in Ids : graph[i] # Absent}

\* _maybeRebuild, on the tombstones a call has come to.
MaybeRebuild(dead, gone) ==
  IF built /\ Nodes # {} /\ Cardinality(dead) * RatioUnder >= RatioOver * Cardinality(Nodes)
    THEN built' = FALSE /\ graph' = NoGraph /\ tombs' = {} /\ lapsed' = {}
    ELSE tombs' = dead /\ lapsed' = gone /\ UNCHANGED <<built, graph>>

\* Mutant of UpsertRecord: an old node is left as it is.
UpsertKeepsNode(i, v) ==
  /\ records' = [records EXCEPT ![i] = v]
  /\ graph' = IF built /\ graph[i] = Absent /\ v # Bare THEN [graph EXCEPT ![i] = v] ELSE graph
  /\ UNCHANGED <<built, tombs, lapsed>>

\* One record of an upsert.
UpsertRecord(i, v) ==
  /\ records' = [records EXCEPT ![i] = v]
  /\ \/ /\ v = Bare
        /\ lapsed' = IF i \in Nodes \ tombs THEN lapsed \union {i} ELSE lapsed
        /\ UNCHANGED <<built, graph, tombs>>
     \/ /\ v # Bare /\ i \in Embedded \intersect Nodes
        /\ MaybeRebuild(tombs \union {i}, lapsed)
     \/ /\ v # Bare /\ i \notin Embedded \intersect Nodes
        /\ IF built /\ i \notin Nodes
             THEN graph' = [graph EXCEPT ![i] = v] /\ tombs' = tombs \ {i}
             ELSE UNCHANGED <<graph, tombs>>
        /\ UNCHANGED <<built, lapsed>>

\* delete, and deleteByFilter with what matched its filter.
Delete(some) ==
  /\ LET held == {i \in some : records[i] # Absent}
     IN /\ records' = [i \in Ids |-> IF i \in held THEN Absent ELSE records[i]]
        /\ MaybeRebuild(tombs \union (held \intersect Nodes), lapsed \ held)

\* A search that uses the graph, and builds it when there is none.
DenseSearch ==
  /\ Cardinality(Embedded) >= AnnThreshold /\ ~built
  /\ built' = TRUE /\ tombs' = {} /\ lapsed' = {}
  /\ graph' = [i \in Ids |-> IF i \in Embedded THEN records[i] ELSE Absent]
  /\ UNCHANGED records

VectorNext ==
  \/ \E i \in Ids : \E v \in Vectors \union {Bare} : UpsertRecord(i, v)
  \/ \E some \in SUBSET Ids : Delete(some)
  \/ DenseSearch

VectorSpec == VectorInit /\ [][VectorNext]_vectorVars

-----------------------------------------------------------------------------
(* Properties.                                                                *)

\* What a dense search over the graph scores: the nodes without a tombstone
\* whose record is still there.
Found == {i \in Nodes \ tombs : records[i] # Absent}

\* "Search cannot return the stale neighbour" (MemoryVectorStore.ts:88-89): a
\* search scores a record by the vector it has now, but for records that were
\* written without one. And of the records with a vector it misses fewer than
\* the rebuild share of the graph, which is how many updates may stay unseen.
SearchIsCurrent ==
  built => /\ \A i \in Found \ lapsed : graph[i] = records[i]
           /\ \/ Embedded \subseteq Found
              \/ Cardinality(Embedded \ Found) * RatioUnder < RatioOver * Cardinality(Nodes)

-----------------------------------------------------------------------------
(* The inductive invariant.                                                   *)

\* Nothing outlives a dropped graph.
DroppedIsEmpty == ~built => Nodes = {} /\ tombs = {}

\* A node without a tombstone has a record, and what has a vector has a node.
NodesStand ==
  built => /\ Embedded \subseteq Nodes /\ tombs \subseteq Nodes
           /\ \A i \in Nodes \ tombs : records[i] # Absent /\ (i \notin lapsed => graph[i] = records[i])

\* The share of tombstones at which the graph is dropped is not reached.
TombsAreFew == tombs = {} \/ Cardinality(tombs) * RatioUnder < RatioOver * Cardinality(Nodes)

VectorInv ==
  /\ VectorTypeOK /\ DroppedIsEmpty /\ NodesStand /\ TombsAreFew
  /\ IsFiniteSet(Nodes) /\ IsFiniteSet(Embedded)
=============================================================================
