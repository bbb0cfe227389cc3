----------------------------- MODULE MCServices -----------------------------
(* Six components that share no state: the memory server, the ingestion       *)
(* pipeline, the in-memory vector store, cognition, the knowledge store and   *)
(* the limiter of model calls. One of them moves in a behaviour.              *)
EXTENDS MemoryServer, Ingestion, MemoryVectorStore, Cognition,
        SnapshotStore, ModelLimiter, TLC

VARIABLE part

MCInit ==
  /\ ServerInit /\ IngestInit /\ VectorInit /\ CognitionInit /\ SnapInit /\ LimiterInit
  /\ part \in {"server", "ingest", "vectors", "cognition", "knowledge", "limiter"}
  /\ part = "server" \/ snap = Nothing
  /\ part = "ingest" \/ (strategy = "diff" /\ \A s \in Sources : manifest[s] = <<>>)
  /\ part = "knowledge" \/ logged

\* Of the server's calls, edits and deaths at most three in one behaviour, or
\* four with two calls, of which two may be edits when they are about one key;
\* of the ingests and their failures four.
OnOneKey == \E k \in Keys : /\ mem'[k] = None /\ snap'[k] = None
                            /\ \A c \in Calls : call'[c].key # k
ServerBound == \/ started' + edits' + deaths' <= 3
               \/ /\ started' + edits' + deaths' <= 4 /\ started' <= 2
                  /\ edits' <= 1 \/ OnOneKey
IngestBound == ingests' + failures' <= 4

\* The limiter's calls are alike: they ask in the order of their numbers.
InTurn == \A q, r \in Requests : q < r /\ request'[r] # "new" => request'[q] # "new"

MCNext ==
  /\ UNCHANGED part
  /\ \/ /\ part = "server" /\ ServerNext /\ ServerBound
        /\ UNCHANGED <<ingestVars, vectorVars, cognitionVars, snapVars, limiterVars>>
     \/ /\ part = "ingest" /\ IngestNext /\ IngestBound
        /\ UNCHANGED <<serverVars, vectorVars, cognitionVars, snapVars, limiterVars>>
     \/ /\ part = "vectors" /\ VectorNext
        /\ UNCHANGED <<serverVars, ingestVars, cognitionVars, snapVars, limiterVars>>
     \/ /\ part = "cognition" /\ CognitionNext
        /\ UNCHANGED <<serverVars, ingestVars, vectorVars, snapVars, limiterVars>>
     \/ /\ part = "knowledge" /\ SnapNext
        /\ UNCHANGED <<serverVars, ingestVars, vectorVars, cognitionVars, limiterVars>>
     \/ /\ part = "limiter" /\ LimiterNext /\ InTurn
        /\ UNCHANGED <<serverVars, ingestVars, vectorVars, cognitionVars, snapVars>>

MCVars ==
  <<part, serverVars, ingestVars, vectorVars, cognitionVars, snapVars, limiterVars>>

MCSpec == MCInit /\ [][MCNext]_MCVars

ServicesTypeOK ==
  /\ ServerTypeOK /\ IngestTypeOK /\ VectorTypeOK
  /\ CognitionTypeOK /\ SnapTypeOK /\ LimiterTypeOK

\* Slots, committers and callers have the names of calls, chunk hashes and
\* instances of cognition those of keys: few permutations serve them all.
Alike == Permutations(Keys) \union Permutations(Calls)
=============================================================================
