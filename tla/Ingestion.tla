----------------------------- MODULE Ingestion -----------------------------
(* ingest/IngestionPipeline.ts: sources are cut into chunks, the chunks are   *)
(* embedded and written to a vector store, and a manifest records the hashes  *)
(* of a source's chunks, so that the next run writes only what changed.       *)
(* Several documents are under way at once, of one run or of several; each    *)
(* may fail at any await, and fails alone.                                    *)
(*                                                                            *)
(* The parsers and the chunker are the choice of a content, which is the      *)
(* sequence of its chunks' hashes: a chunk is the source and its index. The   *)
(* store and the manifest are ports; an operation of the store that fails     *)
(* leaves any part of its work done.                                          *)
EXTENDS Naturals, Sequences, FiniteSets

CONSTANTS Sources, Slots, ChunkHashes, NoHash, Erased, UpsertBatch,
          MaxChunks, MaxIngests, MaxFailures   \* bounds

ASSUME IngestAssumption ==
  /\ UpsertBatch \in Nat \ {0}
  /\ MaxChunks \in Nat /\ MaxIngests \in Nat /\ MaxFailures \in Nat
  /\ NoHash \notin ChunkHashes \union Sources

Documents == UNION {[1..n -> ChunkHashes] : n \in 0..MaxChunks}
Indices == 1..MaxChunks

ASSUME ErasedAssumption == Erased \notin Documents

VARIABLES
  strategy,  \* "diff", "replace" or "append"
  stored,    \* the store: the hash of each stored chunk of a source
  manifest,  \* the fingerprints of each source; <<>> also stands for none
  doc,       \* what each slot works on
  odds,      \* history: what left a source in a state no manifest names
  ingests, failures

ingestVars == <<strategy, stored, manifest, doc, odds, ingests, failures>>

Spare == [source |-> NoHash, at |-> "idle", text |-> <<>>, write |-> {}, delete |-> {}, alone |-> TRUE]

IngestTypeOK ==
  /\ strategy \in {"diff", "replace", "append"}
  /\ stored \in [Sources -> [Indices -> ChunkHashes \union {NoHash}]]
  /\ manifest \in [Sources -> Documents]
  /\ doc \in [Slots -> [source : Sources \union {NoHash},
                        at : {"idle", "plan", "upsert", "delete", "record", "erase", "unlist"},
                        text : Documents \union {Erased},
                        write : SUBSET Indices, delete : SUBSET Indices, alone : BOOLEAN]]
  /\ odds \in [Sources -> SUBSET (Documents \union {Erased})]
  /\ ingests \in 0..MaxIngests /\ failures \in 0..MaxFailures

\* Earlier runs may have left a source in the store and in the manifest.
IngestInit ==
  /\ strategy \in {"diff", "replace", "append"}
  /\ manifest \in [Sources -> Documents]
  /\ stored = [s \in Sources |-> [i \in Indices |->
                 IF i \in DOMAIN manifest[s] THEN manifest[s][i] ELSE NoHash]]
  /\ doc = [w \in Slots |-> Spare]
  /\ odds = [s \in Sources |-> {}]
  /\ ingests = 0 /\ failures = 0

Working(s) == {w \in Slots : doc[w].source = s}

-----------------------------------------------------------------------------

\* A slot takes a document, or a forget. Two on one source at once leave it
\* with something of both.
Takes(w, s, text, stage) ==
  /\ doc[w].at = "idle" /\ ingests < MaxIngests
  /\ ingests' = ingests + 1
  /\ LET others == Working(s)
         own == [Spare EXCEPT !.source = s, !.at = stage, !.text = text, !.alone = others = {}]
     IN /\ doc' = [v \in Slots |-> IF v = w THEN own
                                   ELSE IF v \in others THEN [doc[v] EXCEPT !.alone = FALSE] ELSE doc[v]]
        /\ odds' = IF others = {} THEN odds
                   ELSE [odds EXCEPT ![s] = @ \union {text} \union {doc[v].text : v \in others}]
  /\ UNCHANGED <<strategy, stored, manifest, failures>>

Ingest(w, s, text) == Takes(w, s, text, "plan")
Forgets(w, s) == Takes(w, s, Erased, "erase")

\* Mutant of PlanSync: the stale chunks are counted from zero.
PlanSyncFromZero(w) ==
  /\ doc[w].at = "plan"
  /\ doc' = [doc EXCEPT ![w].at = "upsert", ![w].write = DOMAIN doc[w].text,
                        ![w].delete = {i - 1 : i \in DOMAIN manifest[doc[w].source]}]
  /\ UNCHANGED <<strategy, stored, manifest, odds, ingests, failures>>

\* _planSync: the chunks to write and the chunks to delete.
PlanSync(w) ==
  /\ doc[w].at = "plan"
  /\ LET s == doc[w].source
         text == doc[w].text
         last == IF strategy = "diff" THEN manifest[s] ELSE <<>>
         same == {i \in DOMAIN text \intersect DOMAIN last : last[i] = text[i]}
     IN /\ doc' = [doc EXCEPT ![w].at = "upsert",
                              ![w].write = DOMAIN text \ same,
                              ![w].delete = DOMAIN last \ DOMAIN text]
        /\ stored' = IF strategy = "replace" THEN [stored EXCEPT ![s] = [i \in Indices |-> NoHash]]
                     ELSE stored
  /\ UNCHANGED <<strategy, manifest, odds, ingests, failures>>

\* The next records to upsert, in the order of their indices.
NextBatch(w) == {i \in doc[w].write : Cardinality({j \in doc[w].write : j < i}) < UpsertBatch}

With(s, some, text) == [stored EXCEPT ![s] = [i \in Indices |-> IF i \in some THEN text[i] ELSE @[i]]]
Without(s, some) == [stored EXCEPT ![s] = [i \in Indices |-> IF i \in some THEN NoHash ELSE @[i]]]

\* Mutant of Upsert: the manifest is written before the chunks.
UpsertAfterManifest(w) ==
  /\ doc[w].at = "upsert"
  /\ stored' = With(doc[w].source, NextBatch(w), doc[w].text)
  /\ manifest' = [manifest EXCEPT ![doc[w].source] = doc[w].text]
  /\ doc' = [doc EXCEPT ![w].write = @ \ NextBatch(w),
                        ![w].at = IF doc[w].write = NextBatch(w) THEN "delete" ELSE "upsert"]
  /\ UNCHANGED <<strategy, odds, ingests, failures>>

\* The embeddings of the batch are there: they came before the first upsert.
Upsert(w) ==
  /\ doc[w].at = "upsert"
  /\ stored' = With(doc[w].source, NextBatch(w), doc[w].text)
  /\ doc' = [doc EXCEPT ![w].write = @ \ NextBatch(w),
                        ![w].at = IF doc[w].write = NextBatch(w) THEN "delete" ELSE "upsert"]
  /\ UNCHANGED <<strategy, manifest, odds, ingests, failures>>

DeleteStale(w) ==
  /\ doc[w].at = "delete"
  /\ stored' = Without(doc[w].source, doc[w].delete)
  /\ doc' = [doc EXCEPT ![w].at = "record"]
  /\ UNCHANGED <<strategy, manifest, odds, ingests, failures>>

\* A document that is through makes its source exact again: alone, if it wrote
\* over everything; or if all that was left undone is the same content.
Settled(w) ==
  LET s == doc[w].source
      clears == \/ doc[w].alone /\ (doc[w].text = Erased \/ strategy = "replace")
                \/ odds[s] \subseteq {doc[w].text} /\ strategy # "replace"
  IN IF clears THEN [odds EXCEPT ![s] = {}] ELSE odds

RecordManifest(w) ==
  /\ doc[w].at = "record"
  /\ manifest' = [manifest EXCEPT ![doc[w].source] = doc[w].text]
  /\ odds' = Settled(w)
  /\ doc' = [doc EXCEPT ![w] = Spare]
  /\ UNCHANGED <<strategy, stored, ingests, failures>>

\* forget: every chunk of the source, then its manifest.
Erase(w) ==
  /\ doc[w].at = "erase"
  /\ stored' = Without(doc[w].source, Indices)
  /\ doc' = [doc EXCEPT ![w].at = "unlist"]
  /\ UNCHANGED <<strategy, manifest, odds, ingests, failures>>

Unlist(w) ==
  /\ doc[w].at = "unlist"
  /\ manifest' = [manifest EXCEPT ![doc[w].source] = <<>>]
  /\ odds' = Settled(w)
  /\ doc' = [doc EXCEPT ![w] = Spare]
  /\ UNCHANGED <<strategy, stored, ingests, failures>>

\* The parser, the manifest, the embedder or the store fails the document, or
\* the process dies: part of the operation it was at is done. The source is
\* reported with its id.
Fails(w) ==
  /\ doc[w].at # "idle" /\ failures < MaxFailures
  /\ failures' = failures + 1
  /\ LET s == doc[w].source
     IN \/ /\ doc[w].at = "upsert"
           /\ \E some \in SUBSET NextBatch(w) : stored' = With(s, some, doc[w].text)
        \/ /\ doc[w].at = "delete"
           /\ \E some \in SUBSET doc[w].delete : stored' = Without(s, some)
        \/ /\ doc[w].at = "erase" \/ (doc[w].at = "plan" /\ strategy = "replace")
           /\ \E some \in SUBSET Indices : stored' = Without(s, some)
        \/ /\ doc[w].at \in {"plan", "record", "unlist"}
           /\ UNCHANGED stored
  /\ odds' = [odds EXCEPT ![doc[w].source] = @ \union {doc[w].text}]
  /\ doc' = [doc EXCEPT ![w] = Spare]
  /\ UNCHANGED <<strategy, manifest, ingests>>

IngestNext ==
  \E w \in Slots :
    \/ \E s \in Sources : Forgets(w, s) \/ \E text \in Documents : Ingest(w, s, text)
    \/ PlanSync(w) \/ Upsert(w) \/ DeleteStale(w) \/ RecordManifest(w)
    \/ Erase(w) \/ Unlist(w) \/ Fails(w)

IngestSpec == IngestInit /\ [][IngestNext]_ingestVars

-----------------------------------------------------------------------------
(* Properties.                                                                *)

\* The store holds of a source the chunks its manifest names, and no others but
\* for "append", whatever failed before: a document that failed and was requeued
\* as it was leaves nothing behind (IngestionPipeline.ts:129-130), and neither
\* does what failed before a forget or a "replace" that ran alone. After a
\* failure of one content and a success of another, or two runs over a source at
\* once, "diff" is not exact again before a forget.
IngestedIsExact ==
  \A s \in Sources : Working(s) = {} /\ odds[s] = {} =>
    \A i \in Indices :
      IF i \in DOMAIN manifest[s] THEN stored[s][i] = manifest[s][i]
      ELSE strategy = "append" \/ stored[s][i] = NoHash
-----------------------------------------------------------------------------
(* The inductive invariant.                                                   *)

\* The chunk a text has at an index; a forgotten source is the empty text.
Filled(text) == IF text = Erased THEN {} ELSE DOMAIN text
Chunk(text, i) == IF i \in Filled(text) THEN text[i] ELSE NoHash

\* "append" never takes chunks away, so only those of the text itself count.
Counted(text) == IF strategy = "append" THEN Filled(text) ELSE Indices

\* The texts under way to the store, or that failed to get there.
Tried(s) == odds[s] \union {doc[w].text : w \in Working(s)}

SlotIsSound(w) ==
  /\ doc[w].at = "idle" <=> doc[w].source = NoHash
  /\ doc[w].at \in {"plan", "upsert", "delete", "record"} => doc[w].text \in Documents
  /\ doc[w].at \in {"erase", "unlist"} => doc[w].text = Erased
  /\ doc[w].write \subseteq Filled(doc[w].text)
  /\ doc[w].delete \intersect Filled(doc[w].text) = {}
  /\ doc[w].at # "upsert" => doc[w].write = {}
  /\ strategy = "replace" => doc[w].delete = {}

\* Two texts that overlapped on a source stay on record, until it is exact.
OverlapsAreOdd(s) ==
  \A w, v \in Working(s) :
    /\ doc[w].text = doc[v].text \/ doc[w].text \in odds[s]
    /\ doc[w].alone => v = w
    /\ strategy = "replace" /\ ~doc[w].alone => odds[s] # {}

\* The store has at each index what the manifest says, or a text that was tried.
StoreIsExplained(s) ==
  strategy # "replace" \/ Tried(s) = {} =>
    \A i \in Counted(manifest[s]) :
      \E text \in {manifest[s]} \union Tried(s) : stored[s][i] = Chunk(text, i)

\* A text that is planned has replaced what the manifest says, but for what it
\* has yet to write and delete ...
PlanIsCarriedOut(w) ==
  doc[w].at \in {"upsert", "delete", "record", "unlist"} /\ strategy # "replace" =>
    \A i \in Counted(doc[w].text) :
      \/ i \in doc[w].write
      \/ doc[w].at \in {"upsert", "delete"} /\ i \in doc[w].delete
      \/ \E text \in Tried(doc[w].source) : stored[doc[w].source][i] = Chunk(text, i)

\* ... and everything else, when it is alone and wipes the source.
WipeIsComplete(w) ==
  ( /\ doc[w].at \in {"upsert", "delete", "record", "unlist"} /\ doc[w].alone
    /\ strategy = "replace" \/ doc[w].text = Erased ) =>
  \A i \in Indices \ doc[w].write : stored[doc[w].source][i] = Chunk(doc[w].text, i)

IngestInv ==
  /\ IngestTypeOK
  /\ \A w \in Slots : SlotIsSound(w) /\ PlanIsCarriedOut(w) /\ WipeIsComplete(w)
  /\ \A s \in Sources : OverlapsAreOdd(s) /\ StoreIsExplained(s)
=============================================================================
