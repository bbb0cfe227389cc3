----------------------------- MODULE Cognition -----------------------------
(* cognition/EvermindCognition.ts: commits of one subject, decided against    *)
(* the incumbent fact and written through under the mutex of their instance,  *)
(* and recalls through a cache that is keyed by the instance's version.       *)
(* Several instances may share one fact store.                                *)
(*                                                                            *)
(* One subject stands for all: its spellings are one key, and a recall's      *)
(* result is its content. Evidence is a choice. The store is a port: it may   *)
(* fail a write before or after the fact is in (MemoryStore caps after it     *)
(* wrote).                                                                    *)
EXTENDS Naturals, Sequences

CONSTANTS Cognitions, Committers, Readers, Beliefs, NoBelief,
          MaxCommits, MaxRecalls   \* bounds

ASSUME CognitionAssumption ==
  MaxCommits \in Nat /\ MaxRecalls \in Nat /\ NoBelief \notin Beliefs

VARIABLES
  belief,    \* the subject's fact in the store
  version,   \* of each instance
  recallCache,     \* of each instance: what it found under which version
  mutex,     \* of each instance: the commits chained on its lock
  commit,    \* each committer's commit
  reader,    \* each reader's recall
  strayed,   \* history: the instances that missed a write since their last bump
  commits, recalls

cognitionVars == <<belief, version, recallCache, mutex, commit, reader, strayed, commits, recalls>>

Said == Beliefs \union {NoBelief}
Commits == [at : {"idle", "queued", "gather", "write", "bump"},
            claim : Said, incumbent : Said, strict : BOOLEAN, meddled : BOOLEAN]
Recalls == [at : {"idle", "search", "fill"}, version : Nat, got : Said]
NoCommit == [at |-> "idle", claim |-> NoBelief, incumbent |-> NoBelief, strict |-> FALSE, meddled |-> FALSE]
NoRecall == [at |-> "idle", version |-> 0, got |-> NoBelief]

CognitionTypeOK ==
  /\ belief \in Said
  /\ version \in [Cognitions -> Nat]
  /\ recallCache \in [Cognitions -> SUBSET (Nat \X Said)]
  /\ mutex \in [Cognitions -> Seq(Committers)]
  /\ commit \in [Committers -> Commits]
  /\ reader \in [Cognitions \X Readers -> Recalls]
  /\ strayed \subseteq Cognitions
  /\ commits \in 0..MaxCommits /\ recalls \in 0..MaxRecalls

CognitionInit ==
  /\ belief = NoBelief
  /\ version = [g \in Cognitions |-> 0]
  /\ recallCache = [g \in Cognitions |-> {}]
  /\ mutex = [g \in Cognitions |-> <<>>]
  /\ commit = [c \in Committers |-> NoCommit]
  /\ reader = [r \in Cognitions \X Readers |-> NoRecall]
  /\ strayed = {} /\ commits = 0 /\ recalls = 0

Chained(g) == {mutex[g][i] : i \in DOMAIN mutex[g]}
Others(g) == Cognitions \ {g}

-----------------------------------------------------------------------------
(* commit.                                                                    *)

\* A claim, that may ask for evidence even where nothing is believed yet.
Commit(c, g, claim, strict) ==
  /\ commit[c].at = "idle" /\ commits < MaxCommits
  /\ commits' = commits + 1
  /\ mutex' = [mutex EXCEPT ![g] = Append(@, c)]
  /\ commit' = [commit EXCEPT ![c] = [NoCommit EXCEPT !.at = "queued", !.claim = claim, !.strict = strict]]
  /\ UNCHANGED <<belief, version, recallCache, reader, strayed, recalls>>

\* What is new is written, unless the claim is strict; what is the same is
\* confirmed; a conflict takes evidence.
ReadIncumbent(c, g) ==
  /\ mutex[g] # <<>> /\ Head(mutex[g]) = c /\ commit[c].at = "queued"
  /\ LET settled == belief = commit[c].claim \/ (belief = NoBelief /\ ~commit[c].strict)
     IN commit' = [commit EXCEPT ![c].incumbent = belief,
                                 ![c].at = IF settled THEN "write" ELSE "gather"]
  /\ UNCHANGED <<belief, version, recallCache, mutex, reader, strayed, commits, recalls>>

\* The commit is over, and the next one may go.
Ends(c, g) == /\ commit' = [commit EXCEPT ![c] = NoCommit]
              /\ mutex' = [mutex EXCEPT ![g] = Tail(@)]

\* The evidence is for the claim, or against it, or its gatherer throws; a
\* failing read or write of the store ends a commit in the same way.
Supported(c, g) ==
  /\ c \in Chained(g) /\ commit[c].at = "gather"
  /\ commit' = [commit EXCEPT ![c].at = "write"]
  /\ UNCHANGED <<belief, version, recallCache, mutex, reader, strayed, commits, recalls>>

Rejected(c, g) ==
  /\ c \in Chained(g) /\ Head(mutex[g]) = c /\ commit[c].at \in {"queued", "gather", "write"}
  /\ Ends(c, g)
  /\ UNCHANGED <<belief, version, recallCache, reader, strayed, commits, recalls>>

\* The write: no other instance hears of it, and its own does not if the store
\* fails after it.
Write(c, g) ==
  /\ c \in Chained(g) /\ commit[c].at = "write"
  /\ belief' = commit[c].claim
  /\ LET heard == [d \in Committers |->
                     IF commit[d].at \in {"gather", "write"} /\ d \notin Chained(g)
                       THEN [commit[d] EXCEPT !.meddled = TRUE] ELSE commit[d]]
     IN \/ /\ commit' = [heard EXCEPT ![c].at = "bump"]
           /\ strayed' = strayed \union Others(g)
           /\ UNCHANGED mutex
        \/ /\ commit' = [heard EXCEPT ![c] = NoCommit]
           /\ mutex' = [mutex EXCEPT ![g] = Tail(@)]
           /\ strayed' = Cognitions
  /\ UNCHANGED <<version, recallCache, reader, commits, recalls>>

\* Confirming changed nothing that a recall returns.
Bump(c, g) ==
  /\ c \in Chained(g) /\ commit[c].at = "bump"
  /\ IF commit[c].claim = commit[c].incumbent THEN UNCHANGED <<version, recallCache, strayed>>
     ELSE /\ version' = [version EXCEPT ![g] = @ + 1]
          /\ recallCache' = [recallCache EXCEPT ![g] = {}]
          /\ strayed' = strayed \ {g}
  /\ Ends(c, g)
  /\ UNCHANGED <<belief, reader, commits, recalls>>

-----------------------------------------------------------------------------
(* recallDetailed: a recall that is not cached searches the store, and caches *)
(* what it found under the version it began with.                             *)

Recall(g, r) ==
  /\ reader[<<g, r>>].at = "idle" /\ recalls < MaxRecalls
  /\ \A e \in recallCache[g] : e[1] # version[g]
  /\ recalls' = recalls + 1
  /\ reader' = [reader EXCEPT ![<<g, r>>] = [NoRecall EXCEPT !.at = "search", !.version = version[g]]]
  /\ UNCHANGED <<belief, version, recallCache, mutex, commit, strayed, commits>>

Search(g, r) ==
  /\ reader[<<g, r>>].at = "search"
  /\ reader' = [reader EXCEPT ![<<g, r>>].at = "fill", ![<<g, r>>].got = belief]
  /\ UNCHANGED <<belief, version, recallCache, mutex, commit, strayed, commits, recalls>>

SearchFails(g, r) ==
  /\ reader[<<g, r>>].at = "search"
  /\ reader' = [reader EXCEPT ![<<g, r>>] = NoRecall]
  /\ UNCHANGED <<belief, version, recallCache, mutex, commit, strayed, commits, recalls>>

Entered(entries, v, found) == {e \in entries : e[1] # v} \union {<<v, found>>}

\* Mutant of Fill: the result is cached under the version of now.
FillNow(g, r) ==
  /\ reader[<<g, r>>].at = "fill"
  /\ recallCache' = [recallCache EXCEPT ![g] = Entered(@, version[g], reader[<<g, r>>].got)]
  /\ reader' = [reader EXCEPT ![<<g, r>>] = NoRecall]
  /\ UNCHANGED <<belief, version, mutex, commit, strayed, commits, recalls>>

Fill(g, r) ==
  /\ reader[<<g, r>>].at = "fill"
  /\ recallCache' = [recallCache EXCEPT ![g] = Entered(@, reader[<<g, r>>].version, reader[<<g, r>>].got)]
  /\ reader' = [reader EXCEPT ![<<g, r>>] = NoRecall]
  /\ UNCHANGED <<belief, version, mutex, commit, strayed, commits, recalls>>

CognitionNext ==
  \E g \in Cognitions :
    \/ \E c \in Committers :
         \/ \E claim \in Beliefs, strict \in BOOLEAN : Commit(c, g, claim, strict)
         \/ ReadIncumbent(c, g) \/ Supported(c, g) \/ Rejected(c, g) \/ Write(c, g) \/ Bump(c, g)
    \/ \E r \in Readers : Recall(g, r) \/ Search(g, r) \/ SearchFails(g, r) \/ Fill(g, r)

CognitionSpec == CognitionInit /\ [][CognitionNext]_cognitionVars

-----------------------------------------------------------------------------
(* Properties.                                                                *)

\* A commit writes over the fact it was decided against, but for writes of
\* other instances since.
DecidedAgainst(c) ==
  commit[c].at \in {"gather", "write"} /\ ~commit[c].meddled => commit[c].incumbent = belief

\* What an instance's recalls are served from its cache is what the store holds,
\* but while a write of its own has not bumped the version yet, and after writes
\* it could not learn of.
Served(g) ==
  \/ \A e \in recallCache[g] : e[1] = version[g] => e[2] = belief
  \/ g \in strayed \/ (\E c \in Chained(g) : commit[c].at = "bump")

\* "The reconcile, write, bump, cache sequence is atomic against concurrent
\* callers" of an instance (EvermindCognition.ts:15-16): commits of a subject do
\* not write over each other unseen, and a slow recall does not bring back what
\* was superseded while it ran.
CommitIsAtomic ==
  /\ \A c \in Committers : DecidedAgainst(c)
  /\ \A g \in Cognitions : Served(g)

-----------------------------------------------------------------------------
(* The inductive invariant.                                                   *)

Past == {"gather", "write", "bump"}

\* A commit that is under way is chained once, on one instance, and only the
\* first of a chain has come past its start.
Chains ==
  /\ \A g \in Cognitions : \A i, j \in DOMAIN mutex[g] : mutex[g][i] = mutex[g][j] => i = j
  /\ \A g, h \in Cognitions : \A c \in Chained(g) \intersect Chained(h) : g = h
  /\ \A g \in Cognitions : \A c \in Chained(g) :
       /\ commit[c].at # "idle"
       /\ commit[c].at \in Past => c = Head(mutex[g])
       /\ commit[c].meddled => commit[c].at \in Past /\ g \in strayed
  /\ \A c \in Committers : commit[c].at # "idle" => \E g \in Cognitions : c \in Chained(g)

\* What a recall found, or has cached, under the version of now.
Current(g) ==
  \/ g \in strayed
  \/ \E c \in Chained(g) : commit[c].at = "bump" /\ commit[c].claim # commit[c].incumbent
  \/ /\ \A e \in recallCache[g] : e[1] = version[g] => e[2] = belief
     /\ \A r \in Readers : reader[<<g, r>>].at = "fill" /\ reader[<<g, r>>].version = version[g] =>
                            reader[<<g, r>>].got = belief

CognitionInv ==
  /\ CognitionTypeOK
  /\ Chains
  /\ \A c \in Committers : DecidedAgainst(c)
  /\ \A g \in Cognitions : Current(g)
  /\ \A g \in Cognitions, r \in Readers : reader[<<g, r>>].version <= version[g]
=============================================================================
