--------------------------- MODULE ServicesProofs ---------------------------
(* The components around the stores that MCServices runs, for any number of   *)
(* callers, sources, records and instances and for any bounds: commits of     *)
(* cognition are atomic, an ingested source is exact, a search of the vector  *)
(* store is current, and the limiter leaves no slot idle. The last section    *)
(* carries the types of all the parts over to the specification that runs     *)
(* them side by side.                                                         *)
EXTENDS MCServices, MemoryServerProofs, SnapshotStoreProofs,
        FiniteSetTheorems, TLAPS

-----------------------------------------------------------------------------
(* Cognition.                                                                 *)

Elems(s) == {s[i] : i \in DOMAIN s}
Once(s) == \A i, j \in DOMAIN s : s[i] = s[j] => i = j

\* A chain, with a commit put at its end, and without its first one.
LEMMA Chaining ==
  ASSUME NEW q \in Seq(Committers), NEW c \in Committers, NEW p, p = Append(q, c),
         Once(q), c \notin Elems(q)
  PROVE  /\ Once(p)
         /\ Elems(p) = Elems(q) \union {c}
         /\ q # <<>> => Head(p) = Head(q)
  BY DEF Once, Elems

LEMMA Leaving ==
  ASSUME NEW q \in Seq(Committers), q # <<>>, NEW p, p = Tail(q),
         Once(q)
  PROVE  /\ p \in Seq(Committers)
         /\ Head(q) \in Committers
         /\ Once(p)
         /\ Elems(p) = Elems(q) \ {Head(q)}
<1>1. /\ Head(q) = q[1] /\ Head(q) \in Committers
      /\ Len(q) \in Nat \ {0} /\ DOMAIN q = 1..Len(q)
      /\ p \in Seq(Committers) /\ Len(p) = Len(q) - 1 /\ DOMAIN p = 1..(Len(q) - 1)
      /\ \A i \in DOMAIN p : p[i] = q[i + 1]
  OBVIOUS
<1>2. \A i, j \in DOMAIN p : p[i] = p[j] => i = j
  BY <1>1 DEF Once
<1>3. {p[i] : i \in DOMAIN p} = {q[i] : i \in DOMAIN q} \ {Head(q)}
  <2>1. ASSUME NEW i \in DOMAIN p PROVE \E j \in DOMAIN q : j # 1 /\ q[j] = p[i]
    BY <1>1
  <2>2. ASSUME NEW j \in DOMAIN q, j # 1 PROVE (j - 1) \in DOMAIN p /\ p[j - 1] = q[j]
    <3> j \in 1..Len(q)
      BY <1>1
    <3>1. j - 1 \in 1..(Len(q) - 1) /\ (j - 1) + 1 = j
      BY <1>1, <2>2
    <3>2. QED
      BY <1>1, <3>1
  <2>3. \A j \in DOMAIN q : q[j] = q[1] => j = 1
    BY <1>1 DEF Once
  <2>4. ASSUME NEW x \in {p[i] : i \in DOMAIN p} PROVE x \in {q[i] : i \in DOMAIN q} \ {Head(q)}
    <3>1. PICK i \in DOMAIN p : x = p[i]
      OBVIOUS
    <3>2. PICK j \in DOMAIN q : j # 1 /\ q[j] = p[i]
      BY <2>1
    <3>3. QED
      BY <1>1, <2>3, <3>1, <3>2
  <2>5. ASSUME NEW x \in {q[i] : i \in DOMAIN q} \ {Head(q)} PROVE x \in {p[i] : i \in DOMAIN p}
    <3>1. PICK j \in DOMAIN q : x = q[j]
      OBVIOUS
    <3>2. j # 1
      BY <1>1, <3>1
    <3>3. QED
      BY <2>2, <3>1, <3>2
  <2>6. QED
    BY <2>4, <2>5
<1>4. QED
  BY <1>1, <1>2, <1>3 DEF Once, Elems

-----------------------------------------------------------------------------
(* Types. *)

LEMMA CognitionTypesStay == ASSUME CognitionTypeOK, CognitionNext PROVE CognitionTypeOK'
<1> USE CognitionAssumption DEF CognitionTypeOK
<1>a. NoCommit \in Commits
  BY DEF NoCommit, Said, Commits
<1>b. NoRecall \in Recalls
  BY DEF NoRecall, Said, Recalls
<1> Beliefs \subseteq Said
  BY DEF Said
<1>1. PICK g \in Cognitions :
        \/ \E c \in Committers :
             \/ \E claim \in Beliefs, strict \in BOOLEAN : Commit(c, g, claim, strict)
             \/ ReadIncumbent(c, g) \/ Supported(c, g) \/ Rejected(c, g) \/ Write(c, g) \/ Bump(c, g)
        \/ \E r \in Readers : Recall(g, r) \/ Search(g, r) \/ SearchFails(g, r) \/ Fill(g, r)
  BY DEF CognitionNext
<1>2. ASSUME NEW c \in Committers, NEW claim \in Beliefs, NEW strict \in BOOLEAN, Commit(c, g, claim, strict)
      PROVE CognitionTypeOK'
  <2>1. commit' \in [Committers -> Commits]
    BY <1>2, <1>a DEF Commit, Commits
  <2>2. mutex' \in [Cognitions -> Seq(Committers)] /\ commits' \in 0..MaxCommits
    BY <1>2 DEF Commit
  <2>3. QED
    BY <1>2, <2>1, <2>2 DEF Commit
<1>3. ASSUME NEW c \in Committers, ReadIncumbent(c, g) PROVE CognitionTypeOK'
  <2>1. \A k \in Committers : commit[k] \in Commits
    OBVIOUS
  <2>2. PICK at \in {"write", "gather"} :
          commit' = [commit EXCEPT ![c].incumbent = belief, ![c].at = at]
    BY <1>3 DEF ReadIncumbent
  <2>3. commit' \in [Committers -> Commits]
    BY <2>1, <2>2 DEF Commits
  <2>4. QED
    BY <1>3, <2>3 DEF ReadIncumbent
<1>4. ASSUME NEW c \in Committers, Supported(c, g) PROVE CognitionTypeOK'
  BY <1>4 DEF Supported, Commits
<1>5. ASSUME NEW c \in Committers, c \in Chained(g) PROVE mutex[g] # <<>> /\ Tail(mutex[g]) \in Seq(Committers)
  BY <1>5 DEF Chained
<1>6. ASSUME NEW c \in Committers, Rejected(c, g) PROVE CognitionTypeOK'
  BY <1>a, <1>5, <1>6 DEF Rejected, Ends
<1>7. ASSUME NEW c \in Committers, Write(c, g) PROVE CognitionTypeOK'
  <2> DEFINE heard == [d \in Committers |->
                     IF commit[d].at \in {"gather", "write"} /\ d \notin Chained(g)
                       THEN [commit[d] EXCEPT !.meddled = TRUE] ELSE commit[d]]
  <2>2. \A d \in Committers : [commit[d] EXCEPT !.meddled = TRUE] \in Commits
    BY DEF Commits
  <2>3. heard \in [Committers -> Commits]
    BY <2>2
  <2>4. commit' = [heard EXCEPT ![c].at = "bump"] \/ commit' = [heard EXCEPT ![c] = NoCommit]
    BY <1>7 DEF Write
  <2>5. commit' \in [Committers -> Commits]
    <3> HIDE DEF heard
    <3>1. [heard[c] EXCEPT !.at = "bump"] \in Commits
      BY <2>3 DEF Commits
    <3>2. QED
      BY <1>a, <2>3, <2>4, <3>1
  <2>6. belief' \in Said /\ strayed' \subseteq Cognitions /\ mutex' \in [Cognitions -> Seq(Committers)]
    BY <1>5, <1>7 DEF Write, Others, Commits
  <2>7. QED
    BY <1>7, <2>5, <2>6 DEF Write
<1>8. ASSUME NEW c \in Committers, Bump(c, g) PROVE CognitionTypeOK'
  <2>1. /\ commit' \in [Committers -> Commits]
        /\ mutex' \in [Cognitions -> Seq(Committers)]
        /\ UNCHANGED <<belief, reader, commits, recalls>>
    BY <1>a, <1>5, <1>8 DEF Bump, Ends
  <2>2. /\ version' \in [Cognitions -> Nat]
        /\ recallCache' \in [Cognitions -> SUBSET (Nat \X Said)]
        /\ strayed' \subseteq Cognitions
    <3>1. CASE UNCHANGED <<version, recallCache, strayed>>
      BY <3>1
    <3>2. CASE /\ version' = [version EXCEPT ![g] = @ + 1]
               /\ recallCache' = [recallCache EXCEPT ![g] = {}]
               /\ strayed' = strayed \ {g}
      <4>1. {} \in SUBSET (Nat \X Said)
        OBVIOUS
      <4>2. recallCache' \in [Cognitions -> SUBSET (Nat \X Said)]
        BY <3>2, <4>1
      <4>3. version' \in [Cognitions -> Nat]
        BY <3>2
      <4>4. QED
        BY <3>2, <4>2, <4>3
    <3>3. QED
      BY <1>8, <3>1, <3>2 DEF Bump
  <2>3. QED
    BY <2>1, <2>2
<1>9. ASSUME NEW r \in Readers, Recall(g, r) PROVE CognitionTypeOK'
  <2>1. [NoRecall EXCEPT !.at = "search", !.version = version[g]] \in Recalls
    BY <1>b DEF Recalls
  <2>2. QED
    BY <1>9, <2>1 DEF Recall
<1>10. ASSUME NEW r \in Readers, Search(g, r) PROVE CognitionTypeOK'
  BY <1>10 DEF Search, Recalls
<1>11. ASSUME NEW r \in Readers, SearchFails(g, r) PROVE CognitionTypeOK'
  BY <1>11, <1>b DEF SearchFails
<1>12. ASSUME NEW r \in Readers, Fill(g, r) PROVE CognitionTypeOK'
  <2>1. reader[<<g, r>>].version \in Nat /\ reader[<<g, r>>].got \in Said
    BY DEF Recalls
  <2>2. Entered(recallCache[g], reader[<<g, r>>].version, reader[<<g, r>>].got) \in SUBSET (Nat \X Said)
    BY <2>1 DEF Entered
  <2>3. QED
    BY <1>b, <1>12, <2>2 DEF Fill
<1>13. QED
  BY <1>1, <1>2, <1>3, <1>4, <1>6, <1>7, <1>8, <1>9, <1>10, <1>11, <1>12

-----------------------------------------------------------------------------
(* The invariant. *)

LEMMA CognitionInitInv == CognitionInit => CognitionInv
  BY CognitionAssumption
  DEF CognitionInit, CognitionInv, CognitionTypeOK, Chains, DecidedAgainst, Current, Chained, Said, NoCommit, NoRecall, Commits, Recalls, Past

\* The first of the chain leaves, whatever became of its commit.
LEMMA ChainedAfterEnd ==
  ASSUME CognitionTypeOK, Chains, NEW c \in Committers, NEW g \in Cognitions,
         c \in Chained(g), Head(mutex[g]) = c, mutex' = [mutex EXCEPT ![g] = Tail(@)]
  PROVE  /\ Once(mutex'[g]) /\ Chained(g)' = Chained(g) \ {c}
         /\ \A h \in Cognitions : h # g => mutex'[h] = mutex[h] /\ Chained(h)' = Chained(h)
<1>1. /\ mutex[g] \in Seq(Committers) /\ mutex[g] # <<>>
      /\ \A i, j \in DOMAIN mutex[g] : mutex[g][i] = mutex[g][j] => i = j
  BY DEF CognitionTypeOK, Chains, Chained
<1>2. PICK q \in Seq(Committers) : q = mutex[g]
  BY <1>1
<1>3. PICK p : p = mutex'[g]
  OBVIOUS
<1>4. p = Tail(q) /\ q # <<>> /\ Head(q) = c /\ Once(q)
  BY <1>1, <1>2, <1>3 DEF CognitionTypeOK, Once
<1>5. Once(p) /\ Elems(p) = Elems(q) \ {c}
  BY <1>4, Leaving
<1>6. Elems(q) = Chained(g) /\ Elems(p) = Chained(g)'
  BY <1>2, <1>3 DEF Elems, Chained
<1>7. \A h \in Cognitions : h # g => mutex'[h] = mutex[h] /\ Chained(h)' = Chained(h)
  BY DEF CognitionTypeOK, Chained
<1>8. QED
  BY <1>3, <1>5, <1>6, <1>7

LEMMA ChainsAfterEnd ==
  ASSUME CognitionTypeOK, Chains, NEW c \in Committers, NEW g \in Cognitions,
         c \in Chained(g), Head(mutex[g]) = c, mutex' = [mutex EXCEPT ![g] = Tail(@)],
         commit'[c] = NoCommit,
         \A d \in Committers \ {c} :
           /\ commit'[d].at = commit[d].at
           /\ commit'[d].meddled => commit[d].meddled \/ (strayed' = Cognitions /\ commit[d].at \in Past),
         \A h \in Cognitions : h \in strayed /\ h # g => h \in strayed',
         \A d \in Chained(g) \ {c} : ~commit[d].meddled
  PROVE  Chains'
<1>2. Once(mutex'[g]) /\ Chained(g)' = Chained(g) \ {c}
  BY ChainedAfterEnd
<1>3. \A h \in Cognitions : h # g => mutex'[h] = mutex[h] /\ Chained(h)' = Chained(h)
  BY ChainedAfterEnd
<1>4. \A h \in Cognitions : h # g => c \notin Chained(h)
  BY DEF Chains
<1>5. \A h \in Cognitions : Chained(h) \subseteq Committers
  BY DEF CognitionTypeOK, Chained
<1>6. \A h \in Cognitions : \A i, j \in DOMAIN mutex'[h] : mutex'[h][i] = mutex'[h][j] => i = j
  BY <1>2, <1>3 DEF Chains, Once
<1>7. \A h, k \in Cognitions : \A d \in Chained(h)' \intersect Chained(k)' : h = k
  BY <1>2, <1>3 DEF Chains
<1>8. ASSUME NEW h \in Cognitions, NEW d \in Chained(h)'
      PROVE  /\ commit'[d].at # "idle"
             /\ commit'[d].at \in Past => d = Head(mutex[h])'
             /\ commit'[d].meddled => commit'[d].at \in Past /\ h \in strayed'
  <2>1. d \in Chained(h) /\ d # c /\ d \in Committers
    BY <1>2, <1>3, <1>4, <1>5
  <2>2. commit'[d].at = commit[d].at /\ commit[d].at # "idle" /\ (commit[d].at \in Past => d = Head(mutex[h]))
    BY <2>1 DEF Chains
  <2>3. CASE h = g
    BY <2>1, <2>2, <2>3
  <2>4. CASE h # g
    BY <1>3, <2>1, <2>2, <2>4 DEF Chains
  <2>5. QED
    BY <2>3, <2>4
<1>9. \A d \in Committers : commit'[d].at # "idle" => \E h \in Cognitions : d \in Chained(h)'
  <2>1. SUFFICES ASSUME NEW d \in Committers, commit'[d].at # "idle" PROVE \E h \in Cognitions : d \in Chained(h)'
    OBVIOUS
  <2>2. d # c /\ commit[d].at # "idle"
    BY <2>1 DEF NoCommit
  <2>3. PICK h \in Cognitions : d \in Chained(h)
    BY <2>2 DEF Chains
  <2>4. QED
    BY <1>2, <1>3, <2>2, <2>3
<1>10. QED
  BY <1>6, <1>7, <1>8, <1>9 DEF Chains

\* No commit enters or leaves.
LEMMA ChainsStay ==
  ASSUME CognitionTypeOK, Chains, mutex' = mutex,
         \A d \in Committers : (commit'[d].at = "idle") <=> (commit[d].at = "idle"),
         \A h \in Cognitions : \A d \in Chained(h) :
           /\ commit'[d].at \in Past => commit[d].at \in Past \/ d = Head(mutex[h])
           /\ commit'[d].meddled => commit'[d].at \in Past /\ h \in strayed'
  PROVE  Chains'
<1>1. \A h \in Cognitions : Chained(h)' = Chained(h) /\ Chained(h) \subseteq Committers
  BY DEF CognitionTypeOK, Chained
<1>2. QED
  BY <1>1 DEF Chains

\* A commit goes to the end of a chain.
LEMMA ChainsAfterCommit ==
  ASSUME CognitionTypeOK, Chains, NEW c \in Committers, NEW g \in Cognitions,
         NEW claim \in Beliefs, NEW strict \in BOOLEAN, Commit(c, g, claim, strict)
  PROVE  Chains' /\ \A h \in Cognitions : Chained(h) \subseteq Chained(h)'
<1>1. /\ mutex[g] \in Seq(Committers) /\ Once(mutex[g])
      /\ \A h \in Cognitions : c \notin Chained(h) /\ Chained(h) \subseteq Committers
  BY DEF CognitionTypeOK, Chains, Chained, Commit, Once
<1>2. commit' = [commit EXCEPT ![c] = [NoCommit EXCEPT !.at = "queued", !.claim = claim, !.strict = strict]]
  BY DEF Commit
<1>3. commit'[c].at = "queued" /\ ~commit'[c].meddled /\ \A d \in Committers : d # c => commit'[d] = commit[d]
  BY <1>2 DEF CognitionTypeOK, NoCommit
<1>4. \A h \in Cognitions : h # g => mutex'[h] = mutex[h] /\ Chained(h)' = Chained(h)
  BY DEF CognitionTypeOK, Chained, Commit
<1>5. /\ Once(mutex'[g]) /\ Chained(g)' = Chained(g) \union {c}
      /\ mutex[g] # <<>> => Head(mutex'[g]) = Head(mutex[g])
  <2>1. PICK q \in Seq(Committers) : q = mutex[g]
    BY <1>1
  <2>2. PICK p : p = mutex'[g]
    OBVIOUS
  <2>3. p = Append(q, c) /\ Once(q)
    BY <1>1, <2>1, <2>2 DEF CognitionTypeOK, Commit
  <2>4. Elems(q) = Chained(g) /\ Elems(p) = Chained(g)'
    BY <2>1, <2>2 DEF Elems, Chained
  <2>5. Once(p) /\ Elems(p) = Elems(q) \union {c} /\ (q # <<>> => Head(p) = Head(q))
    <3>1. c \notin Elems(q)
      BY <1>1, <2>4
    <3>2. QED
      BY <2>2, <2>3, <3>1, Chaining
  <2>6. QED
    BY <2>1, <2>2, <2>4, <2>5
<1>6. \A h \in Cognitions : \A i, j \in DOMAIN mutex'[h] : mutex'[h][i] = mutex'[h][j] => i = j
  BY <1>4, <1>5 DEF Chains, Once
<1>7. \A h, k \in Cognitions : \A d \in Chained(h)' \intersect Chained(k)' : h = k
  BY <1>1, <1>4, <1>5 DEF Chains
<1>8. ASSUME NEW h \in Cognitions, NEW d \in Chained(h)'
      PROVE  /\ commit'[d].at # "idle"
             /\ commit'[d].at \in Past => d = Head(mutex[h])'
             /\ commit'[d].meddled => commit'[d].at \in Past /\ h \in strayed'
  <2>1. CASE d = c
    BY <1>3, <2>1 DEF Past
  <2>2. CASE d # c
    <3>1. d \in Chained(h) /\ mutex[h] # <<>> /\ commit'[d] = commit[d]
      BY <1>1, <1>3, <1>4, <1>5, <2>2 DEF Chained
    <3>2. Head(mutex[h])' = Head(mutex[h]) /\ strayed' = strayed
      BY <1>4, <1>5, <3>1 DEF Commit
    <3>3. QED
      BY <3>1, <3>2 DEF Chains
  <2>3. QED
    BY <2>1, <2>2
<1>9. \A d \in Committers : commit'[d].at # "idle" => \E h \in Cognitions : d \in Chained(h)'
  BY <1>3, <1>4, <1>5 DEF Chains
<1>10. QED
  BY <1>4, <1>5, <1>6, <1>7, <1>8, <1>9 DEF Chains

\* What the commits of a chain know of each other.
LEMMA FirstOfChain ==
  ASSUME CognitionTypeOK, Chains, NEW g \in Cognitions, NEW c \in Chained(g), commit[c].at \in Past
  PROVE  /\ c \in Committers /\ mutex[g] # <<>> /\ Head(mutex[g]) = c
         /\ \A d \in Chained(g) : d # c => commit[d].at = "queued"
         /\ \A h \in Cognitions : h # g => c \notin Chained(h)
         /\ commit[c].meddled => g \in strayed
<1>1. Chained(g) \subseteq Committers /\ mutex[g] # <<>>
  BY DEF CognitionTypeOK, Chained
<1>2. \A d \in Chained(g) : commit[d].at \in Past => d = Head(mutex[g])
  BY DEF Chains
<1>3. \A d \in Chained(g) : commit[d].at # "idle" /\ commit[d] \in Commits
  BY <1>1 DEF Chains, CognitionTypeOK
<1>4. \A d \in Chained(g) : d # c => commit[d].at = "queued"
  BY <1>2, <1>3 DEF Commits, Past
<1>5. QED
  BY <1>1, <1>2, <1>4 DEF Chains

\* Steps that leave the facts, the chains and the caches alone.
LEMMA CurrentStays ==
  ASSUME CognitionTypeOK, CognitionInv, UNCHANGED <<belief, version, recallCache, reader, strayed>>,
         \A h \in Cognitions : \A c \in Chained(h) :
           commit[c].at = "bump" => c \in Chained(h)' /\ commit'[c] = commit[c]
  PROVE  /\ \A h \in Cognitions : Current(h)'
         /\ \A h \in Cognitions, r \in Readers : reader'[<<h, r>>].version <= version'[h]
  BY DEF CognitionInv, Current

LEMMA CognitionNextInv == ASSUME CognitionInv, CognitionNext PROVE CognitionInv'
<1> USE DEF CognitionInv
<1>t. CognitionTypeOK'
  BY CognitionTypesStay
<1>1. PICK g \in Cognitions :
        \/ \E c \in Committers :
             \/ \E claim \in Beliefs, strict \in BOOLEAN : Commit(c, g, claim, strict)
             \/ ReadIncumbent(c, g) \/ Supported(c, g) \/ Rejected(c, g) \/ Write(c, g) \/ Bump(c, g)
        \/ \E r \in Readers : Recall(g, r) \/ Search(g, r) \/ SearchFails(g, r) \/ Fill(g, r)
  BY DEF CognitionNext
<1>c. \A h \in Cognitions : Chained(h) \subseteq Committers
  BY DEF CognitionTypeOK, Chained
<1>2. ASSUME NEW c \in Committers, NEW claim \in Beliefs, NEW strict \in BOOLEAN, Commit(c, g, claim, strict)
      PROVE CognitionInv'
  <2>1. Chains'
    BY <1>2, ChainsAfterCommit
  <2>2. commit'[c].at = "queued" /\ commit[c].at = "idle" /\ \A d \in Committers : d # c => commit'[d] = commit[d]
    BY <1>2 DEF Commit, CognitionTypeOK, NoCommit
  <2>3. \A d \in Committers : DecidedAgainst(d)'
    BY <1>2, <2>2 DEF DecidedAgainst, Commit
  <2>4. \A h \in Cognitions : \A d \in Chained(h) : d \in Chained(h)'
    BY <1>2, ChainsAfterCommit
  <2>5. QED
    BY <1>t, <1>c, <1>2, <2>1, <2>2, <2>3, <2>4, CurrentStays DEF Commit
<1>3. ASSUME NEW c \in Committers, ReadIncumbent(c, g) PROVE CognitionInv'
  <2>1. /\ c \in Chained(g) /\ commit[c].at = "queued" /\ Head(mutex[g]) = c
        /\ UNCHANGED <<belief, version, recallCache, mutex, reader, strayed, commits, recalls>>
    BY <1>3 DEF ReadIncumbent, Chained, CognitionTypeOK
  <2>2. PICK at \in {"write", "gather"} : commit' = [commit EXCEPT ![c].incumbent = belief, ![c].at = at]
    BY <1>3 DEF ReadIncumbent
  <2>3. /\ commit'[c].at \in {"write", "gather"} /\ commit'[c].incumbent = belief
        /\ commit'[c].meddled = commit[c].meddled
        /\ \A d \in Committers : d # c => commit'[d] = commit[d]
    BY <2>2 DEF CognitionTypeOK, Commits
  <2>4. ~commit[c].meddled
    BY <2>1 DEF Chains, Past
  <2>5. Chains'
    BY <1>c, <2>1, <2>3, <2>4, ChainsStay DEF Chains, Past
  <2>6. \A d \in Committers : DecidedAgainst(d)'
    BY <2>1, <2>3 DEF DecidedAgainst
  <2>7. \A h \in Cognitions : Chained(h)' = Chained(h)
    BY <2>1 DEF Chained
  <2>8. QED
    BY <1>t, <1>c, <2>1, <2>3, <2>5, <2>6, <2>7, CurrentStays
<1>4. ASSUME NEW c \in Committers, Supported(c, g) PROVE CognitionInv'
  <2>1. /\ c \in Chained(g) /\ commit[c].at = "gather"
        /\ UNCHANGED <<belief, version, recallCache, mutex, reader, strayed, commits, recalls>>
    BY <1>4 DEF Supported
  <2>2. /\ commit'[c].at = "write" /\ commit'[c].incumbent = commit[c].incumbent
        /\ commit'[c].meddled = commit[c].meddled
        /\ \A d \in Committers : d # c => commit'[d] = commit[d]
    BY <1>4 DEF Supported, CognitionTypeOK, Commits
  <2>3. Chains'
    BY <1>c, <2>1, <2>2, ChainsStay DEF Chains, Past
  <2>4. \A d \in Committers : DecidedAgainst(d)'
    BY <2>1, <2>2 DEF DecidedAgainst
  <2>5. \A h \in Cognitions : Chained(h)' = Chained(h)
    BY <2>1 DEF Chained
  <2>6. QED
    BY <1>t, <1>c, <2>1, <2>2, <2>3, <2>4, <2>5, CurrentStays
<1>e. ASSUME NEW c \in Committers, c \in Chained(g), Head(mutex[g]) = c, Ends(c, g)
      PROVE  /\ commit'[c] = NoCommit /\ mutex' = [mutex EXCEPT ![g] = Tail(@)]
             /\ \A d \in Committers : d # c => commit'[d] = commit[d]
             /\ \A h \in Cognitions : \A d \in Chained(h) : d # c => d \in Chained(h)'
             /\ \A d \in Chained(g) \ {c} : ~commit[d].meddled
  <2>1. mutex' = [mutex EXCEPT ![g] = Tail(@)]
    BY <1>e DEF Ends
  <2>2. \A h \in Cognitions : \A d \in Chained(h) : d # c => d \in Chained(h)'
    BY <1>e, <2>1, ChainedAfterEnd
  <2>3. \A d \in Chained(g) \ {c} : ~commit[d].meddled
    BY <1>e DEF Chains
  <2>4. QED
    BY <1>e, <2>1, <2>2, <2>3 DEF Ends, CognitionTypeOK
<1>6. ASSUME NEW c \in Committers, Rejected(c, g) PROVE CognitionInv'
  <2>1. /\ c \in Chained(g) /\ Head(mutex[g]) = c /\ Ends(c, g)
        /\ commit[c].at # "bump"
        /\ UNCHANGED <<belief, version, recallCache, reader, strayed, commits, recalls>>
    BY <1>6 DEF Rejected
  <2>2. Chains'
    BY <1>e, <2>1, ChainsAfterEnd
  <2>3. \A d \in Committers : DecidedAgainst(d)'
    BY <1>e, <2>1 DEF DecidedAgainst, NoCommit
  <2>4. QED
    BY <1>t, <1>c, <1>e, <2>1, <2>2, <2>3, CurrentStays
<1>7. ASSUME NEW c \in Committers, Write(c, g) PROVE CognitionInv'
  <2>1. /\ c \in Chained(g) /\ commit[c].at = "write" /\ belief' = commit[c].claim
        /\ UNCHANGED <<version, recallCache, reader, commits, recalls>>
    BY <1>7 DEF Write
  <2>2. /\ mutex[g] # <<>> /\ Head(mutex[g]) = c
        /\ \A d \in Chained(g) : d # c => commit[d].at = "queued"
        /\ \A h \in Cognitions : h # g => c \notin Chained(h)
        /\ commit[c].meddled => g \in strayed
    BY <2>1, FirstOfChain DEF Past
  <2>3. PICK heard \in [Committers -> Commits] :
          /\ heard = [d \in Committers |->
                        IF commit[d].at \in {"gather", "write"} /\ d \notin Chained(g)
                          THEN [commit[d] EXCEPT !.meddled = TRUE] ELSE commit[d]]
          /\ \/ /\ commit' = [heard EXCEPT ![c].at = "bump"]
                /\ strayed' = strayed \union Others(g)
                /\ UNCHANGED mutex
             \/ /\ commit' = [heard EXCEPT ![c] = NoCommit]
                /\ mutex' = [mutex EXCEPT ![g] = Tail(@)]
                /\ strayed' = Cognitions
    <3>1. ASSUME NEW d \in Committers PROVE [commit[d] EXCEPT !.meddled = TRUE] \in Commits
      BY DEF CognitionTypeOK, Commits
    <3>2. [d \in Committers |->
             IF commit[d].at \in {"gather", "write"} /\ d \notin Chained(g)
               THEN [commit[d] EXCEPT !.meddled = TRUE] ELSE commit[d]] \in [Committers -> Commits]
      BY <3>1 DEF CognitionTypeOK
    <3>3. QED
      BY <1>7, <3>2 DEF Write
  <2>4. /\ heard[c] = commit[c]
        /\ \A d \in Committers :
             /\ heard[d].at = commit[d].at
             /\ heard[d].meddled => commit[d].meddled \/ (d \notin Chained(g) /\ commit[d].at \in {"gather", "write"})
             /\ commit[d].at \in {"gather", "write"} /\ d \notin Chained(g) => heard[d].meddled
    BY <2>1, <2>3 DEF CognitionTypeOK, Commits
  <2>5. \A d \in Committers : d # c => commit'[d] = heard[d]
    BY <2>3
  <2>6. ASSUME NEW d \in Committers, d # c PROVE DecidedAgainst(d)'
    <3>1. commit'[d].at \in {"gather", "write"} => commit'[d].meddled
      BY <2>2, <2>4, <2>5, <2>6
    <3>2. QED
      BY <3>1 DEF DecidedAgainst
  <2>7. CASE /\ commit' = [heard EXCEPT ![c].at = "bump"]
             /\ strayed' = strayed \union Others(g)
             /\ UNCHANGED mutex
    <3>1. /\ commit'[c].at = "bump" /\ commit'[c].meddled = commit[c].meddled
          /\ commit'[c].claim = commit[c].claim /\ commit'[c].incumbent = commit[c].incumbent
      BY <2>3, <2>4, <2>7 DEF Commits
    <3>2. \A d \in Committers : (commit'[d].at = "idle") <=> (commit[d].at = "idle")
      BY <2>1, <2>4, <2>5, <3>1
    <3>3. ASSUME NEW h \in Cognitions, NEW d \in Chained(h)
          PROVE  /\ commit'[d].at \in Past => commit[d].at \in Past \/ d = Head(mutex[h])
                 /\ commit'[d].meddled => commit'[d].at \in Past /\ h \in strayed'
      <4>1. CASE d = c
        <5>1. h = g
          BY <2>2, <4>1
        <5>2. QED
          BY <2>2, <2>7, <3>1, <4>1, <5>1 DEF Past
      <4>2. CASE d # c
        <5>1. d \in Committers /\ commit'[d] = heard[d]
          BY <1>c, <2>5, <4>2
        <5>2. commit[d].meddled => commit[d].at \in Past /\ h \in strayed
          BY DEF Chains
        <5>3. h = g => d \in Chained(g)
          OBVIOUS
        <5>4. QED
          BY <2>4, <2>7, <5>1, <5>2, <5>3 DEF Past, Others
      <4>3. QED
        BY <4>1, <4>2
    <3>4. Chains'
      BY <2>7, <3>2, <3>3, ChainsStay
    <3>5. DecidedAgainst(c)'
      BY <3>1 DEF DecidedAgainst
    <3>6. Chained(g)' = Chained(g)
      BY <2>7 DEF Chained
    <3>7. Current(g)'
      <4>1. CASE commit[c].claim # commit[c].incumbent
        BY <2>1, <3>1, <3>6, <4>1 DEF Current
      <4>2. CASE g \in strayed
        BY <2>7, <4>2 DEF Current
      <4>3. CASE commit[c].claim = commit[c].incumbent /\ g \notin strayed
        <5>1. belief' = belief
          BY <2>1, <2>2, <4>3 DEF DecidedAgainst
        <5>2. \A d \in Chained(g) : commit[d].at # "bump"
          BY <2>1, <2>2
        <5>3. Current(g)
          OBVIOUS
        <5>4. QED
          BY <2>1, <4>3, <5>1, <5>2, <5>3 DEF Current
      <4>4. QED
        BY <4>1, <4>2, <4>3
    <3>8. \A h \in Cognitions : h # g => Current(h)'
      BY <2>7 DEF Current, Others
    <3>9. QED
      BY <1>t, <2>1, <2>6, <3>4, <3>5, <3>7, <3>8
  <2>8. CASE /\ commit' = [heard EXCEPT ![c] = NoCommit]
             /\ mutex' = [mutex EXCEPT ![g] = Tail(@)]
             /\ strayed' = Cognitions
    <3>1. commit'[c] = NoCommit
      BY <2>3, <2>8
    <3>2. \A d \in Committers \ {c} :
             /\ commit'[d].at = commit[d].at
             /\ commit'[d].meddled => commit[d].meddled \/ (strayed' = Cognitions /\ commit[d].at \in Past)
      BY <2>4, <2>5, <2>8 DEF Past
    <3>3. \A d \in Chained(g) \ {c} : ~commit[d].meddled
      BY <2>2 DEF Chains, Past
    <3>4. Chains'
      BY <2>1, <2>2, <2>8, <3>1, <3>2, <3>3, ChainsAfterEnd
    <3>5. DecidedAgainst(c)'
      BY <3>1 DEF DecidedAgainst, NoCommit
    <3>6. \A h \in Cognitions : Current(h)'
      BY <2>8 DEF Current
    <3>7. QED
      BY <1>t, <2>1, <2>6, <3>4, <3>5, <3>6
  <2>9. QED
    BY <2>3, <2>7, <2>8
<1>8. ASSUME NEW c \in Committers, Bump(c, g) PROVE CognitionInv'
  <2>1. /\ c \in Chained(g) /\ commit[c].at = "bump" /\ Ends(c, g)
        /\ UNCHANGED <<belief, reader, commits, recalls>>
    BY <1>8 DEF Bump
  <2>2. /\ Head(mutex[g]) = c
        /\ \A d \in Chained(g) : d # c => commit[d].at = "queued"
        /\ \A h \in Cognitions : h # g => c \notin Chained(h)
    BY <2>1, FirstOfChain DEF Past
  <2>3. \/ commit[c].claim = commit[c].incumbent /\ UNCHANGED <<version, recallCache, strayed>>
        \/ /\ version' = [version EXCEPT ![g] = @ + 1]
           /\ recallCache' = [recallCache EXCEPT ![g] = {}]
           /\ strayed' = strayed \ {g}
    BY <1>8 DEF Bump
  <2>4. \A h \in Cognitions : h # g => version'[h] = version[h] /\ recallCache'[h] = recallCache[h]
    BY <2>3 DEF CognitionTypeOK
  <2>5. \A h \in Cognitions : h # g => (h \in strayed' <=> h \in strayed)
    BY <2>3
  <2>6. Chains'
    BY <1>e, <2>1, <2>2, <2>5, ChainsAfterEnd
  <2>7. \A d \in Committers : DecidedAgainst(d)'
    BY <1>e, <2>1, <2>2 DEF DecidedAgainst, NoCommit
  <2>8. ASSUME NEW h \in Cognitions, h # g PROVE Current(h)'
    <3>1. ASSUME NEW d \in Chained(h) PROVE d \in Chained(h)' /\ commit'[d] = commit[d]
      BY <1>c, <1>e, <2>1, <2>2, <2>8
    <3>2. version'[h] = version[h] /\ recallCache'[h] = recallCache[h] /\ (h \in strayed' <=> h \in strayed)
      BY <2>4, <2>5, <2>8
    <3>3. Current(h)
      OBVIOUS
    <3>4. QED
      BY <2>1, <3>1, <3>2, <3>3 DEF Current
  <2>9. Current(g)' /\ version[g] <= version'[g]
    <3>1. CASE commit[c].claim = commit[c].incumbent /\ UNCHANGED <<version, recallCache, strayed>>
      <4>1. Current(g)
        OBVIOUS
      <4>2. \A d \in Chained(g) : commit[d].at = "bump" => d = c
        BY <2>2
      <4>3. g \in strayed \/ ( /\ \A e \in recallCache[g] : e[1] = version[g] => e[2] = belief
                               /\ \A r \in Readers : reader[<<g, r>>].at = "fill" /\ reader[<<g, r>>].version = version[g] =>
                                                      reader[<<g, r>>].got = belief)
        BY <3>1, <4>1, <4>2 DEF Current
      <4>4. version[g] \in Nat
        BY DEF CognitionTypeOK
      <4>5. QED
        BY <2>1, <3>1, <4>3, <4>4 DEF Current
    <3>2. CASE /\ version' = [version EXCEPT ![g] = @ + 1]
               /\ recallCache' = [recallCache EXCEPT ![g] = {}]
               /\ strayed' = strayed \ {g}
      <4>1. version'[g] = version[g] + 1 /\ recallCache'[g] = {} /\ version[g] \in Nat
        BY <3>2 DEF CognitionTypeOK
      <4>2. \A r \in Readers : reader[<<g, r>>].version \in Nat /\ reader[<<g, r>>].version <= version[g]
        BY DEF CognitionTypeOK, Recalls
      <4>3. \A r \in Readers : reader[<<g, r>>].version # version'[g]
        BY <4>1, <4>2
      <4>4. QED
        BY <2>1, <4>1, <4>3 DEF Current
    <3>3. QED
      BY <2>3, <3>1, <3>2
  <2>10. ASSUME NEW h \in Cognitions, NEW r \in Readers PROVE reader'[<<h, r>>].version <= version'[h]
    <3>1. /\ reader[<<h, r>>].version \in Nat /\ version[h] \in Nat /\ version'[h] \in Nat
          /\ reader[<<h, r>>].version <= version[h] /\ reader'[<<h, r>>] = reader[<<h, r>>]
      BY <1>t, <2>1 DEF CognitionTypeOK, Recalls
    <3>2. version[h] <= version'[h]
      BY <2>4, <2>9, <3>1
    <3>3. QED
      BY <3>1, <3>2
  <2>11. QED
    BY <1>t, <2>6, <2>7, <2>8, <2>9, <2>10
<1>r. ASSUME UNCHANGED <<belief, version, mutex, commit, strayed>>
      PROVE  /\ Chains' /\ (\A d \in Committers : DecidedAgainst(d)')
             /\ \A h \in Cognitions : Chained(h)' = Chained(h)
  <2>1. \A h \in Cognitions : Chained(h)' = Chained(h)
    BY <1>r DEF Chained
  <2>2. \A d \in Committers : DecidedAgainst(d)'
    BY <1>r DEF DecidedAgainst
  <2>3. Chains'
    BY <1>r, <2>1 DEF Chains
  <2>4. QED
    BY <2>1, <2>2, <2>3
<1>9. ASSUME NEW r \in Readers, Recall(g, r) PROVE CognitionInv'
  <2>1. /\ reader'[<<g, r>>].at = "search" /\ reader'[<<g, r>>].version = version[g]
        /\ \A h \in Cognitions, k \in Readers : <<h, k>> # <<g, r>> => reader'[<<h, k>>] = reader[<<h, k>>]
        /\ UNCHANGED <<belief, version, recallCache, mutex, commit, strayed>>
    BY <1>9 DEF Recall, CognitionTypeOK, NoRecall
  <2>2. ASSUME NEW h \in Cognitions, NEW k \in Readers PROVE reader'[<<h, k>>].version <= version'[h]
    <3>1. version[h] \in Nat /\ version'[h] = version[h] /\ reader[<<h, k>>].version <= version[h]
      BY <2>1 DEF CognitionTypeOK
    <3>2. CASE h = g /\ k = r
      BY <2>1, <3>1, <3>2 DEF NoRecall
    <3>3. CASE h # g \/ k # r
      BY <2>1, <3>1, <3>3
    <3>4. QED
      BY <3>2, <3>3
  <2>3. \A h \in Cognitions : Current(h)'
    BY <1>r, <2>1 DEF Current
  <2>4. QED
    BY <1>t, <1>r, <2>1, <2>2, <2>3
<1>10. ASSUME NEW r \in Readers, Search(g, r) PROVE CognitionInv'
  <2>1. /\ reader'[<<g, r>>].got = belief /\ reader'[<<g, r>>].version = reader[<<g, r>>].version
        /\ \A h \in Cognitions, k \in Readers : <<h, k>> # <<g, r>> => reader'[<<h, k>>] = reader[<<h, k>>]
        /\ UNCHANGED <<belief, version, recallCache, mutex, commit, strayed>>
    BY <1>10 DEF Search, CognitionTypeOK, Recalls
  <2>2. ASSUME NEW h \in Cognitions, NEW k \in Readers PROVE reader'[<<h, k>>].version <= version'[h]
    <3>1. version[h] \in Nat /\ version'[h] = version[h] /\ reader[<<h, k>>].version <= version[h]
      BY <2>1 DEF CognitionTypeOK
    <3>2. CASE h = g /\ k = r
      BY <2>1, <3>1, <3>2 DEF NoRecall
    <3>3. CASE h # g \/ k # r
      BY <2>1, <3>1, <3>3
    <3>4. QED
      BY <3>2, <3>3
  <2>3. \A h \in Cognitions : Current(h)'
    BY <1>r, <2>1 DEF Current
  <2>4. QED
    BY <1>t, <1>r, <2>1, <2>2, <2>3
<1>11. ASSUME NEW r \in Readers, SearchFails(g, r) PROVE CognitionInv'
  <2>1. /\ reader'[<<g, r>>] = NoRecall
        /\ \A h \in Cognitions, k \in Readers : <<h, k>> # <<g, r>> => reader'[<<h, k>>] = reader[<<h, k>>]
        /\ UNCHANGED <<belief, version, recallCache, mutex, commit, strayed>>
    BY <1>11 DEF SearchFails, CognitionTypeOK
  <2>2. ASSUME NEW h \in Cognitions, NEW k \in Readers PROVE reader'[<<h, k>>].version <= version'[h]
    <3>1. version[h] \in Nat /\ version'[h] = version[h] /\ reader[<<h, k>>].version <= version[h]
      BY <2>1 DEF CognitionTypeOK
    <3>2. CASE h = g /\ k = r
      BY <2>1, <3>1, <3>2 DEF NoRecall
    <3>3. CASE h # g \/ k # r
      BY <2>1, <3>1, <3>3
    <3>4. QED
      BY <3>2, <3>3
  <2>3. \A h \in Cognitions : Current(h)'
    BY <1>r, <2>1 DEF Current, NoRecall
  <2>4. QED
    BY <1>t, <1>r, <2>1, <2>2, <2>3
<1>12. ASSUME NEW r \in Readers, Fill(g, r) PROVE CognitionInv'
  <2>1. /\ reader[<<g, r>>].at = "fill" /\ reader'[<<g, r>>] = NoRecall
        /\ \A h \in Cognitions, k \in Readers : <<h, k>> # <<g, r>> => reader'[<<h, k>>] = reader[<<h, k>>]
        /\ \A e \in recallCache'[g] : e \in recallCache[g] \/ e = <<reader[<<g, r>>].version, reader[<<g, r>>].got>>
        /\ \A h \in Cognitions : h # g => recallCache'[h] = recallCache[h]
        /\ UNCHANGED <<belief, version, mutex, commit, strayed>>
    BY <1>12 DEF Fill, CognitionTypeOK, Entered
  <2>2. ASSUME NEW h \in Cognitions, NEW k \in Readers PROVE reader'[<<h, k>>].version <= version'[h]
    <3>1. version[h] \in Nat /\ version'[h] = version[h] /\ reader[<<h, k>>].version <= version[h]
      BY <2>1 DEF CognitionTypeOK
    <3>2. CASE h = g /\ k = r
      BY <2>1, <3>1, <3>2 DEF NoRecall
    <3>3. CASE h # g \/ k # r
      BY <2>1, <3>1, <3>3
    <3>4. QED
      BY <3>2, <3>3
  <2>3. \A h \in Cognitions : Current(h)'
    BY <1>r, <2>1 DEF Current, NoRecall
  <2>4. QED
    BY <1>t, <1>r, <2>1, <2>2, <2>3
<1>13. QED
  BY <1>1, <1>2, <1>3, <1>4, <1>6, <1>7, <1>8, <1>9, <1>10, <1>11, <1>12
-----------------------------------------------------------------------------
\* Every state of the specification has the inductive invariant: the chains of
\* the mutexes are in order, and a cache says what the store holds.
THEOREM CognitionInvariance == CognitionSpec => []CognitionInv
<1>1. CognitionInit => CognitionInv
  BY CognitionInitInv
<1>2. CognitionInv /\ [CognitionNext]_cognitionVars => CognitionInv'
  <2>1. SUFFICES ASSUME CognitionInv, UNCHANGED cognitionVars PROVE CognitionInv'
    BY CognitionNextInv
  <2>2. QED
    <3>1. UNCHANGED <<belief, version, recallCache, mutex, commit, reader, strayed, commits, recalls>>
      BY <2>1 DEF cognitionVars
    <3>2. \A h \in Cognitions : Chained(h)' = Chained(h)
      BY <3>1 DEF Chained
    <3>3. CognitionTypeOK'
      BY <2>1, <3>1 DEF CognitionInv, CognitionTypeOK
    <3>4. Chains'
      BY <2>1, <3>1, <3>2 DEF CognitionInv, Chains
    <3>5. /\ \A d \in Committers : DecidedAgainst(d)'
          /\ \A h \in Cognitions : Current(h)'
          /\ \A h \in Cognitions, r \in Readers : reader'[<<h, r>>].version <= version'[h]
      BY <2>1, <3>1, <3>2 DEF CognitionInv, DecidedAgainst, Current
    <3>6. QED
      BY <3>3, <3>4, <3>5 DEF CognitionInv
<1>3. QED
  BY <1>1, <1>2, PTL DEF CognitionSpec

\* The type of the state, for any number of instances.
THEOREM CognitionTypes == CognitionSpec => []CognitionTypeOK
<1>1. CognitionInv => CognitionTypeOK
  BY DEF CognitionInv
<1>2. QED
  BY <1>1, CognitionInvariance, PTL

\* No commit of an instance writes over another unseen, and no recall that was
\* under way brings back what a commit of its instance superseded
\* (EvermindCognition.ts:15-16).
THEOREM Atomicity == CognitionSpec => []CommitIsAtomic
<1>1. CognitionInv => CommitIsAtomic
  BY DEF CognitionInv, CommitIsAtomic, Current, Served
<1>2. QED
  BY <1>1, CognitionInvariance, PTL

-----------------------------------------------------------------------------
(* Ingestion.                                                                 *)

\* The records that slots hold.
SlotRecord ==
  [source : Sources \union {NoHash},
   at : {"idle", "plan", "upsert", "delete", "record", "erase", "unlist"},
   text : Documents \union {Erased},
   write : SUBSET Indices, delete : SUBSET Indices, alone : BOOLEAN]

\* The fields of a slot, and the empty text.
LEMMA SlotTypes ==
  ASSUME IngestTypeOK, NEW w \in Slots
  PROVE  /\ doc[w].source \in Sources \union {NoHash}
         /\ doc[w].at \in {"idle", "plan", "upsert", "delete", "record", "erase", "unlist"}
         /\ doc[w].text \in Documents \union {Erased}
         /\ doc[w].write \in SUBSET Indices /\ doc[w].delete \in SUBSET Indices
         /\ doc[w].alone \in BOOLEAN
BY DEF IngestTypeOK

\* A function that is changed at one argument.
LEMMA OneChanges ==
  ASSUME NEW S, NEW D, NEW f \in [S -> D], NEW x \in S, NEW d \in D, NEW g, g = [f EXCEPT ![x] = d]
  PROVE  g \in [S -> D] /\ g[x] = d /\ \A y \in S : y # x => g[y] = f[y]
OBVIOUS

Staged(w, at, write, delete) ==
  [doc EXCEPT ![w].at = at, ![w].write = write, ![w].delete = delete]

\* A step keeps the types of the slots when it gives w a typed record.
LEMMA SlotChanges ==
  ASSUME IngestTypeOK, NEW w \in Slots, NEW at, NEW write, NEW delete,
         doc' = Staged(w, at, write, delete),
         at \in {"idle", "plan", "upsert", "delete", "record", "erase", "unlist"},
         write \subseteq Indices, delete \subseteq Indices
  PROVE  /\ doc' \in [Slots -> SlotRecord]
         /\ doc'[w].source = doc[w].source /\ doc'[w].text = doc[w].text
         /\ doc'[w].alone = doc[w].alone
         /\ doc'[w].at = at /\ doc'[w].write = write /\ doc'[w].delete = delete
         /\ \A v \in Slots : v # w => doc'[v] = doc[v]
<1> DEFINE new == [doc[w] EXCEPT !.at = at, !.write = write, !.delete = delete]
<1>1. doc \in [Slots -> SlotRecord]
  BY DEF IngestTypeOK, SlotRecord
<1>2. doc[w] \in SlotRecord
  BY <1>1
<1>3. /\ new \in SlotRecord
      /\ new.source = doc[w].source /\ new.text = doc[w].text /\ new.alone = doc[w].alone
      /\ new.at = at /\ new.write = write /\ new.delete = delete
  BY <1>2 DEF SlotRecord
<1>4. doc' = [doc EXCEPT ![w] = new]
  BY <1>1, <1>2 DEF SlotRecord, Staged
<1> HIDE DEF new
<1>5. new \in SlotRecord
  BY <1>3
<1>6. doc' \in [Slots -> SlotRecord] /\ doc'[w] = new /\ \A v \in Slots : v # w => doc'[v] = doc[v]
  BY ONLY <1>1, <1>4, <1>5, w \in Slots, OneChanges
<1>7. QED
  BY <1>3, <1>6

\* What a text has at its indices.
LEMMA Texts ==
  /\ <<>> \in Documents /\ Filled(<<>>) = {} /\ Filled(Erased) = {}
  /\ \A text \in Documents :
        /\ text # Erased /\ Filled(text) = DOMAIN text /\ DOMAIN text \subseteq Indices
        /\ \A i \in DOMAIN text : text[i] \in ChunkHashes
  /\ \A text \in Documents \union {Erased} : \A i \in Indices : Chunk(text, i) \in ChunkHashes \union {NoHash}
  /\ \A i : Chunk(<<>>, i) = NoHash /\ Chunk(Erased, i) = NoHash
<1>1. <<>> \in Documents
  <2>1. <<>> \in [1..0 -> ChunkHashes] /\ 0 \in 0..MaxChunks
    BY IngestAssumption
  <2>2. QED
    BY <2>1 DEF Documents
<1>2. \A text \in Documents :
        /\ text # Erased /\ Filled(text) = DOMAIN text /\ DOMAIN text \subseteq Indices
        /\ \A i \in DOMAIN text : text[i] \in ChunkHashes
  <2>1. SUFFICES ASSUME NEW text \in Documents
                 PROVE  /\ text # Erased /\ Filled(text) = DOMAIN text /\ DOMAIN text \subseteq Indices
                        /\ \A i \in DOMAIN text : text[i] \in ChunkHashes
    OBVIOUS
  <2>2. PICK n \in 0..MaxChunks : text \in [1..n -> ChunkHashes]
    BY DEF Documents
  <2>3. DOMAIN text \subseteq Indices
    BY <2>2, IngestAssumption DEF Indices
  <2>4. QED
    BY <2>2, <2>3, ErasedAssumption DEF Filled
<1>3. Filled(<<>>) = {} /\ Filled(Erased) = {}
  BY <1>1, <1>2 DEF Filled
<1>4. QED
  BY <1>1, <1>2, <1>3 DEF Chunk

\* What earlier runs left is exact.
LEMMA IngestInitInv == IngestInit => IngestInv
<1> SUFFICES ASSUME IngestInit PROVE IngestInv
  OBVIOUS
<1>1. IngestTypeOK
  <2>1. Spare \in [source : Sources \union {NoHash},
                   at : {"idle", "plan", "upsert", "delete", "record", "erase", "unlist"},
                   text : Documents \union {Erased},
                   write : SUBSET Indices, delete : SUBSET Indices, alone : BOOLEAN]
    BY Texts DEF Spare
  <2>2. stored \in [Sources -> [Indices -> ChunkHashes \union {NoHash}]]
    BY Texts DEF IngestInit
  <2>3. QED
    BY <2>1, <2>2, IngestAssumption DEF IngestInit, IngestTypeOK
<1>2. \A w \in Slots : doc[w] = Spare
  BY DEF IngestInit
<1>3. \A w \in Slots : SlotIsSound(w) /\ PlanIsCarriedOut(w) /\ WipeIsComplete(w)
  BY <1>2, Texts DEF Spare, SlotIsSound, PlanIsCarriedOut, WipeIsComplete
<1>4. \A s \in Sources : Working(s) = {}
  BY <1>2, IngestAssumption DEF Working, Spare
<1>5. \A s \in Sources : OverlapsAreOdd(s) /\ StoreIsExplained(s)
  <2>1. \A s \in Sources : Counted(manifest[s]) \subseteq Indices /\ manifest[s] \in Documents
    BY Texts DEF Counted, IngestInit
  <2>2. \A s \in Sources : \A i \in Indices : stored[s][i] = Chunk(manifest[s], i)
    BY <2>1, Texts DEF IngestInit, Chunk
  <2>3. QED
    BY <1>4, <2>1, <2>2 DEF OverlapsAreOdd, StoreIsExplained
<1>6. QED
  BY <1>1, <1>3, <1>5 DEF IngestInv

\* What a step at w's stage may do to the store of its source: put there chunks
\* of its own text.
LEMMA OthersStand ==
  ASSUME IngestInv, NEW w \in Slots, doc[w].at # "idle",
         strategy' = strategy, manifest' = manifest,
         \A r \in Sources : r # doc[w].source => stored'[r] = stored[r] /\ odds'[r] = odds[r],
         odds[doc[w].source] \subseteq odds'[doc[w].source],
         \A v \in Slots : v # w => doc'[v] = doc[v],
         \/ doc'[w].source = doc[w].source /\ doc'[w].text = doc[w].text /\ odds' = odds
            /\ doc'[w].alone = doc[w].alone
         \/ doc'[w].source = NoHash /\ odds' = [odds EXCEPT ![doc[w].source] = @ \union {doc[w].text}],
         strategy = "replace" \/
            \A i \in Indices : stored'[doc[w].source][i] \in {stored[doc[w].source][i], Chunk(doc[w].text, i)}
  PROVE  /\ \A r \in Sources : Tried(r)' = Tried(r) /\ OverlapsAreOdd(r)' /\ StoreIsExplained(r)'
         /\ \A v \in Slots : v # w => PlanIsCarriedOut(v)' /\ WipeIsComplete(v)' /\ SlotIsSound(v)'
<1> DEFINE s == doc[w].source
           X == doc[w].text
<1>0. IngestTypeOK /\ s \in Sources /\ X \in Documents \union {Erased} /\ w \in Working(s)
  BY SlotTypes DEF IngestInv, SlotIsSound, Working
<1>1. \A r \in Sources : Working(r)' \subseteq Working(r) /\ Working(r) \subseteq Working(r)' \union {w}
  BY <1>0, IngestAssumption DEF Working
<1>2. ASSUME NEW r \in Sources PROVE Tried(r)' = Tried(r)
  <2>1. CASE doc'[w].source = s /\ doc'[w].text = X /\ odds' = odds
    <3>1. Working(r)' = Working(r) /\ \A v \in Working(r) : doc'[v].text = doc[v].text
      BY <2>1 DEF Working
    <3>2. QED
      BY <2>1, <3>1 DEF Tried
  <2>2. CASE doc'[w].source = NoHash /\ odds' = [odds EXCEPT ![s] = @ \union {X}]
    <3>1. Working(r)' = Working(r) \ {w} /\ \A v \in Working(r) \ {w} : doc'[v] = doc[v]
      BY <2>2, <1>0, IngestAssumption DEF Working
    <3>2. CASE r = s
      <4>1. odds'[r] = odds[r] \union {X}
        BY <1>0, <2>2, <3>2 DEF IngestTypeOK
      <4>2. QED
        BY <1>0, <3>1, <3>2, <4>1 DEF Tried
    <3>3. CASE r # s
      <4>1. w \notin Working(r) /\ odds'[r] = odds[r]
        BY <3>3 DEF Working
      <4>2. QED
        BY <3>1, <4>1 DEF Tried
    <3>4. QED
      BY <3>2, <3>3
  <2>3. QED
    BY <2>1, <2>2
<1>3. ASSUME NEW r \in Sources PROVE OverlapsAreOdd(r)'
  <2>1. odds[r] \subseteq odds'[r]
    BY <1>0
  <2>2. \A v \in Working(r)' : v \in Working(r) /\ doc'[v].text = doc[v].text /\ doc'[v].alone = doc[v].alone
    BY <1>0, IngestAssumption DEF Working
  <2>3. QED
    BY <2>1, <2>2 DEF IngestInv, OverlapsAreOdd
<1>4. ASSUME NEW r \in Sources PROVE StoreIsExplained(r)'
  <2>1. Counted(manifest[r])' = Counted(manifest[r]) /\ Counted(manifest[r]) \subseteq Indices
    BY <1>0, Texts DEF Counted, IngestTypeOK
  <2>2. X \in Tried(s)
    BY <1>0 DEF Tried
  <2>3. CASE r = s
    BY <1>2, <2>1, <2>2, <2>3, <1>0 DEF IngestInv, StoreIsExplained
  <2>4. CASE r # s
    BY <1>2, <2>1, <2>4 DEF IngestInv, StoreIsExplained
  <2>5. QED
    BY <2>3, <2>4
<1>5. ASSUME NEW v \in Slots, v # w PROVE PlanIsCarriedOut(v)' /\ WipeIsComplete(v)' /\ SlotIsSound(v)'
  <2>0. doc'[v] = doc[v] /\ PlanIsCarriedOut(v) /\ WipeIsComplete(v) /\ SlotIsSound(v)
    BY <1>5 DEF IngestInv
  <2>1. SlotIsSound(v)'
    BY <2>0 DEF SlotIsSound
  <2>2. doc[v].at # "idle" => doc[v].source \in Sources
    BY <1>0, <2>0, SlotTypes DEF SlotIsSound
  <2>3. Counted(doc[v].text)' = Counted(doc[v].text) /\ Counted(doc[v].text) \subseteq Indices
    BY <1>0, <2>0, SlotTypes, Texts DEF Counted
  <2>4. X \in Tried(s)
    BY <1>0 DEF Tried
  <2>5. CASE doc[v].source = s
    <3>1. ~doc[v].alone \/ doc[v].at = "idle"
      BY <1>0, <1>5, <2>5 DEF Working, IngestInv, OverlapsAreOdd
    <3>2. WipeIsComplete(v)'
      BY <2>0, <3>1 DEF WipeIsComplete
    <3>3. PlanIsCarriedOut(v)'
      BY <1>0, <1>2, <2>0, <2>3, <2>4, <2>5 DEF PlanIsCarriedOut
    <3>4. QED
      BY <2>1, <3>2, <3>3
  <2>6. CASE doc[v].source # s
    <3>1. doc[v].at # "idle" => stored'[doc[v].source] = stored[doc[v].source]
      BY <2>2, <2>6
    <3>2. WipeIsComplete(v)'
      BY <2>0, <3>1 DEF WipeIsComplete
    <3>3. PlanIsCarriedOut(v)'
      BY <1>2, <2>0, <2>2, <2>3, <3>1 DEF PlanIsCarriedOut
    <3>4. QED
      BY <2>1, <3>2, <3>3
  <2>7. QED
    BY <2>5, <2>6
<1>6. QED
  BY <1>2, <1>3, <1>4, <1>5

\* A plan leaves out what the store is known to hold.
LEMMA PlanKeeps ==
  ASSUME IngestInv, NEW w \in Slots, PlanSync(w)
  PROVE  IngestInv'
<1> DEFINE s == doc[w].source
           X == doc[w].text
           last == IF strategy = "diff" THEN manifest[s] ELSE <<>>
           same == {i \in DOMAIN X \intersect DOMAIN last : last[i] = X[i]}
<1>0. /\ IngestTypeOK /\ SlotIsSound(w) /\ PlanIsCarriedOut(w) /\ WipeIsComplete(w)
      /\ doc[w].at = "plan" /\ s \in Sources /\ X \in Documents /\ X \in Tried(s)
      /\ manifest[s] \in Documents /\ last \in Documents
  <2>1. doc[w].at = "plan" /\ SlotIsSound(w) /\ IngestTypeOK
    BY DEF PlanSync, IngestInv
  <2>2. s \in Sources /\ X \in Documents
    BY <2>1, SlotTypes DEF SlotIsSound
  <2>3. QED
    BY <2>1, <2>2, Texts DEF IngestInv, Tried, Working, IngestTypeOK
<1>1. /\ doc' = [doc EXCEPT ![w].at = "upsert", ![w].write = DOMAIN X \ same,
                             ![w].delete = DOMAIN last \ DOMAIN X]
      /\ stored' = IF strategy = "replace" THEN [stored EXCEPT ![s] = [i \in Indices |-> NoHash]]
                   ELSE stored
      /\ UNCHANGED <<strategy, manifest, odds, ingests, failures>>
  BY DEF PlanSync
<1> HIDE DEF last
<1>2. /\ doc'[w].source = s /\ doc'[w].text = X /\ doc'[w].alone = doc[w].alone
      /\ doc'[w].at = "upsert" /\ doc'[w].write = DOMAIN X \ same
      /\ doc'[w].delete = DOMAIN last \ DOMAIN X
      /\ \A v \in Slots : v # w => doc'[v] = doc[v]
      /\ doc' \in [Slots -> SlotRecord]
  <2>1. DOMAIN X \ same \subseteq Indices /\ DOMAIN last \ DOMAIN X \subseteq Indices
    BY <1>0, Texts
  <2> DEFINE write == DOMAIN X \ same
             delete == DOMAIN last \ DOMAIN X
  <2>2. doc' = Staged(w, "upsert", write, delete)
    BY <1>1 DEF Staged
  <2> HIDE DEF write, delete
  <2>3. write \subseteq Indices /\ delete \subseteq Indices
    BY <2>1 DEF write, delete
  <2>4. /\ doc' \in [Slots -> SlotRecord]
        /\ doc'[w].source = s /\ doc'[w].text = X /\ doc'[w].alone = doc[w].alone
        /\ doc'[w].at = "upsert" /\ doc'[w].write = write /\ doc'[w].delete = delete
        /\ \A v \in Slots : v # w => doc'[v] = doc[v]
    BY ONLY <1>0, <2>2, <2>3, w \in Slots, SlotChanges
  <2>5. QED
    BY <2>4 DEF write, delete
<1>3. \A r \in Sources : r # s => stored'[r] = stored[r]
  BY <1>0, <1>1 DEF IngestTypeOK
<1>4. /\ \A r \in Sources : Tried(r)' = Tried(r) /\ OverlapsAreOdd(r)' /\ StoreIsExplained(r)'
      /\ \A v \in Slots : v # w => PlanIsCarriedOut(v)' /\ WipeIsComplete(v)' /\ SlotIsSound(v)'
  BY <1>0, <1>1, <1>2, <1>3, OthersStand
<1>5. Filled(X) = DOMAIN X /\ DOMAIN X \subseteq Indices /\ X # Erased /\ DOMAIN last \subseteq Indices
  BY <1>0, Texts
<1>6. IngestTypeOK'
  <2>1. stored' \in [Sources -> [Indices -> ChunkHashes \union {NoHash}]]
    BY <1>0, <1>1 DEF IngestTypeOK
  <2>2. QED
    BY <1>0, <1>1, <1>2, <2>1 DEF IngestTypeOK, SlotRecord
<1>7. SlotIsSound(w)'
  <2>1. strategy = "replace" => DOMAIN last = {}
    BY DEF last
  <2>2. QED
    BY <1>0, <1>1, <1>2, <1>5, <2>1 DEF SlotIsSound
<1>8. PlanIsCarriedOut(w)'
  <2>0. /\ Counted(doc[w].text)' = Counted(X) /\ Tried(doc[w].source)' = Tried(s)
        /\ strategy' = strategy /\ (strategy # "replace" => stored' = stored)
    <3> HIDE DEF same
    <3>1. Tried(doc[w].source)' = Tried(s)
      BY <1>0, <1>2, <1>4 DEF Tried, Working
    <3>2. QED
      BY <1>1, <1>2, <3>1 DEF Counted
  <2>1. SUFFICES ASSUME strategy # "replace", NEW i \in Counted(X), i \notin DOMAIN X \ same,
                        i \notin DOMAIN last \ DOMAIN X
                 PROVE  \E text \in Tried(s) : stored[s][i] = Chunk(text, i)
    <3> HIDE DEF same
    <3>1. QED
      BY <1>2, <2>0 DEF PlanIsCarriedOut
  <2>2. CASE strategy = "append"
    BY <1>5, <2>1, <2>2 DEF Counted, last
  <2>3. CASE strategy = "diff"
    <3>1. last = manifest[s] /\ i \in Indices
      BY <2>1, <2>3 DEF last, Counted
    <3>2. Chunk(last, i) = Chunk(X, i)
      <4>1. Filled(last) = DOMAIN last
        BY <1>0, Texts
      <4>2. QED
        BY <1>5, <2>1, <4>1 DEF Chunk
    <3>3. \E text \in {manifest[s]} \union Tried(s) : stored[s][i] = Chunk(text, i)
      BY <1>0, <2>3, <3>1 DEF IngestInv, StoreIsExplained, Counted
    <3>4. QED
      BY <1>0, <3>1, <3>2, <3>3
  <2>4. QED
    BY <1>0, <2>1, <2>2, <2>3 DEF IngestTypeOK
<1>9. WipeIsComplete(w)'
  <2>1. SUFFICES ASSUME strategy = "replace", NEW i \in Indices, i \notin DOMAIN X \ same
                 PROVE  stored'[s][i] = Chunk(X, i)
    <3> HIDE DEF same
    <3>1. QED
      BY <1>1, <1>2, <1>5 DEF WipeIsComplete
  <2>2. stored'[s][i] = NoHash
    BY <1>0, <1>1, <2>1 DEF IngestTypeOK
  <2>3. i \notin DOMAIN X
    BY <2>1 DEF last
  <2>4. QED
    BY <1>5, <2>2, <2>3 DEF Chunk
<1>10. QED
  BY <1>4, <1>6, <1>7, <1>8, <1>9 DEF IngestInv

\* A batch puts chunks of the text into the store.
LEMMA UpsertKeeps ==
  ASSUME IngestInv, NEW w \in Slots, Upsert(w)
  PROVE  IngestInv'
<1> DEFINE s == doc[w].source
           X == doc[w].text
           batch == NextBatch(w)
<1>0. /\ IngestTypeOK /\ SlotIsSound(w) /\ PlanIsCarriedOut(w) /\ WipeIsComplete(w)
      /\ doc[w].at = "upsert" /\ s \in Sources /\ X \in Documents /\ X \in Tried(s)
  <2>1. doc[w].at = "upsert" /\ SlotIsSound(w) /\ IngestTypeOK
    BY DEF Upsert, IngestInv
  <2>2. s \in Sources /\ X \in Documents
    BY <2>1, SlotTypes DEF SlotIsSound
  <2>3. QED
    BY <2>1, <2>2 DEF IngestInv, Tried, Working
<1>1. batch \subseteq doc[w].write /\ doc[w].write \subseteq DOMAIN X /\ DOMAIN X \subseteq Indices
  BY <1>0, Texts DEF NextBatch, SlotIsSound
<1>2. /\ doc' = [doc EXCEPT ![w].write = @ \ batch,
                             ![w].at = IF doc[w].write = batch THEN "delete" ELSE "upsert"]
      /\ stored' = [stored EXCEPT ![s] = [i \in Indices |-> IF i \in batch THEN X[i] ELSE @[i]]]
      /\ UNCHANGED <<strategy, manifest, odds, ingests, failures>>
  BY DEF Upsert, With
<1> HIDE DEF batch
<1>3. /\ doc'[w].source = s /\ doc'[w].text = X /\ doc'[w].alone = doc[w].alone
      /\ doc'[w].at \in {"upsert", "delete"} /\ doc'[w].write = doc[w].write \ batch
      /\ doc'[w].at = "delete" => doc'[w].write = {}
      /\ doc'[w].delete = doc[w].delete
      /\ \A v \in Slots : v # w => doc'[v] = doc[v]
      /\ doc' \in [Slots -> SlotRecord]
  <2> DEFINE at == IF doc[w].write = batch THEN "delete" ELSE "upsert"
             write == doc[w].write \ batch
             delete == doc[w].delete
  <2>1. doc' = Staged(w, at, write, delete)
    <3>1. doc \in [Slots -> SlotRecord]
      BY <1>0 DEF IngestTypeOK, SlotRecord
    <3>2. QED
      BY <1>2, <3>1 DEF SlotRecord, Staged
  <2>2. write \subseteq Indices /\ delete \subseteq Indices /\ at \in {"upsert", "delete"}
    BY <1>0, <1>1, SlotTypes
  <2> HIDE DEF at, write, delete
  <2>3. /\ doc' \in [Slots -> SlotRecord]
        /\ doc'[w].source = s /\ doc'[w].text = X /\ doc'[w].alone = doc[w].alone
        /\ doc'[w].at = at /\ doc'[w].write = write /\ doc'[w].delete = delete
        /\ \A v \in Slots : v # w => doc'[v] = doc[v]
    BY ONLY <1>0, <2>1, <2>2, w \in Slots, SlotChanges
  <2>4. QED
    BY <1>1, <2>2, <2>3 DEF at, write, delete
<1>4. /\ \A r \in Sources : r # s => stored'[r] = stored[r]
      /\ \A i \in Indices : stored'[s][i] = IF i \in batch THEN X[i] ELSE stored[s][i]
      /\ \A i \in batch : X[i] = Chunk(X, i) /\ X[i] \in ChunkHashes
  BY <1>0, <1>1, <1>2, Texts DEF IngestTypeOK, Chunk
<1>5. /\ \A r \in Sources : Tried(r)' = Tried(r) /\ OverlapsAreOdd(r)' /\ StoreIsExplained(r)'
      /\ \A v \in Slots : v # w => PlanIsCarriedOut(v)' /\ WipeIsComplete(v)' /\ SlotIsSound(v)'
  <2>1. doc[w].at # "idle"
    BY <1>0
  <2>2. \A i \in Indices : stored'[s][i] \in {stored[s][i], Chunk(X, i)}
    BY <1>4
  <2>3. strategy' = strategy /\ manifest' = manifest /\ odds' = odds
    BY <1>2
  <2>4. QED
    BY ONLY IngestInv, w \in Slots, <1>3, <1>4, <2>1, <2>2, <2>3, OthersStand
<1>6. IngestTypeOK'
  <2>1. stored' \in [Sources -> [Indices -> ChunkHashes \union {NoHash}]]
    BY <1>0, <1>2, <1>4 DEF IngestTypeOK
  <2>2. QED
    BY <1>0, <1>2, <1>3, <2>1 DEF IngestTypeOK, SlotRecord
<1>7. SlotIsSound(w)'
  BY <1>0, <1>2, <1>3 DEF SlotIsSound
<1>8. PlanIsCarriedOut(w)'
  <2>0. Counted(doc[w].text)' = Counted(X) /\ Tried(doc[w].source)' = Tried(s)
    BY <1>0, <1>2, <1>3, <1>5 DEF Counted, Tried, Working
  <2>1. SUFFICES ASSUME strategy # "replace", NEW i \in Counted(X), i \notin doc[w].write \ batch,
                        i \notin doc[w].delete
                 PROVE  \E text \in Tried(s) : stored'[s][i] = Chunk(text, i)
    BY <1>2, <1>3, <2>0 DEF PlanIsCarriedOut
  <2>2. i \in Indices
    BY <1>0, Texts DEF Counted
  <2>3. CASE i \in batch
    BY <1>0, <1>4, <2>2, <2>3
  <2>4. CASE i \notin batch
    BY <1>0, <1>4, <2>1, <2>2, <2>4 DEF PlanIsCarriedOut
  <2>5. QED
    BY <2>3, <2>4
<1>9. WipeIsComplete(w)'
  <2>1. SUFFICES ASSUME strategy = "replace", doc[w].alone, NEW i \in Indices,
                        i \notin doc[w].write \ batch
                 PROVE  stored'[s][i] = Chunk(X, i)
    BY <1>0, <1>2, <1>3, Texts DEF WipeIsComplete
  <2>2. CASE i \in batch
    BY <1>4, <2>1, <2>2
  <2>3. CASE i \notin batch
    BY <1>0, <1>4, <2>1, <2>3 DEF WipeIsComplete
  <2>4. QED
    BY <2>2, <2>3
<1>10. QED
  BY <1>5, <1>6, <1>7, <1>8, <1>9 DEF IngestInv

\* Deleting the stale chunks, or all of them.
LEMMA DeleteKeeps ==
  ASSUME IngestInv, NEW w \in Slots, DeleteStale(w) \/ Erase(w)
  PROVE  IngestInv'
<1> DEFINE s == doc[w].source
           X == doc[w].text
           gone == IF doc[w].at = "delete" THEN doc[w].delete ELSE Indices
           next == IF doc[w].at = "delete" THEN "record" ELSE "unlist"
<1>0. /\ IngestTypeOK /\ SlotIsSound(w) /\ PlanIsCarriedOut(w) /\ WipeIsComplete(w)
      /\ doc[w].at \in {"delete", "erase"} /\ s \in Sources /\ X \in Documents \union {Erased}
      /\ X \in Tried(s) /\ (doc[w].at = "erase" => X = Erased) /\ (doc[w].at = "delete" => X \in Documents)
      /\ doc[w].write = {}
  <2>1. doc[w].at \in {"delete", "erase"} /\ SlotIsSound(w) /\ IngestTypeOK
    BY DEF DeleteStale, Erase, IngestInv
  <2>2. s \in Sources /\ X \in Documents \union {Erased}
    BY <2>1, SlotTypes DEF SlotIsSound
  <2>3. QED
    BY <2>1, <2>2 DEF IngestInv, Tried, Working, SlotIsSound
<1>1. gone \intersect Filled(X) = {}
  BY <1>0, Texts DEF SlotIsSound
<1>2. /\ doc' = [doc EXCEPT ![w].at = next]
      /\ stored' = [stored EXCEPT ![s] = [i \in Indices |-> IF i \in gone THEN NoHash ELSE @[i]]]
      /\ UNCHANGED <<strategy, manifest, odds, ingests, failures>>
  BY DEF DeleteStale, Erase, Without
<1> HIDE DEF gone
<1>3. /\ doc'[w].source = s /\ doc'[w].text = X /\ doc'[w].alone = doc[w].alone
      /\ doc'[w].at = next /\ doc'[w].write = {} /\ doc'[w].delete = doc[w].delete
      /\ \A v \in Slots : v # w => doc'[v] = doc[v]
      /\ doc' \in [Slots -> SlotRecord]
  <2>1. doc' = Staged(w, next, doc[w].write, doc[w].delete)
    <3>1. doc \in [Slots -> SlotRecord]
      BY <1>0 DEF IngestTypeOK, SlotRecord
    <3>2. QED
      BY <1>2, <3>1 DEF SlotRecord, Staged
  <2>2. doc[w].write \subseteq Indices /\ doc[w].delete \subseteq Indices /\ next \in {"record", "unlist"}
    BY <1>0, SlotTypes
  <2> HIDE DEF next
  <2>3. QED
    BY ONLY <1>0, <2>1, <2>2, w \in Slots, SlotChanges
<1>4. /\ \A r \in Sources : r # s => stored'[r] = stored[r]
      /\ \A i \in Indices : stored'[s][i] = IF i \in gone THEN NoHash ELSE stored[s][i]
      /\ \A i \in gone : NoHash = Chunk(X, i)
  BY <1>0, <1>1, <1>2 DEF IngestTypeOK, Chunk
<1>5. /\ \A r \in Sources : Tried(r)' = Tried(r) /\ OverlapsAreOdd(r)' /\ StoreIsExplained(r)'
      /\ \A v \in Slots : v # w => PlanIsCarriedOut(v)' /\ WipeIsComplete(v)' /\ SlotIsSound(v)'
  <2>1. doc[w].at # "idle"
    BY <1>0
  <2>2. \A i \in Indices : stored'[s][i] \in {stored[s][i], Chunk(X, i)}
    BY <1>4
  <2>3. strategy' = strategy /\ manifest' = manifest /\ odds' = odds
    BY <1>2
  <2>4. QED
    BY ONLY IngestInv, w \in Slots, <1>3, <1>4, <2>1, <2>2, <2>3, OthersStand
<1>6. IngestTypeOK'
  <2>1. stored' \in [Sources -> [Indices -> ChunkHashes \union {NoHash}]]
    BY <1>0, <1>2 DEF IngestTypeOK
  <2>2. QED
    BY <1>0, <1>2, <1>3, <2>1 DEF IngestTypeOK, SlotRecord
<1>7. SlotIsSound(w)'
  BY <1>0, <1>2, <1>3 DEF SlotIsSound
<1>8. PlanIsCarriedOut(w)'
  <2>1. SUFFICES ASSUME strategy # "replace", NEW i \in Counted(X)
                 PROVE  \E text \in Tried(s) : stored'[s][i] = Chunk(text, i)
    BY <1>2, <1>3, <1>5, <1>0 DEF PlanIsCarriedOut, Counted
  <2>2. i \in Indices
    BY <1>0, Texts DEF Counted
  <2>3. CASE i \in gone
    BY <1>0, <1>4, <2>2, <2>3
  <2>4. CASE i \notin gone
    <3>1. doc[w].at = "delete" /\ i \notin doc[w].delete
      BY <1>0, <2>2, <2>4 DEF gone
    <3>2. QED
      BY <1>0, <1>4, <2>1, <2>2, <2>4, <3>1 DEF PlanIsCarriedOut
  <2>5. QED
    BY <2>3, <2>4
<1>9. WipeIsComplete(w)'
  <2>1. SUFFICES ASSUME strategy = "replace" \/ X = Erased, doc[w].alone, NEW i \in Indices
                 PROVE  stored'[s][i] = Chunk(X, i)
    BY <1>0, <1>2, <1>3 DEF WipeIsComplete
  <2>2. CASE i \in gone
    BY <1>4, <2>1, <2>2
  <2>3. CASE i \notin gone
    <3>1. doc[w].at = "delete"
      BY <1>0, <2>1, <2>3 DEF gone
    <3>2. QED
      BY <1>0, <1>4, <2>1, <2>3, <3>1 DEF WipeIsComplete
  <2>4. QED
    BY <2>2, <2>3
<1>10. QED
  BY <1>5, <1>6, <1>7, <1>8, <1>9 DEF IngestInv

\* What is left of an operation that failed are chunks of its text, and the text
\* is on record.
LEMMA FailsKeeps ==
  ASSUME IngestInv, NEW w \in Slots, Fails(w)
  PROVE  IngestInv'
<1> DEFINE s == doc[w].source
           X == doc[w].text
<1>0. /\ IngestTypeOK /\ SlotIsSound(w) /\ doc[w].at # "idle" /\ s \in Sources
      /\ X \in Documents \union {Erased}
  BY SlotTypes DEF Fails, IngestInv, SlotIsSound
<1>1. /\ failures < MaxFailures /\ failures' = failures + 1
      /\ odds' = [odds EXCEPT ![s] = @ \union {X}]
      /\ doc' = [doc EXCEPT ![w] = Spare]
      /\ strategy' = strategy /\ manifest' = manifest /\ ingests' = ingests
  BY DEF Fails
<1>2. PICK some \in SUBSET Indices :
        \/ stored' = stored
        \/ /\ some \subseteq DOMAIN X /\ X \in Documents /\ stored' = With(s, some, X)
        \/ /\ some \intersect Filled(X) = {} \/ strategy = "replace"
           /\ stored' = Without(s, some)
  <2>1. NextBatch(w) \subseteq Indices /\ doc[w].delete \subseteq Indices
    BY <1>0, SlotTypes DEF NextBatch
  <2>2. CASE doc[w].at = "upsert"
    <3>1. PICK done \in SUBSET NextBatch(w) : stored' = With(s, done, X)
      BY <2>2 DEF Fails
    <3>2. X \in Documents /\ NextBatch(w) \subseteq DOMAIN X
      BY <1>0, <2>2, Texts DEF SlotIsSound, NextBatch
    <3>3. QED
      BY <2>1, <3>1, <3>2
  <2>3. CASE doc[w].at = "delete"
    <3>1. PICK done \in SUBSET doc[w].delete : stored' = Without(s, done)
      BY <2>3 DEF Fails
    <3>2. QED
      BY <1>0, <2>1, <3>1 DEF SlotIsSound
  <2>4. CASE doc[w].at \in {"erase", "plan", "record", "unlist"}
    <3>1. CASE stored' = stored
      BY <3>1
    <3>2. CASE stored' # stored
      <4>1. doc[w].at = "erase" \/ strategy = "replace"
        BY <2>4, <3>2 DEF Fails
      <4>2. PICK done \in SUBSET Indices : stored' = Without(s, done)
        BY <2>4, <3>2 DEF Fails
      <4>3. doc[w].at = "erase" => Filled(X) = {}
        BY <1>0, Texts DEF SlotIsSound
      <4>4. QED
        BY <4>1, <4>2, <4>3
    <3>3. QED
      BY <3>1, <3>2
  <2>5. QED
    BY <1>0, <2>2, <2>3, <2>4, SlotTypes
<1>3. /\ stored' \in [Sources -> [Indices -> ChunkHashes \union {NoHash}]]
      /\ \A r \in Sources : r # s => stored'[r] = stored[r]
      /\ \/ strategy = "replace"
         \/ \A i \in Indices : stored'[s][i] \in {stored[s][i], Chunk(X, i)}
  <2>0. stored \in [Sources -> [Indices -> ChunkHashes \union {NoHash}]]
    BY <1>0 DEF IngestTypeOK
  <2>1. CASE stored' = stored
    BY <2>0, <2>1
  <2>2. CASE some \subseteq DOMAIN X /\ X \in Documents /\ stored' = With(s, some, X)
    <3>1. \A i \in some : X[i] = Chunk(X, i) /\ X[i] \in ChunkHashes
      BY <2>2, Texts DEF Chunk
    <3>2. stored' = [stored EXCEPT ![s] = [i \in Indices |-> IF i \in some THEN X[i] ELSE @[i]]]
      BY <2>2 DEF With
    <3>3. \A i \in Indices : stored'[s][i] = IF i \in some THEN X[i] ELSE stored[s][i]
      BY <1>0, <2>0, <3>2
    <3>4. QED
      BY <1>0, <2>0, <3>1, <3>2, <3>3
  <2>3. CASE /\ some \intersect Filled(X) = {} \/ strategy = "replace"
             /\ stored' = Without(s, some)
    <3>1. stored' = [stored EXCEPT ![s] = [i \in Indices |-> IF i \in some THEN NoHash ELSE @[i]]]
      BY <2>3 DEF Without
    <3>2. \A i \in Indices : stored'[s][i] = IF i \in some THEN NoHash ELSE stored[s][i]
      BY <1>0, <2>0, <3>1
    <3>3. QED
      BY <1>0, <2>0, <2>3, <3>1, <3>2 DEF Chunk
  <2>4. QED
    BY <1>2, <2>1, <2>2, <2>3
<1>4. doc'[w] = Spare /\ \A v \in Slots : v # w => doc'[v] = doc[v]
  BY <1>0, <1>1 DEF IngestTypeOK
<1>5. /\ \A r \in Sources : r # s => odds'[r] = odds[r]
      /\ odds[s] \subseteq odds'[s]
      /\ odds' \in [Sources -> SUBSET (Documents \union {Erased})]
  BY <1>0, <1>1 DEF IngestTypeOK
<1>6. /\ \A r \in Sources : OverlapsAreOdd(r)' /\ StoreIsExplained(r)'
      /\ \A v \in Slots : v # w => PlanIsCarriedOut(v)' /\ WipeIsComplete(v)' /\ SlotIsSound(v)'
  <2>1. doc'[w].source = NoHash
    BY <1>4 DEF Spare
  <2>2. doc[w].at # "idle"
    BY <1>0
  <2>3. QED
    BY ONLY IngestInv, w \in Slots, <1>1, <1>3, <1>4, <1>5, <2>1, <2>2, OthersStand
<1>7. IngestTypeOK'
  <2>1. Spare \in SlotRecord
    BY Texts DEF Spare, SlotRecord
  <2>2. doc' \in [Slots -> SlotRecord]
    BY <1>0, <1>1, <2>1 DEF IngestTypeOK, SlotRecord
  <2>3. failures' \in 0..MaxFailures
    BY <1>0, <1>1, IngestAssumption DEF IngestTypeOK
  <2>4. QED
    BY <1>0, <1>1, <1>3, <1>5, <2>2, <2>3 DEF IngestTypeOK, SlotRecord
<1>8. SlotIsSound(w)' /\ PlanIsCarriedOut(w)' /\ WipeIsComplete(w)'
  BY <1>4, Texts DEF Spare, SlotIsSound, PlanIsCarriedOut, WipeIsComplete
<1>9. QED
  BY <1>6, <1>7, <1>8 DEF IngestInv

\* A slot that takes a text adds it to those that are tried.
LEMMA TakesKeeps ==
  ASSUME IngestInv, NEW w \in Slots, NEW s \in Sources, NEW text, NEW stage,
         (stage = "plan" /\ text \in Documents) \/ (stage = "erase" /\ text = Erased),
         Takes(w, s, text, stage)
  PROVE  IngestInv'
<1> DEFINE others == Working(s)
           own == [Spare EXCEPT !.source = s, !.at = stage, !.text = text, !.alone = others = {}]
<1>0. IngestTypeOK /\ doc[w].at = "idle" /\ SlotIsSound(w) /\ w \notin others /\ s # NoHash
  <2>1. doc[w].at = "idle" /\ SlotIsSound(w)
    BY DEF Takes, IngestInv
  <2>2. QED
    BY <2>1, IngestAssumption DEF IngestInv, SlotIsSound, Working
<1>1. /\ ingests < MaxIngests /\ ingests' = ingests + 1
      /\ doc' = [v \in Slots |-> IF v = w THEN own
                                 ELSE IF v \in others THEN [doc[v] EXCEPT !.alone = FALSE] ELSE doc[v]]
      /\ odds' = IF others = {} THEN odds
                 ELSE [odds EXCEPT ![s] = @ \union {text} \union {doc[v].text : v \in others}]
      /\ UNCHANGED <<strategy, stored, manifest, failures>>
  BY DEF Takes
<1>2. /\ own \in SlotRecord /\ own.source = s /\ own.at = stage /\ own.text = text
      /\ own.write = {} /\ own.delete = {} /\ own.alone = (others = {})
  BY Texts DEF Spare, SlotRecord
<1> HIDE DEF own
<1>3. doc'[w] = own
  BY <1>1
<1>4. ASSUME NEW v \in Slots, v # w
      PROVE  /\ doc'[v] \in SlotRecord
             /\ doc'[v].source = doc[v].source /\ doc'[v].at = doc[v].at
             /\ doc'[v].text = doc[v].text /\ doc'[v].write = doc[v].write
             /\ doc'[v].delete = doc[v].delete
             /\ doc'[v].alone = IF v \in others THEN FALSE ELSE doc[v].alone
  <2>1. doc[v] \in SlotRecord
    BY <1>0 DEF IngestTypeOK, SlotRecord
  <2>2. doc'[v] = IF v \in others THEN [doc[v] EXCEPT !.alone = FALSE] ELSE doc[v]
    BY <1>1, <1>4
  <2>3. QED
    BY <2>1, <2>2 DEF SlotRecord
<1>5. /\ Working(s)' = others \union {w}
      /\ \A r \in Sources : r # s => Working(r)' = Working(r)
  <2>1. \A r \in Sources : \A v \in Slots : doc'[v].source = r <=> (IF v = w THEN r = s ELSE doc[v].source = r)
    BY <1>2, <1>3, <1>4
  <2>2. \A r \in Sources : w \notin Working(r)
    BY <1>0, IngestAssumption DEF SlotIsSound, Working
  <2>3. QED
    BY <2>1, <2>2 DEF Working
<1>6. /\ odds' \in [Sources -> SUBSET (Documents \union {Erased})]
      /\ \A r \in Sources : r # s => odds'[r] = odds[r]
      /\ odds'[s] = IF others = {} THEN odds[s]
                    ELSE odds[s] \union {text} \union {doc[v].text : v \in others}
  <2>1. {doc[v].text : v \in others} \subseteq Documents \union {Erased}
    BY <1>0, SlotTypes DEF Working
  <2>2. odds \in [Sources -> SUBSET (Documents \union {Erased})]
    BY <1>0 DEF IngestTypeOK
  <2>3. QED
    BY <1>1, <2>1, <2>2
<1>7. Tried(s)' = Tried(s) \union {text} /\ \A r \in Sources : r # s => Tried(r)' = Tried(r)
  <2>1. \A r \in Sources : \A v \in Working(r) : v # w /\ doc'[v].text = doc[v].text
    BY <1>0, <1>4, IngestAssumption DEF Working, SlotIsSound
  <2>2. doc'[w].text = text
    BY <1>2, <1>3
  <2>3. {doc'[v].text : v \in others \union {w}} = {doc[v].text : v \in others} \union {text}
    BY <2>1, <2>2
  <2>4. Tried(s)' = odds'[s] \union {doc[v].text : v \in others} \union {text}
    BY <1>5, <2>3 DEF Tried
  <2>5. Tried(s)' = Tried(s) \union {text}
    BY <1>6, <2>4 DEF Tried
  <2>6. \A r \in Sources : r # s => Tried(r)' = Tried(r)
    BY <1>5, <1>6, <2>1 DEF Tried
  <2>7. QED
    BY <2>5, <2>6
<1>8. IngestTypeOK'
  <2>1. doc' \in [Slots -> SlotRecord]
    BY <1>1, <1>2, <1>3, <1>4
  <2>2. ingests' \in 0..MaxIngests
    BY <1>0, <1>1, IngestAssumption DEF IngestTypeOK
  <2>3. QED
    BY <1>0, <1>1, <1>6, <2>1, <2>2 DEF IngestTypeOK, SlotRecord
<1>9. SlotIsSound(w)' /\ PlanIsCarriedOut(w)' /\ WipeIsComplete(w)'
  <2>1. doc'[w].at = stage /\ stage \notin {"idle", "upsert", "delete", "record", "unlist"}
    BY <1>2, <1>3
  <2>2. SlotIsSound(w)'
    BY <1>0, <1>2, <1>3, <2>1 DEF SlotIsSound
  <2>3. QED
    BY <2>1, <2>2 DEF PlanIsCarriedOut, WipeIsComplete
<1>10. ASSUME NEW v \in Slots, v # w
       PROVE  SlotIsSound(v)' /\ PlanIsCarriedOut(v)' /\ WipeIsComplete(v)'
  <2>0. SlotIsSound(v) /\ PlanIsCarriedOut(v) /\ WipeIsComplete(v)
    BY DEF IngestInv
  <2>1. SlotIsSound(v)'
    BY <1>1, <1>4, <1>10, <2>0 DEF SlotIsSound
  <2>2. WipeIsComplete(v)'
    BY <1>1, <1>4, <1>10, <2>0 DEF WipeIsComplete
  <2>3. doc[v].at # "idle" => doc[v].source \in Sources
    BY <1>0, <2>0, SlotTypes DEF SlotIsSound
  <2>4. doc[v].at # "idle" => Tried(doc[v].source) \subseteq Tried(doc[v].source)'
    <3>1. SUFFICES ASSUME NEW r \in Sources, r = doc[v].source
                   PROVE  Tried(r) \subseteq Tried(doc[v].source)'
      BY <2>3
    <3>2. doc'[v].source = r
      BY <1>4, <1>10, <3>1
    <3>3. Tried(doc[v].source)' = Tried(r)'
      BY <3>2 DEF Tried, Working
    <3>4. QED
      BY <1>7, <3>3
  <2>5. Counted(doc[v].text)' = Counted(doc[v].text)
    BY <1>1, <1>4, <1>10 DEF Counted
  <2>6. PlanIsCarriedOut(v)'
    BY <1>1, <1>4, <1>10, <2>0, <2>4, <2>5 DEF PlanIsCarriedOut
  <2>7. QED
    BY <2>1, <2>2, <2>6
<1>11. ASSUME NEW r \in Sources PROVE StoreIsExplained(r)'
  <2>1. Counted(manifest[r])' = Counted(manifest[r])
    BY <1>1 DEF Counted
  <2>2. r = s => Tried(r)' # {}
    BY <1>7
  <2>3. StoreIsExplained(r) /\ Tried(r) \subseteq Tried(r)' /\ (r # s => Tried(r)' = Tried(r))
    BY <1>7 DEF IngestInv
  <2>4. QED
    BY <1>1, <2>1, <2>2, <2>3 DEF StoreIsExplained
<1>12. ASSUME NEW r \in Sources PROVE OverlapsAreOdd(r)'
  <2>1. CASE r # s
    <3>1. \A v \in Working(r) : v # w /\ doc'[v].text = doc[v].text /\ doc'[v].alone = doc[v].alone
      BY <1>0, <1>4, <2>1, IngestAssumption DEF Working, SlotIsSound
    <3>2. OverlapsAreOdd(r) /\ Working(r)' = Working(r) /\ odds'[r] = odds[r] /\ strategy' = strategy
      BY <1>1, <1>5, <1>6, <2>1 DEF IngestInv
    <3>3. QED
      BY <3>1, <3>2 DEF OverlapsAreOdd
  <2>2. CASE r = s /\ others = {}
    BY <1>2, <1>3, <1>5, <2>2 DEF OverlapsAreOdd
  <2>3. CASE r = s /\ others # {}
    <3>1. \A v \in others \union {w} : doc'[v].text \in odds'[s] /\ ~doc'[v].alone
      <4>1. doc'[w].text \in odds'[s] /\ ~doc'[w].alone
        BY <1>2, <1>3, <1>6, <2>3
      <4>2. \A v \in others : v \in Slots /\ v # w
        BY <1>0 DEF Working
      <4>3. \A v \in others : doc'[v].text \in odds'[s] /\ ~doc'[v].alone
        BY <1>4, <1>6, <2>3, <4>2
      <4>4. QED
        BY <4>1, <4>3
    <3>2. QED
      BY <1>5, <1>6, <2>3, <3>1 DEF OverlapsAreOdd
  <2>4. QED
    BY <2>1, <2>2, <2>3
<1>13. QED
  BY <1>8, <1>9, <1>10, <1>11, <1>12 DEF IngestInv

\* What a text was carried out on is exact but for the texts tried beside it:
\* the manifest may name it now.
LEMMA EndsKeep ==
  ASSUME IngestInv, NEW w \in Slots, RecordManifest(w) \/ Unlist(w),
         NEW s, s = doc[w].source, NEW X, X = doc[w].text
  PROVE  IngestInv'
<1> DEFINE named == IF X = Erased THEN <<>> ELSE X
           clears == \/ doc[w].alone /\ (X = Erased \/ strategy = "replace")
                     \/ odds[s] \subseteq {X} /\ strategy # "replace"
           rest == Working(s) \ {w}
<1>0. /\ IngestTypeOK /\ SlotIsSound(w) /\ PlanIsCarriedOut(w) /\ WipeIsComplete(w)
      /\ doc[w].at \in {"record", "unlist"} /\ s \in Sources /\ s # NoHash
      /\ X \in Documents \union {Erased} /\ doc[w].write = {} /\ OverlapsAreOdd(s)
      /\ w \in Working(s) /\ (doc[w].at = "unlist" <=> X = Erased)
  <2>1. doc[w].at \in {"record", "unlist"} /\ SlotIsSound(w) /\ IngestTypeOK
    BY DEF RecordManifest, Unlist, IngestInv
  <2>2. s \in Sources /\ X \in Documents \union {Erased} /\ (doc[w].at = "unlist" <=> X = Erased)
    BY <2>1, SlotTypes, Texts DEF SlotIsSound
  <2>3. QED
    BY <2>1, <2>2, IngestAssumption DEF IngestInv, Working, SlotIsSound
<1>1. /\ manifest' = [manifest EXCEPT ![s] = named]
      /\ odds' = IF clears THEN [odds EXCEPT ![s] = {}] ELSE odds
      /\ doc' = [doc EXCEPT ![w] = Spare]
      /\ UNCHANGED <<strategy, stored, ingests, failures>>
  BY <1>0 DEF RecordManifest, Unlist, Settled
<1>2. /\ named \in Documents /\ Counted(named) = Counted(X) /\ Counted(X) \subseteq Indices
      /\ \A i : Chunk(named, i) = Chunk(X, i)
  <2>1. CASE X = Erased
    BY <2>1, Texts DEF Counted, Chunk
  <2>2. CASE X # Erased
    BY <1>0, <2>2, Texts DEF Counted
  <2>3. QED
    BY <2>1, <2>2
<1>3. /\ doc'[w] = Spare /\ \A v \in Slots : v # w => doc'[v] = doc[v]
      /\ manifest'[s] = named /\ \A r \in Sources : r # s => manifest'[r] = manifest[r]
      /\ odds'[s] = IF clears THEN {} ELSE odds[s]
      /\ \A r \in Sources : r # s => odds'[r] = odds[r]
  BY <1>0, <1>1 DEF IngestTypeOK
<1> HIDE DEF clears, named
<1>4. /\ Working(s)' = rest /\ \A v \in rest : v # w /\ v \in Slots
      /\ \A r \in Sources : r # s => Working(r)' = Working(r) /\ w \notin Working(r)
  <2>1. doc'[w].source = NoHash
    BY <1>3 DEF Spare
  <2>2. \A r \in Sources : r # NoHash
    BY IngestAssumption
  <2>3. \A r \in Sources : Working(r)' = Working(r) \ {w}
    BY <1>3, <2>1, <2>2 DEF Working
  <2>4. \A r \in Sources : r # s => w \notin Working(r)
    BY DEF Working
  <2>5. QED
    BY <1>0, <2>3, <2>4 DEF Working
<1>5. /\ Tried(s) = odds[s] \union {doc[v].text : v \in rest} \union {X}
      /\ Tried(s)' = odds'[s] \union {doc[v].text : v \in rest}
      /\ \A r \in Sources : r # s => Tried(r)' = Tried(r)
  <2>1. \A v \in rest : doc'[v].text = doc[v].text
    BY <1>3, <1>4
  <2>2. \A r \in Sources : r # s => \A v \in Working(r) : doc'[v].text = doc[v].text
    BY <1>3, <1>4 DEF Working
  <2>3. Working(s) = rest \union {w}
    BY <1>0
  <2>4. Tried(s) = odds[s] \union {doc[v].text : v \in rest} \union {X}
    BY <2>3 DEF Tried
  <2>5. Tried(s)' = odds'[s] \union {doc[v].text : v \in rest}
    <3>1. {doc'[v].text : v \in rest} = {doc[v].text : v \in rest}
      BY <2>1
    <3>2. Tried(s)' = odds'[s] \union {doc'[v].text : v \in rest}
      BY <1>4 DEF Tried
    <3>3. QED
      BY <3>1, <3>2
  <2>6. QED
    BY <1>3, <1>4, <2>2, <2>4, <2>5 DEF Tried
\* Beside another, the text is the other's too, or was on record and stays there.
<1>6. \A v \in rest : ~doc[w].alone /\ (doc[v].text = X \/ X \in odds[s]) /\ (doc[v].text = X \/ doc[v].text \in odds[s])
  BY <1>0, <1>4 DEF OverlapsAreOdd
<1>7. rest # {} => Tried(s)' = Tried(s)
  <2>1. SUFFICES ASSUME rest # {} PROVE Tried(s)' = Tried(s)
    OBVIOUS
  <2>2. CASE ~clears
    BY <1>3, <1>5, <1>6, <2>1, <2>2
  <2>3. CASE clears
    <3>1. odds[s] \subseteq {X}
      BY <1>6, <2>1, <2>3 DEF clears
    <3>2. \A v \in rest : doc[v].text = X
      BY <1>6, <3>1
    <3>3. QED
      BY <1>5, <1>3, <2>1, <2>3, <3>1, <3>2
  <2>4. QED
    BY <2>2, <2>3
<1>8. StoreIsExplained(s)'
  <2>1. SUFFICES ASSUME strategy # "replace" \/ Tried(s)' = {}, NEW i \in Counted(X)
                 PROVE  \E text \in {X} \union Tried(s)' : stored[s][i] = Chunk(text, i)
    <3>1. strategy' = strategy /\ stored' = stored /\ manifest'[s] = named
      BY <1>1, <1>3
    <3>2. Counted(manifest[s])' = Counted(named)
      BY <3>1 DEF Counted
    <3>3. Counted(manifest[s])' = Counted(X) /\ \A i : Chunk(manifest'[s], i) = Chunk(X, i)
      BY <1>2, <3>1, <3>2
    <3>4. SUFFICES ASSUME strategy # "replace" \/ Tried(s)' = {}, NEW i \in Counted(X)
                   PROVE  \E text \in {manifest'[s]} \union Tried(s)' : stored[s][i] = Chunk(text, i)
      BY <3>1, <3>3 DEF StoreIsExplained
    <3>5. QED
      BY <3>3, <3>4
  <2>2. i \in Indices
    BY <1>2
  <2>3. CASE doc[w].alone /\ (X = Erased \/ strategy = "replace")
    BY <1>0, <2>2, <2>3 DEF WipeIsComplete
  <2>4. CASE strategy = "replace" /\ ~doc[w].alone
    <3>1. odds[s] # {} /\ ~clears
      BY <1>0, <2>4 DEF OverlapsAreOdd, clears
    <3>2. QED
      BY <1>3, <1>5, <2>1, <2>4, <3>1
  <2>5. CASE strategy # "replace" /\ ~(doc[w].alone /\ X = Erased)
    <3>1. \E text \in Tried(s) : stored[s][i] = Chunk(text, i)
      BY <1>0, <2>5 DEF PlanIsCarriedOut
    <3>2. Tried(s) \subseteq Tried(s)' \union {X}
      BY <1>3, <1>5, <2>5 DEF clears
    <3>3. QED
      BY <3>1, <3>2
  <2>6. QED
    BY <2>3, <2>4, <2>5
<1>9. OverlapsAreOdd(s)'
  <2>1. \A v \in rest : doc'[v] = doc[v]
    BY <1>3, <1>4
  <2>2. CASE ~clears
    <3>1. odds'[s] = odds[s]
      BY <1>3, <2>2
    <3>2. QED
      <4>1. \A u, v \in rest :
              /\ doc[u].text = doc[v].text \/ doc[u].text \in odds[s]
              /\ doc[u].alone => v = u
              /\ strategy = "replace" /\ ~doc[u].alone => odds[s] # {}
        BY <1>0 DEF OverlapsAreOdd
      <4>2. strategy' = strategy /\ Working(s)' = rest
        BY <1>1, <1>4
      <4>3. QED
        BY <2>1, <3>1, <4>1, <4>2 DEF OverlapsAreOdd
  <2>3. CASE clears /\ rest # {}
    <3>1. odds[s] \subseteq {X} /\ strategy # "replace"
      BY <1>6, <2>3 DEF clears
    <3>2. \A v \in rest : doc[v].text = X
      BY <1>6, <3>1
    <3>3. QED
      BY <1>0, <1>1, <1>4, <2>1, <3>1, <3>2 DEF OverlapsAreOdd
  <2>4. CASE rest = {}
    BY <1>4, <2>4 DEF OverlapsAreOdd
  <2>5. QED
    BY <2>2, <2>3, <2>4
<1>10. ASSUME NEW r \in Sources, r # s PROVE StoreIsExplained(r)' /\ OverlapsAreOdd(r)'
  <2>1. /\ StoreIsExplained(r) /\ OverlapsAreOdd(r) /\ Tried(r)' = Tried(r) /\ Working(r)' = Working(r)
        /\ manifest'[r] = manifest[r] /\ odds'[r] = odds[r] /\ strategy' = strategy /\ stored' = stored
    BY <1>1, <1>3, <1>4, <1>5, <1>10 DEF IngestInv
  <2>2. Counted(manifest[r])' = Counted(manifest[r])
    BY <2>1 DEF Counted
  <2>3. \A v \in Working(r) : doc'[v] = doc[v]
    BY <1>3, <1>4, <1>10 DEF Working
  <2>4. StoreIsExplained(r)'
    BY <2>1, <2>2 DEF StoreIsExplained
  <2>5. QED
    BY <2>1, <2>3, <2>4 DEF OverlapsAreOdd
<1>11. ASSUME NEW v \in Slots, v # w
       PROVE  SlotIsSound(v)' /\ PlanIsCarriedOut(v)' /\ WipeIsComplete(v)'
  <2>0. SlotIsSound(v) /\ PlanIsCarriedOut(v) /\ WipeIsComplete(v) /\ doc'[v] = doc[v]
    BY <1>3, <1>11 DEF IngestInv
  <2>1. SlotIsSound(v)' /\ WipeIsComplete(v)'
    BY <1>1, <2>0 DEF SlotIsSound, WipeIsComplete
  <2>2. doc[v].at # "idle" => Tried(doc[v].source)' = Tried(doc[v].source)
    <3>1. doc[v].at # "idle" => doc[v].source \in Sources
      BY <1>0, <2>0, SlotTypes DEF SlotIsSound
    <3>2. SUFFICES ASSUME NEW r \in Sources, r = doc[v].source
                   PROVE  Tried(doc[v].source)' = Tried(r)
      BY <3>1
    <3>3. Tried(doc[v].source)' = Tried(r)'
      BY <2>0, <3>2 DEF Tried, Working
    <3>4. r = s => rest # {}
      BY <1>11, <3>2 DEF Working
    <3>5. QED
      <4>1. r # s => Tried(r)' = Tried(r)
        BY <1>5
      <4>2. r = s => Tried(r)' = Tried(r)
        BY <1>7, <3>4
      <4>3. QED
        BY <3>3, <4>1, <4>2
  <2>3. Counted(doc[v].text)' = Counted(doc[v].text)
    BY <1>1, <2>0 DEF Counted
  <2>4. PlanIsCarriedOut(v)'
    BY <1>1, <2>0, <2>2, <2>3 DEF PlanIsCarriedOut
  <2>5. QED
    BY <2>1, <2>4
<1>12. SlotIsSound(w)' /\ PlanIsCarriedOut(w)' /\ WipeIsComplete(w)'
  BY <1>3, Texts DEF Spare, SlotIsSound, PlanIsCarriedOut, WipeIsComplete
<1>13. IngestTypeOK'
  <2>1. Spare \in SlotRecord
    BY Texts DEF Spare, SlotRecord
  <2>2. doc' \in [Slots -> SlotRecord]
    BY <1>0, <1>1, <2>1 DEF IngestTypeOK, SlotRecord
  <2>3. odds' \in [Sources -> SUBSET (Documents \union {Erased})]
    BY <1>0, <1>1 DEF IngestTypeOK
  <2>4. manifest' \in [Sources -> Documents]
    BY <1>0, <1>1, <1>2 DEF IngestTypeOK
  <2>5. QED
    BY <1>0, <1>1, <2>2, <2>3, <2>4 DEF IngestTypeOK, SlotRecord
<1>14. \A r \in Sources : StoreIsExplained(r)' /\ OverlapsAreOdd(r)'
  <2>1. ASSUME NEW r \in Sources PROVE StoreIsExplained(r)' /\ OverlapsAreOdd(r)'
    <3>1. CASE r = s
      <4>1. StoreIsExplained(r)'
        BY <1>8, <3>1 DEF StoreIsExplained
      <4>2. QED
        BY <1>9, <3>1, <4>1
    <3>2. QED
      BY <1>10, <3>1
  <2>2. QED
    BY <2>1
<1>15. QED
  BY <1>11, <1>12, <1>13, <1>14 DEF IngestInv

LEMMA IngestStepInv == IngestInv /\ [IngestNext]_ingestVars => IngestInv'
<1> SUFFICES ASSUME IngestInv, [IngestNext]_ingestVars PROVE IngestInv'
  OBVIOUS
<1>1. CASE UNCHANGED ingestVars
  <2>1. IngestTypeOK'
    BY <1>1 DEF ingestVars, IngestInv, IngestTypeOK
  <2>2. (\A s \in Sources : Working(s)' = Working(s) /\ Tried(s)' = Tried(s))
    BY <1>1 DEF ingestVars, Working, Tried
  <2>3. \A w \in Slots : Tried(doc[w].source)' = Tried(doc[w].source)
    BY <1>1 DEF ingestVars, Working, Tried
  <2>4. \A w \in Slots : SlotIsSound(w)' /\ WipeIsComplete(w)'
    BY <1>1 DEF ingestVars, IngestInv, SlotIsSound, WipeIsComplete
  <2>5. \A w \in Slots : PlanIsCarriedOut(w)'
    BY <1>1, <2>3 DEF ingestVars, IngestInv, PlanIsCarriedOut, Counted
  <2>6. \A s \in Sources : OverlapsAreOdd(s)' /\ StoreIsExplained(s)'
    BY <1>1, <2>2 DEF ingestVars, IngestInv, OverlapsAreOdd, StoreIsExplained, Counted
  <2>7. QED
    BY <2>1, <2>4, <2>5, <2>6 DEF IngestInv
<1>2. ASSUME NEW w \in Slots, NEW s \in Sources, Forgets(w, s) PROVE IngestInv'
  <2>1. Takes(w, s, Erased, "erase")
    BY <1>2 DEF Forgets
  <2>2. QED
    BY <2>1, TakesKeeps
<1>3. ASSUME NEW w \in Slots, NEW s \in Sources, NEW text \in Documents, Ingest(w, s, text) PROVE IngestInv'
  <2>1. Takes(w, s, text, "plan")
    BY <1>3 DEF Ingest
  <2>2. QED
    BY <2>1, TakesKeeps
<1>4. ASSUME NEW w \in Slots, \/ PlanSync(w) \/ Upsert(w) \/ DeleteStale(w) \/ RecordManifest(w)
                              \/ Erase(w) \/ Unlist(w) \/ Fails(w)
      PROVE  IngestInv'
  <2>1. RecordManifest(w) \/ Unlist(w) => IngestInv'
    BY EndsKeep
  <2>2. QED
    BY <1>4, <2>1, PlanKeeps, UpsertKeeps, DeleteKeeps, FailsKeeps
<1>5. QED
  BY <1>1, <1>2, <1>3, <1>4 DEF IngestNext

\* What is stored is always what the manifest says or a text that is under way
\* or on record, and a plan that ran is carried out but for texts beside it.
THEOREM IngestInvariance == IngestSpec => []IngestInv
<1>1. QED
  BY IngestInitInv, IngestStepInv, PTL DEF IngestSpec

\* The type invariant, in every reachable state.
THEOREM IngestTypeCorrectness == IngestSpec => []IngestTypeOK
<1>1. IngestInv => IngestTypeOK
  BY DEF IngestInv
<1>2. QED
  BY <1>1, IngestInvariance, PTL

\* With no text under way and none on record, only the manifest is left to
\* explain what is stored (IngestionPipeline.ts:129-130).
THEOREM IngestionIsExact == IngestSpec => []IngestedIsExact
<1>1. IngestInv => IngestedIsExact
  <2>1. SUFFICES ASSUME IngestInv, NEW s \in Sources, Working(s) = {}, odds[s] = {}, NEW i \in Indices
                 PROVE  IF i \in DOMAIN manifest[s] THEN stored[s][i] = manifest[s][i]
                        ELSE strategy = "append" \/ stored[s][i] = NoHash
    BY DEF IngestedIsExact
  <2>2. Tried(s) = {}
    BY <2>1 DEF Tried
  <2>3. manifest[s] \in Documents
    BY <2>1 DEF IngestInv, IngestTypeOK
  <2>4. Filled(manifest[s]) = DOMAIN manifest[s]
    BY <2>3, Texts
  <2>5. i \in Counted(manifest[s]) => stored[s][i] = Chunk(manifest[s], i)
    BY <2>1, <2>2 DEF IngestInv, StoreIsExplained
  <2>6. QED
    BY <2>4, <2>5 DEF Counted, Chunk
<1>2. QED
  BY <1>1, IngestInvariance, PTL

-----------------------------------------------------------------------------
(* The in-memory vector store.                                                *)

LEMMA VectorInitInv == VectorInit => VectorInv
<1> SUFFICES ASSUME VectorInit PROVE VectorInv
  OBVIOUS
<1>1. VectorTypeOK
  BY DEF VectorInit, NoGraph, VectorTypeOK
<1>2. Nodes = {} /\ Embedded = {}
  BY VectorAssumption DEF VectorInit, NoGraph, Nodes, Embedded
<1>3. QED
  BY <1>1, <1>2, FS_EmptySet DEF VectorInit, VectorInv, DroppedIsEmpty, NodesStand, TombsAreFew

\* Under the share, or with nothing marked, the graph stays; otherwise it goes,
\* with all its marks.
LEMMA MaybeRebuildKeeps ==
  ASSUME VectorInv, NEW dead \in SUBSET Ids, NEW gone \in SUBSET Ids, MaybeRebuild(dead, gone),
         dead \subseteq Nodes
  PROVE  /\ \/ built' = FALSE /\ graph' = NoGraph /\ tombs' = {} /\ lapsed' = {}
            \/ UNCHANGED <<built, graph>> /\ tombs' = dead /\ lapsed' = gone
         /\ TombsAreFew' /\ DroppedIsEmpty' /\ IsFiniteSet(Nodes)'
<1>0. ASSUME graph' = NoGraph PROVE Nodes' = {}
  BY <1>0 DEF NoGraph, Nodes
<1>1. ASSUME UNCHANGED graph PROVE Nodes' = Nodes
  BY <1>1 DEF Nodes
<1>2. IsFiniteSet(dead) /\ Cardinality(dead) \in Nat /\ Cardinality(Nodes) \in Nat
  BY FS_Subset, FS_CardinalityType DEF VectorInv
<1>3. CASE built /\ Nodes # {} /\ Cardinality(dead) * RatioUnder >= RatioOver * Cardinality(Nodes)
  <2>1. built' = FALSE /\ graph' = NoGraph /\ tombs' = {} /\ lapsed' = {}
    BY <1>3 DEF MaybeRebuild
  <2>2. QED
    BY <1>0, <2>1, FS_EmptySet DEF TombsAreFew, DroppedIsEmpty
<1>4. CASE ~(built /\ Nodes # {} /\ Cardinality(dead) * RatioUnder >= RatioOver * Cardinality(Nodes))
  <2>1. tombs' = dead /\ lapsed' = gone /\ UNCHANGED <<built, graph>>
    BY <1>4 DEF MaybeRebuild
  <2>2. dead = {} \/ Cardinality(dead) * RatioUnder < RatioOver * Cardinality(Nodes)
    <3>1. CASE Nodes = {} \/ ~built
      BY <3>1 DEF VectorInv, DroppedIsEmpty
    <3>2. CASE ~(Cardinality(dead) * RatioUnder >= RatioOver * Cardinality(Nodes))
      <4>1. Cardinality(dead) * RatioUnder \in Nat /\ RatioOver * Cardinality(Nodes) \in Nat
        BY <1>2, VectorAssumption
      <4>2. QED
        BY <3>2, <4>1
    <3>3. QED
      BY <1>4, <3>1, <3>2
  <2>3. QED
    BY <1>1, <2>1, <2>2 DEF TombsAreFew, DroppedIsEmpty, VectorInv
<1>5. QED
  BY <1>3, <1>4

LEMMA UpsertRecordKeeps ==
  ASSUME VectorInv, NEW i \in Ids, NEW v \in Vectors \union {Bare}, UpsertRecord(i, v)
  PROVE  VectorInv'
<1>0. /\ records' = [records EXCEPT ![i] = v]
      /\ VectorTypeOK /\ DroppedIsEmpty /\ NodesStand /\ TombsAreFew
      /\ IsFiniteSet(Nodes) /\ IsFiniteSet(Embedded)
  BY DEF UpsertRecord, VectorInv
<1>1. /\ \A j \in Ids : j # i => records'[j] = records[j]
      /\ records'[i] = v /\ v # Absent
  BY <1>0, VectorAssumption DEF VectorTypeOK
<1>2. IsFiniteSet(Embedded')
  <2>1. Embedded' \subseteq Embedded \union {i}
    BY <1>1 DEF Embedded
  <2>2. QED
    BY <1>0, <2>1, FS_AddElement, FS_Subset
<1>3. CASE v = Bare /\ lapsed' = (IF i \in Nodes \ tombs THEN lapsed \union {i} ELSE lapsed)
           /\ UNCHANGED <<built, graph, tombs>>
  <2>1. Nodes' = Nodes /\ Embedded' \subseteq Embedded
    BY <1>1, <1>3, VectorAssumption DEF Nodes, Embedded
  <2>2. VectorTypeOK'
    BY <1>0, <1>3 DEF VectorTypeOK
  <2>3. NodesStand'
    BY <1>0, <1>1, <1>3, <2>1 DEF NodesStand
  <2>4. QED
    BY <1>0, <1>2, <1>3, <2>1, <2>2, <2>3 DEF VectorInv, DroppedIsEmpty, TombsAreFew
<1>4. CASE v # Bare /\ i \in Embedded \intersect Nodes /\ MaybeRebuild(tombs \union {i}, lapsed)
  <2>1. built
    BY <1>0, <1>4 DEF DroppedIsEmpty
  <2>2. tombs \union {i} \subseteq Nodes /\ tombs \union {i} \in SUBSET Ids /\ lapsed \in SUBSET Ids
    BY <1>0, <1>4, <2>1 DEF NodesStand, VectorTypeOK
  <2>3. /\ \/ built' = FALSE /\ graph' = NoGraph /\ tombs' = {} /\ lapsed' = {}
           \/ UNCHANGED <<built, graph>> /\ tombs' = tombs \union {i} /\ lapsed' = lapsed
        /\ TombsAreFew' /\ DroppedIsEmpty' /\ IsFiniteSet(Nodes)'
    BY <1>4, <2>2, MaybeRebuildKeeps
  <2>4. VectorTypeOK'
    BY <1>0, <2>2, <2>3 DEF VectorTypeOK, NoGraph
  <2>5. NodesStand'
    <3>1. CASE built' = FALSE
      BY <3>1 DEF NodesStand
    <3>2. CASE UNCHANGED <<built, graph>> /\ tombs' = tombs \union {i} /\ lapsed' = lapsed
      <4>1. Nodes' = Nodes /\ Embedded' = Embedded
        BY <1>1, <1>4, <3>2 DEF Nodes, Embedded
      <4>2. QED
        BY <1>0, <1>1, <2>2, <3>2, <4>1 DEF NodesStand, Nodes
    <3>3. QED
      BY <2>3, <3>1, <3>2
  <2>6. QED
    BY <1>2, <2>3, <2>4, <2>5 DEF VectorInv
<1>5. CASE /\ v # Bare /\ i \notin Embedded \intersect Nodes /\ built /\ i \notin Nodes
           /\ graph' = [graph EXCEPT ![i] = v] /\ tombs' = tombs \ {i}
           /\ UNCHANGED <<built, lapsed>>
  <2>1. Nodes' = Nodes \union {i} /\ Embedded' = Embedded \union {i}
    BY <1>0, <1>1, <1>5 DEF Nodes, Embedded, VectorTypeOK
  <2>2. tombs' = tombs /\ v \in Vectors
    BY <1>0, <1>5 DEF NodesStand
  <2>3. VectorTypeOK'
    BY <1>0, <1>5, <2>2 DEF VectorTypeOK
  <2>4. NodesStand'
    BY <1>0, <1>1, <1>5, <2>1, <2>2 DEF NodesStand, VectorTypeOK, Nodes
  <2>5. IsFiniteSet(Nodes') /\ Cardinality(Nodes') = Cardinality(Nodes) + 1
    BY <1>0, <1>5, <2>1, FS_AddElement
  <2>6. TombsAreFew'
    <3>1. IsFiniteSet(tombs)
      BY <1>0, <1>5, FS_Subset DEF NodesStand
    <3>2. Cardinality(tombs) \in Nat /\ Cardinality(Nodes) \in Nat
      BY <1>0, <3>1, FS_CardinalityType
    <3>3. RatioOver * (Cardinality(Nodes) + 1) = RatioOver * Cardinality(Nodes) + RatioOver
      BY <3>2, VectorAssumption
    <3>4. /\ Cardinality(tombs) * RatioUnder \in Nat /\ RatioOver * Cardinality(Nodes) \in Nat
          /\ RatioOver \in Nat
      BY <3>2, VectorAssumption
    <3>5. QED
      BY <1>0, <2>2, <2>5, <3>3, <3>4 DEF TombsAreFew
  <2>7. QED
    BY <1>2, <1>5, <2>3, <2>4, <2>5, <2>6 DEF VectorInv, DroppedIsEmpty
<1>6. CASE /\ v # Bare /\ i \notin Embedded \intersect Nodes /\ ~(built /\ i \notin Nodes)
           /\ UNCHANGED <<graph, tombs, built, lapsed>>
  <2>1. Nodes' = Nodes /\ Embedded' = Embedded \union {i}
    BY <1>0, <1>1, <1>6 DEF Nodes, Embedded, VectorTypeOK
  <2>2. VectorTypeOK'
    BY <1>0, <1>6 DEF VectorTypeOK
  <2>3. built => i \in Nodes /\ (i \notin tombs => i \in lapsed)
    BY <1>0, <1>6 DEF NodesStand, VectorTypeOK, Embedded, Nodes
  <2>4. NodesStand'
    BY <1>0, <1>1, <1>6, <2>1, <2>3 DEF NodesStand, Nodes
  <2>5. QED
    BY <1>0, <1>2, <1>6, <2>1, <2>2, <2>4 DEF VectorInv, DroppedIsEmpty, TombsAreFew
<1>7. QED
  BY <1>3, <1>4, <1>5, <1>6 DEF UpsertRecord

LEMMA DeleteRecordsKeeps ==
  ASSUME VectorInv, NEW some \in SUBSET Ids, Delete(some)
  PROVE  VectorInv'
<1> DEFINE held == {i \in some : records[i] # Absent}
           dead == tombs \union (held \intersect Nodes)
<1>0. /\ VectorTypeOK /\ DroppedIsEmpty /\ NodesStand /\ TombsAreFew
      /\ IsFiniteSet(Nodes) /\ IsFiniteSet(Embedded)
  BY DEF VectorInv
<1>1. records' = [i \in Ids |-> IF i \in held THEN Absent ELSE records[i]]
  BY DEF Delete
<1>2. dead \subseteq Nodes /\ dead \in SUBSET Ids /\ lapsed \ held \in SUBSET Ids
  BY <1>0 DEF DroppedIsEmpty, NodesStand, VectorTypeOK
<1>3. /\ \/ built' = FALSE /\ graph' = NoGraph /\ tombs' = {} /\ lapsed' = {}
         \/ UNCHANGED <<built, graph>> /\ tombs' = dead /\ lapsed' = lapsed \ held
      /\ TombsAreFew' /\ DroppedIsEmpty' /\ IsFiniteSet(Nodes)'
  <2>1. MaybeRebuild(dead, lapsed \ held)
    BY DEF Delete
  <2> HIDE DEF dead, held
  <2>2. QED
    BY <1>2, <2>1, MaybeRebuildKeeps
<1>4. Embedded' \subseteq Embedded
  BY <1>1, VectorAssumption DEF Embedded
<1>5. IsFiniteSet(Embedded')
  BY <1>0, <1>4, FS_Subset
<1>6. VectorTypeOK'
  BY <1>0, <1>1, <1>2, <1>3 DEF VectorTypeOK, NoGraph
<1>7. NodesStand'
  <2>1. CASE built' = FALSE
    BY <2>1 DEF NodesStand
  <2>2. CASE UNCHANGED <<built, graph>> /\ tombs' = dead /\ lapsed' = lapsed \ held
    <3>1. Nodes' = Nodes
      BY <2>2 DEF Nodes
    <3>2. \A i \in Nodes \ dead : i \notin held /\ records'[i] = records[i] /\ i \in Ids
      BY <1>1 DEF Nodes
    <3>3. QED
      BY <1>0, <1>2, <1>4, <2>2, <3>1, <3>2 DEF NodesStand
  <2>3. QED
    BY <1>3, <2>1, <2>2
<1>8. QED
  BY <1>3, <1>5, <1>6, <1>7 DEF VectorInv

LEMMA DenseSearchKeeps ==
  ASSUME VectorInv, DenseSearch
  PROVE  VectorInv'
<1>1. Embedded' = Embedded /\ Nodes' = Embedded
  BY VectorAssumption DEF DenseSearch, Embedded, Nodes
<1>2. VectorTypeOK'
  BY DEF VectorInv, VectorTypeOK, DenseSearch, Embedded
<1>3. NodesStand'
  BY <1>1, VectorAssumption DEF NodesStand, DenseSearch, Embedded
<1>4. QED
  BY <1>1, <1>2, <1>3 DEF VectorInv, DenseSearch, DroppedIsEmpty, TombsAreFew

\* Nodes without a tombstone stand for records, and tombstones stay under the
\* share at which _maybeRebuild drops the graph.
THEOREM VectorInvariance == VectorSpec => []VectorInv
<1>1. VectorInv /\ [VectorNext]_vectorVars => VectorInv'
  <2>1. ASSUME VectorInv, UNCHANGED vectorVars PROVE VectorInv'
    BY <2>1 DEF vectorVars, VectorInv, VectorTypeOK, DroppedIsEmpty, NodesStand, TombsAreFew, Nodes,
       Embedded
  <2>2. QED
    BY <2>1, UpsertRecordKeeps, DeleteRecordsKeeps, DenseSearchKeeps DEF VectorNext
<1>2. QED
  BY <1>1, VectorInitInv, PTL DEF VectorSpec

\* Every variable keeps its type.
THEOREM VectorTypeCorrectness == VectorSpec => []VectorTypeOK
<1>1. VectorInv => VectorTypeOK
  BY DEF VectorInv
<1>2. QED
  BY <1>1, VectorInvariance, PTL

\* "Search cannot return the stale neighbour" (MemoryVectorStore.ts:88-89), for
\* any set of ids, finite or not, and any ratio.
THEOREM NoStaleNeighbour == VectorSpec => []SearchIsCurrent
<1>1. ASSUME VectorInv, built
      PROVE  /\ \A i \in Found \ lapsed : graph[i] = records[i]
             /\ \/ Embedded \subseteq Found
                \/ Cardinality(Embedded \ Found) * RatioUnder < RatioOver * Cardinality(Nodes)
  <2>1. \A i \in Found \ lapsed : graph[i] = records[i]
    BY <1>1 DEF VectorInv, NodesStand, Found
  <2>2. Embedded \ Found \subseteq tombs
    BY <1>1, VectorAssumption DEF VectorInv, NodesStand, Found, Embedded
  <2>3. CASE tombs = {}
    BY <2>1, <2>2, <2>3
  <2>4. CASE Cardinality(tombs) * RatioUnder < RatioOver * Cardinality(Nodes)
    <3>1. IsFiniteSet(tombs)
      BY <1>1, FS_Subset DEF VectorInv, NodesStand
    <3>2. /\ Cardinality(Embedded \ Found) <= Cardinality(tombs)
          /\ Cardinality(Embedded \ Found) \in Nat /\ Cardinality(tombs) \in Nat
      BY <2>2, <3>1, FS_Subset, FS_CardinalityType
    <3>3. Cardinality(Nodes) \in Nat
      BY <1>1, FS_CardinalityType DEF VectorInv
    <3>4. Cardinality(Embedded \ Found) * RatioUnder <= Cardinality(tombs) * RatioUnder
      BY <3>2, VectorAssumption
    <3>5. QED
      BY <2>1, <2>4, <3>2, <3>3, <3>4, VectorAssumption
  <2>5. QED
    BY <1>1, <2>3, <2>4 DEF VectorInv, TombsAreFew
<1>2. VectorInv => SearchIsCurrent
  BY <1>1 DEF SearchIsCurrent
<1>3. QED
  BY <1>2, VectorInvariance, PTL

-----------------------------------------------------------------------------
(* The limiter of model calls.                                                *)

\* Every set of numbers has a smallest one.
LEMMA SmallestNumber ==
  ASSUME NEW S \in SUBSET Nat, S # {}
  PROVE  \E n \in S : \A m \in S : n <= m
<1>1. PICK n \in S : \A m \in S : ~(<<m, n>> \in OpToRel(<, Nat))
  BY NatLessThanWellFounded, WFMin
<1>2. \A m \in S : ~(m < n)
  BY <1>1 DEF OpToRel
<1>3. QED
  BY <1>2

\* pump takes no more calls than there is room, and leaves none while there is.
LEMMA TakenFits ==
  ASSUME NEW queue \in Seq(Requests), NEW room \in Nat \ {0}
  PROVE  /\ Taken(queue, room) \in 0..Len(queue)
         /\ IsFiniteSet(Live(queue, Taken(queue, room)))
         /\ Cardinality(Live(queue, Taken(queue, room))) <= room
         /\ \/ Taken(queue, room) = Len(queue)
            \/ Cardinality(Live(queue, Taken(queue, room))) >= room
<1> DEFINE Enough(n) == n = Len(queue) \/ Cardinality(Live(queue, n)) >= room
           S == {n \in 0..Len(queue) : Enough(n)}
<1>1. Len(queue) \in Nat
  OBVIOUS
<1>2. \A n \in 0..Len(queue) : IsFiniteSet(Live(queue, n)) /\ Cardinality(Live(queue, n)) \in Nat
  <2>1. SUFFICES ASSUME NEW n \in 0..Len(queue)
                 PROVE  IsFiniteSet(Live(queue, n)) /\ Cardinality(Live(queue, n)) \in Nat
    OBVIOUS
  <2>2. IsFiniteSet(1..n) /\ Live(queue, n) \in SUBSET (1..n)
    BY <1>1, FS_Interval DEF Live
  <2>3. QED
    BY <2>2, FS_Subset, FS_CardinalityType
<1>3. PICK n \in S : \A m \in S : n <= m
  <2>1. S \in SUBSET Nat /\ Len(queue) \in S
    BY <1>1
  <2>2. QED
    BY <2>1, SmallestNumber
<1>4. \A m \in 0..(n - 1) : Cardinality(Live(queue, m)) < room
  <2>1. SUFFICES ASSUME NEW m \in 0..(n - 1) PROVE Cardinality(Live(queue, m)) < room
    OBVIOUS
  <2>2. m \in 0..Len(queue) /\ m \notin S
    BY <1>1, <1>3
  <2>3. ~(Cardinality(Live(queue, m)) >= room)
    BY <2>2
  <2>4. QED
    BY <1>2, <2>2, <2>3
<1>5. /\ Taken(queue, room) \in 0..Len(queue) /\ Enough(Taken(queue, room))
      /\ \A m \in 0..(Taken(queue, room) - 1) : Cardinality(Live(queue, m)) < room
  <2>1. n \in 0..Len(queue) /\ Enough(n)
    BY <1>3
  <2>2. QED
    BY <1>4, <2>1 DEF Taken
<1> DEFINE t == Taken(queue, room)
<1>6. Cardinality(Live(queue, t)) <= room
  <2> HIDE DEF t
  <2>0. t \in 0..Len(queue) /\ \A m \in 0..(t - 1) : Cardinality(Live(queue, m)) < room
    BY <1>5 DEF t
  <2>1. CASE t = 0
    <3>1. Live(queue, t) = {}
      BY <2>1 DEF Live
    <3>2. QED
      BY <3>1, FS_EmptySet
  <2>2. CASE t # 0
    <3>1. t - 1 \in 0..Len(queue) /\ t - 1 \in 0..(t - 1)
      BY <1>1, <2>0, <2>2
    <3>2. Live(queue, t) \subseteq Live(queue, t - 1) \union {t}
      BY <1>1, <2>0, <2>2 DEF Live
    <3>3. /\ IsFiniteSet(Live(queue, t - 1) \union {t})
          /\ Cardinality(Live(queue, t - 1) \union {t}) <= Cardinality(Live(queue, t - 1)) + 1
      <4>1. IsFiniteSet(Live(queue, t - 1)) /\ Cardinality(Live(queue, t - 1)) \in Nat
        BY <1>2, <3>1
      <4>2. /\ IsFiniteSet(Live(queue, t - 1) \union {t})
            /\ Cardinality(Live(queue, t - 1) \union {t}) =
                 IF t \in Live(queue, t - 1) THEN Cardinality(Live(queue, t - 1))
                 ELSE Cardinality(Live(queue, t - 1)) + 1
        BY <4>1, FS_AddElement
      <4>3. QED
        BY <4>1, <4>2
    <3>4. Cardinality(Live(queue, t)) <= Cardinality(Live(queue, t - 1) \union {t})
      BY <3>2, <3>3, FS_Subset
    <3>5. /\ Cardinality(Live(queue, t)) \in Nat /\ Cardinality(Live(queue, t - 1)) \in Nat
          /\ Cardinality(Live(queue, t - 1) \union {t}) \in Nat
      BY <1>2, <2>0, <3>1, <3>3, FS_CardinalityType
    <3>6. Cardinality(Live(queue, t - 1)) < room
      BY <2>0, <3>1
    <3>7. QED
      BY <3>3, <3>4, <3>5, <3>6
  <2>3. QED
    BY <2>1, <2>2
<1>7. QED
  BY <1>2, <1>5, <1>6

RequestStates == {"new", "waiting", "running", "settled", "refused", "over"}

\* pump fills the slots up to the width, or takes the whole line.
LEMMA PumpFills ==
  ASSUME NEW queue \in Seq(Requests), NEW state \in [Requests -> RequestStates],
         InLine(queue, state), IsFiniteSet(Active(state)), Cardinality(Active(state)) <= Cap,
         width' \in 1..Cap, Pump(queue, state)
  PROVE  /\ line' \in Seq(Requests) /\ request' \in [Requests -> RequestStates]
         /\ InLine(line, request)'
         /\ IsFiniteSet(Active(request')) /\ Cardinality(Active(request')) <= Cap
         /\ line' # <<>> => Cardinality(Active(request')) >= width'
<1> DEFINE active == Cardinality(Active(state))
           first == IF active < width' THEN Taken(queue, width' - active) ELSE 0
           gone == {queue[i] : i \in 1..first}
           begun == {queue[i] : i \in Live(queue, first)}
<1>0. active \in Nat /\ Len(queue) \in Nat /\ width' \in Nat /\ Cap \in Nat
  BY FS_CardinalityType, LimiterAssumption
<1>1. /\ first \in 0..Len(queue)
      /\ IsFiniteSet(Live(queue, first))
      /\ Cardinality(Live(queue, first)) \in Nat
      /\ active + Cardinality(Live(queue, first)) <= Cap
      /\ first = Len(queue) \/ active + Cardinality(Live(queue, first)) >= width'
  <2>1. CASE active < width'
    <3>1. width' - active \in Nat \ {0} /\ first = Taken(queue, width' - active)
      BY <1>0, <2>1
    <3> HIDE DEF active, first
    <3>2. /\ first \in 0..Len(queue)
          /\ IsFiniteSet(Live(queue, first))
          /\ Cardinality(Live(queue, first)) <= width' - active
          /\ first = Len(queue) \/ Cardinality(Live(queue, first)) >= width' - active
      BY <3>1, TakenFits
    <3>3. Cardinality(Live(queue, first)) \in Nat
      BY <3>2, FS_CardinalityType
    <3>4. QED
      BY <1>0, <3>2, <3>3
  <2>2. CASE ~(active < width')
    <3>1. first = 0 /\ Live(queue, first) = {}
      BY <2>2 DEF Live
    <3>2. IsFiniteSet(Live(queue, first)) /\ Cardinality(Live(queue, first)) = 0
      BY <3>1, FS_EmptySet
    <3>3. active <= Cap
      OBVIOUS
    <3> HIDE DEF active, first
    <3>4. QED
      BY <1>0, <2>2, <3>1, <3>2, <3>3
  <2>3. QED
    BY <2>1, <2>2
<1>2. /\ line' = SubSeq(queue, first + 1, Len(queue))
      /\ request' = [q \in Requests |-> IF q \notin gone THEN state[q]
                                        ELSE IF q \in revoked THEN "refused" ELSE "running"]
  BY DEF Pump
<1> HIDE DEF active, first
<1>3. \A i \in 1..Len(queue) : queue[i] \in Requests /\ state[queue[i]] = "waiting"
  BY DEF InLine
<1>4. /\ line' \in Seq(Requests) /\ Len(line') = Len(queue) - first
      /\ \A i \in 1..Len(line') : line'[i] = queue[first + i]
  BY <1>0, <1>1, <1>2
<1>5. request' \in [Requests -> RequestStates]
  BY <1>2 DEF RequestStates
<1>6. InLine(line, request)'
  <2>1. \A q \in Requests : request'[q] = "waiting" <=> state[q] = "waiting" /\ q \notin gone
    BY <1>2
  <2>2. \A i \in 1..Len(queue) : queue[i] \in gone <=> i <= first
    BY <1>0, <1>1 DEF InLine
  <2>3. ASSUME NEW q \in Requests, request'[q] = "waiting"
        PROVE  \E i \in DOMAIN line' : line'[i] = q
    <3>1. PICK i \in 1..Len(queue) : queue[i] = q
      BY <2>1, <2>3 DEF InLine
    <3>2. i > first /\ i - first \in 1..Len(line')
      BY <1>0, <1>1, <1>4, <2>1, <2>2, <2>3, <3>1
    <3>3. line'[i - first] = q
      BY <1>0, <1>1, <1>4, <3>1, <3>2
    <3>4. QED
      BY <1>4, <3>2, <3>3
  <2>4. ASSUME NEW i \in DOMAIN line' PROVE request'[line'[i]] = "waiting" /\ line'[i] \in Requests
    <3>1. first + i \in 1..Len(queue) /\ ~(first + i <= first) /\ line'[i] = queue[first + i]
      BY <1>0, <1>1, <1>4
    <3>2. QED
      BY <1>3, <2>1, <2>2, <3>1
  <2>5. ASSUME NEW i \in DOMAIN line', NEW j \in DOMAIN line', line'[i] = line'[j] PROVE i = j
    <3>1. first + i \in 1..Len(queue) /\ first + j \in 1..Len(queue) /\ i \in Nat /\ j \in Nat
      BY <1>0, <1>1, <1>4
    <3>2. first + i = first + j
      BY <1>4, <2>5, <3>1 DEF InLine
    <3>3. QED
      BY <1>1, <3>1, <3>2
  <2>6. QED
    BY <2>3, <2>4, <2>5 DEF InLine
<1>7. Active(request') = Active(state) \union begun
  <2>1. begun = gone \ revoked
    BY <1>0, <1>1 DEF Live
  <2>2. gone \subseteq Requests
    BY <1>0, <1>1, <1>3
  <2>3. \A q \in gone : state[q] = "waiting"
    BY <1>0, <1>1, <1>3
  <2>4. QED
    BY <1>2, <2>1, <2>2, <2>3 DEF Active
<1>8. /\ IsFiniteSet(begun) /\ Cardinality(begun) = Cardinality(Live(queue, first))
      /\ Active(state) \intersect begun = {}
  <2> DEFINE f == [i \in Live(queue, first) |-> queue[i]]
  <2>1. Live(queue, first) \subseteq 1..Len(queue)
    BY <1>0, <1>1 DEF Live
  <2>2. f \in Bijection(Live(queue, first), begun)
    <3>1. f \in [Live(queue, first) -> begun]
      OBVIOUS
    <3>2. \A i, j \in Live(queue, first) : f[i] = f[j] => i = j
      BY <2>1 DEF InLine
    <3>3. \A q \in begun : \E i \in Live(queue, first) : f[i] = q
      OBVIOUS
    <3> HIDE DEF f, begun
    <3>4. QED
      BY <3>1, <3>2, <3>3 DEF Bijection, Injection, Surjection, IsInjective
  <2>3. ExistsBijection(Live(queue, first), begun)
    BY <2>2 DEF ExistsBijection
  <2>4. Active(state) \intersect begun = {}
    BY <1>3, <2>1 DEF Active
  <2>5. QED
    BY <1>1, <2>3, <2>4, FS_Bijection
<1>9. /\ IsFiniteSet(Active(request'))
      /\ Cardinality(Active(request')) = active + Cardinality(Live(queue, first))
  <2>1. Cardinality({}) = 0 /\ active = Cardinality(Active(state))
    BY FS_EmptySet DEF active
  <2> HIDE DEF active, begun
  <2>2. /\ IsFiniteSet(Active(state) \union begun)
        /\ Cardinality(Active(state) \union begun) =
              Cardinality(Active(state)) + Cardinality(begun) - Cardinality(Active(state) \intersect begun)
    BY <1>8, FS_Union
  <2>3. Cardinality(Active(state)) \in Nat /\ Cardinality(begun) \in Nat
    BY <1>0, <1>8, FS_CardinalityType
  <2>4. Cardinality(Active(state) \intersect begun) = 0
    BY <1>8, <2>1
  <2>5. Cardinality(Active(state) \union begun) = Cardinality(Active(state)) + Cardinality(begun)
    BY ONLY <2>2, <2>3, <2>4
  <2>6. QED
    BY <1>7, <1>8, <2>1, <2>2, <2>5
<1>10. line' # <<>> => Cardinality(Active(request')) >= width'
  <2>1. line' # <<>> => first # Len(queue)
    BY <1>0, <1>1, <1>4
  <2>2. QED
    BY <1>1, <1>9, <2>1
<1>11. QED
  BY <1>1, <1>4, <1>5, <1>6, <1>9, <1>10

LEMMA LimiterInitInv == LimiterInit => LimiterInv
<1> SUFFICES ASSUME LimiterInit PROVE LimiterInv
  OBVIOUS
<1>1. LimiterTypeOK /\ InLine(line, request)
  BY LimiterAssumption DEF LimiterInit, LimiterTypeOK, InLine
<1>2. Active(request) = {}
  BY DEF LimiterInit, Active
<1>3. IsFiniteSet(Active(request)) /\ Cardinality(Active(request)) = 0
  BY <1>2, FS_EmptySet
<1>4. QED
  BY <1>1, <1>3, LimiterAssumption DEF LimiterInv, LimiterInit

LEMMA RunKeeps ==
  ASSUME LimiterInv, NEW q \in Requests, Run(q)
  PROVE  LimiterInv'
<1> DEFINE queue == Append(line, q)
           state == [request EXCEPT ![q] = "waiting"]
<1>0. LimiterTypeOK /\ InLine(line, request) /\ request[q] = "new" /\ width' = width
      /\ successes' = successes /\ revoked' = revoked /\ Pump(queue, state)
  BY DEF LimiterInv, Run
<1>1. queue \in Seq(Requests) /\ state \in [Requests -> RequestStates]
  BY <1>0 DEF LimiterTypeOK, RequestStates
<1>2. InLine(queue, state)
  <2>1. /\ Len(line) \in Nat /\ Len(queue) = Len(line) + 1 /\ queue[Len(line) + 1] = q
        /\ \A i \in 1..Len(line) : queue[i] = line[i] /\ line[i] # q
    BY <1>0 DEF LimiterTypeOK, InLine
  <2>2. \A i \in 1..Len(queue) : i \in 1..Len(line) \/ i = Len(line) + 1
    BY <2>1
  <2>3. \A r \in Requests : state[r] = "waiting" <=> r = q \/ request[r] = "waiting"
    BY <1>0 DEF LimiterTypeOK
  <2>4. DOMAIN queue = 1..Len(queue) /\ DOMAIN line = 1..Len(line) /\ Len(line) + 1 \in 1..Len(queue)
    BY <1>0, <2>1 DEF LimiterTypeOK
  <2>5. 1..Len(line) \subseteq 1..Len(queue)
    BY <2>1
  <2> HIDE DEF queue, state
  <2>6. QED
    BY <1>0, <2>1, <2>2, <2>3, <2>4, <2>5 DEF InLine
<1>3. Active(state) = Active(request)
  BY <1>0 DEF Active, LimiterTypeOK
<1> HIDE DEF queue, state
<1>4. QED
  BY <1>0, <1>1, <1>2, <1>3, PumpFills DEF LimiterInv, LimiterTypeOK, RequestStates

LEMMA FreesKeeps ==
  ASSUME LimiterInv, NEW q \in Requests, Frees(q)
  PROVE  LimiterInv'
<1> DEFINE state == [request EXCEPT ![q] = "over"]
<1>0. LimiterTypeOK /\ InLine(line, request) /\ request[q] = "settled" /\ width' = width
      /\ successes' = successes /\ revoked' = revoked /\ Pump(line, state)
      /\ IsFiniteSet(Active(request)) /\ Cardinality(Active(request)) <= Cap
  BY DEF LimiterInv, Frees
<1>1. line \in Seq(Requests) /\ state \in [Requests -> RequestStates]
  BY <1>0 DEF LimiterTypeOK, RequestStates
<1>2. InLine(line, state)
  BY <1>0 DEF InLine, LimiterTypeOK
<1>3. Active(state) = Active(request) \ {q}
  BY <1>0 DEF Active, LimiterTypeOK
<1> HIDE DEF state
<1>4. IsFiniteSet(Active(state)) /\ Cardinality(Active(state)) <= Cap
  <2>1. /\ Active(state) \subseteq Active(request) /\ Cardinality(Active(request)) \in Nat
        /\ Cap \in Nat
    BY <1>0, <1>3, FS_CardinalityType, LimiterAssumption
  <2>2. /\ IsFiniteSet(Active(state)) /\ Cardinality(Active(state)) <= Cardinality(Active(request))
    BY <1>0, <2>1, FS_Subset
  <2>3. Cardinality(Active(state)) \in Nat
    BY <2>2, FS_CardinalityType
  <2>4. QED
    BY <1>0, <2>1, <2>2, <2>3
<1>5. QED
  BY <1>0, <1>1, <1>2, <1>4, PumpFills DEF LimiterInv, LimiterTypeOK, RequestStates

LEMMA AnswerKeeps ==
  ASSUME LimiterInv, NEW q \in Requests, Answers(q) \/ RateLimited(q) \/ Errs(q)
  PROVE  LimiterInv'
<1>0. LimiterTypeOK /\ InLine(line, request)
      /\ request[q] = "running" /\ request' = [request EXCEPT ![q] = "settled"]
      /\ line' = line /\ revoked' = revoked
  BY DEF LimiterInv, Answers, RateLimited, Errs
<1>1. width' \in 1..Cap /\ successes' \in Nat
  <2>1. width \in 1..Cap /\ successes \in Nat /\ Cap \in Nat
    BY <1>0, LimiterAssumption DEF LimiterTypeOK
  <2>2. CASE Answers(q)
    BY <2>1, <2>2 DEF Answers
  <2>3. CASE RateLimited(q)
    BY <2>1, <2>3 DEF RateLimited
  <2>4. CASE Errs(q)
    BY <2>1, <2>4 DEF Errs
  <2>5. QED
    BY <2>2, <2>3, <2>4
<1>2. LimiterTypeOK'
  BY <1>0, <1>1 DEF LimiterTypeOK
<1>3. InLine(line, request)'
  BY <1>0 DEF InLine, LimiterTypeOK
<1>4. Active(request') = Active(request) /\ request'[q] = "settled"
  BY <1>0 DEF Active, LimiterTypeOK
<1>5. QED
  BY <1>2, <1>3, <1>4 DEF LimiterInv

\* The line has every waiting call once, and is empty or the slots are full, once
\* every answer has freed its slot.
THEOREM LimiterInvariance == LimiterSpec => []LimiterInv
<1>1. LimiterInv /\ [LimiterNext]_limiterVars => LimiterInv'
  <2>1. ASSUME LimiterInv, UNCHANGED <<width, successes, line, request>>, revoked' \subseteq Requests
        PROVE  LimiterInv'
    BY <2>1 DEF LimiterInv, LimiterTypeOK, InLine, Active
  <2>2. ASSUME LimiterInv, NEW q \in Requests, Revoke(q) PROVE LimiterInv'
    BY <2>1, <2>2 DEF Revoke, LimiterInv, LimiterTypeOK
  <2>3. ASSUME LimiterInv, UNCHANGED limiterVars PROVE LimiterInv'
    BY <2>1, <2>3 DEF limiterVars, LimiterInv, LimiterTypeOK
  <2>4. QED
    BY <2>2, <2>3, RunKeeps, FreesKeeps, AnswerKeeps DEF LimiterNext
<1>2. QED
  BY <1>1, LimiterInitInv, PTL DEF LimiterSpec

\* Every variable keeps its type: the width stays between one and the cap.
THEOREM LimiterTypeCorrectness == LimiterSpec => []LimiterTypeOK
<1>1. LimiterInv => LimiterTypeOK
  BY DEF LimiterInv
<1>2. QED
  BY <1>1, LimiterInvariance, PTL

\* No slot is idle while a call waits, and never are more than the cap in flight,
\* for any number of calls (modelLimiter.ts).
THEOREM NoIdleSlot == LimiterSpec => []SlotsAreUsed
<1>1. ASSUME LimiterInv, NEW q \in Requests
      PROVE  Cardinality({i \in DOMAIN line : line[i] = q}) = IF request[q] = "waiting" THEN 1 ELSE 0
  <2>1. CASE request[q] = "waiting"
    <3>1. PICK i \in DOMAIN line : line[i] = q
      BY <1>1, <2>1 DEF LimiterInv, InLine
    <3>2. {j \in DOMAIN line : line[j] = q} = {i}
      BY <1>1, <3>1 DEF LimiterInv, InLine
    <3>3. QED
      BY <2>1, <3>2, FS_Singleton
  <2>2. CASE request[q] # "waiting"
    <3>1. {j \in DOMAIN line : line[j] = q} = {}
      BY <1>1, <2>2 DEF LimiterInv, InLine
    <3>2. QED
      BY <2>2, <3>1, FS_EmptySet
  <2>3. QED
    BY <2>1, <2>2
<1>2. LimiterInv => SlotsAreUsed
  BY <1>1 DEF LimiterInv, SlotsAreUsed
<1>3. QED
  BY <1>2, LimiterInvariance, PTL

-----------------------------------------------------------------------------
(* The components side by side.                                               *)

\* Each component moves by its own steps, whichever of them moves.
LEMMA PartsMoveAlone ==
  [MCNext]_MCVars =>
    /\ [ServerNext]_serverVars /\ [IngestNext]_ingestVars /\ [VectorNext]_vectorVars
    /\ [CognitionNext]_cognitionVars /\ [SnapNext]_snapVars /\ [LimiterNext]_limiterVars
BY DEF MCNext, MCVars

LEMMA PartsRunAlone ==
  MCSpec => ServerSpec /\ IngestSpec /\ VectorSpec /\ CognitionSpec /\ SnapSpec /\ LimiterSpec
<1>1. MCInit => /\ ServerInit /\ IngestInit /\ VectorInit
                /\ CognitionInit /\ SnapInit /\ LimiterInit
  BY DEF MCInit
<1>2. QED
  BY <1>1, PartsMoveAlone, PTL
     DEF MCSpec, ServerSpec, IngestSpec, VectorSpec, CognitionSpec, SnapSpec, LimiterSpec

\* All types at once, whichever component moves and whatever the bounds.
THEOREM ServicesTypes == MCSpec => []ServicesTypeOK
<1>1. SnapInv => SnapTypeOK
  BY DEF SnapInv
<1>2. ( /\ ServerTypeOK /\ IngestTypeOK /\ VectorTypeOK
        /\ CognitionTypeOK /\ SnapTypeOK /\ LimiterTypeOK ) => ServicesTypeOK
  BY DEF ServicesTypeOK
<1>3. QED
  BY <1>1, <1>2, PartsRunAlone, ServerTypes, IngestTypeCorrectness, VectorTypeCorrectness,
     CognitionTypes, SnapInvariance, LimiterTypeCorrectness, PTL

\* What each component promises alone it keeps among the others, and the knowledge
\* store implements DurableStore.
THEOREM ServicesKeepTheirPromises ==
  MCSpec => /\ [](StubsAreBacked /\ KnownIsMirrored /\ NewestIsRead)
            /\ [](IngestedIsExact /\ SearchIsCurrent /\ CommitIsAtomic /\ SlotsAreUsed)
            /\ ImplementsDurableStore
  BY PartsRunAlone, Backing, Mirroring, Reading, IngestionIsExact, NoStaleNeighbour, Atomicity,
     NoIdleSlot, SnapRefinement, PTL
=============================================================================
