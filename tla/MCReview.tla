------------------------------ MODULE MCReview ------------------------------
(* Reviews over a directory that has some of the files. The store takes its   *)
(* steps from DurableStore, which SnapshotStore implements.                   *)
EXTENDS Review

VARIABLE present  \* the files the directory may have

MCInit ==
  /\ ReviewInit
  /\ present \in {{1}, {1, 2}, {1, 3}}
  /\ \A f \in Files : source[f] = IF f \in present THEN 1 ELSE 0

\* Two files, both or one of them to judge: one review. One file: a second
\* review over what the first left, after edits.
MCBound == /\ runs' <= IF present = {1} THEN 2 ELSE 1
           /\ edits' + crashes' <= IF present = {1} THEN 2 ELSE 1
           /\ \A f \in Files \ present : source'[f] = 0

MCNext == ReviewNext /\ MCBound /\ UNCHANGED present

MCVars == <<present, reviewVars>>

MCSpec == MCInit /\ [][MCNext]_MCVars /\ ReviewFairness
=============================================================================
