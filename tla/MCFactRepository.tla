-------------------------- MODULE MCFactRepository --------------------------
(***************************************************************************)
(* FactRepository on a small instance: callers of one partition or of two, *)
(* records that never expire or expire at once, and imports from a store   *)
(* whose clock and sequence run behind or ahead of this one.               *)
(***************************************************************************)
EXTENDS FactRepository, TLC

CONSTANTS a, b, d, p, q, k1, k2

OneScope == [c \in Callers |-> p]
OwnScope == [c \in Callers |-> IF c = d THEN q ELSE p]

Forever == {NoTtl}
LiveAndShort == {NoTtl, 0}
Short == {0}

\* An older and a newer source clock, each with a sequence that ties or leads.
OldRecord == [timestamp |-> 0, seq |-> 3, ttl |-> NoTtl]
NewRecord == [timestamp |-> 1, seq |-> 0, ttl |-> NoTtl]
OldAndNew == {OldRecord, NewRecord}
OldLeading == {OldRecord}
OldShort == {[OldRecord EXCEPT !.ttl = 0]}

\* Callers of one partition are interchangeable, and so are keys.
CallersAndKeys == Permutations({a, b}) \cup Permutations(Keys)

\* Rows journaled, and marked synced, by an older version.
LegacyRow(c) ==
    [opId |-> <<c, 0>>, kind |-> "remember", id |-> <<ScopeOf[c], k1>>, revision |-> 0, synced |-> TRUE]
LegacyRows == {LegacyRow(d)}
NoLegacyRow == {}
=============================================================================
