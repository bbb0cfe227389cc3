----------------------------- MODULE MCFileLock -----------------------------
(***************************************************************************)
(* FileLock with two or three processes.                                   *)
(***************************************************************************)
EXTENDS FileLock, TLC

CONSTANTS a, b, d, p1, p2, p3

PidsInOrder == (a :> p1) @@ (b :> p2) @@ (d :> p3)
OwnPids == [c \in Clients |-> PidsInOrder[c]]
=============================================================================
