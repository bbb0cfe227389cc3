-------------------------- MODULE MCNodeFileStore --------------------------
(***************************************************************************)
(* NodeFileStore with two processes, or three.                             *)
(***************************************************************************)
EXTENDS NodeFileStore

CONSTANTS a, b, d
=============================================================================
