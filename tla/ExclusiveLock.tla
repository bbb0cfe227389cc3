--------------------------- MODULE ExclusiveLock ---------------------------
(***************************************************************************)
(* What a lock of the node-file adapter promises: at most one client is in *)
(* its read-write transaction.  A client that dies holds nothing.          *)
(***************************************************************************)
CONSTANTS
    Clients,    \* the processes sharing one memory file
    NoClient

VARIABLE owner  \* the client inside its transaction

LockInit == owner = NoClient

Acquire(c) == owner = NoClient /\ owner' = c

Release(c) == owner = c /\ owner' = NoClient

LockNext == \E c \in Clients : Acquire(c) \/ Release(c)

LockSpec == LockInit /\ [][LockNext]_owner
=============================================================================
