---------------------------- MODULE AtomicStore ----------------------------
(***************************************************************************)
(* What a FactStoragePort promises its writers (the storage contract of    *)
(* nodeFileAdapter.ts and idbAdapter.ts): a read-write transaction commits *)
(* as a whole on top of everything committed before it, and only what is   *)
(* committed is reported as committed.                                     *)
(***************************************************************************)
CONSTANT Transactions

VARIABLES
    store,  \* the transactions whose effect is durable
    acked   \* the transactions whose caller was told so

StoreInit == store = {} /\ acked = {}

Commit(w) == w \notin store /\ store' = store \cup {w} /\ UNCHANGED acked

Acknowledge(w) == w \in store /\ acked' = acked \cup {w} /\ UNCHANGED store

StoreNext == \E w \in Transactions : Commit(w) \/ Acknowledge(w)

StoreSpec == StoreInit /\ [][StoreNext]_<<store, acked>>
=============================================================================
