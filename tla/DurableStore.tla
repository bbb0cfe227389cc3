---------------------------- MODULE DurableStore ----------------------------
(* What a knowledge store promises its callers (KnowledgeStore and its       *)
(* batched, knowledge/model.ts): changes are applied in memory first and     *)
(* become durable later, in any groups; what a caller was promised is        *)
(* durable and stays so, whatever fails or dies.                             *)
VARIABLES held,     \* the changes that reads see
          durable,  \* the changes that a new process would find
          promised  \* the changes whose durability was acknowledged

store == <<held, durable, promised>>

StoreInit == held = {} /\ durable = {} /\ promised = {}

Apply(S) == held' = held \union S /\ UNCHANGED <<durable, promised>>

\* A write makes S durable; callers may be told so of P.
Persist(S, P) == /\ S \subseteq held
                 /\ durable' = durable \union S
                 /\ P \subseteq durable \union S
                 /\ promised' = promised \union P
                 /\ UNCHANGED held

\* The process dies, perhaps in the middle of a write.
Die(S) == /\ S \subseteq held
          /\ durable' = durable \union S
          /\ held' = durable \union S
          /\ UNCHANGED promised

StoreNext == \/ Apply(held' \ held)
             \/ Persist(durable' \ durable, promised' \ promised)
             \/ Die(durable' \ durable)

StoreSpec == StoreInit /\ [][StoreNext]_store
=============================================================================
