---------------------------- MODULE MCAgentGraph ----------------------------
(***************************************************************************)
(* AgentGraph on a cyclic graph that fans out to a gated and an ungated    *)
(* node.                                                                   *)
(***************************************************************************)
EXTENDS AgentGraph

CONSTANTS a, b, plan, publish, check

NameOrder == (check :> 1) @@ (plan :> 2) @@ (publish :> 3)

\* plan goes on to both, or to one of them; check goes back or stops.
LoopingRoutes ==
    (plan :> {{check, publish}, {publish}}) @@ (check :> {{plan}, {}}) @@ (publish :> {{}})
=============================================================================
