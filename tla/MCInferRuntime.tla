--------------------------- MODULE MCInferRuntime --------------------------
(***************************************************************************)
(* Two requests and one worker.  The plans pair the request kinds over one  *)
(* model and one owner (the eviction and the reload of the model included), *)
(* put two owners on one id, and two ids on one file.                       *)
(***************************************************************************)
EXTENDS InferRuntime, TLC

CONSTANTS r1, r2, m1, m2, alice, bob, carol

MCOffer == alice :> [id |-> m1, path |-> "f", cfg |-> "c", typed |-> TRUE]
        @@ bob   :> [id |-> m1, path |-> "f", cfg |-> "c", typed |-> TRUE]
        @@ carol :> [id |-> m2, path |-> "f", cfg |-> "c", typed |-> TRUE]

MCPlan(k1, k2, i2, asks, regs, n) ==
    [kind |-> r1 :> k1 @@ r2 :> k2, id |-> r1 :> m1 @@ r2 :> i2,
     ask |-> asks, who |-> regs, load |-> n]

MCPlans == { MCPlan("infer", "infer", m1, {r1, r2}, {alice}, 2),
             MCPlan("item", "group", m1, {r1, r2}, {alice}, 2),
             MCPlan("infer", "item", m1, {r1}, {alice}, 3),
             MCPlan("infer", "item", m1, {r1}, {alice, bob}, 2),
             MCPlan("infer", "item", m2, {r2}, {alice, carol}, 3) }
=============================================================================
