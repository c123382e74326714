--------------------------- MODULE MCOrchestrator ---------------------------
(***************************************************************************)
(* A registry for TLC: two models in the lowest tier and one in the next.  *)
(* One thread routes, the other makes direct and compare calls of the same *)
(* models.                                                                 *)
(***************************************************************************)
EXTENDS Orchestrator, TLC

CONSTANTS a, b, c, r1, r2

MCModels == {a, b, c}
MCTierOf == (a :> 0) @@ (b :> 0) @@ (c :> 1)
MCRequests == {r1, r2}
MCKinds == (r1 :> {"smart"}) @@ (r2 :> {"direct", "compare"})
=============================================================================
