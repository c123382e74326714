----------------------------- MODULE MCRequests -----------------------------
(***************************************************************************)
(* A bounded instance of Requests.  One request: what the others of the    *)
(* account do to it is a change of the allowance left, which plan changes  *)
(* make as well, and a cleanup, which any process may run.                 *)
(***************************************************************************)
EXTENDS Requests

MCLimits == {1, 3}
MCCost == [t \in Targets |-> IF t = 1 THEN 2 ELSE 1]
=============================================================================
