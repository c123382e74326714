--------------------------- MODULE MCSubscriptions ---------------------------
(***************************************************************************)
(* Instance of Subscriptions: two subscriptions, interchangeable.          *)
(***************************************************************************)
EXTENDS Subscriptions

CONSTANTS s1, s2

Symmetry == Permutations(Subs)
=============================================================================
