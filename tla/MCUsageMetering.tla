-------------------------- MODULE MCUsageMetering --------------------------
(***************************************************************************)
(* A bounded instance of UsageMetering.                                    *)
(***************************************************************************)
EXTENDS UsageMetering, TLC

MCLimits == {1, 3}

MCSymmetry == Permutations(Requests) \cup Permutations(Periods)
============================================================================
