----------------------------- MODULE MCWorkRuns -----------------------------
(***************************************************************************)
(* Bounded instances of WorkRuns: one cfg per question.                    *)
(***************************************************************************)
EXTENDS WorkRuns, TLC

MCLimits == {5}
\* The smaller one leaves nothing beyond the budget of a run.
MCTightLimits == {2, 5}

MCClass == [t \in Tools |-> IF t = "read" THEN "READ"
                            ELSE IF t = "send" THEN "SENSITIVE" ELSE "WRITE"]
\* "again" is another call of the tool of "write".
MCName == [t \in Tools |-> IF t = "again" THEN "write" ELSE t]

MCSymmetry == Permutations(Workers) \cup Permutations(Deciders)
============================================================================
