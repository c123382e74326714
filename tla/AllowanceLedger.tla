-------------------------- MODULE AllowanceLedger --------------------------
(***************************************************************************)
(* What metering promises, with no counters: every request has at most one *)
(* claim on one period, a claim is held, then charged or given back once,  *)
(* and the claims of a period together stay within what it was granted.    *)
(***************************************************************************)
EXTENDS Integers, FiniteSetsExt

CONSTANTS Requests, Periods, Limits, MaxQuantity

VARIABLES
    granted,  \* the largest allowance of each period so far
    phase,    \* "absent", "held", "charged" or "returned"
    claim,    \* credits held or charged
    account   \* the period the claim is on

vars == <<granted, phase, claim, account>>

Claimed(p) ==
    MapThenSumSet(LAMBDA r : claim[r],
                                {r \in Requests : account[r] = p})

Init ==
    /\ granted \in [Periods -> Limits \cup {0}]
    /\ phase = [r \in Requests |-> "absent"]
    /\ claim = [r \in Requests |-> 0]
    /\ account \in [Requests -> Periods]

Hold(r, p, q) ==
    /\ phase[r] = "absent"
    /\ Claimed(p) + q <= granted[p]
    /\ phase' = [phase EXCEPT ![r] = "held"]
    /\ claim' = [claim EXCEPT ![r] = q]
    /\ account' = [account EXCEPT ![r] = p]
    /\ UNCHANGED granted

Extend(r, q) ==
    /\ phase[r] = "held"
    /\ q > claim[r]
    /\ Claimed(account[r]) + q - claim[r] <= granted[account[r]]
    /\ claim' = [claim EXCEPT ![r] = q]
    /\ UNCHANGED <<granted, phase, account>>

Charge(r, n) ==
    /\ phase[r] = "held"
    /\ n <= claim[r] \/ Claimed(account[r]) + n - claim[r] <= granted[account[r]]
    /\ phase' = [phase EXCEPT ![r] = "charged"]
    /\ claim' = [claim EXCEPT ![r] = n]
    /\ UNCHANGED <<granted, account>>

Return(R) ==
    /\ \A r \in R : phase[r] = "held"
    /\ phase' = [r \in Requests |-> IF r \in R THEN "returned" ELSE phase[r]]
    /\ claim' = [r \in Requests |-> IF r \in R THEN 0 ELSE claim[r]]
    /\ UNCHANGED <<granted, account>>

\* An allowance raises the bound of the periods it may be used in.
Grant(P, l) ==
    /\ \A p \in P : l > granted[p]
    /\ granted' = [p \in Periods |-> IF p \in P THEN l ELSE granted[p]]
    /\ UNCHANGED <<phase, claim, account>>

Next ==
    \/ \E r \in Requests, p \in Periods, q \in 1 .. MaxQuantity : Hold(r, p, q)
    \/ \E r \in Requests, q \in 1 .. MaxQuantity : Extend(r, q)
    \/ \E r \in Requests, n \in 1 .. MaxQuantity : Charge(r, n)
    \/ \E R \in SUBSET Requests : Return(R)
    \/ \E P \in SUBSET Periods, l \in Limits : Grant(P, l)

Spec == Init /\ [][Next]_vars
============================================================================
