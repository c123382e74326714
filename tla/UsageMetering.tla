--------------------------- MODULE UsageMetering ---------------------------
(***************************************************************************)
(* The metering service of one billing account                             *)
(* (server/billing/metering_service.py over db/billing_repository.py).     *)
(* A request reserves AI credits before any provider work, then settles    *)
(* or releases them; a maintenance job expires reservations nobody has     *)
(* touched for the reservation TTL.  Every operation runs in one database  *)
(* transaction that holds the row locks of the reservation and of the      *)
(* usage counter before it reads them, so each is one action.              *)
(*                                                                         *)
(* A replayed request id finds its reservation and changes nothing: it     *)
(* returns the stored row, or raises a conflict.  Operations on a          *)
(* reservation in the wrong state raise and roll back.  Neither is a step. *)
(***************************************************************************)
EXTENDS Integers, FiniteSets, FiniteSetsExt

CONSTANTS
    Requests,    \* request ids; (account, request id) is unique, so also reservations
    Periods,     \* usage periods of the account
    Limits,      \* AI-credit allowances of the plans in the catalogue
    MaxQuantity  \* bound on the credits one request asks for or consumes

ASSUME RequestsAssumption == IsFiniteSet(Requests)
ASSUME LimitsAssumption == Limits \subseteq Nat /\ Limits # {}
ASSUME QuantityAssumption == MaxQuantity \in Nat

VARIABLES
    limit,      \* allowance of the plan in force
    period,     \* usage period in force
    granted,    \* history, per period: the largest allowance in force during the
                \* period, or while a reservation of the period was open
    used,       \* usage_counters.used_quantity, per period
    reserved,   \* usage_counters.reserved_quantity, per period
    state,      \* usage_reservations.state, "none" when there is no row
    periodOf,   \* usage_reservations.usage_period_id
    requested,  \* usage_reservations.requested_quantities
    settled,    \* usage_reservations.settled_quantities
    planLimit,  \* allowance of the plan the request was authorised under
    stale       \* reservations whose last_activity_at is older than the TTL

counters == <<used, reserved>>
rows == <<state, periodOf, requested, settled, planLimit>>
plan == <<limit, period, granted>>
vars == <<plan, counters, rows, stale>>

Quantities == 1 .. MaxQuantity
Open == {r \in Requests : state[r] = "reserved"}
Closed == {"settled", "released", "expired"}

Larger(a, b) == IF a >= b THEN a ELSE b
Smaller(a, b) == IF a <= b THEN a ELSE b

Init ==
    /\ limit \in Limits
    /\ period \in Periods
    /\ granted = [p \in Periods |-> IF p = period THEN limit ELSE 0]
    /\ used = [p \in Periods |-> 0]
    /\ reserved = [p \in Periods |-> 0]
    /\ state = [r \in Requests |-> "none"]
    /\ periodOf = [r \in Requests |-> period]
    /\ requested = [r \in Requests |-> 0]
    /\ settled = [r \in Requests |-> 0]
    /\ planLimit = [r \in Requests |-> limit]
    /\ stale = {}

----------------------------------------------------------------------------
\* Mutant: the account's unused request ids include those that were released.
NewRequest_AfterRelease(r) == state[r] \in {"none", "released"}
\* The request id has no reservation row yet.
NewRequest(r) == state[r] = "none"

\* Mutant: the limit is read from the best plan the account had in the period.
WithinAllowance_StalePlan(q) == q <= granted[period] - used[period] - reserved[period]
\* The limit check of _lock_and_validate_counters, on the period in force.
WithinAllowance(q) == q <= limit - used[period] - reserved[period]

\* reserve_usage for a request id the account has not used before.
ReserveUsage(r, q) ==
    /\ NewRequest(r)
    /\ WithinAllowance(q)
    /\ reserved' = [reserved EXCEPT ![period] = @ + q]
    /\ state' = [state EXCEPT ![r] = "reserved"]
    /\ periodOf' = [periodOf EXCEPT ![r] = period]
    /\ requested' = [requested EXCEPT ![r] = q]
    /\ planLimit' = [planLimit EXCEPT ![r] = limit]
    /\ UNCHANGED <<plan, used, settled, stale>>

\* Mutant: credits held by other open requests count as available.
Remaining_IgnoresHolds(p, allowance) == Larger(0, allowance - used[p])
\* Credits of period p that neither a charge nor an open reservation claims.
Remaining(p, allowance) == Larger(0, allowance - used[p] - reserved[p])

\* Mutant: the reservation's own state is read, but not for expired rows.
Claimable_Expired(r) ==
    state[r] \in {"reserved", "expired"} /\ reserved[periodOf[r]] >= requested[r]
\* The row is open and its period's counter still contains its hold.
Claimable(r) == state[r] = "reserved" /\ reserved[periodOf[r]] >= requested[r]

\* How far settlement extends the hold to cover an underestimate: by all of it
\* or not at all.
Supplement(r, actual, allowance) ==
    LET additional == Larger(0, actual - requested[r])
    IN  IF additional <= Remaining(periodOf[r], allowance) THEN additional ELSE 0

\* Consumption beyond the extended hold stays unbilled.
Billed(actual, hold) == Smaller(actual, hold)

\* The counter once the extended hold has entered and left it.
ReservedAfter(p, extra, hold) == reserved[p] + extra - hold

\* settle_usage_with_supplement: the hold becomes a charge, and what is not
\* charged goes back.
SettleUsage(r, actual, allowance) ==
    LET extra == Supplement(r, actual, allowance)
        hold == requested[r] + extra
        p == periodOf[r]
    IN  /\ Claimable(r)
        /\ used' = [used EXCEPT ![p] = @ + Billed(actual, hold)]
        /\ reserved' = [reserved EXCEPT ![p] = ReservedAfter(p, extra, hold)]
        /\ state' = [state EXCEPT ![r] = "settled"]
        /\ requested' = [requested EXCEPT ![r] = hold]
        /\ settled' = [settled EXCEPT ![r] = Billed(actual, hold)]
        /\ stale' = stale \ {r}
        /\ UNCHANGED <<plan, periodOf, planLimit>>

\* supplement_usage_reservation: a fallback model needs a larger hold.
SupplementReservation(r, target) ==
    LET p == periodOf[r]
        additional == target - requested[r]
    IN  /\ Claimable(r)
        /\ additional > 0
        /\ additional <= Remaining(p, planLimit[r])
        /\ reserved' = [reserved EXCEPT ![p] = @ + additional]
        /\ requested' = [requested EXCEPT ![r] = target]
        /\ stale' = stale \ {r}
        /\ UNCHANGED <<plan, used, state, periodOf, settled, planLimit>>

\* release_usage: the whole hold goes back.
ReleaseUsage(r) ==
    LET p == periodOf[r]
    IN  /\ Claimable(r)
        /\ reserved' = [reserved EXCEPT ![p] = @ - requested[r]]
        /\ state' = [state EXCEPT ![r] = "released"]
        /\ stale' = stale \ {r}
        /\ UNCHANGED <<plan, used, periodOf, requested, settled, planLimit>>

\* What the reservations R hold in period p.
HeldBy(R, p) ==
    MapThenSumSet(LAMBDA r : requested[r], {r \in R : periodOf[r] = p})

\* expire_stale_reservations: one transaction expires the stale rows no other
\* transaction holds (SKIP LOCKED leaves out any of them).  The counter update
\* takes only what the counter still has, or the whole cycle rolls back.
ExpireStaleReservations(R) ==
    /\ R # {}
    /\ R \subseteq Open \cap stale
    /\ reserved' = [p \in Periods |-> reserved[p] - HeldBy(R, p)]
    /\ \A p \in Periods : reserved'[p] \in 0 .. reserved[p]
    /\ state' = [r \in Requests |-> IF r \in R THEN "expired" ELSE state[r]]
    /\ stale' = stale \ R
    /\ UNCHANGED <<plan, used, periodOf, requested, settled, planLimit>>

\* touch_usage_reservation_activity: the heartbeat refreshes open rows only.
TouchActivity(R) ==
    /\ R \cap stale \cap Open # {}
    /\ stale' = stale \ (R \cap Open)
    /\ UNCHANGED <<plan, counters, rows>>

\* The TTL of an untouched reservation passes.
BecomeStale(r) ==
    /\ r \in Open \ stale
    /\ stale' = stale \cup {r}
    /\ UNCHANGED <<plan, counters, rows>>

\* An allowance that comes into force with period p may be used in p, and in an
\* earlier period q by the settlement of a reservation that is still open there.
Concerns(p, q) == q = p \/ \E r \in Open : periodOf[r] = q

\* resolve_effective_subscription finds another plan or usage period in force:
\* a renewal, an upgrade, a downgrade to Free, a grant.
ChangeSubscription(l, p) ==
    /\ <<l, p>> # <<limit, period>>
    /\ limit' = l
    /\ period' = p
    /\ granted' = [q \in Periods |-> IF Concerns(p, q) THEN Larger(granted[q], l) ELSE granted[q]]
    /\ UNCHANGED <<counters, rows, stale>>

\* Work settles against the plan in force, chat and compare against the plan
\* the request was authorised under.
Next ==
    \/ \E r \in Requests, q \in Quantities : ReserveUsage(r, q)
    \/ \E r \in Requests, a \in Quantities : SettleUsage(r, a, limit)
    \/ \E r \in Requests, a \in Quantities : SettleUsage(r, a, planLimit[r])
    \/ \E r \in Requests, t \in Quantities : SupplementReservation(r, t)
    \/ \E r \in Requests : ReleaseUsage(r)
    \/ \E R \in SUBSET Requests : ExpireStaleReservations(R)
    \/ \E R \in SUBSET Requests : TouchActivity(R)
    \/ \E r \in Requests : BecomeStale(r)
    \/ \E l \in Limits, p \in Periods : ChangeSubscription(l, p)

Spec == Init /\ [][Next]_vars

----------------------------------------------------------------------------
TypeOK ==
    /\ limit \in Limits
    /\ period \in Periods
    /\ granted \in [Periods -> Nat]
    /\ used \in [Periods -> Nat]
    /\ reserved \in [Periods -> Nat]
    /\ state \in [Requests -> {"none", "reserved"} \cup Closed]
    /\ periodOf \in [Requests -> Periods]
    /\ requested \in [Requests -> Nat]
    /\ settled \in [Requests -> Nat]
    /\ planLimit \in [Requests -> Limits]
    /\ stale \subseteq Requests

\* However requests, settlements, supplements, expiries and plan changes
\* interleave, charges plus holds of a period never exceed the largest allowance
\* that was in force during that period or while one of its reservations was open
\* (metering_service.py, the limit checks): what another period grants is not
\* spent here.
NeverOverGranted == \A p \in Periods : used[p] + reserved[p] <= granted[p]

\* NeverOverGranted, strengthened to an inductive invariant: no allowance an
\* operation may check against exceeds the largest one of its period.
GrantedInv ==
    /\ NeverOverGranted
    /\ limit <= granted[period]
    /\ \A r \in Open : limit <= granted[periodOf[r]] /\ planLimit[r] <= granted[periodOf[r]]

\* A request is charged at most what it holds, and only if it was settled.
ChargeWithinHold ==
    \A r \in Requests :
        /\ settled[r] <= requested[r]
        /\ settled[r] > 0 => state[r] = "settled"

\* A settled, released or expired reservation never changes again: a retry, a
\* late settlement or the expiry job can neither charge nor free it twice.
ClosedIsFinal ==
    [][\A r \in Requests :
          state[r] \in Closed =>
              /\ state'[r] = state[r]
              /\ requested'[r] = requested[r]
              /\ settled'[r] = settled[r]]_vars

\* The counters are exactly what the reservation rows say: no settlement,
\* supplement, release or expiry leaves credits held by nobody, or frees or
\* charges them twice.
CountersMatchReservations ==
    \A p \in Periods :
        /\ reserved[p] = HeldBy(Open, p)
        /\ used[p] = MapThenSumSet(LAMBDA r : settled[r],
                                   {r \in Requests : periodOf[r] = p})

\* The claim on a period grows only up to the allowance in force or the one
\* some open request was authorised under: after a downgrade nobody new gets in.
GrowthWithinAllowance ==
    [][\A p \in Periods :
          used'[p] + reserved'[p] > used[p] + reserved[p] =>
              \/ used'[p] + reserved'[p] <= limit
              \/ \E r \in Open : /\ periodOf[r] = p
                                 /\ used'[p] + reserved'[p] <= planLimit[r]]_vars

----------------------------------------------------------------------------
\* An open reservation claims its hold, a settled one its charge.
Claim(r) == IF state[r] = "reserved" THEN requested[r]
            ELSE IF state[r] = "settled" THEN settled[r] ELSE 0

Phase(r) == IF state[r] = "none" THEN "absent"
            ELSE IF state[r] = "reserved" THEN "held"
            ELSE IF state[r] = "settled" THEN "charged" ELSE "returned"

Ledger == INSTANCE AllowanceLedger WITH
    phase <- [r \in Requests |-> Phase(r)],
    claim <- [r \in Requests |-> Claim(r)],
    account <- periodOf

\* Metering implements the ledger: seen through the reservation rows, the
\* counters of the code (metering_service.py) never let a claim through that
\* the sum of the claims of its period would not.
ImplementsLedger == Ledger!Spec
============================================================================
