---------------------------- MODULE Subscriptions ----------------------------
(***************************************************************************)
(* The plan of one account and the usage period its requests draw on       *)
(* (server/billing/subscription_service.py, grant_service.py,              *)
(* session_service.py, webhook_service.py, db/billing_repository.py).      *)
(*                                                                         *)
(* Stripe changes the account's subscriptions and emits events; each event *)
(* is applied once (StripeWebhooks), late and in any order.  Every         *)
(* resolution of the plan, by an event, an operator's grant or a request,  *)
(* may close a usage period and open or reopen another.  Resolutions hold  *)
(* the account's lock, so each is one action.  Events are compared by the  *)
(* version of the change that emitted them, which stands for their precise *)
(* time; a month, a term and a payment grace are numbers of clock ticks.   *)
(***************************************************************************)
EXTENDS Integers, Sequences, FiniteSets, FiniteSetsExt, TLC

CONSTANTS
    Subs,          \* Stripe subscriptions of the account
    Plans,         \* the paid plans
    Offered,       \* those a user subscribes to and an operator grants
    Month,         \* length of a calendar month, a term and a grant's month
    GrantTerm,     \* length of a grant
    Grace,         \* SUBSCRIPTION_PAYMENT_GRACE_DAYS
    MaxTime,       \* bound on the clock
    MaxChanges,    \* bound on the changes at Stripe and the grants, together
    MaxPending,    \* bound on the events not yet applied
    Disturbances   \* subset of {"fail", "cancel", "change", "grant"}

ASSUME LengthAssumption == Month \in Nat \ {0} /\ Grace \in Nat
ASSUME PlanAssumption == Plans \subseteq {"plus", "pro"}
ASSUME NameAssumption == Subs \cap {"none", "grant", "free"} = {}

VARIABLES
    now,            \* the clock
    version,        \* number of changes at Stripe
    stripe,         \* the subscriptions at Stripe, with the times of their failures
    pending,        \* events not yet applied
    checkouts,      \* open Checkout sessions, one per plan by their idempotency key
    subscriptions,  \* the account's subscriptions rows
    grants,         \* subscription_grants rows, in order of issue
    usage_periods,  \* usage_periods rows with their counter, by key
    served          \* history: credits served, by the period paid for

vars == <<now, version, stripe, pending, checkouts, subscriptions, grants,
          usage_periods, served>>

\* ai_credits of a period (plan_catalog.py), scaled down.
Allowance(plan) == IF plan = "pro" THEN 2 ELSE 1
Live == {"trialing", "active", "past_due", "unpaid", "paused", "incomplete"}
NoSub == "none"
NoGrant == 0

Term(state, start) == [state EXCEPT !.start = start, !.end = start + Month]

NotSubscribed == [status |-> "none", plan |-> "free", start |-> 0, end |-> 0, cancel |-> FALSE]
NoRow == [state |-> NotSubscribed, grace_until |-> 0, observed |-> 0, observed_at |-> 0]

Init ==
    /\ now = 0
    /\ version = 0
    /\ stripe = [s \in Subs |-> [state |-> NotSubscribed, failed_at |-> 0, refailed_at |-> 0, episodes |-> 0, changed_at |-> 0]]
    /\ pending = {}
    /\ checkouts = {}
    /\ subscriptions = [s \in Subs |-> NoRow]
    /\ grants = <<>>
    /\ usage_periods = [k \in {} |-> 0]
    /\ served = [p \in {} |-> 0]

----------------------------------------------------------------------------
(* resolve_effective_subscription *)

LiveRows == {s \in Subs : subscriptions[s].state.status \in Live}
\* At most one row is live; without one the row with the latest event counts.
Snapshot(rows) ==
    LET live == {s \in Subs : rows[s].state.status \in Live}
        known == {s \in Subs : rows[s].state.status # "none"}
    IN  IF live # {} THEN CHOOSE s \in live : TRUE
        ELSE IF known # {}
             THEN CHOOSE s \in known : \A q \in known : rows[q].observed <= rows[s].observed
             ELSE NoSub

InTerm(state, t) == state.start <= t /\ t < state.end

\* A past-due row without a deadline counts the grace from its last event.
PaidAccess(row, t) ==
    /\ InTerm(row.state, t)
    /\ \/ row.state.status = "active"
       \/ /\ row.state.status = "past_due"
          /\ t < (IF row.grace_until > 0 THEN row.grace_until ELSE row.observed_at + Grace)
       \/ row.state.status = "canceled" /\ row.state.cancel

EffectiveGrants(open, t) ==
    {g \in DOMAIN open : /\ open[g].status = "active"
                         /\ open[g].starts_at <= t /\ t < open[g].expires_at}

MonthOf(anchor, t) == anchor + ((t - anchor) \div Month) * Month

\* A subscription or the Free plan keys its period by the start alone.
Effective(rows, open, t) ==
    LET s == Snapshot(rows)
        g == EffectiveGrants(open, t)
    IN  IF s # NoSub /\ PaidAccess(rows[s], t)
        THEN [plan |-> rows[s].state.plan, source |-> s, grant |-> NoGrant,
              start |-> rows[s].state.start, end |-> rows[s].state.end]
        ELSE IF g # {}
        THEN LET grant == CHOOSE x \in g : TRUE
                 start == MonthOf(open[grant].starts_at, t)
             IN  [plan |-> open[grant].plan, source |-> "grant", grant |-> grant, start |-> start,
                  end |-> Min({start + Month, open[grant].expires_at})]
        ELSE [plan |-> "free", source |-> "free", grant |-> NoGrant,
              start |-> MonthOf(0, t), end |-> MonthOf(0, t) + Month]

Key(effective) == [grant |-> effective.grant, start |-> effective.start]
Definition(effective) == [plan |-> effective.plan, source |-> effective.source, end |-> effective.end]

\* Mutant: a period reopened or redefined begins with an empty counter.
Synchronized_Reset(periods, effective) ==
    [k \in DOMAIN periods \cup {Key(effective)} |->
        IF k = Key(effective)
        THEN [definition |-> Definition(effective), status |-> "active", used |-> 0]
        ELSE periods[k]]
Synchronized(periods, effective) ==
    [k \in DOMAIN periods \cup {Key(effective)} |->
        IF k = Key(effective)
        THEN [definition |-> Definition(effective), status |-> "active",
              used |-> IF k \in DOMAIN periods THEN periods[k].used ELSE 0]
        ELSE periods[k]]

ActivePeriods(periods, t) ==
    {k \in DOMAIN periods : /\ periods[k].status = "active"
                            /\ k.start <= t /\ t < periods[k].definition.end}

\* _ensure_usage_period: the active period that starts last is kept, or closed first.
Ensured(periods, effective, t) ==
    LET active == {k \in ActivePeriods(periods, t) :
                      \A q \in ActivePeriods(periods, t) : q.start <= k.start}
        current == CHOOSE k \in active : TRUE
    IN  IF active = {} THEN Synchronized(periods, effective)
        ELSE IF current = Key(effective) /\ periods[current].definition = Definition(effective)
        THEN periods
        ELSE Synchronized([periods EXCEPT ![current].status = "closed"], effective)

Resolve(rows, open, periods) ==
    usage_periods' = Ensured(periods, Effective(rows, open, now), now)

----------------------------------------------------------------------------
(* Stripe *)

Budget == version + Len(grants) < MaxChanges

LocalUnchanged == UNCHANGED <<subscriptions, grants, usage_periods, served>>

\* A change emits its events with one time; an invoice event does not carry the state.
Change(s, state, types) ==
    LET failed == "failed" \in types
        first == failed /\ stripe[s].state.status # "past_due"
    IN  /\ Budget /\ Cardinality(pending) + Cardinality(types) <= MaxPending
        /\ version' = version + 1
        /\ stripe' = [stripe EXCEPT ![s] =
               [state |-> state,
                failed_at |-> IF first THEN now ELSE @.failed_at,
                refailed_at |-> IF failed THEN now ELSE @.refailed_at,
                episodes |-> IF first THEN @.episodes + 1 ELSE @.episodes,
                changed_at |-> now]]
        /\ pending' = pending \cup
               {[type |-> type, sub |-> s, version |-> version + 1, created |-> now,
                 state |-> IF type = "subscription" THEN state ELSE NotSubscribed] : type \in types}
        /\ UNCHANGED now

\* create_checkout_redirect: an account with a live row is sent to the Portal.
CreateCheckout(plan) ==
    /\ LiveRows = {}
    \* As many sessions as there are subscriptions left.
    /\ \E s \in Subs : stripe[s].state.status = "none"
    /\ checkouts' = checkouts \cup {plan}
    /\ UNCHANGED <<now, version, stripe, pending>> /\ LocalUnchanged

CompleteCheckout(plan, s) ==
    /\ plan \in checkouts
    /\ stripe[s].state.status = "none"
    /\ checkouts' = checkouts \ {plan}
    /\ Change(s, Term([NotSubscribed EXCEPT !.status = "active", !.plan = plan], now),
              {"subscription"})
    /\ LocalUnchanged

At(s, statuses) == stripe[s].state.status \in statuses
Set(s, status) == [stripe[s].state EXCEPT !.status = status]

Due(s) == At(s, {"active"}) /\ now >= stripe[s].state.end
NextTerm(s, status) == Term(Set(s, status), stripe[s].state.end)

Renew(s) ==
    /\ Due(s) /\ ~stripe[s].state.cancel
    /\ Change(s, NextTerm(s, "active"), {"subscription", "paid"})

EndAtPeriodEnd(s) ==
    /\ Due(s) /\ stripe[s].state.cancel
    /\ Change(s, Set(s, "canceled"), {"subscription"})

RenewalFails(s) ==
    /\ "fail" \in Disturbances
    /\ Due(s) /\ ~stripe[s].state.cancel
    /\ Change(s, NextTerm(s, "past_due"), {"subscription", "failed"})

RetryFails(s) == At(s, {"past_due"}) /\ Change(s, stripe[s].state, {"failed"})

RetryPays(s) == At(s, {"past_due"}) /\ Change(s, Set(s, "active"), {"subscription", "paid"})

GiveUp(s) ==
    /\ At(s, {"past_due"})
    /\ \E status \in {"unpaid", "canceled"} : Change(s, Set(s, status), {"subscription"})

\* The Portal: the user cancels, now or at the end of the term, or changes the plan.
Cancel(s) ==
    /\ "cancel" \in Disturbances
    /\ At(s, Live)
    /\ \/ Change(s, Set(s, "canceled"), {"subscription"})
       \/ ~stripe[s].state.cancel
          /\ Change(s, [stripe[s].state EXCEPT !.cancel = TRUE], {"subscription"})

ChangePlan(s) ==
    /\ "change" \in Disturbances
    /\ At(s, {"active", "past_due"})
    /\ \E plan \in Plans \ {stripe[s].state.plan} :
           Change(s, [stripe[s].state EXCEPT !.plan = plan], {"subscription"})

StripeStep(s) ==
    /\ \/ Renew(s) \/ EndAtPeriodEnd(s) \/ RenewalFails(s) \/ RetryFails(s)
       \/ RetryPays(s) \/ GiveUp(s) \/ Cancel(s) \/ ChangePlan(s)
    /\ UNCHANGED checkouts /\ LocalUnchanged

Tick ==
    /\ now < MaxTime
    /\ now' = now + 1
    /\ UNCHANGED <<version, stripe, pending, checkouts>> /\ LocalUnchanged

----------------------------------------------------------------------------
(* _apply_subscription_state *)

\* Mutant: events are applied as they come.
Stale_Never(e) == FALSE
Stale(e) == e.version < subscriptions[e.sub].observed

\* An invoice's subscription is retrieved when its event is applied.
Observed(e) == IF e.type = "subscription" THEN e.state ELSE stripe[e.sub].state

GraceUntil(e) ==
    IF Observed(e).status # "past_due" THEN 0
    ELSE IF e.type = "failed" THEN e.created + Grace
    ELSE subscriptions[e.sub].grace_until

\* uq_subscriptions_one_live_per_account: the event fails, and is delivered again.
Refused(e) == Observed(e).status \in Live /\ LiveRows \ {e.sub} # {}

StripeUnchanged == UNCHANGED <<now, version, stripe, checkouts>>

\* One step, although the row is read without FOR UPDATE: of two deliveries at once
\* the later write may restore the deadline it read (not modelled).
ApplyEvent(e) ==
    /\ ~Stale(e) /\ ~Refused(e)
    /\ pending' = pending \ {e}
    /\ subscriptions' = [subscriptions EXCEPT ![e.sub] =
           [state |-> Observed(e), grace_until |-> GraceUntil(e),
            observed |-> e.version, observed_at |-> e.created]]
    /\ Resolve(subscriptions', grants, usage_periods)
    /\ UNCHANGED <<grants, served>> /\ StripeUnchanged

DropStale(e) ==
    /\ Stale(e)
    /\ pending' = pending \ {e}
    /\ LocalUnchanged /\ StripeUnchanged

----------------------------------------------------------------------------
(* issue_subscription_grant, revoke_subscription_grant *)

OpenGrants == {g \in DOMAIN grants : grants[g].status = "active"}

Ended(set, status) ==
    [g \in DOMAIN grants |-> IF g \in set THEN [grants[g] EXCEPT !.status = status] ELSE grants[g]]
Closed(set) ==
    [k \in DOMAIN usage_periods |->
        IF k.grant \in set THEN [usage_periods[k] EXCEPT !.status = "closed"] ELSE usage_periods[k]]

NewGrant(plan, expiry) ==
    [plan |-> plan, starts_at |-> now, expires_at |-> expiry, status |-> "active"]

GrantStep == UNCHANGED <<subscriptions, pending, served>> /\ StripeUnchanged

\* An elapsed grant expires when the next one is issued; an open one refuses it.
IssueGrant(plan, expiry) ==
    /\ "grant" \in Disturbances
    /\ Budget
    /\ \A g \in OpenGrants : grants[g].expires_at <= now
    /\ grants' = Append(Ended(OpenGrants, "expired"), NewGrant(plan, expiry))
    /\ Resolve(subscriptions, grants', usage_periods)
    /\ GrantStep

ReplaceGrant(plan, expiry) ==
    /\ Budget
    /\ OpenGrants # {}
    /\ grants' = Append(Ended(OpenGrants, "revoked"), NewGrant(plan, expiry))
    /\ Resolve(subscriptions, grants', Closed(OpenGrants))
    /\ GrantStep

RevokeGrant ==
    /\ OpenGrants # {}
    /\ grants' = Ended(OpenGrants, "revoked")
    /\ Resolve(subscriptions, grants', Closed(OpenGrants))
    /\ GrantStep

----------------------------------------------------------------------------
(* A request: its plan is resolved and a credit of the period charged. *)

Now == Effective(subscriptions, grants, now)
PaidFor == [source |-> Now.source, grant |-> Now.grant, start |-> Now.start]
Served(p) == IF p \in DOMAIN served THEN served[p] ELSE 0

Serve ==
    LET periods == Ensured(usage_periods, Now, now)
    IN  /\ periods[Key(Now)].used < Allowance(Now.plan)
        /\ usage_periods' = [periods EXCEPT ![Key(Now)].used = @ + 1]
        /\ served' = [p \in DOMAIN served \cup {PaidFor} |->
               IF p = PaidFor THEN Served(p) + 1 ELSE served[p]]
        /\ UNCHANGED <<subscriptions, grants, pending>> /\ StripeUnchanged

Next ==
    \/ \E plan \in Offered : CreateCheckout(plan)
    \/ \E plan \in Offered, s \in Subs : CompleteCheckout(plan, s)
    \/ \E s \in Subs : StripeStep(s)
    \/ Tick
    \/ \E e \in pending : ApplyEvent(e) \/ DropStale(e)
    \/ \E plan \in Offered :
           IssueGrant(plan, now + GrantTerm) \/ ReplaceGrant(plan, now + GrantTerm)
    \/ RevokeGrant
    \/ Serve

Spec == Init /\ [][Next]_vars

----------------------------------------------------------------------------
(* Properties *)

\* Once every event has been applied, in whatever order, the account has the plan it
\* pays for: an active subscription, or a past-due one within the grace of the failure
\* that began it (of its first one: a late event may keep an earlier deadline).
PaidIsServed(s) ==
    LET t == stripe[s] IN
    /\ InTerm(t.state, now)
    /\ \/ t.state.status = "active"
       \/ t.state.status = "past_due" /\ t.episodes = 1 /\ now < t.failed_at + Grace
    => Now.source = s /\ Now.plan = t.state.plan

\* And it has no plan it does not pay for: the term or the grace is over, counted from
\* the last change, or the subscription has ended before its term.
ServedIsPaid(s) ==
    LET t == stripe[s] IN
    Now.source = s =>
        /\ InTerm(t.state, now)
        /\ \/ t.state.status = "active"
           \/ t.state.status = "past_due" /\ now < t.changed_at + Grace
           \/ t.state.status = "canceled" /\ t.state.cancel

AccessFollowsStripe == pending = {} => \A s \in Subs : PaidIsServed(s) /\ ServedIsPaid(s)

\* However often the plan changes, falls back and returns, a calendar month of the Free
\* plan, a term of a subscription and a month of a grant give out one allowance.
OneAllowancePerPeriod ==
    [][\A p \in DOMAIN served' :
           served'[p] > Served(p) => Served(p) < Allowance(Now.plan)]_vars

\* README.md and docs/FASTAPI_README.md say that a live subscription is not duplicated.
\* In no run: two Checkout sessions may be open at once.
NoSecondSubscription == Cardinality({s \in Subs : At(s, Live)}) <= 1

\* README.md says that a past-due subscription has access only until the deadline its
\* failed payment sets.  In no run: the deadline may be counted from a later event.
GraceCountsFromFailure ==
    pending = {} => \A s \in Subs :
        Now.source = s /\ At(s, {"past_due"}) => now < stripe[s].refailed_at + Grace
=============================================================================
