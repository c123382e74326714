------------------------- MODULE SubscriptionsProofs -------------------------
(***************************************************************************)
(* One allowance per period, for any number of subscriptions, plans,       *)
(* changes, grants and requests.  A counter is only ever added to, so it   *)
(* stays at least as high as what was served for each period that its row  *)
(* stands for, however often the row is closed, reopened or redefined.     *)
(*                                                                         *)
(* And access that follows Stripe: each row is what Stripe has, or an      *)
(* event is on its way that will make it so.                               *)
(***************************************************************************)
EXTENDS Subscriptions, TLAPS

Row(r) == \E d, s : \E u \in Nat : r = [definition |-> d, status |-> s, used |-> u]

Rows(periods) == \A k \in DOMAIN periods : Row(periods[k])

\* A period's row as named by a period paid for.
RowOf(p) == [grant |-> p.grant, start |-> p.start]

\* The inductive invariant: what was served is counted.
CountedInv ==
    /\ usage_periods = [k \in DOMAIN usage_periods |-> usage_periods[k]]
    /\ Rows(usage_periods)
    /\ \A p \in DOMAIN served :
           /\ served[p] \in Nat
           /\ RowOf(p) \in DOMAIN usage_periods
           /\ served[p] <= usage_periods[RowOf(p)].used

\* Rows are added and their counters kept.
Keeps(before, after) ==
    /\ after = [k \in DOMAIN after |-> after[k]]
    /\ Rows(after)
    /\ DOMAIN before \subseteq DOMAIN after
    /\ \A k \in DOMAIN before : after[k].used = before[k].used

----------------------------------------------------------------------------
LEMMA KeepsIsTransitive ==
    ASSUME NEW a, NEW b, NEW c, Keeps(a, b), Keeps(b, c)
    PROVE  Keeps(a, c)
BY DEF Keeps

\* Reopening or redefining a period keeps every counter, its own included.
LEMMA SynchronizedKeeps ==
    ASSUME NEW periods, NEW effective,
           periods = [k \in DOMAIN periods |-> periods[k]], Rows(periods)
    PROVE  /\ Keeps(periods, Synchronized(periods, effective))
           /\ Key(effective) \in DOMAIN Synchronized(periods, effective)
<1> DEFINE after == Synchronized(periods, effective)
           key == Key(effective)
<1>1. after = [k \in DOMAIN periods \cup {key} |->
                  IF k = key
                  THEN [definition |-> Definition(effective), status |-> "active",
                        used |-> IF k \in DOMAIN periods THEN periods[k].used ELSE 0]
                  ELSE periods[k]]
  BY DEF Synchronized
<1>2. DOMAIN after = DOMAIN periods \cup {key}  BY <1>1
<1>3. \A k \in DOMAIN periods : periods[k].used \in Nat  BY DEF Rows, Row
<1>4. ASSUME NEW k \in DOMAIN after PROVE Row(after[k])
  <2>1. CASE k = key
    <3> DEFINE u == IF k \in DOMAIN periods THEN periods[k].used ELSE 0
    <3>1. u \in Nat  BY <1>3
    <3>2. after[k] = [definition |-> Definition(effective), status |-> "active", used |-> u]
      BY <1>1, <2>1
    <3> HIDE DEF u, after
    <3> QED  BY <3>1, <3>2 DEF Row
  <2>2. CASE k # key
    BY <1>1, <1>2, <2>2 DEF Rows
  <2> QED  BY <2>1, <2>2
<1>5. ASSUME NEW k \in DOMAIN periods PROVE after[k].used = periods[k].used
  BY <1>1
<1> HIDE DEF after, key
<1>6. after = [k \in DOMAIN after |-> after[k]]  BY <1>1, <1>2
<1> QED  BY <1>2, <1>4, <1>5, <1>6 DEF Keeps, Rows, after, key

LEMMA ClosingKeeps ==
    ASSUME NEW periods, NEW c \in DOMAIN periods,
           periods = [k \in DOMAIN periods |-> periods[k]], Rows(periods)
    PROVE  Keeps(periods, [periods EXCEPT ![c].status = "closed"])
<1> DEFINE after == [periods EXCEPT ![c].status = "closed"]
<1>1. DOMAIN after = DOMAIN periods  OBVIOUS
<1>2. PICK d, s : \E u \in Nat : periods[c] = [definition |-> d, status |-> s, used |-> u]
  BY DEF Rows, Row
<1>3. PICK u \in Nat : periods[c] = [definition |-> d, status |-> s, used |-> u]  BY <1>2
<1>4. after[c] = [definition |-> d, status |-> "closed", used |-> u]  BY <1>3
<1>5. \A k \in DOMAIN periods : k # c => after[k] = periods[k]  OBVIOUS
<1> HIDE DEF after
<1>6. \A k \in DOMAIN periods : after[k].used = periods[k].used  BY <1>3, <1>4, <1>5
<1>7. Rows(after)
  <2> SUFFICES ASSUME NEW k \in DOMAIN after PROVE Row(after[k])  BY DEF Rows
  <2>1. CASE k = c  BY <2>1, <1>4 DEF Row
  <2>2. CASE k # c  BY <2>2, <1>1, <1>5 DEF Rows
  <2> QED  BY <2>1, <2>2
<1>8. after = [k \in DOMAIN after |-> after[k]]  BY DEF after
<1> QED  BY <1>1, <1>6, <1>7, <1>8 DEF Keeps, after

\* A resolution keeps the counters, and its period is among the rows.
LEMMA EnsuredKeeps ==
    ASSUME NEW periods, NEW effective, NEW t,
           periods = [k \in DOMAIN periods |-> periods[k]], Rows(periods)
    PROVE  /\ Keeps(periods, Ensured(periods, effective, t))
           /\ Key(effective) \in DOMAIN Ensured(periods, effective, t)
<1> DEFINE active == {k \in ActivePeriods(periods, t) :
                         \A q \in ActivePeriods(periods, t) : q.start <= k.start}
           current == CHOOSE k \in active : TRUE
           closed == [periods EXCEPT ![current].status = "closed"]
<1>1. CASE active = {}
  <2>1. Ensured(periods, effective, t) = Synchronized(periods, effective)
    BY <1>1 DEF Ensured
  <2> QED  BY <2>1, SynchronizedKeeps
<1>2. CASE active # {}
  <2>1. current \in DOMAIN periods  BY <1>2 DEF ActivePeriods
  <2>2. Ensured(periods, effective, t) =
            IF current = Key(effective) /\ periods[current].definition = Definition(effective)
            THEN periods ELSE Synchronized(closed, effective)
    BY <1>2 DEF Ensured
  <2>3. CASE current = Key(effective) /\ periods[current].definition = Definition(effective)
    BY <2>1, <2>2, <2>3 DEF Keeps
  <2>4. CASE ~(current = Key(effective) /\ periods[current].definition = Definition(effective))
    <3>1. Keeps(periods, closed)  BY <2>1, ClosingKeeps
    <3> HIDE DEF closed
    <3>2. Keeps(closed, Synchronized(closed, effective))
          /\ Key(effective) \in DOMAIN Synchronized(closed, effective)
      BY <3>1, SynchronizedKeeps DEF Keeps
    <3> HIDE DEF current
    <3>3. Ensured(periods, effective, t) = Synchronized(closed, effective)  BY <2>2, <2>4
    <3> QED  BY <3>1, <3>2, <3>3, KeepsIsTransitive
  <2> QED  BY <2>3, <2>4
<1> QED  BY <1>1, <1>2

\* Closing the periods of a grant keeps the counters.
LEMMA ClosedKeeps ==
    ASSUME CountedInv, NEW set
    PROVE  Keeps(usage_periods, Closed(set))
<1>1. DOMAIN Closed(set) = DOMAIN usage_periods  BY DEF Closed
<1>2. ASSUME NEW k \in DOMAIN usage_periods
      PROVE  Row(Closed(set)[k]) /\ Closed(set)[k].used = usage_periods[k].used
  <2>1. PICK d, s : \E u \in Nat : usage_periods[k] = [definition |-> d, status |-> s, used |-> u]
    BY DEF CountedInv, Rows, Row
  <2>2. PICK u \in Nat : usage_periods[k] = [definition |-> d, status |-> s, used |-> u]
    BY <2>1
  <2>3. CASE k.grant \in set
    <3>1. Closed(set)[k] = [definition |-> d, status |-> "closed", used |-> u]
      <4>1. Closed(set)[k] = [usage_periods[k] EXCEPT !.status = "closed"]
        BY <2>3 DEF Closed
      <4> QED  BY <2>2, <4>1
    <3>2. Row(Closed(set)[k])  BY <3>1 DEF Row
    <3>3. Closed(set)[k].used = usage_periods[k].used  BY <2>2, <3>1
    <3> QED  BY <3>2, <3>3
  <2>4. CASE k.grant \notin set
    <3>1. Closed(set)[k] = usage_periods[k]  BY <2>4 DEF Closed
    <3> QED  BY <2>2, <3>1 DEF Row
  <2> QED  BY <2>3, <2>4
<1>3. Closed(set) = [k \in DOMAIN Closed(set) |-> Closed(set)[k]]  BY DEF Closed
<1> QED  BY <1>1, <1>2, <1>3 DEF Keeps, Rows

\* Steps that serve nobody keep the invariant if they keep the counters.
LEMMA KeepingPreserves ==
    ASSUME CountedInv, UNCHANGED served, Keeps(usage_periods, usage_periods')
    PROVE  CountedInv'
<1>1. ASSUME NEW p \in DOMAIN served
      PROVE  /\ RowOf(p) \in DOMAIN usage_periods'
             /\ served[p] <= usage_periods'[RowOf(p)].used
  BY DEF CountedInv, Keeps
<1> QED  BY <1>1 DEF CountedInv, Keeps, RowOf

LEMMA ResolvePreserves ==
    ASSUME CountedInv, NEW rows, NEW open, NEW periods, Keeps(usage_periods, periods),
           Resolve(rows, open, periods), UNCHANGED served
    PROVE  CountedInv'
<1>1. Keeps(periods, usage_periods')  BY EnsuredKeeps DEF Resolve, Keeps
<1> QED  BY <1>1, KeepsIsTransitive, KeepingPreserves

\* A request counts what it serves, and finds its period not yet used up.
LEMMA ServeCounts ==
    ASSUME CountedInv, Serve
    PROVE  /\ CountedInv'
           /\ Served(PaidFor) < Allowance(Now.plan)
           /\ \A p \in DOMAIN served' : p # PaidFor => p \in DOMAIN served /\ served'[p] = served[p]
<1> DEFINE periods == Ensured(usage_periods, Now, now)
           key == Key(Now)
           row == periods[key]
<1>1. Keeps(usage_periods, periods) /\ key \in DOMAIN periods  BY EnsuredKeeps DEF CountedInv
<1>2. RowOf(PaidFor) = key  BY DEF RowOf, PaidFor, Key
<1>3. PICK d, s : \E u \in Nat : row = [definition |-> d, status |-> s, used |-> u]
  BY <1>1 DEF Keeps, Rows, Row
<1>4. PICK u \in Nat : row = [definition |-> d, status |-> s, used |-> u]  BY <1>3
<1>5. /\ u < Allowance(Now.plan)
      /\ usage_periods' = [periods EXCEPT ![key].used = @ + 1]
      /\ served' = [p \in DOMAIN served \cup {PaidFor} |->
                       IF p = PaidFor THEN Served(p) + 1 ELSE served[p]]
  BY <1>4 DEF Serve
<1> HIDE DEF periods, key
<1>6. Served(PaidFor) \in Nat /\ Served(PaidFor) <= u
  <2>1. CASE PaidFor \in DOMAIN served
    <3>1. /\ served[PaidFor] \in Nat /\ key \in DOMAIN usage_periods
          /\ served[PaidFor] <= usage_periods[key].used
      BY <2>1, <1>2 DEF CountedInv
    <3>2. usage_periods[key].used = u  BY <3>1, <1>1, <1>4 DEF Keeps
    <3> QED  BY <2>1, <3>1, <3>2 DEF Served
  <2>2. CASE PaidFor \notin DOMAIN served
    BY <2>2 DEF Served
  <2> QED  BY <2>1, <2>2
<1>7. /\ DOMAIN usage_periods' = DOMAIN periods
      /\ usage_periods'[key] = [definition |-> d, status |-> s, used |-> u + 1]
      /\ \A k \in DOMAIN periods : k # key => usage_periods'[k] = periods[k]
      /\ usage_periods' = [k \in DOMAIN usage_periods' |-> usage_periods'[k]]
  <2>1. usage_periods' = [k \in DOMAIN periods |->
                             IF k = key THEN [periods[key] EXCEPT !.used = @ + 1] ELSE periods[k]]
    BY <1>1, <1>5 DEF Keeps
  <2>2. [periods[key] EXCEPT !.used = @ + 1] = [definition |-> d, status |-> s, used |-> u + 1]
    BY <1>4
  <2> QED  BY <1>1, <2>1, <2>2
<1>8. Rows(usage_periods')
  <2> SUFFICES ASSUME NEW k \in DOMAIN usage_periods' PROVE Row(usage_periods'[k])  BY DEF Rows
  <2>1. CASE k = key
    <3>1. u + 1 \in Nat  OBVIOUS
    <3> QED  BY <2>1, <3>1, <1>7 DEF Row
  <2>2. CASE k # key  BY <2>2, <1>1, <1>7 DEF Keeps, Rows
  <2> QED  BY <2>1, <2>2
<1>9. \A k \in DOMAIN usage_periods :
          k \in DOMAIN usage_periods' /\ usage_periods[k].used <= usage_periods'[k].used
  <2> SUFFICES ASSUME NEW k \in DOMAIN usage_periods
               PROVE  k \in DOMAIN usage_periods' /\ usage_periods[k].used <= usage_periods'[k].used
    OBVIOUS
  <2>1. usage_periods[k].used = periods[k].used /\ k \in DOMAIN periods  BY <1>1 DEF Keeps
  <2>2. usage_periods[k].used \in Nat  BY DEF CountedInv, Rows, Row
  <2>3. CASE k = key  BY <2>1, <2>3, <1>4, <1>7
  <2>4. CASE k # key  BY <2>1, <2>2, <2>4, <1>7
  <2> QED  BY <2>3, <2>4
<1>10. ASSUME NEW p \in DOMAIN served'
       PROVE  /\ served'[p] \in Nat
              /\ RowOf(p) \in DOMAIN usage_periods'
              /\ served'[p] <= usage_periods'[RowOf(p)].used
  <2>1. CASE p = PaidFor
    BY <2>1, <1>1, <1>2, <1>5, <1>6, <1>7
  <2>2. CASE p # PaidFor
    <3>1. p \in DOMAIN served /\ served'[p] = served[p]  BY <2>2, <1>5
    <3>2. /\ served[p] \in Nat /\ RowOf(p) \in DOMAIN usage_periods
          /\ served[p] <= usage_periods[RowOf(p)].used
      BY <3>1 DEF CountedInv
    <3>3. usage_periods[RowOf(p)].used \in Nat /\ usage_periods'[RowOf(p)].used \in Nat
      BY <3>2, <1>8, <1>9 DEF CountedInv, Rows, Row
    <3> QED  BY <3>1, <3>2, <3>3, <1>9
  <2> QED  BY <2>1, <2>2
<1>11. CountedInv'  BY <1>7, <1>8, <1>10 DEF CountedInv, RowOf
<1>12. Served(PaidFor) < Allowance(Now.plan)
  <2>1. Allowance(Now.plan) \in Int  BY DEF Allowance
  <2> QED  BY <1>5, <1>6, <2>1
<1> QED  BY <1>5, <1>11, <1>12

----------------------------------------------------------------------------
\* A step other than a request's leaves what was served as it is, and the counters.
LEMMA StripeStepIsLocal ==
    ASSUME NEW s, StripeStep(s)
    PROVE  UNCHANGED <<usage_periods, served>>
BY DEF StripeStep, LocalUnchanged

LEMMA StepPreserves ==
    ASSUME CountedInv, [Next]_vars
    PROVE  CountedInv'
<1>1. ASSUME UNCHANGED <<usage_periods, served>> PROVE CountedInv'
  BY <1>1 DEF CountedInv, Rows, Row, RowOf
<1>2. Keeps(usage_periods, usage_periods)  BY DEF Keeps, CountedInv
<1>3. ASSUME NEW plan \in Offered, CreateCheckout(plan) PROVE CountedInv'
  BY <1>1, <1>3 DEF CreateCheckout, LocalUnchanged
<1>4. ASSUME NEW plan \in Offered, NEW s \in Subs, CompleteCheckout(plan, s) PROVE CountedInv'
  BY <1>1, <1>4 DEF CompleteCheckout, LocalUnchanged
<1>5. ASSUME NEW s \in Subs, StripeStep(s) PROVE CountedInv'
  BY <1>1, <1>5, StripeStepIsLocal
<1>6. ASSUME Tick PROVE CountedInv'
  BY <1>1, <1>6 DEF Tick, LocalUnchanged
<1>7. ASSUME NEW e \in pending, ApplyEvent(e) PROVE CountedInv'
  <2>1. Resolve(subscriptions', grants, usage_periods) /\ UNCHANGED served
    BY <1>7 DEF ApplyEvent
  <2> QED  BY <1>2, <2>1, ResolvePreserves
<1>8. ASSUME NEW e \in pending, DropStale(e) PROVE CountedInv'
  BY <1>1, <1>8 DEF DropStale, LocalUnchanged
<1>9. ASSUME NEW plan \in Offered, IssueGrant(plan, now + GrantTerm) PROVE CountedInv'
  <2>1. Resolve(subscriptions, grants', usage_periods) /\ UNCHANGED served
    BY <1>9 DEF IssueGrant, GrantStep
  <2> QED  BY <1>2, <2>1, ResolvePreserves
<1>10. ASSUME NEW plan \in Offered, ReplaceGrant(plan, now + GrantTerm) PROVE CountedInv'
  <2>1. Resolve(subscriptions, grants', Closed(OpenGrants)) /\ UNCHANGED served
    BY <1>10 DEF ReplaceGrant, GrantStep
  <2> QED  BY <2>1, ClosedKeeps, ResolvePreserves
<1>11. ASSUME RevokeGrant PROVE CountedInv'
  <2>1. Resolve(subscriptions, grants', Closed(OpenGrants)) /\ UNCHANGED served
    BY <1>11 DEF RevokeGrant, GrantStep
  <2> QED  BY <2>1, ClosedKeeps, ResolvePreserves
<1>12. ASSUME Serve PROVE CountedInv'
  BY <1>12, ServeCounts
<1>13. CASE UNCHANGED vars
  BY <1>1, <1>13 DEF vars
<1> QED  BY <1>3, <1>4, <1>5, <1>6, <1>7, <1>8, <1>9, <1>10, <1>11, <1>12, <1>13 DEF Next

\* Only a request serves, so only it has to respect the allowance.
LEMMA StepWithinAllowance ==
    ASSUME CountedInv, [Next]_vars
    PROVE  \A p \in DOMAIN served' : served'[p] > Served(p) => Served(p) < Allowance(Now.plan)
<1>1. ASSUME UNCHANGED served, NEW p \in DOMAIN served' PROVE ~(served'[p] > Served(p))
  BY <1>1 DEF CountedInv, Served
<1>2. CASE Serve
  <2> SUFFICES ASSUME NEW p \in DOMAIN served', served'[p] > Served(p)
               PROVE  Served(p) < Allowance(Now.plan)
    OBVIOUS
  <2>1. CASE p = PaidFor  BY <1>2, <2>1, ServeCounts
  <2>2. CASE p # PaidFor
    <3>1. p \in DOMAIN served /\ served'[p] = served[p]  BY <1>2, <2>2, ServeCounts
    <3> QED  BY <3>1 DEF CountedInv, Served
  <2> QED  BY <2>1, <2>2
<1>3. CASE UNCHANGED served  BY <1>1, <1>3
<1>4. Serve \/ UNCHANGED served
  BY StripeStepIsLocal
     DEF Next, vars, CreateCheckout, CompleteCheckout, Tick, ApplyEvent, DropStale, IssueGrant,
         ReplaceGrant, RevokeGrant, GrantStep, LocalUnchanged
<1> QED  BY <1>2, <1>3, <1>4

LEMMA InitCounted == Init => CountedInv
BY DEF Init, CountedInv, Rows

\* At every moment the counter of a period is at least what was served for each of the
\* subscription's term, the month of the Free plan or of the grant it stands for
\* (usage_periods.ai_credits_used through _ensure_usage_period).
THEOREM ServedIsCounted == Spec => []CountedInv
<1>1. Init => CountedInv  BY InitCounted
<1>2. CountedInv /\ [Next]_vars => CountedInv'  BY StepPreserves
<1> QED  BY <1>1, <1>2, PTL DEF Spec

\* A plan that changes, falls back and returns finds its counters again: no period gives
\* out more than its allowance (_ensure_usage_period, synchronize_usage_period).
THEOREM OneAllowance == Spec => OneAllowancePerPeriod
<1>1. CountedInv /\ [Next]_vars =>
          [\A p \in DOMAIN served' :
               served'[p] > Served(p) => Served(p) < Allowance(Now.plan)]_vars
  BY StepWithinAllowance
<1> QED  BY <1>1, ServedIsCounted, PTL DEF Spec, OneAllowancePerPeriod
----------------------------------------------------------------------------
(* Access follows Stripe *)

SubscriptionStates ==
    [status : Live \cup {"none", "canceled"}, plan : Plans \cup Offered \cup {"free"},
     start : Int, end : Int, cancel : BOOLEAN]

AtStripe ==
    [state : SubscriptionStates, failed_at : Int, refailed_at : Int, episodes : Nat,
     changed_at : Nat]

InTable ==
    [state : SubscriptionStates, grace_until : Int, observed : Int, observed_at : Int]

Events ==
    [type : {"subscription", "paid", "failed"}, sub : Subs, version : Int, created : Int,
     state : SubscriptionStates]

AccessTypes ==
    /\ now \in Nat /\ version \in Int
    /\ stripe \in [Subs -> AtStripe]
    /\ subscriptions \in [Subs -> InTable]
    /\ pending \subseteq Events

Reports(s) == {e \in pending : e.sub = s}

\* To apply d to s is to write Stripe's state, at the time of its last change.
Current(s, d) == Observed(d) = stripe[s].state /\ d.created = stripe[s].changed_at

\* e is of the last change of s, and not stale.
Newest(s, e) ==
    /\ e \in Reports(s) /\ Current(s, e)
    /\ subscriptions[s].observed <= e.version
    /\ \A d \in Reports(s) : d.version < e.version \/ (d.version = e.version /\ Current(s, d))

UpToDate(s) ==
    /\ subscriptions[s].state = stripe[s].state
    /\ subscriptions[s].observed_at = stripe[s].changed_at
    /\ \A d \in Reports(s) : d.version < subscriptions[s].observed \/ Current(s, d)

Arriving(s) == UpToDate(s) \/ \E e \in Reports(s) : Newest(s, e)

\* Failures are reported at their times: a deadline is a failure's time plus the grace.
FailuresTimed(s) ==
    LET t == stripe[s]
        until == subscriptions[s].grace_until
    IN  /\ t.failed_at <= t.changed_at /\ t.changed_at <= now
        /\ \A e \in Reports(s) : e.created <= t.changed_at
        /\ until <= t.changed_at + Grace
        /\ t.episodes = 0 => /\ until = 0 /\ t.state.status # "past_due"
                             /\ \A e \in Reports(s) : e.type # "failed"
        /\ t.episodes = 1 => /\ until = 0 \/ t.failed_at + Grace <= until
                             /\ \A e \in Reports(s) : e.type = "failed" => t.failed_at <= e.created

VersionsInv ==
    /\ \A e \in pending : e.version <= version
    /\ \A s \in Subs : subscriptions[s].observed <= version

OneLive == \A s, q \in LiveRows : s = q

\* The inductive invariant: each row is Stripe's subscription, or an event is on its way
\* that will make it so and that no other event makes stale.
AccessInv ==
    /\ AccessTypes
    /\ VersionsInv
    /\ OneLive
    /\ \A s \in Subs : Arriving(s) /\ FailuresTimed(s)

----------------------------------------------------------------------------
\* The states that changes produce.
LEMMA TermState ==
    ASSUME NEW state \in SubscriptionStates, NEW start \in Int
    PROVE  Term(state, start) \in SubscriptionStates /\ Term(state, start).status = state.status
<1>1. start + Month \in Int  BY LengthAssumption
<1>2. [state EXCEPT !.start = start] \in SubscriptionStates  BY DEF SubscriptionStates
<1>3. PICK q \in SubscriptionStates : q = [state EXCEPT !.start = start]  BY <1>2
<1>4. Term(state, start) = [q EXCEPT !.end = start + Month]  BY <1>3 DEF Term
<1>5. Term(state, start) \in SubscriptionStates  BY <1>1, <1>4 DEF SubscriptionStates
<1>6. q.status = state.status  BY <1>3 DEF SubscriptionStates
<1>7. Term(state, start).status = q.status  BY <1>4 DEF SubscriptionStates
<1> QED  BY <1>5, <1>6, <1>7

LEMMA NewState ==
    ASSUME NEW plan \in Offered
    PROVE  LET state == [NotSubscribed EXCEPT !.status = "active", !.plan = plan]
           IN  state \in SubscriptionStates /\ state.status = "active"
<1> DEFINE state == [NotSubscribed EXCEPT !.status = "active", !.plan = plan]
           active == [NotSubscribed EXCEPT !.status = "active"]
<1>1. NotSubscribed \in SubscriptionStates  BY DEF NotSubscribed, SubscriptionStates
<1>2. active \in SubscriptionStates /\ active.status = "active"
  BY <1>1 DEF SubscriptionStates, Live
<1>3. PICK q \in SubscriptionStates : q = active  BY <1>2
<1>4. state = [q EXCEPT !.plan = plan]  BY <1>3 DEF NotSubscribed
<1> HIDE DEF state, active
<1>5. state \in SubscriptionStates  BY <1>4 DEF SubscriptionStates
<1>6. state.status = "active"  BY <1>2, <1>3, <1>4 DEF SubscriptionStates
<1> QED  BY <1>5, <1>6 DEF state

LEMMA SetState ==
    ASSUME AccessTypes, NEW s \in Subs, NEW status \in {"active", "past_due", "unpaid", "canceled"}
    PROVE  Set(s, status) \in SubscriptionStates /\ Set(s, status).status = status
<1>1. stripe[s].state \in SubscriptionStates  BY DEF AccessTypes, AtStripe
<1> QED  BY <1>1 DEF Set, SubscriptionStates, Live

LEMMA NextTermState ==
    ASSUME AccessTypes, NEW s \in Subs, NEW status \in {"active", "past_due"}
    PROVE  NextTerm(s, status) \in SubscriptionStates /\ NextTerm(s, status).status = status
<1>1. stripe[s].state.end \in Int  BY DEF AccessTypes, AtStripe, SubscriptionStates
<1> QED  BY <1>1, SetState, TermState DEF NextTerm

\* What the invariant says of one subscription, untouched by a step.
LEMMA OtherStays ==
    ASSUME AccessTypes, NEW q \in Subs, Arriving(q), FailuresTimed(q),
           now' \in Int, now <= now',
           stripe'[q] = stripe[q], subscriptions'[q] = subscriptions[q],
           Reports(q)' = Reports(q)
    PROVE  Arriving(q)' /\ FailuresTimed(q)'
<1>1. ASSUME NEW d \in Reports(q) PROVE Current(q, d)' <=> Current(q, d)
  <2>1. d.sub = q  BY DEF Reports
  <2>2. Observed(d)' = Observed(d)  BY <2>1 DEF Observed
  <2> QED  BY <2>2 DEF Current
<1>2. Arriving(q)'
  <2>1. CASE UpToDate(q)
    <3>1. UpToDate(q)'  BY <2>1, <1>1 DEF UpToDate
    <3> QED  BY <3>1 DEF Arriving
  <2>2. CASE \E e \in Reports(q) : Newest(q, e)
    <3>1. PICK e \in Reports(q) : Newest(q, e)  BY <2>2
    <3>2. Newest(q, e)'  BY <3>1, <1>1 DEF Newest
    <3> QED  BY <3>1, <3>2 DEF Arriving
  <2> QED  BY <2>1, <2>2 DEF Arriving
<1>3. FailuresTimed(q)'
  <2>1. stripe[q].changed_at \in Int  BY DEF AccessTypes, AtStripe
  <2> QED  BY <2>1 DEF FailuresTimed, AccessTypes
<1> QED  BY <1>2, <1>3

\* A change at Stripe: its events will bring the new state.
LEMMA ChangePreserves ==
    ASSUME AccessInv, NEW s \in Subs, NEW state \in SubscriptionStates,
           NEW types \in SUBSET {"subscription", "paid", "failed"}, types # {},
           state.status = "past_due" => stripe[s].state.status = "past_due" \/ "failed" \in types,
           Change(s, state, types), UNCHANGED subscriptions
    PROVE  AccessInv'
<1> DEFINE old == stripe[s]
           first == "failed" \in types /\ old.state.status # "past_due"
           fresh(type) == [type |-> type, sub |-> s, version |-> version + 1, created |-> now,
                           state |-> IF type = "subscription" THEN state ELSE NotSubscribed]
           new == [state |-> state,
                   failed_at |-> IF first THEN now ELSE old.failed_at,
                   refailed_at |-> IF "failed" \in types THEN now ELSE old.refailed_at,
                   episodes |-> IF first THEN old.episodes + 1 ELSE old.episodes,
                   changed_at |-> now]
<1>1. AccessTypes /\ VersionsInv /\ OneLive  BY DEF AccessInv
<1>2. old \in AtStripe /\ now \in Nat /\ version \in Int  BY <1>1 DEF AccessTypes
<1>3. new \in AtStripe
  <2>1. (IF first THEN now ELSE old.failed_at) \in Int  BY <1>2 DEF AtStripe
  <2>2. (IF "failed" \in types THEN now ELSE old.refailed_at) \in Int  BY <1>2 DEF AtStripe
  <2>3. (IF first THEN old.episodes + 1 ELSE old.episodes) \in Nat  BY <1>2 DEF AtStripe
  <2> QED  BY <1>2, <2>1, <2>2, <2>3 DEF AtStripe
<1>4. /\ version' = version + 1 /\ now' = now
      /\ pending' = pending \cup {fresh(type) : type \in types}
  BY DEF Change
<1>5. stripe' = [stripe EXCEPT ![s] = new]  BY DEF Change
<1>6. /\ new.state = state /\ new.changed_at = now
      /\ new.failed_at = (IF first THEN now ELSE old.failed_at)
      /\ new.episodes = (IF first THEN old.episodes + 1 ELSE old.episodes)
  OBVIOUS
<1>7. ASSUME NEW type \in types
      PROVE  /\ fresh(type) \in Events
             /\ fresh(type).sub = s /\ fresh(type).version = version + 1
             /\ fresh(type).created = now /\ fresh(type).type = type
             /\ fresh(type).type = "subscription" => fresh(type).state = state
  <2>1. NotSubscribed \in SubscriptionStates  BY DEF NotSubscribed, SubscriptionStates
  <2>2. (IF type = "subscription" THEN state ELSE NotSubscribed) \in SubscriptionStates
    BY <2>1
  <2>3. type \in {"subscription", "paid", "failed"}  OBVIOUS
  <2>4. fresh(type) \in Events  BY <1>2, <2>2, <2>3 DEF Events
  <2> QED  BY <2>4
<1> HIDE DEF fresh, new
<1>8. /\ stripe' \in [Subs -> AtStripe]
      /\ stripe'[s] = new
      /\ \A q \in Subs : q # s => stripe'[q] = stripe[q]
  BY <1>1, <1>3, <1>5 DEF AccessTypes
<1>9. AccessTypes'
  BY <1>1, <1>2, <1>4, <1>7, <1>8 DEF AccessTypes
<1>10. VersionsInv'
  <2>1. ASSUME NEW e \in pending' PROVE e.version <= version'
    BY <1>1, <1>2, <1>4, <1>7 DEF VersionsInv, AccessTypes, Events
  <2>2. ASSUME NEW q \in Subs PROVE subscriptions'[q].observed <= version'
    BY <1>1, <1>2, <1>4 DEF VersionsInv, AccessTypes, InTable
  <2> QED  BY <2>1, <2>2 DEF VersionsInv
<1>11. OneLive'  BY <1>1 DEF OneLive, LiveRows
<1>12. ASSUME NEW q \in Subs, q # s PROVE Arriving(q)' /\ FailuresTimed(q)'
  <2>1. Reports(q)' = Reports(q)  BY <1>4, <1>7, <1>12 DEF Reports
  <2>2. Arriving(q) /\ FailuresTimed(q)  BY DEF AccessInv
  <2>3. now <= now'  BY <1>2, <1>4
  <2> QED  BY <1>1, <1>2, <1>4, <1>8, <1>12, <2>1, <2>2, <2>3, OtherStays
<1>13. ASSUME NEW type \in types, NEW e, e = fresh(type)
       PROVE  e \in Reports(s)' /\ Current(s, e)'
  <2>1. e \in Reports(s)'  BY <1>4, <1>7, <1>13 DEF Reports
  <2>2. Observed(e)' = state
    BY <1>6, <1>7, <1>8, <1>13 DEF Observed
  <2>3. e.created = stripe'[s].changed_at  BY <1>6, <1>7, <1>8, <1>13
  <2> QED  BY <2>1, <2>2, <2>3, <1>6, <1>8 DEF Current
<1>14. Arriving(s)'
  <2>1. PICK e : \E type \in types : e = fresh(type)  OBVIOUS
  <2>2. e.version = version + 1  BY <2>1, <1>7
  <2>3. subscriptions'[s].observed <= e.version
    BY <1>1, <1>2, <2>2 DEF VersionsInv, AccessTypes, InTable
  <2>4. ASSUME NEW d \in Reports(s)'
        PROVE  d.version < e.version \/ (d.version = e.version /\ Current(s, d)')
    <3>1. CASE d \in pending
      <4>1. d.version \in Int /\ d.version <= version
        BY <1>1, <3>1 DEF VersionsInv, AccessTypes, Events
      <4> QED  BY <1>2, <2>2, <4>1
    <3>2. CASE \E t \in types : d = fresh(t)
      BY <2>2, <3>2, <1>7, <1>13
    <3> QED  BY <1>4, <3>1, <3>2 DEF Reports
  <2>5. e \in Reports(s)' /\ Current(s, e)'  BY <2>1, <1>13
  <2>6. Newest(s, e)'  BY <2>3, <2>4, <2>5 DEF Newest
  <2> QED  BY <2>5, <2>6 DEF Arriving
<1>15. FailuresTimed(s)'
  <2> DEFINE until == subscriptions[s].grace_until
  <2>1. /\ old.failed_at \in Int /\ old.changed_at \in Int /\ old.episodes \in Nat
        /\ until \in Int /\ Grace \in Int
    BY <1>1, <1>2, LengthAssumption DEF AtStripe, AccessTypes, InTable
  <2>2. /\ old.failed_at <= old.changed_at /\ old.changed_at <= now
        /\ until <= old.changed_at + Grace
        /\ old.episodes = 0 => /\ until = 0 /\ old.state.status # "past_due"
                               /\ \A e \in Reports(s) : e.type # "failed"
        /\ old.episodes = 1 => /\ until = 0 \/ old.failed_at + Grace <= until
                               /\ \A e \in Reports(s) : e.type = "failed" => old.failed_at <= e.created
        /\ \A e \in Reports(s) : e.created <= old.changed_at
    BY DEF AccessInv, FailuresTimed
  <2>3. subscriptions'[s].grace_until = until  OBVIOUS
  <2> HIDE DEF old, until
  <2>4. new.failed_at <= now  BY <1>2, <1>6, <2>1, <2>2
  <2>5. until <= now + Grace  BY <1>2, <2>1, <2>2
  <2>6. ASSUME NEW e \in Reports(s)'
        PROVE  e \in Reports(s) \/ \E t \in types : e = fresh(t)
    BY <1>4, <2>6 DEF Reports
  <2>7. ASSUME NEW e \in Reports(s) PROVE e.created \in Int
    BY <1>1 DEF AccessTypes, Events, Reports
  <2>8. ASSUME NEW e \in Reports(s)' PROVE e.created <= now
    <3>1. CASE e \in Reports(s)  BY <3>1, <2>1, <2>2, <2>7, <1>2
    <3>2. CASE \E t \in types : e = fresh(t)  BY <3>2, <1>2, <1>7
    <3> QED  BY <2>6, <3>1, <3>2
  <2>9. ASSUME new.episodes = 0
        PROVE  /\ until = 0 /\ state.status # "past_due"
               /\ \A e \in Reports(s)' : e.type # "failed"
    <3>1. ~first /\ old.episodes = 0  BY <1>6, <2>1, <2>9
    <3>2. "failed" \notin types  BY <2>2, <3>1
    <3> QED  BY <1>7, <2>2, <2>6, <3>1, <3>2 DEF old
  <2>10. ASSUME new.episodes = 1
         PROVE  /\ until = 0 \/ new.failed_at + Grace <= until
                /\ \A e \in Reports(s)' : e.type = "failed" => new.failed_at <= e.created
    <3>1. CASE first
      <4>1. old.episodes = 0  BY <1>6, <2>1, <2>10, <3>1
      <4> QED  BY <1>2, <1>6, <1>7, <2>2, <2>6, <3>1, <4>1
    <3>2. CASE ~first
      <4>1. old.episodes = 1 /\ new.failed_at = old.failed_at  BY <1>6, <2>10, <3>2
      <4>2. until = 0 \/ new.failed_at + Grace <= until  BY <2>2, <4>1
      <4>3. ASSUME NEW e \in Reports(s)', e.type = "failed" PROVE new.failed_at <= e.created
        <5>1. CASE e \in Reports(s)  BY <2>2, <4>1, <4>3, <5>1
        <5>2. CASE \E t \in types : e = fresh(t)
          <6>1. e.created = now  BY <1>7, <5>2
          <6> QED  BY <2>4, <6>1
        <5> QED  BY <2>6, <5>1, <5>2
      <4> QED  BY <4>2, <4>3
    <3> QED  BY <3>1, <3>2
  <2>11. now <= now  BY <1>2
  <2> QED  BY <1>4, <1>6, <1>8, <2>3, <2>4, <2>5, <2>8, <2>9, <2>10, <2>11 DEF FailuresTimed
<1> QED  BY <1>9, <1>10, <1>11, <1>12, <1>14, <1>15 DEF AccessInv

\* An event that is applied is the newest, or the newest is still to come.
LEMMA ApplyEventPreserves ==
    ASSUME AccessInv, NEW e \in pending, ApplyEvent(e)
    PROVE  AccessInv'
<1> DEFINE s == e.sub
           old == subscriptions[s]
           new == [state |-> Observed(e), grace_until |-> GraceUntil(e),
                   observed |-> e.version, observed_at |-> e.created]
<1>1. AccessTypes /\ VersionsInv /\ OneLive  BY DEF AccessInv
<1>2. e \in Events  BY <1>1 DEF AccessTypes
<1>3. s \in Subs /\ e.version \in Int /\ e.created \in Int  BY <1>2 DEF Events
<1>4. stripe[s] \in AtStripe /\ old \in InTable  BY <1>1, <1>3 DEF AccessTypes
<1>5. /\ pending' = pending \ {e}
      /\ subscriptions' = [subscriptions EXCEPT ![s] = new]
      /\ now' = now /\ version' = version /\ stripe' = stripe
      /\ ~(e.version < old.observed)
  BY DEF ApplyEvent, StripeUnchanged, Stale
<1>6. Observed(e) \in SubscriptionStates
  BY <1>2, <1>4 DEF Observed, Events, AtStripe
<1>7. GraceUntil(e) \in Int
  BY <1>3, <1>4, LengthAssumption DEF GraceUntil, InTable
<1>8. PICK row \in InTable : row = new
  BY <1>3, <1>6, <1>7 DEF InTable
<1>9. /\ row.state = Observed(e) /\ row.grace_until = GraceUntil(e)
      /\ row.observed = e.version /\ row.observed_at = e.created
  BY <1>8
<1>10. /\ subscriptions' \in [Subs -> InTable] /\ subscriptions'[s] = row
       /\ \A q \in Subs : q # s => subscriptions'[q] = subscriptions[q]
  <2> HIDE DEF new, s
  <2> QED  BY <1>1, <1>3, <1>5, <1>8 DEF AccessTypes
<1>11. AccessTypes'  BY <1>1, <1>5, <1>10 DEF AccessTypes
<1>12. VersionsInv'
  BY <1>1, <1>3, <1>5, <1>9, <1>10 DEF VersionsInv
<1>13. OneLive'
  <2>1. ASSUME NEW q \in LiveRows' PROVE q \in Subs /\ (q # s => q \in LiveRows)
    BY <1>10 DEF LiveRows
  <2>2. s \in LiveRows' => row.state.status \in Live  BY <1>10 DEF LiveRows
  <2>3. ~(Observed(e).status \in Live /\ LiveRows \ {s} # {})  BY DEF ApplyEvent, Refused
  <2>4. s \in LiveRows' => \A q \in LiveRows' : q = s
    BY <1>9, <2>1, <2>2, <2>3
  <2> QED  BY <1>1, <2>1, <2>4 DEF OneLive
<1>14. ASSUME NEW q \in Subs, q # s PROVE Arriving(q)' /\ FailuresTimed(q)'
  <2>1. Reports(q)' = Reports(q)  BY <1>5, <1>14 DEF Reports
  <2>2. Arriving(q) /\ FailuresTimed(q)  BY DEF AccessInv
  <2>3. now \in Int /\ now <= now' /\ now' \in Int  BY <1>1, <1>5 DEF AccessTypes
  <2> QED  BY <1>1, <1>5, <1>10, <1>14, <2>1, <2>2, <2>3, OtherStays
<1>15. Reports(s)' = Reports(s) \ {e} /\ e \in Reports(s)  BY <1>5 DEF Reports
<1>16. ASSUME NEW d PROVE Current(s, d)' <=> Current(s, d)
  BY <1>5 DEF Current, Observed
<1>17. ASSUME NEW d \in Reports(s) PROVE d.version \in Int /\ d.created \in Int
  BY <1>1 DEF Reports, AccessTypes, Events
<1> DEFINE t == stripe[s]
<1>18. stripe'[s] = t  BY <1>5
<1> HIDE DEF s, new, old
<1>19. ASSUME Current(s, e), \A d \in Reports(s) : d.version < e.version \/ Current(s, d)
       PROVE  UpToDate(s)'
  <2>1. row.state = stripe[s].state /\ row.observed_at = stripe[s].changed_at
    BY <1>9, <1>19 DEF Current
  <2>2. ASSUME NEW d \in Reports(s)'
        PROVE  d.version < subscriptions'[s].observed \/ Current(s, d)'
    BY <1>9, <1>10, <1>15, <1>16, <1>19
  <2> QED  BY <1>10, <1>5, <2>1, <2>2 DEF UpToDate
<1>20. Arriving(s)'
  <2>1. Arriving(s)  BY <1>3 DEF AccessInv, s
  <2>2. CASE UpToDate(s)
    <3>1. ASSUME NEW d \in Reports(s), ~(d.version < e.version) PROVE Current(s, d)
      <4>1. old.observed \in Int  BY <1>4 DEF InTable
      <4>2. ~(d.version < old.observed)  BY <1>3, <1>5, <1>17, <3>1, <4>1
      <4> QED  BY <2>2, <4>2 DEF UpToDate, old
    <3>2. ~(e.version < e.version)  BY <1>3
    <3>3. Current(s, e)  BY <1>15, <3>1, <3>2
    <3> QED  BY <1>19, <3>1, <3>3 DEF Arriving
  <2>3. CASE \E d \in Reports(s) : Newest(s, d)
    <3>1. PICK d \in Reports(s) : Newest(s, d)  BY <2>3
    <3>2. CASE d = e
      <4>1. UpToDate(s)'  BY <1>19, <3>1, <3>2 DEF Newest
      <4> QED  BY <4>1 DEF Arriving
    <3>3. CASE d # e
      <4>1. d \in Reports(s)' /\ Current(s, d)'  BY <1>15, <1>16, <3>1, <3>3 DEF Newest
      <4>2. e.version <= d.version  BY <1>3, <1>15, <1>17, <3>1 DEF Newest
      <4>3. subscriptions'[s].observed <= d.version  BY <1>9, <1>10, <4>2
      <4>4. ASSUME NEW r \in Reports(s)'
            PROVE  r.version < d.version \/ (r.version = d.version /\ Current(s, r)')
        BY <1>15, <1>16, <3>1 DEF Newest
      <4>5. Newest(s, d)'  BY <4>1, <4>3, <4>4 DEF Newest
      <4> QED  BY <4>1, <4>5 DEF Arriving
    <3> QED  BY <3>2, <3>3
  <2> QED  BY <2>1, <2>2, <2>3 DEF Arriving
<1>21. FailuresTimed(s)'
  <2>1. /\ t.failed_at \in Int /\ t.changed_at \in Int /\ t.episodes \in Nat
        /\ old.grace_until \in Int /\ Grace \in Nat
    BY <1>4, LengthAssumption DEF AtStripe, InTable
  <2>2. FailuresTimed(s)  BY <1>3 DEF AccessInv, s
  <2>3. /\ t.failed_at <= t.changed_at /\ t.changed_at <= now
        /\ \A d \in Reports(s) : d.created <= t.changed_at
        /\ old.grace_until <= t.changed_at + Grace
    BY <2>2 DEF FailuresTimed, old
  <2>4. t.episodes = 0 => /\ old.grace_until = 0 /\ t.state.status # "past_due"
                          /\ \A d \in Reports(s) : d.type # "failed"
    BY <2>2 DEF FailuresTimed, old
  <2>5. t.episodes = 1 =>
          /\ old.grace_until = 0 \/ t.failed_at + Grace <= old.grace_until
          /\ \A d \in Reports(s) : d.type = "failed" => t.failed_at <= d.created
    BY <2>2 DEF FailuresTimed, old
  <2>6. row.grace_until \in {0, e.created + Grace, old.grace_until}
        /\ (e.type # "failed" => row.grace_until \in {0, old.grace_until})
    BY <1>9 DEF GraceUntil, old, s
  <2>7. e.created <= t.changed_at /\ e.created \in Int  BY <1>3, <1>15, <2>3
  <2>8. 0 <= t.changed_at + Grace
    <3>1. t.changed_at \in Nat  BY <1>4 DEF AtStripe
    <3> QED  BY <3>1, <2>1
  <2> HIDE DEF t
  <2>9. row.grace_until <= t.changed_at + Grace
    BY <2>1, <2>3, <2>6, <2>7, <2>8
  <2>10. t.episodes = 0 => row.grace_until = 0
    BY <1>15, <2>4, <2>6
  <2>11. t.episodes = 1 => row.grace_until = 0 \/ t.failed_at + Grace <= row.grace_until
    BY <1>15, <2>1, <2>5, <2>6, <2>7
  <2> QED
    BY <1>5, <1>10, <1>15, <1>18, <2>3, <2>4, <2>5, <2>9, <2>10, <2>11 DEF FailuresTimed
<1> QED  BY <1>11, <1>12, <1>13, <1>14, <1>20, <1>21, <1>3 DEF AccessInv, s

\* The newest event is not stale.
LEMMA DropStalePreserves ==
    ASSUME AccessInv, NEW e \in pending, DropStale(e)
    PROVE  AccessInv'
<1>1. AccessTypes /\ VersionsInv /\ OneLive  BY DEF AccessInv
<1>2. /\ pending' = pending \ {e}
      /\ subscriptions' = subscriptions /\ now' = now /\ version' = version /\ stripe' = stripe
  BY DEF DropStale, LocalUnchanged, StripeUnchanged
<1>3. e.version < subscriptions[e.sub].observed  BY DEF DropStale, Stale
<1>4. AccessTypes'  BY <1>1, <1>2 DEF AccessTypes
<1>5. VersionsInv'  BY <1>1, <1>2 DEF VersionsInv
<1>6. OneLive'  BY <1>1, <1>2 DEF OneLive, LiveRows
<1>7. ASSUME NEW q \in Subs PROVE Arriving(q)' /\ FailuresTimed(q)'
  <2>1. Arriving(q) /\ FailuresTimed(q)  BY DEF AccessInv
  <2>2. Reports(q)' = Reports(q) \ {e}  BY <1>2 DEF Reports
  <2>3. ASSUME NEW d PROVE Current(q, d)' <=> Current(q, d)
    BY <1>2 DEF Current, Observed
  <2>4. FailuresTimed(q)'
    BY <1>2, <2>1, <2>2 DEF FailuresTimed
  <2>5. CASE UpToDate(q)
    <3>1. UpToDate(q)'  BY <1>2, <2>2, <2>3, <2>5 DEF UpToDate
    <3> QED  BY <2>4, <3>1 DEF Arriving
  <2>6. CASE \E d \in Reports(q) : Newest(q, d)
    <3>1. PICK d \in Reports(q) : Newest(q, d)  BY <2>6
    <3>2. d # e
      <4>1. subscriptions[q].observed \in Int /\ d.version \in Int /\ d.sub = q
        BY <1>1 DEF AccessTypes, InTable, Reports, Events
      <4> QED  BY <1>3, <3>1, <4>1 DEF Newest
    <3>3. d \in Reports(q)'  BY <2>2, <3>1, <3>2
    <3>4. Newest(q, d)'  BY <1>2, <2>2, <2>3, <3>1, <3>3 DEF Newest
    <3> QED  BY <2>4, <3>3, <3>4 DEF Arriving
  <2> QED  BY <2>1, <2>5, <2>6 DEF Arriving
<1> QED  BY <1>4, <1>5, <1>6, <1>7 DEF AccessInv

LEMMA CompleteCheckoutPreserves ==
    ASSUME AccessInv, NEW plan \in Offered, NEW s \in Subs, CompleteCheckout(plan, s)
    PROVE  AccessInv'
<1> DEFINE state == [NotSubscribed EXCEPT !.status = "active", !.plan = plan]
<1>1. state \in SubscriptionStates /\ state.status = "active"  BY NewState
<1>2. now \in Int  BY DEF AccessInv, AccessTypes
<1> HIDE DEF state
<1>3. Term(state, now) \in SubscriptionStates /\ Term(state, now).status = "active"
  BY <1>1, <1>2, TermState
<1>4. Change(s, Term(state, now), {"subscription"}) /\ UNCHANGED subscriptions
  BY DEF CompleteCheckout, LocalUnchanged, state
<1> QED  BY <1>3, <1>4, ChangePreserves

LEMMA StripeStepPreserves ==
    ASSUME AccessInv, NEW s \in Subs, StripeStep(s)
    PROVE  AccessInv'
<1> DEFINE old == stripe[s].state
<1>1. AccessTypes /\ UNCHANGED subscriptions  BY DEF AccessInv, StripeStep, LocalUnchanged
<1>2. old \in SubscriptionStates  BY <1>1 DEF AccessTypes, AtStripe
<1>3. PICK state \in SubscriptionStates : state = old  BY <1>2
<1>4. CASE Renew(s)
  <2>1. Change(s, NextTerm(s, "active"), {"subscription", "paid"})  BY <1>4 DEF Renew
  <2>2. NextTerm(s, "active") \in SubscriptionStates /\ NextTerm(s, "active").status = "active"
    BY <1>1, NextTermState
  <2> QED  BY <1>1, <2>1, <2>2, ChangePreserves
<1>5. CASE RenewalFails(s)
  <2>1. Change(s, NextTerm(s, "past_due"), {"subscription", "failed"})  BY <1>5 DEF RenewalFails
  <2>2. NextTerm(s, "past_due") \in SubscriptionStates  BY <1>1, NextTermState
  <2> QED  BY <1>1, <2>1, <2>2, ChangePreserves
<1>6. CASE RetryFails(s)
  <2>1. Change(s, old, {"failed"})  BY <1>6 DEF RetryFails
  <2> QED  BY <1>1, <1>2, <2>1, ChangePreserves
<1>7. ASSUME NEW status \in {"active", "unpaid", "canceled"},
             NEW types \in SUBSET {"subscription", "paid"}, types # {},
             Change(s, Set(s, status), types)
      PROVE  AccessInv'
  <2>1. Set(s, status) \in SubscriptionStates /\ Set(s, status).status = status
    BY <1>1, SetState
  <2>2. types \in SUBSET {"subscription", "paid", "failed"}  BY <1>7
  <2> QED  BY <1>1, <1>7, <2>1, <2>2, ChangePreserves
<1>8. CASE EndAtPeriodEnd(s)  BY <1>7, <1>8 DEF EndAtPeriodEnd
<1>9. CASE RetryPays(s)  BY <1>7, <1>9 DEF RetryPays
<1>10. CASE GiveUp(s)  BY <1>7, <1>10 DEF GiveUp
<1>11. ASSUME NEW new \in SubscriptionStates, new.status = old.status,
              Change(s, new, {"subscription"})
       PROVE  AccessInv'
  BY <1>1, <1>11, ChangePreserves
<1>12. CASE Cancel(s)
  <2> DEFINE new == [old EXCEPT !.cancel = TRUE]
  <2>1. CASE Change(s, Set(s, "canceled"), {"subscription"})  BY <1>7, <2>1
  <2>2. CASE Change(s, new, {"subscription"})
    <3>1. new \in SubscriptionStates  BY <1>2 DEF SubscriptionStates
    <3>2. new.status = old.status  BY <1>2 DEF SubscriptionStates
    <3> QED  BY <1>11, <2>2, <3>1, <3>2
  <2> QED  BY <1>12, <2>1, <2>2 DEF Cancel
<1>13. CASE ChangePlan(s)
  <2>1. PICK plan \in Plans : Change(s, [old EXCEPT !.plan = plan], {"subscription"})
    BY <1>13 DEF ChangePlan
  <2> DEFINE new == [old EXCEPT !.plan = plan]
  <2>2. new \in SubscriptionStates  BY <1>2 DEF SubscriptionStates
  <2>3. new.status = old.status  BY <1>2 DEF SubscriptionStates
  <2> QED  BY <1>11, <2>1, <2>2, <2>3
<1> QED
  BY <1>4, <1>5, <1>6, <1>8, <1>9, <1>10, <1>12, <1>13 DEF StripeStep

LEMMA AccessStep ==
    ASSUME AccessInv, [Next]_vars
    PROVE  AccessInv'
<1>1. AccessTypes /\ VersionsInv /\ OneLive  BY DEF AccessInv
<1>2. ASSUME UNCHANGED <<version, stripe, pending, subscriptions>>, now' \in Nat, now <= now'
      PROVE  AccessInv'
  <2>1. AccessTypes'  BY <1>1, <1>2 DEF AccessTypes
  <2>2. VersionsInv'  BY <1>1, <1>2 DEF VersionsInv
  <2>3. OneLive'  BY <1>1, <1>2 DEF OneLive, LiveRows
  <2>4. ASSUME NEW q \in Subs PROVE Arriving(q)' /\ FailuresTimed(q)'
    <3>1. Arriving(q) /\ FailuresTimed(q) /\ Reports(q)' = Reports(q)
      BY <1>2 DEF AccessInv, Reports
    <3> QED  BY <1>1, <1>2, <3>1, OtherStays
  <2> QED  BY <2>1, <2>2, <2>3, <2>4 DEF AccessInv
<1>3. now \in Nat  BY <1>1 DEF AccessTypes
<1>4. ASSUME UNCHANGED <<now, version, stripe, pending, subscriptions>> PROVE AccessInv'
  <2>1. now' \in Nat /\ now <= now'  BY <1>3, <1>4
  <2> QED  BY <1>2, <1>4, <2>1
<1>5. ASSUME NEW plan \in Offered, CreateCheckout(plan) PROVE AccessInv'
  BY <1>4, <1>5 DEF CreateCheckout, LocalUnchanged
<1>6. CASE Tick
  <2>1. now' \in Nat /\ now <= now'  BY <1>3, <1>6 DEF Tick
  <2> QED  BY <1>2, <1>6, <2>1 DEF Tick, LocalUnchanged
<1>7. ASSUME NEW plan \in Offered, IssueGrant(plan, now + GrantTerm) PROVE AccessInv'
  BY <1>4, <1>7 DEF IssueGrant, GrantStep, StripeUnchanged
<1>8. ASSUME NEW plan \in Offered, ReplaceGrant(plan, now + GrantTerm) PROVE AccessInv'
  BY <1>4, <1>8 DEF ReplaceGrant, GrantStep, StripeUnchanged
<1>9. CASE RevokeGrant
  BY <1>4, <1>9 DEF RevokeGrant, GrantStep, StripeUnchanged
<1>10. CASE Serve
  BY <1>4, <1>10 DEF Serve, StripeUnchanged
<1>11. CASE UNCHANGED vars
  BY <1>4, <1>11 DEF vars
<1> QED
  BY <1>5, <1>6, <1>7, <1>8, <1>9, <1>10, <1>11, CompleteCheckoutPreserves, StripeStepPreserves,
     ApplyEventPreserves, DropStalePreserves DEF Next

LEMMA InitAccess == Init => AccessInv
<1> SUFFICES ASSUME Init PROVE AccessInv  OBVIOUS
<1>1. NotSubscribed \in SubscriptionStates  BY DEF NotSubscribed, SubscriptionStates
<1>2. NotSubscribed.status = "none"  BY DEF NotSubscribed
<1>3. NoRow \in InTable  BY <1>1 DEF NoRow, InTable
<1>4. /\ NoRow.state = NotSubscribed /\ NoRow.grace_until = 0
      /\ NoRow.observed = 0 /\ NoRow.observed_at = 0
  BY DEF NoRow
<1> DEFINE new == [state |-> NotSubscribed, failed_at |-> 0, refailed_at |-> 0,
                   episodes |-> 0, changed_at |-> 0]
<1>5. new \in AtStripe  BY <1>1 DEF AtStripe
<1>6. PICK fresh \in AtStripe : fresh = new
  <2> HIDE DEF new
  <2> QED  BY <1>5
<1>7. /\ fresh.state = NotSubscribed /\ fresh.failed_at = 0 /\ fresh.episodes = 0
      /\ fresh.changed_at = 0
  BY <1>6
<1>8. /\ now = 0 /\ version = 0 /\ pending = {}
      /\ stripe = [s \in Subs |-> fresh] /\ subscriptions = [s \in Subs |-> NoRow]
  BY <1>6 DEF Init
<1> HIDE DEF new
<1>9. AccessTypes  BY <1>3, <1>8 DEF AccessTypes
<1>10. VersionsInv  BY <1>4, <1>8 DEF VersionsInv
<1>11. OneLive  BY <1>2, <1>4, <1>8 DEF OneLive, LiveRows, Live
<1>12. ASSUME NEW s \in Subs PROVE Arriving(s) /\ FailuresTimed(s)
  <2>1. Reports(s) = {}  BY <1>8 DEF Reports
  <2>2. UpToDate(s)  BY <1>4, <1>7, <1>8, <2>1 DEF UpToDate
  <2>3. FailuresTimed(s)  BY <1>2, <1>4, <1>7, <1>8, <2>1, LengthAssumption DEF FailuresTimed
  <2> QED  BY <2>2, <2>3 DEF Arriving
<1> QED  BY <1>9, <1>10, <1>11, <1>12 DEF AccessInv

\* When nothing is on its way any more, the rows are Stripe's subscriptions.
LEMMA AccessIsRight ==
    ASSUME AccessInv
    PROVE  AccessFollowsStripe
<1> SUFFICES ASSUME pending = {}, NEW s \in Subs PROVE PaidIsServed(s) /\ ServedIsPaid(s)
  BY DEF AccessFollowsStripe
<1> DEFINE t == stripe[s]
           row == subscriptions[s]
<1>1. \A q \in Subs : UpToDate(q)  BY DEF AccessInv, Arriving, Reports
<1>2. row.state = t.state /\ row.observed_at = t.changed_at  BY <1>1 DEF UpToDate
<1>3. /\ t.failed_at \in Int /\ t.changed_at \in Int /\ t.episodes \in Nat /\ now \in Int
      /\ row.grace_until \in Int /\ Grace \in Nat /\ t.state \in SubscriptionStates
  BY LengthAssumption DEF AccessInv, AccessTypes, AtStripe, InTable
<1>4. FailuresTimed(s)  BY DEF AccessInv
<1>5. s # NoSub /\ s # "grant" /\ s # "free"  BY NameAssumption DEF NoSub
<1>6. PaidIsServed(s)
  <2> SUFFICES ASSUME InTerm(t.state, now),
                      \/ t.state.status = "active"
                      \/ t.state.status = "past_due" /\ t.episodes = 1 /\ now < t.failed_at + Grace
               PROVE  Now.source = s /\ Now.plan = t.state.plan
    BY DEF PaidIsServed
  <2>1. s \in LiveRows  BY <1>2 DEF LiveRows, Live
  <2>2. LiveRows = {s}  BY <2>1 DEF AccessInv, OneLive
  <2>3. Snapshot(subscriptions) = s  BY <2>2 DEF Snapshot, LiveRows
  <2>4. PaidAccess(row, now)
    <3>1. CASE t.state.status = "active"  BY <1>2, <3>1 DEF PaidAccess
    <3>2. CASE t.state.status = "past_due" /\ t.episodes = 1 /\ now < t.failed_at + Grace
      <4>1. row.grace_until = 0 \/ t.failed_at + Grace <= row.grace_until
        BY <1>4, <3>2 DEF FailuresTimed
      <4>2. t.failed_at <= t.changed_at  BY <1>4 DEF FailuresTimed
      <4> HIDE DEF t, row
      <4>3. now < (IF row.grace_until > 0 THEN row.grace_until ELSE row.observed_at + Grace)
        BY <1>2, <1>3, <3>2, <4>1, <4>2
      <4> QED  BY <1>2, <3>2, <4>3 DEF PaidAccess, t
    <3> QED  BY <3>1, <3>2
  <2>5. Now = [plan |-> row.state.plan, source |-> s, grant |-> NoGrant,
               start |-> row.state.start, end |-> row.state.end]
    BY <1>5, <2>3, <2>4 DEF Now, Effective
  <2> QED  BY <1>2, <2>5
<1>7. ServedIsPaid(s)
  <2> SUFFICES ASSUME Now.source = s
               PROVE  /\ InTerm(t.state, now)
                      /\ \/ t.state.status = "active"
                         \/ t.state.status = "past_due" /\ now < t.changed_at + Grace
                         \/ t.state.status = "canceled" /\ t.state.cancel
    BY DEF ServedIsPaid
  <2>1. Snapshot(subscriptions) = s /\ PaidAccess(row, now)
    BY <1>5 DEF Now, Effective
  <2>2. row.grace_until <= t.changed_at + Grace  BY <1>4 DEF FailuresTimed
  <2>3. ASSUME now < (IF row.grace_until > 0 THEN row.grace_until ELSE row.observed_at + Grace)
        PROVE  now < t.changed_at + Grace
    BY <1>2, <1>3, <2>2, <2>3
  <2> QED  BY <1>2, <2>1, <2>3 DEF PaidAccess
<1> QED  BY <1>6, <1>7

\* When every event has been applied, in whatever order they came, the account has the
\* plan it pays for and no other (resolve_effective_subscription over
\* _apply_subscription_state).
THEOREM AccessIsStripes == Spec => []AccessFollowsStripe
<1>1. Init => AccessInv  BY InitAccess
<1>2. AccessInv /\ [Next]_vars => AccessInv'  BY AccessStep
<1>3. AccessInv => AccessFollowsStripe  BY AccessIsRight
<1> QED  BY <1>1, <1>2, <1>3, PTL DEF Spec
=============================================================================
