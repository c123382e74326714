--------------------------- MODULE StripeWebhooks ---------------------------
(***************************************************************************)
(* Stripe's webhook deliveries and the local snapshot of one subscription  *)
(* (server/billing/webhook_service.py, db/billing_repository.py).          *)
(*                                                                         *)
(* Stripe delivers every event at least once, in any order, to concurrent  *)
(* requests.  A request inserts the event row, checks it under its lock,   *)
(* reads the current subscription for events that do not carry it, and     *)
(* applies the result in a last transaction; no transaction is open during *)
(* the read.  A state of the subscription is known by its version, the     *)
(* number of changes made so far.  The payment grace and the usage period  *)
(* that the last transaction derives from the snapshot are in the module   *)
(* Subscriptions.                                                          *)
(***************************************************************************)
EXTENDS Integers, Sequences, FiniteSets

CONSTANTS
    Handlers,    \* concurrent webhook requests
    Second,      \* clock readings in a second, the precision of event.created
    MaxTime,     \* bound on the clock
    MaxChanges,  \* bound on the changes of the subscription at Stripe
    MaxEvents    \* bound on the events Stripe emits

ASSUME SecondAssumption == Second \in Nat \ {0}
ASSUME BoundAssumption == MaxTime \in Nat /\ MaxChanges \in Nat /\ MaxEvents \in Nat

VARIABLES
    now,                \* the clock, the same for Stripe and the server
    version,            \* the subscription at Stripe
    events,             \* the events Stripe has emitted
    processing_status,  \* billing_webhook_events rows, by event
    snapshot,           \* the subscriptions row
    handler             \* the webhook requests in flight

vars == <<now, version, events, processing_status, snapshot, handler>>

EventIds == 1 .. MaxEvents
\* Only subscription events carry the subscription; an unsupported type is "other".
EventTypes == {"subscription", "checkout", "invoice", "other"}
Statuses == {"none", "received", "failed", "processed", "ignored"}
Steps == {"idle", "check", "retrieve", "apply", "fail"}

NoSnapshot == [version |-> 0, last_provider_event_at |-> 0]
Step(pc, event, time, v) == [pc |-> pc, event |-> event, effective_at |-> time, version |-> v]
Idle == Step("idle", 0, 0, 0)

Init ==
    /\ now = 0
    /\ version = 0
    /\ events = <<>>
    /\ processing_status = [e \in EventIds |-> "none"]
    /\ snapshot = NoSnapshot
    /\ handler = [h \in Handlers |-> Idle]

----------------------------------------------------------------------------
(* Stripe *)

\* event.created has whole seconds.
Created(t) == (t \div Second) * Second

Event(type, t, v) == [type |-> type, created |-> Created(t), version |-> v]

ServerUnchanged == UNCHANGED <<processing_status, snapshot, handler>>

\* No two changes have the same time; they may have the same second.
ChangeSubscription ==
    /\ now < MaxTime /\ version < MaxChanges /\ Len(events) < MaxEvents
    /\ now' = now + 1
    /\ version' = version + 1
    /\ events' = Append(events, Event("subscription", now + 1, version + 1))
    /\ ServerUnchanged

\* A paid or failed invoice, a completed Checkout, an event of no interest.
EmitEvent(type) ==
    /\ version > 0 /\ Len(events) < MaxEvents
    /\ events' = Append(events, Event(type, now, 0))
    /\ UNCHANGED <<now, version>> /\ ServerUnchanged

\* The clock of the model starts with the subscription.
Tick ==
    /\ version > 0 /\ now < MaxTime
    /\ now' = now + 1
    /\ UNCHANGED <<version, events>> /\ ServerUnchanged

----------------------------------------------------------------------------
(* process_stripe_webhook *)

\* Mutant: an event that failed once is over.
Over_Failed(e) == processing_status[e] \in {"processed", "ignored", "failed"}
Over(e) == processing_status[e] \in {"processed", "ignored"}

StripeUnchanged == UNCHANGED <<now, version, events>>

\* A delivery, the first or another one: the row is inserted if it is absent.  Only
\* a Checkout uses the time at which the request began.
Receive(h, e) ==
    /\ handler[h].pc = "idle"
    /\ processing_status' = [processing_status EXCEPT ![e] = IF @ = "none" THEN "received" ELSE @]
    /\ handler' = [handler EXCEPT ![h] =
           Step("check", e, IF events[e].type = "checkout" THEN now ELSE 0, 0)]
    /\ UNCHANGED snapshot /\ StripeUnchanged

Respond(h) == handler' = [handler EXCEPT ![h] = Idle]

AnswerDuplicate(h) ==
    /\ handler[h].pc \in {"check", "apply"}
    /\ Over(handler[h].event)
    /\ Respond(h)
    /\ UNCHANGED <<processing_status, snapshot>> /\ StripeUnchanged

Ignore(h) ==
    LET e == handler[h].event
    IN  /\ handler[h].pc = "check"
        /\ ~Over(e)
        /\ events[e].type = "other"
        /\ processing_status' = [processing_status EXCEPT ![e] = "ignored"]
        /\ Respond(h)
        /\ UNCHANGED snapshot /\ StripeUnchanged

Proceed(h) ==
    LET e == handler[h].event
        next == IF events[e].type = "subscription" THEN "apply" ELSE "retrieve"
    IN  /\ handler[h].pc = "check"
        /\ ~Over(e)
        /\ events[e].type # "other"
        /\ handler' = [handler EXCEPT
               ![h] = Step(next, e, @.effective_at, events[e].version)]
        /\ UNCHANGED <<processing_status, snapshot>> /\ StripeUnchanged

\* retrieve_subscription: what Stripe has now, whatever the event is about.
RetrieveSubscription(h) ==
    /\ handler[h].pc = "retrieve"
    /\ handler' = [handler EXCEPT ![h] = Step("apply", @.event, @.effective_at, version)]
    /\ UNCHANGED <<processing_status, snapshot>> /\ StripeUnchanged

\* The time a state is taken to be from: of a Checkout it is the time the
\* request began, before the state was read.
ObservedAt(me) ==
    IF events[me.event].type = "checkout" THEN me.effective_at ELSE events[me.event].created

\* Mutant: the order of the events is not looked at.
Stale_Never(observed) == FALSE
\* The check of _apply_subscription_state and the condition of the upsert; with
\* no row nothing is stale.
Stale(observed) == snapshot # NoSnapshot /\ observed < snapshot.last_provider_event_at

\* Mutant: the status read before the retrieval is trusted.
Applicable_Unchecked(me) == me.pc = "apply"
\* The row is locked and read again.
Applicable(me) == me.pc = "apply" /\ ~Over(me.event)

ApplyEvent(h) ==
    LET me == handler[h]
        observed == ObservedAt(me)
    IN  /\ Applicable(me)
        /\ snapshot' = IF Stale(observed) THEN snapshot
                       ELSE [version |-> me.version, last_provider_event_at |-> observed]
        /\ processing_status' = [processing_status EXCEPT ![me.event] = "processed"]
        /\ Respond(h)
        /\ StripeUnchanged

\* A transaction or the retrieval raises; nothing of it is kept.
Raise(h) ==
    /\ handler[h].pc \in {"check", "retrieve", "apply"}
    /\ handler' = [handler EXCEPT ![h] = Step("fail", @.event, @.effective_at, @.version)]
    /\ UNCHANGED <<processing_status, snapshot>> /\ StripeUnchanged

\* Mutant: a failure is recorded whatever became of the event.
Failed_Always(e) == [processing_status EXCEPT ![e] = "failed"]
\* _mark_failed
Failed(e) == [processing_status EXCEPT ![e] = IF Over(e) THEN @ ELSE "failed"]

\* An error while recording the failure is swallowed.
MarkFailed(h) ==
    /\ handler[h].pc = "fail"
    /\ processing_status' \in {processing_status, Failed(handler[h].event)}
    /\ Respond(h)
    /\ UNCHANGED snapshot /\ StripeUnchanged

Crash(h) ==
    /\ handler[h].pc # "idle"
    /\ handler' = [handler EXCEPT ![h] = Idle]
    /\ UNCHANGED <<processing_status, snapshot>> /\ StripeUnchanged

Next ==
    \/ ChangeSubscription
    \/ \E type \in EventTypes \ {"subscription"} : EmitEvent(type)
    \/ Tick
    \/ \E h \in Handlers :
          \/ \E e \in DOMAIN events : Receive(h, e)
          \/ AnswerDuplicate(h) \/ Ignore(h) \/ Proceed(h) \/ RetrieveSubscription(h)
          \/ ApplyEvent(h) \/ Raise(h) \/ MarkFailed(h) \/ Crash(h)

Spec == Init /\ [][Next]_vars

----------------------------------------------------------------------------
\* Stripe delivers an event again until it gets a 2xx answer, which it gets once
\* the event is over; requests go on, and not every attempt at an event fails.
For(e, Action(_)) == \E h \in Handlers : handler[h].event = e /\ Action(h)
Redeliver(e) == ~Over(e) /\ e \in DOMAIN events /\ \E h \in Handlers : Receive(h, e)

Fairness ==
    /\ \A e \in EventIds :
          /\ SF_vars(Redeliver(e))
          /\ SF_vars(For(e, Ignore) \/ For(e, Proceed))
          /\ SF_vars(For(e, RetrieveSubscription))
          /\ SF_vars(For(e, ApplyEvent))
    /\ \A h \in Handlers : WF_vars(AnswerDuplicate(h) \/ MarkFailed(h))

FairSpec == Spec /\ Fairness

----------------------------------------------------------------------------
EventRecord == [type : EventTypes, created : 0 .. now, version : 0 .. version]
Request == [pc : Steps, event : 0 .. Len(events), effective_at : 0 .. now, version : 0 .. version]

TypeOK ==
    /\ now \in 0 .. MaxTime
    /\ version \in 0 .. MaxChanges
    /\ events \in Seq(EventRecord)
    /\ Len(events) <= MaxEvents
    /\ processing_status \in [EventIds -> Statuses]
    /\ snapshot \in [version : 0 .. version, last_provider_event_at : 0 .. now]
    /\ handler \in [Handlers -> Request]

\* Of any number of concurrent deliveries of an event only one changes the
\* subscription: every change of the row is the processing of an open event.
OneEffectPerEvent ==
    [][snapshot' # snapshot =>
          \E e \in EventIds : ~Over(e) /\ processing_status'[e] = "processed"]_vars

\* A delivery that fails late does not reopen an event another one completed.
ProcessedIsFinal ==
    [][\A e \in EventIds : Over(e) => processing_status'[e] = processing_status[e]]_vars

IsChange(e) == events[e].type = "subscription"

\* Event f may date a state to the second c: a Checkout is dated by the server's clock.
Dates(f, c) ==
    \/ events[f].type # "other" /\ events[f].created = c
    \/ events[f].type = "checkout"

\* The code cannot tell the order of what happens in one second: change e was made
\* in the second the snapshot is from, after an event that may have dated it.
SameSecond(e) ==
    /\ Created(snapshot.last_provider_event_at) = events[e].created
    /\ \E f \in 1 .. e - 1 : Dates(f, events[e].created)

\* The server has every change made at Stripe, or has it in the wrong order with
\* another event of its second.
Synced ==
    \A e \in DOMAIN events :
        IsChange(e) /\ snapshot.version < events[e].version => SameSecond(e)

\* When every event Stripe emitted is over, the server has Stripe's state but for
\* changes within a second, in whatever order the events were delivered, retried
\* or read.
SyncedWhenOver == (\A e \in DOMAIN events : Over(e)) => Synced

\* The server ends up with the state Stripe ends up with, but for changes within a
\* second, although any delivery may fail, crash or come twice: failed events are
\* retried.
EventuallySynced == <>[]Synced

\* README.md: "older subscription snapshots cannot overwrite newer ones".  Not kept
\* within a second: no run checks it.
NewerStateStays == [][snapshot'.version >= snapshot.version]_vars
============================================================================
