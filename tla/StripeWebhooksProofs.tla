------------------------ MODULE StripeWebhooksProofs ------------------------
(***************************************************************************)
(* What holds of the webhook deliveries for any number of requests, events *)
(* and changes.                                                            *)
(***************************************************************************)
EXTENDS StripeWebhooks, SequenceTheorems, TLAPS

\* A request in flight is about an event that exists.
InFlight == \A h \in Handlers : handler[h].pc # "idle" => handler[h].event # 0
Typed == TypeOK /\ InFlight

\* The second of an instant began no later than the instant (event.created).
LEMMA CreatedBounds ==
    ASSUME NEW t \in Nat
    PROVE  Created(t) \in 0 .. t
<1>1. Second \in Nat /\ Second > 0  BY SecondAssumption
<1> DEFINE q == t \div Second
<1>2. q \in Nat /\ q * Second <= t  BY <1>1, SMTT(30)
<1>3. q * Second \in Nat  BY <1>1, <1>2, SMTT(30)
<1> QED  BY <1>2, <1>3 DEF Created

LEMMA CreatedKeepsOrder ==
    ASSUME NEW s \in Nat, NEW t \in Nat, s <= t
    PROVE  Created(s) <= Created(t)
<1>1. Second \in Nat /\ Second > 0  BY SecondAssumption
<1> DEFINE p == s \div Second
           q == t \div Second
<1>2. p \in Nat /\ q \in Nat /\ p <= q  BY <1>1, SMTT(30)
<1> HIDE DEF p, q
<1>3. p * Second <= q * Second  BY <1>1, <1>2, SMTT(30)
<1> QED  BY <1>3 DEF Created, p, q

LEMMA CreatedIsWhole ==
    ASSUME NEW t \in Nat
    PROVE  Created(Created(t)) = Created(t)
<1>1. Second \in Nat /\ Second > 0  BY SecondAssumption
<1> DEFINE q == t \div Second
<1>2. q \in Nat  BY <1>1, SMTT(30)
<1> HIDE DEF q
<1>3. (q * Second) \div Second = q  BY <1>1, <1>2, SMTT(30)
<1> QED  BY <1>3 DEF Created, q

\* What emitting an event does to the list.
LEMMA Emission ==
    ASSUME TypeOK, NEW type \in EventTypes, NEW t \in Nat, NEW v \in Nat,
           now \in 0 .. t, version \in 0 .. v,
           now' = t, version' = v,
           NEW w \in 0 .. v,
           events' = Append(events, Event(type, t, w))
    PROVE  /\ events' \in Seq(EventRecord')
           /\ Len(events') = Len(events) + 1
           /\ \A e \in 1 .. Len(events) : events'[e] = events[e]
           /\ events'[Len(events) + 1] = Event(type, t, w)
<1>1. Event(type, t, w) \in EventRecord'  BY CreatedBounds DEF Event, EventRecord
<1>2. events \in Seq(EventRecord')
  <2>1. EventRecord \subseteq EventRecord'  BY DEF EventRecord
  <2> QED  BY <2>1, SeqMonotonic DEF TypeOK
<1> HIDE DEF EventRecord
<1> QED  BY <1>1, <1>2, AppendProperties

LEMMA InitTyped == Init => Typed
<1> SUFFICES ASSUME Init PROVE Typed
    OBVIOUS
<1>1. events \in Seq(EventRecord) /\ Len(events) = 0  BY EmptySeq DEF Init
<1>2. processing_status \in [EventIds -> Statuses]  BY DEF Init, Statuses
<1>3. handler \in [Handlers -> Request]  BY <1>1 DEF Init, Idle, Step, Request, Steps
<1>4. now \in 0 .. MaxTime /\ version \in 0 .. MaxChanges /\ Len(events) <= MaxEvents
  BY <1>1, BoundAssumption DEF Init
<1>5. snapshot \in [version : 0 .. version, last_provider_event_at : 0 .. now]
  BY DEF Init, NoSnapshot
<1>6. InFlight  BY DEF InFlight, Init, Idle, Step
<1> QED  BY <1>1, <1>2, <1>3, <1>4, <1>5, <1>6 DEF Typed, TypeOK

\* Stripe's steps: time goes on, events are added, the server is as it was.
LEMMA StripeStepTyped ==
    ASSUME Typed,
           \/ ChangeSubscription
           \/ \E type \in EventTypes \ {"subscription"} : EmitEvent(type)
           \/ Tick
    PROVE  Typed'
<1>1. /\ now \in Nat /\ version \in Nat /\ Len(events) \in Nat
      /\ now' \in now .. MaxTime /\ version' \in version .. MaxChanges
  <2>1. Len(events) \in Nat  BY LenProperties DEF Typed, TypeOK
  <2> QED  BY <2>1, BoundAssumption DEF Typed, TypeOK, ChangeSubscription, EmitEvent, Tick
<1>2. events' \in Seq(EventRecord') /\ Len(events') \in Len(events) .. MaxEvents
  <2>1. CASE ChangeSubscription
    <3>1. "subscription" \in EventTypes  BY DEF EventTypes
    <3> QED  BY <2>1, <3>1, <1>1, Emission, BoundAssumption DEF ChangeSubscription, Typed
  <2>2. CASE \E type \in EventTypes \ {"subscription"} : EmitEvent(type)
    <3> PICK type \in EventTypes : EmitEvent(type)  BY <2>2
    <3> QED  BY <1>1, Emission, BoundAssumption DEF EmitEvent, Typed
  <2>3. CASE Tick
    <3>1. EventRecord \subseteq EventRecord'  BY <1>1 DEF EventRecord
    <3>2. events' = events  BY <2>3 DEF Tick
    <3>3. events \in Seq(EventRecord')  BY <3>1, SeqMonotonic DEF Typed, TypeOK
    <3> QED  BY <3>2, <3>3, <1>1 DEF Typed, TypeOK
  <2> QED  BY <2>1, <2>2, <2>3
<1>3. /\ processing_status' = processing_status /\ snapshot' = snapshot /\ handler' = handler
  BY DEF ChangeSubscription, EmitEvent, Tick, ServerUnchanged
<1>4. handler' \in [Handlers -> Request']
  <2>1. Request \subseteq Request'  BY <1>1, <1>2 DEF Request
  <2> QED  BY <1>3, <2>1 DEF Typed, TypeOK
<1>5. snapshot' \in [version : 0 .. version', last_provider_event_at : 0 .. now']
  BY <1>1, <1>3 DEF Typed, TypeOK
<1>6. InFlight'  BY <1>3 DEF InFlight, Typed
<1> QED  BY <1>1, <1>2, <1>3, <1>4, <1>5, <1>6 DEF Typed, TypeOK

\* A request's steps.
LEMMA RequestStepTyped ==
    ASSUME Typed, NEW h \in Handlers,
           \/ \E e \in DOMAIN events : Receive(h, e)
           \/ AnswerDuplicate(h) \/ Ignore(h) \/ Proceed(h) \/ RetrieveSubscription(h)
           \/ ApplyEvent(h) \/ Raise(h) \/ MarkFailed(h) \/ Crash(h)
    PROVE  Typed'
<1> USE DEF Typed, TypeOK
<1>1. /\ now' = now /\ version' = version /\ events' = events
  BY DEF Receive, AnswerDuplicate, Ignore, Proceed, RetrieveSubscription, ApplyEvent,
         Raise, MarkFailed, Crash, StripeUnchanged
<1>2. Len(events) \in Nat /\ DOMAIN events = 1 .. Len(events)  BY LenProperties
<1>3. Idle \in Request  BY <1>2 DEF Idle, Step, Request, Steps
<1>4. handler[h] \in Request  OBVIOUS
<1>5. /\ processing_status' \in [EventIds -> Statuses]
      /\ snapshot' \in [version : 0 .. version, last_provider_event_at : 0 .. now]
  <2>1. CASE \E e \in DOMAIN events : Receive(h, e)  BY <2>1 DEF Receive, Statuses
  <2>2. CASE Ignore(h)  BY <2>2 DEF Ignore, Statuses
  <2>3. CASE ApplyEvent(h)
    <3>1. ObservedAt(handler[h]) \in 0 .. now
      <4>1. handler[h].event \in 1 .. Len(events)
        BY <2>3, <1>2, <1>4 DEF ApplyEvent, Applicable, InFlight, Request
      <4>2. events[handler[h].event] \in EventRecord  BY <4>1, ElementOfSeq
      <4> QED  BY <4>2, <1>4 DEF ObservedAt, EventRecord, Request
    <3>2. handler[h].version \in 0 .. version  BY <1>4 DEF Request
    <3>3. snapshot' \in [version : 0 .. version, last_provider_event_at : 0 .. now]
      BY <2>3, <3>1, <3>2 DEF ApplyEvent
    <3>4. processing_status' \in [EventIds -> Statuses]  BY <2>3 DEF ApplyEvent, Statuses
    <3> QED  BY <3>3, <3>4
  <2>4. CASE MarkFailed(h)  BY <2>4 DEF MarkFailed, Failed, Statuses
  <2>5. CASE AnswerDuplicate(h) \/ Proceed(h) \/ RetrieveSubscription(h) \/ Raise(h) \/ Crash(h)
    BY <2>5 DEF AnswerDuplicate, Proceed, RetrieveSubscription, Raise, Crash
  <2> QED  BY <2>1, <2>2, <2>3, <2>4, <2>5
<1>6. \E me \in Request : /\ handler' = [handler EXCEPT ![h] = me]
                          /\ me.pc # "idle" => me.event # 0
  <2>1. CASE \E e \in DOMAIN events : Receive(h, e)
    <3> PICK e \in DOMAIN events : Receive(h, e)  BY <2>1
    <3> DEFINE me == Step("check", e, IF events[e].type = "checkout" THEN now ELSE 0, 0)
    <3>1. me \in Request /\ me.event # 0  BY <1>2 DEF Idle, Step, Request, Steps
    <3>2. handler' = [handler EXCEPT ![h] = me]  BY DEF Receive
    <3> QED  BY <3>1, <3>2
  <2>2. CASE AnswerDuplicate(h) \/ Ignore(h) \/ ApplyEvent(h) \/ MarkFailed(h) \/ Crash(h)
    BY <2>2, <1>3 DEF AnswerDuplicate, Ignore, ApplyEvent, MarkFailed, Crash, Respond, Idle, Step
  <2>3. CASE Proceed(h)
    <3> DEFINE e == handler[h].event
               next == IF events[e].type = "subscription" THEN "apply" ELSE "retrieve"
               me == Step(next, e, handler[h].effective_at, events[e].version)
    <3>1. e \in 1 .. Len(events)
      <4>1. handler[h].pc = "check"  BY <2>3 DEF Proceed
      <4>2. e # 0  BY <4>1 DEF InFlight
      <4> QED  BY <4>2, <1>2, <1>4 DEF Request
    <3>2. events[e].version \in 0 .. version
      <4>1. events[e] \in EventRecord  BY <3>1, ElementOfSeq
      <4> QED  BY <4>1 DEF EventRecord
    <3>3. me \in Request /\ me.event # 0  BY <3>1, <3>2, <1>4, <1>2 DEF Step, Request, Steps
    <3>4. handler' = [handler EXCEPT ![h] = me]  BY <2>3 DEF Proceed
    <3> QED  BY <3>3, <3>4
  <2>4. CASE RetrieveSubscription(h)
    <3> DEFINE me == Step("apply", handler[h].event, handler[h].effective_at, version)
    <3>1. me \in Request /\ me.event # 0
      BY <2>4, <1>2, <1>4 DEF RetrieveSubscription, InFlight, Step, Request, Steps
    <3>2. handler' = [handler EXCEPT ![h] = me]  BY <2>4 DEF RetrieveSubscription
    <3> QED  BY <3>1, <3>2
  <2>5. CASE Raise(h)
    <3> DEFINE me == Step("fail", handler[h].event, handler[h].effective_at, handler[h].version)
    <3>1. me \in Request /\ me.event # 0
      BY <2>5, <1>2, <1>4 DEF Raise, InFlight, Step, Request, Steps
    <3>2. handler' = [handler EXCEPT ![h] = me]  BY <2>5 DEF Raise
    <3> QED  BY <3>1, <3>2
  <2> QED  BY <2>1, <2>2, <2>3, <2>4, <2>5
<1>7. handler' \in [Handlers -> Request] /\ InFlight'  BY <1>6 DEF InFlight
<1> QED  BY <1>1, <1>5, <1>7 DEF EventRecord, Request

LEMMA StepTyped == Typed /\ [Next]_vars => Typed'
<1> SUFFICES ASSUME Typed, [Next]_vars PROVE Typed'
    OBVIOUS
<1>1. CASE Next  BY <1>1, StripeStepTyped, RequestStepTyped DEF Next
<1>2. CASE UNCHANGED vars
  BY <1>2 DEF vars, Typed, TypeOK, InFlight, EventRecord, Request
<1> QED  BY <1>1, <1>2

\* The state has its type and a request in flight is about an event that exists.
THEOREM Typing == Spec => []Typed
BY InitTyped, StepTyped, PTL DEF Spec

\* Only one of several deliveries of an event changes the subscription: each of
\* them checks the event's row again in the transaction that applies it.
THEOREM OneDeliveryTakesEffect == Spec => OneEffectPerEvent
<1> DEFINE Good == snapshot' # snapshot =>
                       \E e \in EventIds : ~Over(e) /\ processing_status'[e] = "processed"
<1>1. Typed /\ [Next]_vars => [Good]_vars
  <2> SUFFICES ASSUME Typed, Next, snapshot' # snapshot
               PROVE  \E e \in EventIds : ~Over(e) /\ processing_status'[e] = "processed"
      BY DEF vars
  <2>1. PICK h \in Handlers : ApplyEvent(h)
    BY DEF Next, ChangeSubscription, EmitEvent, Tick, ServerUnchanged, Receive, AnswerDuplicate,
           Ignore, Proceed, RetrieveSubscription, Raise, MarkFailed, Crash
  <2>2. handler[h].event \in EventIds
    <3>1. Len(events) \in Nat  BY LenProperties DEF Typed, TypeOK
    <3> QED  BY <2>1, <3>1, BoundAssumption
          DEF ApplyEvent, Applicable, Typed, TypeOK, InFlight, Request, EventIds
  <2> WITNESS handler[h].event \in EventIds
  <2> QED  BY <2>1, <2>2 DEF ApplyEvent, Applicable, Typed, TypeOK
<1>2. Spec => [][Good]_vars  BY <1>1, Typing, PTL DEF Spec
<1> QED  BY <1>2 DEF OneEffectPerEvent

\* A processed or ignored event stays so: a delivery that fails late reads the
\* row again before it marks it.
THEOREM ProcessedStays == Spec => ProcessedIsFinal
<1> DEFINE Good == \A e \in EventIds : Over(e) => processing_status'[e] = processing_status[e]
<1>1. Typed /\ [Next]_vars => [Good]_vars
  <2> SUFFICES ASSUME Typed, Next, NEW e \in EventIds, Over(e)
               PROVE  processing_status'[e] = processing_status[e]
      BY DEF vars
  <2>1. CASE UNCHANGED processing_status  BY <2>1
  <2>2. CASE \E h \in Handlers, f \in DOMAIN events : Receive(h, f)
    BY <2>2 DEF Receive, Over, Typed, TypeOK
  <2>3. CASE \E h \in Handlers : Ignore(h)  BY <2>3 DEF Ignore, Typed, TypeOK
  <2>4. CASE \E h \in Handlers : ApplyEvent(h)
    BY <2>4 DEF ApplyEvent, Applicable, Typed, TypeOK
  <2>5. CASE \E h \in Handlers : MarkFailed(h)  BY <2>5 DEF MarkFailed, Failed, Typed, TypeOK
  <2>6. UNCHANGED processing_status
        \/ \E h \in Handlers : (\E f \in DOMAIN events : Receive(h, f))
                               \/ Ignore(h) \/ ApplyEvent(h) \/ MarkFailed(h)
    BY DEF Next, ChangeSubscription, EmitEvent, Tick, ServerUnchanged, AnswerDuplicate,
           Proceed, RetrieveSubscription, Raise, Crash
  <2> QED  BY <2>1, <2>2, <2>3, <2>4, <2>5, <2>6
<1>2. Spec => [][Good]_vars  BY <1>1, Typing, PTL DEF Spec
<1> QED  BY <1>2 DEF ProcessedIsFinal

----------------------------------------------------------------------------
(* The local subscription is Stripe's once every event is over, up to the    *)
(* order of what happens in one second.                                      *)

DatesIn(es, f, c) ==
    \/ es[f].type # "other" /\ es[f].created = c
    \/ es[f].type = "checkout"
DatedIn(es, c) == \E f \in DOMAIN es : DatesIn(es, f, c)

\* Of the changes of es, state v misses none from before the second c; one it misses
\* in that second came after an event that may date a state to it.
AsOf(es, c, v) ==
    \A e \in DOMAIN es :
        es[e].type = "subscription" /\ v < es[e].version =>
            /\ c <= es[e].created
            /\ c = es[e].created => \E f \in 1 .. e - 1 : DatesIn(es, f, c)

\* Changes are emitted in their order, each with an event, and before anything else.
EventsInOrder ==
    /\ \A e \in DOMAIN events :
          /\ version > 0
          /\ Created(events[e].created) = events[e].created
          /\ IsChange(e) => events[e].version > 0
    /\ \A e, f \in DOMAIN events :
          IsChange(e) /\ IsChange(f) /\ events[e].version < events[f].version =>
              e < f /\ events[e].created <= events[f].created
    /\ version > 0 => \E e \in DOMAIN events : IsChange(e) /\ events[e].version = version

\* What a request is about to apply is as of the time it will be stamped with.
Fresh(me) ==
    /\ me.pc \in {"retrieve", "apply"} => events[me.event].type # "other"
    /\ me.pc = "apply" => me.version > 0 /\ AsOf(events, Created(ObservedAt(me)), me.version)

\* The snapshot is as of its stamp, and the stamp is not before any change whose
\* event is over.
SnapshotFollows ==
    /\ snapshot # NoSnapshot =>
          /\ AsOf(events, Created(snapshot.last_provider_event_at), snapshot.version)
          /\ DatedIn(events, Created(snapshot.last_provider_event_at))
    /\ \A e \in DOMAIN events :
          IsChange(e) /\ Over(e) =>
              snapshot # NoSnapshot /\ events[e].created <= snapshot.last_provider_event_at

\* The inductive invariant.
SyncInv ==
    /\ Typed
    /\ EventsInOrder
    /\ SnapshotFollows
    /\ \A h \in Handlers : Fresh(handler[h])
    /\ \A e \in EventIds \ DOMAIN events : ~Over(e)

\* The times and versions the facts below compare are numbers.
LEMMA Numbers ==
    ASSUME Typed
    PROVE  /\ now \in Nat /\ version \in Nat /\ Len(events) \in Nat
           /\ DOMAIN events = 1 .. Len(events)
           /\ DOMAIN events \subseteq EventIds
           /\ \A e \in DOMAIN events : events[e].created \in 0 .. now /\ events[e].version \in 0 .. version
           /\ snapshot.version \in 0 .. version /\ snapshot.last_provider_event_at \in 0 .. now
           /\ \A h \in Handlers : handler[h].pc # "idle" => handler[h].event \in DOMAIN events
<1>1. Len(events) \in Nat /\ DOMAIN events = 1 .. Len(events)  BY LenProperties DEF Typed, TypeOK
<1>2. now \in Nat /\ version \in Nat  BY BoundAssumption DEF Typed, TypeOK
<1>3. DOMAIN events \subseteq EventIds
  BY <1>1, BoundAssumption DEF Typed, TypeOK, EventIds
<1>4. ASSUME NEW e \in DOMAIN events
      PROVE  events[e].created \in 0 .. now /\ events[e].version \in 0 .. version
  <2>1. events[e] \in EventRecord  BY <1>1, ElementOfSeq DEF Typed, TypeOK
  <2> QED  BY <2>1 DEF EventRecord
<1>5. snapshot.version \in 0 .. version /\ snapshot.last_provider_event_at \in 0 .. now
  BY DEF Typed, TypeOK
<1>6. ASSUME NEW h \in Handlers, handler[h].pc # "idle"
      PROVE  handler[h].event \in DOMAIN events
  <2>1. handler[h] \in Request  BY DEF Typed, TypeOK
  <2>2. handler[h].event # 0  BY <1>6 DEF Typed, InFlight
  <2> QED  BY <1>1, <2>1, <2>2 DEF Request
<1> QED  BY <1>1, <1>2, <1>3, <1>4, <1>5, <1>6

LEMMA SyncInit == Init => SyncInv
<1> SUFFICES ASSUME Init PROVE SyncInv
    OBVIOUS
<1>1. Typed  BY InitTyped
<1>2. DOMAIN events = {}  BY <1>1, Numbers, EmptySeq DEF Init
<1>3. EventsInOrder  BY <1>2 DEF EventsInOrder, Init
<1>4. SnapshotFollows  BY <1>2 DEF SnapshotFollows, Init
<1> QED  BY <1>1, <1>3, <1>4 DEF SyncInv, Init, Fresh, Idle, Step, Over

\* A request that has something to apply is about an event that may date it.
LEMMA StampIsDated ==
    ASSUME SyncInv, NEW h \in Handlers, handler[h].pc \in {"retrieve", "apply"}
    PROVE  ObservedAt(handler[h]) \in 0 .. now /\ DatedIn(events, Created(ObservedAt(handler[h])))
<1>1. /\ now \in Nat /\ handler[h].event \in DOMAIN events
      /\ events[handler[h].event].created \in 0 .. now
  BY Numbers DEF SyncInv
<1>2. handler[h] \in Request  BY DEF SyncInv, Typed, TypeOK
<1>3. events[handler[h].event].type # "other"  BY DEF SyncInv, Fresh
<1>4. Created(events[handler[h].event].created) = events[handler[h].event].created
  BY <1>1 DEF SyncInv, EventsInOrder
<1> QED  BY <1>1, <1>2, <1>3, <1>4 DEF ObservedAt, DatedIn, DatesIn, Request

\* Emitting an event keeps everything: a change is not before all that was there,
\* and any other event says nothing of the subscription.
LEMMA EmissionKeeps ==
    ASSUME SyncInv, Typed', NEW type \in EventTypes, NEW t \in Nat, NEW v \in Nat,
           now \in 0 .. t, version \in 0 .. v, now' = t, version' = v, NEW w \in 0 .. v,
           events' = Append(events, Event(type, t, w)),
           Len(events) < MaxEvents,
           UNCHANGED <<processing_status, snapshot, handler>>,
           IF type = "subscription" THEN v = version + 1 /\ w = v ELSE v = version /\ v > 0
    PROVE  SyncInv'
<1> DEFINE n == Len(events) + 1
           c == Created(t)
<1>1. /\ now \in Nat /\ version \in Nat /\ Len(events) \in Nat
      /\ DOMAIN events = 1 .. Len(events)
      /\ DOMAIN events \subseteq EventIds
      /\ \A e \in DOMAIN events : events[e].created \in 0 .. now /\ events[e].version \in 0 .. version
      /\ snapshot.version \in 0 .. version /\ snapshot.last_provider_event_at \in 0 .. now
      /\ \A h \in Handlers : handler[h].pc # "idle" => handler[h].event \in DOMAIN events
  BY Numbers DEF SyncInv
<1>2. /\ DOMAIN events' = DOMAIN events \cup {n}
      /\ n \notin DOMAIN events
      /\ \A e \in DOMAIN events : events'[e] = events[e]
      /\ events'[n].type = type /\ events'[n].created = c /\ events'[n].version = w
  <2>1. /\ events' \in Seq(EventRecord') /\ Len(events') = n
        /\ \A e \in 1 .. Len(events) : events'[e] = events[e]
        /\ events'[n] = Event(type, t, w)
    BY Emission DEF SyncInv, Typed
  <2>2. DOMAIN events' = 1 .. n  BY <2>1, LenProperties
  <2> QED  BY <1>1, <2>1, <2>2 DEF Event
\* The new event's second is not before that of any time up to now.
<1>3. /\ c \in Nat /\ Created(c) = c
      /\ \A time \in 0 .. now : Created(time) \in Nat /\ Created(time) <= c
  <2>1. c \in Nat /\ Created(c) = c  BY CreatedBounds, CreatedIsWhole
  <2>2. ASSUME NEW time \in 0 .. now PROVE Created(time) \in Nat /\ Created(time) <= c
    <3>1. time \in Nat /\ time <= t  BY <1>1
    <3>2. Created(time) <= Created(t)  BY <3>1, CreatedKeepsOrder
    <3>3. Created(time) \in 0 .. time  BY <3>1, CreatedBounds
    <3> QED  BY <3>1, <3>2, <3>3
  <2> QED  BY <2>1, <2>2
<1>4. \A e \in DOMAIN events : events[e].created <= c
  <2> SUFFICES ASSUME NEW e \in DOMAIN events PROVE events[e].created <= c
      OBVIOUS
  <2>1. Created(events[e].created) = events[e].created  BY DEF SyncInv, EventsInOrder
  <2> QED  BY <1>1, <1>3, <2>1
<1> HIDE DEF c
<1>5. ASSUME NEW time \in 0 .. now, DatedIn(events, Created(time))
      PROVE  DatedIn(events', Created(time))
  BY <1>2, <1>5 DEF DatedIn, DatesIn
<1>6. ASSUME NEW time \in 0 .. now, NEW state \in 0 .. version,
             AsOf(events, Created(time), state), DatedIn(events, Created(time))
      PROVE  AsOf(events', Created(time), state)
  <2> DEFINE d == Created(time)
  <2>1. d <= c  BY <1>3
  <2> HIDE DEF d
  <2> SUFFICES ASSUME NEW e \in DOMAIN events', events'[e].type = "subscription",
                      state < events'[e].version
               PROVE  /\ d <= events'[e].created
                      /\ d = events'[e].created => \E f \in 1 .. e - 1 : DatesIn(events', f, d)
      BY DEF AsOf, d
  <2>2. CASE e = n
    <3>1. PICK f \in DOMAIN events : DatesIn(events, f, d)  BY <1>6 DEF DatedIn, d
    <3>2. DatesIn(events', f, d)  BY <1>2, <3>1 DEF DatesIn
    <3>3. f \in 1 .. e - 1  BY <1>1, <2>2
    <3> QED  BY <1>2, <2>1, <2>2, <3>2, <3>3
  <2>3. CASE e # n
    <3>1. e \in DOMAIN events /\ events'[e] = events[e]  BY <1>2, <2>3
    <3>2. d <= events[e].created  BY <1>6, <3>1 DEF AsOf, d
    <3>3. ASSUME d = events[e].created
          PROVE  \E f \in 1 .. e - 1 : DatesIn(events', f, d)
      <4>1. PICK f \in 1 .. e - 1 : DatesIn(events, f, d)  BY <1>6, <3>1, <3>3 DEF AsOf, d
      <4>2. f \in DOMAIN events  BY <1>1, <3>1
      <4> QED  BY <1>2, <4>1, <4>2 DEF DatesIn
    <3> QED  BY <3>1, <3>2, <3>3
  <2> QED  BY <2>2, <2>3
<1>8. EventsInOrder'
  <2>1. ASSUME NEW e \in DOMAIN events'
        PROVE  /\ version' > 0
               /\ Created(events'[e].created) = events'[e].created
               /\ IsChange(e)' => events'[e].version > 0
    <3>1. CASE e = n  BY <1>1, <1>2, <1>3, <3>1 DEF IsChange
    <3>2. CASE e # n
      <4>1. e \in DOMAIN events /\ events'[e] = events[e]  BY <1>2, <3>2
      <4> QED  BY <1>1, <4>1 DEF SyncInv, EventsInOrder, IsChange
    <3> QED  BY <3>1, <3>2
  <2>2. ASSUME NEW e \in DOMAIN events', NEW f \in DOMAIN events', IsChange(e)', IsChange(f)',
               events'[e].version < events'[f].version
        PROVE  e < f /\ events'[e].created <= events'[f].created
    <3>1. CASE e = n
      <4>1. f \in DOMAIN events  BY <1>2, <2>2, <3>1
      <4> QED  BY <1>1, <1>2, <2>2, <3>1, <4>1 DEF IsChange
    <3>2. CASE e # n /\ f = n
      <4>1. e \in DOMAIN events  BY <1>2, <3>2
      <4> QED  BY <1>1, <1>2, <1>4, <3>2, <4>1
    <3>3. CASE e # n /\ f # n
      <4>1. e \in DOMAIN events /\ f \in DOMAIN events  BY <1>2, <3>3
      <4> QED  BY <1>2, <2>2, <4>1 DEF SyncInv, EventsInOrder, IsChange
    <3> QED  BY <3>1, <3>2, <3>3
  <2>3. ASSUME version' > 0
        PROVE  \E e \in DOMAIN events' : IsChange(e)' /\ events'[e].version = version'
    <3>1. CASE type = "subscription"  BY <1>2, <3>1 DEF IsChange
    <3>2. CASE type # "subscription"
      <4>1. PICK e \in DOMAIN events : IsChange(e) /\ events[e].version = version
        BY <2>3, <3>2 DEF SyncInv, EventsInOrder
      <4> QED  BY <1>2, <3>2, <4>1 DEF IsChange
    <3> QED  BY <3>1, <3>2
  <2> QED  BY <2>1, <2>2, <2>3 DEF EventsInOrder
<1>9. processing_status'[n] \notin {"processed", "ignored"}
  <2>1. n \in EventIds  BY <1>1, BoundAssumption DEF EventIds
  <2>2. ~Over(n)  BY <1>2, <2>1 DEF SyncInv
  <2> QED  BY <2>2 DEF Over
<1>10. SnapshotFollows'
  <2> DEFINE stamp == snapshot.last_provider_event_at
  <2>1. ASSUME snapshot # NoSnapshot
        PROVE  /\ AsOf(events', Created(stamp), snapshot.version)
               /\ DatedIn(events', Created(stamp))
    <3>1. AsOf(events, Created(stamp), snapshot.version) /\ DatedIn(events, Created(stamp))
      BY <2>1 DEF SyncInv, SnapshotFollows
    <3> QED  BY <1>1, <1>5, <1>6, <3>1
  <2>2. \A e \in DOMAIN events' :
            IsChange(e)' /\ Over(e)' =>
                snapshot' # NoSnapshot /\ events'[e].created <= snapshot'.last_provider_event_at
    <3> SUFFICES ASSUME NEW e \in DOMAIN events', IsChange(e)', Over(e)'
                 PROVE  snapshot # NoSnapshot /\ events'[e].created <= snapshot.last_provider_event_at
        OBVIOUS
    <3>1. e \in DOMAIN events /\ events'[e] = events[e]  BY <1>2, <1>9 DEF Over
    <3>2. IsChange(e) /\ Over(e)  BY <3>1 DEF IsChange, Over
    <3> QED  BY <3>1, <3>2 DEF SyncInv, SnapshotFollows
  <2>3. snapshot' = snapshot  OBVIOUS
  <2> QED  BY <2>1, <2>2, <2>3 DEF SnapshotFollows, NoSnapshot
<1>11. ASSUME NEW h \in Handlers PROVE Fresh(handler[h])'
  <2>1. Fresh(handler[h])  BY DEF SyncInv
  <2>2. handler' = handler  OBVIOUS
  <2>3. ASSUME handler[h].pc \in {"retrieve", "apply"}
        PROVE  events'[handler[h].event] = events[handler[h].event]
    BY <1>1, <1>2, <2>3
  <2>4. ASSUME handler[h].pc = "apply"
        PROVE  AsOf(events', Created(ObservedAt(handler[h])'), handler[h].version)
    <3> DEFINE o == ObservedAt(handler[h])
    <3>1. o \in 0 .. now /\ DatedIn(events, Created(o))  BY <2>4, StampIsDated
    <3>2. AsOf(events, Created(o), handler[h].version)  BY <2>1, <2>4 DEF Fresh
    <3>3. handler[h].version \in 0 .. version  BY DEF SyncInv, Typed, TypeOK, Request
    <3>4. ObservedAt(handler[h])' = o  BY <2>2, <2>3, <2>4 DEF ObservedAt
    <3> HIDE DEF o
    <3> QED  BY <1>6, <3>1, <3>2, <3>3, <3>4
  <2> QED  BY <2>1, <2>2, <2>3, <2>4 DEF Fresh
<1>12. \A e \in EventIds \ DOMAIN events' : ~Over(e)'
  BY <1>2 DEF SyncInv, Over
<1> QED  BY <1>8, <1>10, <1>11, <1>12 DEF SyncInv

\* A request's step leaves the events as they are: only what the request will
\* apply and the snapshot may change.
LEMMA RequestStepKeeps ==
    ASSUME SyncInv, Typed', NEW h \in Handlers,
           \/ \E e \in DOMAIN events : Receive(h, e)
           \/ AnswerDuplicate(h) \/ Ignore(h) \/ Proceed(h) \/ RetrieveSubscription(h)
           \/ ApplyEvent(h) \/ Raise(h) \/ MarkFailed(h) \/ Crash(h)
    PROVE  SyncInv'
<1> DEFINE Changes(p, s) == \A e \in DOMAIN events :
               IsChange(e) /\ p[e] \in {"processed", "ignored"} =>
                   s # NoSnapshot /\ events[e].created <= s.last_provider_event_at
           Follows(s) == s # NoSnapshot =>
               /\ AsOf(events, Created(s.last_provider_event_at), s.version)
               /\ DatedIn(events, Created(s.last_provider_event_at))
<1>1. /\ now \in Nat /\ version \in Nat /\ Len(events) \in Nat
      /\ DOMAIN events = 1 .. Len(events)
      /\ DOMAIN events \subseteq EventIds
      /\ \A e \in DOMAIN events : events[e].created \in 0 .. now /\ events[e].version \in 0 .. version
      /\ snapshot.version \in 0 .. version /\ snapshot.last_provider_event_at \in 0 .. now
      /\ \A g \in Handlers : handler[g].pc # "idle" => handler[g].event \in DOMAIN events
  BY Numbers DEF SyncInv
<1>2. /\ now' = now /\ version' = version /\ events' = events
  BY DEF Receive, AnswerDuplicate, Ignore, Proceed, RetrieveSubscription, ApplyEvent,
         Raise, MarkFailed, Crash, StripeUnchanged
<1>3. /\ processing_status \in [EventIds -> Statuses]
      /\ handler \in [Handlers -> Request]
      /\ handler[h] \in Request
  BY DEF SyncInv, Typed, TypeOK
<1>4. Changes(processing_status, snapshot) /\ Follows(snapshot)
  BY DEF SyncInv, SnapshotFollows, Over
<1>5. EventsInOrder'  BY <1>2 DEF SyncInv, EventsInOrder, IsChange
\* Only an event that exists is ever over, and a change is over only when a
\* request applied it.
<1>6. \A e \in EventIds \ DOMAIN events : processing_status'[e] \notin {"processed", "ignored"}
  <2>1. CASE \E f \in DOMAIN events : Receive(h, f)
    BY <1>1, <1>3, <2>1 DEF SyncInv, Over, Receive
  <2>2. CASE Ignore(h)  BY <1>1, <1>3, <2>2 DEF SyncInv, Over, Ignore
  <2>3. CASE ApplyEvent(h)  BY <1>1, <1>3, <2>3 DEF SyncInv, Over, ApplyEvent, Applicable
  <2>4. CASE MarkFailed(h)  BY <1>1, <1>3, <2>4 DEF SyncInv, Over, MarkFailed, Failed
  <2>5. CASE AnswerDuplicate(h) \/ Proceed(h) \/ RetrieveSubscription(h) \/ Raise(h) \/ Crash(h)
    BY <2>5 DEF SyncInv, Over, AnswerDuplicate, Proceed, RetrieveSubscription, Raise, Crash
  <2> QED  BY <2>1, <2>2, <2>3, <2>4, <2>5
<1>7. Follows(snapshot') /\ Changes(processing_status', snapshot')
  <2>1. CASE \E f \in DOMAIN events : Receive(h, f)
    BY <1>1, <1>3, <1>4, <2>1 DEF SyncInv, Receive
  <2>2. CASE Ignore(h)
    <3>1. ~IsChange(handler[h].event)  BY <2>2 DEF Ignore, IsChange
    <3>2. \A e \in DOMAIN events : IsChange(e) => processing_status'[e] = processing_status[e]
      BY <1>1, <1>3, <2>2, <3>1 DEF Ignore
    <3> QED  BY <1>4, <2>2, <3>2 DEF SyncInv, Ignore
  <2>3. CASE ApplyEvent(h)
    <3> DEFINE e == handler[h].event
               observed == ObservedAt(handler[h])
    <3>1. e \in DOMAIN events  BY <1>1, <2>3 DEF ApplyEvent, Applicable
    <3>2. observed \in 0 .. now
      BY <1>1, <1>3, <3>1 DEF ObservedAt, Request
    <3>3. /\ AsOf(events, Created(observed), handler[h].version)
          /\ DatedIn(events, Created(observed))
          /\ handler[h].version > 0
      BY <2>3, StampIsDated DEF ApplyEvent, Applicable, SyncInv, Fresh
    <3>4. IsChange(e) => observed = events[e].created  BY DEF ObservedAt, IsChange
    <3>5. \A f \in DOMAIN events : f # e => processing_status'[f] = processing_status[f]
      BY <1>1, <1>3, <2>3 DEF ApplyEvent
    <3> HIDE DEF Follows
    <3>6. CASE Stale(observed)
      <4>1. /\ snapshot' = snapshot /\ snapshot # NoSnapshot
            /\ observed < snapshot.last_provider_event_at
        BY <2>3, <3>6 DEF ApplyEvent, Stale
      <4> QED  BY <1>1, <1>4, <3>2, <3>4, <3>5, <4>1
    <3>7. CASE ~Stale(observed)
      <4>1. snapshot' = [version |-> handler[h].version, last_provider_event_at |-> observed]
        BY <2>3, <3>7 DEF ApplyEvent
      <4>2. snapshot' # NoSnapshot  BY <3>3, <4>1 DEF NoSnapshot
      <4>3. Follows(snapshot')  BY <3>3, <4>1 DEF Follows
      <4>4. snapshot = NoSnapshot \/ snapshot.last_provider_event_at <= observed
        BY <1>1, <3>2, <3>7 DEF Stale
      <4>5. ASSUME NEW f \in DOMAIN events, IsChange(f),
                   processing_status'[f] \in {"processed", "ignored"}
            PROVE  events[f].created <= observed
        <5>1. CASE f = e  BY <1>1, <3>2, <3>4, <4>5, <5>1
        <5>2. CASE f # e  BY <1>1, <1>4, <3>2, <3>5, <4>4, <4>5, <5>2
        <5> QED  BY <5>1, <5>2
      <4> QED  BY <4>1, <4>2, <4>3, <4>5
    <3> QED  BY <3>6, <3>7
  <2>4. CASE MarkFailed(h)
    BY <1>1, <1>3, <1>4, <2>4 DEF SyncInv, MarkFailed, Failed
  <2>5. CASE AnswerDuplicate(h) \/ Proceed(h) \/ RetrieveSubscription(h) \/ Raise(h) \/ Crash(h)
    BY <1>4, <2>5 DEF SyncInv, AnswerDuplicate, Proceed, RetrieveSubscription, Raise, Crash
  <2> QED  BY <2>1, <2>2, <2>3, <2>4, <2>5
\* A subscription event carries the state as of its time; a retrieval brings
\* every change there is.
<1>8. ASSUME NEW g \in Handlers PROVE Fresh(handler'[g])
  <2>1. CASE handler'[g] = handler[g]  BY <2>1 DEF SyncInv
  <2>2. CASE handler'[g].pc \notin {"retrieve", "apply"}  BY <2>2 DEF Fresh
  <2>3. CASE g = h /\ Proceed(h)
    <3> DEFINE e == handler[h].event
    <3>1. e \in DOMAIN events /\ events[e].type # "other"  BY <1>1, <2>3 DEF Proceed
    <3>2. CASE IsChange(e)
      <4>1. handler'[h] = Step("apply", e, handler[h].effective_at, events[e].version)
        BY <1>3, <2>3, <3>2 DEF Proceed, IsChange
      <4>2. AsOf(events, events[e].created, events[e].version)
        <5> SUFFICES ASSUME NEW f \in DOMAIN events, IsChange(f),
                            events[e].version < events[f].version
                     PROVE  /\ events[e].created <= events[f].created
                            /\ events[e].created = events[f].created =>
                                  \E i \in 1 .. f - 1 : DatesIn(events, i, events[e].created)
            BY DEF AsOf, IsChange
        <5>1. e < f /\ events[e].created <= events[f].created
          BY <3>1, <3>2 DEF SyncInv, EventsInOrder
        <5>2. e \in 1 .. f - 1  BY <1>1, <3>1, <5>1
        <5>3. DatesIn(events, e, events[e].created)  BY <3>1 DEF DatesIn
        <5> QED  BY <5>1, <5>2, <5>3
      <4>3. Created(events[e].created) = events[e].created /\ events[e].version > 0
        BY <3>1, <3>2 DEF SyncInv, EventsInOrder
      <4>4. ObservedAt(handler'[h]) = events[e].created
        BY <3>2, <4>1 DEF ObservedAt, Step, IsChange
      <4> QED  BY <2>3, <3>1, <4>1, <4>2, <4>3, <4>4 DEF Fresh, Step
    <3>3. CASE ~IsChange(e)
      BY <1>3, <2>3, <3>1, <3>3 DEF Proceed, IsChange, Fresh, Step
    <3> QED  BY <3>2, <3>3
  <2>4. CASE g = h /\ RetrieveSubscription(h)
    <3>1. /\ handler'[h].version = version /\ handler'[h].event = handler[h].event
          /\ handler[h].pc = "retrieve"
      BY <1>3, <2>4 DEF RetrieveSubscription, Step
    <3>2. handler[h].event \in DOMAIN events  BY <1>1, <3>1
    <3>3. version > 0  BY <3>2 DEF SyncInv, EventsInOrder
    <3>4. events[handler[h].event].type # "other"  BY <3>1 DEF SyncInv, Fresh
    <3>5. \A c : AsOf(events, c, version)  BY <1>1 DEF AsOf
    <3> QED  BY <2>4, <3>1, <3>3, <3>4, <3>5 DEF Fresh
  <2>5. \/ handler'[g] = handler[g] \/ handler'[g].pc \notin {"retrieve", "apply"}
        \/ g = h /\ (Proceed(h) \/ RetrieveSubscription(h))
    <3>1. CASE g # h
      BY <1>3, <3>1 DEF Receive, AnswerDuplicate, Ignore, Proceed, RetrieveSubscription,
                        ApplyEvent, Raise, MarkFailed, Crash, Respond
    <3>2. CASE g = h
      BY <1>3, <3>2 DEF Receive, AnswerDuplicate, Ignore, ApplyEvent, Raise, MarkFailed,
                        Crash, Respond, Idle, Step
    <3> QED  BY <3>1, <3>2
  <2> QED  BY <2>1, <2>2, <2>3, <2>4, <2>5
<1> QED
  <2>1. SnapshotFollows'  BY <1>2, <1>7 DEF SnapshotFollows, Over, IsChange, NoSnapshot
  <2>2. \A g \in Handlers : Fresh(handler[g])'  BY <1>2, <1>8 DEF Fresh, ObservedAt
  <2>3. \A e \in EventIds \ DOMAIN events' : ~Over(e)'  BY <1>2, <1>6 DEF Over
  <2> QED  BY <1>5, <2>1, <2>2, <2>3 DEF SyncInv

LEMMA SyncStep == SyncInv /\ [Next]_vars => SyncInv'
<1> SUFFICES ASSUME SyncInv, [Next]_vars PROVE SyncInv'
    OBVIOUS
<1>1. Typed'  BY StepTyped DEF SyncInv
<1>2. now \in Nat /\ version \in Nat  BY Numbers DEF SyncInv
<1>3. CASE ChangeSubscription
  <2>1. "subscription" \in EventTypes  BY DEF EventTypes
  <2>2. /\ now' = now + 1 /\ version' = version + 1 /\ Len(events) < MaxEvents
        /\ events' = Append(events, Event("subscription", now + 1, version + 1))
        /\ UNCHANGED <<processing_status, snapshot, handler>>
    BY <1>3 DEF ChangeSubscription, ServerUnchanged
  <2> QED  BY <1>1, <1>2, <2>1, <2>2, EmissionKeeps
<1>4. CASE \E type \in EventTypes \ {"subscription"} : EmitEvent(type)
  <2> PICK type \in EventTypes \ {"subscription"} : EmitEvent(type)  BY <1>4
  <2>1. /\ now' = now /\ version' = version /\ version > 0 /\ Len(events) < MaxEvents
        /\ events' = Append(events, Event(type, now, 0))
        /\ UNCHANGED <<processing_status, snapshot, handler>>
    BY DEF EmitEvent, ServerUnchanged
  <2> QED  BY <1>1, <1>2, <2>1, EmissionKeeps
<1>5. CASE Tick \/ UNCHANGED vars
  <2>1. UNCHANGED <<version, events, processing_status, snapshot, handler>>
    BY <1>5 DEF Tick, ServerUnchanged, vars
  <2> QED  BY <1>1, <2>1
        DEF SyncInv, EventsInOrder, SnapshotFollows, NoSnapshot, IsChange, Fresh, ObservedAt, Over
<1>6. CASE \E h \in Handlers :
              \/ \E e \in DOMAIN events : Receive(h, e)
              \/ AnswerDuplicate(h) \/ Ignore(h) \/ Proceed(h) \/ RetrieveSubscription(h)
              \/ ApplyEvent(h) \/ Raise(h) \/ MarkFailed(h) \/ Crash(h)
  BY <1>1, <1>6, RequestStepKeeps
<1> QED  BY <1>3, <1>4, <1>5, <1>6 DEF Next

\* Once every event is over the server has the subscription as it is at Stripe, up
\* to the order of what happens in one second, however many deliveries there were,
\* in whatever order they were handled, and wherever they failed.
THEOREM EveryStateArrives == Spec => []SyncedWhenOver
<1>1. SyncInv => SyncedWhenOver
  <2> SUFFICES ASSUME SyncInv, \A e \in DOMAIN events : Over(e),
                      NEW e \in DOMAIN events, IsChange(e), snapshot.version < events[e].version
               PROVE  SameSecond(e)
      BY DEF SyncedWhenOver, Synced
  <2> DEFINE stamp == snapshot.last_provider_event_at
             c == events[e].created
  <2>1. now \in Nat /\ stamp \in 0 .. now /\ c \in 0 .. now  BY Numbers DEF SyncInv
  <2>2. snapshot # NoSnapshot /\ c <= stamp  BY DEF SyncInv, SnapshotFollows
  <2>3. /\ Created(stamp) <= c
        /\ Created(stamp) = c => \E f \in 1 .. e - 1 : DatesIn(events, f, c)
    BY <2>2 DEF SyncInv, SnapshotFollows, AsOf, IsChange
  <2>4. Created(stamp) = c
    <3>1. Created(c) = c  BY DEF SyncInv, EventsInOrder
    <3>2. c \in Nat /\ stamp \in Nat /\ c <= stamp  BY <2>1, <2>2
    <3>3. Created(c) <= Created(stamp) /\ Created(stamp) \in Nat
      BY <3>2, CreatedKeepsOrder, CreatedBounds
    <3> HIDE DEF stamp, c
    <3> QED  BY <2>3, <3>1, <3>2, <3>3
  <2> QED  BY <2>3, <2>4 DEF SameSecond, Dates, DatesIn
<1> QED  BY <1>1, SyncInit, SyncStep, PTL DEF Spec
============================================================================
