------------------------------ MODULE WorkRuns ------------------------------
(***************************************************************************)
(* The runs of one Cortex Work session (server/work/service.py over        *)
(* db/work_repository.py): starting a run, reconciling it with the remote  *)
(* agent under a lease, cancelling it, deciding its approvals              *)
(* (server/routes/work.py), and charging it through the metering service.  *)
(*                                                                         *)
(* No transaction is held across a provider call, so a request is a        *)
(* process: one action per transaction or provider call, with what it read *)
(* earlier carried along.  Start requests, reconciliations (background     *)
(* loop, polling browsers, cancel requests) and approval decisions         *)
(* interleave freely; the lease of a run covers a reconciliation up to its *)
(* transaction, not the provider calls after it.                           *)
(***************************************************************************)
EXTENDS WorkTools

CONSTANTS
    Workers,        \* concurrent reconciliations and cancel requests
    Deciders,       \* approve and deny requests
    Budget,         \* max_credit_budget of every run
    MaxActiveRuns,  \* the plan's max_active_work_runs
    FinalizeAt,     \* output tokens at which the agent is told to finish
    OutputLimit,    \* output ceiling of a run
    Limits,         \* AI-credit allowances
    Periods,        \* usage periods
    Disturbances    \* what else may happen: see Disturbance

\* "slow_start": a reconciliation or the agent gets in between the last steps of
\* the start request.  "stall": a reconciliation outlives its lease.
Disturbance == {"cancel", "call_error", "crash", "start_crash", "stall", "slow_start",
                "reservation_expiry", "approval_timeout"}

ASSUME MeteringAssumption == IsFiniteSet(Runs) /\ Limits \subseteq Nat /\ Limits # {}
ASSUME BudgetAssumption == Budget \in Nat \ {0} /\ Budget <= MaxUsage
ASSUME OutputAssumption == FinalizeAt \in Nat /\ OutputLimit \in Nat \ {0} /\ FinalizeAt < OutputLimit
ASSUME DisturbanceAssumption == Disturbances \subseteq Disturbance

VARIABLES
    run,      \* work_runs rows
    linked,   \* work_sessions.provider_session_id
    lease,    \* work_sync_leases: the holder of an unexpired lease
    ledger,   \* the credit transaction of the run: what it charges, and what was
              \* calculated of the usage
    start,    \* start requests, by the run they create
    worker,   \* reconciliations and cancel requests
    decider,  \* approve and deny requests
    consent,  \* history: tool calls the user approved at some time
    lost,     \* history: what crashed reconciliations had recorded but not told
              \* the provider
    limit, period, granted, used, reserved,              \* the metering service
    state, periodOf, requested, settled, planLimit, stale

Metering == INSTANCE UsageMetering WITH Requests <- Runs, MaxQuantity <- MaxUsage

metering == <<limit, period, granted, used, reserved, state, periodOf,
              requested, settled, planLimit, stale>>
billing == <<metering, ledger>>
processes == <<start, worker, decider>>
vars == <<session, toolTables, run, linked, lease, billing, processes, consent, lost>>

None == "none"
Active == {"created", "running", "waiting_for_approval"}
Terminal == {"completed", "failed", "cancelled", "budget_exhausted", "output_limit_reached"}

\* What configuration_snapshot says of the provider session when a run began.
NoBaseline == [session |-> None, usage |-> 0, output |-> 0, events |-> 0]

NoRun == [status |-> None, session |-> None, known |-> FALSE, base |-> NoBaseline,
          finalize |-> FALSE, interrupt |-> FALSE]
NoStart == [pc |-> "idle", base |-> NoBaseline, resume |-> FALSE]
NoEntry == [billed |-> 0, calculated |-> 0]
NothingLost == [interrupt |-> FALSE, denials |-> {}]
NoEffects == [finalize |-> FALSE, interrupt |-> FALSE,
              allow |-> {}, deny |-> {}, expired |-> {}]
Idle == [pc |-> "idle", run |-> None, cancel |-> FALSE, session |-> None, row |-> NoRun,
         seen |-> <<>>, status |-> None, usage |-> 0, output |-> 0, todo |-> NoEffects]
NoDecision == [pc |-> "idle", run |-> None, tool |-> None, index |-> 0,
               decision |-> None, remember |-> FALSE]

Init ==
    /\ AgentInit
    /\ ToolsInit
    /\ run = [r \in Runs |-> NoRun]
    /\ linked = None
    /\ lease = [r \in Runs |-> None]
    /\ ledger = [r \in Runs |-> NoEntry]
    /\ start = [r \in Runs |-> NoStart]
    /\ worker = [w \in Workers |-> Idle]
    /\ decider = [d \in Deciders |-> NoDecision]
    /\ consent = {}
    /\ lost = [r \in Runs |-> NothingLost]
    /\ Metering!Init

ActiveRuns == {r \in Runs : run[r].status \in Active}
\* A reconciliation prefers the session's provider id to the run's own.
SessionOf(r) == IF linked # None THEN linked ELSE run[r].session

----------------------------------------------------------------------------
(* start_work_run *)

\* The first transaction: plan limit, reservation and run row together.
CreateRun(r) ==
    /\ run[r].status = None
    /\ Cardinality(ActiveRuns) < MaxActiveRuns
    /\ Metering!ReserveUsage(r, Budget)
    /\ run' = [run EXCEPT ![r].status = "created"]
    /\ start' = [start EXCEPT ![r].pc = "open", ![r].base.session = linked]
    /\ UNCHANGED <<session, toolTables, linked, lease, ledger, worker, decider, consent, lost>>

StartUnchanged == UNCHANGED <<toolTables, lease, billing, worker, decider, consent, lost>>

\* Same connections as before: the follow-up reuses the provider session.
ReadBaseline(r) ==
    LET s == start[r].base.session
    IN  /\ start[r].pc = "open"
        /\ s # None
        /\ start' = [start EXCEPT
               ![r].pc = "events",
               ![r].base.usage = session[s].usage,
               ![r].base.output = session[s].output]
        /\ UNCHANGED <<session, run, linked>> /\ StartUnchanged

ReadBaselineEvents(r) ==
    LET events == session[start[r].base.session].events
    IN  /\ start[r].pc = "events"
        /\ start' = [start EXCEPT
               ![r].pc = "extend",
               ![r].base.events = Len(events),
               ![r].resume = PausedAtBudget(events)]
        /\ UNCHANGED <<session, run, linked>> /\ StartUnchanged

ExtendForRun(r) == ExtendBudget(start[r].base.session, start[r].base.usage + Budget)

ExtendProviderBudget(r) ==
    /\ start[r].pc = "extend"
    /\ ExtendForRun(r)
    /\ start' = [start EXCEPT ![r].pc = "record"]
    /\ UNCHANGED <<run, linked>> /\ StartUnchanged

\* No session yet, or another set of vaults: a new provider session.
OpenSession(r, s) ==
    /\ start[r].pc = "open"
    /\ CreateSession(s, Budget)
    /\ start' = [start EXCEPT ![r].pc = "record", ![r].base = [NoBaseline EXCEPT !.session = s]]
    /\ UNCHANGED <<run, linked>> /\ StartUnchanged

\* The second transaction: identity and baseline of the run.
RecordSession(r) ==
    /\ start[r].pc = "record"
    /\ run' = [run EXCEPT ![r].session = start[r].base.session,
                          ![r].known = TRUE,
                          ![r].base = start[r].base]
    /\ linked' = start[r].base.session
    /\ start' = [start EXCEPT ![r].pc = "send"]
    /\ UNCHANGED session /\ StartUnchanged

Instruct(r) ==
    IF start[r].resume THEN UNCHANGED session ELSE SendInstruction(start[r].base.session)

SendFirstInstruction(r) ==
    /\ start[r].pc = "send"
    /\ Instruct(r)
    /\ start' = [start EXCEPT ![r].pc = "confirm"]
    /\ UNCHANGED <<run, linked>> /\ StartUnchanged

\* The third transaction: whatever happened meanwhile, the run is running.
ConfirmStart(r) ==
    /\ start[r].pc = "confirm"
    /\ run' = [run EXCEPT ![r].status = "running",
                          ![r].session = start[r].base.session,
                          ![r].base = start[r].base]
    /\ linked' = start[r].base.session
    /\ start' = [start EXCEPT ![r] = [NoStart EXCEPT !.pc = "done"]]
    /\ UNCHANGED session /\ StartUnchanged

\* release_usage on an open row frees it, on a released one does nothing, and
\* on any other raises.
CanRelease(r) == state[r] \in {"reserved", "released"}
Release(r) == IF state[r] = "reserved" THEN Metering!ReleaseUsage(r) ELSE UNCHANGED metering

\* A provider call failed (and may have arrived): the run fails and its hold is
\* released in one transaction, which rolls back when the hold is not there.
FailStart(r) ==
    /\ "call_error" \in Disturbances
    /\ start[r].pc \in {"open", "events", "extend", "record", "send"}
    /\ \/ UNCHANGED session
       \/ start[r].pc = "open" /\ \E s \in Sessions : CreateSession(s, Budget)
       \/ start[r].pc = "extend" /\ ExtendForRun(r)
       \/ start[r].pc = "send" /\ Instruct(r)
    /\ IF CanRelease(r)
       THEN run' = [run EXCEPT ![r].status = "failed"] /\ Release(r)
       ELSE UNCHANGED <<run, metering>>
    /\ start' = [start EXCEPT ![r] = [NoStart EXCEPT !.pc = "done"]]
    /\ UNCHANGED <<toolTables, linked, lease, ledger, worker, decider, consent, lost>>

CrashStart(r) ==
    /\ "start_crash" \in Disturbances
    /\ start[r].pc \notin {"idle", "done"}
    /\ start' = [start EXCEPT ![r] = [NoStart EXCEPT !.pc = "done"]]
    /\ UNCHANGED <<session, run, linked>> /\ StartUnchanged

StartStep(r) ==
    \/ ReadBaseline(r) \/ ReadBaselineEvents(r) \/ ExtendProviderBudget(r)
    \/ \E s \in Sessions : OpenSession(r, s)
    \/ RecordSession(r) \/ SendFirstInstruction(r) \/ ConfirmStart(r)

----------------------------------------------------------------------------
(* reconcile_work_run *)

\* Where a request goes when its reconciliation is over, one way or another.
Leave(me) == IF me.cancel
             THEN [Idle EXCEPT !.pc = "force", !.run = me.run, !.cancel = TRUE] ELSE Idle

SyncUnchanged == UNCHANGED <<session, linked, start, decider, consent, lost>>

\* claim_sync_lease: no row, or an expired one.
LeaseFree(r) == lease[r] = None

\* release_sync_lease: deletes the row only if it is still this holder's.
Unlock(w) ==
    LET r == worker[w].run
    IN  lease' = [lease EXCEPT ![r] = IF @ = w THEN None ELSE @]

MayOvertakeStart(r) == "slow_start" \in Disturbances \/ start[r].pc \in {"idle", "done"}

\* The first transaction: an active run with a known provider session, and the
\* lease; the row read here is used until the end.
StartSync(w, r) ==
    /\ \/ worker[w].pc = "idle"
       \/ worker[w].pc = "sync" /\ worker[w].run = r
    /\ run[r].status \in Active
    /\ LeaseFree(r)
    /\ SessionOf(r) # None
    /\ MayOvertakeStart(r)
    /\ lease' = [lease EXCEPT ![r] = w]
    /\ worker' = [worker EXCEPT ![w] =
           [Idle EXCEPT !.pc = "events", !.run = r, !.cancel = worker[w].cancel,
                        !.session = SessionOf(r), !.row = run[r]]]
    /\ UNCHANGED <<toolTables, run, billing>> /\ SyncUnchanged

\* Mutant: the events before the run are not left out.
NewEvents_All(row, s) == session[s].events
\* The provider events that are not in the run's baseline.
NewEvents(row, s) ==
    LET old == IF row.base.session = s THEN row.base.events ELSE 0
    IN  SubSeq(session[s].events, old + 1, Len(session[s].events))

ReadEvents(w) ==
    LET me == worker[w]
    IN  /\ me.pc = "events"
        /\ worker' = [worker EXCEPT
               ![w].pc = "session",
               ![w].seen = NewEvents(me.row, me.session)]
        /\ UNCHANGED <<toolTables, run, lease, billing>> /\ SyncUnchanged

\* Status and usage come from a later call than the events.
ReadSession(w) ==
    LET me == worker[w]
        s == session[me.session]
    IN  /\ me.pc = "session"
        /\ worker' = [worker EXCEPT
               ![w].pc = IF me.row.known THEN "apply" ELSE "identify",
               ![w].status = s.status, ![w].usage = s.usage, ![w].output = s.output]
        /\ UNCHANGED <<toolTables, run, lease, billing>> /\ SyncUnchanged

\* A run without a billing identity gets it, with the whole configuration as
\* it was read.
Identify(w) ==
    LET me == worker[w]
    IN  /\ me.pc = "identify"
        /\ run' = [run EXCEPT ![me.run].known = TRUE, ![me.run].base = me.row.base]
        /\ worker' = [worker EXCEPT ![w].pc = "apply", ![w].row.known = TRUE]
        /\ UNCHANGED <<toolTables, lease, billing>> /\ SyncUnchanged

\* Mutant: usage is not counted from the run's baseline.
Used_Total(me) == me.usage
\* Credits and output of this run so far, as it was sampled.
Used(me) == Metering!Larger(0, me.usage - me.row.base.usage)
Output(me) == Metering!Larger(0, me.output - me.row.base.output)
BudgetReached(me) == Used(me) >= Budget

Interruptible(me) == me.status = "running"
LimitReached(me) == Output(me) >= OutputLimit
AsksToFinalize(me) ==
    /\ Output(me) >= FinalizeAt
    /\ ~LimitReached(me)
    /\ Interruptible(me)
    /\ ~me.row.finalize
\* The ceiling is enforced by one interrupt, unless the budget stops the agent.
Interrupts(me) ==
    /\ LimitReached(me)
    /\ Interruptible(me)
    /\ ~me.row.interrupt
    /\ ~BudgetReached(me)

Newest(I) == IF I = {} THEN 0 ELSE CHOOSE i \in I : \A j \in I : j <= i
Ends(me) == {i \in DOMAIN me.seen : me.seen[i].type \in TerminalEvents}
Asks(me) == {i \in DOMAIN me.seen :
                /\ me.seen[i].type = "approval_required"
                /\ me.seen[i].tools \cap Asking(me.run, me.seen) # {}}

\* The outcome the event loop leaves: the last ending that no request for
\* approval follows, at first the run's own budget.
LoopOutcome(me) ==
    IF Newest(Ends(me)) > Newest(Asks(me)) THEN me.seen[Newest(Ends(me))].type
    ELSE IF Asks(me) = {} /\ BudgetReached(me) THEN "budget_exhausted" ELSE None

\* The output ceiling overrides it.
Outcome(me) ==
    IF LimitReached(me) /\ (~Interruptible(me) \/ Ends(me) # {}) THEN "output_limit_reached"
    ELSE IF Interrupts(me) THEN None ELSE LoopOutcome(me)

\* Without an outcome the run is running if the agent is, or what it was.
NextStatus(me) ==
    IF Outcome(me) # None THEN Outcome(me)
    ELSE IF me.status = "running" THEN "running" ELSE me.row.status

\* _settle_work_billing raises on a closed reservation, except that a settled
\* one is accepted when its credit transaction was calculated from the same usage.
CanSettle(r, u) ==
    IF u = 0 THEN CanRelease(r)
    ELSE state[r] = "reserved" \/ (state[r] = "settled" /\ ledger[r].calculated = u)

\* Mutant: the transaction is written before the settlement has cut the charge.
Entry_Uncut(r, u) == [billed |-> u, calculated |-> u]
\* create_credit_transaction: total_credits is what the settlement has billed.
Entry(r, u) == [billed |-> settled'[r], calculated |-> u]

\* Charge the run's usage, or free its hold when there is none.
Settle(r, u) ==
    IF u = 0 THEN Release(r) /\ UNCHANGED ledger
    ELSE IF state[r] = "settled" THEN UNCHANGED billing
    ELSE Metering!SettleUsage(r, u, limit) /\ ledger' = [ledger EXCEPT ![r] = Entry(r, u)]

\* What is left to tell the provider after the transaction.
Effects(me) ==
    [finalize  |-> AsksToFinalize(me),
     interrupt |-> Interrupts(me),
     allow     |-> AutoConfirm(me.seen),
     deny      |-> AutoDeny(me.run, me.seen),
     expired   |-> Expired(me.run)]

\* Drop the local variables no later step reads.
Continue(me, todo) ==
    IF todo = NoEffects THEN Leave(me)
    ELSE [Idle EXCEPT !.pc = "effects", !.run = me.run, !.cancel = me.cancel,
                      !.session = me.session, !.todo = todo]

\* Mutant: a run is settled on every reconciliation.
Ending_Always(me) == TRUE
\* Whether this reconciliation ends the run.
Ending(me) == NextStatus(me) \in Terminal

\* The main transaction: approvals, tool calls, status, settlement and the end
\* of the lease, all or nothing.
ApplyProgress(w) ==
    LET me == worker[w]
        r == me.run
    IN  /\ me.pc = "apply"
        /\ Ending(me) => CanSettle(r, Used(me))
        /\ IF Ending(me) THEN Settle(r, Used(me)) ELSE UNCHANGED billing
        /\ ReconcileTools(r, me.seen)
        /\ run' = [run EXCEPT ![r].status = NextStatus(me),
                              ![r].finalize = @ \/ AsksToFinalize(me),
                              ![r].interrupt = @ \/ Interrupts(me)]
        /\ Unlock(w)
        /\ worker' = [worker EXCEPT ![w] = Continue(me, Effects(me))]
        /\ UNCHANGED <<overdue, grants, actionToolsEnabled>> /\ SyncUnchanged

\* A provider call fails, or the settlement raises: nothing is kept.
FailSync(w) ==
    LET me == worker[w]
    IN  /\ \/ "call_error" \in Disturbances /\ me.pc \in {"events", "session"}
           \/ me.pc = "apply" /\ Ending(me) /\ ~CanSettle(me.run, Used(me))
        /\ Unlock(w)
        /\ worker' = [worker EXCEPT ![w] = Leave(me)]
        /\ UNCHANGED <<toolTables, run, billing>> /\ SyncUnchanged

----------------------------------------------------------------------------
(* The provider calls after the transaction, in the order of the code.  A    *)
(* failed call may have arrived.                                             *)

EffectsUnchanged == UNCHANGED <<linked, start, decider, consent, lost, lease, billing>>

\* A failed finalize message clears its flag, so that it is sent again.
SendFinalize(w) ==
    LET me == worker[w]
    IN  /\ me.pc = "effects" /\ me.todo.finalize
        /\ \/ SendInstruction(me.session) /\ UNCHANGED run
           \/ /\ "call_error" \in Disturbances
              /\ SendInstruction(me.session) \/ UNCHANGED session
              /\ run' = [run EXCEPT ![me.run].finalize = FALSE]
        /\ worker' = [worker EXCEPT ![w] = Continue(me, [me.todo EXCEPT !.finalize = FALSE])]
        /\ UNCHANGED toolTables /\ EffectsUnchanged

\* After an interrupt nothing is confirmed any more.
SendInterruptRequest(w) ==
    LET me == worker[w]
    IN  /\ me.pc = "effects" /\ me.todo.interrupt /\ ~me.todo.finalize
        /\ SendInterrupt(me.session)
        /\ worker' = [worker EXCEPT ![w] = Continue(me,
               [me.todo EXCEPT !.interrupt = FALSE, !.allow = {}, !.deny = {}])]
        /\ UNCHANGED <<run, toolTables>> /\ EffectsUnchanged

\* Mutant: the flag of a failed interrupt stays.
ClearInterrupt_Never(r) == UNCHANGED run
\* clear_work_output_interrupt_request.
ClearInterrupt(r) == run' = [run EXCEPT ![r].interrupt = FALSE]

\* A failed interrupt clears its flag and ends the request: whatever else was
\* left to tell the provider is dropped.
FailInterruptRequest(w) ==
    LET me == worker[w]
    IN  /\ "call_error" \in Disturbances
        /\ me.pc = "effects" /\ me.todo.interrupt /\ ~me.todo.finalize
        /\ SendInterrupt(me.session) \/ UNCHANGED session
        /\ ClearInterrupt(me.run)
        /\ worker' = [worker EXCEPT ![w] = Leave(me)]
        /\ UNCHANGED toolTables /\ EffectsUnchanged

\* The call has no effect when it fails, or when the provider does not wait for
\* this tool any more.
Tell(s, t, allow) ==
    \/ ConfirmTool(s, t, allow)
    \/ t \notin session[s].blocked /\ UNCHANGED session
    \/ "call_error" \in Disturbances /\ UNCHANGED session

\* Failed automatic confirmations and denials are logged and forgotten.
TellAutomatic(w, t) ==
    LET me == worker[w]
    IN  /\ me.pc = "effects" /\ ~me.todo.finalize /\ ~me.todo.interrupt
        /\ \/ t \in me.todo.allow /\ Tell(me.session, t, TRUE)
           \/ me.todo.allow = {} /\ t \in me.todo.deny /\ Tell(me.session, t, FALSE)
        /\ worker' = [worker EXCEPT ![w] = Continue(me,
               [me.todo EXCEPT !.allow = @ \ {t}, !.deny = IF t \in me.todo.allow THEN @ ELSE @ \ {t}])]
        /\ UNCHANGED <<run, toolTables>> /\ EffectsUnchanged

TellsExpired(me, x) ==
    /\ me.pc = "effects" /\ ~me.todo.finalize /\ ~me.todo.interrupt
    /\ me.todo.allow \cup me.todo.deny = {}
    /\ x \in me.todo.expired

TellExpired(w, x) ==
    LET me == worker[w]
    IN  /\ TellsExpired(me, x)
        /\ \/ ConfirmTool(me.session, x[1], FALSE)
           \/ x[1] \notin session[me.session].blocked /\ UNCHANGED session
        /\ worker' = [worker EXCEPT ![w] = Continue(me, [me.todo EXCEPT !.expired = @ \ {x}])]
        /\ UNCHANGED <<run, toolTables>> /\ EffectsUnchanged

\* A failed denial of an expired approval reopens it and the run waits again.
FailExpired(w, x) ==
    LET me == worker[w]
        r == me.run
    IN  /\ "call_error" \in Disturbances
        /\ TellsExpired(me, x)
        /\ ConfirmTool(me.session, x[1], FALSE) \/ UNCHANGED session
        /\ Reopen(r, x[1], x[2], "expired")
        /\ run' = [run EXCEPT ![r].status =
               IF approvals[r][x[1]][x[2]] = "expired" THEN "waiting_for_approval" ELSE @]
        /\ worker' = [worker EXCEPT ![w] = Continue(me, [me.todo EXCEPT !.expired = @ \ {x}])]
        /\ UNCHANGED <<overdue, grants, actionToolsEnabled>> /\ EffectsUnchanged

CrashWorker(w) ==
    /\ "crash" \in Disturbances
    /\ worker[w].pc # "idle"
    /\ worker' = [worker EXCEPT ![w] = Idle]
    /\ lost' = [lost EXCEPT
           ![worker[w].run].interrupt = @ \/ worker[w].todo.interrupt,
           ![worker[w].run].denials = @ \cup worker[w].todo.expired]
    /\ UNCHANGED <<session, toolTables, run, linked, lease, billing, start, decider, consent>>

\* The lease of a run runs out 30 seconds after it was claimed, whether its
\* holder is gone or only slow.
Syncing(w, r) == worker[w].run = r /\ worker[w].pc \in {"events", "session", "identify", "apply"}
\* Mutant: a lease its holder left behind is never taken over.
ExpireLease_Never(r) == lease[r] = None /\ UNCHANGED vars
ExpireLease(r) ==
    /\ lease[r] # None
    /\ "stall" \in Disturbances \/ ~Syncing(lease[r], r)
    /\ lease' = [lease EXCEPT ![r] = None]
    /\ UNCHANGED <<toolTables, run, worker, billing>> /\ SyncUnchanged

SyncStep(w) ==
    \/ \E r \in Runs : StartSync(w, r)
    \/ ReadEvents(w) \/ ReadSession(w) \/ Identify(w) \/ ApplyProgress(w) \/ FailSync(w)
    \/ SendFinalize(w) \/ SendInterruptRequest(w) \/ FailInterruptRequest(w)
    \/ \E t \in Tools : TellAutomatic(w, t)
    \/ \E x \in worker[w].todo.expired : TellExpired(w, x) \/ FailExpired(w, x)

----------------------------------------------------------------------------
(* cancel_work_run *)

CancelUnchanged == UNCHANGED <<toolTables, linked, lease, ledger, start, decider, consent, lost>>

ReadForCancel(w, r) ==
    /\ "cancel" \in Disturbances
    /\ worker[w].pc = "idle"
    /\ run[r].status \in Active
    /\ worker' = [worker EXCEPT ![w] = [Idle EXCEPT
           !.pc = IF SessionOf(r) = None THEN "sync" ELSE "stop",
           !.run = r, !.cancel = TRUE, !.session = SessionOf(r)]]
    /\ UNCHANGED <<session, run, metering>> /\ CancelUnchanged

StopProvider(w) ==
    /\ worker[w].pc = "stop"
    /\ SendInterrupt(worker[w].session)
    /\ worker' = [worker EXCEPT ![w].pc = "sync"]
    /\ UNCHANGED <<run, metering>> /\ CancelUnchanged

\* The error reaches the user: nothing is cancelled.
FailStopProvider(w) ==
    /\ "call_error" \in Disturbances
    /\ worker[w].pc = "stop"
    /\ SendInterrupt(worker[w].session) \/ UNCHANGED session
    /\ worker' = [worker EXCEPT ![w] = Idle]
    /\ UNCHANGED <<run, metering>> /\ CancelUnchanged

\* Its reconciliation (StartSync at "sync") returns at once when the run has
\* ended, another request holds the lease, or there is no provider session.
SkipSync(w) ==
    LET r == worker[w].run
    IN  /\ worker[w].pc = "sync"
        /\ \/ run[r].status \notin Active
           \/ lease[r] # None
           \/ SessionOf(r) = None
        /\ worker' = [worker EXCEPT ![w] = Leave(worker[w])]
        /\ UNCHANGED <<session, run, metering>> /\ CancelUnchanged

\* Mutant: a cancelled run keeps the hold its reconciliation did not settle.
ReleaseIfOpen_Never(r) == UNCHANGED metering
\* Errors of the release are swallowed: only an open hold is freed.
ReleaseIfOpen(r) == IF state[r] = "reserved" THEN Metering!ReleaseUsage(r) ELSE UNCHANGED metering

ForceCancel(w) ==
    LET r == worker[w].run
    IN  /\ worker[w].pc = "force"
        /\ IF run[r].status # "cancelled"
           THEN run' = [run EXCEPT ![r].status = "cancelled"] /\ ReleaseIfOpen(r)
           ELSE UNCHANGED <<run, metering>>
        /\ worker' = [worker EXCEPT ![w] = Idle]
        /\ UNCHANGED session /\ CancelUnchanged

CancelStep(w) ==
    \/ \E r \in Runs : ReadForCancel(w, r)
    \/ StopProvider(w) \/ FailStopProvider(w) \/ SkipSync(w) \/ ForceCancel(w)

----------------------------------------------------------------------------
(* _decide_approval *)

DecideUnchanged == UNCHANGED <<linked, lease, billing, start, worker, lost>>

Decide(d, r, t, i, decision, remember) ==
    /\ decider[d].pc = "idle"
    /\ SessionOf(r) # None
    /\ i \in DOMAIN approvals[r][t]
    /\ ClaimDecision(r, t, i, decision)
    /\ decider' = [decider EXCEPT ![d] =
           [pc |-> "tell", run |-> r, tool |-> t, index |-> i,
            decision |-> decision, remember |-> remember]]
    /\ consent' = IF decision = "approved" THEN consent \cup {t} ELSE consent
    /\ UNCHANGED <<session, overdue, grants, actionToolsEnabled, run>> /\ DecideUnchanged

TellDecision(d) ==
    LET me == decider[d]
        s == SessionOf(me.run)
    IN  /\ me.pc = "tell"
        /\ \/ ConfirmTool(s, me.tool, me.decision = "approved")
           \/ me.tool \notin session[s].blocked /\ UNCHANGED session
        /\ decider' = [decider EXCEPT ![d].pc = "finish"]
        /\ UNCHANGED <<toolTables, run, consent>> /\ DecideUnchanged

FailDecision(d) ==
    LET me == decider[d]
        s == SessionOf(me.run)
    IN  /\ "call_error" \in Disturbances
        /\ me.pc = "tell"
        /\ ConfirmTool(s, me.tool, me.decision = "approved") \/ UNCHANGED session
        /\ decider' = [decider EXCEPT ![d].pc = "reopen"]
        /\ UNCHANGED <<toolTables, run, consent>> /\ DecideUnchanged

ReopenDecision(d) ==
    LET me == decider[d]
    IN  /\ me.pc = "reopen"
        /\ Reopen(me.run, me.tool, me.index, me.decision)
        /\ decider' = [decider EXCEPT ![d] = [NoDecision EXCEPT !.pc = "done"]]
        /\ UNCHANGED <<session, overdue, grants, actionToolsEnabled, run, consent>> /\ DecideUnchanged

\* Mutant: what was denied is remembered as well.
Remembered_Denied(me) == me.remember /\ Class[me.tool] = "WRITE"
\* Only an approved WRITE becomes a grant.
Remembered(me) == me.remember /\ me.decision = "approved" /\ Class[me.tool] = "WRITE"

FinishDecision(d) ==
    LET me == decider[d]
    IN  /\ me.pc = "finish"
        /\ run' = [run EXCEPT ![me.run].status =
               IF PendingTools(me.run) # {} THEN "waiting_for_approval" ELSE "running"]
        /\ grants' = IF Remembered(me) THEN grants \cup {Name[me.tool]} ELSE grants
        /\ decider' = [decider EXCEPT ![d] = [NoDecision EXCEPT !.pc = "done"]]
        /\ UNCHANGED <<session, call, approvals, overdue, actionToolsEnabled, consent>> /\ DecideUnchanged

CrashDecider(d) ==
    /\ "crash" \in Disturbances
    /\ decider[d].pc \in {"tell", "reopen", "finish"}
    /\ decider' = [decider EXCEPT ![d] = [NoDecision EXCEPT !.pc = "done"]]
    /\ UNCHANGED <<session, toolTables, run, consent>> /\ DecideUnchanged

DecideStep(d) ==
    \/ \E r \in Runs, t \in Tools : \E i \in DOMAIN approvals[r][t] :
          \E decision \in {"approved", "denied"}, remember \in BOOLEAN :
              Decide(d, r, t, i, decision, remember)
    \/ TellDecision(d) \/ FailDecision(d) \/ ReopenDecision(d) \/ FinishDecision(d)

----------------------------------------------------------------------------
(* Time, maintenance and the provider *)

Elsewhere == UNCHANGED <<run, linked, lease, ledger, processes, consent, lost>>

\* The approval timeout passes for a pending approval.
ApprovalTimesOut(r, t, i) ==
    /\ "approval_timeout" \in Disturbances
    /\ approvals[r][t][i] = "pending"
    /\ <<r, t, i>> \notin overdue
    /\ overdue' = overdue \cup {<<r, t, i>>}
    /\ UNCHANGED <<session, call, approvals, grants, actionToolsEnabled, metering>> /\ Elsewhere

\* Work registers no heartbeat, so the reservation of a run that takes longer
\* than the TTL becomes stale and the maintenance loop expires it.
ReservationAges ==
    /\ "reservation_expiry" \in Disturbances
    /\ \/ \E r \in Runs : Metering!BecomeStale(r)
       \/ \E R \in SUBSET Runs : Metering!ExpireStaleReservations(R)
    /\ UNCHANGED <<session, toolTables>> /\ Elsewhere

AgentWorks(s) ==
    /\ \A r \in Runs : start[r].pc = "confirm" => MayOvertakeStart(r)
    /\ AgentStep(s)
    /\ UNCHANGED <<toolTables, metering>> /\ Elsewhere

Next ==
    \/ \E r \in Runs : CreateRun(r) \/ StartStep(r) \/ FailStart(r) \/ CrashStart(r)
    \/ \E w \in Workers : SyncStep(w) \/ CancelStep(w) \/ CrashWorker(w)
    \/ \E r \in Runs : ExpireLease(r)
    \/ \E d \in Deciders : DecideStep(d) \/ CrashDecider(d)
    \/ \E r \in Runs, t \in Tools : \E i \in DOMAIN approvals[r][t] : ApprovalTimesOut(r, t, i)
    \/ ReservationAges
    \/ \E s \in Sessions : AgentWorks(s)

Spec == Init /\ [][Next]_vars

----------------------------------------------------------------------------
(* Fairness: the server finishes the requests it accepted, its loop visits  *)
(* every active run again and again, a lease runs out, the agent obeys an   *)
(* interrupt and its budget and asks for the tools it waits for, and errors and crashes do not for ever cut     *)
(* short a step that is retried for ever.                                   *)

AgentEnds(s) == AgentWorks(s) /\ \E outcome \in TerminalEvents : EndTurn(s, outcome)
AgentAsks(s) == AgentWorks(s) /\ RequireAction(s)
MustStop(s) == session[s].interrupted \/ session[s].usage >= session[s].cap

Fairness ==
    /\ \A r \in Runs :
          /\ WF_vars(StartStep(r))
          /\ WF_vars(ExpireLease(r))
          /\ SF_vars(\E w \in Workers : StartSync(w, r))
    /\ \A w \in Workers :
          /\ SF_vars(ReadEvents(w))
          /\ SF_vars(ReadSession(w))
          /\ SF_vars(Identify(w) \/ ApplyProgress(w))
          /\ WF_vars(worker[w].pc = "apply" /\ FailSync(w))
          /\ SF_vars(SendInterruptRequest(w))
          /\ SF_vars(\E x \in worker[w].todo.expired : TellExpired(w, x))
          /\ WF_vars(SendFinalize(w) \/ \E t \in Tools : TellAutomatic(w, t))
          /\ WF_vars(StopProvider(w) \/ FailStopProvider(w) \/ SkipSync(w) \/ ForceCancel(w))
    /\ \A d \in Deciders :
          WF_vars(TellDecision(d) \/ FailDecision(d) \/ ReopenDecision(d) \/ FinishDecision(d))
    /\ \A s \in Sessions :
          /\ WF_vars(MustStop(s) /\ AgentEnds(s))
          /\ WF_vars(AgentAsks(s))

FairSpec == Spec /\ Fairness

\* Besides, an agent left alone ends every turn.
FairAgentSpec == FairSpec /\ \A s \in Sessions : WF_vars(AgentEnds(s))

----------------------------------------------------------------------------
TypeOK ==
    /\ AgentTypeOK
    /\ ToolsTypeOK
    /\ Metering!TypeOK
    /\ \A r \in Runs :
          /\ run[r].status \in Active \cup Terminal \cup {None}
          /\ run[r].session \in Sessions \cup {None}
          /\ lease[r] \in Workers \cup {None}
          /\ ledger[r] \in [billed : Nat, calculated : Nat]
          /\ lost[r] \in [interrupt : BOOLEAN, denials : SUBSET (Tools \X Nat)]
    /\ linked \in Sessions \cup {None}
    /\ consent \subseteq Tools

\* However a run ended, by its agent, its budget, a failed start or the user,
\* and whatever requests were in flight, it holds no credits any more: ending a
\* run and settling its reservation are one transaction.
EndedRunsHoldNothing ==
    \A r \in Runs : run[r].status \in Terminal => state[r] # "reserved"

\* The customer is charged once for a run, in the step that ends it: no poll,
\* retry or late reconciliation of an active or ended run adds to it.
ChargedWhenEnding ==
    [][\A r \in Runs :
          settled'[r] # settled[r] =>
              /\ settled[r] = 0
              /\ run[r].status \in Active
              /\ run'[r].status \in Terminal]_vars

\* The credit transaction of a run exists exactly when its reservation is
\* settled, and charges the same: the two writes of _settle_work_billing never
\* disagree, whichever later reconciliation repeats them.  What was calculated is
\* charged in full, or the whole budget when no allowance is left for the rest.
LedgerMatchesCharge ==
    \A r \in Runs :
        /\ ledger[r] # NoEntry <=> state[r] = "settled"
        /\ ledger[r].billed = settled[r]
        /\ \/ ledger[r].billed = ledger[r].calculated
           \/ ledger[r].billed = Budget /\ ledger[r].calculated > Budget

\* A tool that is not read-only ran only if the user approved this very call at
\* some time or, for a WRITE, another call of the same tool: neither a denial, nor
\* an expiry, nor a failed call to the provider ever opens the way to a tool.
ConsentBeforeAction ==
    \A s \in Sessions : \A t \in session[s].ran :
        \/ Class[t] = "READ"
        \/ t \in consent
        \/ Class[t] = "WRITE" /\ \E u \in consent : Name[u] = Name[t]

\* At most one request is about to answer a given approval: the user's decision
\* and the timeout of the reconciler exclude each other, and so do two decisions.
Answering(r, t, i) ==
    {d \in Deciders : /\ decider[d].pc \in {"tell", "reopen"}
                      /\ <<decider[d].run, decider[d].tool, decider[d].index>> = <<r, t, i>>}
        \cup {w \in Workers : worker[w].run = r /\ <<t, i>> \in worker[w].todo.expired}
OneAnswerPerApproval ==
    \A r \in Runs, t \in Tools : \A i \in DOMAIN approvals[r][t] :
        Cardinality(Answering(r, t, i)) <= 1

\* An approval nobody decided in time does not block the agent for ever: the
\* provider is told, however often its calls fail, unless the run has ended or the
\* reconciliation that let the approval expire crashed before it told: nobody
\* repeats that denial (work_repository.py, expire_pending_approvals_for_run).
TimedOut(r, t) ==
    /\ \E i \in DOMAIN approvals[r][t] : Overdue(r, t, i)
    /\ run[r].status \in Active
Waiting(t) == \E s \in Sessions : t \in session[s].blocked
DenialLost(r, t) == \E x \in lost[r].denials : x[1] = t
TimedOutCallsAreAnswered ==
    \A r \in Runs, t \in Tools :
        TimedOut(r, t) ~> (~Waiting(t) \/ run[r].status \in Terminal \/ DenialLost(r, t))

\* A run that was started comes to an end, through provider errors, crashed
\* reconciliations and expired leases.
StartedRunsEnd == \A r \in Runs : run[r].status = "running" ~> run[r].status \in Terminal

\* An agent that put out more than the ceiling since its run began is stopped and
\* the run ended, also when it would go on for ever, calls to it fail and
\* reconciliations crash: unless one crashes between recording the interrupt and
\* sending it, which is then never sent (output_policy.py: requested is taken for
\* sent).  A run that ended once, and runs again because a late approval revived
\* it, is not stopped either.
OverLimit(r) ==
    /\ run[r].status = "running"
    /\ state[r] = "reserved"
    /\ \E s \in Sessions : run[r].session = s /\ session[s].output - run[r].base.output >= OutputLimit
CeilingEndsRun ==
    \A r \in Runs : OverLimit(r) ~> (run[r].status \in Terminal \/ lost[r].interrupt)

----------------------------------------------------------------------------
(* What the documentation says and the code keeps only in part.             *)

\* The runs whose start got as far as recording its session and baseline.
Recorded == {r \in Runs : run[r].session # None}

\* docs/work/architecture.md: billing starts at the prior usage, "so earlier
\* tokens/runtime are not charged twice".  Kept for the recorded runs, once the
\* start request is over, and as long as one run at a time may be active.
UsageBilledOnce ==
    MapThenSumSet(LAMBDA r : ledger[r].calculated, Recorded)
        <= MapThenSumSet(LAMBDA s : session[s].usage, Sessions)

\* docs/work/architecture.md: "prior terminal events cannot complete the follow-up":
\* a completed run of a session has an end of turn after the events that were
\* there when it began.  Kept once the baseline is recorded before a
\* reconciliation gets in, and as long as no other active run has put another
\* provider session in place of its own.
CompletedAfterInstruction ==
    \A r \in Recorded :
        run[r].status = "completed" =>
            LET events == session[run[r].base.session].events
            IN  \E i \in DOMAIN events :
                    i > run[r].base.events /\ events[i].type = "completed"

\* docs/runbooks/cortex-work.md: a cancelled run is in a "durable cancelled state".
\* Not kept when a reconciliation read the run before it was cancelled, or when one
\* of its approvals is decided afterwards: no run checks it.
CancelledForGood ==
    [][\A r \in Runs : run[r].status = "cancelled" => run'[r].status = "cancelled"]_vars
============================================================================
