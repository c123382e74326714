# CortexAI in TLA+

A formal model of CortexAI: the FastAPI gateway with its credit billing, its
durable agent tasks ("Cortex Work"), its orchestrator, its file store and the
two stateful parts of its web client.  Modules model the parts whose correctness
depends on interleavings, failures and retries; TLC checks them on small
instances, and TLAPS proves most of their safety properties for every size.
Paths below are relative to the repository's sources.

## The system

| Part | State it keeps | Operations | What is hard |
|---|---|---|---|
| Usage metering (`server/billing/metering_service.py`, `db/billing_repository.py`) | reservations, usage counters per period | reserve, settle, supplement, release, heartbeat, expire | requests interleave, the plan changes in the middle of one, expiry races settlement, retries |
| Request billing (`server/billing/enforcement_service.py`, `reservation_cleanup.py`, `server/persistence.py`) | credit transactions, each process's registry of live requests | authorise, finalise, release, heartbeat, clean up | crashes, lost heartbeats, failing databases |
| Chat, compare, optimize and analysis routes (`server/routes/*.py`) | local state of a handler and its threads | answer, stream, cancel, time out | generators closed at a yield, threads that answer late |
| Orchestrator (`orchestrator/core.py`), circuit breaker (`server/circuit_breaker.py`) | local state of a request, one circuit per model | ask, retry, climb tiers, compare | circuits shared by requests, answers that arrive while a circuit is open |
| Work runs (`server/work/service.py`, `db/work_repository.py`, `reconciler.py`) | sessions, runs, sync leases | start, follow-up, reconcile, cancel | no transaction covers a provider call; several processes reconcile; stale reads and leases |
| Work approvals (`server/work/service.py`, `server/routes/work.py`) | tool calls, approvals, remembered grants | present, confirm, deny, decide, expire, reopen | decision against timeout, failed and uncertain provider calls |
| Stripe webhooks (`server/billing/webhook_service.py`) | events, the subscription row | receive, retrieve, apply, fail | duplicates, reordering, state read outside the transaction |
| Subscriptions (`subscription_service.py`, `grant_service.py`, `stripe_gateway.py`) | subscription rows, usage periods, grants | apply an event, resolve, grant, check out | late events, periods that are closed, reopened and redefined |
| Files (`server/files_service.py`, `attachment_cleanup.py`) | files, stored objects, deletion jobs | intent, complete, upload, read, delete, sweep | rows read in one transaction and written in a later one |
| Upload queue (`frontend-react/src/uploads`) | tasks, authorisations, transfers | begin, retry, remove, poll | answers that arrive after the task they are for has changed |
| Chat client (`frontend-react/src/hooks`, `pages/ChatPage.tsx`) | transcript, session, controller | submit, regenerate, cancel, switch chats | callbacks that close over an earlier state |
| Work artifacts, event stream, tool connections, provider clients, web research, prompt optimizer, identity, reporting, configuration | little or none | conversion and external calls | not modelled, see the end |

How they interact: a route reserves credits against the subscription in force;
the orchestrator, or the Work service, calls providers; the request then settles
and its ledger records the charge.  Stripe's events and operators' grants change
the subscription underneath.  Background loops expire reservations nobody keeps
alive, reconcile active Work runs beside the browsers that poll them, and empty
the queue of file deletions.  Shared state is in PostgreSQL, except the registry
of live requests and the circuits, which a process has for itself.

`PROJECT.json` lists every component with its status, the lines each definition
models, and the hazards, each with its line and the properties that cover it.

## The modules

    AllowanceLedger                 what metering promises (abstract)
      ^ implemented by
    UsageMetering
      ^ instance of
      +-- RequestBilling            reservation to settlement of a request
      |     ^ ChatRequests, CompareRequests, OptimizeRequests
      |     ^ Requests              the routes side by side
      +-- WorkRuns                  start, reconcile, cancel, decide, charge
            extends WorkTools       tool calls, approvals, grants
            extends ManagedAgent    the provider's sessions (external)
    StripeWebhooks                  delivery of the events of one subscription
    Subscriptions                   what applied events and grants give an account
    Files  <- UploadQueue           the server's files; the browser's uploads of them
    CircuitBreaker  <- Orchestrator
    ChatClient

A module `XProofs` holds the theorems of `X` (`FilesProofs` those of `UploadQueue`
too), a module `MCX` the constants of its
TLC instance where a configuration cannot express them.  A definition whose name
ends in `_Something` and whose comment begins with "Mutant" is a plausible bug: no
specification uses it, and `PROJECT.json` says which property notices it.

In every module an action is what the code does between two points at which
another process can see or change its state: a database transaction, an
external call, a stretch of JavaScript between two awaits.  What a handler keeps
in local variables meanwhile is part of the state.

### UsageMetering and AllowanceLedger

One billing account.  `state`, `periodOf`, `requested`, `settled` are columns of
`usage_reservations`; `used` and `reserved` the quantities of `usage_counters`,
one counter per usage period; `limit` and `period` what the effective
subscription says now; `planLimit` the allowance a request was authorised under,
which it carries to its settlement; `stale` the reservations not touched for the
TTL.  `granted` is history, per period: the largest allowance in force while the
period was the account's, or while a reservation of it was open, since a renewal
does not end a request's claim on the period it began in.

Every service function runs in one transaction that locks the reservation and
the counter before it reads them, and is one action with the whole effect: a
settlement above its hold supplements and settles together (`SettleUsage`), and
the expiry job expires any set of stale rows at once (`ExpireStaleReservations`;
SKIP LOCKED is the choice of the set).  A replayed request id and an operation on
a closed reservation change nothing and are no steps.  Only AI credits are
modelled: the other dimensions have the same counters and no supplement.

`AllowanceLedger` has no counters at all: a claim is held, charged or returned
once, and the claims on a period stay within the largest allowance granted for it.
`UsageMetering!Ledger` is the refinement mapping: an open reservation claims its
hold, a settled one its charge.

### Requests

`RequestBilling` wraps metering for one request: `Reserve` (the authorisation,
with its entry in the registry), `Finalize` (settlement and itemised credit
transactions in one transaction), `ReleaseSafely`, `Recover` (what happens when
the finalisation itself raises), `Heartbeat`, `AgeReservation`, `Cleanup`, `Crash`.
A ledger row has one item per answer and one for the search.  A charge cut to the
allowance is handed out again as `_reconcile_transaction_items` does it, the search
first, then answer by answer, each taking its cost or what is left (`Items`, `Left`).
The three route modules follow the handlers of `server/routes/chat.py`,
`compare.py`, `optimize.py` and `cortex_analysis.py`: `req[r].pc` is where the handler is,
`out` the targets that answered, `shown` those whose output the client was sent,
`thread` whether a provider call is still running in a thread.  `Requests` runs
all of them together with plan changes.  The constant `Disturbances` names what
else may happen: cancellations, clients that disappear at a yield, provider and
database errors, crashes, a heartbeat that fails.

### ManagedAgent, WorkTools, WorkRuns

`ManagedAgent` is the provider as `server/work/provider.py` and
`anthropic_provider.py` use it, marked external: a session works while running,
consumes up to its cap, blocks before each tool call, ends its turn with an
event, and keeps an append-only event list.  `WorkTools` is what one
reconciliation makes of an observed event list.  The code loops over the
events; the module says the result per tool call, which is the same because the
provider starts a tool before it asks and completes it last.

`WorkRuns` is the service.  No transaction is open across a provider call:

| Code | Process | Actions |
|---|---|---|
| `start_work_run` | `start[r]` | `CreateRun`, `ReadBaseline`, `ReadBaselineEvents`, `ExtendProviderBudget` or `OpenSession`, `RecordSession`, `SendFirstInstruction`, `ConfirmStart`; `FailStart`, `CrashStart` |
| `reconcile_work_run` | `worker[w]` | `StartSync` (lease), `ReadEvents`, `ReadSession`, `Identify`, `ApplyProgress` (the main transaction), then the calls `SendFinalize`, `SendInterruptRequest`, `TellAutomatic`, `TellExpired` and their failures; `FailSync`, `CrashWorker` |
| `cancel_work_run` | `worker[w]` with `cancel` | `ReadForCancel`, `StopProvider`, the reconciliation above or `SkipSync`, `ForceCancel` |
| `_decide_approval` | `decider[d]` | `Decide` (claim), `TellDecision`, `FailDecision`, `ReopenDecision`, `FinishDecision`; `CrashDecider` |
| `claim_sync_lease` | `lease[r]` | part of `StartSync`; `ExpireLease` is the 30 seconds |
| the metering service | `Metering` | operations of `UsageMetering` inside the transactions that call them |

A provider call may fail after it arrived: the failure actions choose.  A ledger
entry has the credits billed and those calculated from the usage: the plan caps
what is billed, the budget too where the plan has no allowance.  `lost` is history: an
interrupt or denials that a worker recorded and crashed before sending; nobody sends
them later.
Abstractions: one Work session; every run has the same budget; a tool call
belongs to a connection; the action-tools switch is fixed per deployment;
`CreateRun` is atomic because `resolve_effective_subscription` locks the account
row until the commit (`server/billing/subscription_service.py:321`).  Input files,
artifact import, the event log, the planning status and the session's status
column are left out.

### StripeWebhooks and Subscriptions

`StripeWebhooks`: `processing_status` is the column of `billing_webhook_events`,
`snapshot` the `subscriptions` row, `handler` the requests in
`process_stripe_webhook`.  A state of the subscription is known by its version,
the number of changes at Stripe.  `Receive` inserts the row; `Ignore`, `Proceed`
and `AnswerDuplicate` are the check under its lock; `RetrieveSubscription` is the
call outside any transaction; `ApplyEvent` the last transaction, with its second
check of the status, its stale-snapshot check and the conditional upsert;
`Raise`, `MarkFailed` and `Crash` are the error paths.  A lost 2xx answer is a
redelivery of an event that is over.

`Subscriptions` takes an event's application as atomic, which the first module
justifies, and asks what it means: `stripe` is Stripe's side (renewals, failures and
retries of payments, cancellations, plan changes), `pending` the events not yet
applied, which may be applied in any order, `subscriptions` the rows with the
payment grace, `grants` and `usage_periods` the tables, `served` the history of what
was given out.  One thing the atomic step hides: `_apply_subscription_state` reads
the row without FOR UPDATE (`server/billing/webhook_service.py:312`), so of two
deliveries at once the later write may restore a grace deadline that the earlier one
changed.  That race is not modelled.  `Resolve` is `resolve_effective_subscription`:
a live subscription, else a grant, else the Free plan, and the usage period that
goes with it.

### Files and UploadQueue

`row`, `object`, `form` and `job` are the file's row, its object in the bucket,
its presigned form, and the active row of `file_deletion_queue`; `call[c]` and
`worker[w]` what a route handler or cleanup worker has read and not yet written.
Every route is split at its commits and storage calls: `CompleteRead`,
`CompleteCheck`, `CompleteReread`, `CompleteWrite`, and so on.  `torn` records the
files whose object was deleted in a transaction that did not commit.  The cleanup
worker handles a batch of jobs in one transaction; the module takes its files one by
one and lets each roll back after the deletion, which is what a later file's failure
does to it.  A refused deletion (`ObjectStorageOperationError`) uses up one of
`MaxAttempts` and the last one gives up until the next sweep; an exception of any
other kind (`server/attachment_cleanup.py:272-287`) is retried without that cap and is
not modelled.

`UploadQueue` extends `Files` with the browser: a caller is one chain of awaits,
either a transfer slot or a hand of the user.  `Drain` is `drainTransfers`; the
server's actions are those of `Files`, whose answers the queue now hears
(`Heard`), or misses when the network fails.  The store and the server see `Retry` as
the code has it: while the deletion of the old file is awaited the task stays
failed, and a second click starts a second upload of it.  `doubled` is the history
of such tasks.  A prompt is sent with the ready files (`Submit`), and the first chunk of
its answer clears the whole composer (`FirstChunk`; `NoChunk` is an answer without one);
`left` is the history of files the user parted with: sent, cleared, failed to delete,
or overwritten in a doubled task (`Overwritten`).

### CircuitBreaker, Orchestrator, ChatClient

`CircuitBreaker` is one circuit per model: the failures in the window, and the
ticks it stays open.  `Orchestrator` has the loop of a smart request (`Plan`,
`Climb`, `Choose`, `Gate`, `SmartAnswer`), the direct call, and compare, whose
records of all targets are made in one go at its end.  Text, features and
validators are abstracted to the outcomes `Decision` tells apart.

`ChatClient` is `useChat.ts`, `useChatStore` and `ChatPage.tsx` with the server
saving the exchanges: `shown` is the transcript, each turn with the request whose
answer it shows; `active`, `streaming`, `session` and `controller` the variables of
the store; `req[r]` what the closure of a request remembers.  `fresh` and `strayed`
are history.

## The runs

| Run | Instance | Distinct states | Shows |
|---|---|---|---|
| `metering` | 3 requests, 2 periods, allowances 1 and 3, quantities up to 3 | 51,394 | counters are the sums over the rows; claims stay within what was granted for their period, and grow only within the allowance they were checked against; the ledger is implemented |
| `requests` | 1 request of any of six kinds, 3 targets, 2 periods, every disturbance | 97,470 | the ledger is the charge, item by item; only what was shown is charged; a handler that ends lets its reservation go as it deserves; every hold ends, unless the request's generator was closed at a yield or its analysis was cancelled; every step is one of metering's |
| `work_lifecycle` | 1 run, 2 workers, every disturbance but the approval timeout | 671,030 | one charge, in the step that ends the run; the ledger has what was billed; no ended run holds credits |
| `work_turns` | 2 runs, 1 worker, 2 provider sessions, failing calls, crashes | 54,353 | a follow-up pays its own usage only, is not completed by old events, and every started run ends |
| `work_approvals` | 2 calls of one WRITE tool, 1 worker, 1 decider, timeouts, failing calls, crashes | 408,556 | nothing runs without a consent covering it; one request answers an approval |
| `work_limits` | 1 SENSITIVE call nobody decides, an agent that need not stop, failing calls, crashes | 15,042 | the timed-out call is answered, and the output ceiling ends the run, unless a worker crashes between recording the denial or the interrupt and sending it |
| `stripe_delivery` | 2 events, 2 handlers, a clock whose seconds have 3 readings | 19,359 | one effect per event, for good; the row is Stripe's state in the end, but for changes of one second |
| `subscriptions` | 2 subscriptions, 2 plans, grants, 3 changes, 3 events on their way | 1,322,035 | the account is served what it pays for; one allowance per period |
| `files` | 1 file, 1 caller, 2 workers, storage errors, crashes, rollbacks | 17,443 | a usable file is stored; a deletion is for good; retention ends |
| `uploads` | 2 files, 2 tasks, 1 slot, 2 hands, failing network | 485,709 | what is shown as ready is; no upload is forgotten; every upload ends |
| `orchestration` | 3 models on 2 tiers, 2 threads, 3 attempts | 554,312 | no model is called twice; refused calls open no circuit; requests end and circuits recover |
| `chat` | 2 questions, save errors, reloads | 10,742 | threads keep together; a stopped turn stays stopped; no turn is left working; the composer comes back |

Why these bounds show something.  Two allowances make up- and downgrades, three
requests a settlement beside two other claims, quantity 3 a charge above the smaller
allowance, two periods a renewal in the middle of a request.  Three targets are a
compare with one answer shown, one late and one failed; requests share nothing but
metering, where `metering` has three of them.  Two workers are the reconciler's loop
against a browser's poll or a cancellation; in `work_lifecycle` the usage can exceed
the budget between two samples.  Two runs are a run and its follow-up, two calls of
one tool what a remembered grant is about.  Two changes, or a change and an event
that reads the state, are what a wrong order takes, and three readings in a second
put them, and the reading of the state between them, in one second or in two.  Two
cleanup workers race for one job; two tasks compete for one slot, and two hands
retry one task at once.  With two files the second of two doubled intents is
refused, for want of a file; that both succeed needs a third, which only the
theorems cover.  Three models on two tiers have a tier to climb to and a choice in
it.  Larger instances were checked by hand: two callers in `files` (373,852 states),
three questions in `chat` (1,773,111), six changes in simulations of
`subscriptions`.  The theorems have none of these bounds.  `MaxQuestions` weakens
`ComposerReturns` a little: after the last question no further one can take the
composer back.

`CHECK_DEADLOCK FALSE` is set where the system really stops.  Requests are over
and not repeated (`requests`, `chat`); all runs have ended (`work_*`); the bounded
changes are made and applied (`subscriptions`); files are gone and tasks settled
(`files`, `uploads`).

## Fairness

* Requests: a handler takes its steps; a reservation nobody registers grows stale
  (weak); the cleanup job expires each stale one in the end, although some of its
  passes fail (strong).
* Work: the server finishes requests it accepted, leases run out, and an agent
  obeys an interrupt and its cap, asking for approvals before it blocks (weak).  The loop of
  `reconciler.py` visits every active run again and again, and errors and crashes
  do not cut all of its passes short (strong).  `FairAgentSpec`, of
  `work_turns`, also lets agents end their turns; `work_limits` does not.
* Stripe: an event that is not over is delivered again until it gets a 2xx
  answer, and not every attempt fails (strong, per event).
* Files: handlers finish, forms and retention run out (weak); the cleanup loop
  comes back to every file and not every attempt fails (strong).  This is a deployment
  that has the loop on: `server/app.py:228` starts it only if it is enabled, which it is
  not by default, and without it nothing is ever erased.  Uploads: calls
  are served and answers taken, bytes sent arrive (weak).
* Orchestrator: threads serve their requests and time passes (weak).  Chat: the
  browser and the server finish a request (weak).
* Metering and subscriptions have no liveness property: nothing obliges a client
  to settle, or a customer to pay.

## What is proved

Every theorem holds for all values of the constants that satisfy the module's named
assumptions, which are types (sets are finite where the code counts them, bounds are
numbers), `BudgetAssumption` (a budget is positive and within what the model lets a
session consume), `CostAssumption` (an answer costs something:
`credit_calculator.py` rounds each component up), `BoundAssumption` of requests (no
request costs more than `MaxQuantity`), and `NameAssumption` of subscriptions and
`QueueAssumption` of uploads (an id is no reserved word).  TLC evaluates each of
them on a passing run.  Some theorems have further hypotheses: `NothingIsForgotten`
that the queue hears the server's answers (`Heard`, which is TRUE wherever the two
are composed), and `CompletionsSawAnEnd` that no reconciliation overtakes the last
steps of a start (no "slow_start"), without which it fails (see the known
disagreements).

Every invariant below was first made inductive and checked by TLC, then proved
with one step per action.

**UsageMetering.**  `Typing` is, for the counters, the absence of underflow.
`NoOveruse` rests on `GrantedInv`: not only are the counters of a period at most what
was granted for it; the allowance in force is at most what was granted for the
current period and, like the one it remembers, for the period of every open
reservation, because a settlement checks against the allowance its request remembers
or the one in force.  `CountersMatch`
(counters are sums over rows) needs that a row's period has it among its
addends (`RowsMatch`); `HoldsAreCovered` follows: an open row's hold is always in its
counter, so the guard `Claimable` never refuses a settlement.  The sums are the
community modules' folds: their recursion is unfolded once in lemmas, and what
fails for some finite set fails for a least one.  `MeteringIsALedger` is the
refinement of `AllowanceLedger`, step by step: a reservation is `Hold`, a supplement
`Extend`, and an expiry of several rows `Return` of all of them; the abstract
bound is `NoOveruse` seen through `CountersMatch`.  `GrowthIsAllowed`,
`ChargesStayWithinHolds`, `ClosedReservationsAreFinal` are by action.

**Requests.**  `RequestsAreMetered`: every step is a step of `UsageMetering` or
leaves its variables, so that its theorems hold of the server; `WorkIsMetered` says
the same of Work.  The four invariants share `RequestInv`, per request: its place
in the registry (`Registered`), nothing billed before the end (`Unbilled`), no
answer before the asking (`Waiting`), a stream's output covers what it may charge
(`Shown`), an end is deserved (`Deserving`), and items add up, none above what its
answer cost (`Itemised`).  The last rests on a lemma about the handing out: what the answers
up to one take together is their cost or all there is, whichever is less
(`HandedOut`).

**WorkRuns.**  `MoneyInv` is what the runs check and one fact more: a run that was
not created has no reservation.  From it `EndedHoldNothing`, `LedgerCovers` (the ledger
has what the reservation was settled with, which is never more than was calculated), and
`ChargedOnce` step by step.  `ConsentInv` follows a consent through every hand it
passes: a call that ran (`RanFine`), that a worker is about to allow (`AllowFine`),
that is approved (`ApprovedFine`), and a remembered grant (`GrantsFine`) each go back
to a consent of the user for that call or, for a WRITE, for one of the same name.
`AnswerInv`: whoever is about to answer an approval holds it, a decider as approved
or denied and a worker as expired, and it is only marked while it is pending.
`TurnInv`: the provider's event lists and usage only grow (`Appends`, for every call
and step); a run whose start is over keeps its baseline; a reconciliation works on
such a run with that baseline, what it saw of ends of turn is still there at the
same place, and it sampled no more usage than there is (`FromRow`).  So a run that
is completed has an end of turn its baseline does not cover (`CompletionsSawAnEnd`).

**StripeWebhooks.**  `SyncInv` holds for seconds of any length.  Changes, their
versions and their seconds are in one order (`EventsInOrder`).  A state is *as of* a
second if it misses no change from before that second, and one of that second only if
its event came after another that may date a state to it (`AsOf`).  The row is as of
the second of its stamp (`SnapshotFollows`), and so is what a request is about to
apply, for the stamp it will get (`Fresh`): a state read later is newer than its
stamp, never older.  The stamp is not before any change whose event is over; when all
are over, the row has every change but what `SyncedWhenOver` excepts, an order lost
within one second (`EveryStateArrives`).
`OneDeliveryTakesEffect` and `ProcessedStays` are by action.

**Subscriptions.**  `CountedInv`: a counter is only ever added to, so a period's
row stays at least as high as what was served for each term or month it stands
for (`ServedIsCounted`); `OneAllowance` follows, since the step that serves reads
that row.  `AccessInv`: at most one row is live (`OneLive`), and each row is either
up to date with Stripe or an event is on its way that carries the state of the last
change and that no event applied earlier or later makes stale (`Arriving`); grace
deadlines are times of failures plus the grace (`FailuresTimed`).

**Files.**  `FilesInv`: a file without a row is known to nobody but the handler
that makes it (`Unknown`), which is alone with it (`PutAlone`), and a file that a
handler *remembers* as ready, not only one whose row says so, has its object or is
in the hands of the worker that marks the row next (`Kept`).  On it rests
`DeletionIsFinal`, the half of `DeletedForGood` that needs no fairness: from the
deletion of an object on (`ErasedIsEmpty`) only a late post may be in its place, and
no handler, however long ago it read the row, takes its deletion date back
(`GoneStays`).

**UploadQueue.**  Retries and removals leave chains of awaits behind that work for
a task no longer listed, and a second retry leaves two for one that is.  So
`BrowserInv` has two halves.  Per task that was not doubled and not removed (`Alone`): it is
queued once, with no chain, or one chain works on it, which agrees with its entry
(`Fits`).  For every task, doubled or not: a file in its entry, its authorization or
one of its chains is in no other task's (`Owned`).  Each chain and its call agree on
where they are and on the file (`Talks`).  `Turns` is the lemma that every step of one
chain goes through, `Proceeds` its case of a chain that goes on, `RemovalKeeps` that of a
removal, and `Drains` that of freed slots taking tasks from the queue, whatever their
number.  `ReadyInv` (a task shown ready, or an answer "ready" on its way, is of a
file that is usable, deleted since or expired) gives `ReadyStaysReady`; `KeptInv` (each
file with a row is held by somebody or left, a file being deleted has its job)
gives `NothingIsForgotten`.  `ReadyIsReady` excepts doubled tasks, and
`NothingForgotten` the file that a doubled task lost to its other half.

**Orchestrator.**  `OrchestratorInv`: what a smart request may still call was not
called before: the candidates left are of its tier, the models called not above
it, and those it may climb to all above it (`Routed`); attempts are counted
(`Counted`).  `OpenedByAdmitted` is by action.

**ChatClient.**  `ChatInv`: one request is under way at a time, the controller's,
and it works on the active turn once it shows that it does (`Alone`, `Placed`); from
this `WorkingIsServed` and `StoppedStays`.  `ThreadsKeepTogether` also needs that
every answer shown as complete is saved in the session the next question continues,
or never will be (`AnswersAreSaved`), and that a request remembers the session of
the answers it was sent with (`Asks`).

### What stays with TLC

* Liveness, which needs fairness and ENABLED: `HoldsEnd`, `StartedRunsEnd`,
  `TimedOutCallsAreAnswered`, `CeilingEndsRun`, `EventuallySynced`, `DeletedForGood` and
  `RetentionEnds`, `UploadsEnd`, `RequestsEnd`, `CircuitRecovers`, `ComposerReturns`.
* `UsageBilledOnce` and `CompletedAfterInstruction` as wholes: they are checked without
  "slow_start", and hold only there (see below).  Of the second, `CompletionsSawAnEnd`
  proves the half about what a run saw.
* The doubled intents of uploads, where more than one deletion is lost: `UploadsEnd`
  excepts doubled tasks.

## Known disagreements

Found while modelling; each can be seen by the change named in parentheses.

* **A follow-up can be charged for the earlier run's usage.**  Its row can be
  reconciled before its baseline is recorded (`UsageBilledOnce` with
  `Disturbances = {"slow_start"}`, two runs, budget 1).  The same reconciliation can
  complete it by an old event (`docs/work/architecture.md:104-105`).  A start that
  crashes before `RecordSession` and is then identified by a reconciliation has the
  same effect; the property excepts it (`Recorded`).
* **Two active runs of one Work session are each charged for the usage of both**
  (`UsageBilledOnce` with `MaxActiveRuns = 2` and one session).  `start_work_run` counts
  active runs per user (`server/work/service.py:183`) and does not refuse a second one
  in the same session; both share its provider session and its usage counter.
* **A run can be completed by another run's turn** (`CompletedAfterInstruction` with two
  sessions, and two active runs, or one and "cancel"): a reconciliation prefers the
  Work session's provider session to the run's own (`server/work/service.py:890`), and
  a later run, or the start of a run cancelled meanwhile, may have put another there.
* **A cancelled run can come back** (`CancelledForGood`, two workers, "cancel"): a
  reconciliation that read the run before its cancellation writes the status it
  computed.  So does an approval decided late (`server/routes/work.py:387`); the
  run's later reconciliations then fail, since its reservation is closed.
* **A run whose reservation expires never ends** (`StartedRunsEnd` with
  "reservation_expiry"): Work registers no heartbeat, and each settlement raises.
* **Two changes in one second**: the older state can win for good, since the stamp
  of events has whole seconds (`SyncedWhenOver` without `SameSecond`).
* **A hold can be kept for ever**: a generator closed at one of its later yields
  (`server/routes/chat.py:1232`, `:1261`), or a cancelled analysis, leaves its reservation
  registered, and the heartbeat keeps it from expiring while the process lives
  (`HoldsEnd` without `"closed"`).
* **An interrupt or a denial can be lost** (`CeilingEndsRun`, `TimedOutCallsAreAnswered`
  without `lost`): a worker that crashes between recording it and sending it
  leaves it recorded as sent (`server/work/service.py:982-988`, `:1309-1311`).
* **A second Retry while the first one's deletion is awaited** runs two uploads of one task
  (`frontend-react/src/uploads/attachmentUploadQueue.ts:72-101`; the properties of `uploads`
  without `doubled`).  One file is lost to the other and counts against the storage
  until its retention ends; one may be shown as ready for the other; one transfer can
  drop the other's authorization, and the task stays authorizing for good.
* **A file attached between a prompt and the first chunk of its answer is lost**: the
  chunk clears it with the files that were sent, and deletes nothing
  (`NothingForgotten`, if `FirstChunk` did not add it to `left`).
* **A stream abandoned early is not charged** for what it showed (`ShownIsCharged`
  of `Requests` as an invariant, "abandon" and `compare_stream`;
  `docs/COMPARE_MODE_GUIDE.md`).
* **New chat may continue the old one** (`NewChatIsNew` as an invariant of `chat`;
  `README.md:453`), if a request was under way.
* **Two subscriptions can exist at Stripe** (`NoSecondSubscription` as an invariant of
  `subscriptions`; `docs/FASTAPI_README.md:410`): two Checkouts of different plans.
  The second's events fail on the unique index until the first is cancelled.
* **The grace may be counted from a later failure** (`GraceCountsFromFailure` as an
  invariant of `subscriptions`; `README.md:602`): every retry's
  `invoice.payment_failed` extends it.

Smaller observations.

* Work: a reconciliation that outlives its lease runs beside the next one
  (`server/work/service.py:964` does not check it again).  A run set to waiting at
  `:1185` is overwritten at `:1239`.  A failed automatic denial is not retried.  A
  failed interrupt drops the denials of expired approvals after it.  A late
  `ConfirmStart` sets an ended run back to running.  The finalize message can wake
  an idle session whose later usage is not billed.  A start that crashes before it
  has a session leaves a created run, which counts against the plan.
* Orchestrator: compare records targets that the circuit refused as failures.  A
  stop returns the last error although an earlier attempt gave a usable answer;
  escalating to a tier without candidates raises and loses it too.
* Files: at READ COMMITTED a late ingestion or completion sets a deleting row back to
  ready until its job runs; an object posted after the deletion stays; the rollback
  of a batch leaves the status "deleted" without a date or a job; a worker that
  dies between erasing and committing, with its attempts used up, leaves a row
  that a late read shows as ready.  `torn` excepts the last two.
* Uploads: a failed status poll leaves the task "processing" for good.
* Subscriptions: a first `payment_failed` that arrives after a relapse leaves a
  deadline counted from the earlier failure (excepted by `episodes`).  Between a
  term's end and the renewal's event the account is on the fallback plan.
* Chat client: regenerating or asking while an answer streams leaves the other turn
  "streaming" for ever; a regeneration that fails before its first chunk marks the
  active turn, which may be complete; concurrent compare regenerations take one
  revision number; restoring after an empty fetch can drop the session of a
  question asked meanwhile.

## Not modelled, and why

* Provider clients, web research, the optimizer's and the analysis' prompts,
  reporting, presentation, configuration and scripts: conversion and I/O.
* Identity, keys and privacy: per-request checks without shared state.
* OAuth and tool connections, the Stripe Portal: sequential handlers around one
  external call.
* Work artifacts and the event stream: later extensions of `WorkRuns`.  The one
  hazard no property covers, two reconciliations of an ended run importing one
  provider file twice (`server/work/service.py:1514`), is theirs.
* Inside modelled components: the rate limit; validation before a reservation and
  the reuse caches; changes of account or plan mapping at Stripe, Checkout's own
  events, development overrides, and `reconcile_billing_account`, which no
  production code calls; text extraction and deduplication of files; the legacy
  upload mode; compare regenerations and edits of the history list.

## Plan

1.  `WorkRuns`: what `UsageBilledOnce` and `CompletedAfterInstruction` become with
slow starts, several provider sessions and several active runs, stated so that they
hold there and can be proved.  2.  Work artifacts and the event stream with
Last-Event-ID.  3.  API keys with their caps and the rate limit, which have shared
counters.  4.  Web research's cache, conversation history.
