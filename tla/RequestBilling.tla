--------------------------- MODULE RequestBilling ---------------------------
(***************************************************************************)
(* How a chat, compare, optimization or analysis request pays for itself   *)
(* (server/persistence.py over server/billing/enforcement_service.py and   *)
(* the metering service): it reserves before any provider work, registers  *)
(* the reservation with its process, whose heartbeat keeps it alive        *)
(* (server/billing/reservation_cleanup.py), and finalises or releases it.  *)
(*                                                                         *)
(* A handler is a process whose steps are the stretches between two points *)
(* where Python may suspend it.  It holds no transaction across them.      *)
(***************************************************************************)
EXTENDS Integers, FiniteSets, FiniteSetsExt

CONSTANTS
    Requests,      \* requests, each with a reservation of its own
    Targets,       \* models a compare request asks, by their positions in it
    Kinds,         \* kinds of request that arrive
    Cost,          \* credits of a successful answer, by target
    ResearchCost,  \* credits of the web search of a request
    Estimates,     \* credits a request may be estimated to cost
    MaxQuantity,   \* bound on them and on what a request may use
    Limits, Periods,
    Disturbances   \* what else may happen: see Disturbance

Chats == {"chat", "chat_stream"}
Compares == {"compare", "compare_stream"}
Streams == {"chat_stream", "compare_stream"}
Kind == Chats \cup Compares \cup {"optimize", "analysis"}

\* "abandon": the client is gone while a response is being sent, so that the
\* generator of a stream is closed at a yield.
Disturbance == {"cancel", "abandon", "provider_error", "db_error", "crash", "no_heartbeat"}

ASSUME MeteringAssumption ==
    IsFiniteSet(Requests) /\ Limits \subseteq Nat /\ Limits # {} /\ MaxQuantity \in Nat
ASSUME KindsAssumption == Kinds \subseteq Kind
ASSUME TargetsAssumption == Targets \subseteq Nat /\ Targets # {} /\ IsFiniteSet(Targets)
ASSUME CostAssumption == Cost \in [Targets -> Nat \ {0}] /\ ResearchCost \in Nat \ {0}
ASSUME EstimatesAssumption == Estimates \subseteq 1 .. MaxQuantity
ASSUME DisturbancesAssumption == Disturbances \subseteq Disturbance

VARIABLES
    req,         \* local state of the handler of each request
    registered,  \* _active_reservations, over all processes
    ledger,      \* total_credits of the credit transactions of the request
    history,     \* what the chat history has of the request
    excused,     \* history: requests hit by a failing database, a crash or expiry
    limit, period, granted, used, reserved,              \* the metering service
    state, periodOf, requested, settled, planLimit, stale

Metering == INSTANCE UsageMetering

metering == <<limit, period, granted, used, reserved, state, periodOf,
              requested, settled, planLimit, stale>>
billing == <<metering, registered, ledger, excused>>
vars == <<req, history, billing>>

NoItems == [model |-> [t \in Targets |-> 0], research |-> 0]

\* out: targets with a successful response; shown: those whose output started;
\* failed: those that ended in an error.  thread: orchestrator.ask still runs.
NoRequest == [pc |-> "idle", kind |-> "chat", out |-> {}, shown |-> {}, failed |-> {},
              research |-> FALSE, thread |-> FALSE]

BillingInit ==
    /\ req = [r \in Requests |-> NoRequest]
    /\ registered = {}
    /\ ledger = [r \in Requests |-> NoItems]
    /\ history = [r \in Requests |-> "none"]
    /\ excused = {}
    /\ Metering!Init

\* "closed": over, but no handler has seen the end.
Finished == {"over", "closed"}
Serving(r) == req[r].pc \notin Finished \cup {"idle"}
At(r, kinds, pcs) == req[r].kind \in kinds /\ req[r].pc \in pcs
Goto(r, pc) == req' = [req EXCEPT ![r].pc = pc]
Stop(r) == req' = [req EXCEPT ![r].pc = "over", ![r].thread = FALSE]

\* The targets a request asks: one, unless it compares.
Asked(r) == IF req[r].kind \in Compares THEN Targets ELSE {CHOOSE t \in Targets : TRUE}

----------------------------------------------------------------------------
\* reserve_subscription_usage: authorisation, estimate and reservation in one
\* transaction, then the registration.  A denial is not a step.
Reserve(r, kind, estimate) ==
    /\ req[r].pc = "idle"
    /\ Metering!ReserveUsage(r, estimate)
    /\ registered' = registered \cup {r}
    /\ req' = [req EXCEPT ![r].pc = "reserved", ![r].kind = kind]
    /\ UNCHANGED <<ledger, history, excused>>

Total(T, research) ==
    MapThenSumSet(LAMBDA t : Cost[t], T) + IF research THEN ResearchCost ELSE 0

ASSUME BoundAssumption ==
    \A T \in SUBSET Targets, research \in BOOLEAN : Total(T, research) <= MaxQuantity

\* The transaction items as they were calculated, one per answer and one for
\* the search.
Calculated(T, research) ==
    [model |-> [t \in Targets |-> IF t \in T THEN Cost[t] ELSE 0],
     research |-> IF research THEN ResearchCost ELSE 0]

\* Mutant: an item does not reduce what is left for the next one.
Left_Undiminished(amount, T, t) == amount
\* What the items before the one of t leave of an amount that is handed out in
\* the order of the answers: every item takes what it cost or all that is left.
Left(amount, T, t) ==
    Metering!Larger(0, amount - MapThenSumSet(LAMBDA u : Cost[u], {u \in T : u < t}))

\* _reconcile_transaction_items: a bill that was cut is handed out again, first
\* to the search, then answer by answer.
Items(T, research, billed) ==
    LET search == IF research THEN Metering!Smaller(ResearchCost, billed) ELSE 0
    IN  IF billed >= Total(T, research) THEN Calculated(T, research)
        ELSE [model |-> [t \in Targets |->
                  IF t \in T THEN Metering!Smaller(Cost[t], Left(billed - search, T, t)) ELSE 0],
              research |-> search]

\* Mutant: the reservation is left registered.
Unregister_Not(r) == UNCHANGED registered
\* unregister_active_reservation, in the finally clause of both calls.
Unregister(r) == registered' = registered \ {r}

DatabaseMayFail == "db_error" \in Disturbances

\* A transaction on the reservation rolls back: the reservation is no longer
\* open, or the database fails.
Excuse(r) == excused' = IF state[r] = "reserved" THEN excused \cup {r} ELSE excused
RollsBack(r) == state[r] # "reserved" \/ DatabaseMayFail

\* _release_*_usage_safely: release_subscription_usage with its errors swallowed.
ReleaseSafely(r) ==
    /\ \/ Metering!ReleaseUsage(r) /\ UNCHANGED excused
       \/ RollsBack(r) /\ Excuse(r) /\ UNCHANGED metering
    /\ Unregister(r)
    /\ UNCHANGED ledger

\* Mutant: a charge is checked against the best plan the account had meanwhile.
Allowance_Best(r) == granted[periodOf[r]]
\* The plan the request was authorised under.
Allowance(r) == planLimit[r]

\* finalize_subscription_usage commits: the answers of T and the search are
\* charged, itemised in the same transaction, or nothing was used and the hold
\* is released.
Finalize(r, T, research) ==
    LET total == Total(T, research)
    IN  /\ IF total = 0
           THEN Metering!ReleaseUsage(r) /\ UNCHANGED ledger
           ELSE /\ Metering!SettleUsage(r, total, Allowance(r))
                /\ ledger' = [ledger EXCEPT ![r] = Items(T, research, settled'[r])]
        /\ Unregister(r)
        /\ UNCHANGED excused

\* The finalisation rolls back; what _finalize_*_usage does about it is to
\* release the hold, if that works.
Recover(r) ==
    /\ RollsBack(r) /\ Excuse(r)
    /\ \/ Metering!ReleaseUsage(r)
       \/ UNCHANGED metering
    /\ Unregister(r)
    /\ UNCHANGED ledger

----------------------------------------------------------------------------
\* The heartbeat of a process touches the reservations registered in it, all
\* of them here; Work and dead processes have none.
Heartbeat ==
    /\ Metering!TouchActivity(registered)
    /\ UNCHANGED <<req, history, registered, ledger, excused>>

\* The TTL is thirty heartbeats: a registered reservation outlives it unless
\* the heartbeats fail.
AgeReservation(r) ==
    /\ r \in registered => "no_heartbeat" \in Disturbances
    /\ Metering!BecomeStale(r)
    /\ UNCHANGED <<req, history, registered, ledger, excused>>

\* run_cleanup_cycle
Cleanup(R) ==
    /\ Metering!ExpireStaleReservations(R)
    /\ excused' = excused \cup R
    /\ UNCHANGED <<req, history, registered, ledger>>

\* A process dies with the requests it serves, and its registry with it.
Crash(R) ==
    /\ "crash" \in Disturbances
    /\ R # {} /\ \A r \in R : Serving(r) \/ r \in registered \/ req[r].thread
    /\ req' = [r \in Requests |->
                  IF r \in R THEN [req[r] EXCEPT !.pc = "over", !.thread = FALSE] ELSE req[r]]
    /\ registered' = registered \ R
    /\ excused' = excused \cup R
    /\ UNCHANGED <<history, ledger, metering>>
============================================================================
