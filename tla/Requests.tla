------------------------------ MODULE Requests ------------------------------
(***************************************************************************)
(* Chat, compare, optimization and analysis requests of one account, the   *)
(* reservation maintenance of server/app.py and plan changes.              *)
(***************************************************************************)
EXTENDS ChatRequests, CompareRequests, OptimizeRequests

Init == BillingInit

Arrive(r) ==
    \E kind \in Kinds, estimate \in Estimates : Reserve(r, kind, estimate)

Step(r) == ChatStep(r) \/ CompareStep(r) \/ OptimizeStep(r)
Disturbed(r) == ChatDisturbed(r) \/ CompareDisturbed(r) \/ OptimizeDisturbed(r)

\* resolve_effective_subscription finds another plan or period in force.
ChangePlan ==
    /\ \E l \in Limits, p \in Periods : Metering!ChangeSubscription(l, p)
    /\ UNCHANGED <<req, history, registered, ledger, excused>>

Next ==
    \/ \E r \in Requests : Arrive(r) \/ Step(r) \/ Disturbed(r) \/ AgeReservation(r)
    \/ \E R \in SUBSET Requests : Cleanup(R) \/ Crash(R)
    \/ Heartbeat
    \/ ChangePlan

Spec == Init /\ [][Next]_vars

\* Handlers go on, provider calls return or time out, and some process runs the
\* cleanup again and again.
Fairness ==
    \A r \in Requests :
        /\ WF_vars(Step(r))
        /\ WF_vars(r \notin registered /\ AgeReservation(r))
        /\ SF_vars(\E R \in SUBSET Requests : r \in R /\ Cleanup(R))

FairSpec == Spec /\ Fairness

----------------------------------------------------------------------------
TypeOK ==
    /\ Metering!TypeOK
    /\ req \in [Requests ->
          [pc : {"idle", "reserved", "start", "preparing", "asking", "first_line",
                 "late", "saving", "failing"} \cup Finished,
           kind : Kind, out : SUBSET Targets, shown : SUBSET Targets,
           failed : SUBSET Targets, research : BOOLEAN, thread : BOOLEAN]]
    /\ registered \subseteq Requests
    /\ ledger \in [Requests -> [model : [Targets -> Nat], research : Nat]]
    /\ history \in [Requests -> {"none", "answer", "error"}]
    /\ excused \subseteq Requests

\* The credit transactions of a request, one for each answer and one for the
\* search, add up to its charge, also when the charge was cut and is handed out
\* again item by item (finalize_reserved_usage, _reconcile_transaction_items).
LedgerIsTheCharge ==
    \A r \in Requests :
        MapThenSumSet(LAMBDA t : ledger[r].model[t], Targets) + ledger[r].research = settled[r]

\* Nobody keeps a reservation alive for a request that is over: only what is
\* registered escapes the cleanup, so every path out of a handler unregisters.
\* Kept unless the generator of a stream is closed at a yield or an analysis is
\* cancelled: those requests end as "closed".
HeldOnlyWhileServed == \A r \in registered : req[r].pc # "over"

\* A model is charged only for answers whose output the client was shown, also
\* when the stream is cut off and whatever it was expected to cost.
OnlyShownIsCharged ==
    \A r \in Requests, t \in Targets :
        req[r].kind \in Streams =>
            ledger[r].model[t] <= IF t \in req[r].shown THEN Cost[t] ELSE 0

\* However a request ends, it is charged if an answer was shown or a search
\* done, and let go otherwise: unless the database, the process or the cleanup
\* got in its way.
Deserved(r) == req[r].out # {} \/ req[r].research
EndedAsDeserved ==
    \A r \in Requests :
        req[r].pc = "over" /\ r \notin excused
            => state[r] = IF Deserved(r) THEN "settled" ELSE "released"

\* What docs/COMPARE_MODE_GUIDE.md says of a stream that is cut off: the answers
\* whose output started are settled.  Not kept when the generator is closed while
\* it waits at a yield: no run checks it.
ShownIsCharged ==
    \A r \in Requests :
        req[r].pc \in Finished /\ req[r].shown # {} /\ r \notin excused =>
            \E t \in req[r].shown : ledger[r].model[t] > 0

\* Every step of every request is one of the metering service's own, taken
\* once, or none: what is proved of metering holds of the requests.
ImplementsMetering == Metering!Spec

\* A hold ends, through crashes, failing databases and late threads, but for one
\* case: when the generator of a stream is closed at a yield where no handler
\* catches it, or an analysis is cancelled (ChatClosed, CompareClosed,
\* AnalysisAborted), nobody unregisters the reservation, and the heartbeat keeps
\* it reserved as long as the process lives.  Once that is gone it ends as well.
HoldsEnd ==
    \A r \in Requests :
        state[r] = "reserved" ~>
            \/ state[r] # "reserved"
            \/ req[r].pc = "closed" /\ r \in registered
============================================================================
