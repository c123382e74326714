---------------------------- MODULE Orchestrator ----------------------------
(***************************************************************************)
(* Model calls of one API process (orchestrator/core.py): smart routing    *)
(* over tiers of candidates with retries and escalation, direct calls of   *)
(* one model, and compare calls of several, all through the circuit        *)
(* breaker they share.  Requests run in threads of their own: between the  *)
(* check of a circuit and the record of the answer, others take steps.     *)
(***************************************************************************)
EXTENDS CircuitBreaker, Sequences, FiniteSets

CONSTANTS
    Requests,      \* threads that serve one request after another
    Kinds,         \* the kinds of request each of them serves
    LastTier,      \* tiers are 0 .. LastTier
    TierOf,        \* the tier of each model in the registry
    MaxAttempts,   \* attempts of a smart request
    Targets,       \* bound: the models compare requests name
    MaxCompares    \* bound: compare requests of a behaviour

ASSUME OrchestratorAssumption ==
    /\ IsFiniteSet(Models)
    /\ Kinds \in [Requests -> SUBSET {"smart", "direct", "compare"}]
    /\ LastTier \in Nat
    /\ TierOf \in [Models -> 0 .. LastTier]
    /\ MaxAttempts \in Nat \ {0}
    /\ Targets \subseteq Models
    /\ MaxCompares \in Nat

VARIABLES
    request,    \* the state of the request each thread serves
    compares    \* compare requests so far

vars == <<circuit, request, compares>>

Tiers == 0 .. LastTier

(* What a model answers, as the response validator sees it.  Providers     *)
(* time out or refuse by rate on the path of any other provider error,     *)
(* except that only the latter is retried once the latency budget is gone. *)
Failures == {"provider_error", "timeout"}
Doubtful == {"refusal", "too_short", "truncated", "format_violation"}
Outcomes == {"ok"} \cup Failures \cup Doubtful

Fresh ==
    [pc |-> "idle", allowed |-> {}, tier |-> 0, left |-> <<>>, model |-> {},
     attempt |-> 0, late |-> FALSE, called |-> <<>>, todo |-> {}, missed |-> {},
     clients |-> {}]

RequestType ==
    [pc      : {"idle", "choose", "gate", "smart", "direct", "check", "record"},
     allowed : SUBSET Models,
     tier    : Tiers,
     left    : Seq(Models),
     model   : SUBSET Models,
     attempt : 0 .. MaxAttempts,
     late    : BOOLEAN,
     called  : Seq(Models),
     todo    : SUBSET Models,
     missed  : SUBSET Models,
     clients : SUBSET Models]

TypeOK ==
    /\ BreakerType
    /\ request \in [Requests -> RequestType]
    /\ compares \in 0 .. MaxCompares

Init ==
    /\ BreakerInit
    /\ request = [r \in Requests |-> Fresh]
    /\ compares = 0

At(r, pc) == request[r].pc = pc

(* Which of its answers a request returns is left out: see the README.     *)
End(r) == request' = [request EXCEPT ![r] = Fresh]

-----------------------------------------------------------------------------
(* Smart routing.                                                          *)

Candidates(tier, allowed) == {m \in allowed : TierOf[m] = tier}

(* The allowed models a request in this tier may still climb to.           *)
Above(tier, allowed) == {m \in allowed : TierOf[m] > tier}

(* The selector ranks the candidates by the features of the prompt and may *)
(* leave out those too small or too dear for it, but never all of them.    *)
Selections(candidates) ==
    UNION {{s \in [1 .. Cardinality(kept) -> kept] :
                \A i, j \in DOMAIN s : s[i] = s[j] => i = j} :
           kept \in SUBSET candidates \ {{}}}

(* The plan: the tier the prompt asks for or, when no allowed model is in  *)
(* it and the request names the allowed ones, the tier of one of them.     *)
(* Without a candidate the selector raises: the request ends in error.     *)
Plan(r) ==
    /\ "smart" \in Kinds[r] /\ At(r, "idle")
    /\ \E allowed \in SUBSET Models, asked \in Tiers :
         \/ /\ Candidates(asked, allowed) = {}
            /\ UNCHANGED request
         \/ \E tier \in Tiers :
              /\ \/ tier = asked
                 \/ /\ Candidates(asked, allowed) = {}
                    /\ \E m \in allowed : tier = TierOf[m]
              /\ \E left \in Selections(Candidates(tier, allowed)) :
                   request' = [request EXCEPT ![r] =
                       [Fresh EXCEPT !.pc = "choose", !.tier = tier, !.left = left,
                                     !.allowed = Above(tier, allowed)]]
    /\ UNCHANGED <<circuit, compares>>

(* The next tier replaces the candidates.  A tier without candidates makes *)
(* the selector raise: whatever answer the request had, it ends in error.  *)
Climb(r, entry) ==
    LET next == Candidates(entry.tier + 1, entry.allowed)
    IN  \/ /\ next = {}
           /\ End(r)
        \/ \E left \in Selections(next) :
             request' = [request EXCEPT ![r] =
                 [entry EXCEPT !.pc = "choose", !.tier = @ + 1, !.left = left,
                               !.allowed = Above(entry.tier + 1, @)]]

(* Mutant of Choose: a candidate that cannot be paid for is tried again.   *)
Choose_Stays(r) ==
    LET q == request[r]
    IN  /\ At(r, "choose")
        /\ \/ /\ q.left = <<>> /\ q.tier = LastTier
              /\ End(r)
           \/ /\ q.left = <<>> /\ q.tier < LastTier
              /\ Climb(r, q)
           \/ /\ q.left # <<>>
              /\ \E pc \in {"choose", "gate"} :
                   request' = [request EXCEPT ![r] = IF pc = "gate"
                       THEN [q EXCEPT !.left = Tail(@), !.pc = pc, !.model = {Head(q.left)}]
                       ELSE [q EXCEPT !.left = Append(Tail(@), Head(@))]]
        /\ UNCHANGED <<circuit, compares>>

(* Mutant of Choose: a candidate that is called is not taken off.          *)
Choose_Peeks(r) ==
    LET q == request[r]
    IN  /\ At(r, "choose")
        /\ \/ /\ q.left = <<>> /\ q.tier = LastTier
              /\ End(r)
           \/ /\ q.left = <<>> /\ q.tier < LastTier
              /\ Climb(r, q)
           \/ /\ q.left # <<>>
              /\ \E pc \in {"choose", "gate"} :
                   request' = [request EXCEPT ![r] = IF pc = "gate"
                       THEN [q EXCEPT !.pc = pc, !.model = {Head(q.left)}]
                       ELSE [q EXCEPT !.left = Tail(@)]]
        /\ UNCHANGED <<circuit, compares>>

(* The loop takes the next candidate.  A candidate whose credits cannot be *)
(* reserved is dropped and costs no attempt.                               *)
Choose(r) ==
    LET q == request[r]
    IN  /\ At(r, "choose")
        /\ \/ /\ q.left = <<>> /\ q.tier = LastTier
              /\ End(r)
           \/ /\ q.left = <<>> /\ q.tier < LastTier
              /\ Climb(r, q)
           \/ /\ q.left # <<>>
              /\ \E pc \in {"choose", "gate"} :
                   request' = [request EXCEPT ![r] =
                       [q EXCEPT !.left = Tail(@), !.pc = pc,
                                 !.model = IF pc = "gate" THEN {Head(q.left)} ELSE {}]]
        /\ UNCHANGED <<circuit, compares>>

(* Whether the loop goes on after an answer that did not pass: with the    *)
(* next candidate of the tier, with the next tier, or not at all.          *)
Decision(q, outcome, late) ==
    LET more    == q.left # <<>>
        higher  == q.tier < LastTier
        spared  == q.attempt = 0 /\ more /\ outcome \in {"provider_error", "too_short", "truncated"}
        retried == more /\ outcome \in Failures \cup {"refusal", "truncated"}
        raised  == higher /\ outcome \in Doubtful
    IN  IF q.attempt + 1 >= MaxAttempts THEN "stop"
        ELSE IF late THEN IF spared THEN "retry" ELSE "stop"
        ELSE IF retried THEN "retry" ELSE IF raised THEN "escalate" ELSE "stop"

(* The answer of an attempt is judged and the loop goes on or ends.        *)
Judge(r, outcome) ==
    LET q == request[r]
    IN  \E late \in {TRUE, q.late} :
          LET next == [q EXCEPT !.pc = "choose", !.model = {}, !.late = late,
                                !.attempt = @ + 1]
              move == Decision(q, outcome, late)
          IN  \/ /\ outcome = "ok" \/ move = "stop"
                 /\ End(r)
              \/ /\ outcome # "ok" /\ move = "retry"
                 /\ request' = [request EXCEPT ![r] = next]
              \/ /\ outcome # "ok" /\ move = "escalate"
                 /\ Climb(r, next)

(* Mutant of Gate: a refused candidate counts as a failure of its model.   *)
Gate_Counts(r) ==
    /\ At(r, "gate")
    /\ \E m \in request[r].model :
         \/ /\ Allows(m)
            /\ request' = [request EXCEPT ![r].pc = "smart",
                                          ![r].called = Append(@, m)]
            /\ UNCHANGED circuit
         \/ /\ ~Allows(m)
            /\ Judge(r, "provider_error")
            /\ RecordFailure(m)
    /\ UNCHANGED compares

(* The circuit is asked before a candidate is called.  A refusal costs an  *)
(* attempt, and is not a failure of the model.                             *)
Gate(r) ==
    /\ At(r, "gate")
    /\ \E m \in request[r].model :
         \/ /\ Allows(m)
            /\ request' = [request EXCEPT ![r].pc = "smart",
                                          ![r].called = Append(@, m)]
         \/ /\ ~Allows(m)
            /\ Judge(r, "provider_error")
    /\ UNCHANGED <<circuit, compares>>

(* A candidate answers, or its client raises (recorded as a failure).      *)
SmartAnswer(r) ==
    /\ At(r, "smart")
    /\ \E m \in request[r].model, outcome \in Outcomes :
         /\ Judge(r, outcome)
         /\ Record(m, outcome \in Failures)
    /\ UNCHANGED compares

-----------------------------------------------------------------------------
(* A direct call of one model.                                             *)

(* Mutant of DirectStart: a refused call counts as a failure.              *)
DirectStart_Counts(r) ==
    /\ "direct" \in Kinds[r] /\ At(r, "idle")
    /\ \E m \in Models :
         IF Allows(m)
         THEN /\ request' = [request EXCEPT ![r] = [@ EXCEPT !.pc = "direct", !.model = {m}]]
              /\ UNCHANGED circuit
         ELSE RecordFailure(m) /\ UNCHANGED request
    /\ UNCHANGED compares

DirectStart(r) ==
    /\ "direct" \in Kinds[r] /\ At(r, "idle")
    /\ \E m \in Models :
         IF Allows(m)
         THEN request' = [request EXCEPT ![r] = [@ EXCEPT !.pc = "direct", !.model = {m}]]
         ELSE UNCHANGED request
    /\ UNCHANGED <<circuit, compares>>

(* A client that raises leaves no record on this path.                     *)
DirectAnswer(r) ==
    /\ At(r, "direct")
    /\ \/ \E m \in request[r].model, bad \in BOOLEAN : Record(m, bad)
       \/ UNCHANGED circuit
    /\ End(r)
    /\ UNCHANGED compares

-----------------------------------------------------------------------------
(* A compare call of several models.                                       *)

CompareStart(r) ==
    /\ "compare" \in Kinds[r] /\ At(r, "idle")
    /\ compares < MaxCompares
    /\ compares' = compares + 1
    /\ \E targets \in SUBSET Targets \ {{}} :
         request' = [request EXCEPT ![r] = [@ EXCEPT !.pc = "check", !.todo = targets]]
    /\ UNCHANGED circuit

(* One target is checked: it is blocked, its client cannot be built (on    *)
(* record as a failure), or it gets a client.                              *)
CompareCheck(r) ==
    /\ At(r, "check")
    /\ \E m \in request[r].todo :
         \/ /\ request' = [request EXCEPT ![r].todo = @ \ {m}, ![r].missed = @ \cup {m}]
            /\ IF Allows(m) THEN RecordFailure(m) ELSE UNCHANGED circuit
         \/ /\ Allows(m)
            /\ request' = [request EXCEPT ![r].todo = @ \ {m}, ![r].clients = @ \cup {m}]
            /\ UNCHANGED circuit
    /\ UNCHANGED compares

(* All targets are checked and the clients called.  Without any client, or *)
(* when the calls raise, the compare ends and records nothing more.        *)
CompareCall(r) ==
    /\ At(r, "check") /\ request[r].todo = {}
    /\ \/ End(r)
       \/ /\ request[r].clients # {}
          /\ request' = [request EXCEPT ![r].pc = "record"]
    /\ UNCHANGED <<circuit, compares>>

(* Every response is recorded, those of targets that were never called as  *)
(* failures too.                                                           *)
CompareRecord(r) ==
    /\ At(r, "record")
    /\ \E m \in request[r].clients \cup request[r].missed :
         /\ LET rest == [request[r] EXCEPT !.clients = @ \ {m}, !.missed = @ \ {m}]
            IN  request' = [request EXCEPT ![r] =
                    IF rest.clients \cup rest.missed = {} THEN Fresh ELSE rest]
         /\ \E bad \in BOOLEAN :
              /\ m \in request[r].missed => bad
              /\ Record(m, bad)
    /\ UNCHANGED compares

-----------------------------------------------------------------------------
Serve(r) ==
    \/ Choose(r)
    \/ Gate(r)
    \/ SmartAnswer(r)
    \/ DirectAnswer(r)
    \/ CompareCheck(r)
    \/ CompareCall(r)
    \/ CompareRecord(r)

Start(r) == Plan(r) \/ DirectStart(r) \/ CompareStart(r)

Cool(m) == Tick(m) /\ UNCHANGED <<request, compares>>

Fade(m) == Forget(m) /\ UNCHANGED <<request, compares>>

Next ==
    \/ \E r \in Requests : Start(r) \/ Serve(r)
    \/ \E m \in Models : Cool(m) \/ Fade(m)

(* A thread that serves a request keeps running: the provider clients have *)
(* time limits of their own, so every call returns.  Time passes.  Nothing *)
(* makes a client send another request.                                    *)
Fairness ==
    /\ \A r \in Requests : WF_vars(Serve(r))
    /\ \A m \in Models : WF_vars(Cool(m))

Spec == Init /\ [][Next]_vars /\ Fairness

-----------------------------------------------------------------------------
(* A smart request calls no model twice, and at most MaxAttempts models,   *)
(* through all its retries, refused circuits and changes of tier: each     *)
(* call is paid for, and the reservation covers each candidate once.       *)
EachModelOnce ==
    \A r \in Requests :
        LET called == request[r].called
        IN  /\ Len(called) <= MaxAttempts
            /\ \A i, j \in DOMAIN called : called[i] = called[j] => i = j

(* A circuit opens, or stays open for longer, only by a step of a request  *)
(* whose call of that model was admitted before: requests that find it     *)
(* open do not count as failures, whoever else calls the model meanwhile.  *)
(* Compare requests are excepted, whose targets count as failed even when  *)
(* they were never called.                                                 *)
Calls(r, m) ==
    \/ request[r].pc \in {"smart", "direct"} /\ m \in request[r].model
    \/ m \in request[r].todo \cup request[r].clients \cup request[r].missed

OpenedByCalls ==
    [][\A m \in Models :
         circuit'[m].open > circuit[m].open =>
             \E r \in Requests : Calls(r, m) /\ request'[r] # request[r]]_vars

(* Every request ends, whatever the models answer.                         *)
RequestsEnd == \A r \in Requests : []<>At(r, "idle")

(* Requests that find a circuit open do not keep it open: it lets calls    *)
(* pass again, however many requests it refuses.  Compare requests do keep *)
(* it open, and are bounded here (see the README).                         *)
CircuitRecovers == \A m \in Models : []<>Allows(m)
=============================================================================
