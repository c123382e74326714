---------------------------- MODULE ManagedAgent ----------------------------
(***************************************************************************)
(* The provider's managed-agent sessions, as Cortex Work drives them       *)
(* (server/work/provider.py, anthropic_provider.py): a session works while *)
(* "running", accumulates usage, asks before each tool call, pauses at its *)
(* budget cap and keeps an append-only event list.  Everything here is     *)
(* outside the program; the operations are its API calls.                  *)
(*                                                                         *)
(* Kept of an event is what Cortex acts on: its normalised type, or its    *)
(* terminal status for an event that ends the run, and the tool-use ids.   *)
(***************************************************************************)
EXTENDS Integers, Sequences, FiniteSets, SequencesExt

CONSTANTS
    Sessions,   \* ids of provider sessions
    Tools,      \* tool-use ids; a tool call has the id of its event
    MaxUsage,   \* bound on the credits a session consumes
    MaxOutput,  \* bound on the output tokens a session produces
    MaxEvents   \* bound on the event list, on the steps the agent takes by itself

ASSUME BoundsAssumption == MaxUsage \in Nat /\ MaxOutput \in Nat

VARIABLE session  \* the state of every provider session

TerminalEvents == {"completed", "failed", "budget_exhausted"}
EventTypes == TerminalEvents \cup
    {"tool_started", "approval_required", "tool_confirmation", "tool_completed"}

\* approval_required carries the blocking ids, the other tool events one id.
Event(type, tools) == [type |-> type, tools |-> tools]

NoSession == [status |-> "absent", usage |-> 0, output |-> 0, cap |-> 0,
              events |-> <<>>, blocked |-> {}, ran |-> {}, interrupted |-> FALSE]

AgentInit == session = [s \in Sessions |-> NoSession]

AgentTypeOK ==
    \A s \in Sessions :
        /\ session[s].status \in {"absent", "idle", "running"}
        /\ session[s].usage \in 0 .. MaxUsage
        /\ session[s].output \in 0 .. MaxOutput
        /\ session[s].cap \in Nat
        /\ \A i \in DOMAIN session[s].events :
              /\ session[s].events[i].type \in EventTypes
              /\ session[s].events[i].tools \subseteq Tools
        /\ session[s].blocked \subseteq Tools
        /\ session[s].ran \subseteq Tools
        /\ session[s].interrupted \in BOOLEAN

Exists(s) == session[s].status # "absent"
Working(s) == session[s].status = "running" /\ session[s].blocked = {}
Room(s) == Len(session[s].events) < MaxEvents

\* Events by which a session went idle: an error leaves no idle reason.
IdleEvents == {"completed", "budget_exhausted", "approval_required"}

\* The newest idle reason in an event list (_latest_provider_stop_reason).
PausedAtBudget(events) ==
    LET idle == SelectSeq(events, LAMBDA e : e.type \in IdleEvents)
    IN  idle # <<>> /\ Last(idle).type = "budget_exhausted"

----------------------------------------------------------------------------
\* The API calls.

CreateSession(s, cap) ==
    /\ ~Exists(s)
    /\ session' = [session EXCEPT ![s] = [NoSession EXCEPT !.status = "idle", !.cap = cap]]

\* A larger budget resumes a turn that stopped at the budget.
ExtendBudget(s, cap) ==
    session' = [session EXCEPT
        ![s].cap = cap,
        ![s].status = IF @ = "idle" /\ PausedAtBudget(session[s].events)
                      THEN "running" ELSE @]

\* A user message wakes an idle session that is not waiting for a tool.
SendInstruction(s) ==
    session' = [session EXCEPT
        ![s].status = IF session[s].blocked = {} THEN "running" ELSE @]

SendInterrupt(s) ==
    session' = [session EXCEPT ![s].interrupted = @ \/ session[s].status = "running"]

\* An allowed tool runs at once; the session resumes after the last answer.
ConfirmTool(s, t, allow) ==
    LET answer == <<Event("tool_confirmation", {t})>>
        result == IF allow THEN <<Event("tool_completed", {t})>> ELSE <<>>
    IN  /\ t \in session[s].blocked
        /\ session' = [session EXCEPT
               ![s].blocked = @ \ {t},
               ![s].status = IF session[s].blocked = {t} THEN "running" ELSE @,
               ![s].ran = IF allow THEN @ \cup {t} ELSE @,
               ![s].events = @ \o answer \o result]

----------------------------------------------------------------------------
\* What a session does by itself.

Consume(s, n, o) ==
    /\ Working(s)
    /\ ~session[s].interrupted
    /\ session[s].usage < session[s].cap
    /\ session[s].usage + n <= MaxUsage
    /\ session[s].output + o <= MaxOutput
    /\ session' = [session EXCEPT ![s].usage = @ + n, ![s].output = @ + o]

StartTool(s, t) ==
    /\ session[s].status = "running"
    /\ ~session[s].interrupted
    /\ Room(s)
    /\ \A u \in Sessions : Event("tool_started", {t}) \notin ToSet(session[u].events)
    /\ session' = [session EXCEPT
           ![s].blocked = @ \cup {t},
           ![s].events = Append(@, Event("tool_started", {t}))]

RequireAction(s) ==
    /\ session[s].status = "running"
    /\ session[s].blocked # {}
    /\ session' = [session EXCEPT
           ![s].status = "idle",
           ![s].interrupted = FALSE,
           ![s].events = Append(@, Event("approval_required", session[s].blocked))]

EndTurn(s, outcome) ==
    /\ Working(s)
    /\ Room(s)
    /\ outcome = "budget_exhausted" => session[s].usage >= session[s].cap
    /\ session' = [session EXCEPT
           ![s].status = "idle",
           ![s].interrupted = FALSE,
           ![s].events = Append(@, Event(outcome, {}))]

AgentStep(s) ==
    \/ \E n \in 1 .. 2, o \in 0 .. 1 : Consume(s, n, o)
    \/ \E t \in Tools : StartTool(s, t)
    \/ RequireAction(s)
    \/ \E outcome \in TerminalEvents : EndTurn(s, outcome)
============================================================================
