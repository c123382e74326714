------------------------------ MODULE WorkTools ------------------------------
(***************************************************************************)
(* Tool calls and approvals of Work runs: the tables work_tool_calls and   *)
(* work_approvals and the remembered WRITE grants of the Work session      *)
(* (db/work_repository.py), and what reconciling a prefix of the provider  *)
(* event list makes of them (server/work/service.py).                      *)
(*                                                                         *)
(* The provider emits tool_started before it asks, the confirmation after  *)
(* and tool_completed last, so the event loop is stated per tool call.     *)
(***************************************************************************)
EXTENDS ManagedAgent

CONSTANTS
    Runs,                \* Work runs
    Class,               \* Class[t]: action class of the tool call (classify_action)
    Name,                \* Name[t]: its tool name, on a connection
    Switch               \* settings considered of CORTEX_WORK_ACTION_TOOLS_ENABLED

VARIABLES
    call,       \* call[r][t]: work_tool_calls.status, "none" when there is no row
    approvals,  \* approvals[r][t]: statuses of the approvals of that call, oldest first
    overdue,    \* runs' approvals <<r, t, i>> older than the approval timeout
    grants,     \* allowed_write_tools of the Work session: tool names
    actionToolsEnabled  \* the setting of this deployment

toolTables == <<call, approvals, overdue, grants, actionToolsEnabled>>

Classes == {"READ", "WRITE", "SENSITIVE"}
ASSUME ClassAssumption == Class \in [Tools -> Classes]
ASSUME SwitchAssumption == Switch \subseteq BOOLEAN

CallStatus == {"none", "running", "awaiting_approval", "denied", "succeeded"}
ApprovalStatus == {"pending", "approved", "denied", "expired"}

ToolsInit ==
    /\ call = [r \in Runs |-> [t \in Tools |-> "none"]]
    /\ approvals = [r \in Runs |-> [t \in Tools |-> <<>>]]
    /\ overdue = {}
    /\ grants = {}
    /\ actionToolsEnabled \in Switch

ToolsTypeOK ==
    /\ call \in [Runs -> [Tools -> CallStatus]]
    /\ \A r \in Runs, t \in Tools : \A i \in DOMAIN approvals[r][t] :
          approvals[r][t][i] \in ApprovalStatus
    /\ \A o \in overdue : o[1] \in Runs /\ o[2] \in Tools /\ o[3] \in Nat
    /\ grants \subseteq {Name[t] : t \in Tools}
    /\ actionToolsEnabled \in BOOLEAN

HasPending(row) == \E i \in DOMAIN row : row[i] = "pending"
PendingTools(r) == {t \in Tools : HasPending(approvals[r][t])}

----------------------------------------------------------------------------
\* What an observed event list says.

OfType(events, type) == {events[i] : i \in {j \in DOMAIN events : events[j].type = type}}
ToolsOf(events, type) == UNION {e.tools : e \in OfType(events, type)}

Started(events) == ToolsOf(events, "tool_started")
Completed(events) == ToolsOf(events, "tool_completed")

\* Calls the provider still asks about, as far as these events tell.
Unanswered(events) ==
    (ToolsOf(events, "approval_required") \cap Started(events))
        \ ToolsOf(events, "tool_confirmation")

\* READ is confirmed without asking, WRITE under a grant for exactly this tool.
Silent(t) == Class[t] = "READ" \/ (Class[t] = "WRITE" /\ Name[t] \in grants)

----------------------------------------------------------------------------
\* What one reconciliation transaction makes of run r's calls and approvals.

Overdue(r, t, i) == approvals[r][t][i] = "pending" /\ <<r, t, i>> \in overdue

\* expire_pending_approvals_for_run: overdue approvals expire, their calls are
\* denied, and the provider is told later.
Expired(r) ==
    UNION {{t} \X {i \in DOMAIN approvals[r][t] : Overdue(r, t, i)} : t \in Tools}

AfterExpiry(r, t) ==
    [i \in DOMAIN approvals[r][t] |->
        IF Overdue(r, t, i) THEN "expired" ELSE approvals[r][t][i]]

\* The call's status after expiry and the idempotent insert for tool_started.
CallBefore(r, t, events) ==
    IF \E i \in DOMAIN approvals[r][t] : Overdue(r, t, i) THEN "denied"
    ELSE IF call[r][t] = "none" /\ t \in Started(events) THEN "running" ELSE call[r][t]

\* Calls that need the user and have no pending approval get one, unless the
\* call was already decided.
NeedsApproval(r, events) ==
    {t \in Unanswered(events) :
        /\ ~Silent(t)
        /\ ~HasPending(AfterExpiry(r, t))
        /\ CallBefore(r, t, events) = "running"}

\* Calls whose approval is shown to the user, or refused on the spot while
\* action tools are switched off.
Presented(r, events) ==
    NeedsApproval(r, events)
        \cup {t \in Unanswered(events) : ~Silent(t) /\ HasPending(AfterExpiry(r, t))}

AutoConfirm(events) == {t \in Unanswered(events) : Silent(t)}
AutoDeny(r, events) == IF actionToolsEnabled THEN {} ELSE Presented(r, events)
Asking(r, events) == IF actionToolsEnabled THEN Presented(r, events) ELSE {}

ApprovalsAfter(r, t, events) ==
    LET rows == IF t \in NeedsApproval(r, events)
                THEN Append(AfterExpiry(r, t), "pending") ELSE AfterExpiry(r, t)
    IN  IF t \in AutoDeny(r, events)
        THEN [i \in DOMAIN rows |-> IF rows[i] = "pending" THEN "denied" ELSE rows[i]]
        ELSE rows

CallAfter(r, t, events) ==
    IF t \in Completed(events) /\ CallBefore(r, t, events) # "none" THEN "succeeded"
    ELSE IF t \in AutoDeny(r, events) THEN "denied"
    ELSE IF t \in NeedsApproval(r, events) THEN "awaiting_approval"
    ELSE CallBefore(r, t, events)

\* The whole effect on the tables of one reconciliation of run r.
ReconcileTools(r, events) ==
    /\ call' = [call EXCEPT ![r] = [t \in Tools |-> CallAfter(r, t, events)]]
    /\ approvals' = [approvals EXCEPT ![r] =
           [t \in Tools |-> ApprovalsAfter(r, t, events)]]

----------------------------------------------------------------------------
\* Mutant: the row is read before it is locked and not checked again.
Decidable_Unchecked(r, t, i) == approvals[r][t][i] \in ApprovalStatus
Decidable(r, t, i) == approvals[r][t][i] = "pending"

\* decide_approval: compare-and-set from pending, and the call follows.
ClaimDecision(r, t, i, decision) ==
    /\ Decidable(r, t, i)
    /\ approvals' = [approvals EXCEPT ![r][t][i] = decision]
    /\ call' = [call EXCEPT ![r][t] = IF decision = "approved" THEN "running" ELSE "denied"]

\* Mutant: nothing is reopened.
Reopen_Never(r, t, i, from) == UNCHANGED <<approvals, call>>
\* reopen_approval_after_provider_failure and
\* reopen_expired_approval_after_provider_failure, for the row as it was left.
Reopen(r, t, i, from) ==
    IF approvals[r][t][i] = from
    THEN /\ approvals' = [approvals EXCEPT ![r][t][i] = "pending"]
         /\ call' = [call EXCEPT ![r][t] = "awaiting_approval"]
    ELSE UNCHANGED <<approvals, call>>
============================================================================
