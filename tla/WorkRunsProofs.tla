--------------------------- MODULE WorkRunsProofs ---------------------------
(***************************************************************************)
(* Theorems of WorkRuns for any runs, sessions, tools, workers, deciders,  *)
(* budgets and disturbances.                                               *)
(***************************************************************************)
EXTENDS WorkRuns, FiniteSetTheorems, SequenceTheorems, TLAPS

Proved == INSTANCE UsageMeteringProofs WITH Requests <- Runs, MaxQuantity <- MaxUsage

----------------------------------------------------------------------------
(* The provider's sessions.                                                   *)

EventType == [type : EventTypes, tools : SUBSET Tools]
SessionType ==
    [status : {"absent", "idle", "running"}, usage : 0 .. MaxUsage, output : 0 .. MaxOutput,
     cap : Nat, events : Seq(EventType), blocked : SUBSET Tools, ran : SUBSET Tools,
     interrupted : BOOLEAN]

Agent == session \in [Sessions -> SessionType]

\* What a call or a step of the agent may do: run no tool but those of T.
Operated(T) ==
    /\ session' \in [Sessions -> SessionType]
    /\ \A s \in Sessions : session'[s].ran \subseteq session[s].ran \cup T

LEMMA SessionFacts ==
    ASSUME Agent, NEW s \in Sessions
    PROVE  /\ session[s].status \in {"absent", "idle", "running"}
           /\ session[s].usage \in 0 .. MaxUsage /\ session[s].usage \in Nat
           /\ session[s].output \in 0 .. MaxOutput /\ session[s].output \in Nat
           /\ session[s].events \in Seq(EventType) /\ Len(session[s].events) \in Nat
<1>1. session[s] \in SessionType  BY DEF Agent
<1>2. session[s].status \in {"absent", "idle", "running"}  BY <1>1 DEF SessionType
<1>3. session[s].usage \in 0 .. MaxUsage  BY <1>1 DEF SessionType
<1>4. session[s].output \in 0 .. MaxOutput  BY <1>1 DEF SessionType
<1>5. session[s].events \in Seq(EventType)  BY <1>1 DEF SessionType
<1> QED  BY <1>2, <1>3, <1>4, <1>5, BoundsAssumption, LenProperties

LEMMA NotOperated == ASSUME Agent, NEW T, UNCHANGED session PROVE Operated(T)
  BY DEF Agent, Operated

LEMMA PutSession ==
    ASSUME Agent, NEW T, NEW s, NEW q, session' = [session EXCEPT ![s] = q],
           s \in Sessions => q \in SessionType /\ q.ran \subseteq session[s].ran \cup T
    PROVE  Operated(T)
<1>1. session' \in [Sessions -> SessionType]  BY DEF Agent
<1>2. ASSUME NEW x \in Sessions PROVE session'[x].ran \subseteq session[x].ran \cup T
  <2>1. CASE x = s  BY <2>1 DEF Agent
  <2>2. CASE x # s  BY <2>2 DEF Agent
  <2> QED  BY <2>1, <2>2
<1> QED  BY <1>1, <1>2 DEF Operated

LEMMA EventFits == ASSUME NEW type \in EventTypes, NEW T \in SUBSET Tools
    PROVE  Event(type, T) \in EventType
  BY DEF Event, EventType

\* The calls of the program.
LEMMA CreateOperates ==
    ASSUME Agent, NEW s, NEW cap \in Nat, CreateSession(s, cap) PROVE Operated({})
<1> DEFINE q == [NoSession EXCEPT !.status = "idle", !.cap = cap]
<1>1. <<>> \in Seq(EventType) /\ 0 \in 0 .. MaxUsage /\ 0 \in 0 .. MaxOutput
  BY BoundsAssumption
<1>2. q \in SessionType /\ q.ran = {}
  <2>1. NoSession \in SessionType /\ NoSession.ran = {}  BY <1>1 DEF NoSession, SessionType
  <2> QED  BY <2>1 DEF SessionType
<1>3. session' = [session EXCEPT ![s] = q]  BY DEF CreateSession
<1> HIDE DEF q
<1> QED  BY <1>2, <1>3, PutSession

LEMMA ExtendOperates ==
    ASSUME Agent, NEW s, NEW cap \in Nat, ExtendBudget(s, cap) PROVE Operated({})
<1> DEFINE status == IF session[s].status = "idle" /\ PausedAtBudget(session[s].events)
                     THEN "running" ELSE session[s].status
           q == [session[s] EXCEPT !.cap = cap, !.status = status]
<1>1. s \in Sessions => session[s] \in SessionType  BY DEF Agent
<1>2. s \in Sessions => q \in SessionType /\ q.ran = session[s].ran
  BY <1>1 DEF SessionType
<1>3. session' = [session EXCEPT ![s] = q]  BY <1>1 DEF ExtendBudget, Agent
<1> HIDE DEF q
<1> QED  BY <1>2, <1>3, PutSession

LEMMA InstructOperates ==
    ASSUME Agent, NEW s, SendInstruction(s) PROVE Operated({})
<1> DEFINE q == [session[s] EXCEPT !.status = IF session[s].blocked = {} THEN "running" ELSE @]
<1>1. s \in Sessions => session[s] \in SessionType  BY DEF Agent
<1>2. s \in Sessions => q \in SessionType /\ q.ran = session[s].ran
  BY <1>1 DEF SessionType
<1>3. session' = [session EXCEPT ![s] = q]  BY <1>1 DEF SendInstruction, Agent
<1> HIDE DEF q
<1> QED  BY <1>2, <1>3, PutSession

LEMMA InterruptOperates ==
    ASSUME Agent, NEW s, SendInterrupt(s) PROVE Operated({})
<1> DEFINE b == session[s].interrupted \/ session[s].status = "running"
           q == [session[s] EXCEPT !.interrupted = b]
<1>1. s \in Sessions => session[s] \in SessionType  BY DEF Agent
<1>2. b \in BOOLEAN  OBVIOUS
<1>3. session' = [session EXCEPT ![s] = q]  BY <1>1 DEF SendInterrupt, Agent
<1> HIDE DEF b
<1>4. s \in Sessions => q \in SessionType /\ q.ran = session[s].ran
  BY <1>1, <1>2 DEF SessionType
<1> HIDE DEF q
<1> QED  BY <1>3, <1>4, PutSession

\* A tool runs only when its call is confirmed.
LEMMA ConfirmOperates ==
    ASSUME Agent, NEW s, NEW t, NEW allow \in BOOLEAN, ConfirmTool(s, t, allow)
    PROVE  Operated(IF allow THEN {t} ELSE {})
<1> DEFINE answer == <<Event("tool_confirmation", {t})>>
           result == IF allow THEN <<Event("tool_completed", {t})>> ELSE <<>>
           events == session[s].events \o answer \o result
           q == [session[s] EXCEPT
                    !.blocked = @ \ {t},
                    !.status = IF session[s].blocked = {t} THEN "running" ELSE @,
                    !.ran = IF allow THEN @ \cup {t} ELSE @,
                    !.events = events]
<1>1. s \in Sessions => session[s] \in SessionType  BY DEF Agent
<1>2. s \in Sessions => t \in Tools  BY <1>1 DEF ConfirmTool, SessionType
<1>3. ASSUME s \in Sessions PROVE events \in Seq(EventType)
  <2>1. /\ Event("tool_confirmation", {t}) \in EventType
        /\ Event("tool_completed", {t}) \in EventType
    BY <1>2, <1>3, EventFits DEF EventTypes, TerminalEvents
  <2>2. answer \in Seq(EventType) /\ result \in Seq(EventType)  BY <2>1
  <2>3. session[s].events \in Seq(EventType)  BY <1>1, <1>3 DEF SessionType
  <2> QED  BY <2>2, <2>3, ConcatProperties
<1>4. session' = [session EXCEPT ![s] = q]  BY <1>1 DEF ConfirmTool, Agent
<1> HIDE DEF events
<1>5. s \in Sessions => q \in SessionType
  BY <1>1, <1>2, <1>3 DEF SessionType
<1>6. s \in Sessions => q.ran \subseteq session[s].ran \cup IF allow THEN {t} ELSE {}
  BY <1>1 DEF SessionType
<1> HIDE DEF q
<1> QED  BY <1>4, <1>5, <1>6, PutSession

\* What the agent does by itself.
LEMMA AppendOperates ==
    ASSUME Agent, NEW s \in Sessions, NEW e \in EventType,
           NEW status \in {"absent", "idle", "running"}, NEW blocked \in SUBSET Tools,
           NEW b \in BOOLEAN,
           session' = [session EXCEPT ![s] = [session[s] EXCEPT
               !.status = status, !.blocked = blocked, !.interrupted = b,
               !.events = Append(@, e)]]
    PROVE  Operated({})
<1> DEFINE q == [session[s] EXCEPT
               !.status = status, !.blocked = blocked, !.interrupted = b,
               !.events = Append(@, e)]
<1>1. session[s] \in SessionType  BY DEF Agent
<1>2. Append(session[s].events, e) \in Seq(EventType)  BY <1>1 DEF SessionType
<1>3. q \in SessionType /\ q.ran = session[s].ran  BY <1>1, <1>2 DEF SessionType
<1>4. session' = [session EXCEPT ![s] = q]  OBVIOUS
<1> HIDE DEF q
<1> QED  BY <1>3, <1>4, PutSession

LEMMA AgentOperates == ASSUME Agent, NEW s \in Sessions, AgentStep(s) PROVE Operated({})
<1>0. session[s] \in SessionType /\ session \in [Sessions -> SessionType]  BY DEF Agent
<1>1. ASSUME NEW n \in 1 .. 2, NEW o \in 0 .. 1, Consume(s, n, o) PROVE Operated({})
  <2> DEFINE q == [session[s] EXCEPT !.usage = @ + n, !.output = @ + o]
  <2>1. session[s].usage + n \in 0 .. MaxUsage /\ session[s].output + o \in 0 .. MaxOutput
    BY <1>0, <1>1, BoundsAssumption DEF Consume, SessionType
  <2>2. q \in SessionType /\ q.ran = session[s].ran  BY <1>0, <2>1 DEF SessionType
  <2>3. session' = [session EXCEPT ![s] = q]  BY <1>0, <1>1 DEF Consume
  <2> HIDE DEF q
  <2> QED  BY <2>2, <2>3, PutSession
<1>2. ASSUME NEW t \in Tools, StartTool(s, t) PROVE Operated({})
  <2>1. Event("tool_started", {t}) \in EventType
    BY EventFits DEF EventTypes
  <2>2. session[s].blocked \cup {t} \in SUBSET Tools  BY <1>0 DEF SessionType
  <2>3. session' = [session EXCEPT ![s] = [session[s] EXCEPT
               !.status = session[s].status, !.blocked = session[s].blocked \cup {t},
               !.interrupted = session[s].interrupted,
               !.events = Append(@, Event("tool_started", {t}))]]
    BY <1>0, <1>2 DEF StartTool, SessionType
  <2>4. session[s].status \in {"absent", "idle", "running"}  BY <1>0 DEF SessionType
  <2>5. session[s].interrupted \in BOOLEAN  BY <1>0 DEF SessionType
  <2> QED  BY <2>1, <2>2, <2>3, <2>4, <2>5, AppendOperates
<1>3. ASSUME RequireAction(s) PROVE Operated({})
  <2>1. session[s].blocked \in SUBSET Tools  BY <1>0 DEF SessionType
  <2>2. Event("approval_required", session[s].blocked) \in EventType
    BY <2>1, EventFits DEF EventTypes
  <2>3. session' = [session EXCEPT ![s] = [session[s] EXCEPT
               !.status = "idle", !.blocked = session[s].blocked, !.interrupted = FALSE,
               !.events = Append(@, Event("approval_required", session[s].blocked))]]
    BY <1>0, <1>3 DEF RequireAction, SessionType
  <2> QED  BY <2>1, <2>2, <2>3, AppendOperates
<1>4. ASSUME NEW outcome \in TerminalEvents, EndTurn(s, outcome) PROVE Operated({})
  <2>1. session[s].blocked \in SUBSET Tools  BY <1>0 DEF SessionType
  <2>2. Event(outcome, {}) \in EventType  BY EventFits DEF EventTypes
  <2>3. session' = [session EXCEPT ![s] = [session[s] EXCEPT
               !.status = "idle", !.blocked = session[s].blocked, !.interrupted = FALSE,
               !.events = Append(@, Event(outcome, {}))]]
    BY <1>0, <1>4 DEF EndTurn, SessionType
  <2> QED  BY <2>1, <2>2, <2>3, AppendOperates
<1> QED  BY <1>1, <1>2, <1>3, <1>4 DEF AgentStep

----------------------------------------------------------------------------
(* Tool calls and approvals.                                                  *)

Tables ==
    /\ call \in [Runs -> [Tools -> CallStatus]]
    /\ approvals \in [Runs -> [Tools -> Seq(ApprovalStatus)]]
    /\ overdue \subseteq Runs \X Tools \X Nat
    /\ grants \subseteq {Name[t] : t \in Tools}
    /\ actionToolsEnabled \in BOOLEAN

LEMMA RowsOf ==
    ASSUME Tables, NEW r \in Runs, NEW t \in Tools
    PROVE  /\ approvals[r][t] \in Seq(ApprovalStatus) /\ Len(approvals[r][t]) \in Nat
           /\ DOMAIN approvals[r][t] = 1 .. Len(approvals[r][t])
           /\ \A i \in DOMAIN approvals[r][t] : approvals[r][t][i] \in ApprovalStatus
           /\ call[r][t] \in CallStatus
<1>1. approvals[r][t] \in Seq(ApprovalStatus) /\ call[r][t] \in CallStatus  BY DEF Tables
<1> QED  BY <1>1, LenProperties, ElementOfSeq

LEMMA ToolsOfAreTools ==
    ASSUME NEW events \in Seq(EventType), NEW type
    PROVE  ToolsOf(events, type) \subseteq Tools
<1>1. \A i \in DOMAIN events : events[i] \in EventType  BY LenProperties, ElementOfSeq
<1>2. \A e \in OfType(events, type) : e.tools \subseteq Tools
  BY <1>1 DEF OfType, EventType
<1> QED  BY <1>2 DEF ToolsOf

LEMMA ToolSets ==
    ASSUME NEW r, NEW events \in Seq(EventType)
    PROVE  /\ Unanswered(events) \subseteq Tools /\ NeedsApproval(r, events) \subseteq Tools
           /\ AutoConfirm(events) \subseteq Tools /\ AutoDeny(r, events) \subseteq Tools
<1>1. Unanswered(events) \subseteq Tools  BY ToolsOfAreTools DEF Unanswered
<1> QED  BY <1>1 DEF NeedsApproval, AutoConfirm, AutoDeny, Presented

LEMMA ExpiryFits ==
    ASSUME Tables, NEW r \in Runs, NEW t \in Tools
    PROVE  /\ AfterExpiry(r, t) \in Seq(ApprovalStatus)
           /\ DOMAIN AfterExpiry(r, t) = DOMAIN approvals[r][t]
           /\ Len(AfterExpiry(r, t)) = Len(approvals[r][t])
           /\ \A i \in DOMAIN approvals[r][t] : AfterExpiry(r, t)[i] =
                 IF Overdue(r, t, i) THEN "expired" ELSE approvals[r][t][i]
<1> DEFINE n == Len(approvals[r][t])
           e(i) == IF Overdue(r, t, i) THEN "expired" ELSE approvals[r][t][i]
<1>1. n \in Nat /\ DOMAIN approvals[r][t] = 1 .. n  BY RowsOf
<1>2. \A i \in 1 .. n : e(i) \in ApprovalStatus  BY <1>1, RowsOf DEF ApprovalStatus
<1>3. AfterExpiry(r, t) = [i \in 1 .. n |-> e(i)]  BY <1>1 DEF AfterExpiry
<1> HIDE DEF n, e
<1>4. [i \in 1 .. n |-> e(i)] \in Seq(ApprovalStatus)  BY <1>1, <1>2, IsASeq
<1>5. Len(AfterExpiry(r, t)) = n  BY <1>1, <1>3, <1>4, LenProperties
<1>6. \A i \in 1 .. n : AfterExpiry(r, t)[i] = e(i)  BY <1>3
<1> QED  BY <1>1, <1>3, <1>4, <1>5, <1>6 DEF n, e

\* A reconciliation keeps every row, at most adds a pending one, and changes
\* pending rows only.
LEMMA ApprovalsFit ==
    ASSUME Tables, NEW r \in Runs, NEW t \in Tools, NEW events
    PROVE  /\ ApprovalsAfter(r, t, events) \in Seq(ApprovalStatus)
           /\ \A i \in DOMAIN approvals[r][t] :
                 /\ i \in DOMAIN ApprovalsAfter(r, t, events)
                 /\ Overdue(r, t, i) => ApprovalsAfter(r, t, events)[i] = "expired"
                 /\ approvals[r][t][i] # "pending" =>
                       ApprovalsAfter(r, t, events)[i] = approvals[r][t][i]
<1> DEFINE before == AfterExpiry(r, t)
           rows == IF t \in NeedsApproval(r, events) THEN Append(before, "pending") ELSE before
           e(i) == IF rows[i] = "pending" THEN "denied" ELSE rows[i]
           n == Len(rows)
<1>1. /\ before \in Seq(ApprovalStatus) /\ DOMAIN before = DOMAIN approvals[r][t]
      /\ DOMAIN before = 1 .. Len(before) /\ Len(before) \in Nat
      /\ \A i \in DOMAIN approvals[r][t] : before[i] =
            IF Overdue(r, t, i) THEN "expired" ELSE approvals[r][t][i]
  BY ExpiryFits, LenProperties
<1> HIDE DEF before
<1>2. "pending" \in ApprovalStatus  BY DEF ApprovalStatus
<1>3. rows \in Seq(ApprovalStatus) /\ \A i \in DOMAIN before : i \in DOMAIN rows /\ rows[i] = before[i]
  BY <1>1, <1>2, AppendProperties
<1> HIDE DEF rows
<1>4. n \in Nat /\ DOMAIN rows = 1 .. n /\ \A i \in 1 .. n : rows[i] \in ApprovalStatus
  BY <1>3, LenProperties, ElementOfSeq
<1>5. \A i \in 1 .. n : e(i) \in ApprovalStatus  BY <1>4 DEF ApprovalStatus
<1> DEFINE denied == [i \in DOMAIN rows |-> IF rows[i] = "pending" THEN "denied" ELSE rows[i]]
<1>6. denied \in Seq(ApprovalStatus)  BY <1>4, <1>5, IsASeq
<1>7. ApprovalsAfter(r, t, events) = IF t \in AutoDeny(r, events) THEN denied ELSE rows
  BY DEF ApprovalsAfter, rows, before
<1>8. ApprovalsAfter(r, t, events) \in Seq(ApprovalStatus)  BY <1>3, <1>6, <1>7
<1>9. ASSUME NEW i \in DOMAIN approvals[r][t]
      PROVE  /\ i \in DOMAIN ApprovalsAfter(r, t, events)
             /\ Overdue(r, t, i) => ApprovalsAfter(r, t, events)[i] = "expired"
             /\ approvals[r][t][i] # "pending" =>
                   ApprovalsAfter(r, t, events)[i] = approvals[r][t][i]
  <2>1. i \in DOMAIN rows /\ rows[i] = IF Overdue(r, t, i) THEN "expired" ELSE approvals[r][t][i]
    BY <1>1, <1>3
  <2>2. i \in DOMAIN denied /\ denied[i] = IF rows[i] = "pending" THEN "denied" ELSE rows[i]
    BY <2>1
  <2> HIDE DEF denied
  <2>3. Overdue(r, t, i) => approvals[r][t][i] = "pending"  BY DEF Overdue
  <2> QED  BY <1>7, <2>1, <2>2, <2>3
<1> QED  BY <1>8, <1>9

LEMMA ReconcileFits ==
    ASSUME Tables, NEW r \in Runs, NEW events \in Seq(EventType), ReconcileTools(r, events),
           UNCHANGED <<overdue, grants, actionToolsEnabled>>
    PROVE  Tables'
<1>1. ASSUME NEW t \in Tools PROVE CallAfter(r, t, events) \in CallStatus
  BY RowsOf DEF CallAfter, CallBefore, CallStatus
<1>2. [t \in Tools |-> CallAfter(r, t, events)] \in [Tools -> CallStatus]  BY <1>1
<1>3. [t \in Tools |-> ApprovalsAfter(r, t, events)] \in [Tools -> Seq(ApprovalStatus)]
  BY ApprovalsFit
<1> QED  BY <1>2, <1>3 DEF ReconcileTools, Tables

LEMMA MarkFits ==
    ASSUME Tables, NEW r, NEW t, NEW i, NEW mark \in ApprovalStatus,
           NEW status \in CallStatus,
           approvals' = [approvals EXCEPT ![r][t][i] = mark],
           call' = [call EXCEPT ![r][t] = status],
           UNCHANGED <<overdue, grants, actionToolsEnabled>>
    PROVE  Tables'
<1> DEFINE rows == [approvals[r] EXCEPT ![t] = [approvals[r][t] EXCEPT ![i] = mark]]
<1>1. approvals' = [approvals EXCEPT ![r] = rows]  OBVIOUS
<1>2. ASSUME r \in Runs PROVE rows \in [Tools -> Seq(ApprovalStatus)]
  <2>1. ASSUME t \in Tools PROVE [approvals[r][t] EXCEPT ![i] = mark] \in Seq(ApprovalStatus)
    <3>1. CASE i \in DOMAIN approvals[r][t]  BY <1>2, <2>1, <3>1, RowsOf, ExceptSeq
    <3>2. CASE i \notin DOMAIN approvals[r][t]
      <4>1. [approvals[r][t] EXCEPT ![i] = mark] = approvals[r][t]
        BY <1>2, <2>1, <3>2, RowsOf
      <4> QED  BY <1>2, <2>1, <4>1, RowsOf
    <3> QED  BY <3>1, <3>2
  <2>2. approvals[r] \in [Tools -> Seq(ApprovalStatus)]  BY <1>2 DEF Tables
  <2> QED  BY <2>1, <2>2
<1> HIDE DEF rows
<1>3. approvals' \in [Runs -> [Tools -> Seq(ApprovalStatus)]]  BY <1>1, <1>2 DEF Tables
<1>4. call' \in [Runs -> [Tools -> CallStatus]]  BY DEF Tables
<1> QED  BY <1>3, <1>4 DEF Tables

LEMMA ClaimFits ==
    ASSUME Tables, NEW r, NEW t, NEW i, NEW decision \in {"approved", "denied"},
           ClaimDecision(r, t, i, decision),
           UNCHANGED <<overdue, grants, actionToolsEnabled>>
    PROVE  Tables'
<1>1. (IF decision = "approved" THEN "running" ELSE "denied") \in CallStatus  BY DEF CallStatus
<1>2. decision \in ApprovalStatus  BY DEF ApprovalStatus
<1> QED  BY <1>1, <1>2, MarkFits DEF ClaimDecision

LEMMA ReopenFits ==
    ASSUME Tables, NEW r, NEW t, NEW i, NEW from, Reopen(r, t, i, from),
           UNCHANGED <<overdue, grants, actionToolsEnabled>>
    PROVE  Tables'
<1>1. "pending" \in ApprovalStatus /\ "awaiting_approval" \in CallStatus
  BY DEF ApprovalStatus, CallStatus
<1>2. ASSUME approvals[r][t][i] = from PROVE Tables'
  <2>1. /\ approvals' = [approvals EXCEPT ![r][t][i] = "pending"]
        /\ call' = [call EXCEPT ![r][t] = "awaiting_approval"]
    BY <1>2 DEF Reopen
  <2> QED  BY <1>1, <2>1, MarkFits
<1>3. ASSUME approvals[r][t][i] # from PROVE Tables'
  <2>1. approvals' = approvals /\ call' = call  BY <1>3 DEF Reopen
  <2> QED  BY <2>1 DEF Tables
<1> QED  BY <1>2, <1>3

----------------------------------------------------------------------------
(* The rows of the runs and the requests.                                     *)

Status == Active \cup Terminal \cup {None}
BaseType == [session : Sessions \cup {None}, usage : Nat, output : Nat, events : Nat]
RunType == [status : Status, session : Sessions \cup {None}, known : BOOLEAN,
            base : BaseType, finalize : BOOLEAN, interrupt : BOOLEAN]
StartPc == {"idle", "open", "events", "extend", "record", "send", "confirm", "done"}
StartType == [pc : StartPc, base : BaseType, resume : BOOLEAN]
EffectsType == [finalize : BOOLEAN, interrupt : BOOLEAN, allow : SUBSET Tools,
                deny : SUBSET Tools, expired : SUBSET (Tools \X Nat)]
SyncPc == {"events", "session", "identify", "apply"}
WorkerPc == SyncPc \cup {"idle", "effects", "stop", "sync", "force"}
WorkerType ==
    [pc : WorkerPc, run : Runs \cup {None}, cancel : BOOLEAN, session : Sessions \cup {None},
     row : RunType, seen : Seq(EventType), status : {"absent", "idle", "running", None},
     usage : 0 .. MaxUsage, output : 0 .. MaxOutput, todo : EffectsType]
DeciderType ==
    [pc : {"idle", "tell", "reopen", "finish", "done"}, run : Runs \cup {None},
     tool : Tools \cup {None}, index : Nat, decision : {"approved", "denied", None},
     remember : BOOLEAN]

\* A request at work works on a run; a reconciliation read an active row of it
\* and knows its provider session.
Busy(me) == /\ me.pc # "idle" => me.run \in Runs
            /\ me.pc \in SyncPc => me.session \in Sessions /\ me.row.status \in Active
GoodWorker == {me \in WorkerType : Busy(me)}
GoodStart == {me \in StartType : me.pc = "events" => me.base.session \in Sessions}
GoodDecider == {me \in DeciderType :
    me.pc \in {"tell", "reopen", "finish"} =>
        me.run \in Runs /\ me.tool \in Tools /\ me.decision \in {"approved", "denied"}}

LostType == [interrupt : BOOLEAN, denials : SUBSET (Tools \X Nat)]

Rows == run \in [Runs -> RunType]
Links == /\ linked \in Sessions \cup {None}
         /\ lease \in [Runs -> Workers \cup {None}]
         /\ ledger = [r \in Runs |-> ledger[r]]
         /\ lost \in [Runs -> LostType]
         /\ consent \subseteq Tools
Starts == start \in [Runs -> GoodStart]
Syncs == worker \in [Workers -> GoodWorker]
Decisions == decider \in [Deciders -> GoodDecider]

Types == Agent /\ Tables /\ Rows /\ Links /\ Starts /\ Syncs /\ Decisions

\* What is left alone keeps its type.
LEMMA Stays ==
    ASSUME Types
    PROVE  /\ UNCHANGED session => Agent'
           /\ UNCHANGED toolTables => Tables'
           /\ UNCHANGED run => Rows'
           /\ UNCHANGED <<linked, lease, ledger, consent, lost>> => Links'
           /\ UNCHANGED start => Starts'
           /\ UNCHANGED worker => Syncs'
           /\ UNCHANGED decider => Decisions'
  BY DEF Types, Agent, Tables, toolTables, Rows, Links, Starts, Syncs, Decisions

LEMMA OperatedFits == ASSUME NEW T, Operated(T) PROVE Agent'
  BY DEF Operated, Agent

\* A session is None or one of the sessions.
LEMMA SessionOfIs ==
    ASSUME Types, NEW r \in Runs
    PROVE  SessionOf(r) \in Sessions \cup {None} /\ linked \in Sessions \cup {None}
  BY DEF Types, Rows, Links, RunType, SessionOf

LEMMA PutRun ==
    ASSUME Types, NEW r, NEW q, r \in Runs => q \in RunType, run' = [run EXCEPT ![r] = q]
    PROVE  Rows'
  BY DEF Types, Rows

LEMMA StatusFits ==
    ASSUME Types, NEW r, NEW status \in Status, run' = [run EXCEPT ![r].status = status]
    PROVE  Rows'
<1> DEFINE q == [run[r] EXCEPT !.status = status]
<1>1. r \in Runs => run[r] \in RunType  BY DEF Types, Rows
<1>2. r \in Runs => q \in RunType  BY <1>1 DEF RunType
<1>3. run' = [run EXCEPT ![r] = q]  OBVIOUS
<1> HIDE DEF q
<1> QED  BY <1>2, <1>3, PutRun

LEMMA PutStart ==
    ASSUME Types, NEW r, NEW q, r \in Runs => q \in GoodStart, start' = [start EXCEPT ![r] = q]
    PROVE  Starts'
  BY DEF Types, Starts

LEMMA StartPcFits ==
    ASSUME Types, NEW r, NEW pc \in StartPc \ {"events"}, start' = [start EXCEPT ![r].pc = pc]
    PROVE  Starts'
<1> DEFINE q == [start[r] EXCEPT !.pc = pc]
<1>1. r \in Runs => start[r] \in GoodStart  BY DEF Types, Starts
<1>2. r \in Runs => q \in GoodStart  BY <1>1 DEF GoodStart, StartType
<1>3. start' = [start EXCEPT ![r] = q]  OBVIOUS
<1> HIDE DEF q
<1> QED  BY <1>2, <1>3, PutStart

LEMMA BaseFits == NoBaseline \in BaseType /\ NoBaseline.session = None
  BY DEF NoBaseline, BaseType

LEMMA StartDone == NoStart \in GoodStart /\ [NoStart EXCEPT !.pc = "done"] \in GoodStart
<1>1. NoStart \in StartType /\ NoStart.pc = "idle"
  BY BaseFits DEF NoStart, StartType, StartPc
<1>2. [NoStart EXCEPT !.pc = "done"] \in StartType /\ [NoStart EXCEPT !.pc = "done"].pc = "done"
  BY <1>1 DEF StartType, StartPc
<1> QED  BY <1>1, <1>2 DEF GoodStart

LEMMA EndStartFits ==
    ASSUME Types, NEW r, start' = [start EXCEPT ![r] = [NoStart EXCEPT !.pc = "done"]]
    PROVE  Starts'
  BY StartDone, PutStart

LEMMA PutWorker ==
    ASSUME Types, NEW w, NEW q, w \in Workers => q \in GoodWorker,
           worker' = [worker EXCEPT ![w] = q]
    PROVE  Syncs'
  BY DEF Types, Syncs

LEMMA IdleFits == Idle \in GoodWorker /\ Idle.pc = "idle"
<1>1. NoRun \in RunType  BY BaseFits DEF NoRun, RunType, Status
<1>2. NoEffects \in EffectsType  BY DEF NoEffects, EffectsType
<1>3. <<>> \in Seq(EventType) /\ 0 \in 0 .. MaxUsage /\ 0 \in 0 .. MaxOutput
  BY BoundsAssumption
<1>4. Idle \in WorkerType  BY <1>1, <1>2, <1>3 DEF Idle, WorkerType, WorkerPc
<1> QED  BY <1>4 DEF Idle, GoodWorker, Busy, SyncPc

LEMMA LeaveFits ==
    ASSUME NEW me \in GoodWorker, me.pc # "idle"
    PROVE  Leave(me) \in GoodWorker /\ Leave(me).todo = NoEffects
                                    /\ Leave(me).pc \in {"idle", "force"}
<1> DEFINE q == [Idle EXCEPT !.pc = "force", !.run = me.run, !.cancel = TRUE]
<1>1. me.run \in Runs  BY DEF GoodWorker, Busy
<1>2. Idle \in WorkerType /\ Idle.todo = NoEffects  BY IdleFits DEF GoodWorker, Idle
<1>3. q \in WorkerType /\ q.pc = "force" /\ q.run = me.run /\ q.todo = NoEffects
  BY <1>1, <1>2 DEF WorkerType, WorkerPc
<1> HIDE DEF q
<1>4. q \in GoodWorker  BY <1>1, <1>3 DEF GoodWorker, Busy, SyncPc
<1>5. Leave(me) = IF me.cancel THEN q ELSE Idle  BY DEF Leave, q
<1> QED  BY <1>2, <1>3, <1>4, <1>5, IdleFits

LEMMA ContinueFits ==
    ASSUME NEW me \in GoodWorker, me.pc # "idle", NEW todo \in EffectsType
    PROVE  /\ Continue(me, todo) \in GoodWorker
           /\ Continue(me, todo).todo = todo
           /\ Continue(me, todo).pc \in {"idle", "force", "effects"}
           /\ Continue(me, todo).pc = "effects" => Continue(me, todo).run = me.run
           /\ todo # NoEffects => Continue(me, todo).run = me.run
<1> DEFINE q == [Idle EXCEPT !.pc = "effects", !.run = me.run, !.cancel = me.cancel,
                             !.session = me.session, !.todo = todo]
<1>1. me \in WorkerType /\ me.run \in Runs  BY DEF GoodWorker, Busy
<1>2. Idle \in WorkerType  BY IdleFits DEF GoodWorker
<1>3. me.cancel \in BOOLEAN  BY <1>1 DEF WorkerType
<1>4. me.session \in Sessions \cup {None}  BY <1>1 DEF WorkerType
<1>5. q \in WorkerType /\ q.pc = "effects" /\ q.run = me.run /\ q.todo = todo
  BY <1>1, <1>2, <1>3, <1>4 DEF WorkerType, WorkerPc
<1>6. Continue(me, todo) = IF todo = NoEffects THEN Leave(me) ELSE q  BY DEF Continue
<1> HIDE DEF q
<1>7. q \in GoodWorker  BY <1>1, <1>5 DEF GoodWorker, Busy, SyncPc
<1> QED  BY <1>5, <1>6, <1>7, LeaveFits

LEMMA PutDecider ==
    ASSUME Types, NEW d, NEW q, d \in Deciders => q \in GoodDecider,
           decider' = [decider EXCEPT ![d] = q]
    PROVE  Decisions'
  BY DEF Types, Decisions

LEMMA DecidedFits == NoDecision \in GoodDecider /\ [NoDecision EXCEPT !.pc = "done"] \in GoodDecider
<1>1. NoDecision \in DeciderType /\ NoDecision.pc = "idle"
  BY DEF NoDecision, DeciderType
<1>2. /\ [NoDecision EXCEPT !.pc = "done"] \in DeciderType
      /\ [NoDecision EXCEPT !.pc = "done"].pc = "done"
  BY <1>1 DEF DeciderType
<1> QED  BY <1>1, <1>2 DEF GoodDecider

LEMMA DeciderPcFits ==
    ASSUME Types, NEW d \in Deciders, NEW pc \in {"reopen", "finish"}, decider[d].pc = "tell",
           decider' = [decider EXCEPT ![d].pc = pc]
    PROVE  Decisions'
<1> DEFINE q == [decider[d] EXCEPT !.pc = pc]
<1>1. decider[d] \in GoodDecider  BY DEF Types, Decisions
<1>2. decider[d] \in DeciderType  BY <1>1 DEF GoodDecider
<1>3. /\ q \in DeciderType /\ q.run = decider[d].run /\ q.tool = decider[d].tool
      /\ q.decision = decider[d].decision
  BY <1>2 DEF DeciderType
<1>4. decider' = [decider EXCEPT ![d] = q]  OBVIOUS
<1> HIDE DEF q
<1>5. q \in GoodDecider  BY <1>1, <1>3 DEF GoodDecider
<1> QED  BY <1>4, <1>5, PutDecider

----------------------------------------------------------------------------
(* What every step keeps: the types, and the account takes a step of the      *)
(* metering service or none.                                                  *)

Pays == Metering!Next \/ UNCHANGED metering
Keeps == Types' /\ Pays

LEMMA NothingPaid == UNCHANGED billing => Pays /\ UNCHANGED ledger
  BY DEF billing, Pays

LEMMA BudgetIsQuantity == Budget \in Metering!Quantities /\ Budget \in Nat
  BY BudgetAssumption, BoundsAssumption DEF Metering!Quantities

LEMMA ReleasePays == ASSUME NEW r \in Runs, Release(r) PROVE Pays
  BY DEF Release, Pays, Metering!Next

LEMMA CreateKeeps == ASSUME Types, NEW r \in Runs, CreateRun(r) PROVE Keeps
<1> DEFINE q == [start[r] EXCEPT !.pc = "open", !.base.session = linked]
<1>1. start[r] \in StartType  BY DEF Types, Starts, GoodStart
<1>2. linked \in Sessions \cup {None}  BY SessionOfIs
<1>3. [start[r].base EXCEPT !.session = linked] \in BaseType
  BY <1>1, <1>2 DEF StartType, BaseType
<1>4. q \in StartType /\ q.pc = "open"
  BY <1>1, <1>3 DEF StartType, StartPc
<1>5. q \in GoodStart  BY <1>4 DEF GoodStart
<1>6. start' = [start EXCEPT ![r] = q]  BY DEF CreateRun
<1> HIDE DEF q
<1>7. Starts'  BY <1>5, <1>6, PutStart
<1>8. "created" \in Status /\ run' = [run EXCEPT ![r].status = "created"]
  BY DEF Status, Active, CreateRun
<1>9. Rows'  BY <1>8, StatusFits
<1>10. Pays
  <2>1. Metering!ReserveUsage(r, Budget)  BY DEF CreateRun
  <2> QED  BY <2>1, BudgetIsQuantity DEF Pays, Metering!Next
<1>11. /\ UNCHANGED session /\ UNCHANGED toolTables /\ UNCHANGED worker /\ UNCHANGED decider
       /\ UNCHANGED <<linked, lease, ledger, consent, lost>>
  BY DEF CreateRun
<1> QED  BY <1>7, <1>9, <1>10, <1>11, Stays DEF Types, Keeps

\* What most steps of a start request leave alone.
LEMMA StartStays ==
    ASSUME Types, StartUnchanged
    PROVE  /\ Tables' /\ Syncs' /\ Decisions' /\ Pays
           /\ UNCHANGED linked => Links'
           /\ linked' \in Sessions \cup {None} => Links'
<1>1. /\ UNCHANGED toolTables /\ UNCHANGED worker /\ UNCHANGED decider
      /\ UNCHANGED <<lease, consent, lost>> /\ UNCHANGED billing
  BY DEF StartUnchanged
<1>2. UNCHANGED ledger /\ Pays  BY <1>1, NothingPaid
<1>3. UNCHANGED linked => Links'  BY <1>1, <1>2, Stays
<1>4. linked' \in Sessions \cup {None} => Links'  BY <1>1, <1>2 DEF Types, Links
<1> QED  BY <1>1, <1>2, <1>3, <1>4, Stays

LEMMA StartKeeps ==
    ASSUME Types, NEW r \in Runs, StartStep(r) \/ CrashStart(r)
    PROVE  Keeps
<1>0. /\ start[r] \in GoodStart /\ start[r] \in StartType /\ start[r].base \in BaseType
      /\ start \in [Runs -> GoodStart] /\ run[r] \in RunType /\ run \in [Runs -> RunType]
  BY DEF Types, Starts, Rows, GoodStart, StartType
<1>1. CASE ReadBaseline(r)
  <2> DEFINE s == start[r].base.session
             b == [start[r].base EXCEPT !.usage = session[s].usage, !.output = session[s].output]
             q == [start[r] EXCEPT !.pc = "events", !.base = b]
  <2>1. s \in Sessions  BY <1>0, <1>1 DEF ReadBaseline, BaseType
  <2>3. session[s].usage \in Nat /\ session[s].output \in Nat
    BY <2>1, SessionFacts DEF Types
  <2>4. b \in BaseType /\ b.session = s  BY <1>0, <2>3 DEF BaseType
  <2>5. start' = [start EXCEPT ![r] = q]  BY <1>0, <1>1 DEF ReadBaseline, StartType, BaseType
  <2> HIDE DEF b
  <2>6. q \in StartType /\ q.base.session \in Sessions
    BY <1>0, <2>1, <2>4 DEF StartType, StartPc
  <2>7. q \in GoodStart  BY <2>6 DEF GoodStart
  <2> HIDE DEF q
  <2>8. Starts'  BY <2>5, <2>7, PutStart
  <2>9. UNCHANGED session /\ UNCHANGED run /\ UNCHANGED linked /\ StartUnchanged
    BY <1>1 DEF ReadBaseline
  <2> QED  BY <2>8, <2>9, StartStays, Stays DEF Types, Keeps
<1>2. CASE ReadBaselineEvents(r)
  <2> DEFINE events == session[start[r].base.session].events
             b == [start[r].base EXCEPT !.events = Len(events)]
             q == [start[r] EXCEPT !.pc = "extend", !.base = b, !.resume = PausedAtBudget(events)]
  <2>1. start[r].base.session \in Sessions  BY <1>0, <1>2 DEF ReadBaselineEvents, GoodStart
  <2>3. Len(events) \in Nat  BY <2>1, SessionFacts DEF Types
  <2>4. PausedAtBudget(events) \in BOOLEAN  BY DEF PausedAtBudget
  <2>5. b \in BaseType  BY <1>0, <2>3 DEF BaseType
  <2>6. start' = [start EXCEPT ![r] = q]
    BY <1>0, <1>2 DEF ReadBaselineEvents, StartType, BaseType
  <2> HIDE DEF b, events
  <2>7. q \in StartType /\ q.pc = "extend"
    BY <1>0, <2>4, <2>5 DEF StartType, StartPc
  <2>8. q \in GoodStart  BY <2>7 DEF GoodStart
  <2> HIDE DEF q
  <2>9. Starts'  BY <2>6, <2>8, PutStart
  <2>10. UNCHANGED session /\ UNCHANGED run /\ UNCHANGED linked /\ StartUnchanged
    BY <1>2 DEF ReadBaselineEvents
  <2> QED  BY <2>9, <2>10, StartStays, Stays DEF Types, Keeps
<1>3. CASE ExtendProviderBudget(r)
  <2>1. start[r].base.usage + Budget \in Nat  BY <1>0, BudgetIsQuantity DEF BaseType
  <2>2. Agent'  BY <1>3, <2>1, ExtendOperates, OperatedFits
     DEF ExtendProviderBudget, ExtendForRun, Types
  <2>3. "record" \in StartPc \ {"events"}  BY DEF StartPc
  <2>4. Starts'  BY <1>3, <2>3, StartPcFits DEF ExtendProviderBudget
  <2>5. UNCHANGED run /\ UNCHANGED linked /\ StartUnchanged  BY <1>3 DEF ExtendProviderBudget
  <2> QED  BY <2>2, <2>4, <2>5, StartStays, Stays DEF Types, Keeps
<1>4. ASSUME NEW s \in Sessions, OpenSession(r, s) PROVE Keeps
  <2> DEFINE b == [NoBaseline EXCEPT !.session = s]
             q == [start[r] EXCEPT !.pc = "record", !.base = b]
  <2>1. Agent'
    BY <1>4, BudgetIsQuantity, CreateOperates, OperatedFits DEF OpenSession, Types
  <2>2. b \in BaseType  BY BaseFits DEF BaseType
  <2>3. start' = [start EXCEPT ![r] = q]  BY <1>0, <1>4 DEF OpenSession
  <2> HIDE DEF b
  <2>4. q \in StartType /\ q.pc = "record"  BY <1>0, <2>2 DEF StartType, StartPc
  <2>5. q \in GoodStart  BY <2>4 DEF GoodStart
  <2> HIDE DEF q
  <2>6. Starts'  BY <2>3, <2>5, PutStart
  <2>7. UNCHANGED run /\ UNCHANGED linked /\ StartUnchanged  BY <1>4 DEF OpenSession
  <2> QED  BY <2>1, <2>6, <2>7, StartStays, Stays DEF Types, Keeps
<1>5. CASE RecordSession(r)
  <2> DEFINE q == [run[r] EXCEPT !.session = start[r].base.session, !.known = TRUE,
                                 !.base = start[r].base]
  <2>1. q \in RunType  BY <1>0 DEF RunType, BaseType
  <2>2. run' = [run EXCEPT ![r] = q]  BY <1>0, <1>5 DEF RecordSession, RunType
  <2> HIDE DEF q
  <2>3. Rows'  BY <2>1, <2>2, PutRun
  <2>4. linked' \in Sessions \cup {None}  BY <1>0, <1>5 DEF RecordSession, BaseType
  <2>5. "send" \in StartPc \ {"events"}  BY DEF StartPc
  <2>6. Starts'  BY <1>5, <2>5, StartPcFits DEF RecordSession
  <2>7. UNCHANGED session /\ StartUnchanged  BY <1>5 DEF RecordSession
  <2> QED  BY <2>3, <2>4, <2>6, <2>7, StartStays, Stays DEF Types, Keeps
<1>6. CASE SendFirstInstruction(r)
  <2>1. Agent'
    <3>1. SendInstruction(start[r].base.session) \/ UNCHANGED session
      BY <1>6 DEF SendFirstInstruction, Instruct
    <3> QED  BY <3>1, InstructOperates, OperatedFits, Stays DEF Types
  <2>2. "confirm" \in StartPc \ {"events"}  BY DEF StartPc
  <2>3. Starts'  BY <1>6, <2>2, StartPcFits DEF SendFirstInstruction
  <2>4. UNCHANGED run /\ UNCHANGED linked /\ StartUnchanged  BY <1>6 DEF SendFirstInstruction
  <2> QED  BY <2>1, <2>3, <2>4, StartStays, Stays DEF Types, Keeps
<1>7. CASE ConfirmStart(r)
  <2> DEFINE q == [run[r] EXCEPT !.status = "running", !.session = start[r].base.session,
                                 !.base = start[r].base]
  <2>1. q \in RunType  BY <1>0 DEF RunType, BaseType, Status, Active
  <2>2. run' = [run EXCEPT ![r] = q]  BY <1>0, <1>7 DEF ConfirmStart, RunType
  <2> HIDE DEF q
  <2>3. Rows'  BY <2>1, <2>2, PutRun
  <2>4. linked' \in Sessions \cup {None}  BY <1>0, <1>7 DEF ConfirmStart, BaseType
  <2>5. Starts'  BY <1>7, EndStartFits DEF ConfirmStart
  <2>6. UNCHANGED session /\ StartUnchanged  BY <1>7 DEF ConfirmStart
  <2> QED  BY <2>3, <2>4, <2>5, <2>6, StartStays, Stays DEF Types, Keeps
<1>8. CASE CrashStart(r)
  <2>1. Starts'  BY <1>8, EndStartFits DEF CrashStart
  <2>2. UNCHANGED session /\ UNCHANGED run /\ UNCHANGED linked /\ StartUnchanged
    BY <1>8 DEF CrashStart
  <2> QED  BY <2>1, <2>2, StartStays, Stays DEF Types, Keeps
<1> QED  BY <1>1, <1>2, <1>3, <1>4, <1>5, <1>6, <1>7, <1>8 DEF StartStep

LEMMA FailKeeps == ASSUME Types, NEW r \in Runs, FailStart(r) PROVE Keeps
<1>1. Agent'
  <2>1. \/ SendInstruction(start[r].base.session) \/ UNCHANGED session
        \/ ExtendForRun(r) \/ \E s \in Sessions : CreateSession(s, Budget)
    BY DEF FailStart, Instruct
  <2>2. start[r].base.usage + Budget \in Nat
    <3>1. start[r].base \in BaseType  BY DEF Types, Starts, GoodStart, StartType
    <3> QED  BY <3>1, BudgetIsQuantity DEF BaseType
  <2>3. ExtendForRun(r) => Agent'
    BY <2>2, ExtendOperates, OperatedFits DEF ExtendForRun, Types
  <2>4. (\E s \in Sessions : CreateSession(s, Budget)) => Agent'
    BY BudgetIsQuantity, CreateOperates, OperatedFits DEF Types
  <2> QED  BY <2>1, <2>3, <2>4, InstructOperates, OperatedFits, Stays DEF Types
<1>2. Starts'  BY EndStartFits DEF FailStart
<1>3. Rows' /\ Pays
  <2>1. CASE CanRelease(r)
    <3>1. run' = [run EXCEPT ![r].status = "failed"] /\ Release(r)  BY <2>1 DEF FailStart
    <3>2. "failed" \in Status  BY DEF Status, Terminal
    <3> QED  BY <3>1, <3>2, StatusFits, ReleasePays
  <2>2. CASE ~CanRelease(r)
    <3>1. UNCHANGED run /\ UNCHANGED metering  BY <2>2 DEF FailStart
    <3> QED  BY <3>1, Stays DEF Pays
  <2> QED  BY <2>1, <2>2
<1>4. /\ UNCHANGED toolTables /\ UNCHANGED worker /\ UNCHANGED decider
      /\ UNCHANGED <<linked, lease, ledger, consent, lost>>
  BY DEF FailStart
<1> QED  BY <1>1, <1>2, <1>3, <1>4, Stays DEF Types, Keeps

----------------------------------------------------------------------------
(* Reconciliations.                                                           *)

\* What the theorems of metering assume of its constants.
LEMMA MeteringFacts ==
    Proved!IsFiniteSet(Runs) /\ Limits \subseteq Nat /\ Limits # {} /\ MaxUsage \in Nat
  BY MeteringAssumption, BoundsAssumption DEF IsFiniteSet, Proved!IsFiniteSet

LEMMA NewestIs ==
    ASSUME NEW n \in Nat, NEW I \in SUBSET (1 .. n)
    PROVE  /\ I # {} => Newest(I) \in I
           /\ I = {} => Newest(I) = 0
           /\ Newest(I) \in Nat
<1>1. ASSUME I # {} PROVE \E i \in I : \A j \in I : j <= i
  <2> DEFINE U == {m \in Nat : \A j \in I : j <= m}
  <2>1. n \in U  OBVIOUS
  <2>2. PICK m \in U : \A k \in U : ~(k < m)
    <3>1. U \in SUBSET Nat /\ U # {}  BY <2>1
    <3> HIDE DEF U
    <3> QED  BY <3>1, MeteringFacts, Proved!LeastNumber
  <2>3. m \in I
    <3>1. SUFFICES ASSUME m \notin I PROVE FALSE  OBVIOUS
    <3>2. \A j \in I : j <= m /\ j # m /\ j >= 1 /\ j \in Nat  BY <3>1
    <3>5. m \in Nat  BY <2>2
    <3>6. PICK j \in I : TRUE  BY <1>1
    <3>3. m - 1 \in Nat  BY <3>2, <3>5, <3>6
    <3>4. m - 1 \in U  BY <3>2, <3>3
    <3> QED  BY <2>2, <3>3, <3>4
  <2> QED  BY <2>3
<1>2. I # {} => Newest(I) \in I  BY <1>1 DEF Newest
<1>3. I = {} => Newest(I) = 0  BY DEF Newest
<1>4. Newest(I) \in Nat
  <2>1. CASE I = {}
    <3>1. Newest(I) = 0  BY <1>3, <2>1
    <3> QED  BY <3>1
  <2>2. CASE I # {}
    <3>1. Newest(I) \in I  BY <1>2, <2>2
    <3>2. \A x \in I : x \in Nat  OBVIOUS
    <3> QED  BY <3>1, <3>2
  <2> QED  BY <2>1, <2>2
<1> QED  BY <1>2, <1>3, <1>4

LEMMA UsedFits ==
    ASSUME NEW me \in WorkerType
    PROVE  /\ Used(me) \in Nat /\ Used(me) <= MaxUsage
           /\ Used(me) # 0 => Used(me) \in Metering!Quantities
<1>1. me.usage \in 0 .. MaxUsage /\ me.row \in RunType  BY DEF WorkerType
<1>2. me.row.base \in BaseType  BY <1>1 DEF RunType
<1>3. me.row.base.usage \in Nat  BY <1>2 DEF BaseType
<1>4. Used(me) \in Nat /\ Used(me) <= MaxUsage
  BY <1>1, <1>3, BoundsAssumption DEF Used, Metering!Larger
<1> QED  BY <1>4, BoundsAssumption DEF Metering!Quantities

\* A reconciliation leaves a run active or ends it.
LEMMA NextStatusFits ==
    ASSUME NEW me \in GoodWorker, me.pc \in SyncPc
    PROVE  NextStatus(me) \in Active \cup Terminal
<1>1. me.seen \in Seq(EventType) /\ me.row.status \in Active
  BY DEF GoodWorker, WorkerType, Busy
<1>2. /\ Len(me.seen) \in Nat /\ DOMAIN me.seen = 1 .. Len(me.seen)
      /\ Ends(me) \in SUBSET (1 .. Len(me.seen)) /\ Asks(me) \in SUBSET (1 .. Len(me.seen))
  BY <1>1, LenProperties DEF Ends, Asks
<1>3. ASSUME Newest(Ends(me)) > Newest(Asks(me))
      PROVE  me.seen[Newest(Ends(me))].type \in TerminalEvents
  <2>3. Newest(Asks(me)) \in Nat  BY <1>2, NewestIs
  <2>4. Ends(me) = {} => Newest(Ends(me)) = 0  BY <1>2, NewestIs
  <2>1. Ends(me) # {}  BY <1>3, <2>3, <2>4
  <2>2. Newest(Ends(me)) \in Ends(me)  BY <1>2, <2>1, NewestIs
  <2> QED  BY <2>2 DEF Ends
<1>4. LoopOutcome(me) \in Terminal \cup {None}
  BY <1>3 DEF LoopOutcome, TerminalEvents, Terminal
<1>5. Outcome(me) \in Terminal \cup {None}
  BY <1>4 DEF Outcome, Terminal
<1> QED  BY <1>1, <1>5 DEF NextStatus, Active

LEMMA EffectsFit ==
    ASSUME Types, NEW me \in GoodWorker, me.pc \in SyncPc
    PROVE  Effects(me) \in EffectsType
<1>1. me.seen \in Seq(EventType) /\ me.run \in Runs
  BY DEF GoodWorker, WorkerType, Busy, SyncPc
<1>2. AutoConfirm(me.seen) \in SUBSET Tools /\ AutoDeny(me.run, me.seen) \in SUBSET Tools
  BY <1>1, ToolSets
<1>3. Expired(me.run) \in SUBSET (Tools \X Nat)
  <2>1. \A t \in Tools : DOMAIN approvals[me.run][t] \subseteq Nat  BY <1>1, RowsOf DEF Types
  <2> QED  BY <2>1 DEF Expired
<1>4. AsksToFinalize(me) \in BOOLEAN /\ Interrupts(me) \in BOOLEAN
  BY DEF AsksToFinalize, Interrupts
<1> QED  BY <1>2, <1>3, <1>4 DEF Effects, EffectsType

LEMMA SettlePays ==
    ASSUME Types, NEW r \in Runs, NEW me \in WorkerType, Settle(r, Used(me))
    PROVE  Pays /\ ledger' = [x \in Runs |-> ledger'[x]]
<1> DEFINE u == Used(me)
<1>0. u \in Nat /\ (u # 0 => u \in Metering!Quantities)  BY UsedFits
<1>1. ledger = [x \in Runs |-> ledger[x]]  BY DEF Types, Links
<1> HIDE DEF u
<1>2. Settle(r, u)  BY DEF u
<1>3. CASE u = 0
  <2>1. Release(r) /\ UNCHANGED ledger  BY <1>2, <1>3 DEF Settle
  <2> QED  BY <1>1, <2>1, ReleasePays
<1>4. CASE u # 0 /\ state[r] = "settled"
  <2>1. UNCHANGED billing  BY <1>2, <1>4 DEF Settle
  <2> QED  BY <1>1, <2>1, NothingPaid
<1>5. CASE u # 0 /\ state[r] # "settled"
  <2>1. Metering!SettleUsage(r, u, limit) /\ ledger' = [ledger EXCEPT ![r] = Entry(r, u)]
    BY <1>2, <1>5 DEF Settle
  <2>2. Metering!Next  BY <1>0, <1>5, <2>1 DEF Metering!Next
  <2> QED  BY <1>0, <1>1, <2>1, <2>2 DEF Pays
<1> QED  BY <1>3, <1>4, <1>5

LEMMA UnlockFits ==
    ASSUME Types, NEW w \in Workers, Unlock(w)
    PROVE  lease' \in [Runs -> Workers \cup {None}]
<1>1. lease \in [Runs -> Workers \cup {None}]  BY DEF Types, Links
<1> QED  BY <1>1 DEF Unlock

LEMMA SyncStays ==
    ASSUME Types, SyncUnchanged
    PROVE  /\ Agent' /\ Starts' /\ Decisions'
           /\ UNCHANGED <<lease, billing>> => Links' /\ Pays
           /\ /\ lease' \in [Runs -> Workers \cup {None}]
              /\ ledger' = [x \in Runs |-> ledger'[x]]
              => Links'
<1>1. /\ UNCHANGED session /\ UNCHANGED start /\ UNCHANGED decider
      /\ UNCHANGED linked /\ UNCHANGED consent /\ UNCHANGED lost
  BY DEF SyncUnchanged
<1>2. UNCHANGED <<lease, billing>> => Links' /\ Pays  BY <1>1, NothingPaid, Stays
<1>3. lease' \in [Runs -> Workers \cup {None}] /\ ledger' = [x \in Runs |-> ledger'[x]] => Links'
  BY <1>1 DEF Types, Links
<1> QED  BY <1>1, <1>2, <1>3, Stays

LEMMA SyncKeeps ==
    ASSUME Types, NEW w \in Workers,
           \/ \E r \in Runs : StartSync(w, r)
           \/ ReadEvents(w) \/ ReadSession(w) \/ Identify(w) \/ FailSync(w) \/ CrashWorker(w)
    PROVE  Keeps
<1>0. /\ worker[w] \in GoodWorker /\ worker[w] \in WorkerType /\ Busy(worker[w])
      /\ worker \in [Workers -> GoodWorker] /\ run \in [Runs -> RunType]
  BY DEF Types, Syncs, Rows, GoodWorker
<1>1. ASSUME NEW r \in Runs, StartSync(w, r) PROVE Keeps
  <2> DEFINE q == [Idle EXCEPT !.pc = "events", !.run = r, !.cancel = worker[w].cancel,
                               !.session = SessionOf(r), !.row = run[r]]
  <2>1. Idle \in WorkerType  BY IdleFits DEF GoodWorker
  <2>2. run[r] \in RunType /\ run[r].status \in Active  BY <1>0, <1>1 DEF StartSync
  <2>3. SessionOf(r) \in Sessions  BY <1>1, SessionOfIs DEF StartSync
  <2>4. worker[w].cancel \in BOOLEAN  BY <1>0 DEF WorkerType
  <2>5. worker' = [worker EXCEPT ![w] = q]  BY <1>1 DEF StartSync
  <2>6. /\ q \in WorkerType /\ q.run = r /\ q.session = SessionOf(r) /\ q.row = run[r]
    BY <2>1, <2>2, <2>3, <2>4 DEF WorkerType, WorkerPc, SyncPc
  <2>7. q \in GoodWorker  BY <2>2, <2>3, <2>6 DEF GoodWorker, Busy
  <2> HIDE DEF q
  <2>8. Syncs'  BY <2>5, <2>7, PutWorker
  <2>9. lease' \in [Runs -> Workers \cup {None}]  BY <1>1 DEF StartSync, Types, Links
  <2>10. UNCHANGED toolTables /\ UNCHANGED run /\ UNCHANGED billing /\ SyncUnchanged
    BY <1>1 DEF StartSync
  <2>11. ledger' = [x \in Runs |-> ledger'[x]] /\ Pays  BY <2>10, NothingPaid DEF Types, Links
  <2> QED  BY <2>8, <2>9, <2>10, <2>11, SyncStays, Stays DEF Types, Keeps
<1>2. CASE ReadEvents(w)
  <2> DEFINE seen == NewEvents(worker[w].row, worker[w].session)
             q == [worker[w] EXCEPT !.pc = "session", !.seen = seen]
  <2>1. worker[w].session \in Sessions /\ worker[w].row.status \in Active /\ worker[w].run \in Runs
    BY <1>0, <1>2 DEF ReadEvents, Busy, SyncPc
  <2>2. worker[w].row \in RunType  BY <1>0 DEF WorkerType
  <2>3. worker[w].row.base \in BaseType  BY <2>2 DEF RunType
  <2>4. worker[w].row.base.events \in Nat  BY <2>3 DEF BaseType
  <2>5. seen \in Seq(EventType)
    <3> DEFINE events == session[worker[w].session].events
               old == IF worker[w].row.base.session = worker[w].session
                      THEN worker[w].row.base.events ELSE 0
    <3>1. events \in Seq(EventType) /\ Len(events) \in Nat  BY <2>1, SessionFacts DEF Types
    <3>2. old \in Nat  BY <2>4
    <3>3. seen = SubSeq(events, old + 1, Len(events))  BY DEF NewEvents
    <3> HIDE DEF events, old, seen
    <3>4. SubSeq(events, old + 1, Len(events)) \in Seq(EventType)
      <4>1. CASE old + 1 \in 1 .. Len(events) + 1  BY <3>1, <3>2, <4>1, SubSeqProperties
      <4>2. CASE old + 1 > Len(events)  BY <3>1, <3>2, <4>2, SubSeqEmpty, EmptySeq
      <4> QED  BY <3>1, <3>2, <4>1, <4>2
    <3> QED  BY <3>3, <3>4
  <2>6. worker' = [worker EXCEPT ![w] = q]  BY <1>0, <1>2 DEF ReadEvents
  <2> HIDE DEF seen
  <2>7. /\ q \in WorkerType /\ q.run = worker[w].run /\ q.session = worker[w].session
        /\ q.row = worker[w].row
    BY <1>0, <2>5 DEF WorkerType, WorkerPc, SyncPc
  <2> HIDE DEF q
  <2>8. q \in GoodWorker  BY <2>1, <2>7 DEF GoodWorker, Busy
  <2>9. Syncs'  BY <2>6, <2>8, PutWorker
  <2>10. UNCHANGED toolTables /\ UNCHANGED run /\ UNCHANGED <<lease, billing>> /\ SyncUnchanged
    BY <1>2 DEF ReadEvents
  <2> QED  BY <2>9, <2>10, SyncStays, Stays DEF Types, Keeps
<1>3. CASE ReadSession(w)
  <2> DEFINE s == session[worker[w].session]
             pc == IF worker[w].row.known THEN "apply" ELSE "identify"
             q == [worker[w] EXCEPT !.pc = pc, !.status = s.status, !.usage = s.usage,
                                    !.output = s.output]
  <2>1. worker[w].session \in Sessions /\ worker[w].row.status \in Active /\ worker[w].run \in Runs
    BY <1>0, <1>3 DEF ReadSession, Busy, SyncPc
  <2>2. /\ s.status \in {"absent", "idle", "running", None} /\ s.usage \in 0 .. MaxUsage
        /\ s.output \in 0 .. MaxOutput
    BY <2>1, SessionFacts DEF Types
  <2>3. pc \in WorkerPc  BY DEF WorkerPc, SyncPc
  <2>4. worker' = [worker EXCEPT ![w] = q]  BY <1>0, <1>3 DEF ReadSession
  <2> HIDE DEF s, pc
  <2>5. /\ q \in WorkerType /\ q.run = worker[w].run /\ q.session = worker[w].session
        /\ q.row = worker[w].row
    BY <1>0, <2>2, <2>3 DEF WorkerType
  <2> HIDE DEF q
  <2>6. q \in GoodWorker  BY <2>1, <2>5 DEF GoodWorker, Busy
  <2>7. Syncs'  BY <2>4, <2>6, PutWorker
  <2>8. UNCHANGED toolTables /\ UNCHANGED run /\ UNCHANGED <<lease, billing>> /\ SyncUnchanged
    BY <1>3 DEF ReadSession
  <2> QED  BY <2>7, <2>8, SyncStays, Stays DEF Types, Keeps
<1>4. CASE Identify(w)
  <2> DEFINE row == [worker[w].row EXCEPT !.known = TRUE]
             q == [worker[w] EXCEPT !.pc = "apply", !.row = row]
             u == [run[worker[w].run] EXCEPT !.known = TRUE, !.base = worker[w].row.base]
  <2>1. worker[w].session \in Sessions /\ worker[w].row.status \in Active /\ worker[w].run \in Runs
    BY <1>0, <1>4 DEF Identify, Busy, SyncPc
  <2>2. worker[w].row \in RunType  BY <1>0 DEF WorkerType
  <2>3. worker[w].row.base \in BaseType  BY <2>2 DEF RunType
  <2>4. row \in RunType /\ row.status = worker[w].row.status  BY <2>2 DEF RunType
  <2>5. u \in RunType  BY <1>0, <2>1, <2>3 DEF RunType
  <2>6. run' = [run EXCEPT ![worker[w].run] = u]  BY <1>0, <1>4, <2>1 DEF Identify, RunType
  <2>7. worker' = [worker EXCEPT ![w] = q]
    BY <1>0, <1>4 DEF Identify, WorkerType
  <2> HIDE DEF row, u
  <2>8. /\ q \in WorkerType /\ q.run = worker[w].run /\ q.session = worker[w].session
        /\ q.row = row
    BY <1>0, <2>4 DEF WorkerType, WorkerPc, SyncPc
  <2> HIDE DEF q
  <2>9. q \in GoodWorker  BY <2>1, <2>4, <2>8 DEF GoodWorker, Busy
  <2>10. Syncs'  BY <2>7, <2>9, PutWorker
  <2>11. Rows'  BY <2>5, <2>6, PutRun
  <2>12. UNCHANGED toolTables /\ UNCHANGED <<lease, billing>> /\ SyncUnchanged
    BY <1>4 DEF Identify
  <2> QED  BY <2>10, <2>11, <2>12, SyncStays, Stays DEF Types, Keeps
<1>5. CASE FailSync(w)
  <2>1. worker[w].pc # "idle" /\ Unlock(w) /\ worker' = [worker EXCEPT ![w] = Leave(worker[w])]
    BY <1>5 DEF FailSync
  <2>2. Syncs'  BY <1>0, <2>1, LeaveFits, PutWorker
  <2>3. UNCHANGED toolTables /\ UNCHANGED run /\ UNCHANGED billing /\ SyncUnchanged
    BY <1>5 DEF FailSync
  <2>4. ledger' = [x \in Runs |-> ledger'[x]] /\ Pays  BY <2>3, NothingPaid DEF Types, Links
  <2> QED  BY <2>1, <2>2, <2>3, <2>4, UnlockFits, SyncStays, Stays DEF Types, Keeps
<1>6. CASE CrashWorker(w)
  <2>1. Syncs'  BY <1>6, IdleFits, PutWorker DEF CrashWorker
  <2>2. /\ UNCHANGED session /\ UNCHANGED toolTables /\ UNCHANGED run /\ UNCHANGED start
        /\ UNCHANGED decider /\ UNCHANGED <<linked, lease, consent>> /\ UNCHANGED billing
    BY <1>6 DEF CrashWorker
  <2> DEFINE q == worker[w].run
             t == worker[w].todo
             v == [lost[q] EXCEPT !.interrupt = @ \/ t.interrupt, !.denials = @ \cup t.expired]
  <2>3. q \in Runs /\ t \in EffectsType  BY <1>0, <1>6 DEF Busy, CrashWorker, WorkerType
  <2>4. lost \in [Runs -> LostType] /\ lost[q] \in LostType  BY <2>3 DEF Types, Links
  <2>5. v \in LostType
    <3>1. (lost[q].interrupt \/ t.interrupt) \in BOOLEAN  OBVIOUS
    <3>2. lost[q].denials \cup t.expired \in SUBSET (Tools \X Nat)
      BY <2>3, <2>4 DEF LostType, EffectsType
    <3> HIDE DEF q, t
    <3> QED  BY <2>4, <3>1, <3>2 DEF LostType
  <2>6. lost' = [lost EXCEPT ![q] = v]  BY <1>6, <2>3, <2>4 DEF CrashWorker, LostType
  <2> HIDE DEF v, q, t
  <2>7. lost' \in [Runs -> LostType]  BY <2>4, <2>5, <2>6
  <2>8. Pays /\ UNCHANGED ledger  BY <2>2, NothingPaid
  <2>9. Links'  BY <2>2, <2>7, <2>8 DEF Types, Links
  <2> QED  BY <2>1, <2>2, <2>8, <2>9, Stays DEF Types, Keeps
<1> QED  BY <1>1, <1>2, <1>3, <1>4, <1>5, <1>6

LEMMA ApplyKeeps == ASSUME Types, NEW w \in Workers, ApplyProgress(w) PROVE Keeps
<1> DEFINE me == worker[w]
           r == worker[w].run
<1>0. /\ me \in GoodWorker /\ me \in WorkerType /\ me.pc = "apply" /\ me.pc \in SyncPc
      /\ r \in Runs /\ run[r] \in RunType /\ run \in [Runs -> RunType]
      /\ me.seen \in Seq(EventType)
  BY DEF Types, Syncs, Rows, GoodWorker, WorkerType, Busy, ApplyProgress, SyncPc
<1>1. Tables'  BY <1>0, ReconcileFits DEF ApplyProgress, Types
<1>2. Pays /\ ledger' = [x \in Runs |-> ledger'[x]]
  <2>1. CASE Ending(me)
    <3>1. Settle(r, Used(me))  BY <2>1 DEF ApplyProgress
    <3> QED  BY <1>0, <3>1, SettlePays
  <2>2. CASE ~Ending(me)
    <3>1. UNCHANGED billing  BY <2>2 DEF ApplyProgress
    <3> QED  BY <3>1, NothingPaid DEF Types, Links
  <2> QED  BY <2>1, <2>2
<1>3. Rows'
  <2> DEFINE status == NextStatus(me)
             f == run[r].finalize \/ AsksToFinalize(me)
             i == run[r].interrupt \/ Interrupts(me)
             q == [run[r] EXCEPT !.status = status, !.finalize = f, !.interrupt = i]
  <2>1. status \in Status  BY <1>0, NextStatusFits DEF Status
  <2>2. f \in BOOLEAN /\ i \in BOOLEAN  OBVIOUS
  <2>3. run' = [run EXCEPT ![r] = q]  BY <1>0 DEF ApplyProgress, RunType
  <2> HIDE DEF status, f, i
  <2>4. q \in RunType  BY <1>0, <2>1, <2>2 DEF RunType
  <2> HIDE DEF q
  <2> QED  BY <2>3, <2>4, PutRun
<1>4. Syncs'
  <2>1. Effects(me) \in EffectsType  BY <1>0, EffectsFit
  <2>2. worker' = [worker EXCEPT ![w] = Continue(me, Effects(me))]  BY DEF ApplyProgress
  <2> QED  BY <1>0, <2>1, <2>2, ContinueFits, PutWorker
<1>5. Unlock(w) /\ SyncUnchanged  BY DEF ApplyProgress
<1> QED  BY <1>1, <1>2, <1>3, <1>4, <1>5, UnlockFits, SyncStays DEF Types, Keeps

\* The calls to the provider after the transaction.
LEMMA EffectsStay ==
    ASSUME Types, EffectsUnchanged
    PROVE  Links' /\ Starts' /\ Decisions' /\ Pays
<1>1. /\ UNCHANGED start /\ UNCHANGED decider /\ UNCHANGED linked /\ UNCHANGED consent
      /\ UNCHANGED lease /\ UNCHANGED billing /\ UNCHANGED lost
  BY DEF EffectsUnchanged
<1> QED  BY <1>1, NothingPaid, Stays

LEMMA TodoFits ==
    ASSUME NEW me \in GoodWorker
    PROVE  /\ me.todo \in EffectsType
           /\ [me.todo EXCEPT !.finalize = FALSE] \in EffectsType
           /\ [me.todo EXCEPT !.interrupt = FALSE, !.allow = {}, !.deny = {}] \in EffectsType
           /\ \A x : [me.todo EXCEPT !.expired = @ \ {x}] \in EffectsType
           /\ \A t : [me.todo EXCEPT !.allow = @ \ {t},
                         !.deny = IF t \in me.todo.allow THEN @ ELSE @ \ {t}] \in EffectsType
<1>1. me.todo \in EffectsType  BY DEF GoodWorker, WorkerType
<1> DEFINE todo == me.todo
<1> HIDE DEF todo
<1>2. todo \in EffectsType  BY <1>1 DEF todo
<1>3. [todo EXCEPT !.finalize = FALSE] \in EffectsType  BY <1>2 DEF EffectsType
<1>4. [todo EXCEPT !.interrupt = FALSE, !.allow = {}, !.deny = {}] \in EffectsType
  BY <1>2 DEF EffectsType
<1>5. ASSUME NEW x PROVE [todo EXCEPT !.expired = @ \ {x}] \in EffectsType
  BY <1>2 DEF EffectsType
<1>6. ASSUME NEW t
      PROVE  [todo EXCEPT !.allow = @ \ {t},
                 !.deny = IF t \in todo.allow THEN @ ELSE @ \ {t}] \in EffectsType
  BY <1>2 DEF EffectsType
<1> QED  BY <1>1, <1>3, <1>4, <1>5, <1>6 DEF todo

LEMMA EffectKeeps ==
    ASSUME Types, NEW w \in Workers,
           \/ SendFinalize(w) \/ SendInterruptRequest(w) \/ FailInterruptRequest(w)
           \/ \E t \in Tools : TellAutomatic(w, t)
           \/ \E x \in worker[w].todo.expired : TellExpired(w, x) \/ FailExpired(w, x)
    PROVE  Keeps
<1> DEFINE me == worker[w]
<1>0. /\ me \in GoodWorker /\ worker \in [Workers -> GoodWorker] /\ run \in [Runs -> RunType]
      /\ Agent
  BY DEF Types, Syncs, Rows
<1>1. CASE SendFinalize(w)
  <2>1. me.pc = "effects" /\ EffectsUnchanged /\ UNCHANGED toolTables  BY <1>1 DEF SendFinalize
  <2>2. SendInstruction(me.session) \/ UNCHANGED session  BY <1>1 DEF SendFinalize
  <2>3. Agent'  BY <1>0, <2>2, InstructOperates, OperatedFits, Stays
  <2>4. Rows'
    <3> DEFINE q == [run[me.run] EXCEPT !.finalize = FALSE]
    <3>1. UNCHANGED run \/ run' = [run EXCEPT ![me.run] = q]  BY <1>1 DEF SendFinalize
    <3>2. me.run \in Runs => run[me.run] \in RunType  BY <1>0
    <3>3. me.run \in Runs => q \in RunType  BY <3>2 DEF RunType
    <3> HIDE DEF q
    <3> QED  BY <3>1, <3>3, PutRun, Stays
  <2>5. Syncs'
    <3>1. worker' = [worker EXCEPT ![w] = Continue(me, [me.todo EXCEPT !.finalize = FALSE])]
      BY <1>1 DEF SendFinalize
    <3> QED  BY <1>0, <2>1, <3>1, TodoFits, ContinueFits, PutWorker
  <2> QED  BY <2>1, <2>3, <2>4, <2>5, EffectsStay, Stays DEF Types, Keeps
<1>2. CASE SendInterruptRequest(w)
  <2>1. /\ me.pc = "effects" /\ EffectsUnchanged /\ UNCHANGED toolTables /\ UNCHANGED run
        /\ SendInterrupt(me.session)
    BY <1>2 DEF SendInterruptRequest
  <2>2. Agent'  BY <1>0, <2>1, InterruptOperates, OperatedFits
  <2>3. Syncs'
    <3>1. worker' = [worker EXCEPT ![w] = Continue(me,
               [me.todo EXCEPT !.interrupt = FALSE, !.allow = {}, !.deny = {}])]
      BY <1>2 DEF SendInterruptRequest
    <3> QED  BY <1>0, <2>1, <3>1, TodoFits, ContinueFits, PutWorker
  <2> QED  BY <2>1, <2>2, <2>3, EffectsStay, Stays DEF Types, Keeps
<1>3. CASE FailInterruptRequest(w)
  <2>1. /\ me.pc = "effects" /\ EffectsUnchanged /\ UNCHANGED toolTables
        /\ SendInterrupt(me.session) \/ UNCHANGED session
    BY <1>3 DEF FailInterruptRequest
  <2>2. Agent'  BY <1>0, <2>1, InterruptOperates, OperatedFits, Stays
  <2>3. Rows'
    <3> DEFINE q == [run[me.run] EXCEPT !.interrupt = FALSE]
    <3>1. run' = [run EXCEPT ![me.run] = q]
      BY <1>3 DEF FailInterruptRequest, ClearInterrupt
    <3>2. me.run \in Runs => run[me.run] \in RunType  BY <1>0
    <3>3. me.run \in Runs => q \in RunType  BY <3>2 DEF RunType
    <3> HIDE DEF q
    <3> QED  BY <3>1, <3>3, PutRun
  <2>4. Syncs'
    <3>1. worker' = [worker EXCEPT ![w] = Leave(me)]  BY <1>3 DEF FailInterruptRequest
    <3> QED  BY <1>0, <2>1, <3>1, LeaveFits, PutWorker
  <2> QED  BY <2>1, <2>2, <2>3, <2>4, EffectsStay, Stays DEF Types, Keeps
<1>4. ASSUME NEW t \in Tools, TellAutomatic(w, t) PROVE Keeps
  <2>1. /\ me.pc = "effects" /\ EffectsUnchanged /\ UNCHANGED toolTables /\ UNCHANGED run
    BY <1>4 DEF TellAutomatic
  <2>2. \/ ConfirmTool(me.session, t, TRUE) \/ ConfirmTool(me.session, t, FALSE)
        \/ UNCHANGED session
    BY <1>4 DEF TellAutomatic, Tell
  <2>3. Agent'  BY <1>0, <2>2, ConfirmOperates, OperatedFits, Stays
  <2>4. Syncs'
    <3>1. worker' = [worker EXCEPT ![w] = Continue(me, [me.todo EXCEPT !.allow = @ \ {t},
                         !.deny = IF t \in me.todo.allow THEN @ ELSE @ \ {t}])]
      BY <1>4 DEF TellAutomatic
    <3> QED  BY <1>0, <2>1, <3>1, TodoFits, ContinueFits, PutWorker
  <2> QED  BY <2>1, <2>3, <2>4, EffectsStay, Stays DEF Types, Keeps
<1>5. ASSUME NEW x \in me.todo.expired, TellExpired(w, x) PROVE Keeps
  <2>1. /\ me.pc = "effects" /\ EffectsUnchanged /\ UNCHANGED toolTables /\ UNCHANGED run
        /\ ConfirmTool(me.session, x[1], FALSE) \/ UNCHANGED session
    BY <1>5 DEF TellExpired, TellsExpired
  <2>2. Agent'  BY <1>0, <2>1, ConfirmOperates, OperatedFits, Stays
  <2>3. Syncs'
    <3>1. worker' = [worker EXCEPT ![w] = Continue(me, [me.todo EXCEPT !.expired = @ \ {x}])]
      BY <1>5 DEF TellExpired
    <3> QED  BY <1>0, <2>1, <3>1, TodoFits, ContinueFits, PutWorker
  <2> QED  BY <2>1, <2>2, <2>3, EffectsStay, Stays DEF Types, Keeps
<1>6. ASSUME NEW x \in me.todo.expired, FailExpired(w, x) PROVE Keeps
  <2>1. /\ me.pc = "effects" /\ EffectsUnchanged
        /\ ConfirmTool(me.session, x[1], FALSE) \/ UNCHANGED session
        /\ Reopen(me.run, x[1], x[2], "expired")
        /\ UNCHANGED <<overdue, grants, actionToolsEnabled>>
    BY <1>6 DEF FailExpired, TellsExpired
  <2>2. Agent'  BY <1>0, <2>1, ConfirmOperates, OperatedFits, Stays
  <2>3. Tables'  BY <2>1, ReopenFits DEF Types
  <2>4. Rows'
    <3> DEFINE q == [run[me.run] EXCEPT !.status =
               IF approvals[me.run][x[1]][x[2]] = "expired" THEN "waiting_for_approval" ELSE @]
    <3>1. run' = [run EXCEPT ![me.run] = q]  BY <1>6 DEF FailExpired
    <3>2. me.run \in Runs => run[me.run] \in RunType  BY <1>0
    <3>3. me.run \in Runs => q \in RunType  BY <3>2 DEF RunType, Status, Active
    <3> HIDE DEF q
    <3> QED  BY <3>1, <3>3, PutRun
  <2>5. Syncs'
    <3>1. worker' = [worker EXCEPT ![w] = Continue(me, [me.todo EXCEPT !.expired = @ \ {x}])]
      BY <1>6 DEF FailExpired
    <3> QED  BY <1>0, <2>1, <3>1, TodoFits, ContinueFits, PutWorker
  <2> QED  BY <2>1, <2>2, <2>3, <2>4, <2>5, EffectsStay DEF Types, Keeps
<1> QED  BY <1>1, <1>2, <1>3, <1>4, <1>5, <1>6

----------------------------------------------------------------------------
(* Cancellations, decisions, time and the provider.                           *)

LEMMA CancelStays ==
    ASSUME Types, CancelUnchanged
    PROVE  Tables' /\ Links' /\ Starts' /\ Decisions'
<1>1. /\ UNCHANGED toolTables /\ UNCHANGED <<linked, lease, ledger, consent, lost>>
      /\ UNCHANGED start /\ UNCHANGED decider
  BY DEF CancelUnchanged
<1> QED  BY <1>1, Stays

LEMMA CancelKeeps == ASSUME Types, NEW w \in Workers, CancelStep(w) PROVE Keeps
<1> DEFINE me == worker[w]
<1>0. /\ me \in GoodWorker /\ me \in WorkerType /\ Busy(me)
      /\ worker \in [Workers -> GoodWorker] /\ run \in [Runs -> RunType] /\ Agent
  BY DEF Types, Syncs, Rows, GoodWorker
<1>1. ASSUME NEW r \in Runs, ReadForCancel(w, r) PROVE Keeps
  <2> DEFINE pc == IF SessionOf(r) = None THEN "sync" ELSE "stop"
             q == [Idle EXCEPT !.pc = pc, !.run = r, !.cancel = TRUE, !.session = SessionOf(r)]
  <2>1. Idle \in WorkerType  BY IdleFits DEF GoodWorker
  <2>2. SessionOf(r) \in Sessions \cup {None}  BY SessionOfIs
  <2>3. pc \in WorkerPc /\ pc \notin SyncPc  BY DEF WorkerPc, SyncPc
  <2>4. worker' = [worker EXCEPT ![w] = q]  BY <1>1 DEF ReadForCancel
  <2> HIDE DEF pc
  <2>5. q \in WorkerType /\ q.pc = pc /\ q.run = r  BY <2>1, <2>2, <2>3 DEF WorkerType
  <2> HIDE DEF q
  <2>6. q \in GoodWorker  BY <2>3, <2>5 DEF GoodWorker, Busy
  <2>7. Syncs'  BY <2>4, <2>6, PutWorker
  <2>8. UNCHANGED session /\ UNCHANGED run /\ UNCHANGED metering /\ CancelUnchanged
    BY <1>1 DEF ReadForCancel
  <2> QED  BY <2>7, <2>8, CancelStays, Stays DEF Types, Keeps, Pays
<1>2. CASE StopProvider(w)
  <2> DEFINE q == [me EXCEPT !.pc = "sync"]
  <2>1. /\ me.pc = "stop" /\ SendInterrupt(me.session) /\ UNCHANGED run /\ UNCHANGED metering
        /\ CancelUnchanged /\ worker' = [worker EXCEPT ![w] = q]
    BY <1>2 DEF StopProvider
  <2>2. me.run \in Runs  BY <1>0, <2>1 DEF Busy
  <2>3. q \in WorkerType /\ q.pc = "sync" /\ q.run = me.run
    BY <1>0 DEF WorkerType, WorkerPc
  <2> HIDE DEF q
  <2>4. q \in GoodWorker  BY <2>2, <2>3 DEF GoodWorker, Busy, SyncPc
  <2>5. Syncs'  BY <2>1, <2>4, PutWorker
  <2>6. Agent'  BY <1>0, <2>1, InterruptOperates, OperatedFits
  <2> QED  BY <2>1, <2>5, <2>6, CancelStays, Stays DEF Types, Keeps, Pays
<1>3. CASE FailStopProvider(w)
  <2>1. /\ SendInterrupt(me.session) \/ UNCHANGED session
        /\ UNCHANGED run /\ UNCHANGED metering
        /\ CancelUnchanged /\ worker' = [worker EXCEPT ![w] = Idle]
    BY <1>3 DEF FailStopProvider
  <2>2. Syncs'  BY <2>1, IdleFits, PutWorker
  <2>3. Agent'  BY <1>0, <2>1, InterruptOperates, OperatedFits, Stays
  <2> QED  BY <2>1, <2>2, <2>3, CancelStays, Stays DEF Types, Keeps, Pays
<1>4. CASE SkipSync(w)
  <2>1. /\ me.pc = "sync" /\ UNCHANGED session /\ UNCHANGED run /\ UNCHANGED metering
        /\ CancelUnchanged /\ worker' = [worker EXCEPT ![w] = Leave(me)]
    BY <1>4 DEF SkipSync
  <2>2. Syncs'  BY <1>0, <2>1, LeaveFits, PutWorker
  <2> QED  BY <2>1, <2>2, CancelStays, Stays DEF Types, Keeps, Pays
<1>5. CASE ForceCancel(w)
  <2>1. /\ me.pc = "force" /\ UNCHANGED session /\ CancelUnchanged
        /\ worker' = [worker EXCEPT ![w] = Idle]
    BY <1>5 DEF ForceCancel
  <2>2. Syncs'  BY <2>1, IdleFits, PutWorker
  <2>3. me.run \in Runs  BY <1>0, <2>1 DEF Busy
  <2>4. Rows' /\ Pays
    <3>1. CASE run[me.run].status # "cancelled"
      <4>1. run' = [run EXCEPT ![me.run].status = "cancelled"] /\ ReleaseIfOpen(me.run)
        BY <1>5, <3>1 DEF ForceCancel
      <4>2. "cancelled" \in Status  BY DEF Status, Terminal
      <4>3. Pays  BY <2>3, <4>1 DEF ReleaseIfOpen, Pays, Metering!Next
      <4> QED  BY <4>1, <4>2, <4>3, StatusFits
    <3>2. CASE run[me.run].status = "cancelled"
      <4>1. UNCHANGED run /\ UNCHANGED metering  BY <1>5, <3>2 DEF ForceCancel
      <4> QED  BY <4>1, Stays DEF Pays
    <3> QED  BY <3>1, <3>2
  <2> QED  BY <2>1, <2>2, <2>4, CancelStays, Stays DEF Types, Keeps
<1> QED  BY <1>1, <1>2, <1>3, <1>4, <1>5 DEF CancelStep

LEMMA DecideStays ==
    ASSUME Types, DecideUnchanged
    PROVE  /\ Starts' /\ Syncs' /\ Pays
           /\ consent' \subseteq Tools => Links'
<1>1. /\ UNCHANGED start /\ UNCHANGED worker /\ UNCHANGED linked /\ UNCHANGED lease
      /\ UNCHANGED billing /\ UNCHANGED lost
  BY DEF DecideUnchanged
<1>2. Pays /\ UNCHANGED ledger  BY <1>1, NothingPaid
<1>3. consent' \subseteq Tools => Links'  BY <1>1, <1>2 DEF Types, Links
<1> QED  BY <1>1, <1>2, <1>3, Stays

LEMMA DecideKeeps ==
    ASSUME Types, NEW d \in Deciders, DecideStep(d) \/ CrashDecider(d)
    PROVE  Keeps
<1> DEFINE me == decider[d]
<1>0. /\ me \in GoodDecider /\ decider \in [Deciders -> GoodDecider]
      /\ run \in [Runs -> RunType] /\ Agent /\ Tables /\ consent \subseteq Tools
      /\ grants \subseteq {Name[t] : t \in Tools}
  BY DEF Types, Decisions, Rows, Links, Tables
<1>1. ASSUME NEW r \in Runs, NEW t \in Tools, NEW i \in DOMAIN approvals[r][t],
             NEW decision \in {"approved", "denied"}, NEW remember \in BOOLEAN,
             Decide(d, r, t, i, decision, remember)
      PROVE  Keeps
  <2> DEFINE q == [pc |-> "tell", run |-> r, tool |-> t, index |-> i,
                   decision |-> decision, remember |-> remember]
  <2>1. i \in Nat  BY <1>0, RowsOf
  <2>2. q \in GoodDecider  BY <2>1 DEF GoodDecider, DeciderType
  <2>3. decider' = [decider EXCEPT ![d] = q]  BY <1>1 DEF Decide
  <2> HIDE DEF q
  <2>4. Decisions'  BY <2>2, <2>3, PutDecider
  <2>5. /\ ClaimDecision(r, t, i, decision) /\ UNCHANGED session /\ UNCHANGED run
        /\ UNCHANGED <<overdue, grants, actionToolsEnabled>> /\ DecideUnchanged
        /\ consent' \in {consent, consent \cup {t}}
    BY <1>1 DEF Decide
  <2>6. Tables'  BY <1>0, <2>5, ClaimFits
  <2>7. consent' \subseteq Tools  BY <1>0, <2>5
  <2> QED  BY <2>4, <2>5, <2>6, <2>7, DecideStays, Stays DEF Types, Keeps
<1>2. CASE TellDecision(d)
  <2>1. /\ me.pc = "tell" /\ decider' = [decider EXCEPT ![d].pc = "finish"]
        /\ UNCHANGED toolTables /\ UNCHANGED run /\ UNCHANGED consent /\ DecideUnchanged
    BY <1>2 DEF TellDecision
  <2>2. \/ ConfirmTool(SessionOf(me.run), me.tool, me.decision = "approved")
        \/ UNCHANGED session
    BY <1>2 DEF TellDecision
  <2>3. Agent'  BY <1>0, <2>2, ConfirmOperates, OperatedFits, Stays
  <2>4. Decisions'  BY <2>1, DeciderPcFits
  <2> QED  BY <1>0, <2>1, <2>3, <2>4, DecideStays, Stays DEF Types, Keeps
<1>3. CASE FailDecision(d)
  <2>1. /\ me.pc = "tell" /\ decider' = [decider EXCEPT ![d].pc = "reopen"]
        /\ UNCHANGED toolTables /\ UNCHANGED run /\ UNCHANGED consent /\ DecideUnchanged
    BY <1>3 DEF FailDecision
  <2>2. \/ ConfirmTool(SessionOf(me.run), me.tool, me.decision = "approved")
        \/ UNCHANGED session
    BY <1>3 DEF FailDecision
  <2>3. Agent'  BY <1>0, <2>2, ConfirmOperates, OperatedFits, Stays
  <2>4. Decisions'  BY <2>1, DeciderPcFits
  <2> QED  BY <1>0, <2>1, <2>3, <2>4, DecideStays, Stays DEF Types, Keeps
<1>4. CASE ReopenDecision(d)
  <2>1. /\ Reopen(me.run, me.tool, me.index, me.decision)
        /\ decider' = [decider EXCEPT ![d] = [NoDecision EXCEPT !.pc = "done"]]
        /\ UNCHANGED session /\ UNCHANGED <<overdue, grants, actionToolsEnabled>>
        /\ UNCHANGED run /\ UNCHANGED consent /\ DecideUnchanged
    BY <1>4 DEF ReopenDecision
  <2>2. Tables'  BY <1>0, <2>1, ReopenFits
  <2>3. Decisions'  BY <2>1, DecidedFits, PutDecider
  <2> QED  BY <1>0, <2>1, <2>2, <2>3, DecideStays, Stays DEF Types, Keeps
<1>5. CASE FinishDecision(d)
  <2> DEFINE status == IF PendingTools(me.run) # {} THEN "waiting_for_approval" ELSE "running"
  <2>1. /\ me.pc = "finish" /\ run' = [run EXCEPT ![me.run].status = status]
        /\ decider' = [decider EXCEPT ![d] = [NoDecision EXCEPT !.pc = "done"]]
        /\ UNCHANGED session /\ UNCHANGED <<call, approvals, overdue, actionToolsEnabled>>
        /\ UNCHANGED consent /\ DecideUnchanged
        /\ grants' \in {grants, grants \cup {Name[me.tool]}}
    BY <1>5 DEF FinishDecision
  <2>2. status \in Status  BY DEF Status, Active
  <2> HIDE DEF status
  <2>3. Rows'  BY <2>1, <2>2, StatusFits
  <2>4. me.tool \in Tools  BY <1>0, <2>1 DEF GoodDecider
  <2>5. Tables'  BY <1>0, <2>1, <2>4 DEF Tables
  <2>6. Decisions'  BY <2>1, DecidedFits, PutDecider
  <2> QED  BY <1>0, <2>1, <2>3, <2>5, <2>6, DecideStays, Stays DEF Types, Keeps
<1>6. CASE CrashDecider(d)
  <2>1. /\ decider' = [decider EXCEPT ![d] = [NoDecision EXCEPT !.pc = "done"]]
        /\ UNCHANGED session /\ UNCHANGED toolTables /\ UNCHANGED run /\ UNCHANGED consent
        /\ DecideUnchanged
    BY <1>6 DEF CrashDecider
  <2>2. Decisions'  BY <2>1, DecidedFits, PutDecider
  <2> QED  BY <1>0, <2>1, <2>2, DecideStays, Stays DEF Types, Keeps
<1> QED  BY <1>1, <1>2, <1>3, <1>4, <1>5, <1>6 DEF DecideStep

LEMMA ElsewhereStays ==
    ASSUME Types, Elsewhere
    PROVE  Rows' /\ Links' /\ Starts' /\ Syncs' /\ Decisions'
<1>1. /\ UNCHANGED run /\ UNCHANGED <<linked, lease, ledger, consent, lost>>
      /\ UNCHANGED start /\ UNCHANGED worker /\ UNCHANGED decider
  BY DEF Elsewhere, processes
<1> QED  BY <1>1, Stays

LEMMA StepKeeps == ASSUME Types, [Next]_vars PROVE Keeps
<1>1. ASSUME NEW r \in Runs, CreateRun(r) \/ StartStep(r) \/ FailStart(r) \/ CrashStart(r)
      PROVE  Keeps
  BY <1>1, CreateKeeps, StartKeeps, FailKeeps
<1>2. ASSUME NEW w \in Workers, SyncStep(w) \/ CancelStep(w) \/ CrashWorker(w) PROVE Keeps
  BY <1>2, SyncKeeps, ApplyKeeps, EffectKeeps, CancelKeeps DEF SyncStep
<1>3. ASSUME NEW r \in Runs, ExpireLease(r) PROVE Keeps
  <2>1. /\ lease' = [lease EXCEPT ![r] = None] /\ UNCHANGED toolTables /\ UNCHANGED run
        /\ UNCHANGED worker /\ UNCHANGED billing /\ SyncUnchanged
    BY <1>3 DEF ExpireLease
  <2>2. lease' \in [Runs -> Workers \cup {None}]  BY <2>1 DEF Types, Links
  <2>3. ledger' = [x \in Runs |-> ledger'[x]] /\ Pays  BY <2>1, NothingPaid DEF Types, Links
  <2> QED  BY <2>1, <2>2, <2>3, SyncStays, Stays DEF Types, Keeps
<1>4. ASSUME NEW d \in Deciders, DecideStep(d) \/ CrashDecider(d) PROVE Keeps
  BY <1>4, DecideKeeps
<1>5. ASSUME NEW r \in Runs, NEW t \in Tools, NEW i \in DOMAIN approvals[r][t],
             ApprovalTimesOut(r, t, i)
      PROVE  Keeps
  <2>1. i \in Nat  BY RowsOf DEF Types
  <2>2. /\ overdue' = overdue \cup {<<r, t, i>>} /\ UNCHANGED session /\ UNCHANGED metering
        /\ UNCHANGED <<call, approvals, grants, actionToolsEnabled>> /\ Elsewhere
    BY <1>5 DEF ApprovalTimesOut
  <2>3. Tables'  BY <2>1, <2>2 DEF Types, Tables
  <2> QED  BY <2>2, <2>3, ElsewhereStays, Stays DEF Types, Keeps, Pays
<1>6. CASE ReservationAges
  <2>1. UNCHANGED session /\ UNCHANGED toolTables /\ Elsewhere  BY <1>6 DEF ReservationAges
  <2>2. Pays  BY <1>6 DEF ReservationAges, Pays, Metering!Next
  <2> QED  BY <2>1, <2>2, ElsewhereStays, Stays DEF Types, Keeps
<1>7. ASSUME NEW s \in Sessions, AgentWorks(s) PROVE Keeps
  <2>1. AgentStep(s) /\ UNCHANGED toolTables /\ UNCHANGED metering /\ Elsewhere
    BY <1>7 DEF AgentWorks
  <2>2. Agent'  BY <2>1, AgentOperates, OperatedFits DEF Types
  <2> QED  BY <2>1, <2>2, ElsewhereStays, Stays DEF Types, Keeps, Pays
<1>8. CASE UNCHANGED vars
  <2>1. /\ UNCHANGED session /\ UNCHANGED toolTables /\ UNCHANGED run
        /\ UNCHANGED <<linked, lease, ledger, consent, lost>> /\ UNCHANGED metering
        /\ UNCHANGED start /\ UNCHANGED worker /\ UNCHANGED decider
    BY <1>8 DEF vars, billing, processes
  <2> QED  BY <2>1, Stays DEF Types, Keeps, Pays
<1> QED  BY <1>1, <1>2, <1>3, <1>4, <1>5, <1>6, <1>7, <1>8 DEF Next

LEMMA InitTypes == Init => Types /\ Metering!Init
<1> SUFFICES ASSUME Init PROVE Types /\ Metering!Init  OBVIOUS
<1>1. Agent
  <2>1. <<>> \in Seq(EventType) /\ 0 \in 0 .. MaxUsage /\ 0 \in 0 .. MaxOutput
    BY BoundsAssumption
  <2>2. NoSession \in SessionType  BY <2>1 DEF NoSession, SessionType
  <2> QED  BY <2>2 DEF Init, AgentInit, Agent
<1>2. Tables
  <2>1. <<>> \in Seq(ApprovalStatus) /\ "none" \in CallStatus  BY DEF CallStatus
  <2>2. actionToolsEnabled \in BOOLEAN  BY SwitchAssumption DEF Init, ToolsInit
  <2> QED  BY <2>1, <2>2 DEF Init, ToolsInit, Tables
<1>3. Rows
  <2>1. NoRun \in RunType  BY BaseFits DEF NoRun, RunType, Status
  <2> QED  BY <2>1 DEF Init, Rows
<1>4. Starts /\ Syncs /\ Decisions /\ Metering!Init
  BY StartDone, IdleFits, DecidedFits DEF Init, Starts, Syncs, Decisions
<1>5. Links
  <2>1. NothingLost \in LostType  BY DEF NothingLost, LostType
  <2> QED  BY <2>1 DEF Init, Links
<1> QED  BY <1>1, <1>2, <1>3, <1>4, <1>5 DEF Types

LEMMA TypesAlways == Spec => []Types
<1>1. Types /\ [Next]_vars => Types'  BY StepKeeps DEF Keeps
<1> QED  BY <1>1, InitTypes, PTL DEF Spec

\* Every step of a start, a reconciliation, a cancellation or a decision takes
\* one step of the metering service on one reservation, or none: what is proved
\* of metering holds of Work.
THEOREM WorkIsMetered == Spec => Metering!Spec
<1>1. Types /\ [Next]_vars => [Metering!Next]_(Metering!vars)
  <2>1. UNCHANGED metering => UNCHANGED Metering!vars
    BY DEF metering, Metering!vars, Metering!plan, Metering!counters, Metering!rows
  <2> QED  BY <2>1, StepKeeps DEF Keeps, Pays
<1> QED
  BY <1>1, InitTypes, TypesAlways, PTL DEF Spec, Metering!Spec

\* The proofs of metering speak of the same steps.
LEMMA SameOperators ==
    /\ \A r, q : Metering!ReserveUsage(r, q) <=> Proved!ReserveUsage(r, q)
    /\ \A r, a, l : Metering!SettleUsage(r, a, l) <=> Proved!SettleUsage(r, a, l)
    /\ \A r, t : Metering!SupplementReservation(r, t) <=> Proved!SupplementReservation(r, t)
    /\ \A r : Metering!ReleaseUsage(r) <=> Proved!ReleaseUsage(r)
    /\ \A R : Metering!TouchActivity(R) <=> Proved!TouchActivity(R)
    /\ \A r : Metering!BecomeStale(r) <=> Proved!BecomeStale(r)
    /\ \A l, p : Metering!ChangeSubscription(l, p) <=> Proved!ChangeSubscription(l, p)
<1> USE DEF Metering!plan, Proved!plan, Metering!counters, Proved!counters,
            Metering!rows, Proved!rows
<1>1. \A r, q : Metering!ReserveUsage(r, q) <=> Proved!ReserveUsage(r, q)
  BY DEF Metering!ReserveUsage, Proved!ReserveUsage, Metering!NewRequest, Proved!NewRequest,
         Metering!WithinAllowance, Proved!WithinAllowance
<1>2. \A r, a, l : Metering!SettleUsage(r, a, l) <=> Proved!SettleUsage(r, a, l)
  BY DEF Metering!SettleUsage, Proved!SettleUsage, Metering!Claimable, Proved!Claimable,
         Metering!Supplement, Proved!Supplement, Metering!Remaining, Proved!Remaining,
         Metering!Larger, Proved!Larger, Metering!Billed, Proved!Billed,
         Metering!Smaller, Proved!Smaller, Metering!ReservedAfter, Proved!ReservedAfter
<1>3. \A r, t : Metering!SupplementReservation(r, t) <=> Proved!SupplementReservation(r, t)
  BY DEF Metering!SupplementReservation, Proved!SupplementReservation,
         Metering!Claimable, Proved!Claimable, Metering!Remaining, Proved!Remaining,
         Metering!Larger, Proved!Larger
<1>4. \A r : Metering!ReleaseUsage(r) <=> Proved!ReleaseUsage(r)
  BY DEF Metering!ReleaseUsage, Proved!ReleaseUsage, Metering!Claimable, Proved!Claimable
<1>5. \A R : Metering!TouchActivity(R) <=> Proved!TouchActivity(R)
  BY DEF Metering!TouchActivity, Proved!TouchActivity, Metering!Open, Proved!Open
<1>6. \A r : Metering!BecomeStale(r) <=> Proved!BecomeStale(r)
  BY DEF Metering!BecomeStale, Proved!BecomeStale, Metering!Open, Proved!Open
<1>7. \A l, p : Metering!ChangeSubscription(l, p) <=> Proved!ChangeSubscription(l, p)
  <2>1. \A p, q : Metering!Concerns(p, q) <=> Proved!Concerns(p, q)
    BY DEF Metering!Concerns, Proved!Concerns, Metering!Open, Proved!Open
  <2>2. \A a, b : Metering!Larger(a, b) = Proved!Larger(a, b)
    BY DEF Metering!Larger, Proved!Larger
  <2> QED  BY <2>1, <2>2, Zenon DEF Metering!ChangeSubscription, Proved!ChangeSubscription
<1> QED  BY <1>1, <1>2, <1>3, <1>4, <1>5, <1>6, <1>7

LEMMA SameExpiry ==
    \A R : Metering!ExpireStaleReservations(R) <=> Proved!ExpireStaleReservations(R)
<1>1. \A R, p : Metering!HeldBy(R, p) = Proved!HeldBy(R, p)
  BY DEF Metering!HeldBy, Proved!HeldBy, Metering!MapThenSumSet, Metering!MapThenFoldSet,
         Proved!MapThenSumSet, Proved!MapThenFoldSet
<1>2. Metering!Open = Proved!Open  BY DEF Metering!Open, Proved!Open
<1>3. \A R : [p \in Periods |-> reserved[p] - Metering!HeldBy(R, p)]
             = [p \in Periods |-> reserved[p] - Proved!HeldBy(R, p)]
  BY <1>1
<1> QED
  BY <1>2, <1>3 DEF Metering!ExpireStaleReservations, Proved!ExpireStaleReservations,
     Metering!plan, Proved!plan

LEMMA SameMetering ==
    /\ Metering!Init <=> Proved!Init
    /\ Metering!Next <=> Proved!Next
    /\ Metering!TypeOK <=> Proved!TypeOK
    /\ Metering!ChargeWithinHold <=> Proved!ChargeWithinHold
<1>1. Metering!Init <=> Proved!Init  BY DEF Metering!Init, Proved!Init
<1>2. Metering!Quantities = Proved!Quantities  BY DEF Metering!Quantities, Proved!Quantities
<1>3. Metering!Next <=> Proved!Next
  BY <1>2, SameOperators, SameExpiry DEF Metering!Next, Proved!Next
<1>4. Metering!TypeOK <=> Proved!TypeOK
  BY DEF Metering!TypeOK, Proved!TypeOK, Metering!Closed, Proved!Closed
<1>5. Metering!ChargeWithinHold <=> Proved!ChargeWithinHold
  BY DEF Metering!ChargeWithinHold, Proved!ChargeWithinHold
<1> QED  BY <1>1, <1>3, <1>4, <1>5

LEMMA MeteringAlways == Spec => [](Metering!TypeOK /\ Metering!ChargeWithinHold)
<1>1. Proved!Spec => []Proved!TypeOK  BY Proved!Typing, MeteringFacts, PTL
<1>2. Proved!Spec => []Proved!ChargeWithinHold
  BY Proved!ChargesStayWithinHolds, MeteringFacts, PTL
<1>3. Metering!Init => Proved!Init  BY SameMetering
<1>4. [Metering!Next]_(Metering!vars) => [Proved!Next]_(Proved!vars)
  <2>1. UNCHANGED Metering!vars => UNCHANGED Proved!vars
    BY DEF Metering!vars, Proved!vars, Metering!plan, Proved!plan, Metering!counters,
           Proved!counters, Metering!rows, Proved!rows
  <2> QED  BY <2>1, SameMetering
<1>5. Metering!Spec => Proved!Spec  BY <1>3, <1>4, PTL DEF Metering!Spec, Proved!Spec
<1>6. Proved!TypeOK /\ Proved!ChargeWithinHold => Metering!TypeOK /\ Metering!ChargeWithinHold
  BY SameMetering
<1> QED  BY WorkIsMetered, <1>1, <1>2, <1>5, <1>6, PTL

----------------------------------------------------------------------------
(* The money of a run.  What the runs check is made inductive by two facts    *)
(* more: a run that was not created has no reservation, and as long as a run  *)
(* is not settled its reservation holds the budget.                           *)

EntryType == [billed : Nat, calculated : Nat]

\* The credit transaction e agrees with a reservation in the given state and its
\* charge.
Accounts(e, phase, charge) ==
    /\ e \in EntryType
    /\ e # NoEntry <=> phase = "settled"
    /\ e.billed = charge
    /\ \/ e.billed = e.calculated
       \/ e.billed = Budget /\ e.calculated > Budget

LEMMA AccountsUnsettled ==
    ASSUME NEW e, NEW phase, NEW charge, Accounts(e, phase, charge), phase # "settled"
    PROVE  charge = 0 /\ \A p : p # "settled" => Accounts(e, p, charge)
<1>1. e = NoEntry  BY DEF Accounts
<1>2. charge = 0  BY <1>1 DEF Accounts, NoEntry
<1> QED  BY <1>2 DEF Accounts

Settling(r) ==
    /\ run[r].status \in Terminal => state[r] # "reserved"
    /\ Accounts(ledger[r], state[r], settled[r])
    /\ state[r] = "reserved" => requested[r] = Budget
    /\ run[r].status = None => state[r] = "none"
MoneyInv == \A r \in Runs : Settling(r)

Known == Types /\ Metering!TypeOK

\* What a step does to the money of a run: at most, the end of a run charges it.
Charged(r) ==
    /\ settled[r] = 0
    /\ run[r].status \in Active
    /\ run'[r].status \in Terminal
Honest(r) == Settling(r)' /\ (settled'[r] # settled[r] => Charged(r))

LEMMA MoneyTypes ==
    ASSUME Known, NEW r \in Runs
    PROVE  /\ run \in [Runs -> RunType] /\ run[r].status \in Status
           /\ state \in [Runs -> {"none", "reserved", "settled", "released", "expired"}]
           /\ settled \in [Runs -> Nat] /\ requested \in [Runs -> Nat]
           /\ ledger = [x \in Runs |-> ledger[x]]
<1>1. run \in [Runs -> RunType] /\ ledger = [x \in Runs |-> ledger[x]]
  BY DEF Known, Types, Rows, Links
<1>2. run[r].status \in Status  BY <1>1 DEF RunType
<1>3. /\ state \in [Runs -> {"none", "reserved", "settled", "released", "expired"}]
      /\ settled \in [Runs -> Nat] /\ requested \in [Runs -> Nat]
  BY DEF Known, Metering!TypeOK, Metering!Closed
<1> QED  BY <1>1, <1>2, <1>3

\* A run whose account is left alone, and whose status stays or becomes active.
LEMMA QuietRun ==
    ASSUME NEW r, Settling(r), state'[r] = state[r], settled'[r] = settled[r],
           requested'[r] = requested[r], ledger'[r] = ledger[r],
           run'[r].status \in Active \cup {run[r].status}
    PROVE  Honest(r)
  BY DEF Settling, Honest, Active, Terminal, None

LEMMA QuietStep ==
    ASSUME MoneyInv, UNCHANGED billing,
           \A r \in Runs : run'[r].status \in Active \cup {run[r].status}
    PROVE  \A r \in Runs : Honest(r)
  BY QuietRun DEF MoneyInv, billing, metering

\* A step that sets the status of one run.
LEMMA SetStatus ==
    ASSUME Known, NEW q, NEW status, run' = [run EXCEPT ![q].status = status]
    PROVE  \A r \in Runs : run'[r].status = IF r = q THEN status ELSE run[r].status
<1> SUFFICES ASSUME NEW r \in Runs
             PROVE  run'[r].status = IF r = q THEN status ELSE run[r].status
  OBVIOUS
<1>1. run[r] \in RunType /\ run \in [Runs -> RunType]  BY DEF Known, Types, Rows
<1>2. run'[r] = IF r = q THEN [run[r] EXCEPT !.status = status] ELSE run[r]  BY <1>1
<1>3. [run[r] EXCEPT !.status = status].status = status  BY <1>1 DEF RunType
<1>4. CASE r = q  BY <1>2, <1>3, <1>4
<1>5. CASE r # q  BY <1>2, <1>5
<1> QED  BY <1>4, <1>5

\* One run is settled or released, and ends.
LEMMA EndsOne ==
    ASSUME Known, MoneyInv, NEW q \in Runs, Honest(q),
           \A r \in Runs \ {q} : /\ state'[r] = state[r] /\ settled'[r] = settled[r]
                                 /\ requested'[r] = requested[r]
                                 /\ ledger'[r] = ledger[r]
                                 /\ run'[r].status = run[r].status
    PROVE  \A r \in Runs : Honest(r)
<1> SUFFICES ASSUME NEW r \in Runs \ {q} PROVE Honest(r)  OBVIOUS
<1> QED  BY QuietRun DEF MoneyInv

LEMMA ReleaseEffect ==
    ASSUME Known, NEW q \in Runs, Metering!ReleaseUsage(q)
    PROVE  /\ state[q] = "reserved" /\ state'[q] = "released" /\ UNCHANGED settled
           /\ UNCHANGED requested /\ \A r \in Runs \ {q} : state'[r] = state[r]
<1>1. /\ state[q] = "reserved" /\ state' = [state EXCEPT ![q] = "released"]
      /\ UNCHANGED settled /\ UNCHANGED requested
  BY DEF Metering!ReleaseUsage, Metering!Claimable
<1> QED  BY <1>1, MoneyTypes

\* What is calculated within the budget is billed; what exceeds it is billed as
\* far as the allowance goes, and that is all of it or the budget.
LEMMA SettleEffect ==
    ASSUME Known, NEW q \in Runs, NEW u \in Nat, requested[q] = Budget,
           Metering!SettleUsage(q, u, limit)
    PROVE  /\ state[q] = "reserved" /\ state'[q] = "settled"
           /\ settled'[q] \in Nat
           /\ settled'[q] = u \/ (settled'[q] = Budget /\ u > Budget)
           /\ \A r \in Runs \ {q} : /\ state'[r] = state[r] /\ settled'[r] = settled[r]
                                    /\ requested'[r] = requested[r]
<1> DEFINE extra == Metering!Supplement(q, u, limit)
           hold == requested[q] + extra
           billed == Metering!Billed(u, hold)
           left == Metering!Remaining(periodOf[q], limit)
<1>1. /\ state[q] = "reserved" /\ state' = [state EXCEPT ![q] = "settled"]
      /\ settled' = [settled EXCEPT ![q] = billed]
      /\ requested' = [requested EXCEPT ![q] = hold]
  BY DEF Metering!SettleUsage, Metering!Claimable
<1>2. Budget \in Nat  BY BudgetIsQuantity
<1>3. left \in Nat
  <2>1. limit \in Nat /\ periodOf[q] \in Periods
    BY MeteringAssumption DEF Known, Metering!TypeOK
  <2>2. used[periodOf[q]] \in Nat /\ reserved[periodOf[q]] \in Nat
    BY <2>1 DEF Known, Metering!TypeOK
  <2> QED  BY <2>1, <2>2 DEF Metering!Remaining, Metering!Larger
<1>4. extra = IF Metering!Larger(0, u - Budget) <= left
              THEN Metering!Larger(0, u - Budget) ELSE 0
  BY DEF Metering!Supplement
<1> HIDE DEF left, extra
<1>5. billed \in Nat /\ (billed = u \/ (billed = Budget /\ u > Budget))
  BY <1>2, <1>3, <1>4 DEF Metering!Billed, Metering!Smaller, Metering!Larger
<1> HIDE DEF billed, hold
<1> QED  BY <1>1, <1>5, MoneyTypes

\* Starts and cancellations end a run without a charge.
LEMMA LetGo ==
    ASSUME Known, MoneyInv, NEW q \in Runs, NEW status \in Terminal, UNCHANGED ledger,
           run' = [run EXCEPT ![q].status = status],
           \/ Metering!ReleaseUsage(q)
           \/ state[q] # "reserved" /\ UNCHANGED metering
    PROVE  \A r \in Runs : Honest(r)
<1>0. run' = [run EXCEPT ![q].status = status]  OBVIOUS
<1>1. \A r \in Runs : run'[r].status = IF r = q THEN status ELSE run[r].status
  BY ONLY Known, <1>0, q \in Runs, SetStatus, Zenon
<1>2. /\ UNCHANGED settled /\ UNCHANGED requested /\ state'[q] # "reserved"
      /\ state'[q] = state[q] \/ (state[q] # "settled" /\ state'[q] # "settled")
      /\ \A r \in Runs \ {q} : state'[r] = state[r]
  BY ReleaseEffect DEF metering
<1>3. Settling(q)  BY DEF MoneyInv
<1>4. Accounts(ledger[q], state'[q], settled[q])
  BY <1>2, <1>3, AccountsUnsettled DEF Settling
<1>5. Honest(q)
  BY <1>1, <1>2, <1>3, <1>4 DEF Honest, Settling, Terminal, None
<1> QED  BY <1>1, <1>2, <1>5, EndsOne

LEMMA ApplyIsHonest ==
    ASSUME Known, MoneyInv, NEW w \in Workers, ApplyProgress(w)
    PROVE  \A r \in Runs : Honest(r)
<1> DEFINE me == worker[w]
<1>a. me \in GoodWorker /\ me \in WorkerType /\ me.pc \in SyncPc /\ me.run \in Runs
  BY DEF Known, Types, Syncs, GoodWorker, Busy, ApplyProgress, SyncPc
<1> PICK q \in Runs : q = worker[w].run  BY <1>a
<1> PICK u \in Nat : u = Used(worker[w])  BY <1>a, UsedFits
<1>0. me \in GoodWorker /\ me \in WorkerType /\ me.pc \in SyncPc /\ q = me.run
  BY <1>a
<1>1. NextStatus(me) \in Active \cup Terminal  BY <1>0, NextStatusFits
<1>2. \A r \in Runs : run'[r].status = IF r = q THEN NextStatus(me) ELSE run[r].status
  <2>1. run[q] \in RunType /\ run \in [Runs -> RunType]  BY <1>0 DEF Known, Types, Rows
  <2> DEFINE s == NextStatus(me)
             f == run[q].finalize \/ AsksToFinalize(me)
             i == run[q].interrupt \/ Interrupts(me)
             v == [run[q] EXCEPT !.status = s, !.finalize = f, !.interrupt = i]
  <2>2. run' = [run EXCEPT ![q] = v]  BY <1>0, <2>1 DEF ApplyProgress, RunType
  <2> HIDE DEF s, f, i
  <2>3. v.status = s  BY <2>1 DEF RunType
  <2> HIDE DEF v
  <2> QED  BY <1>0, <2>1, <2>2, <2>3 DEF s
<1>3. CASE ~Ending(me)
  <2>1. UNCHANGED billing  BY <1>3 DEF ApplyProgress
  <2>2. NextStatus(me) \in Active  BY <1>1, <1>3 DEF Ending
  <2> QED  BY <1>2, <2>1, <2>2, QuietStep
<1>4. CASE Ending(me)
  <2>1. Settle(q, u) /\ CanSettle(q, u) /\ NextStatus(me) \in Terminal
    BY <1>4 DEF ApplyProgress, Ending
  <2>2. Settling(q)  BY <1>0 DEF MoneyInv
  <2>3. u \in Nat  OBVIOUS
  <2>4. run'[q].status \in Terminal  BY <1>0, <1>2, <2>1
  <2>5. run[q].status \in Status /\ ledger = [x \in Runs |-> ledger[x]]
    BY <1>0, MoneyTypes
  <2> HIDE DEF me
  <2>6. CASE u = 0
    <3>1. Release(q) /\ UNCHANGED ledger /\ CanRelease(q)  BY <2>1, <2>6 DEF Settle, CanSettle
    <3>2. /\ UNCHANGED settled /\ UNCHANGED requested
          /\ state[q] # "settled" /\ state'[q] = "released"
          /\ \A r \in Runs \ {q} : state'[r] = state[r]
      BY <1>0, <3>1, ReleaseEffect DEF Release, CanRelease, metering
    <3>3. Settling(q)'
      <4>1. Accounts(ledger[q], "released", settled[q])
        BY <2>2, <3>2, AccountsUnsettled DEF Settling
      <4>2. (run[q].status # None)'  BY <2>4 DEF Terminal, None
      <4> QED  BY <3>1, <3>2, <4>1, <4>2 DEF Settling
    <3>4. Honest(q)  BY <3>2, <3>3 DEF Honest
    <3> QED  BY <1>0, <1>2, <3>1, <3>2, <3>4, EndsOne
  <2>7. CASE u # 0 /\ state[q] = "settled"
    <3>1. UNCHANGED billing  BY <2>1, <2>7 DEF Settle
    <3>2. UNCHANGED settled /\ UNCHANGED state /\ UNCHANGED requested /\ UNCHANGED ledger
      BY <3>1 DEF billing, metering
    <3>3. Settling(q)'
      <4>1. Accounts(ledger[q], state[q], settled[q])'  BY <2>2, <3>2 DEF Settling
      <4>2. (run[q].status # None)'  BY <2>4 DEF Terminal, None
      <4>3. state'[q] = "settled"  BY <2>7, <3>2
      <4> QED  BY <4>1, <4>2, <4>3 DEF Settling
    <3>4. Honest(q)  BY <3>2, <3>3 DEF Honest
    <3> QED  BY <1>0, <1>2, <3>2, <3>4, EndsOne
  <2>8. CASE u # 0 /\ state[q] # "settled"
    <3>1. Metering!SettleUsage(q, u, limit) /\ ledger' = [ledger EXCEPT ![q] = Entry(q, u)]
      BY <2>1, <2>8 DEF Settle
    <3>0. state[q] = "reserved" /\ requested[q] = Budget
      <4>1. state[q] = "reserved"  BY <3>1 DEF Metering!SettleUsage, Metering!Claimable
      <4> QED  BY <2>2, <4>1 DEF Settling
    <3>2. /\ state[q] = "reserved" /\ state'[q] = "settled"
          /\ settled'[q] \in Nat
          /\ settled'[q] = u \/ (settled'[q] = Budget /\ u > Budget)
          /\ \A r \in Runs \ {q} : /\ state'[r] = state[r] /\ settled'[r] = settled[r]
                                   /\ requested'[r] = requested[r]
      BY <1>0, <2>3, <3>0, <3>1, SettleEffect
    <3>3. ledger'[q] = Entry(q, u) /\ \A r \in Runs \ {q} : ledger'[r] = ledger[r]
      BY <1>0, <2>5, <3>1
    <3>4. settled[q] = 0  BY <2>2, <3>2, AccountsUnsettled DEF Settling
    <3>5. run[q].status \in Active
      BY <2>2, <2>5, <3>2 DEF Settling, Status, None
    <3>6. Settling(q)'
      <4>1. Accounts(Entry(q, u), "settled", settled'[q])
        <5> DEFINE e == [billed |-> settled'[q], calculated |-> u]
        <5>1. e \in EntryType /\ e.billed = settled'[q] /\ e.calculated = u
          BY <2>3, <3>2 DEF EntryType
        <5>2. e # NoEntry  BY <2>8, <5>1 DEF NoEntry
        <5>3. Entry(q, u) = e  BY DEF Entry
        <5> HIDE DEF e
        <5> QED  BY <3>2, <5>1, <5>2, <5>3 DEF Accounts
      <4>2. (run[q].status # None)'  BY <2>4 DEF Terminal, None
      <4> QED  BY <3>2, <3>3, <4>1, <4>2 DEF Settling
    <3>7. Honest(q)  BY <2>4, <3>4, <3>5, <3>6 DEF Honest, Charged
    <3> QED  BY <1>0, <1>2, <3>2, <3>3, <3>7, EndsOne
  <2> QED  BY <2>6, <2>7, <2>8
<1> QED  BY <1>3, <1>4

LEMMA CreateIsHonest ==
    ASSUME Known, MoneyInv, NEW q \in Runs, CreateRun(q)
    PROVE  \A r \in Runs : Honest(r)
<1>1. /\ run[q].status = None /\ run' = [run EXCEPT ![q].status = "created"]
      /\ Metering!ReserveUsage(q, Budget) /\ UNCHANGED ledger
  BY DEF CreateRun
<1>2. /\ state[q] = "none" /\ state' = [state EXCEPT ![q] = "reserved"] /\ UNCHANGED settled
      /\ requested' = [requested EXCEPT ![q] = Budget]
  BY <1>1 DEF Metering!ReserveUsage, Metering!NewRequest
<1>3. \A r \in Runs : run'[r].status = IF r = q THEN "created" ELSE run[r].status
  BY <1>1, SetStatus
<1>4. /\ state'[q] = "reserved" /\ requested'[q] = Budget
      /\ \A r \in Runs \ {q} : state'[r] = state[r] /\ requested'[r] = requested[r]
  BY <1>2, MoneyTypes
<1>5. Settling(q)  BY DEF MoneyInv
<1>7. Accounts(ledger[q], "reserved", settled[q])
  BY <1>2, <1>5, AccountsUnsettled DEF Settling
<1>6. Honest(q)
  BY <1>1, <1>2, <1>3, <1>4, <1>5, <1>7 DEF Honest, Settling, Terminal, None
<1> QED  BY <1>1, <1>2, <1>3, <1>4, <1>6, EndsOne

LEMMA AgesHonestly ==
    ASSUME Known, MoneyInv, ReservationAges
    PROVE  \A r \in Runs : Honest(r)
<1>1. UNCHANGED run /\ UNCHANGED ledger  BY DEF ReservationAges, Elsewhere
<1>2. ASSUME NEW q \in Runs, Metering!BecomeStale(q) PROVE \A r \in Runs : Honest(r)
  <2>1. UNCHANGED state /\ UNCHANGED settled /\ UNCHANGED requested
    BY <1>2 DEF Metering!BecomeStale, Metering!rows
  <2> QED  BY <1>1, <2>1, QuietRun DEF MoneyInv
<1>3. ASSUME NEW R \in SUBSET Runs, Metering!ExpireStaleReservations(R)
      PROVE  \A r \in Runs : Honest(r)
  <2>1. /\ state' = [r \in Runs |-> IF r \in R THEN "expired" ELSE state[r]]
        /\ UNCHANGED settled /\ UNCHANGED requested /\ \A r \in R : state[r] = "reserved"
    BY <1>3 DEF Metering!ExpireStaleReservations, Metering!Open
  <2>2. ASSUME NEW r \in Runs PROVE Honest(r)
    <3>1. Settling(r)  BY DEF MoneyInv
    <3>2. state'[r] = IF r \in R THEN "expired" ELSE state[r]  BY <2>1
    <3>3. run'[r].status = run[r].status /\ ledger'[r] = ledger[r] /\ settled'[r] = settled[r]
          /\ requested'[r] = requested[r]
      BY <1>1, <2>1
    <3>4. Accounts(ledger[r], state'[r], settled[r])
      BY <2>1, <3>1, <3>2, AccountsUnsettled DEF Settling
    <3> QED  BY <2>1, <3>1, <3>2, <3>3, <3>4 DEF Honest, Settling, None
  <2> QED  BY <2>2
<1> QED  BY <1>2, <1>3 DEF ReservationAges

\* The other steps: no account changes, and no run ends.
LEMMA OthersAreHonest ==
    ASSUME Known, MoneyInv,
           \/ \E r \in Runs : StartStep(r) \/ CrashStart(r) \/ ExpireLease(r)
           \/ \E w \in Workers :
                 \/ \E r \in Runs : StartSync(w, r) \/ ReadForCancel(w, r)
                 \/ ReadEvents(w) \/ ReadSession(w) \/ Identify(w) \/ FailSync(w)
                 \/ SendFinalize(w) \/ SendInterruptRequest(w) \/ FailInterruptRequest(w)
                 \/ \E t \in Tools : TellAutomatic(w, t)
                 \/ \E x \in worker[w].todo.expired : TellExpired(w, x) \/ FailExpired(w, x)
                 \/ StopProvider(w) \/ FailStopProvider(w) \/ SkipSync(w) \/ CrashWorker(w)
           \/ \E d \in Deciders : DecideStep(d) \/ CrashDecider(d)
           \/ \E r \in Runs, t \in Tools : \E i \in DOMAIN approvals[r][t] : ApprovalTimesOut(r, t, i)
           \/ \E s \in Sessions : AgentWorks(s)
           \/ UNCHANGED vars
    PROVE  \A r \in Runs : Honest(r)
<1> DEFINE Calm == UNCHANGED billing /\ \A r \in Runs : run'[r].status \in Active \cup {run[r].status}
<1>0. run \in [Runs -> RunType]  BY DEF Known, Types, Rows
<1>a. UNCHANGED run /\ UNCHANGED billing => Calm  OBVIOUS
<1>b. ASSUME NEW q, NEW status \in Active, run' = [run EXCEPT ![q].status = status],
             UNCHANGED billing
      PROVE  Calm
  BY <1>b, SetStatus
<1>c. ASSUME NEW q, NEW v, run' = [run EXCEPT ![q] = v], UNCHANGED billing,
             q \in Runs => v.status \in Active \cup {run[q].status}
      PROVE  Calm
  BY <1>0, <1>c
<1>1. ASSUME NEW q \in Runs, StartStep(q) \/ CrashStart(q) \/ ExpireLease(q) PROVE Calm
  <2>1. CASE RecordSession(q)
    <3> DEFINE v == [run[q] EXCEPT !.session = start[q].base.session, !.known = TRUE,
                                   !.base = start[q].base]
    <3>1. run[q] \in RunType  BY <1>0
    <3>2. run' = [run EXCEPT ![q] = v]  BY <1>0, <2>1 DEF RecordSession, RunType
    <3>3. v.status = run[q].status  BY <3>1 DEF RunType
    <3>4. UNCHANGED billing  BY <2>1 DEF RecordSession, StartUnchanged
    <3> HIDE DEF v
    <3> QED  BY <1>c, <3>2, <3>3, <3>4
  <2>2. CASE ConfirmStart(q)
    <3> DEFINE v == [run[q] EXCEPT !.status = "running", !.session = start[q].base.session,
                                   !.base = start[q].base]
    <3>1. run[q] \in RunType  BY <1>0
    <3>2. run' = [run EXCEPT ![q] = v]  BY <1>0, <2>2 DEF ConfirmStart, RunType
    <3>3. v.status \in Active  BY <3>1 DEF RunType, Active
    <3>4. UNCHANGED billing  BY <2>2 DEF ConfirmStart, StartUnchanged
    <3> HIDE DEF v
    <3> QED  BY <1>c, <3>2, <3>3, <3>4
  <2>3. CASE ~RecordSession(q) /\ ~ConfirmStart(q)
    <3>1. UNCHANGED run /\ UNCHANGED billing
      BY <1>1, <2>3 DEF StartStep, ReadBaseline, ReadBaselineEvents, ExtendProviderBudget,
         OpenSession, SendFirstInstruction, CrashStart, ExpireLease, StartUnchanged
    <3> QED  BY <1>a, <3>1
  <2> QED  BY <2>1, <2>2, <2>3
<1>2. ASSUME NEW w \in Workers,
             \/ \E r \in Runs : StartSync(w, r)
             \/ ReadEvents(w) \/ ReadSession(w) \/ FailSync(w) \/ CrashWorker(w)
      PROVE  Calm
  <2>1. UNCHANGED run /\ UNCHANGED billing
    BY <1>2 DEF StartSync, ReadEvents, ReadSession, FailSync, CrashWorker
  <2> QED  BY <1>a, <2>1
<1>3. ASSUME NEW w \in Workers,
             \/ \E r \in Runs : ReadForCancel(w, r)
             \/ StopProvider(w) \/ FailStopProvider(w) \/ SkipSync(w)
      PROVE  Calm
  <2>1. UNCHANGED run /\ UNCHANGED metering /\ UNCHANGED ledger
    BY <1>3 DEF ReadForCancel, StopProvider, FailStopProvider, SkipSync, CancelUnchanged
  <2> QED  BY <1>a, <2>1 DEF billing
<1>4. ASSUME NEW w \in Workers, Identify(w) PROVE Calm
  <2> DEFINE q == worker[w].run
             v == [run[q] EXCEPT !.known = TRUE, !.base = worker[w].row.base]
  <2>1. q \in Runs => run[q] \in RunType  BY <1>0
  <2>2. run' = [run EXCEPT ![q] = v]  BY <1>0, <1>4, <2>1 DEF Identify, RunType
  <2>3. q \in Runs => v.status = run[q].status  BY <2>1 DEF RunType
  <2>4. UNCHANGED billing  BY <1>4 DEF Identify
  <2> HIDE DEF v, q
  <2> QED  BY <1>c, <2>2, <2>3, <2>4
<1>5. ASSUME NEW w \in Workers, SendFinalize(w) \/ FailInterruptRequest(w) PROVE Calm
  <2> DEFINE q == worker[w].run
             v == [run[q] EXCEPT !.finalize = FALSE]
             x == [run[q] EXCEPT !.interrupt = FALSE]
  <2>1. q \in Runs => run[q] \in RunType  BY <1>0
  <2>2. \/ UNCHANGED run \/ run' = [run EXCEPT ![q] = v] \/ run' = [run EXCEPT ![q] = x]
    BY <1>5 DEF SendFinalize, FailInterruptRequest, ClearInterrupt
  <2>3. q \in Runs => v.status = run[q].status /\ x.status = run[q].status
    BY <2>1 DEF RunType
  <2>4. UNCHANGED billing  BY <1>5 DEF SendFinalize, FailInterruptRequest, EffectsUnchanged
  <2> HIDE DEF v, x, q
  <2> QED  BY <1>a, <1>c, <2>2, <2>3, <2>4
<1>6. ASSUME NEW w \in Workers,
             \/ SendInterruptRequest(w) \/ \E t \in Tools : TellAutomatic(w, t)
             \/ \E x \in worker[w].todo.expired : TellExpired(w, x)
      PROVE  Calm
  <2>1. UNCHANGED run /\ UNCHANGED billing
    BY <1>6 DEF SendInterruptRequest, TellAutomatic, TellExpired, EffectsUnchanged
  <2> QED  BY <1>a, <2>1
<1>7. ASSUME NEW w \in Workers, NEW x \in worker[w].todo.expired, FailExpired(w, x) PROVE Calm
  <2> DEFINE q == worker[w].run
             v == [run[q] EXCEPT !.status =
               IF approvals[q][x[1]][x[2]] = "expired" THEN "waiting_for_approval" ELSE @]
  <2>1. q \in Runs => run[q] \in RunType  BY <1>0
  <2>2. run' = [run EXCEPT ![q] = v]  BY <1>7 DEF FailExpired
  <2>3. q \in Runs => v.status \in Active \cup {run[q].status}
    BY <2>1 DEF RunType, Active
  <2>4. UNCHANGED billing  BY <1>7 DEF FailExpired, EffectsUnchanged
  <2> HIDE DEF v, q
  <2> QED  BY <1>c, <2>2, <2>3, <2>4
<1>8. ASSUME NEW d \in Deciders, DecideStep(d) \/ CrashDecider(d) PROVE Calm
  <2>1. CASE FinishDecision(d)
    <3> DEFINE status == IF PendingTools(decider[d].run) # {}
                         THEN "waiting_for_approval" ELSE "running"
    <3>1. run' = [run EXCEPT ![decider[d].run].status = status] /\ UNCHANGED billing
      BY <2>1 DEF FinishDecision, DecideUnchanged
    <3>2. status \in Active  BY DEF Active
    <3> HIDE DEF status
    <3> QED  BY <1>b, <3>1, <3>2
  <2>2. CASE ~FinishDecision(d)
    <3>1. UNCHANGED run /\ UNCHANGED billing
      BY <1>8, <2>2 DEF DecideStep, Decide, TellDecision, FailDecision, ReopenDecision,
         CrashDecider, DecideUnchanged
    <3> QED  BY <1>a, <3>1
  <2> QED  BY <2>1, <2>2
<1>9. ASSUME \/ \E r \in Runs, t \in Tools : \E i \in DOMAIN approvals[r][t] : ApprovalTimesOut(r, t, i)
             \/ \E s \in Sessions : AgentWorks(s)
      PROVE  Calm
  <2>1. UNCHANGED run /\ UNCHANGED metering /\ UNCHANGED ledger
    BY <1>9 DEF ApprovalTimesOut, AgentWorks, Elsewhere
  <2> QED  BY <1>a, <2>1 DEF billing
<1>10. UNCHANGED vars => Calm  BY <1>a DEF vars
<1>11. Calm
  <2> HIDE DEF Calm
  <2> QED  BY <1>1, <1>2, <1>3, <1>4, <1>5, <1>6, <1>7, <1>8, <1>9, <1>10
<1> QED  BY <1>11, QuietStep

LEMMA StepIsHonest ==
    ASSUME Known, MoneyInv, [Next]_vars
    PROVE  \A r \in Runs : Honest(r)
<1>1. ASSUME NEW q \in Runs, FailStart(q) PROVE \A r \in Runs : Honest(r)
  <2>1. CASE CanRelease(q)
    <3>1. run' = [run EXCEPT ![q].status = "failed"] /\ Release(q) /\ UNCHANGED ledger
      BY <1>1, <2>1 DEF FailStart
    <3>2. "failed" \in Terminal  BY DEF Terminal
    <3>3. \/ Metering!ReleaseUsage(q)
          \/ state[q] # "reserved" /\ UNCHANGED metering
      BY <3>1 DEF Release
    <3> QED  BY <3>1, <3>2, <3>3, LetGo
  <2>2. CASE ~CanRelease(q)
    <3>1. UNCHANGED run /\ UNCHANGED metering /\ UNCHANGED ledger
      BY <1>1, <2>2 DEF FailStart
    <3> QED  BY <3>1, QuietStep DEF billing
  <2> QED  BY <2>1, <2>2
<1>2. ASSUME NEW w \in Workers, ForceCancel(w) PROVE \A r \in Runs : Honest(r)
  <2>1. worker[w].run \in Runs
    BY <1>2 DEF ForceCancel, Known, Types, Syncs, GoodWorker, Busy
  <2>2. UNCHANGED ledger  BY <1>2 DEF ForceCancel, CancelUnchanged
  <2>3. CASE run[worker[w].run].status # "cancelled"
    <3>1. /\ run' = [run EXCEPT ![worker[w].run].status = "cancelled"]
          /\ ReleaseIfOpen(worker[w].run)
      BY <1>2, <2>3 DEF ForceCancel
    <3>2. "cancelled" \in Terminal  BY DEF Terminal
    <3>3. \/ Metering!ReleaseUsage(worker[w].run)
          \/ state[worker[w].run] # "reserved" /\ UNCHANGED metering
      BY <3>1 DEF ReleaseIfOpen
    <3> QED  BY <2>1, <2>2, <3>1, <3>2, <3>3, LetGo
  <2>4. CASE run[worker[w].run].status = "cancelled"
    <3>1. UNCHANGED run /\ UNCHANGED metering  BY <1>2, <2>4 DEF ForceCancel
    <3> QED  BY <2>2, <3>1, QuietStep DEF billing
  <2> QED  BY <2>3, <2>4
<1> QED
  BY <1>1, <1>2, CreateIsHonest, ApplyIsHonest, AgesHonestly, OthersAreHonest
     DEF Next, SyncStep, CancelStep

LEMMA InitIsSettled == Init => MoneyInv
<1> SUFFICES ASSUME Init, NEW r \in Runs PROVE Settling(r)  BY DEF MoneyInv
<1>1. run[r].status = None /\ ledger[r] = NoEntry  BY DEF Init, NoRun, None
<1>2. state[r] = "none" /\ settled[r] = 0  BY DEF Init, Metering!Init
<1>3. Accounts(NoEntry, "none", 0)  BY DEF Accounts, NoEntry, EntryType
<1> QED  BY <1>1, <1>2, <1>3 DEF Settling, Terminal, None

LEMMA MoneyAlways == Spec => [](Known /\ MoneyInv)
<1>1. Types /\ Metering!TypeOK => Known  BY DEF Known
<1>2. Known /\ MoneyInv /\ [Next]_vars => MoneyInv'
  <2> SUFFICES ASSUME Known, MoneyInv, [Next]_vars, NEW r \in Runs PROVE Settling(r)'
    BY DEF MoneyInv
  <2> QED  BY StepIsHonest DEF Honest
<1> QED  BY <1>1, <1>2, InitIsSettled, TypesAlways, MeteringAlways, PTL DEF Spec

\* However a run ended, it holds no credits (reconcile_work_run, cancel_work_run,
\* the failure path of start_work_run).
THEOREM EndedHoldNothing == Spec => []EndedRunsHoldNothing
<1>1. Known /\ MoneyInv => EndedRunsHoldNothing
  BY DEF MoneyInv, Settling, EndedRunsHoldNothing
<1> QED  BY <1>1, MoneyAlways, PTL

\* The credit transaction exists exactly for a settled run and charges what its
\* reservation was settled with: the usage calculated, or the budget when the
\* allowance does not cover the rest (_settle_work_billing).
THEOREM LedgerCovers == Spec => []LedgerMatchesCharge
<1>1. Known /\ MoneyInv => LedgerMatchesCharge
  BY DEF MoneyInv, Settling, Accounts, LedgerMatchesCharge
<1> QED  BY <1>1, MoneyAlways, PTL

\* Every table, request and session of Work is well typed (service.py,
\* work_repository.py).
THEOREM WorkTyping == Spec => []TypeOK
<1>1. ASSUME Types PROVE AgentTypeOK
  <2>1. ASSUME NEW s \in Sessions
        PROVE  /\ session[s].status \in {"absent", "idle", "running"}
               /\ session[s].usage \in 0 .. MaxUsage
               /\ session[s].output \in 0 .. MaxOutput
               /\ session[s].cap \in Nat
               /\ \A i \in DOMAIN session[s].events :
                     /\ session[s].events[i].type \in EventTypes
                     /\ session[s].events[i].tools \subseteq Tools
               /\ session[s].blocked \subseteq Tools
               /\ session[s].ran \subseteq Tools
               /\ session[s].interrupted \in BOOLEAN
    <3>1. session[s] \in SessionType /\ session[s].events \in Seq(EventType)
      BY <1>1, SessionFacts DEF Types, Agent
    <3>2. \A i \in DOMAIN session[s].events : session[s].events[i] \in EventType
      BY <3>1, LenProperties, ElementOfSeq
    <3>3. \A i \in DOMAIN session[s].events :
              /\ session[s].events[i].type \in EventTypes
              /\ session[s].events[i].tools \subseteq Tools
      BY <3>2 DEF EventType
    <3>4. session[s].cap \in Nat /\ session[s].blocked \subseteq Tools
      BY <3>1 DEF SessionType
    <3>5. session[s].ran \subseteq Tools  BY <3>1 DEF SessionType
    <3>6. session[s].interrupted \in BOOLEAN  BY <3>1 DEF SessionType
    <3> QED  BY <1>1, <3>3, <3>4, <3>5, <3>6, SessionFacts DEF Types
  <2> QED  BY <2>1 DEF AgentTypeOK
<1>2. ASSUME Types PROVE ToolsTypeOK
  <2>1. Tables  BY <1>2 DEF Types
  <2> QED  BY <2>1, RowsOf DEF ToolsTypeOK, Tables
<1>3. ASSUME Types, NEW r \in Runs
      PROVE  /\ run[r].status \in Active \cup Terminal \cup {None}
             /\ run[r].session \in Sessions \cup {None}
             /\ lease[r] \in Workers \cup {None}
             /\ lost[r] \in [interrupt : BOOLEAN, denials : SUBSET (Tools \X Nat)]
  <2>1. run[r] \in RunType  BY <1>3 DEF Types, Rows
  <2>2. run[r].status \in Active \cup Terminal \cup {None}  BY <2>1 DEF RunType, Status
  <2>3. run[r].session \in Sessions \cup {None}  BY <2>1 DEF RunType
  <2> QED  BY <1>3, <2>2, <2>3 DEF Types, Links, LostType
<1>4. Known /\ MoneyInv => TypeOK
  <2> SUFFICES ASSUME Known, MoneyInv PROVE TypeOK  OBVIOUS
  <2>1. linked \in Sessions \cup {None} /\ consent \subseteq Tools
    BY DEF Known, Types, Links
  <2>2. \A r \in Runs : ledger[r] \in [billed : Nat, calculated : Nat]
    BY DEF MoneyInv, Settling, Accounts, EntryType
  <2> QED  BY <1>1, <1>2, <1>3, <2>1, <2>2 DEF TypeOK, Known
<1> QED  BY <1>4, MoneyAlways, PTL

\* A run is charged once, in the step that ends it (_apply_work_progress).
THEOREM ChargedOnce == Spec => ChargedWhenEnding
<1> DEFINE Once == \A r \in Runs :
                settled'[r] # settled[r] =>
                    /\ settled[r] = 0
                    /\ run[r].status \in Active
                    /\ run'[r].status \in Terminal
<1>1. Known /\ MoneyInv /\ [Next]_vars => [Once]_vars
  <2> SUFFICES ASSUME Known, MoneyInv, [Next]_vars, NEW r \in Runs, settled'[r] # settled[r]
               PROVE  /\ settled[r] = 0
                      /\ run[r].status \in Active
                      /\ run'[r].status \in Terminal
    OBVIOUS
  <2> QED  BY StepIsHonest DEF Honest, Charged
<1> QED  BY <1>1, MoneyAlways, PTL DEF Spec, ChargedWhenEnding

----------------------------------------------------------------------------
(* What reconciliations have left to tell the provider.                       *)

TellsLess(old, new) ==
    /\ new.todo.allow \subseteq old.todo.allow
    /\ new.todo.expired \subseteq old.todo.expired
    /\ new.todo.expired # {} => new.run = old.run
LessToTell == \A v \in Workers : TellsLess(worker[v], worker'[v])

LEMMA NothingMoreToTell == ASSUME UNCHANGED worker PROVE LessToTell
  BY DEF LessToTell, TellsLess

LEMMA PutLess ==
    ASSUME Types, NEW w \in Workers, NEW q, worker' = [worker EXCEPT ![w] = q],
           TellsLess(worker[w], q)
    PROVE  LessToTell
<1> SUFFICES ASSUME NEW v \in Workers PROVE TellsLess(worker[v], worker'[v])  BY DEF LessToTell
<1>0. worker \in [Workers -> GoodWorker]  BY DEF Types, Syncs
<1>1. CASE v = w  BY <1>0, <1>1
<1>2. CASE v # w
  <2>1. worker'[v] = worker[v]  BY <1>0, <1>2
  <2> QED  BY <2>1 DEF TellsLess
<1> QED  BY <1>1, <1>2

LEMMA LeaveTellsLess == ASSUME NEW me \in GoodWorker, me.pc # "idle" PROVE TellsLess(me, Leave(me))
  BY LeaveFits DEF TellsLess, NoEffects

LEMMA IdleTellsLess == ASSUME NEW me, NEW q, q.todo = NoEffects PROVE TellsLess(me, q)
  BY DEF TellsLess, NoEffects

LEMMA ContinueTellsLess ==
    ASSUME NEW me \in GoodWorker, me.pc # "idle", NEW todo \in EffectsType,
           todo.allow \subseteq me.todo.allow, todo.expired \subseteq me.todo.expired
    PROVE  TellsLess(me, Continue(me, todo))
<1>1. Continue(me, todo).todo = todo  BY ContinueFits
<1>2. todo.expired # {} => todo # NoEffects  BY DEF NoEffects
<1> QED  BY <1>1, <1>2, ContinueFits DEF TellsLess

LEMMA LessTodos ==
    ASSUME NEW me \in GoodWorker
    PROVE  /\ [me.todo EXCEPT !.finalize = FALSE].allow = me.todo.allow
           /\ [me.todo EXCEPT !.finalize = FALSE].expired = me.todo.expired
           /\ [me.todo EXCEPT !.interrupt = FALSE, !.allow = {}, !.deny = {}].allow = {}
           /\ [me.todo EXCEPT !.interrupt = FALSE, !.allow = {}, !.deny = {}].expired = me.todo.expired
           /\ \A x : /\ [me.todo EXCEPT !.expired = @ \ {x}].allow = me.todo.allow
                     /\ [me.todo EXCEPT !.expired = @ \ {x}].expired = me.todo.expired \ {x}
           /\ \A t : /\ [me.todo EXCEPT !.allow = @ \ {t}, !.deny =
                            IF t \in me.todo.allow THEN @ ELSE @ \ {t}].allow = me.todo.allow \ {t}
                     /\ [me.todo EXCEPT !.allow = @ \ {t}, !.deny =
                            IF t \in me.todo.allow THEN @ ELSE @ \ {t}].expired = me.todo.expired
<1> DEFINE todo == me.todo
<1>1. todo \in EffectsType  BY DEF GoodWorker, WorkerType
<1> HIDE DEF todo
<1>2. /\ [todo EXCEPT !.finalize = FALSE].allow = todo.allow
      /\ [todo EXCEPT !.finalize = FALSE].expired = todo.expired
  BY <1>1 DEF EffectsType
<1>3. /\ [todo EXCEPT !.interrupt = FALSE, !.allow = {}, !.deny = {}].allow = {}
      /\ [todo EXCEPT !.interrupt = FALSE, !.allow = {}, !.deny = {}].expired = todo.expired
  BY <1>1 DEF EffectsType
<1>4. ASSUME NEW x
      PROVE  /\ [todo EXCEPT !.expired = @ \ {x}].allow = todo.allow
             /\ [todo EXCEPT !.expired = @ \ {x}].expired = todo.expired \ {x}
  BY <1>1 DEF EffectsType
<1>5. ASSUME NEW t
      PROVE  /\ [todo EXCEPT !.allow = @ \ {t}, !.deny =
                    IF t \in todo.allow THEN @ ELSE @ \ {t}].allow = todo.allow \ {t}
             /\ [todo EXCEPT !.allow = @ \ {t}, !.deny =
                    IF t \in todo.allow THEN @ ELSE @ \ {t}].expired = todo.expired
  BY <1>1 DEF EffectsType
<1> QED  BY <1>2, <1>3, <1>4, <1>5 DEF todo

LEMMA TellsPart ==
    ASSUME Types, NEW w \in Workers, worker[w].pc = "effects",
           \/ SendFinalize(w) \/ SendInterruptRequest(w)
           \/ \E t \in Tools : TellAutomatic(w, t)
           \/ \E x \in worker[w].todo.expired : TellExpired(w, x) \/ FailExpired(w, x)
    PROVE  LessToTell
<1> DEFINE me == worker[w]
<1>0. me \in GoodWorker /\ me.pc # "idle" /\ me.pc = "effects"  BY DEF Types, Syncs
<1>1. PICK todo \in EffectsType : /\ worker' = [worker EXCEPT ![w] = Continue(me, todo)]
                                  /\ todo.allow \subseteq me.todo.allow
                                  /\ todo.expired \subseteq me.todo.expired
  <2>1. CASE SendFinalize(w)  BY <1>0, <2>1, TodoFits, LessTodos DEF SendFinalize
  <2>2. CASE SendInterruptRequest(w)
    BY <1>0, <2>2, TodoFits, LessTodos DEF SendInterruptRequest
  <2>3. ASSUME NEW t \in Tools, TellAutomatic(w, t)
        PROVE  \E todo \in EffectsType : /\ worker' = [worker EXCEPT ![w] = Continue(me, todo)]
                                         /\ todo.allow \subseteq me.todo.allow
                                         /\ todo.expired \subseteq me.todo.expired
    <3> DEFINE todo == [me.todo EXCEPT !.allow = @ \ {t},
                                       !.deny = IF t \in me.todo.allow THEN @ ELSE @ \ {t}]
    <3>1. worker' = [worker EXCEPT ![w] = Continue(me, todo)]  BY <2>3 DEF TellAutomatic
    <3>2. todo \in EffectsType  BY <1>0, TodoFits
    <3>3. todo.allow \subseteq me.todo.allow /\ todo.expired \subseteq me.todo.expired
      BY <1>0, LessTodos
    <3> HIDE DEF todo
    <3> QED  BY <3>1, <3>2, <3>3
  <2>4. ASSUME NEW x \in me.todo.expired, TellExpired(w, x) \/ FailExpired(w, x)
        PROVE  \E todo \in EffectsType : /\ worker' = [worker EXCEPT ![w] = Continue(me, todo)]
                                         /\ todo.allow \subseteq me.todo.allow
                                         /\ todo.expired \subseteq me.todo.expired
    <3> DEFINE todo == [me.todo EXCEPT !.expired = @ \ {x}]
    <3>1. worker' = [worker EXCEPT ![w] = Continue(me, todo)]
      BY <2>4 DEF TellExpired, FailExpired
    <3>2. todo \in EffectsType  BY <1>0, TodoFits
    <3>3. todo.allow \subseteq me.todo.allow /\ todo.expired \subseteq me.todo.expired
      BY <1>0, LessTodos
    <3> HIDE DEF todo
    <3> QED  BY <3>1, <3>2, <3>3
  <2> QED  BY <2>1, <2>2, <2>3, <2>4
<1> QED  BY <1>0, <1>1, ContinueTellsLess, PutLess

\* Only the main transaction of a reconciliation adds to it.
LEMMA WorkersTellLess ==
    ASSUME Types, NEW w \in Workers,
           SyncStep(w) \/ CancelStep(w) \/ CrashWorker(w), ~ApplyProgress(w)
    PROVE  LessToTell
<1> DEFINE me == worker[w]
<1>0. /\ me \in GoodWorker /\ me \in WorkerType /\ worker \in [Workers -> GoodWorker]
      /\ Idle.todo = NoEffects /\ Idle \in WorkerType
  BY IdleFits DEF Types, Syncs, GoodWorker, Idle
<1>1. ASSUME NEW q, q.todo = NoEffects, worker' = [worker EXCEPT ![w] = q] PROVE LessToTell
  BY <1>1, IdleTellsLess, PutLess
<1>2. ASSUME NEW q, q.todo = me.todo, q.run = me.run, worker' = [worker EXCEPT ![w] = q]
      PROVE LessToTell
  <2>1. TellsLess(me, q)  BY <1>2 DEF TellsLess
  <2> QED  BY <1>2, <2>1, PutLess
<1>3. ASSUME NEW r \in Runs, StartSync(w, r) \/ ReadForCancel(w, r) PROVE LessToTell
  <2> DEFINE s == SessionOf(r)
             a == [Idle EXCEPT !.pc = "events", !.run = r, !.cancel = me.cancel,
                               !.session = s, !.row = run[r]]
             pc == IF s = None THEN "sync" ELSE "stop"
             b == [Idle EXCEPT !.pc = pc, !.run = r, !.cancel = TRUE, !.session = s]
  <2>1. \/ worker' = [worker EXCEPT ![w] = a] \/ worker' = [worker EXCEPT ![w] = b]
    BY <1>3 DEF StartSync, ReadForCancel
  <2> HIDE DEF s, pc
  <2>2. a.todo = NoEffects /\ b.todo = NoEffects  BY <1>0 DEF WorkerType
  <2> HIDE DEF a, b
  <2> QED  BY <1>1, <2>1, <2>2
<1>4. CASE ReadEvents(w) \/ ReadSession(w) \/ Identify(w) \/ StopProvider(w)
  <2> DEFINE s == session[me.session]
             seen == NewEvents(me.row, me.session)
             pc == IF me.row.known THEN "apply" ELSE "identify"
             row == [me.row EXCEPT !.known = TRUE]
             a == [me EXCEPT !.pc = "session", !.seen = seen]
             b == [me EXCEPT !.pc = pc, !.status = s.status, !.usage = s.usage,
                             !.output = s.output]
             c == [me EXCEPT !.pc = "apply", !.row = row]
             e == [me EXCEPT !.pc = "sync"]
  <2>1. ReadEvents(w) => worker' = [worker EXCEPT ![w] = a]  BY <1>0 DEF ReadEvents
  <2>2. ReadSession(w) => worker' = [worker EXCEPT ![w] = b]  BY <1>0 DEF ReadSession
  <2>3. Identify(w) => worker' = [worker EXCEPT ![w] = c]  BY <1>0 DEF Identify, WorkerType
  <2>4. StopProvider(w) => worker' = [worker EXCEPT ![w] = e]  BY <1>0 DEF StopProvider
  <2> HIDE DEF s, seen, pc, row
  <2>5. a.todo = me.todo /\ a.run = me.run /\ b.todo = me.todo /\ b.run = me.run
    BY <1>0 DEF WorkerType
  <2>6. c.todo = me.todo /\ c.run = me.run /\ e.todo = me.todo /\ e.run = me.run
    BY <1>0 DEF WorkerType
  <2> HIDE DEF a, b, c, e
  <2> QED  BY <1>2, <1>4, <2>1, <2>2, <2>3, <2>4, <2>5, <2>6
<1>5. CASE FailSync(w) \/ FailInterruptRequest(w) \/ SkipSync(w)
  <2>1. me.pc # "idle" /\ worker' = [worker EXCEPT ![w] = Leave(me)]
    BY <1>5 DEF FailSync, FailInterruptRequest, SkipSync
  <2> QED  BY <1>0, <2>1, LeaveTellsLess, PutLess
<1>6. CASE CrashWorker(w) \/ FailStopProvider(w) \/ ForceCancel(w)
  <2>1. worker' = [worker EXCEPT ![w] = Idle]
    BY <1>6 DEF CrashWorker, FailStopProvider, ForceCancel
  <2> QED  BY <1>0, <1>1, <2>1
<1>7. CASE \/ SendFinalize(w) \/ SendInterruptRequest(w)
           \/ \E t \in Tools : TellAutomatic(w, t)
           \/ \E x \in me.todo.expired : TellExpired(w, x) \/ FailExpired(w, x)
  <2>1. me.pc = "effects"
    BY <1>7 DEF SendFinalize, SendInterruptRequest, TellAutomatic, TellExpired, FailExpired,
       TellsExpired
  <2> QED  BY <1>7, <2>1, TellsPart
<1> QED  BY <1>3, <1>4, <1>5, <1>6, <1>7 DEF SyncStep, CancelStep
----------------------------------------------------------------------------
(* Consent.  A tool is Fine when its user agreed to it; consent only grows,   *)
(* and the program tells the provider to run a tool only when it is Fine:     *)
(* what is inductive says so of every place a confirmation waits in.          *)

Alike(t) == \E u \in consent : Name[u] = Name[t]
Fine(t) == Class[t] = "READ" \/ t \in consent \/ (Class[t] = "WRITE" /\ Alike(t))
Approving(me) == me.pc \in {"tell", "reopen", "finish"} /\ me.decision = "approved"

RanFine == \A s \in Sessions : \A t \in session[s].ran : Fine(t)
AllowFine == \A w \in Workers : \A t \in worker[w].todo.allow : Fine(t)
ApprovedFine == \A d \in Deciders : Approving(decider[d]) => decider[d].tool \in consent
GrantsFine == \A g \in grants : \E u \in consent : Name[u] = g
ConsentInv == RanFine /\ AllowFine /\ ApprovedFine /\ GrantsFine

Grows == consent \subseteq consent'

LEMMA FineGrows == ASSUME Grows, NEW t, Fine(t) PROVE Fine(t)'
  BY DEF Grows, Fine, Alike

LEMMA SilentFine == ASSUME GrantsFine, NEW t, Silent(t) PROVE Fine(t)
  BY DEF GrantsFine, Silent, Fine, Alike

LEMMA RanStaysFine ==
    ASSUME RanFine, Grows, NEW T, Operated(T), \A t \in T : Fine(t) PROVE RanFine'
<1> SUFFICES ASSUME NEW s \in Sessions, NEW t \in session'[s].ran PROVE Fine(t)'
  BY DEF RanFine
<1>1. t \in session[s].ran \cup T  BY DEF Operated
<1>2. Fine(t)  BY <1>1 DEF RanFine
<1> QED  BY <1>2, FineGrows

LEMMA AllowStaysFine == ASSUME AllowFine, Grows, LessToTell PROVE AllowFine'
<1> SUFFICES ASSUME NEW v \in Workers, NEW t \in worker'[v].todo.allow PROVE Fine(t)'
  BY DEF AllowFine
<1>1. t \in worker[v].todo.allow  BY DEF LessToTell, TellsLess
<1>2. Fine(t)  BY <1>1 DEF AllowFine
<1> QED  BY <1>2, FineGrows

LEMMA ApprovedStaysFine == ASSUME ApprovedFine, Grows, UNCHANGED decider PROVE ApprovedFine'
  BY DEF ApprovedFine, Grows, Approving

LEMMA PutApproved ==
    ASSUME Types, ApprovedFine, Grows, NEW d \in Deciders, NEW q,
           decider' = [decider EXCEPT ![d] = q], Approving(q) => q.tool \in consent'
    PROVE  ApprovedFine'
<1> SUFFICES ASSUME NEW e \in Deciders, Approving(decider'[e]) PROVE decider'[e].tool \in consent'
  BY DEF ApprovedFine, Approving
<1>0. decider \in [Deciders -> GoodDecider]  BY DEF Types, Decisions
<1>1. CASE e = d  BY <1>0, <1>1
<1>2. CASE e # d
  <2>1. decider'[e] = decider[e]  BY <1>0, <1>2
  <2> QED  BY <2>1 DEF ApprovedFine, Grows
<1> QED  BY <1>1, <1>2

LEMMA GrantsStayFine == ASSUME GrantsFine, Grows, UNCHANGED grants PROVE GrantsFine'
  BY DEF GrantsFine, Grows

\* A step that decides nothing, confirms no tool and has nothing new to confirm.
LEMMA ConsentStays ==
    ASSUME ConsentInv, LessToTell, Operated({}), UNCHANGED <<decider, grants, consent>>
    PROVE  ConsentInv'
<1>1. Grows /\ UNCHANGED decider /\ UNCHANGED grants  BY DEF Grows
<1> QED
  BY <1>1, RanStaysFine, AllowStaysFine, ApprovedStaysFine, GrantsStayFine DEF ConsentInv

\* A failed start may have made one call, of those a start makes.
LEMMA FailCalls ==
    ASSUME NEW r \in Runs, FailStart(r)
    PROVE  \/ UNCHANGED session
           \/ \E s \in Sessions : CreateSession(s, Budget)
           \/ ExtendForRun(r)
           \/ SendInstruction(start[r].base.session)
BY DEF FailStart, Instruct

\* The requests that start a run, and what happens by itself.
LEMMA StartRunsNothing ==
    ASSUME Types, ConsentInv, NEW r \in Runs,
           CreateRun(r) \/ StartStep(r) \/ FailStart(r) \/ CrashStart(r) \/ ExpireLease(r)
    PROVE  ConsentInv'
<1>0. Agent  BY DEF Types
<1>1. UNCHANGED worker /\ UNCHANGED <<decider, grants, consent>>
  BY DEF CreateRun, StartStep, ReadBaseline, ReadBaselineEvents, ExtendProviderBudget,
     OpenSession, RecordSession, SendFirstInstruction, ConfirmStart, StartUnchanged,
     FailStart, CrashStart, ExpireLease, SyncUnchanged, toolTables
<1>2. Operated({})
  <2>1. CASE ExtendProviderBudget(r)
    <3>1. start[r].base.usage + Budget \in Nat
      BY BudgetIsQuantity DEF Types, Starts, GoodStart, StartType, BaseType
    <3> QED  BY <1>0, <2>1, <3>1, ExtendOperates DEF ExtendProviderBudget, ExtendForRun
  <2>2. CASE \E s \in Sessions : OpenSession(r, s)
    BY <1>0, <2>2, BudgetIsQuantity, CreateOperates DEF OpenSession
  <2>5. CASE FailStart(r)
    <3>1. start[r].base.usage + Budget \in Nat
      BY BudgetIsQuantity DEF Types, Starts, GoodStart, StartType, BaseType
    <3>2. CASE UNCHANGED session  BY <1>0, <3>2, NotOperated
    <3>3. CASE \E s \in Sessions : CreateSession(s, Budget)
      BY <1>0, <3>3, BudgetIsQuantity, CreateOperates
    <3>4. CASE ExtendForRun(r)  BY <1>0, <3>1, <3>4, ExtendOperates DEF ExtendForRun
    <3>5. CASE SendInstruction(start[r].base.session)  BY <1>0, <3>5, InstructOperates
    <3> QED  BY <2>5, <3>2, <3>3, <3>4, <3>5, FailCalls
  <2>3. CASE SendFirstInstruction(r)
    <3>1. SendInstruction(start[r].base.session) \/ UNCHANGED session
      BY <2>3 DEF SendFirstInstruction, Instruct
    <3> QED  BY <1>0, <3>1, InstructOperates, NotOperated
  <2>4. CASE \/ CreateRun(r) \/ ReadBaseline(r) \/ ReadBaselineEvents(r) \/ RecordSession(r)
             \/ ConfirmStart(r) \/ CrashStart(r) \/ ExpireLease(r)
    <3>1. UNCHANGED session
      BY <2>4 DEF CreateRun, ReadBaseline, ReadBaselineEvents, RecordSession, ConfirmStart,
         CrashStart, ExpireLease, SyncUnchanged
    <3> QED  BY <1>0, <3>1, NotOperated
  <2> QED  BY <2>1, <2>2, <2>3, <2>4, <2>5 DEF StartStep
<1> QED  BY <1>1, <1>2, ConsentStays, NothingMoreToTell

LEMMA TimeRunsNothing ==
    ASSUME Types, ConsentInv,
           \/ \E r \in Runs, t \in Tools : \E i \in DOMAIN approvals[r][t] : ApprovalTimesOut(r, t, i)
           \/ ReservationAges
           \/ \E s \in Sessions : AgentWorks(s)
           \/ UNCHANGED vars
    PROVE  ConsentInv'
<1>1. UNCHANGED worker /\ UNCHANGED <<decider, grants, consent>>
  BY DEF ApprovalTimesOut, ReservationAges, AgentWorks, Elsewhere, processes, vars, toolTables
<1>2. Agent  BY DEF Types
<1>3. UNCHANGED session \/ \E s \in Sessions : AgentStep(s)
  BY DEF ApprovalTimesOut, ReservationAges, AgentWorks, vars
<1>4. Operated({})  BY <1>2, <1>3, NotOperated, AgentOperates
<1> QED  BY <1>1, <1>4, ConsentStays, NothingMoreToTell

\* The calls of a reconciliation or a cancellation: it confirms what it found fine.
LEMMA WorkersRunFine ==
    ASSUME Types, ConsentInv, NEW w \in Workers,
           SyncStep(w) \/ CancelStep(w) \/ CrashWorker(w), ~ApplyProgress(w)
    PROVE  ConsentInv'
<1> DEFINE me == worker[w]
<1>0. Agent  BY DEF Types
<1>1. UNCHANGED <<decider, grants, consent>>
  BY DEF SyncStep, StartSync, ReadEvents, ReadSession, Identify, FailSync, SyncUnchanged,
     SendFinalize, SendInterruptRequest, FailInterruptRequest, TellAutomatic, TellExpired,
     FailExpired, EffectsUnchanged, CancelStep, ReadForCancel, StopProvider,
     FailStopProvider, SkipSync, ForceCancel, CancelUnchanged, CrashWorker, toolTables
<1>2. LessToTell  BY WorkersTellLess
<1>3. CASE Operated({})  BY <1>1, <1>2, <1>3, ConsentStays
<1>4. ASSUME NEW t \in Tools, TellAutomatic(w, t) PROVE ConsentInv'
  <2>1. CASE t \in me.todo.allow /\ Tell(me.session, t, TRUE)
    <3>1. ConfirmTool(me.session, t, TRUE) \/ UNCHANGED session  BY <2>1 DEF Tell
    <3>2. Operated({t})  BY <1>0, <3>1, ConfirmOperates, NotOperated
    <3>3. Fine(t)  BY <2>1 DEF ConsentInv, AllowFine
    <3>4. Grows /\ UNCHANGED decider /\ UNCHANGED grants  BY <1>1 DEF Grows
    <3>5. RanFine'  BY <3>2, <3>3, <3>4, RanStaysFine DEF ConsentInv
    <3> QED
      BY <1>2, <3>4, <3>5, AllowStaysFine, ApprovedStaysFine, GrantsStayFine DEF ConsentInv
  <2>2. CASE Tell(me.session, t, FALSE)
    <3>1. ConfirmTool(me.session, t, FALSE) \/ UNCHANGED session  BY <2>2 DEF Tell
    <3>2. Operated({})  BY <1>0, <3>1, ConfirmOperates, NotOperated
    <3> QED  BY <1>3, <3>2
  <2> QED  BY <1>4, <2>1, <2>2 DEF TellAutomatic
<1>5. CASE \/ SendFinalize(w) \/ SendInterruptRequest(w) \/ FailInterruptRequest(w)
           \/ StopProvider(w) \/ FailStopProvider(w)
  <2>1. \/ SendInstruction(me.session) \/ SendInterrupt(me.session)
        \/ SendInterrupt(me.session) \/ UNCHANGED session
    BY <1>5 DEF SendFinalize, SendInterruptRequest, FailInterruptRequest, StopProvider,
       FailStopProvider
  <2>2. Operated({})  BY <1>0, <2>1, InstructOperates, InterruptOperates, NotOperated
  <2> QED  BY <1>3, <2>2
<1>6. CASE \E x \in me.todo.expired : TellExpired(w, x) \/ FailExpired(w, x)
  <2>1. (\E x \in me.todo.expired : ConfirmTool(me.session, x[1], FALSE)) \/ UNCHANGED session
    BY <1>6 DEF TellExpired, FailExpired
  <2>2. Operated({})  BY <1>0, <2>1, ConfirmOperates, NotOperated
  <2> QED  BY <1>3, <2>2
<1>7. CASE \/ \E r \in Runs : StartSync(w, r) \/ ReadForCancel(w, r)
           \/ ReadEvents(w) \/ ReadSession(w) \/ Identify(w) \/ FailSync(w)
           \/ SkipSync(w) \/ ForceCancel(w) \/ CrashWorker(w)
  <2>1. UNCHANGED session
    BY <1>7 DEF StartSync, ReadForCancel, ReadEvents, ReadSession, Identify, FailSync, SkipSync,
       ForceCancel, CrashWorker, SyncUnchanged
  <2>2. Operated({})  BY <1>0, <2>1, NotOperated
  <2> QED  BY <1>3, <2>2
<1> QED  BY <1>4, <1>5, <1>6, <1>7 DEF SyncStep, CancelStep

LEMMA ApplyFindsFine ==
    ASSUME Types, ConsentInv, NEW w \in Workers, ApplyProgress(w)
    PROVE  ConsentInv'
<1> DEFINE me == worker[w]
<1>0. me \in GoodWorker /\ me.pc \in SyncPc /\ me.pc # "idle" /\ worker \in [Workers -> GoodWorker]
  BY DEF Types, Syncs, ApplyProgress, SyncPc
<1>1. Grows /\ UNCHANGED decider /\ UNCHANGED grants /\ UNCHANGED session
  BY DEF ApplyProgress, SyncUnchanged, Grows
<1>2. Operated({})  BY <1>1, NotOperated DEF Types
<1>3. RanFine'  BY <1>1, <1>2, RanStaysFine DEF ConsentInv
<1>4. AllowFine'
  <2> SUFFICES ASSUME NEW v \in Workers, NEW t \in worker'[v].todo.allow PROVE Fine(t)'
    BY DEF AllowFine
  <2>1. worker' = [worker EXCEPT ![w] = Continue(me, Effects(me))]  BY DEF ApplyProgress
  <2>2. CASE v = w
    <3>1. worker'[v] = Continue(me, Effects(me))  BY <1>0, <2>1, <2>2
    <3>2. worker'[v].todo = Effects(me)  BY <1>0, <3>1, EffectsFit, ContinueFits
    <3>3. t \in AutoConfirm(me.seen)  BY <3>2 DEF Effects
    <3>4. Fine(t)  BY <3>3, SilentFine DEF AutoConfirm, ConsentInv
    <3> QED  BY <1>1, <3>4, FineGrows
  <2>3. CASE v # w
    <3>1. worker'[v] = worker[v]  BY <1>0, <2>1, <2>3
    <3>2. Fine(t)  BY <3>1 DEF ConsentInv, AllowFine
    <3> QED  BY <1>1, <3>2, FineGrows
  <2> QED  BY <2>2, <2>3
<1> QED  BY <1>1, <1>3, <1>4, ApprovedStaysFine, GrantsStayFine DEF ConsentInv

LEMMA DecisionsAreFine ==
    ASSUME Types, ConsentInv, NEW d \in Deciders, DecideStep(d) \/ CrashDecider(d)
    PROVE  ConsentInv'
<1> DEFINE me == decider[d]
           done == [NoDecision EXCEPT !.pc = "done"]
<1>0. /\ me \in GoodDecider /\ me \in DeciderType /\ Agent
      /\ decider \in [Deciders -> GoodDecider]
  BY DEF Types, Decisions, GoodDecider
<1>1. UNCHANGED worker /\ LessToTell
  BY NothingMoreToTell DEF DecideStep, Decide, TellDecision, FailDecision, ReopenDecision,
     FinishDecision, CrashDecider, DecideUnchanged
<1>2. ASSUME NEW r \in Runs, NEW t \in Tools, NEW i \in DOMAIN approvals[r][t],
             NEW decision \in {"approved", "denied"}, NEW remember \in BOOLEAN,
             Decide(d, r, t, i, decision, remember)
      PROVE  ConsentInv'
  <2> DEFINE q == [pc |-> "tell", run |-> r, tool |-> t, index |-> i,
                   decision |-> decision, remember |-> remember]
  <2>1. /\ UNCHANGED session /\ UNCHANGED grants /\ decider' = [decider EXCEPT ![d] = q]
        /\ consent' = IF decision = "approved" THEN consent \cup {t} ELSE consent
    BY <1>2 DEF Decide
  <2>2. Grows  BY <2>1 DEF Grows
  <2>3. q.decision = "approved" => q.tool \in consent'  BY <2>1
  <2> HIDE DEF q
  <2>4. ApprovedFine'  BY <2>1, <2>2, <2>3, PutApproved DEF ConsentInv, Approving
  <2>5. Operated({})  BY <1>0, <2>1, NotOperated
  <2> QED  BY <1>1, <2>1, <2>2, <2>4, <2>5, RanStaysFine, AllowStaysFine, GrantsStayFine
           DEF ConsentInv
<1>3. CASE TellDecision(d) \/ FailDecision(d)
  <2>1. PICK pc \in {"finish", "reopen"} : decider' = [decider EXCEPT ![d].pc = pc]
    BY <1>3 DEF TellDecision, FailDecision
  <2>2. /\ me.pc = "tell" /\ UNCHANGED grants /\ Grows
        /\ \/ ConfirmTool(SessionOf(me.run), me.tool, me.decision = "approved")
           \/ UNCHANGED session
    BY <1>3 DEF TellDecision, FailDecision, toolTables, Grows
  <2> DEFINE q == [me EXCEPT !.pc = pc]
             T == IF me.decision = "approved" THEN {me.tool} ELSE {}
  <2>3. q.tool = me.tool /\ q.decision = me.decision  BY <1>0 DEF DeciderType
  <2>4. decider' = [decider EXCEPT ![d] = q]  BY <2>1
  <2>5. me.decision = "approved" => me.tool \in consent
    BY <2>2 DEF ConsentInv, ApprovedFine, Approving
  <2> HIDE DEF q
  <2>6. ApprovedFine'
    BY <2>2, <2>3, <2>4, <2>5, PutApproved DEF ConsentInv, Approving, Grows
  <2>7. Operated(T)
    <3> DEFINE yes == me.decision = "approved"
    <3>1. yes \in BOOLEAN  OBVIOUS
    <3>2. ConfirmTool(SessionOf(me.run), me.tool, yes) => Operated(IF yes THEN {me.tool} ELSE {})
      <4> HIDE DEF yes
      <4> QED  BY <1>0, <3>1, ConfirmOperates
    <3>3. UNCHANGED session => Operated(T)  BY <1>0, NotOperated
    <3> QED  BY <2>2, <3>2, <3>3
  <2>8. \A t \in T : Fine(t)  BY <2>5 DEF Fine
  <2> HIDE DEF T
  <2>9. RanFine'  BY <2>2, <2>7, <2>8, RanStaysFine DEF ConsentInv
  <2> QED  BY <1>1, <2>2, <2>6, <2>9, AllowStaysFine, GrantsStayFine DEF ConsentInv
<1>4. CASE ReopenDecision(d) \/ FinishDecision(d) \/ CrashDecider(d)
  <2>1. /\ decider' = [decider EXCEPT ![d] = done] /\ UNCHANGED session /\ UNCHANGED consent
    BY <1>4 DEF ReopenDecision, FinishDecision, CrashDecider
  <2>2. Grows /\ Operated({})  BY <1>0, <2>1, NotOperated DEF Grows
  <2>3. done.pc = "done"  BY DEF NoDecision
  <2> HIDE DEF done
  <2>4. ApprovedFine'  BY <2>1, <2>2, <2>3, PutApproved DEF ConsentInv, Approving
  <2>5. GrantsFine'
    <3>1. CASE UNCHANGED grants  BY <2>2, <3>1, GrantsStayFine DEF ConsentInv
    <3>2. CASE FinishDecision(d) /\ Remembered(me)
      <4>1. grants' = grants \cup {Name[me.tool]} /\ me.pc = "finish"
        BY <3>2 DEF FinishDecision
      <4>2. me.tool \in consent
        BY <3>2, <4>1 DEF Remembered, ConsentInv, ApprovedFine, Approving
      <4> QED  BY <2>1, <4>1, <4>2 DEF ConsentInv, GrantsFine
    <3>3. CASE FinishDecision(d) /\ ~Remembered(me)
      <4>1. UNCHANGED grants  BY <3>3 DEF FinishDecision
      <4> QED  BY <3>1, <4>1
    <3>4. CASE ReopenDecision(d) \/ CrashDecider(d)
      <4>1. UNCHANGED grants  BY <3>4 DEF ReopenDecision, CrashDecider, toolTables
      <4> QED  BY <3>1, <4>1
    <3> QED  BY <1>4, <3>2, <3>3, <3>4
  <2> QED  BY <1>1, <2>2, <2>4, <2>5, RanStaysFine, AllowStaysFine DEF ConsentInv
<1> QED  BY <1>2, <1>3, <1>4 DEF DecideStep

\* A tool that is not read-only ran only by the user's consent
\* (AutoConfirm of _apply_work_progress, _decide_approval).
THEOREM ConsentComesFirst == Spec => []ConsentBeforeAction
<1>1. Init => ConsentInv
  <2> SUFFICES ASSUME Init PROVE ConsentInv  OBVIOUS
  <2>1. RanFine
    <3>1. \A s \in Sessions : session[s] = NoSession  BY DEF Init, AgentInit
    <3>2. NoSession.ran = {}  BY DEF NoSession
    <3> QED  BY <3>1, <3>2 DEF RanFine
  <2>2. AllowFine  BY DEF Init, AllowFine, Idle, NoEffects
  <2>3. ApprovedFine  BY DEF Init, ApprovedFine, Approving, NoDecision
  <2>4. GrantsFine  BY DEF Init, ToolsInit, GrantsFine
  <2> QED  BY <2>1, <2>2, <2>3, <2>4 DEF ConsentInv
<1>2. Types /\ ConsentInv /\ [Next]_vars => ConsentInv'
  BY StartRunsNothing, WorkersRunFine, ApplyFindsFine, DecisionsAreFine, TimeRunsNothing DEF Next
<1>3. ConsentInv => ConsentBeforeAction
  BY DEF ConsentInv, RanFine, Fine, Alike, ConsentBeforeAction
<1> QED  BY <1>1, <1>2, <1>3, TypesAlways, PTL DEF Spec

----------------------------------------------------------------------------
(* Answers.  A request about to answer an approval holds its row: the row has *)
(* the status the request gave it, so nobody else claims it.                  *)

Holds(r, t, i, status) == i \in DOMAIN approvals[r][t] /\ approvals[r][t][i] = status
Tells(me) == me.pc \in {"tell", "reopen"}
SameRow(a, b) == a.run = b.run /\ a.tool = b.tool /\ a.index = b.index

DecidersHold ==
    \A d \in Deciders : Tells(decider[d]) =>
        Holds(decider[d].run, decider[d].tool, decider[d].index, decider[d].decision)
WorkersHold ==
    \A w \in Workers : \A x \in worker[w].todo.expired :
        worker[w].run \in Runs /\ Holds(worker[w].run, x[1], x[2], "expired")
OneDecider ==
    \A d, e \in Deciders :
        Tells(decider[d]) /\ Tells(decider[e]) /\ SameRow(decider[d], decider[e]) => d = e
OneWorker ==
    \A v, w \in Workers :
        /\ worker[v].run = worker[w].run
        /\ worker[v].todo.expired \cap worker[w].todo.expired # {}
        => v = w
AnswerInv == DecidersHold /\ WorkersHold /\ OneDecider /\ OneWorker

\* A row that a step leaves as it is.
Kept(r, t, i) == i \in DOMAIN approvals'[r][t] /\ approvals'[r][t][i] = approvals[r][t][i]

LEMMA RowsKept ==
    ASSUME UNCHANGED approvals, NEW r, NEW t, NEW i \in DOMAIN approvals[r][t]
    PROVE  Kept(r, t, i)
  BY DEF Kept

LEMMA MarkKeeps ==
    ASSUME Tables, NEW r \in Runs, NEW t \in Tools, NEW i \in DOMAIN approvals[r][t],
           NEW mark, approvals' = [approvals EXCEPT ![r][t][i] = mark]
    PROVE  /\ i \in DOMAIN approvals'[r][t] /\ approvals'[r][t][i] = mark
           /\ \A q \in Runs, u \in Tools : \A j \in DOMAIN approvals[q][u] :
                 ~(q = r /\ u = t /\ j = i) => Kept(q, u, j)
<1> DEFINE row == [approvals[r][t] EXCEPT ![i] = mark]
           table == [approvals[r] EXCEPT ![t] = row]
<1>1. /\ approvals \in [Runs -> [Tools -> Seq(ApprovalStatus)]]
      /\ approvals[r] \in [Tools -> Seq(ApprovalStatus)]
  BY DEF Tables
<1>2. approvals' = [approvals EXCEPT ![r] = table]  OBVIOUS
<1>3. DOMAIN row = DOMAIN approvals[r][t] /\ row[i] = mark
      /\ \A j \in DOMAIN approvals[r][t] : j # i => row[j] = approvals[r][t][j]
  OBVIOUS
<1> HIDE DEF row
<1>4. table[t] = row /\ \A u \in Tools : u # t => table[u] = approvals[r][u]  BY <1>1
<1> HIDE DEF table
<1>5. approvals'[r] = table /\ \A q \in Runs : q # r => approvals'[q] = approvals[q]
  BY <1>1, <1>2
<1>6. ASSUME NEW q \in Runs, NEW u \in Tools, NEW j \in DOMAIN approvals[q][u],
             ~(q = r /\ u = t /\ j = i)
      PROVE  Kept(q, u, j)
  <2>1. CASE q # r  BY <1>5, <2>1 DEF Kept
  <2>2. CASE q = r /\ u # t
    <3>1. approvals'[q][u] = approvals[q][u]  BY <1>4, <1>5, <2>2
    <3> QED  BY <3>1 DEF Kept
  <2>3. CASE q = r /\ u = t /\ j # i
    <3>1. approvals'[q][u] = row  BY <1>4, <1>5, <2>3
    <3> QED  BY <1>3, <2>3, <3>1 DEF Kept
  <2> QED  BY <1>6, <2>1, <2>2, <2>3
<1> QED  BY <1>3, <1>4, <1>5, <1>6

\* The deciders when no decision is claimed and their rows are kept.
LEMMA DecidersKeep ==
    ASSUME DecidersHold, OneDecider,
           \A d \in Deciders : Tells(decider'[d]) =>
               /\ Tells(decider[d])
               /\ SameRow(decider[d], decider'[d]) /\ decider'[d].decision = decider[d].decision
               /\ Kept(decider[d].run, decider[d].tool, decider[d].index)
    PROVE  (DecidersHold /\ OneDecider)'
<1>1. DecidersHold'
  <2> SUFFICES ASSUME NEW d \in Deciders, Tells(decider'[d])
               PROVE  /\ decider'[d].index \in DOMAIN approvals'[decider'[d].run][decider'[d].tool]
                      /\ approvals'[decider'[d].run][decider'[d].tool][decider'[d].index]
                            = decider'[d].decision
    BY DEF DecidersHold, Holds, Tells
  <2>1. Holds(decider[d].run, decider[d].tool, decider[d].index, decider[d].decision)
    BY DEF DecidersHold
  <2>2. SameRow(decider[d], decider'[d]) /\ decider'[d].decision = decider[d].decision
    OBVIOUS
  <2>3. Kept(decider[d].run, decider[d].tool, decider[d].index)  OBVIOUS
  <2> QED  BY <2>1, <2>2, <2>3 DEF Holds, Kept, SameRow
<1>2. OneDecider'
  <2> SUFFICES ASSUME NEW d \in Deciders, NEW e \in Deciders, Tells(decider'[d]),
                      Tells(decider'[e]), SameRow(decider'[d], decider'[e])
               PROVE  d = e
    BY DEF OneDecider, Tells, SameRow
  <2>1. Tells(decider[d]) /\ Tells(decider[e])  OBVIOUS
  <2>2. SameRow(decider[d], decider'[d]) /\ SameRow(decider[e], decider'[e])  OBVIOUS
  <2>3. SameRow(decider[d], decider[e])  BY <2>2 DEF SameRow
  <2> QED  BY <2>1, <2>3 DEF OneDecider
<1> QED  BY <1>1, <1>2

\* The reconciliations when none finds an expired approval and their rows are kept.
LEMMA WorkersKeep ==
    ASSUME WorkersHold, OneWorker, LessToTell,
           \A w \in Workers : \A x \in worker'[w].todo.expired : Kept(worker[w].run, x[1], x[2])
    PROVE  (WorkersHold /\ OneWorker)'
<1>1. WorkersHold'
  <2> SUFFICES ASSUME NEW w \in Workers, NEW x \in worker'[w].todo.expired
               PROVE  /\ worker'[w].run \in Runs
                      /\ x[2] \in DOMAIN approvals'[worker'[w].run][x[1]]
                      /\ approvals'[worker'[w].run][x[1]][x[2]] = "expired"
    BY DEF WorkersHold, Holds
  <2>1. x \in worker[w].todo.expired /\ worker'[w].run = worker[w].run
    BY DEF LessToTell, TellsLess
  <2>2. worker[w].run \in Runs /\ Holds(worker[w].run, x[1], x[2], "expired")
    BY <2>1 DEF WorkersHold
  <2>3. Kept(worker[w].run, x[1], x[2])  OBVIOUS
  <2> QED  BY <2>1, <2>2, <2>3 DEF Holds, Kept
<1>2. OneWorker'
  <2> SUFFICES ASSUME NEW v \in Workers, NEW w \in Workers, worker'[v].run = worker'[w].run,
                      NEW x \in worker'[v].todo.expired \cap worker'[w].todo.expired
               PROVE  v = w
    BY DEF OneWorker
  <2>1. /\ x \in worker[v].todo.expired /\ worker'[v].run = worker[v].run
        /\ x \in worker[w].todo.expired /\ worker'[w].run = worker[w].run
    BY DEF LessToTell, TellsLess
  <2> QED  BY <2>1 DEF OneWorker
<1> QED  BY <1>1, <1>2

\* What the requests hold, as rows of the tables.
LEMMA DeciderRow ==
    ASSUME Types, DecidersHold, NEW d \in Deciders, Tells(decider[d])
    PROVE  /\ decider[d].run \in Runs /\ decider[d].tool \in Tools
           /\ decider[d].index \in DOMAIN approvals[decider[d].run][decider[d].tool]
           /\ approvals[decider[d].run][decider[d].tool][decider[d].index] = decider[d].decision
           /\ decider[d].decision \in {"approved", "denied"}
<1>1. decider[d] \in GoodDecider  BY DEF Types, Decisions
<1> QED  BY <1>1 DEF GoodDecider, Tells, DecidersHold, Holds

LEMMA WorkerRow ==
    ASSUME Types, WorkersHold, NEW w \in Workers, NEW x \in worker[w].todo.expired
    PROVE  /\ worker[w].run \in Runs /\ x[1] \in Tools /\ x = <<x[1], x[2]>>
           /\ x[2] \in DOMAIN approvals[worker[w].run][x[1]]
           /\ approvals[worker[w].run][x[1]][x[2]] = "expired"
<1>1. worker[w] \in GoodWorker /\ worker[w] \in WorkerType  BY DEF Types, Syncs, GoodWorker
<1>2. worker[w].todo \in EffectsType  BY <1>1 DEF WorkerType
<1>3. x \in Tools \X Nat  BY <1>2 DEF EffectsType
<1>4. worker[w].run \in Runs /\ Holds(worker[w].run, x[1], x[2], "expired")  BY DEF WorkersHold
<1> QED  BY <1>3, <1>4 DEF Holds

\* Deciders: whoever claims, tells, reopens or finishes leaves the others' rows alone.
LEMMA DecisionsAnswerOnce ==
    ASSUME Types, AnswerInv, NEW d \in Deciders, DecideStep(d) \/ CrashDecider(d)
    PROVE  AnswerInv'
<1> DEFINE me == decider[d]
<1>0. /\ me \in GoodDecider /\ me \in DeciderType /\ Tables
      /\ decider \in [Deciders -> GoodDecider]
  BY DEF Types, Decisions, GoodDecider
<1>1. UNCHANGED worker /\ LessToTell
  BY NothingMoreToTell DEF DecideStep, Decide, TellDecision, FailDecision, ReopenDecision,
     FinishDecision, CrashDecider, DecideUnchanged
<1>2. ASSUME NEW r \in Runs, NEW t \in Tools, NEW i \in DOMAIN approvals[r][t],
             NEW decision \in {"approved", "denied"}, NEW remember \in BOOLEAN,
             Decide(d, r, t, i, decision, remember)
      PROVE  AnswerInv'
  <2> DEFINE q == [pc |-> "tell", run |-> r, tool |-> t, index |-> i,
                   decision |-> decision, remember |-> remember]
  <2>1. /\ decider' = [decider EXCEPT ![d] = q] /\ me.pc = "idle"
        /\ approvals[r][t][i] = "pending"
        /\ approvals' = [approvals EXCEPT ![r][t][i] = decision]
    BY <1>2 DEF Decide, ClaimDecision, Decidable
  <2>2. /\ i \in DOMAIN approvals'[r][t] /\ approvals'[r][t][i] = decision
        /\ \A p \in Runs, u \in Tools : \A j \in DOMAIN approvals[p][u] :
              ~(p = r /\ u = t /\ j = i) => Kept(p, u, j)
    BY <1>0, <2>1, MarkKeeps
  <2>3. ASSUME NEW w \in Workers, NEW x \in worker'[w].todo.expired
        PROVE  Kept(worker[w].run, x[1], x[2])
    <3>1. x \in worker[w].todo.expired  BY <1>1
    <3>2. /\ worker[w].run \in Runs /\ x[1] \in Tools
          /\ x[2] \in DOMAIN approvals[worker[w].run][x[1]]
          /\ approvals[worker[w].run][x[1]][x[2]] = "expired"
      BY <3>1, WorkerRow DEF AnswerInv
    <3>3. ~(worker[w].run = r /\ x[1] = t /\ x[2] = i)  BY <2>1, <3>2
    <3> QED  BY <2>2, <3>2, <3>3
  <2>4. (WorkersHold /\ OneWorker)'  BY <1>1, <2>3, WorkersKeep DEF AnswerInv
  <2>5. decider'[d] = q /\ \A e \in Deciders : e # d => decider'[e] = decider[e]
    BY <1>0, <2>1
  <2>6. q.run = r /\ q.tool = t /\ q.index = i /\ q.decision = decision /\ q.pc = "tell"
    OBVIOUS
  <2> HIDE DEF q
  <2>7. ASSUME NEW e \in Deciders, e # d, Tells(decider[e])
        PROVE  /\ Kept(decider[e].run, decider[e].tool, decider[e].index)
               /\ ~(decider[e].run = r /\ decider[e].tool = t /\ decider[e].index = i)
    <3>1. /\ decider[e].run \in Runs /\ decider[e].tool \in Tools
          /\ decider[e].index \in DOMAIN approvals[decider[e].run][decider[e].tool]
          /\ approvals[decider[e].run][decider[e].tool][decider[e].index] # "pending"
      BY <2>7, DeciderRow DEF AnswerInv
    <3>2. ~(decider[e].run = r /\ decider[e].tool = t /\ decider[e].index = i)
      BY <2>1, <3>1
    <3> QED  BY <2>2, <3>1, <3>2
  <2>8. DecidersHold'
    <3> SUFFICES ASSUME NEW e \in Deciders, Tells(decider'[e])
                 PROVE  /\ decider'[e].index \in DOMAIN approvals'[decider'[e].run][decider'[e].tool]
                        /\ approvals'[decider'[e].run][decider'[e].tool][decider'[e].index]
                              = decider'[e].decision
      BY DEF DecidersHold, Holds, Tells
    <3>1. CASE e = d  BY <2>2, <2>5, <2>6, <3>1
    <3>2. CASE e # d
      <4>1. decider'[e] = decider[e] /\ Tells(decider[e])  BY <2>5, <3>2
      <4>2. Holds(decider[e].run, decider[e].tool, decider[e].index, decider[e].decision)
        BY <4>1 DEF AnswerInv, DecidersHold
      <4>3. Kept(decider[e].run, decider[e].tool, decider[e].index)  BY <2>7, <3>2, <4>1
      <4> QED  BY <4>1, <4>2, <4>3 DEF Holds, Kept
    <3> QED  BY <3>1, <3>2
  <2>9. OneDecider'
    <3> SUFFICES ASSUME NEW e \in Deciders, NEW f \in Deciders, Tells(decider'[e]),
                        Tells(decider'[f]), SameRow(decider'[e], decider'[f])
                 PROVE  e = f
      BY DEF OneDecider, Tells, SameRow
    <3>1. CASE e # d /\ f # d
      <4>1. decider'[e] = decider[e] /\ decider'[f] = decider[f]  BY <2>5, <3>1
      <4> QED  BY <4>1 DEF AnswerInv, OneDecider
    <3>2. CASE e = d /\ f # d
      <4>1. decider'[f] = decider[f] /\ Tells(decider[f])  BY <2>5, <3>2
      <4>2. decider[f].run = r /\ decider[f].tool = t /\ decider[f].index = i
        BY <2>5, <2>6, <3>2, <4>1 DEF SameRow
      <4> QED  BY <2>7, <3>2, <4>1, <4>2
    <3>3. CASE e # d /\ f = d
      <4>1. decider'[e] = decider[e] /\ Tells(decider[e])  BY <2>5, <3>3
      <4>2. decider[e].run = r /\ decider[e].tool = t /\ decider[e].index = i
        BY <2>5, <2>6, <3>3, <4>1 DEF SameRow
      <4> QED  BY <2>7, <3>3, <4>1, <4>2
    <3> QED  BY <3>1, <3>2, <3>3
  <2> QED  BY <2>4, <2>8, <2>9 DEF AnswerInv
<1>3. ASSUME NEW q, decider' = [decider EXCEPT ![d] = q],
             Tells(q) => Tells(me) /\ SameRow(me, q) /\ q.decision = me.decision,
             \A e \in Deciders : Tells(decider'[e]) =>
                 Kept(decider[e].run, decider[e].tool, decider[e].index),
             \A w \in Workers : \A x \in worker'[w].todo.expired :
                 Kept(worker[w].run, x[1], x[2])
      PROVE  AnswerInv'
  <2>1. ASSUME NEW e \in Deciders, Tells(decider'[e])
        PROVE  /\ Tells(decider[e])
               /\ SameRow(decider[e], decider'[e]) /\ decider'[e].decision = decider[e].decision
               /\ Kept(decider[e].run, decider[e].tool, decider[e].index)
    <3>1. CASE e = d
      <4>1. decider'[e] = q  BY <1>0, <1>3, <3>1
      <4> QED  BY <1>3, <2>1, <3>1, <4>1
    <3>2. CASE e # d
      <4>1. decider'[e] = decider[e]  BY <1>0, <1>3, <3>2
      <4> QED  BY <1>3, <2>1, <4>1 DEF SameRow
    <3> QED  BY <3>1, <3>2
  <2>2. (DecidersHold /\ OneDecider)'  BY <2>1, DecidersKeep DEF AnswerInv
  <2>3. (WorkersHold /\ OneWorker)'  BY <1>1, <1>3, WorkersKeep DEF AnswerInv
  <2> QED  BY <2>2, <2>3 DEF AnswerInv
<1>4. ASSUME UNCHANGED approvals
      PROVE  /\ \A e \in Deciders : Tells(decider[e]) =>
                    Kept(decider[e].run, decider[e].tool, decider[e].index)
             /\ \A w \in Workers : \A x \in worker'[w].todo.expired :
                    Kept(worker[w].run, x[1], x[2])
  <2>1. \A e \in Deciders : Tells(decider[e]) =>
            decider[e].index \in DOMAIN approvals[decider[e].run][decider[e].tool]
    BY DEF AnswerInv, DecidersHold, Holds
  <2>2. \A w \in Workers : \A x \in worker'[w].todo.expired :
            x[2] \in DOMAIN approvals[worker[w].run][x[1]]
    BY <1>1 DEF AnswerInv, WorkersHold, Holds
  <2> QED  BY <1>4, <2>1, <2>2, RowsKept
<1>5. CASE TellDecision(d) \/ FailDecision(d)
  <2>1. PICK pc \in {"finish", "reopen"} : decider' = [decider EXCEPT ![d].pc = pc]
    BY <1>5 DEF TellDecision, FailDecision
  <2>2. me.pc = "tell" /\ UNCHANGED approvals
    BY <1>5 DEF TellDecision, FailDecision, toolTables
  <2> DEFINE q == [me EXCEPT !.pc = pc]
  <2>3. SameRow(me, q) /\ q.decision = me.decision  BY <1>0 DEF DeciderType, SameRow
  <2>4. decider' = [decider EXCEPT ![d] = q]  BY <2>1
  <2> HIDE DEF q
  <2>5. Tells(me)  BY <2>2 DEF Tells
  <2>6. \A e \in Deciders : Tells(decider'[e]) => Tells(decider[e])
    <3> SUFFICES ASSUME NEW e \in Deciders, Tells(decider'[e]) PROVE Tells(decider[e])  OBVIOUS
    <3>1. e # d => decider'[e] = decider[e]  BY <1>0, <2>4
    <3> QED  BY <2>5, <3>1
  <2> QED  BY <1>3, <1>4, <2>2, <2>3, <2>4, <2>5, <2>6
<1>6. CASE ReopenDecision(d) \/ FinishDecision(d) \/ CrashDecider(d)
  <2> DEFINE done == [NoDecision EXCEPT !.pc = "done"]
  <2>1. decider' = [decider EXCEPT ![d] = done]
    BY <1>6 DEF ReopenDecision, FinishDecision, CrashDecider
  <2>2. ~Tells(done)  BY DEF NoDecision, Tells
  <2> HIDE DEF done
  <2>3. ASSUME NEW e \in Deciders, Tells(decider'[e]) PROVE e # d /\ Tells(decider[e])
    <3>1. e # d => decider'[e] = decider[e]  BY <1>0, <2>1
    <3>2. e = d => decider'[e] = done  BY <1>0, <2>1
    <3> QED  BY <2>2, <2>3, <3>1, <3>2
  <2>4. CASE UNCHANGED approvals  BY <1>3, <1>4, <2>1, <2>2, <2>3, <2>4
  <2>5. CASE ReopenDecision(d)
    <3>1. me.pc = "reopen" /\ Reopen(me.run, me.tool, me.index, me.decision)
      BY <2>5 DEF ReopenDecision
    <3>2. Tells(me)  BY <3>1 DEF Tells
    <3>3. /\ me.run \in Runs /\ me.tool \in Tools
          /\ me.index \in DOMAIN approvals[me.run][me.tool]
          /\ approvals[me.run][me.tool][me.index] = me.decision
          /\ me.decision \in {"approved", "denied"}
      BY <3>2, DeciderRow DEF AnswerInv
    <3>4. approvals' = [approvals EXCEPT ![me.run][me.tool][me.index] = "pending"]
      BY <3>1, <3>3 DEF Reopen
    <3>5. \A p \in Runs, u \in Tools : \A j \in DOMAIN approvals[p][u] :
              ~(p = me.run /\ u = me.tool /\ j = me.index) => Kept(p, u, j)
      <4> DEFINE r == me.run
                 t == me.tool
                 i == me.index
      <4>1. /\ r \in Runs /\ t \in Tools /\ i \in DOMAIN approvals[r][t]
            /\ approvals' = [approvals EXCEPT ![r][t][i] = "pending"]
        BY <3>3, <3>4
      <4> HIDE DEF r, t, i
      <4>2. \A p \in Runs, u \in Tools : \A j \in DOMAIN approvals[p][u] :
                ~(p = r /\ u = t /\ j = i) => Kept(p, u, j)
        BY <1>0, <4>1, MarkKeeps
      <4> QED  BY <4>2 DEF r, t, i
    <3>6. ASSUME NEW e \in Deciders, Tells(decider'[e])
          PROVE  Kept(decider[e].run, decider[e].tool, decider[e].index)
      <4>1. e # d /\ Tells(decider[e])  BY <2>3, <3>6
      <4>2. /\ decider[e].run \in Runs /\ decider[e].tool \in Tools
            /\ decider[e].index \in DOMAIN approvals[decider[e].run][decider[e].tool]
        BY <4>1, DeciderRow DEF AnswerInv
      <4>3. ~SameRow(decider[e], me)  BY <3>2, <4>1 DEF AnswerInv, OneDecider
      <4> QED  BY <3>5, <4>2, <4>3 DEF SameRow
    <3>7. ASSUME NEW w \in Workers, NEW x \in worker'[w].todo.expired
          PROVE  Kept(worker[w].run, x[1], x[2])
      <4>1. x \in worker[w].todo.expired  BY <1>1
      <4>2. /\ worker[w].run \in Runs /\ x[1] \in Tools
            /\ x[2] \in DOMAIN approvals[worker[w].run][x[1]]
            /\ approvals[worker[w].run][x[1]][x[2]] = "expired"
        BY <4>1, WorkerRow DEF AnswerInv
      <4>3. ~(worker[w].run = me.run /\ x[1] = me.tool /\ x[2] = me.index)  BY <3>3, <4>2
      <4> QED  BY <3>5, <4>2, <4>3
    <3> QED  BY <1>3, <2>1, <2>2, <3>6, <3>7
  <2> QED  BY <1>6, <2>4, <2>5 DEF FinishDecision, CrashDecider, toolTables
<1> QED  BY <1>2, <1>5, <1>6 DEF DecideStep

\* Reconciliations: the main transaction expires pending rows only, and an
\* expired row is reopened by the one that expired it.
LEMMA ApplyAnswersOnce ==
    ASSUME Types, AnswerInv, NEW w \in Workers, ApplyProgress(w)
    PROVE  AnswerInv'
<1> DEFINE me == worker[w]
<1>0. /\ me \in GoodWorker /\ me.pc \in SyncPc /\ me.pc # "idle" /\ me.run \in Runs
      /\ worker \in [Workers -> GoodWorker] /\ Tables
  BY DEF Types, Syncs, GoodWorker, Busy, ApplyProgress, SyncPc
<1> PICK r \in Runs : r = me.run  BY <1>0
<1>1. /\ approvals' = [approvals EXCEPT ![r] =
             [t \in Tools |-> ApprovalsAfter(r, t, me.seen)]]
      /\ UNCHANGED decider
      /\ worker' = [worker EXCEPT ![w] = Continue(me, Effects(me))]
  BY DEF ApplyProgress, ReconcileTools, SyncUnchanged
<1>2. ASSUME NEW q \in Runs, NEW t \in Tools, NEW i \in DOMAIN approvals[q][t],
             approvals[q][t][i] # "pending"
      PROVE  Kept(q, t, i)
  <2>1. CASE q = r
    <3>1. approvals'[q][t] = ApprovalsAfter(r, t, me.seen)  BY <1>0, <1>1, <2>1 DEF Tables
    <3>2. /\ i \in DOMAIN ApprovalsAfter(r, t, me.seen)
          /\ ApprovalsAfter(r, t, me.seen)[i] = approvals[r][t][i]
      BY <1>0, <1>2, <2>1, ApprovalsFit
    <3> QED  BY <2>1, <3>1, <3>2 DEF Kept
  <2>2. CASE q # r
    <3>1. approvals'[q] = approvals[q]  BY <1>0, <1>1, <2>2 DEF Tables
    <3> QED  BY <3>1 DEF Kept
  <2> QED  BY <2>1, <2>2
<1>3. (DecidersHold /\ OneDecider)'
  <2>1. ASSUME NEW d \in Deciders, Tells(decider'[d])
        PROVE  /\ Tells(decider[d])
               /\ SameRow(decider[d], decider'[d]) /\ decider'[d].decision = decider[d].decision
               /\ Kept(decider[d].run, decider[d].tool, decider[d].index)
    <3>1. Tells(decider[d]) /\ SameRow(decider[d], decider'[d])  BY <1>1, <2>1 DEF SameRow
    <3>2. /\ decider[d].run \in Runs /\ decider[d].tool \in Tools
          /\ decider[d].index \in DOMAIN approvals[decider[d].run][decider[d].tool]
          /\ approvals[decider[d].run][decider[d].tool][decider[d].index] # "pending"
      BY <3>1, DeciderRow DEF AnswerInv
    <3> QED  BY <1>1, <1>2, <3>1, <3>2
  <2> QED  BY <2>1, DecidersKeep DEF AnswerInv
\* What this reconciliation found expired.
<1>4. ASSUME NEW x \in worker'[w].todo.expired
      PROVE  /\ worker'[w].run = r /\ x[1] \in Tools
             /\ x[2] \in DOMAIN approvals[r][x[1]] /\ approvals[r][x[1]][x[2]] = "pending"
             /\ x[2] \in DOMAIN approvals'[r][x[1]] /\ approvals'[r][x[1]][x[2]] = "expired"
  <2>1. worker'[w] = Continue(me, Effects(me))  BY <1>0, <1>1
  <2>2. Effects(me) \in EffectsType  BY <1>0, EffectsFit
  <2>3. worker'[w].todo = Effects(me)  BY <1>0, <2>1, <2>2, ContinueFits
  <2>4. x \in Expired(r)  BY <1>4, <2>3 DEF Effects
  <2>5. Effects(me) # NoEffects  BY <1>4, <2>3 DEF NoEffects
  <2>6. worker'[w].run = r  BY <1>0, <2>1, <2>2, <2>5, ContinueFits
  <2>7. PICK t \in Tools : x \in {t} \X {i \in DOMAIN approvals[r][t] : Overdue(r, t, i)}
    BY <2>4 DEF Expired
  <2>8. x[1] = t /\ x[2] \in DOMAIN approvals[r][t] /\ Overdue(r, t, x[2])  BY <2>7
  <2>9. approvals'[r][t] = ApprovalsAfter(r, t, me.seen)  BY <1>0, <1>1 DEF Tables
  <2>10. /\ x[2] \in DOMAIN ApprovalsAfter(r, t, me.seen)
         /\ ApprovalsAfter(r, t, me.seen)[x[2]] = "expired"
    BY <1>0, <2>8, ApprovalsFit
  <2>11. approvals[r][t][x[2]] = "pending"  BY <2>8 DEF Overdue
  <2> QED  BY <2>6, <2>8, <2>9, <2>10, <2>11
<1>5. ASSUME NEW v \in Workers, v # w, NEW x \in worker'[v].todo.expired
      PROVE  /\ worker'[v] = worker[v] /\ worker[v].run \in Runs /\ x[1] \in Tools
             /\ x[2] \in DOMAIN approvals[worker[v].run][x[1]]
             /\ approvals[worker[v].run][x[1]][x[2]] = "expired"
  <2>1. worker'[v] = worker[v]  BY <1>0, <1>1, <1>5
  <2>2. x \in worker[v].todo.expired  BY <2>1
  <2> QED  BY <2>1, <2>2, WorkerRow DEF AnswerInv
<1>6. WorkersHold'
  <2> SUFFICES ASSUME NEW v \in Workers, NEW x \in worker'[v].todo.expired
               PROVE  /\ worker'[v].run \in Runs
                      /\ x[2] \in DOMAIN approvals'[worker'[v].run][x[1]]
                      /\ approvals'[worker'[v].run][x[1]][x[2]] = "expired"
    BY DEF WorkersHold, Holds
  <2>1. CASE v = w  BY <1>4, <2>1
  <2>2. CASE v # w
    <3>1. /\ worker'[v] = worker[v] /\ worker[v].run \in Runs /\ x[1] \in Tools
          /\ x[2] \in DOMAIN approvals[worker[v].run][x[1]]
          /\ approvals[worker[v].run][x[1]][x[2]] = "expired"
      BY <1>5, <2>2
    <3>2. Kept(worker[v].run, x[1], x[2])  BY <1>2, <3>1
    <3> QED  BY <3>1, <3>2 DEF Kept
  <2> QED  BY <2>1, <2>2
<1>7. OneWorker'
  <2> SUFFICES ASSUME NEW u \in Workers, NEW v \in Workers, worker'[u].run = worker'[v].run,
                      NEW x \in worker'[u].todo.expired \cap worker'[v].todo.expired
               PROVE  u = v
    BY DEF OneWorker
  <2>1. CASE u # w /\ v # w
    <3>1. worker'[u] = worker[u] /\ worker'[v] = worker[v]  BY <1>5, <2>1
    <3> QED  BY <3>1 DEF AnswerInv, OneWorker
  <2>2. CASE u = w /\ v # w  BY <1>4, <1>5, <2>2
  <2>3. CASE u # w /\ v = w  BY <1>4, <1>5, <2>3
  <2> QED  BY <2>1, <2>2, <2>3
<1> QED  BY <1>3, <1>6, <1>7 DEF AnswerInv

LEMMA WorkersAnswerOnce ==
    ASSUME Types, AnswerInv, NEW w \in Workers,
           SyncStep(w) \/ CancelStep(w) \/ CrashWorker(w), ~ApplyProgress(w)
    PROVE  AnswerInv'
<1> DEFINE me == worker[w]
<1>0. LessToTell /\ Tables  BY WorkersTellLess DEF Types
<1>1. UNCHANGED decider
  BY DEF SyncStep, StartSync, ReadEvents, ReadSession, Identify, FailSync, SyncUnchanged,
     SendFinalize, SendInterruptRequest, FailInterruptRequest, TellAutomatic, TellExpired,
     FailExpired, EffectsUnchanged, CancelStep, ReadForCancel, StopProvider,
     FailStopProvider, SkipSync, ForceCancel, CancelUnchanged, CrashWorker
<1>2. ASSUME \A e \in Deciders : Tells(decider[e]) =>
                 Kept(decider[e].run, decider[e].tool, decider[e].index),
             \A v \in Workers : \A x \in worker'[v].todo.expired :
                 Kept(worker[v].run, x[1], x[2])
      PROVE  AnswerInv'
  <2>1. (DecidersHold /\ OneDecider)'
    BY <1>1, <1>2, DecidersKeep DEF AnswerInv, SameRow
  <2>2. (WorkersHold /\ OneWorker)'  BY <1>0, <1>2, WorkersKeep DEF AnswerInv
  <2> QED  BY <2>1, <2>2 DEF AnswerInv
<1>3. \A e \in Deciders : Tells(decider[e]) =>
          /\ decider[e].run \in Runs /\ decider[e].tool \in Tools
          /\ decider[e].index \in DOMAIN approvals[decider[e].run][decider[e].tool]
          /\ approvals[decider[e].run][decider[e].tool][decider[e].index] # "expired"
  BY DeciderRow DEF AnswerInv
<1>4. \A v \in Workers : \A x \in worker'[v].todo.expired :
          /\ worker[v].run \in Runs /\ x[1] \in Tools /\ x = <<x[1], x[2]>>
          /\ x[2] \in DOMAIN approvals[worker[v].run][x[1]]
          /\ worker'[v].run = worker[v].run /\ x \in worker[v].todo.expired
  BY <1>0, WorkerRow DEF AnswerInv, LessToTell, TellsLess
<1>5. CASE UNCHANGED approvals  BY <1>2, <1>3, <1>4, <1>5, RowsKept
<1>6. ASSUME NEW y \in me.todo.expired, FailExpired(w, y) PROVE AnswerInv'
  <2> DEFINE r == me.run
             t == y[1]
             i == y[2]
  <2>1. /\ r \in Runs /\ t \in Tools /\ y = <<t, i>>
        /\ i \in DOMAIN approvals[r][t] /\ approvals[r][t][i] = "expired"
    BY WorkerRow DEF AnswerInv
  <2>2. /\ me.pc = "effects" /\ Reopen(r, t, i, "expired")
        /\ worker' = [worker EXCEPT ![w] = Continue(me, [me.todo EXCEPT !.expired = @ \ {y}])]
    BY <1>6 DEF FailExpired, TellsExpired
  <2>3. approvals' = [approvals EXCEPT ![r][t][i] = "pending"]
    <3> HIDE DEF r, t, i
    <3> QED  BY <2>1, <2>2 DEF Reopen
  <2>4. y \notin worker'[w].todo.expired
    <3> DEFINE todo == [me.todo EXCEPT !.expired = @ \ {y}]
    <3>1. me \in GoodWorker /\ worker \in [Workers -> GoodWorker]  BY DEF Types, Syncs
    <3>2. todo \in EffectsType /\ todo.expired = me.todo.expired \ {y}
      BY <3>1, TodoFits, LessTodos
    <3> HIDE DEF todo
    <3>3. worker'[w] = Continue(me, todo)  BY <2>2, <3>1 DEF todo
    <3>4. worker'[w].todo = todo  BY <2>2, <3>1, <3>2, <3>3, ContinueFits
    <3> QED  BY <3>2, <3>4
  <2> HIDE DEF r, t, i
  <2>5. \A p \in Runs, u \in Tools : \A j \in DOMAIN approvals[p][u] :
            ~(p = r /\ u = t /\ j = i) => Kept(p, u, j)
    BY <1>0, <2>1, <2>3, MarkKeeps
  <2>6. ASSUME NEW e \in Deciders, Tells(decider[e])
        PROVE  Kept(decider[e].run, decider[e].tool, decider[e].index)
    BY <1>3, <2>1, <2>5, <2>6
  <2>7. ASSUME NEW v \in Workers, NEW x \in worker'[v].todo.expired
        PROVE  Kept(worker[v].run, x[1], x[2])
    <3>1. CASE worker[v].run = r /\ x[1] = t /\ x[2] = i
      <4>1. x = y /\ x \in worker[v].todo.expired  BY <1>4, <2>1, <2>7, <3>1
      <4>2. v = w  BY <3>1, <4>1 DEF AnswerInv, OneWorker, r
      <4> QED  BY <2>4, <2>7, <4>1, <4>2
    <3>2. CASE ~(worker[v].run = r /\ x[1] = t /\ x[2] = i)
      BY <1>4, <2>5, <2>7, <3>2
    <3> QED  BY <3>1, <3>2
  <2> QED  BY <1>2, <2>6, <2>7
<1>7. CASE ~ \E x \in me.todo.expired : FailExpired(w, x)
  <2>1. UNCHANGED approvals
    BY <1>7 DEF SyncStep, StartSync, ReadEvents, ReadSession, Identify, FailSync,
       SendFinalize, SendInterruptRequest, FailInterruptRequest, TellAutomatic, TellExpired,
       CancelStep, ReadForCancel, StopProvider, FailStopProvider, SkipSync, ForceCancel,
       CancelUnchanged, CrashWorker, toolTables
  <2> QED  BY <1>5, <2>1
<1> QED  BY <1>6, <1>7

LEMMA OthersAnswerOnce ==
    ASSUME Types, AnswerInv,
           \/ \E r \in Runs : CreateRun(r) \/ StartStep(r) \/ FailStart(r) \/ CrashStart(r)
           \/ \E r \in Runs : ExpireLease(r)
           \/ \E r \in Runs, t \in Tools : \E i \in DOMAIN approvals[r][t] : ApprovalTimesOut(r, t, i)
           \/ ReservationAges
           \/ \E s \in Sessions : AgentWorks(s)
           \/ UNCHANGED vars
    PROVE  AnswerInv'
<1>1. UNCHANGED approvals /\ UNCHANGED decider /\ UNCHANGED worker
  BY DEF CreateRun, StartStep, ReadBaseline, ReadBaselineEvents, ExtendProviderBudget,
     OpenSession, RecordSession, SendFirstInstruction, ConfirmStart, StartUnchanged,
     FailStart, CrashStart, ExpireLease, SyncUnchanged, toolTables,
     ApprovalTimesOut, ReservationAges, AgentWorks, Elsewhere, processes, vars
<1> QED
  BY <1>1 DEF AnswerInv, DecidersHold, WorkersHold, OneDecider, OneWorker, Holds, Tells, SameRow

LEMMA AnswersAlways == Spec => [](Types /\ AnswerInv)
<1>1. Init => AnswerInv
  <2> SUFFICES ASSUME Init PROVE AnswerInv  OBVIOUS
  <2>1. \A d \in Deciders : ~Tells(decider[d])  BY DEF Init, NoDecision, Tells
  <2>2. \A w \in Workers : worker[w].todo.expired = {}  BY DEF Init, Idle, NoEffects
  <2> QED  BY <2>1, <2>2 DEF AnswerInv, DecidersHold, WorkersHold, OneDecider, OneWorker
<1>2. Types /\ AnswerInv /\ [Next]_vars => AnswerInv'
  BY DecisionsAnswerOnce, ApplyAnswersOnce, WorkersAnswerOnce, OthersAnswerOnce DEF Next
<1> QED  BY <1>1, <1>2, TypesAlways, PTL DEF Spec

\* An approval has at most one request about to answer it: decisions and the
\* timeout exclude each other (decide_approval, expire_pending_approvals_for_run).
THEOREM AnsweredOnce == Spec => []OneAnswerPerApproval
<1>1. Types /\ AnswerInv => OneAnswerPerApproval
  <2> SUFFICES ASSUME Types, AnswerInv, NEW r \in Runs, NEW t \in Tools,
                      NEW i \in DOMAIN approvals[r][t]
               PROVE  Cardinality(Answering(r, t, i)) <= 1
    BY DEF OneAnswerPerApproval
  <2> DEFINE D == {d \in Deciders : /\ decider[d].pc \in {"tell", "reopen"}
                      /\ <<decider[d].run, decider[d].tool, decider[d].index>> = <<r, t, i>>}
             W == {w \in Workers : worker[w].run = r /\ <<t, i>> \in worker[w].todo.expired}
  <2>1. Answering(r, t, i) = D \cup W  BY DEF Answering
  <2>2. \A d, e \in D : d = e  BY DEF AnswerInv, OneDecider, Tells, SameRow
  <2>3. \A v, w \in W : v = w
    <3> SUFFICES ASSUME NEW v \in W, NEW w \in W PROVE v = w  OBVIOUS
    <3>1. <<t, i>> \in worker[v].todo.expired \cap worker[w].todo.expired  OBVIOUS
    <3> QED  BY <3>1 DEF AnswerInv, OneWorker
  <2>4. D = {} \/ W = {}
    <3> SUFFICES ASSUME NEW d \in D, NEW w \in W PROVE FALSE  OBVIOUS
    <3>1. approvals[r][t][i] # "expired"
      <4>1. Tells(decider[d])  BY DEF Tells
      <4> QED  BY <4>1, DeciderRow DEF AnswerInv
    <3>2. approvals[r][t][i] = "expired"
      <4> DEFINE x == <<t, i>>
      <4>1. x \in worker[w].todo.expired /\ worker[w].run = r  OBVIOUS
      <4>2. x[1] = t /\ x[2] = i  OBVIOUS
      <4> HIDE DEF x
      <4> QED  BY <4>1, <4>2, WorkerRow DEF AnswerInv
    <3> QED  BY <3>1, <3>2
  <2>5. Answering(r, t, i) = {} \/ \E a : Answering(r, t, i) = {a}
    <3> HIDE DEF D, W
    <3> QED  BY <2>1, <2>2, <2>3, <2>4
  <2>6. CASE Answering(r, t, i) = {}
    <3>1. Cardinality(Answering(r, t, i)) = 0  BY <2>6, FS_EmptySet
    <3> QED  BY <3>1
  <2>7. ASSUME NEW a, Answering(r, t, i) = {a} PROVE Cardinality(Answering(r, t, i)) <= 1
    <3>1. Cardinality(Answering(r, t, i)) = 1  BY <2>7, FS_Singleton
    <3> QED  BY <3>1
  <2> QED  BY <2>5, <2>6, <2>7
<1> QED  BY <1>1, AnswersAlways, PTL

----------------------------------------------------------------------------
(* Turns.  The provider's event lists only grow, as its usage does: what a    *)
(* reconciliation saw of a session stays there, at the same place.            *)

Unused(q) == q.events = <<>> /\ q.blocked = {} /\ q.usage = 0
Blank(s) == session[s].status = "absent" => Unused(session[s])
Blanks == \A s \in Sessions : Blank(s)
Extended(old, new) == \A i \in DOMAIN old : i \in DOMAIN new /\ new[i] = old[i]
Appends == \A s \in Sessions : /\ Blank(s)'
                               /\ Extended(session[s].events, session'[s].events)
                               /\ session[s].usage <= session'[s].usage

LEMMA ExtendedByItself == ASSUME NEW events PROVE Extended(events, events)
  BY DEF Extended

LEMMA ExtendedByMore ==
    ASSUME NEW events \in Seq(EventType), NEW more \in Seq(EventType)
    PROVE  Extended(events, events \o more)
<1>1. /\ Len(events \o more) = Len(events) + Len(more)
      /\ \A i \in 1 .. Len(events) + Len(more) :
            (events \o more)[i] = IF i <= Len(events) THEN events[i] ELSE more[i - Len(events)]
  BY ConcatProperties
<1>2. /\ Len(events) \in Nat /\ Len(more) \in Nat /\ DOMAIN events = 1 .. Len(events)
      /\ events \o more \in Seq(EventType)
  BY LenProperties, ConcatProperties
<1>3. DOMAIN (events \o more) = 1 .. Len(events) + Len(more)
  BY <1>1, <1>2, LenProperties
<1> QED  BY <1>1, <1>2, <1>3 DEF Extended

LEMMA ExtendedByOne ==
    ASSUME NEW events \in Seq(EventType), NEW e \in EventType
    PROVE  Extended(events, Append(events, e))
<1>1. /\ Len(events) \in Nat /\ DOMAIN events = 1 .. Len(events)
      /\ Append(events, e) \in Seq(EventType) /\ Len(Append(events, e)) = Len(events) + 1
      /\ \A i \in 1 .. Len(events) : Append(events, e)[i] = events[i]
  BY LenProperties, AppendProperties
<1>2. DOMAIN Append(events, e) = 1 .. Len(events) + 1  BY <1>1, LenProperties
<1> QED  BY <1>1, <1>2 DEF Extended

LEMMA PutAppends ==
    ASSUME Agent, Blanks, NEW s, NEW q, session' = [session EXCEPT ![s] = q],
           s \in Sessions => /\ q.status # "absent" \/ Unused(q)
                             /\ Extended(session[s].events, q.events)
                             /\ session[s].usage <= q.usage
    PROVE  Appends
<1> SUFFICES ASSUME NEW x \in Sessions
             PROVE  /\ Blank(x)' /\ Extended(session[x].events, session'[x].events)
                    /\ session[x].usage <= session'[x].usage
  BY DEF Appends
<1>1. CASE x = s
  <2>1. session'[x] = q  BY <1>1 DEF Agent
  <2> QED  BY <1>1, <2>1 DEF Blank, Unused
<1>2. CASE x # s
  <2>1. session'[x] = session[x]  BY <1>2 DEF Agent
  <2>2. session[x].usage \in Nat  BY SessionFacts
  <2> QED  BY <2>1, <2>2, ExtendedByItself DEF Blank, Blanks, Unused
<1> QED  BY <1>1, <1>2

LEMMA CreateAppends ==
    ASSUME Agent, Blanks, NEW s, NEW cap \in Nat, CreateSession(s, cap) PROVE Appends
<1> DEFINE q == [NoSession EXCEPT !.status = "idle", !.cap = cap]
<1>1. q.status = "idle" /\ q.usage = 0  BY DEF NoSession
<1>2. session' = [session EXCEPT ![s] = q]  BY DEF CreateSession
<1>3. s \in Sessions => session[s].events = <<>> /\ session[s].usage = 0
  BY DEF CreateSession, Exists, Blanks, Blank, Unused
<1>4. \A events : Extended(<<>>, events)  BY DEF Extended
<1> HIDE DEF q
<1>5. s \in Sessions => /\ Extended(session[s].events, q.events)
                        /\ session[s].usage <= q.usage
  BY <1>1, <1>3, <1>4
<1> QED  BY <1>1, <1>2, <1>5, PutAppends

\* The calls that leave the events alone.
LEMMA CallsAppend ==
    ASSUME Agent, Blanks, NEW s,
           (\E cap \in Nat : ExtendBudget(s, cap)) \/ SendInstruction(s) \/ SendInterrupt(s)
    PROVE  Appends
<1>0. s \in Sessions => session[s] \in SessionType  BY DEF Agent
<1>1. ASSUME NEW q, session' = [session EXCEPT ![s] = q],
             s \in Sessions => /\ q.events = session[s].events /\ q.blocked = session[s].blocked
                               /\ q.status \in {session[s].status, "running"}
                               /\ q.usage = session[s].usage
      PROVE  Appends
  <2>1. s \in Sessions => Extended(session[s].events, q.events)  BY <1>1, ExtendedByItself
  <2>2. s \in Sessions => q.status # "absent" \/ Unused(q)
    BY <1>1 DEF Blanks, Blank, Unused
  <2>3. s \in Sessions => session[s].usage <= q.usage  BY <1>1, SessionFacts
  <2> QED  BY <1>1, <2>1, <2>2, <2>3, PutAppends
<1>2. ASSUME NEW cap \in Nat, ExtendBudget(s, cap) PROVE Appends
  <2> DEFINE status == IF session[s].status = "idle" /\ PausedAtBudget(session[s].events)
                       THEN "running" ELSE session[s].status
             q == [session[s] EXCEPT !.cap = cap, !.status = status]
  <2>1. session' = [session EXCEPT ![s] = q]  BY <1>0, <1>2 DEF ExtendBudget, Agent
  <2>2. status \in {session[s].status, "running"}  OBVIOUS
  <2> HIDE DEF status
  <2>3. s \in Sessions => /\ q.events = session[s].events /\ q.blocked = session[s].blocked
                          /\ q.status = status /\ q.usage = session[s].usage
    BY <1>0 DEF SessionType
  <2> HIDE DEF q
  <2> QED  BY <1>1, <2>1, <2>2, <2>3
<1>3. CASE SendInstruction(s)
  <2> DEFINE q == [session[s] EXCEPT !.status = IF session[s].blocked = {} THEN "running" ELSE @]
  <2>1. session' = [session EXCEPT ![s] = q]  BY <1>0, <1>3 DEF SendInstruction, Agent
  <2>2. s \in Sessions => /\ q.events = session[s].events /\ q.blocked = session[s].blocked
                          /\ q.status \in {session[s].status, "running"}
                          /\ q.usage = session[s].usage
    BY <1>0 DEF SessionType
  <2> HIDE DEF q
  <2> QED  BY <1>1, <2>1, <2>2
<1>4. CASE SendInterrupt(s)
  <2> DEFINE b == session[s].interrupted \/ session[s].status = "running"
             q == [session[s] EXCEPT !.interrupted = b]
  <2>1. session' = [session EXCEPT ![s] = q]  BY <1>0, <1>4 DEF SendInterrupt, Agent
  <2> HIDE DEF b
  <2>2. s \in Sessions => /\ q.events = session[s].events /\ q.blocked = session[s].blocked
                          /\ q.status = session[s].status /\ q.usage = session[s].usage
    BY <1>0 DEF SessionType
  <2> HIDE DEF q
  <2> QED  BY <1>1, <2>1, <2>2
<1> QED  BY <1>2, <1>3, <1>4

LEMMA ConfirmAppends ==
    ASSUME Agent, Blanks, NEW s, NEW t, NEW allow \in BOOLEAN, ConfirmTool(s, t, allow)
    PROVE  Appends
<1> DEFINE answer == <<Event("tool_confirmation", {t})>>
           result == IF allow THEN <<Event("tool_completed", {t})>> ELSE <<>>
           events == session[s].events \o answer \o result
           q == [session[s] EXCEPT
                    !.blocked = @ \ {t},
                    !.status = IF session[s].blocked = {t} THEN "running" ELSE @,
                    !.ran = IF allow THEN @ \cup {t} ELSE @,
                    !.events = events]
<1>1. s \in Sessions => session[s] \in SessionType  BY DEF Agent
<1>2. s \in Sessions => t \in Tools  BY <1>1 DEF ConfirmTool, SessionType
<1>3. ASSUME s \in Sessions PROVE Extended(session[s].events, events)
  <2>1. /\ Event("tool_confirmation", {t}) \in EventType
        /\ Event("tool_completed", {t}) \in EventType
    BY <1>2, <1>3, EventFits DEF EventTypes, TerminalEvents
  <2>2. answer \in Seq(EventType) /\ result \in Seq(EventType)  BY <2>1
  <2>3. session[s].events \in Seq(EventType)  BY <1>1, <1>3 DEF SessionType
  <2> HIDE DEF answer, result
  <2>4. session[s].events \o answer \in Seq(EventType)  BY <2>2, <2>3, ConcatProperties
  <2>5. /\ Extended(session[s].events, session[s].events \o answer)
        /\ Extended(session[s].events \o answer, events)
    BY <2>2, <2>3, <2>4, ExtendedByMore
  <2> HIDE DEF events
  <2> QED  BY <2>5 DEF Extended
<1>4. session' = [session EXCEPT ![s] = q]  BY <1>1 DEF ConfirmTool, Agent
<1> HIDE DEF events
<1>5. ASSUME s \in Sessions
      PROVE  q.status # "absent" /\ q.events = events /\ session[s].usage <= q.usage
  <2>1. session[s].status # "absent"  BY <1>5 DEF ConfirmTool, Blanks, Blank, Unused
  <2>2. q.usage = session[s].usage /\ session[s].usage \in Nat
    BY <1>1, <1>5, SessionFacts DEF SessionType
  <2> QED  BY <1>1, <1>5, <2>1, <2>2 DEF SessionType
<1> HIDE DEF q
<1> QED  BY <1>3, <1>4, <1>5, PutAppends

LEMMA AgentAppends == ASSUME Agent, Blanks, NEW s \in Sessions, AgentStep(s) PROVE Appends
<1>0. /\ session[s] \in SessionType /\ session[s].events \in Seq(EventType)
      /\ session[s].usage \in Nat
  BY SessionFacts DEF Agent, SessionType
<1>1. ASSUME NEW q, session' = [session EXCEPT ![s] = q], q.status # "absent",
             Extended(session[s].events, q.events), session[s].usage <= q.usage
      PROVE  Appends
  BY <1>1, PutAppends
<1>2. ASSUME NEW n \in 1 .. 2, NEW o \in 0 .. 1, Consume(s, n, o) PROVE Appends
  <2> DEFINE q == [session[s] EXCEPT !.usage = @ + n, !.output = @ + o]
  <2>1. session' = [session EXCEPT ![s] = q]  BY <1>0, <1>2 DEF Consume
  <2>2. q.status = "running" /\ q.events = session[s].events /\ q.usage = session[s].usage + n
    BY <1>0, <1>2 DEF Consume, Working, SessionType
  <2> HIDE DEF q
  <2>3. q.status # "absent" /\ session[s].usage <= q.usage  BY <1>0, <2>2
  <2>4. Extended(session[s].events, q.events)  BY <2>2, ExtendedByItself
  <2> QED  BY <1>1, <2>1, <2>3, <2>4
<1>3. ASSUME NEW status \in {"idle", "running"}, NEW blocked, NEW b, NEW e \in EventType,
             session' = [session EXCEPT ![s] = [session[s] EXCEPT
                 !.status = status, !.blocked = blocked, !.interrupted = b,
                 !.events = Append(@, e)]]
      PROVE  Appends
  <2> DEFINE events == Append(session[s].events, e)
             q == [session[s] EXCEPT
                 !.status = status, !.blocked = blocked, !.interrupted = b, !.events = events]
  <2>1. session' = [session EXCEPT ![s] = q]  BY <1>3
  <2>2. Extended(session[s].events, events)  BY <1>0, ExtendedByOne
  <2> HIDE DEF events
  <2>3. q.status = status /\ q.events = events /\ q.usage = session[s].usage
    BY <1>0 DEF SessionType
  <2> HIDE DEF q
  <2>4. q.status # "absent" /\ session[s].usage <= q.usage  BY <1>0, <2>3
  <2>5. Extended(session[s].events, q.events)  BY <2>2, <2>3
  <2> QED  BY <1>1, <2>1, <2>4, <2>5
<1>4. ASSUME NEW t \in Tools, StartTool(s, t) PROVE Appends
  <2>1. Event("tool_started", {t}) \in EventType  BY EventFits DEF EventTypes
  <2>2. session' = [session EXCEPT ![s] = [session[s] EXCEPT
               !.status = "running", !.blocked = session[s].blocked \cup {t},
               !.interrupted = session[s].interrupted,
               !.events = Append(@, Event("tool_started", {t}))]]
    BY <1>0, <1>4 DEF StartTool, SessionType
  <2> QED  BY <1>3, <2>1, <2>2
<1>5. ASSUME RequireAction(s) PROVE Appends
  <2>1. Event("approval_required", session[s].blocked) \in EventType
    BY <1>0, EventFits DEF EventTypes, SessionType
  <2>2. session' = [session EXCEPT ![s] = [session[s] EXCEPT
               !.status = "idle", !.blocked = session[s].blocked, !.interrupted = FALSE,
               !.events = Append(@, Event("approval_required", session[s].blocked))]]
    BY <1>0, <1>5 DEF RequireAction, SessionType
  <2> QED  BY <1>3, <2>1, <2>2
<1>6. ASSUME NEW outcome \in TerminalEvents, EndTurn(s, outcome) PROVE Appends
  <2>1. Event(outcome, {}) \in EventType  BY EventFits DEF EventTypes
  <2>2. session' = [session EXCEPT ![s] = [session[s] EXCEPT
               !.status = "idle", !.blocked = session[s].blocked, !.interrupted = FALSE,
               !.events = Append(@, Event(outcome, {}))]]
    BY <1>0, <1>6 DEF EndTurn, SessionType
  <2> QED  BY <1>3, <2>1, <2>2
<1> QED  BY <1>2, <1>4, <1>5, <1>6 DEF AgentStep

\* Whatever a step does, it makes one of these calls, or none, or is the agent's.
LEMMA StepAppends == ASSUME Types, Blanks, [Next]_vars PROVE Appends
<1> DEFINE Called == \E s :
             \/ \E cap \in Nat : CreateSession(s, cap) \/ ExtendBudget(s, cap)
             \/ SendInstruction(s) \/ SendInterrupt(s)
             \/ \E t : \E allow \in BOOLEAN : ConfirmTool(s, t, allow)
           Provided == UNCHANGED session \/ Called \/ \E s \in Sessions : AgentStep(s)
<1>0. Agent  BY DEF Types
<1>1. ASSUME NEW r \in Runs, CreateRun(r) \/ StartStep(r) \/ FailStart(r) \/ CrashStart(r)
      PROVE  Provided
  <2>1. CASE ExtendProviderBudget(r)
    <3>1. start[r].base.usage + Budget \in Nat
      BY BudgetIsQuantity DEF Types, Starts, GoodStart, StartType, BaseType
    <3> QED  BY <2>1, <3>1 DEF ExtendProviderBudget, ExtendForRun
  <2>2. CASE \E s \in Sessions : OpenSession(r, s)
    BY <2>2, BudgetIsQuantity DEF OpenSession
  <2>5. CASE FailStart(r)
    <3>1. start[r].base.usage + Budget \in Nat
      BY BudgetIsQuantity DEF Types, Starts, GoodStart, StartType, BaseType
    <3>2. CASE \E s \in Sessions : CreateSession(s, Budget)  BY <3>2, BudgetIsQuantity
    <3>3. CASE ExtendForRun(r)  BY <3>1, <3>3 DEF ExtendForRun
    <3> QED  BY <2>5, <3>2, <3>3, FailCalls
  <2>3. CASE SendFirstInstruction(r)
    BY <2>3 DEF SendFirstInstruction, Instruct
  <2>4. CASE \/ CreateRun(r) \/ ReadBaseline(r) \/ ReadBaselineEvents(r) \/ RecordSession(r)
             \/ ConfirmStart(r) \/ CrashStart(r)
    <3>1. UNCHANGED session
      BY <2>4 DEF CreateRun, ReadBaseline, ReadBaselineEvents, RecordSession, ConfirmStart,
         CrashStart
    <3> QED  BY <3>1
  <2> QED  BY <1>1, <2>1, <2>2, <2>3, <2>4, <2>5 DEF StartStep
<1>2. ASSUME NEW w \in Workers, SyncStep(w) \/ CancelStep(w) \/ CrashWorker(w) PROVE Provided
  <2>1. CASE \/ SendFinalize(w) \/ SendInterruptRequest(w) \/ FailInterruptRequest(w)
             \/ StopProvider(w) \/ FailStopProvider(w)
    BY <2>1 DEF SendFinalize, SendInterruptRequest, FailInterruptRequest, StopProvider,
       FailStopProvider
  <2>2. ASSUME NEW t \in Tools, TellAutomatic(w, t) PROVE Provided
    <3>1. UNCHANGED session \/ \E allow \in BOOLEAN : ConfirmTool(worker[w].session, t, allow)
      BY <2>2 DEF TellAutomatic, Tell
    <3> QED  BY <3>1
  <2>5. ASSUME NEW x \in worker[w].todo.expired, TellExpired(w, x) \/ FailExpired(w, x)
        PROVE  Provided
    <3>1. UNCHANGED session \/ ConfirmTool(worker[w].session, x[1], FALSE)
      BY <2>5 DEF TellExpired, FailExpired
    <3> HIDE DEF Provided
    <3>2. ConfirmTool(worker[w].session, x[1], FALSE) => Provided  BY DEF Provided
    <3> QED  BY <3>1, <3>2 DEF Provided
  <2>3. CASE \/ \E r \in Runs : StartSync(w, r) \/ ReadForCancel(w, r)
             \/ ReadEvents(w) \/ ReadSession(w) \/ Identify(w) \/ ApplyProgress(w) \/ FailSync(w)
             \/ SkipSync(w) \/ ForceCancel(w) \/ CrashWorker(w)
    <3>1. UNCHANGED session
      BY <2>3 DEF StartSync, ReadForCancel, ReadEvents, ReadSession, Identify, ApplyProgress,
         FailSync, SkipSync, ForceCancel, CrashWorker, SyncUnchanged
    <3> QED  BY <3>1
  <2> HIDE DEF Provided
  <2> QED  BY <1>2, <2>1, <2>2, <2>3, <2>5 DEF SyncStep, CancelStep
<1>3. ASSUME NEW d \in Deciders, DecideStep(d) \/ CrashDecider(d) PROVE Provided
  <2>1. CASE TellDecision(d) \/ FailDecision(d)
    <3> DEFINE allow == decider[d].decision = "approved"
               s == SessionOf(decider[d].run)
    <3>1. UNCHANGED session \/ ConfirmTool(s, decider[d].tool, allow)
      BY <2>1 DEF TellDecision, FailDecision
    <3>2. allow \in BOOLEAN  OBVIOUS
    <3> HIDE DEF allow, s
    <3> QED  BY <3>1, <3>2
  <2>2. CASE ~(TellDecision(d) \/ FailDecision(d))
    <3>1. UNCHANGED session
      BY <1>3, <2>2 DEF DecideStep, Decide, ReopenDecision, FinishDecision, CrashDecider
    <3> QED  BY <3>1
  <2> QED  BY <2>1, <2>2
<1>4. ASSUME \/ \E r \in Runs : ExpireLease(r)
             \/ \E r \in Runs, t \in Tools : \E i \in DOMAIN approvals[r][t] : ApprovalTimesOut(r, t, i)
             \/ ReservationAges \/ UNCHANGED vars
      PROVE  Provided
  <2>1. UNCHANGED session
    BY <1>4 DEF ExpireLease, SyncUnchanged, ApprovalTimesOut, ReservationAges, vars
  <2> QED  BY <2>1
<1>5. (\E s \in Sessions : AgentWorks(s)) => Provided  BY DEF AgentWorks
<1>6. Provided
  <2> HIDE DEF Provided
  <2> QED  BY <1>1, <1>2, <1>3, <1>4, <1>5 DEF Next
<1>7. UNCHANGED session => Appends
  <2> SUFFICES ASSUME UNCHANGED session, NEW s \in Sessions
               PROVE  /\ Blank(s)' /\ Extended(session[s].events, session'[s].events)
                      /\ session[s].usage <= session'[s].usage
    BY DEF Appends
  <2>1. session[s].usage \in Nat  BY <1>0, SessionFacts
  <2> QED  BY <2>1, ExtendedByItself DEF Blanks, Blank
<1> QED  BY <1>0, <1>6, <1>7, CreateAppends, CallsAppend, ConfirmAppends, AgentAppends

----------------------------------------------------------------------------
(* A run whose start is over has its baseline for good, a reconciliation only *)
(* works on such a run, with that baseline, and completes it only for an end  *)
(* of turn that the baseline does not cover.  What it saw of the provider's   *)
(* session is not more than there is.                                         *)

ShowsEnd(events, s, base) ==
    \E i \in DOMAIN events : /\ events[i].type = "completed"
                             /\ s = base.session => i > base.events
EndedIn(s, base) == ShowsEnd(session[s].events, s, base)
Over(r) == run[r].status # None /\ start[r].pc \in {"idle", "done"}

Begun(r) ==
    /\ run[r].status = None => run[r].session = None /\ start[r].pc = "idle"
    /\ run[r].status = "completed" => Over(r) /\ \E s \in Sessions : EndedIn(s, run[r].base)
    /\ run[r].session # None => run[r].base.session = run[r].session
FromRow(me) ==
    me.pc \in SyncPc =>
        /\ Over(me.run)
        /\ me.row.base = run[me.run].base
        /\ me.pc # "events" =>
              \A i \in DOMAIN me.seen :
                  me.seen[i].type = "completed" => EndedIn(me.session, me.row.base)
        /\ me.pc \in {"identify", "apply"} => me.usage <= session[me.session].usage
TurnInv == /\ Blanks
           /\ \A r \in Runs : Begun(r)
           /\ \A w \in Workers : FromRow(worker[w])

\* What a step does to a run and to a reconciliation.
Moves(r) ==
    /\ Over(r) => Over(r)' /\ run'[r].base = run[r].base
    /\ run'[r].status = None => run[r].status = None /\ run'[r].session = run[r].session
                                                   /\ start'[r] = start[r]
    /\ run'[r].status = "completed" =>
          \/ run[r].status = "completed"
          \/ Over(r) /\ \E s \in Sessions : EndedIn(s, run[r].base)
    /\ run'[r].session # None => run'[r].base.session = run'[r].session
Works(w) == worker'[w] = worker[w] \/ worker'[w].pc \notin SyncPc \/ FromRow(worker[w])'

LEMMA EndStays ==
    ASSUME NEW old, NEW new, Extended(old, new), NEW s, NEW base, ShowsEnd(old, s, base)
    PROVE  ShowsEnd(new, s, base)
  BY DEF Extended, ShowsEnd

LEMMA TurnKept ==
    ASSUME Types, Types', TurnInv, Appends, \A r \in Runs : Moves(r), \A w \in Workers : Works(w)
    PROVE  TurnInv'
<1>0. ASSUME NEW s \in Sessions, NEW base, ShowsEnd(session[s].events, s, base)
      PROVE  ShowsEnd(session'[s].events, s, base)
  BY <1>0, EndStays DEF Appends
<1>1. Blanks'  BY DEF Appends, Blanks
<1>2. ASSUME NEW r \in Runs PROVE Begun(r)'
  <2>1. Moves(r) /\ Begun(r)  BY DEF TurnInv
  <2>2. ASSUME run'[r].status = "completed"
        PROVE  Over(r)' /\ \E s \in Sessions : EndedIn(s, run[r].base)'
    <3>1. Over(r) /\ \E s \in Sessions : EndedIn(s, run[r].base)
      BY <2>1, <2>2 DEF Moves, Begun
    <3>2. Over(r)' /\ run'[r].base = run[r].base  BY <2>1, <3>1 DEF Moves
    <3>3. PICK s \in Sessions : ShowsEnd(session[s].events, s, run[r].base)
      BY <3>1 DEF EndedIn
    <3>4. ShowsEnd(session'[s].events, s, run'[r].base)  BY <1>0, <3>2, <3>3
    <3> QED  BY <3>2, <3>4 DEF EndedIn
  <2> QED  BY <2>1, <2>2 DEF Moves, Begun
<1>3. ASSUME NEW w \in Workers PROVE FromRow(worker[w])'
  <2>1. CASE worker'[w] = worker[w] /\ worker[w].pc \in SyncPc
    <3> DEFINE me == worker[w]
    <3>1. me.run \in Runs /\ me.session \in Sessions
      BY <2>1 DEF Types, Syncs, GoodWorker, Busy, SyncPc
    <3>2. FromRow(me)  BY DEF TurnInv
    <3>3. Over(me.run)' /\ run'[me.run].base = run[me.run].base
      BY <2>1, <3>1, <3>2 DEF FromRow, Moves
    <3>4. ASSUME me.pc # "events", NEW i \in DOMAIN me.seen, me.seen[i].type = "completed"
          PROVE  ShowsEnd(session'[me.session].events, me.session, me.row.base)
      <4>1. ShowsEnd(session[me.session].events, me.session, me.row.base)
        BY <2>1, <3>2, <3>4 DEF FromRow, EndedIn
      <4> QED  BY <1>0, <3>1, <4>1
    <3>5. ASSUME me.pc \in {"identify", "apply"} PROVE me.usage <= session'[me.session].usage
      <4>1. /\ me.usage <= session[me.session].usage
            /\ session[me.session].usage <= session'[me.session].usage
        BY <2>1, <3>1, <3>2, <3>5 DEF FromRow, Appends
      <4>2. session[me.session].usage \in Nat  BY <3>1, SessionFacts DEF Types
      <4>3. me.usage \in Nat /\ session'[me.session].usage \in Nat
        <5>1. me.usage \in 0 .. MaxUsage  BY DEF Types, Syncs, GoodWorker, WorkerType
        <5>2. session'[me.session] \in SessionType  BY <3>1 DEF Types, Agent
        <5>3. session'[me.session].usage \in 0 .. MaxUsage  BY <5>2 DEF SessionType
        <5> QED  BY <5>1, <5>3
      <4> QED  BY <4>1, <4>2, <4>3
    <3> QED  BY <2>1, <3>2, <3>3, <3>4, <3>5 DEF FromRow, EndedIn, Over
  <2>2. CASE worker'[w].pc \notin SyncPc  BY <2>2 DEF FromRow
  <2>3. CASE FromRow(worker[w])'  BY <2>3
  <2> QED  BY <2>1, <2>2, <2>3 DEF Works
<1> QED  BY <1>1, <1>2, <1>3 DEF TurnInv

\* A run of which only the status changes, not to completed.
SteadyRow(r) ==
    /\ run'[r].base = run[r].base /\ run'[r].session = run[r].session
    /\ run'[r].status \in {run[r].status} \cup (Status \ {None, "completed"})

Steady == UNCHANGED start /\ \A r \in Runs : SteadyRow(r)

LEMMA SteadyMoves == ASSUME TurnInv, Steady, NEW r \in Runs PROVE Moves(r)
<1>1. Begun(r) /\ SteadyRow(r)  BY DEF TurnInv, Steady
<1>2. run'[r].status = None => run[r].status = None  BY <1>1 DEF SteadyRow
<1>3. Over(r) => Over(r)'  BY <1>2 DEF Over, Steady
<1> QED  BY <1>1, <1>2, <1>3 DEF Begun, SteadyRow, Steady, Moves

LEMMA PutSteady ==
    ASSUME Types, UNCHANGED start, NEW q, NEW v, run' = [run EXCEPT ![q] = v],
           q \in Runs => /\ v.base = run[q].base /\ v.session = run[q].session
                         /\ v.status \in {run[q].status} \cup (Status \ {None, "completed"})
    PROVE  Steady
<1> SUFFICES ASSUME NEW r \in Runs PROVE SteadyRow(r)  BY DEF Steady
<1>1. run'[r] = IF r = q THEN v ELSE run[r]  BY DEF Types, Rows
<1> QED  BY <1>1 DEF SteadyRow

LEMMA StatusSteady ==
    ASSUME Types, UNCHANGED start, NEW q, NEW status \in Status \ {None, "completed"},
           run' = [run EXCEPT ![q].status = status]
    PROVE  Steady
<1> DEFINE v == [run[q] EXCEPT !.status = status]
<1>1. q \in Runs => run[q] \in RunType  BY DEF Types, Rows
<1>2. q \in Runs => v.base = run[q].base /\ v.session = run[q].session /\ v.status = status
  BY <1>1 DEF RunType
<1>3. run' = [run EXCEPT ![q] = v]  OBVIOUS
<1> HIDE DEF v
<1> QED  BY <1>2, <1>3, PutSteady

LEMMA NothingMoves == ASSUME UNCHANGED start, UNCHANGED run PROVE Steady
  BY DEF Steady, SteadyRow

LEMMA NobodyWorks == ASSUME UNCHANGED worker PROVE \A w \in Workers : Works(w)
  BY DEF Works

LEMMA PutWorks ==
    ASSUME Types, NEW w \in Workers, NEW q, worker' = [worker EXCEPT ![w] = q],
           q.pc \notin SyncPc \/ FromRow(worker[w])'
    PROVE  \A v \in Workers : Works(v)
<1> SUFFICES ASSUME NEW v \in Workers PROVE Works(v)  OBVIOUS
<1>1. worker'[v] = IF v = w THEN q ELSE worker[v]  BY DEF Types, Syncs
<1> QED  BY <1>1 DEF Works

\* Until a start is over nobody completes its run.
LEMMA StartMoves ==
    ASSUME Types, TurnInv, NEW q \in Runs,
           CreateRun(q) \/ StartStep(q) \/ FailStart(q) \/ CrashStart(q)
    PROVE  /\ \A r \in Runs : Moves(r)
           /\ UNCHANGED worker
<1>0. /\ run \in [Runs -> RunType] /\ run[q] \in RunType /\ Begun(q)
      /\ start \in [Runs -> GoodStart]
  BY DEF Types, Rows, Starts, TurnInv
<1>1. ~Over(q)
  BY DEF CreateRun, StartStep, ReadBaseline, ReadBaselineEvents, ExtendProviderBudget,
     OpenSession, RecordSession, SendFirstInstruction, ConfirmStart, FailStart, CrashStart, Over
<1>2. \A r \in Runs \ {q} : start'[r] = start[r]
  BY <1>0 DEF CreateRun, StartStep, ReadBaseline, ReadBaselineEvents, ExtendProviderBudget,
     OpenSession, RecordSession, SendFirstInstruction, ConfirmStart, FailStart, CrashStart
<1>3. UNCHANGED worker
  BY DEF CreateRun, StartStep, ReadBaseline, ReadBaselineEvents, ExtendProviderBudget,
     OpenSession, RecordSession, SendFirstInstruction, ConfirmStart, StartUnchanged,
     FailStart, CrashStart
<1>4. ASSUME NEW v, run' = [run EXCEPT ![q] = v], v.status \notin {"completed", None},
             v.session # None => v.base.session = v.session
      PROVE  \A r \in Runs : Moves(r)
  <2> SUFFICES ASSUME NEW r \in Runs PROVE Moves(r)  OBVIOUS
  <2>1. run'[r] = IF r = q THEN v ELSE run[r]  BY <1>0, <1>4
  <2>2. CASE r = q  BY <1>1, <1>4, <2>1, <2>2 DEF Moves
  <2>3. CASE r # q
    <3>1. run'[r] = run[r] /\ start'[r] = start[r] /\ Begun(r)
      BY <1>2, <2>1, <2>3 DEF TurnInv
    <3> QED  BY <3>1 DEF Moves, Over, Begun
  <2> QED  BY <2>2, <2>3
<1>5. run[q].status # "completed" /\ (run[q].status = None => CreateRun(q))
  BY <1>0, <1>1 DEF Begun, StartStep, ReadBaseline, ReadBaselineEvents, ExtendProviderBudget,
     OpenSession, RecordSession, SendFirstInstruction, ConfirmStart, FailStart, CrashStart
<1>6. CASE UNCHANGED run /\ run[q].status # None
  <2>1. run' = [run EXCEPT ![q] = run[q]]  BY <1>0, <1>6
  <2> QED  BY <1>0, <1>3, <1>4, <1>5, <1>6, <2>1 DEF Begun
<1>7. ASSUME NEW status \in Status \ {"completed", None}, run' = [run EXCEPT ![q].status = status]
      PROVE  \A r \in Runs : Moves(r)
  <2> DEFINE v == [run[q] EXCEPT !.status = status]
  <2>1. v.base = run[q].base /\ v.session = run[q].session /\ v.status = status
    BY <1>0 DEF RunType
  <2>2. run' = [run EXCEPT ![q] = v]  BY <1>7
  <2> HIDE DEF v
  <2> QED  BY <1>0, <1>4, <1>7, <2>1, <2>2 DEF Begun
<1>8. CASE RecordSession(q) \/ ConfirmStart(q)
  <2> DEFINE b == start[q].base
             u == [run[q] EXCEPT !.session = b.session, !.known = TRUE, !.base = b]
             v == [run[q] EXCEPT !.status = "running", !.session = b.session, !.base = b]
  <2>1. run' = [run EXCEPT ![q] = u] \/ run' = [run EXCEPT ![q] = v]
    BY <1>0, <1>8 DEF RecordSession, ConfirmStart, RunType
  <2> HIDE DEF b
  <2>2. /\ u.base = b /\ u.session = b.session /\ u.status = run[q].status
        /\ v.base = b /\ v.session = b.session /\ v.status = "running"
    BY <1>0 DEF RunType
  <2> HIDE DEF u, v
  <2>3. run[q].status # None  BY <1>0, <1>8 DEF Begun, RecordSession, ConfirmStart
  <2> QED  BY <1>3, <1>4, <1>5, <2>1, <2>2, <2>3 DEF None
<1>9. \/ UNCHANGED run /\ ~CreateRun(q)
      \/ RecordSession(q)
      \/ ConfirmStart(q)
      \/ \E status \in {"created", "failed"} : run' = [run EXCEPT ![q].status = status]
  BY DEF CreateRun, StartStep, ReadBaseline, ReadBaselineEvents, ExtendProviderBudget,
     OpenSession, SendFirstInstruction, FailStart, CrashStart
<1>10. {"created", "failed"} \subseteq Status \ {"completed", None}
  BY DEF Status, Active, Terminal, None
<1> QED  BY <1>3, <1>5, <1>6, <1>7, <1>8, <1>9, <1>10

\* The events a reconciliation reads are those the baseline does not cover.
LEMMA SeenIsNew ==
    ASSUME Types, NEW row \in RunType, NEW s \in Sessions, NEW i \in DOMAIN NewEvents(row, s),
           NewEvents(row, s)[i].type = "completed"
    PROVE  EndedIn(s, row.base)
<1> DEFINE events == session[s].events
           old == IF row.base.session = s THEN row.base.events ELSE 0
<1>1. events \in Seq(EventType) /\ Len(events) \in Nat /\ DOMAIN events = 1 .. Len(events)
  BY SessionFacts, LenProperties DEF Types
<1>2. row.base \in BaseType  BY DEF RunType
<1>3. old \in Nat  BY <1>2 DEF BaseType
<1>4. NewEvents(row, s) = SubSeq(events, old + 1, Len(events))  BY DEF NewEvents
<1>5. s = row.base.session => old = row.base.events  OBVIOUS
<1> HIDE DEF events, old
<1>6. /\ i \in 1 .. Len(events) - old
      /\ NewEvents(row, s)[i] = events[old + i]
  <2> DEFINE m == old + 1
             n == Len(events)
             part == SubSeq(events, m, n)
  <2>1. m \in Int /\ n \in Int /\ n - m + 1 = n - old /\ m >= 1  BY <1>1, <1>3
  <2>2. \A j \in m .. n : events[j] \in EventType
    <3>1. \A j \in m .. n : j \in 1 .. n  BY <2>1
    <3> QED  BY <1>1, <3>1, ElementOfSeq
  <2>3. m = old + 1  OBVIOUS
  <2> HIDE DEF m, n
  <2>4. /\ part \in Seq(EventType) /\ Len(part) = IF m <= n THEN n - m + 1 ELSE 0
        /\ \A j \in 1 .. n - m + 1 : part[j] = events[m + j - 1]
    BY <2>1, <2>2, SubSeqProperties
  <2> HIDE DEF part
  <2>5. DOMAIN part = 1 .. Len(part)  BY <2>4, LenProperties
  <2>6. NewEvents(row, s) = part  BY <1>4 DEF part, m, n
  <2>7. i \in 1 .. n - m + 1  BY <2>1, <2>4, <2>5, <2>6
  <2>8. i \in 1 .. n - old /\ part[i] = events[m + i - 1]  BY <2>1, <2>4, <2>7
  <2>9. i \in Nat  BY <2>1, <2>7
  <2>10. m + i - 1 = old + i  BY <1>3, <2>3, <2>9
  <2> QED  BY <2>6, <2>8, <2>10 DEF n
<1>7. old + i \in DOMAIN events /\ old + i > old  BY <1>1, <1>3, <1>6
<1>8. events[old + i].type = "completed"  BY <1>6
<1>9. ShowsEnd(events, s, row.base)  BY <1>5, <1>7, <1>8 DEF ShowsEnd
<1> QED  BY <1>9 DEF EndedIn, events

\* The calls of a reconciliation up to its transaction.
LEMMA SyncWorks ==
    ASSUME Types, TurnInv, "slow_start" \notin Disturbances, NEW w \in Workers,
           \/ \E r \in Runs : StartSync(w, r)
           \/ ReadEvents(w) \/ ReadSession(w) \/ Identify(w)
    PROVE  Steady /\ \A v \in Workers : Works(v)
<1> DEFINE me == worker[w]
<1>0. /\ me \in GoodWorker /\ me \in WorkerType /\ Busy(me) /\ me.row \in RunType /\ FromRow(me)
      /\ worker \in [Workers -> GoodWorker] /\ run \in [Runs -> RunType]
      /\ UNCHANGED session /\ UNCHANGED start
  BY DEF Types, Syncs, Rows, GoodWorker, WorkerType, TurnInv, StartSync, ReadEvents, ReadSession,
     Identify, SyncUnchanged
<1>1. ASSUME NEW r \in Runs, StartSync(w, r)
      PROVE  Steady /\ \A v \in Workers : Works(v)
  <2> DEFINE s == SessionOf(r)
             q == [Idle EXCEPT !.pc = "events", !.run = r, !.cancel = me.cancel,
                               !.session = s, !.row = run[r]]
  <2>1. UNCHANGED run /\ worker' = [worker EXCEPT ![w] = q]  BY <1>1 DEF StartSync
  <2> HIDE DEF s
  <2>2. q.pc = "events" /\ q.run = r /\ q.row = run[r]  BY DEF Idle
  <2> HIDE DEF q
  <2>3. worker'[w] = q  BY <1>0, <2>1
  <2>4. Over(r)  BY <1>1 DEF StartSync, MayOvertakeStart, Over, Active, None
  <2>5. FromRow(worker[w])'  BY <1>0, <2>1, <2>2, <2>3, <2>4 DEF FromRow, Over
  <2> QED  BY <1>0, <2>1, <2>5, NothingMoves, PutWorks
<1>2. CASE ReadEvents(w)
  <2> DEFINE seen == NewEvents(me.row, me.session)
             q == [me EXCEPT !.pc = "session", !.seen = seen]
  <2>1. UNCHANGED run /\ worker' = [worker EXCEPT ![w] = q] /\ me.pc = "events"
    BY <1>2 DEF ReadEvents
  <2>2. me.session \in Sessions /\ me.pc \in SyncPc  BY <1>0, <2>1 DEF Busy, SyncPc
  <2>3. \A i \in DOMAIN seen : seen[i].type = "completed" => EndedIn(me.session, me.row.base)
    BY <1>0, <2>2, SeenIsNew
  <2> HIDE DEF seen
  <2>4. /\ q.pc = "session" /\ q.run = me.run /\ q.row = me.row /\ q.session = me.session
        /\ q.seen = seen
    BY <1>0 DEF WorkerType
  <2> HIDE DEF q
  <2>5. worker'[w] = q  BY <1>0, <2>1
  <2>6. FromRow(worker[w])'
    BY <1>0, <2>1, <2>2, <2>3, <2>4, <2>5 DEF FromRow, Over, EndedIn
  <2> QED  BY <1>0, <2>1, <2>6, NothingMoves, PutWorks
<1>3. CASE ReadSession(w)
  <2> DEFINE s == session[me.session]
             pc == IF me.row.known THEN "apply" ELSE "identify"
             q == [me EXCEPT !.pc = pc, !.status = s.status, !.usage = s.usage,
                             !.output = s.output]
  <2>1. UNCHANGED run /\ worker' = [worker EXCEPT ![w] = q] /\ me.pc = "session"
    BY <1>3 DEF ReadSession
  <2>5. me.session \in Sessions  BY <1>0, <2>1 DEF Busy, SyncPc
  <2>6. s.usage \in Nat /\ s = session[me.session]  BY <2>5, SessionFacts DEF Types
  <2> HIDE DEF s, pc
  <2>2. /\ q.run = me.run /\ q.row = me.row /\ q.session = me.session /\ q.seen = me.seen
        /\ q.usage = s.usage
    BY <1>0 DEF WorkerType
  <2> HIDE DEF q
  <2>3. worker'[w] = q  BY <1>0, <2>1
  <2>7. q.usage <= session'[q.session].usage  BY <1>0, <2>2, <2>6
  <2>4. FromRow(worker[w])'
    BY <1>0, <2>1, <2>2, <2>3, <2>7 DEF FromRow, Over, EndedIn, SyncPc
  <2> QED  BY <1>0, <2>1, <2>4, NothingMoves, PutWorks
<1>4. CASE Identify(w)
  <2> DEFINE r == me.run
             row == [me.row EXCEPT !.known = TRUE]
             q == [me EXCEPT !.pc = "apply", !.row = row]
             v == [run[r] EXCEPT !.known = TRUE, !.base = me.row.base]
  <2>0. /\ me.pc = "identify"
        /\ run' = [run EXCEPT ![r].known = TRUE, ![r].base = me.row.base]
        /\ worker' = [worker EXCEPT ![w].pc = "apply", ![w].row.known = TRUE]
    BY <1>4 DEF Identify
  <2>1. /\ run' = [run EXCEPT ![r] = v] /\ worker' = [worker EXCEPT ![w] = q]
        /\ me.pc = "identify"
    BY <1>0, <2>0, Zenon DEF WorkerType, RunType
  <2>2. r \in Runs /\ me.pc \in SyncPc /\ me.row.base = run[r].base
    BY <1>0, <2>1 DEF Busy, SyncPc, FromRow
  <2>3. row.base = me.row.base  BY <1>0 DEF RunType
  <2> HIDE DEF row
  <2>4. /\ q.run = r /\ q.row = row /\ q.session = me.session /\ q.seen = me.seen
        /\ q.usage = me.usage
    BY <1>0 DEF WorkerType
  <2>5. v.base = run[r].base /\ v.session = run[r].session /\ v.status = run[r].status
    BY <1>0, <2>2 DEF RunType
  <2> HIDE DEF q, v
  <2>6. worker'[w] = q /\ run'[r] = v  BY <1>0, <2>1, <2>2
  <2>7. FromRow(worker[w])'
    BY <1>0, <2>1, <2>2, <2>3, <2>4, <2>5, <2>6 DEF FromRow, Over, EndedIn
  <2>8. Steady
    <3> HIDE DEF r
    <3> QED  BY <1>0, <2>1, <2>5, PutSteady
  <2> QED  BY <2>1, <2>7, <2>8, PutWorks
<1> QED  BY <1>1, <1>2, <1>3, <1>4

\* The transaction completes a run only for an end of turn it saw.
LEMMA CompletedWasSeen ==
    ASSUME NEW me \in GoodWorker, me.pc \in SyncPc, NextStatus(me) = "completed"
    PROVE  \E i \in DOMAIN me.seen : me.seen[i].type = "completed"
<1>1. me.seen \in Seq(EventType) /\ me.row.status # "completed"
  BY DEF GoodWorker, WorkerType, Busy, Active
<1>2. /\ Len(me.seen) \in Nat
      /\ Ends(me) \in SUBSET (1 .. Len(me.seen)) /\ Asks(me) \in SUBSET (1 .. Len(me.seen))
      /\ Ends(me) \subseteq DOMAIN me.seen
  BY <1>1, LenProperties DEF Ends, Asks
<1>3. Outcome(me) = "completed"  BY <1>1 DEF NextStatus
<1>4. LoopOutcome(me) = "completed"  BY <1>3 DEF Outcome, None
<1>5. /\ Newest(Ends(me)) > Newest(Asks(me))
      /\ me.seen[Newest(Ends(me))].type = "completed"
  BY <1>4 DEF LoopOutcome, None
<1>6. Newest(Asks(me)) \in Nat  BY <1>2, NewestIs
<1>7. Ends(me) = {} => Newest(Ends(me)) = 0  BY <1>2, NewestIs
<1>8. Ends(me) # {}  BY <1>5, <1>6, <1>7
<1>9. Newest(Ends(me)) \in Ends(me)  BY <1>2, <1>8, NewestIs
<1> QED  BY <1>2, <1>5, <1>9

LEMMA ApplyMoves ==
    ASSUME Types, TurnInv, NEW w \in Workers, ApplyProgress(w)
    PROVE  /\ \A r \in Runs : Moves(r)
           /\ \A v \in Workers : Works(v)
<1> DEFINE me == worker[w]
           r == me.run
<1>0. /\ me \in GoodWorker /\ me.pc = "apply" /\ me.pc \in SyncPc /\ me.pc # "idle" /\ r \in Runs
      /\ me.session \in Sessions /\ run \in [Runs -> RunType] /\ run[r] \in RunType
      /\ FromRow(me) /\ UNCHANGED start
  BY DEF Types, Syncs, Rows, GoodWorker, Busy, TurnInv, ApplyProgress, SyncPc, SyncUnchanged
<1>1. \A v \in Workers : Works(v)
  <2>1. Effects(me) \in EffectsType  BY <1>0, EffectsFit
  <2>2. worker' = [worker EXCEPT ![w] = Continue(me, Effects(me))]  BY DEF ApplyProgress
  <2>3. Continue(me, Effects(me)).pc \notin SyncPc  BY <1>0, <2>1, ContinueFits DEF SyncPc
  <2> QED  BY <2>2, <2>3, PutWorks
<1>2. ASSUME NEW q \in Runs PROVE Moves(q)
  <2> DEFINE status == NextStatus(me)
             f == run[r].finalize \/ AsksToFinalize(me)
             b == run[r].interrupt \/ Interrupts(me)
             v == [run[r] EXCEPT !.status = status, !.finalize = f, !.interrupt = b]
  <2>1. run' = [run EXCEPT ![r] = v]  BY <1>0 DEF ApplyProgress, RunType
  <2>2. status \in Active \cup Terminal  BY <1>0, NextStatusFits
  <2>3. Over(r) /\ me.row.base = run[r].base  BY <1>0 DEF FromRow
  <2>4. status = "completed" => \E s \in Sessions : EndedIn(s, run[r].base)
    BY <1>0, <2>3, CompletedWasSeen DEF FromRow
  <2> HIDE DEF status, f, b
  <2>5. v.base = run[r].base /\ v.session = run[r].session /\ v.status = status
    BY <1>0 DEF RunType
  <2> HIDE DEF v
  <2>6. Begun(q)  BY DEF TurnInv
  <2>7. CASE q = r
    <3>1. run'[q] = v  BY <1>0, <2>1, <2>7
    <3>2. status # None  BY <2>2 DEF Active, Terminal, None
    <3> QED
      BY <1>0, <2>3, <2>4, <2>5, <2>6, <2>7, <3>1, <3>2 DEF Moves, Begun, Over
  <2>8. CASE q # r
    <3>1. run'[q] = run[q]  BY <1>0, <2>1, <2>8
    <3> QED  BY <1>0, <2>6, <3>1 DEF Moves, Begun, Over
  <2> QED  BY <2>7, <2>8
<1> QED  BY <1>1, <1>2

\* The calls after the transaction and the steps of a cancellation.
LEMMA WorkersMove ==
    ASSUME Types, NEW w \in Workers,
           \/ FailSync(w) \/ CrashWorker(w) \/ CancelStep(w)
           \/ SendFinalize(w) \/ SendInterruptRequest(w) \/ FailInterruptRequest(w)
           \/ \E t \in Tools : TellAutomatic(w, t)
           \/ \E x \in worker[w].todo.expired : TellExpired(w, x) \/ FailExpired(w, x)
    PROVE  Steady /\ \A v \in Workers : Works(v)
<1> DEFINE me == worker[w]
<1>0. /\ me \in GoodWorker /\ me \in WorkerType /\ Idle \in WorkerType /\ Idle.pc = "idle"
      /\ run \in [Runs -> RunType] /\ "idle" \notin SyncPc
      /\ me.pc # "idle" => me.run \in Runs
  BY IdleFits DEF Types, Syncs, Rows, GoodWorker, Busy, SyncPc
<1>1. UNCHANGED start
  BY DEF FailSync, CrashWorker, SyncUnchanged, CancelStep, ReadForCancel, StopProvider,
     FailStopProvider, SkipSync, ForceCancel, CancelUnchanged, SendFinalize,
     SendInterruptRequest, FailInterruptRequest, TellAutomatic, TellExpired, FailExpired,
     EffectsUnchanged
<1>2. \A v \in Workers : Works(v)
  <2>1. ASSUME NEW q, worker' = [worker EXCEPT ![w] = q], q.pc \notin SyncPc
        PROVE  \A v \in Workers : Works(v)
    BY <2>1, PutWorks
  <2>2. CASE FailSync(w) \/ FailInterruptRequest(w) \/ SkipSync(w)
    <3>1. me.pc # "idle" /\ worker' = [worker EXCEPT ![w] = Leave(me)]
      BY <2>2 DEF FailSync, FailInterruptRequest, SkipSync
    <3>2. Leave(me).pc \notin SyncPc  BY <1>0, <3>1, LeaveFits DEF SyncPc
    <3> QED  BY <2>1, <3>1, <3>2
  <2>3. CASE CrashWorker(w) \/ FailStopProvider(w) \/ ForceCancel(w)
    <3>1. worker' = [worker EXCEPT ![w] = Idle]
      BY <2>3 DEF CrashWorker, FailStopProvider, ForceCancel
    <3> QED  BY <1>0, <2>1, <3>1
  <2>4. CASE StopProvider(w) \/ \E r \in Runs : ReadForCancel(w, r)
    <3>1. ASSUME NEW r \in Runs, ReadForCancel(w, r) PROVE \A v \in Workers : Works(v)
      <4> DEFINE pc == IF SessionOf(r) = None THEN "sync" ELSE "stop"
                 s == SessionOf(r)
                 q == [Idle EXCEPT !.pc = pc, !.run = r, !.cancel = TRUE, !.session = s]
      <4>1. worker' = [worker EXCEPT ![w] = q]  BY <3>1 DEF ReadForCancel
      <4>2. pc \notin SyncPc  BY DEF SyncPc
      <4> HIDE DEF pc, s
      <4>3. q.pc = pc  BY <1>0 DEF WorkerType
      <4> HIDE DEF q
      <4> QED  BY <2>1, <4>1, <4>2, <4>3
    <3>2. CASE StopProvider(w)
      <4> DEFINE q == [me EXCEPT !.pc = "sync"]
      <4>1. worker' = [worker EXCEPT ![w] = q]  BY <1>0, <3>2 DEF StopProvider
      <4>2. q.pc \notin SyncPc  BY <1>0 DEF WorkerType, SyncPc
      <4> HIDE DEF q
      <4> QED  BY <2>1, <4>1, <4>2
    <3> QED  BY <2>4, <3>1, <3>2
  <2>5. ASSUME NEW todo \in EffectsType, me.pc = "effects",
               worker' = [worker EXCEPT ![w] = Continue(me, todo)]
        PROVE  \A v \in Workers : Works(v)
    <3>1. Continue(me, todo).pc \notin SyncPc  BY <1>0, <2>5, ContinueFits DEF SyncPc
    <3> QED  BY <2>1, <2>5, <3>1
  <2>6. CASE SendFinalize(w) \/ SendInterruptRequest(w)
    BY <1>0, <2>5, <2>6, TodoFits DEF SendFinalize, SendInterruptRequest
  <2>7. ASSUME NEW t \in Tools, TellAutomatic(w, t) PROVE \A v \in Workers : Works(v)
    BY <1>0, <2>5, <2>7, TodoFits DEF TellAutomatic
  <2>8. ASSUME NEW x \in me.todo.expired, TellExpired(w, x) \/ FailExpired(w, x)
        PROVE  \A v \in Workers : Works(v)
    BY <1>0, <2>5, <2>8, TodoFits DEF TellExpired, FailExpired, TellsExpired
  <2> QED  BY <2>2, <2>3, <2>4, <2>6, <2>7, <2>8 DEF CancelStep
<1>3. Steady
  <2>1. CASE SendFinalize(w) \/ FailInterruptRequest(w)
    <3> DEFINE q == me.run
               u == [run[q] EXCEPT !.finalize = FALSE]
               v == [run[q] EXCEPT !.interrupt = FALSE]
    <3>1. q \in Runs => run[q] \in RunType  BY <1>0
    <3>2. \/ UNCHANGED run \/ run' = [run EXCEPT ![q] = u] \/ run' = [run EXCEPT ![q] = v]
      BY <2>1 DEF SendFinalize, FailInterruptRequest, ClearInterrupt
    <3>3. q \in Runs => /\ u.base = run[q].base /\ u.session = run[q].session
                        /\ u.status = run[q].status
                        /\ v.base = run[q].base /\ v.session = run[q].session
                        /\ v.status = run[q].status
      BY <3>1 DEF RunType
    <3> HIDE DEF u, v, q
    <3> QED  BY <1>1, <3>2, <3>3, NothingMoves, PutSteady
  <2>2. ASSUME NEW x \in me.todo.expired, FailExpired(w, x) PROVE Steady
    <3> DEFINE q == me.run
               v == [run[q] EXCEPT !.status =
                 IF approvals[q][x[1]][x[2]] = "expired" THEN "waiting_for_approval" ELSE @]
    <3>1. q \in Runs => run[q] \in RunType  BY <1>0
    <3>2. run' = [run EXCEPT ![q] = v]  BY <2>2 DEF FailExpired
    <3>3. q \in Runs => /\ v.base = run[q].base /\ v.session = run[q].session
                        /\ v.status \in {run[q].status, "waiting_for_approval"}
      BY <3>1 DEF RunType
    <3>4. "waiting_for_approval" \in Status \ {None, "completed"}  BY DEF Status, Active, None
    <3> HIDE DEF v, q
    <3> QED  BY <1>1, <3>2, <3>3, <3>4, PutSteady
  <2>3. CASE ForceCancel(w)
    <3>1. UNCHANGED run \/ run' = [run EXCEPT ![me.run].status = "cancelled"]
      BY <2>3 DEF ForceCancel
    <3>2. "cancelled" \in Status \ {None, "completed"}  BY DEF Status, Terminal, None
    <3> QED  BY <1>1, <3>1, <3>2, NothingMoves, StatusSteady
  <2>4. CASE \/ FailSync(w) \/ CrashWorker(w) \/ \E r \in Runs : ReadForCancel(w, r)
             \/ StopProvider(w) \/ FailStopProvider(w) \/ SkipSync(w)
             \/ SendInterruptRequest(w) \/ \E t \in Tools : TellAutomatic(w, t)
             \/ \E x \in me.todo.expired : TellExpired(w, x)
    <3>1. UNCHANGED run
      BY <2>4 DEF FailSync, CrashWorker, ReadForCancel, StopProvider, FailStopProvider, SkipSync,
         SendInterruptRequest, TellAutomatic, TellExpired
    <3> QED  BY <1>1, <3>1, NothingMoves
  <2> QED  BY <2>1, <2>2, <2>3, <2>4 DEF CancelStep
<1> QED  BY <1>2, <1>3

LEMMA OthersMove ==
    ASSUME Types,
           \/ \E d \in Deciders : DecideStep(d) \/ CrashDecider(d)
           \/ \E r \in Runs : ExpireLease(r)
           \/ \E r \in Runs, t \in Tools : \E i \in DOMAIN approvals[r][t] : ApprovalTimesOut(r, t, i)
           \/ ReservationAges
           \/ \E s \in Sessions : AgentWorks(s)
           \/ UNCHANGED vars
    PROVE  Steady /\ \A w \in Workers : Works(w)
<1>1. UNCHANGED start /\ UNCHANGED worker
  <2>1. ASSUME NEW d \in Deciders, DecideStep(d) \/ CrashDecider(d)
        PROVE  UNCHANGED start /\ UNCHANGED worker
    BY <2>1 DEF DecideStep, Decide, TellDecision, FailDecision, ReopenDecision, FinishDecision,
       CrashDecider, DecideUnchanged
  <2>2. ASSUME NEW r \in Runs, ExpireLease(r) PROVE UNCHANGED start /\ UNCHANGED worker
    BY <2>2 DEF ExpireLease, SyncUnchanged
  <2>3. Elsewhere \/ UNCHANGED vars => UNCHANGED start /\ UNCHANGED worker
    BY DEF Elsewhere, processes, vars
  <2> QED  BY <2>1, <2>2, <2>3 DEF ApprovalTimesOut, ReservationAges, AgentWorks
<1>2. ASSUME NEW d \in Deciders, FinishDecision(d) PROVE Steady
  <2> DEFINE status == IF PendingTools(decider[d].run) # {}
                       THEN "waiting_for_approval" ELSE "running"
  <2>1. run' = [run EXCEPT ![decider[d].run].status = status]  BY <1>2 DEF FinishDecision
  <2>2. status \in Status \ {None, "completed"}  BY DEF Status, Active, None
  <2> HIDE DEF status
  <2> QED  BY <1>1, <2>1, <2>2, StatusSteady
<1>3. UNCHANGED run \/ \E d \in Deciders : FinishDecision(d)
  <2>1. ASSUME NEW d \in Deciders, DecideStep(d) \/ CrashDecider(d), ~FinishDecision(d)
        PROVE  UNCHANGED run
    BY <2>1 DEF DecideStep, Decide, TellDecision, FailDecision, ReopenDecision, CrashDecider
  <2>2. ASSUME NEW r \in Runs, ExpireLease(r) PROVE UNCHANGED run  BY <2>2 DEF ExpireLease
  <2>3. Elsewhere \/ UNCHANGED vars => UNCHANGED run  BY DEF Elsewhere, vars
  <2> QED  BY <2>1, <2>2, <2>3 DEF ApprovalTimesOut, ReservationAges, AgentWorks
<1> QED  BY <1>1, <1>2, <1>3, NothingMoves, NobodyWorks

LEMMA TurnsAlways ==
    ASSUME "slow_start" \notin Disturbances PROVE Spec => [](Types /\ TurnInv)
<1>1. Init => TurnInv
  <2> SUFFICES ASSUME Init PROVE TurnInv  OBVIOUS
  <2>1. Blanks  BY DEF Init, AgentInit, NoSession, Blanks, Blank, Unused
  <2>2. \A r \in Runs : Begun(r)  BY DEF Init, NoRun, NoStart, None, Begun
  <2>3. \A w \in Workers : FromRow(worker[w])  BY DEF Init, Idle, FromRow, SyncPc
  <2> QED  BY <2>1, <2>2, <2>3 DEF TurnInv
<1>2. Types /\ TurnInv /\ [Next]_vars => TurnInv'
  <2> SUFFICES ASSUME Types, TurnInv, [Next]_vars PROVE TurnInv'  OBVIOUS
  <2>1. Appends  BY StepAppends DEF TurnInv
  <2>2. (\A r \in Runs : Moves(r)) /\ \A w \in Workers : Works(w)
    BY StartMoves, NobodyWorks, SyncWorks, ApplyMoves, WorkersMove, OthersMove, SteadyMoves
       DEF Next, SyncStep
  <2>3. Types'  BY StepKeeps DEF Keeps
  <2> QED  BY <2>1, <2>2, <2>3, TurnKept
<1> QED  BY <1>1, <1>2, TypesAlways, PTL DEF Spec

\* A completed run has an end of turn in one of the provider's sessions, and when
\* that is the session of its baseline, a later one than the baseline counted
\* (_provider_events_for_run): however many sessions a Work session went through,
\* a follow-up is not completed by what ended before it.
CompletedByATurn ==
    \A r \in Runs : run[r].status = "completed" =>
        \E s \in Sessions : ShowsEnd(session[s].events, s, run[r].base)

THEOREM CompletionsSawAnEnd ==
    ASSUME "slow_start" \notin Disturbances PROVE Spec => []CompletedByATurn
<1>1. Types /\ TurnInv => CompletedByATurn  BY DEF TurnInv, Begun, EndedIn, CompletedByATurn
<1> QED  BY <1>1, TurnsAlways, PTL
=============================================================================
