----------------------------- MODULE ChatClient -----------------------------
(***************************************************************************)
(* The browser's conversation: the transcript it shows, the session it     *)
(* continues and the requests it has under way (hooks/useChat.ts,          *)
(* store/chatStore.ts, the navigation of pages/ChatPage.tsx), with the     *)
(* server that answers and saves each question (server/persistence.py).    *)
(*                                                                         *)
(* JavaScript runs one callback at a time: an action is the code between   *)
(* two awaits.  A question is the number of the request that asks it, and  *)
(* a session the number of the question it was created for.                *)
(***************************************************************************)
EXTENDS Naturals, FiniteSets

CONSTANTS MaxQuestions,    \* bounds the requests of a behaviour
          Disturbances     \* of {"save_error", "reload"}

ASSUME ChatAssumption == MaxQuestions \in Nat

Questions == 1 .. MaxQuestions
None == 0
Sessions == Questions \cup {None}
Origins == {"asked", "history"}
Turns == Questions \X Origins
NoTurn == <<None, "none">>

VARIABLES shown,       \* turns: their status and the request whose answer they show
          active,      \* activeTurnId
          streaming,
          session,     \* sessionId; pendingNewSession is its absence
          controller,  \* activeAbortController, by its request
          aborted,     \* the requests whose signal is aborted
          req,         \* what the code of each request is doing
          server,      \* what the server is doing for it
          saved,       \* the session each question is saved in
          fresh,       \* history: the conversation began with New chat
          strayed      \* history: the user left a request running

transcript == <<shown, active, streaming, session>>
vars == <<transcript, controller, aborted, req, server, saved, fresh, strayed>>

Hidden == [status |-> "none", by |-> None]
Unused == [at |-> "unused", kind |-> "submit", turn |-> NoTurn, session |-> None,
           context |-> {}, previous |-> NoTurn, fresh |-> FALSE]

Init ==
    /\ shown = [t \in Turns |-> Hidden]
    /\ active = NoTurn /\ streaming = FALSE /\ session = None
    /\ controller = None /\ aborted = {}
    /\ req = [r \in Questions |-> Unused]
    /\ server = [r \in Questions |-> "idle"]
    /\ saved = [r \in Questions |-> None]
    /\ fresh = TRUE /\ strayed = FALSE

Shown == {t \in Turns : shown[t].status # "none"}
Newest(turns) == IF turns = {} THEN NoTurn
                 ELSE CHOOSE t \in turns : \A u \in turns : u[1] <= t[1]
Working == {"optimizing", "streaming"}
InFlight(r) == req[r].at \in {"optimizing", "asked", "streaming"}
Running(r) == InFlight(r) /\ r \notin aborted

\* The effects of the store's setters; a turn that is not shown is not found.
StatusOf(t, status) ==
    IF t \in Shown THEN [shown EXCEPT ![t].status = status] ELSE shown
Answered(t, r) ==
    IF t \in Shown THEN [shown EXCEPT ![t] = [status |-> "complete", by |-> r]] ELSE shown

\* buildConversationHistory; a failed turn gives its question only.
Context(turns) == {shown[t].by : t \in {u \in turns : shown[u].status = "complete"}}

\* beginRequestController aborts the request that is under way.
Begin(r) ==
    /\ controller' = r
    /\ aborted' = aborted \cup ({controller} \ {None})
\* The finally block of submit and regenerate.
End(r) ==
    /\ req' = [req EXCEPT ![r] = [@ EXCEPT !.at = "over", !.kind = "submit", !.previous = NoTurn]]
    /\ controller' = IF controller = r THEN None ELSE controller
Goto(r, at) == req' = [req EXCEPT ![r].at = at]
Sent(r) == server' = [server EXCEPT ![r] = "asked"]

New(r) == /\ req[r].at = "unused"
          /\ \A q \in Questions : q < r => req[q].at # "unused"
Request(kind, at, t, turns) ==
    [at |-> at, kind |-> kind, turn |-> t, session |-> session, context |-> Context(turns),
     previous |-> active, fresh |-> fresh]

----------------------------------------------------------------------------
(* The user *)

\* The composer sends when nothing streams, a suggested follow-up under the last
\* answer whenever that is complete.
Submit(r, improve) ==
    LET t == <<r, "asked">>
    IN /\ New(r)
       /\ ~streaming \/ (~improve /\ Shown # {} /\ shown[Newest(Shown)].status = "complete")
       /\ Begin(r)
       /\ req' = [req EXCEPT ![r] =
                    Request("submit", IF improve THEN "optimizing" ELSE "asked", t, Shown)]
       /\ shown' = [shown EXCEPT ![t] =
                      [status |-> IF improve THEN "optimizing" ELSE "streaming", by |-> r]]
       /\ active' = t /\ streaming' = TRUE
       /\ IF improve THEN UNCHANGED server ELSE Sent(r)
       /\ fresh' = FALSE
       /\ UNCHANGED <<session, saved, strayed>>

\* "room" is retryWithMoreRoom.  A turn cancelled while it was optimized shows no
\* answer to regenerate.
Regenerate(r, t, kind) ==
    /\ New(r)
    /\ t \in Shown
    /\ \/ shown[t].status \in {"complete", "error"}
       \/ shown[t].status = "cancelled" /\ server[shown[t].by] # "idle"
    /\ kind = "room" => shown[t].status = "complete"
    /\ Begin(r)
    /\ req' = [req EXCEPT ![r] = Request(kind, "asked", t, {u \in Shown : u[1] < t[1]})]
    /\ streaming' = TRUE
    /\ Sent(r)
    /\ fresh' = FALSE
    /\ UNCHANGED <<shown, active, session, saved, strayed>>

\* The stop button.
Cancel ==
    /\ streaming
    /\ aborted' = aborted \cup ({controller} \ {None})
    /\ controller' = None
    /\ shown' = StatusOf(active, "cancelled")
    /\ streaming' = FALSE
    /\ UNCHANGED <<active, session, req, server, saved, fresh, strayed>>

\* New chat, the deletion of the open thread and signing out: only the mobile
\* header and signing out cancel what is running.
NewChat(cancels) ==
    /\ shown' = [t \in Turns |-> Hidden]
    /\ active' = NoTurn /\ streaming' = FALSE /\ session' = None
    /\ IF cancels
       THEN aborted' = aborted \cup ({controller} \ {None}) /\ controller' = None
       ELSE UNCHANGED <<aborted, controller>>
    /\ fresh' = TRUE
    /\ strayed' = (strayed \/ (~cancels /\ \E r \in Questions : Running(r)))
    /\ UNCHANGED <<req, server, saved>>

Thread(s) == {q \in Questions : saved[q] = s}

\* buildTurnsFromHistoryEntries makes turns of its own: the request of a turn that was
\* shown before does not find them.
FromHistory(seen) ==
    [t \in Turns |-> IF t \in seen \X {"history"} THEN [status |-> "complete", by |-> t[1]]
                    ELSE Hidden]

\* Selecting a thread fetches it and then replaces the transcript, whatever runs by
\* then; restoring the thread of the session after a page load does the same.  The
\* awaits need no step of their own: a selection can be made at any time, and what
\* was saved after the fetch is missing from it.
Hydrate(s) ==
    \E seen \in SUBSET Thread(s) :
          /\ seen # {}
          /\ shown' = FromHistory(seen)
          /\ active' = Newest(seen \X {"history"})
          /\ streaming' = FALSE /\ session' = s
          /\ fresh' = FALSE
          /\ strayed' = (strayed \/ \E r \in Questions : Running(r))
          /\ UNCHANGED <<controller, aborted, req, server, saved>>

\* A page load keeps the session, in the browser's storage.
Reload ==
    /\ "reload" \in Disturbances
    /\ shown' = [t \in Turns |-> Hidden]
    /\ active' = NoTurn /\ streaming' = FALSE
    /\ controller' = None
    /\ aborted' = aborted \cup {r \in Questions : InFlight(r)}
    /\ req' = [r \in Questions |-> IF req[r].at = "unused" THEN req[r]
                                   ELSE [req[r] EXCEPT !.at = "over", !.kind = "submit",
                                                       !.previous = NoTurn]]
    /\ fresh' = (session = None)
    /\ UNCHANGED <<session, server, saved, strayed>>

----------------------------------------------------------------------------
(* The code of a request, from one await to the next *)

\* What an aborted request receives, or its AbortError, changes nothing.
Stopped(r) ==
    /\ InFlight(r) /\ r \in aborted
    /\ End(r)
    /\ UNCHANGED <<transcript, aborted, server, saved, fresh, strayed>>

\* MUTANT: the signal is not checked after the optimizer's answer.
Optimized_Unchecked(r) ==
    /\ req[r].at = "optimizing"
    /\ shown' = StatusOf(req[r].turn, "streaming")
    /\ streaming' = TRUE
    /\ Goto(r, "asked")
    /\ Sent(r)
    /\ UNCHANGED <<active, session, controller, aborted, saved, fresh, strayed>>

\* The optimizer's answer, or a failure that is only logged.
Optimized(r) ==
    /\ req[r].at = "optimizing" /\ r \notin aborted
    /\ shown' = StatusOf(req[r].turn, "streaming")
    /\ streaming' = TRUE
    /\ Goto(r, "asked")
    /\ Sent(r)
    /\ UNCHANGED <<active, session, controller, aborted, saved, fresh, strayed>>

\* MUTANT: a denied turn stays in the transcript.
Denied_Kept(r) ==
    /\ req[r].at \in {"optimizing", "asked"} /\ r \notin aborted
    /\ req[r].at = "asked" => server[r] = "asked"
    /\ streaming' = FALSE
    /\ End(r)
    /\ server' = [server EXCEPT ![r] = "settled"]
    /\ UNCHANGED <<shown, active, session, aborted, saved, fresh, strayed>>

\* The plan or the credits refuse the optimization or the question.
Denied(r) ==
    LET drops == req[r].kind = "submit" /\ active \notin {NoTurn, req[r].previous}
        rest == Shown \ {active}
    IN /\ req[r].at \in {"optimizing", "asked"} /\ r \notin aborted
       /\ req[r].at = "asked" => server[r] = "asked"
       /\ IF drops
          THEN /\ shown' = [shown EXCEPT ![active] = Hidden]
               /\ active' = Newest(rest)
          ELSE /\ shown' = IF req[r].kind = "room" THEN StatusOf(req[r].turn, "complete")
                           ELSE shown
               /\ UNCHANGED active
       /\ streaming' = FALSE
       /\ End(r)
       /\ server' = [server EXCEPT ![r] = "settled"]
       /\ UNCHANGED <<session, aborted, saved, fresh, strayed>>

\* The first event; prepareTurnResponseForStreaming for a regeneration.
FirstChunk(r) ==
    /\ req[r].at = "asked" /\ r \notin aborted
    /\ Goto(r, "streaming")
    /\ IF req[r].kind = "submit" THEN UNCHANGED transcript
       ELSE /\ shown' = StatusOf(req[r].turn, "streaming")
            /\ active' = req[r].turn /\ streaming' = TRUE
            /\ UNCHANGED session
    /\ UNCHANGED <<controller, aborted, server, saved, fresh, strayed>>

\* MUTANT: the session named by the done event is not kept.
Done_SessionLost(r) ==
    /\ req[r].at = "streaming" /\ server[r] = "settled" /\ r \notin aborted
    /\ shown' = Answered(req[r].turn, r)
    /\ streaming' = FALSE
    /\ Goto(r, "refreshing")
    /\ UNCHANGED <<active, session, controller, aborted, server, saved, fresh, strayed>>

\* The done event follows the server's save; without one it names the session of
\* the request.
Done(r) ==
    LET named == IF saved[r] # None THEN saved[r] ELSE req[r].session
    IN /\ req[r].at = "streaming" /\ server[r] = "settled" /\ r \notin aborted
       /\ session' = IF named # None THEN named ELSE session
       /\ shown' = Answered(req[r].turn, r)
       /\ streaming' = FALSE
       /\ Goto(r, "refreshing")
       /\ UNCHANGED <<active, controller, aborted, server, saved, fresh, strayed>>

\* MUTANT: a failure before the first event leaves the composer streaming.
Fails_Streaming(r) ==
    /\ req[r].at \in {"asked", "streaming"} /\ r \notin aborted
    /\ shown' = StatusOf(active, "error")
    /\ streaming' = (req[r].at = "asked")
    /\ End(r)
    /\ UNCHANGED <<active, session, aborted, server, saved, fresh, strayed>>

\* An error event or a broken connection: the failure is shown on the active turn.
Fails(r) ==
    /\ req[r].at \in {"asked", "streaming"} /\ r \notin aborted
    /\ shown' = IF req[r].kind = "room" THEN StatusOf(req[r].turn, "complete")
                ELSE StatusOf(active, "error")
    /\ streaming' = FALSE
    /\ End(r)
    /\ UNCHANGED <<active, session, aborted, server, saved, fresh, strayed>>

\* refreshHistory has returned.
Refreshed(r) ==
    /\ req[r].at = "refreshing"
    /\ End(r)
    /\ UNCHANGED <<transcript, aborted, server, saved, fresh, strayed>>

----------------------------------------------------------------------------
(* The server: it saves an answer or an error before it sends the last event, *)
(* and a question whose client has gone if it does not notice first.          *)

\* get_or_create_api_session; buildContext asks for a new session when it has none.
SessionOf(r) == IF req[r].session = None THEN r ELSE req[r].session

Saves(r) ==
    /\ server[r] = "asked"
    /\ server' = [server EXCEPT ![r] = "settled"]
    /\ saved' = [saved EXCEPT ![r] = SessionOf(r)]
    /\ UNCHANGED <<transcript, controller, aborted, req, fresh, strayed>>

DoesNotSave(r) ==
    /\ server[r] = "asked"
    /\ "save_error" \in Disturbances \/ r \in aborted \/ req[r].at = "over"
    /\ server' = [server EXCEPT ![r] = "settled"]
    /\ UNCHANGED <<transcript, controller, aborted, req, saved, fresh, strayed>>

RequestStep(r) ==
    Stopped(r) \/ Optimized(r) \/ Denied(r) \/ FirstChunk(r) \/ Done(r) \/ Fails(r) \/ Refreshed(r)

Next ==
    \/ \E r \in Questions, improve \in BOOLEAN : Submit(r, improve)
    \/ \E r \in Questions, t \in Turns, kind \in {"regenerate", "room"} : Regenerate(r, t, kind)
    \/ Cancel
    \/ \E cancels \in BOOLEAN : NewChat(cancels)
    \/ \E s \in Questions : Hydrate(s)
    \/ Reload
    \/ \E r \in Questions : RequestStep(r) \/ Saves(r) \/ DoesNotSave(r)

\* Promises settle and the server answers every request it has.
Fairness ==
    \A r \in Questions : WF_vars(RequestStep(r)) /\ WF_vars(Saves(r) \/ DoesNotSave(r))

Spec == Init /\ [][Next]_vars
FairSpec == Spec /\ Fairness

----------------------------------------------------------------------------
(* Properties *)

\* A follow-up continues the thread it was asked in, and New chat begins a new one:
\* a question is saved in the session of the answers sent along as its context, the
\* first one after New chat in a session of its own (buildContext, setSessionId,
\* get_or_create_api_session).  Navigating away from a running request is excepted:
\* its late done event sets the session of the conversation that was left.
Continues(r) ==
    /\ \A q \in req[r].context : saved[q] # None => saved[q] = saved[r]
    /\ req[r].fresh => saved[r] = r
SavedInItsThread == ~strayed => \A r \in Questions : saved[r] # None => Continues(r)

\* Only the request under way works on a turn: one that is cancelled, fails or is
\* denied leaves none behind that looks as if it were still answered.  A turn whose
\* request was cut off by a later request, which a regeneration or a suggested
\* follow-up may do, is excepted: it keeps its status.
Served(t) == \E r \in Questions : r = controller /\ Running(r) /\ req[r].turn = t
WorkingTurnsAreServed ==
    \A t \in Shown : shown[t].status \in Working =>
        \/ Served(t)
        \/ \E r \in aborted, later \in Questions :
              later > r /\ req[later].at # "unused" /\ req[r].turn = t

\* What the user stopped stays stopped: a cancelled turn is worked on or completed
\* again only by the request under way, made for it later (the signal is checked after
\* every await), or loaded again from the history.
CancelledStays ==
    [][\A t \in Turns :
          /\ shown[t].status = "cancelled" /\ shown'[t].status \in Working \cup {"complete"}
          /\ req' # req
          => Served(t)]_vars

\* The composer is not blocked for ever: streaming is reset however the request ends.
ComposerReturns == []<>~streaming

\* README.md: "New Chat starts a new backend session".
NewChatIsNew == \A r \in Questions : saved[r] # None /\ req[r].fresh => saved[r] = r
=============================================================================
