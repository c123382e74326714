---------------------------- MODULE ChatRequests ----------------------------
(***************************************************************************)
(* chat and chat_stream of server/routes/chat.py.  A stream finalises its  *)
(* billing when its first line has been taken from the generator, or at    *)
(* once when the answer is an error; a plain request finalises before it   *)
(* returns.                                                                *)
(***************************************************************************)
EXTENDS RequestBilling

\* The smart route is planned again with the models the reservation allows.
ChatRoutingFails(r) ==
    /\ At(r, Chats, {"reserved"})
    /\ ReleaseSafely(r)
    /\ Stop(r)
    /\ UNCHANGED history

\* The generator of a stream runs up to its first yield.
ChatStart(r) ==
    /\ At(r, {"chat_stream"}, {"reserved"})
    /\ Goto(r, "start")
    /\ UNCHANGED <<history, billing>>

\* orchestrator.ask runs in a thread; a stream awaits it between heartbeats.
ChatAsk(r) ==
    /\ At(r, {"chat"}, {"reserved"}) \/ At(r, {"chat_stream"}, {"start"})
    /\ req' = [req EXCEPT ![r].pc = "asking", ![r].thread = TRUE]
    /\ UNCHANGED <<history, billing>>

\* authorize_smart_fallback, called in that thread before a dearer fallback: it
\* may come when the request is long over.
ChatAuthorizeFallback(r, credits) ==
    /\ req[r].kind \in Chats /\ req[r].thread
    /\ Metering!SupplementReservation(r, credits)
    /\ UNCHANGED <<req, history, registered, ledger, excused>>

ThreadEnds(r) ==
    /\ req[r].pc \in Finished /\ req[r].thread
    /\ req' = [req EXCEPT ![r].thread = FALSE]
    /\ UNCHANGED <<history, billing>>

Answered(r, T, F, research, pc) ==
    [req EXCEPT ![r].pc = pc, ![r].out = T, ![r].failed = F, ![r].research = research,
                ![r].thread = FALSE]

\* Where a failed finalisation leaves the handler: a stream stores an error, a
\* plain request raises.
AfterFailure(r) == IF req[r].kind \in Streams THEN "failing" ELSE "over"

\* _successful_billing_targets and the usages: successful answers only.
Billable(r, T) == T

\* The answer of a plain request, or an error answer of a stream.
ChatAnswer(r, T, research) ==
    /\ At(r, Chats, {"asking"})
    /\ req[r].kind = "chat" \/ T = {}
    /\ UNCHANGED history
    /\ \/ /\ Finalize(r, Billable(r, T), research)
          /\ req' = Answered(r, T, Asked(r) \ T, research, "saving")
       \/ /\ Recover(r)
          /\ req' = Answered(r, T, Asked(r) \ T, research, AfterFailure(r))

\* A successful answer of a stream: its first line is handed over.
ChatFirstLine(r, research) ==
    /\ At(r, {"chat_stream"}, {"asking"})
    /\ req' = [Answered(r, Asked(r), {}, research, "first_line") EXCEPT ![r].shown = Asked(r)]
    /\ UNCHANGED <<history, billing>>

\* The generator goes on after its first line.
ChatBill(r) ==
    /\ At(r, {"chat_stream"}, {"first_line"})
    /\ UNCHANGED history
    /\ \/ Finalize(r, Billable(r, req[r].out), req[r].research) /\ Goto(r, "saving")
       \/ Recover(r) /\ Goto(r, "failing")

\* persist_chat_interaction; its errors are only logged.
ChatSave(r) ==
    /\ At(r, Chats, {"saving", "failing"})
    /\ \/ history' = [history EXCEPT ![r] =
              IF req[r].pc = "saving" /\ req[r].out # {} THEN "answer" ELSE "error"]
       \/ DatabaseMayFail /\ UNCHANGED history
    /\ Stop(r)
    /\ UNCHANGED billing

\* orchestrator.ask raises.
ChatProviderRaises(r) ==
    /\ "provider_error" \in Disturbances
    /\ At(r, Chats, {"asking"})
    /\ ReleaseSafely(r)
    /\ req' = [req EXCEPT ![r].pc = AfterFailure(r), ![r].thread = FALSE]
    /\ UNCHANGED history

\* CancelledError at an await: before the answer everything is released, after
\* the finalisation there is nothing left to do.  The thread goes on.
ChatCancelled(r) ==
    /\ "cancel" \in Disturbances
    /\ At(r, Chats, {"asking", "saving"})
    /\ IF req[r].pc = "asking" THEN ReleaseSafely(r) ELSE UNCHANGED billing
    /\ Goto(r, "over")
    /\ UNCHANGED history

\* GeneratorExit at the first yield, the only one where it is caught.
ChatClosedAtStart(r) ==
    /\ "abandon" \in Disturbances
    /\ At(r, {"chat_stream"}, {"start"})
    /\ ReleaseSafely(r)
    /\ Stop(r)
    /\ UNCHANGED history

\* GeneratorExit at a heartbeat or a line, or a generator that never started:
\* no handler sees it.
ChatClosed(r) ==
    /\ "abandon" \in Disturbances
    /\ At(r, {"chat_stream"}, {"reserved", "asking", "first_line", "saving"})
    /\ Goto(r, "closed")
    /\ UNCHANGED <<history, billing>>

ChatStep(r) ==
    \/ ChatStart(r) \/ ChatAsk(r) \/ ChatBill(r) \/ ChatSave(r)
    \/ \E T \in SUBSET Asked(r), research \in BOOLEAN : ChatAnswer(r, T, research)
    \/ \E research \in BOOLEAN : ChatFirstLine(r, research)

ChatDisturbed(r) ==
    \/ ChatRoutingFails(r) \/ ChatProviderRaises(r) \/ ChatCancelled(r)
    \/ ChatClosedAtStart(r) \/ ChatClosed(r) \/ ThreadEnds(r)
    \/ \E credits \in Estimates : ChatAuthorizeFallback(r, credits)
============================================================================
