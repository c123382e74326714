--------------------------- MODULE CompareRequests ---------------------------
(***************************************************************************)
(* compare and compare_stream of server/routes/compare.py.  A stream asks  *)
(* every target in a task of its own, hands over the answers in the order  *)
(* they arrive and finalises when the last is through; cut off before, it  *)
(* charges the answers whose output started, and the search.               *)
(***************************************************************************)
EXTENDS RequestBilling

CompareStart(r) ==
    /\ At(r, {"compare_stream"}, {"reserved"})
    /\ Goto(r, "start")
    /\ UNCHANGED <<history, billing>>

\* prepare_messages_for_turn does the shared search, and may fail unnoticed.
ComparePrepare(r, research) ==
    /\ At(r, {"compare_stream"}, {"preparing"})
    /\ req' = [req EXCEPT ![r].pc = "asking", ![r].research = research]
    /\ UNCHANGED <<history, billing>>

CompareAsk(r) ==
    /\ UNCHANGED <<history, billing>>
    /\ \/ At(r, {"compare"}, {"reserved"}) /\ Goto(r, "asking")
       \/ At(r, {"compare_stream"}, {"start"}) /\ Goto(r, "preparing")

Missing(r) == Asked(r) \ (req[r].out \cup req[r].failed)

\* The task of a target of a stream is done: its output starts, or it is an
\* error or timed out and nothing of it is billable.
CompareTargetDone(r, t, succeeds) ==
    /\ At(r, {"compare_stream"}, {"asking"})
    /\ t \in Missing(r)
    /\ req' = IF succeeds
              THEN [req EXCEPT ![r].out = @ \cup {t}, ![r].shown = @ \cup {t}]
              ELSE [req EXCEPT ![r].failed = @ \cup {t}]
    /\ UNCHANGED <<history, billing>>

\* The stream is through: all its successful answers and the search are charged.
CompareBill(r) ==
    /\ At(r, {"compare_stream"}, {"asking"})
    /\ Missing(r) = {}
    /\ UNCHANGED history
    /\ \/ Finalize(r, req[r].out, req[r].research) /\ Goto(r, "saving")
       \/ Recover(r) /\ Goto(r, "failing")

\* orchestrator.compare returns to a plain request.
CompareAnswer(r, T, research) ==
    /\ At(r, {"compare"}, {"asking"})
    /\ LET answered(pc) == [req EXCEPT ![r].pc = pc, ![r].out = T,
                                       ![r].failed = Asked(r) \ T, ![r].research = research]
       IN  \/ Finalize(r, T, research) /\ req' = answered("saving")
           \/ Recover(r) /\ req' = answered("over")
    /\ UNCHANGED history

\* persist_compare_interaction; a stream that failed stores what it has.
CompareSave(r) ==
    /\ At(r, Compares, {"saving", "failing"})
    /\ \/ history' = [history EXCEPT ![r] = IF req[r].out # {} THEN "answer" ELSE "error"]
       \/ DatabaseMayFail /\ UNCHANGED history
    /\ Stop(r)
    /\ UNCHANGED billing

\* Mutant: a stream that is cut off is charged for every target.
Started_All(r) == Asked(r)
\* _billable_stream_responses: completed responses whose output started.
Started(r) == req[r].out \cap req[r].shown

\* The partial finalisation of a stream that is cut off; its failure is logged.
CutOff(r) ==
    IF Started(r) # {} \/ req[r].research
    THEN Finalize(r, Started(r), req[r].research) \/ Recover(r)
    ELSE ReleaseSafely(r)

\* An exception in the stream, or in a plain request before the answers.
CompareRaises(r) ==
    /\ "provider_error" \in Disturbances
    /\ UNCHANGED history
    /\ \/ At(r, {"compare"}, {"asking"}) /\ ReleaseSafely(r) /\ Stop(r)
       \/ At(r, {"compare_stream"}, {"asking"}) /\ CutOff(r) /\ Goto(r, "failing")

\* CancelledError at an await.
CompareCancelled(r) ==
    /\ "cancel" \in Disturbances
    /\ UNCHANGED history
    /\ \/ At(r, {"compare"}, {"asking"}) /\ ReleaseSafely(r)
       \/ At(r, {"compare_stream"}, {"preparing", "asking"}) /\ CutOff(r)
    /\ Stop(r)

\* GeneratorExit at the first yield, the only one where it is caught.
CompareClosedAtStart(r) ==
    /\ "abandon" \in Disturbances
    /\ At(r, {"compare_stream"}, {"start"})
    /\ ReleaseSafely(r)
    /\ Stop(r)
    /\ UNCHANGED history

\* GeneratorExit at a heartbeat or a line, or a generator that never started:
\* no handler sees it.
CompareClosed(r) ==
    /\ "abandon" \in Disturbances
    /\ At(r, {"compare_stream"}, {"reserved", "asking", "saving"})
    /\ Goto(r, "closed")
    /\ UNCHANGED <<history, billing>>

CompareStep(r) ==
    \/ CompareStart(r) \/ CompareAsk(r) \/ CompareBill(r) \/ CompareSave(r)
    \/ \E research \in BOOLEAN : ComparePrepare(r, research)
    \/ \E t \in Targets, succeeds \in BOOLEAN : CompareTargetDone(r, t, succeeds)
    \/ \E T \in SUBSET Asked(r), research \in BOOLEAN : CompareAnswer(r, T, research)

CompareDisturbed(r) ==
    CompareRaises(r) \/ CompareCancelled(r) \/ CompareClosedAtStart(r) \/ CompareClosed(r)
============================================================================
