-------------------------- MODULE OptimizeRequests --------------------------
(***************************************************************************)
(* optimize_prompt of server/routes/optimize.py, whose provider call may   *)
(* outlive the request, and create_analysis_run of                         *)
(* server/routes/cortex_analysis.py.                                       *)
(***************************************************************************)
EXTENDS RequestBilling

\* The provider call starts in a thread of its own.
OptimizeAsk(r) ==
    /\ At(r, {"optimize", "analysis"}, {"reserved"})
    /\ req' = [req EXCEPT ![r].pc = "asking", ![r].thread = TRUE]
    /\ UNCHANGED <<history, billing>>

\* The optimizer answers in time, or late in its own thread.  Whatever became
\* of the prompt, the provider calls it made are charged.
OptimizeAnswer(r, T) ==
    /\ At(r, {"optimize"}, {"asking", "late"})
    /\ IF T = {} THEN ReleaseSafely(r) ELSE Finalize(r, T, FALSE) \/ Recover(r)
    /\ req' = [req EXCEPT ![r].pc = "over", ![r].out = T, ![r].thread = FALSE]
    /\ UNCHANGED history

\* Mutant: the reservation stays with the request, whose finally clause frees it.
HandOver_Not(r) == ReleaseSafely(r)
\* The reservation is handed over to the callback of the thread.
HandOver(r) == UNCHANGED billing

\* The request gives up waiting and returns the prompt as it was.
OptimizeTimeout(r) ==
    /\ At(r, {"optimize"}, {"asking"})
    /\ HandOver(r)
    /\ Goto(r, "late")
    /\ UNCHANGED history

\* CancelledError: the finally clause finds no result.  The thread goes on
\* without anyone to report to.
OptimizeCancelled(r) ==
    /\ "cancel" \in Disturbances
    /\ At(r, {"optimize"}, {"asking"})
    /\ ReleaseSafely(r)
    /\ Stop(r)
    /\ UNCHANGED history

\* A failed finalisation of an analysis is not followed by a release.
AnalysisAnswer(r) ==
    /\ At(r, {"analysis"}, {"asking"})
    /\ UNCHANGED history
    /\ LET answered(pc) == [req EXCEPT ![r].pc = pc, ![r].out = Asked(r), ![r].thread = FALSE]
       IN  \/ Finalize(r, Asked(r), FALSE) /\ req' = answered("saving")
           \/ /\ RollsBack(r) /\ Excuse(r)
              /\ Unregister(r)
              /\ req' = answered("over")
              /\ UNCHANGED <<metering, ledger>>

\* CortexAnalysisGenerationError
AnalysisFails(r) ==
    /\ At(r, {"analysis"}, {"asking"})
    /\ ReleaseSafely(r)
    /\ Stop(r)
    /\ UNCHANGED history

\* Any other exception at that await, a cancellation above all, passes by the
\* only handler there is.
AnalysisAborted(r) ==
    /\ "cancel" \in Disturbances
    /\ At(r, {"analysis"}, {"asking"})
    /\ Goto(r, "closed")
    /\ UNCHANGED <<history, billing>>

\* create_cortex_analysis_run
AnalysisSave(r) ==
    /\ At(r, {"analysis"}, {"saving"})
    /\ \/ history' = [history EXCEPT ![r] = "answer"]
       \/ DatabaseMayFail /\ UNCHANGED history
    /\ Stop(r)
    /\ UNCHANGED billing

OptimizeStep(r) ==
    \/ OptimizeAsk(r) \/ AnalysisAnswer(r) \/ AnalysisFails(r) \/ AnalysisSave(r)
    \/ \E T \in SUBSET Asked(r) : OptimizeAnswer(r, T)

OptimizeDisturbed(r) == OptimizeTimeout(r) \/ OptimizeCancelled(r) \/ AnalysisAborted(r)
============================================================================
