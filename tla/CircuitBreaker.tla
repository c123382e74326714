--------------------------- MODULE CircuitBreaker ---------------------------
(***************************************************************************)
(* The circuit breaker of one API process (server/circuit_breaker.py): for *)
(* every model a window of recent failures and the time until which calls  *)
(* to it are refused.                                                      *)
(*                                                                         *)
(* Time is abstract.  `open' counts the ticks left of the cooldown, 0 when *)
(* the circuit lets calls pass; a failure leaves the window at any time.   *)
(* The store guards each operation with one lock, so each is one step; the *)
(* callers (the module Orchestrator) take many steps between the check and *)
(* the record.                                                             *)
(***************************************************************************)
EXTENDS Naturals

CONSTANTS
    Models,      \* the provider and model pairs of the registry
    Threshold,   \* failures within the window that open a circuit
    Cooldown     \* ticks a circuit stays open

ASSUME BreakerAssumption ==
    /\ Threshold \in Nat \ {0}
    /\ Cooldown \in Nat \ {0}

VARIABLE circuit

Circuits == [failures : 0 .. Threshold - 1, open : 0 .. Cooldown]

BreakerType == circuit \in [Models -> Circuits]

Closed == [failures |-> 0, open |-> 0]

BreakerInit == circuit = [m \in Models |-> Closed]

(* A call may pass: the circuit was never opened or its cooldown is over.  *)
Allows(m) == circuit[m].open = 0

(* The entry of a model after one more failure.  The failures are dropped  *)
(* when they open the circuit; a failure that comes in while it is open    *)
(* counts again and may extend the cooldown.                               *)
AfterFailure(entry) ==
    IF entry.failures + 1 >= Threshold
    THEN [failures |-> 0, open |-> Cooldown]
    ELSE [entry EXCEPT !.failures = @ + 1]

RecordFailure(m) == circuit' = [circuit EXCEPT ![m] = AfterFailure(@)]

(* A success drops the failures and closes the circuit, whenever the call  *)
(* was admitted.                                                           *)
RecordSuccess(m) == circuit' = [circuit EXCEPT ![m] = Closed]

Record(m, failed) == IF failed THEN RecordFailure(m) ELSE RecordSuccess(m)

(* The clock: part of the cooldown passes ...                              *)
Tick(m) ==
    /\ ~Allows(m)
    /\ circuit' = [circuit EXCEPT ![m].open = @ - 1]

(* ... or the oldest failure falls out of the window.                      *)
Forget(m) ==
    /\ circuit[m].failures > 0
    /\ circuit' = [circuit EXCEPT ![m].failures = @ - 1]
=============================================================================
