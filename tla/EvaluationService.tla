-------------------------- MODULE EvaluationService --------------------------
(***************************************************************************)
(* What a broker promises the module that submits work to it, without the  *)
(* queues, resources and processes that broker/BasicBroker.cc uses to keep *)
(* the promise: a submitted package is attempted a bounded number of       *)
(* times, an attempt may produce a result, and a result that exists is     *)
(* delivered once.  The service may stop for good at any moment.           *)
(***************************************************************************)
EXTENDS Naturals

CONSTANTS
    Packages,        \* the model packages of a run
    Speculative,     \* those submitted with priority SPECULATIVE
    MaxEvaluations   \* failed attempts after which the service gives up

VARIABLES
    status,    \* package -> "unsubmitted", "submitted" or "answered"
    attempts,  \* package -> number of evaluations whose output was read
    result,    \* package -> "none", "value" or "empty"
    serving    \* FALSE once the service has stopped

vars == <<status, attempts, result, serving>>

Init ==
    /\ status = [p \in Packages |-> "unsubmitted"]
    /\ attempts = [p \in Packages |-> 0]
    /\ result = [p \in Packages |-> "none"]
    /\ serving = TRUE

Submit(p) ==
    /\ status[p] = "unsubmitted"
    /\ status' = [status EXCEPT ![p] = "submitted"]
    /\ UNCHANGED <<attempts, result, serving>>

(* One evaluation of a submitted package that has no result yet.  A failed *)
(* evaluation leaves it without one, unless it is speculative: then its    *)
(* result is empty.                                                        *)
Attempt(p) ==
    /\ serving
    /\ status[p] = "submitted"
    /\ result[p] = "none"
    /\ attempts[p] <= MaxEvaluations
    /\ attempts' = [attempts EXCEPT ![p] = @ + 1]
    /\ \/ result' = [result EXCEPT ![p] = "value"]
       \/ p \in Speculative /\ result' = [result EXCEPT ![p] = "empty"]
       \/ p \notin Speculative /\ attempts'[p] <= MaxEvaluations /\ UNCHANGED result
    /\ UNCHANGED <<status, serving>>

Deliver(p) ==
    /\ serving
    /\ status[p] = "submitted"
    /\ result[p] # "none"
    /\ status' = [status EXCEPT ![p] = "answered"]
    /\ UNCHANGED <<attempts, result, serving>>

(* The last permitted attempt at a regular package fails, and the service  *)
(* stops.                                                                  *)
GiveUp(p) ==
    /\ serving
    /\ status[p] = "submitted"
    /\ result[p] = "none"
    /\ p \notin Speculative
    /\ attempts[p] = MaxEvaluations
    /\ attempts' = [attempts EXCEPT ![p] = @ + 1]
    /\ serving' = FALSE
    /\ UNCHANGED <<status, result>>

Stop ==
    /\ serving
    /\ serving' = FALSE
    /\ UNCHANGED <<status, attempts, result>>

Next ==
    \/ \E p \in Packages : Submit(p) \/ Attempt(p) \/ Deliver(p) \/ GiveUp(p)
    \/ Stop

Spec == Init /\ [][Next]_vars
=============================================================================
