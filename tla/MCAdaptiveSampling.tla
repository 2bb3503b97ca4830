------------------------- MODULE MCAdaptiveSampling -------------------------
(* Instances of AdaptiveSampling for TLC. *)
EXTENDS AdaptiveSampling

CONSTANTS t1, t2

TwoThreads == {t1, t2}

(* Two samples around the first request, none around the others.            *)
MCStencil == <<2, 0, 0>>

(* Three requests compete for the evaluation limit where a new model may    *)
(* fail; one comes with speculative evaluations where the algorithm may     *)
(* leave or a broker may end.                                               *)
MCSent == [f \in Faults |-> IF f = "model" THEN 3 ELSE 1]
MCSpeculative == [f \in Faults |->
    CASE f = "model" -> 0 [] f = "leave" -> 1 [] f = "broker" -> 2]
=============================================================================
