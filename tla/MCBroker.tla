------------------------------ MODULE MCBroker ------------------------------
(* Instances of Broker for TLC: the packages of a run and the resources    *)
(* they compete for.                                                       *)
EXTENDS Broker

CONSTANTS urgent, normal, wide, spec1, spec2, bad, r1, r2, g1

(* A urgent package, an ordinary one, and one that needs two resources.    *)
MCPriority == [p \in Packages |->
    CASE p \in {spec1, spec2} -> SPECULATIVE
      [] p = urgent -> 4
      [] OTHER -> 3]
MCAmount == [p \in Packages |-> IF p = wide THEN 2 ELSE IF p = bad THEN 3 ELSE 1]

(* All resources are processors.                                           *)
OneType == {"CPU"}
MCTypeCPU == [p \in Packages |-> "CPU"]
TwoCPUs == [t \in Types |-> {r1, r2}]

(* Processors and one accelerator, which the urgent package needs.         *)
TwoTypes == {"CPU", "GPU"}
MCTypeMixed == [p \in Packages |-> IF p = urgent THEN "GPU" ELSE "CPU"]
MixedInventory == [t \in Types |-> IF t = "CPU" THEN {r1, r2} ELSE {g1}]

ResourceSymmetry == Permutations({r1, r2})
=============================================================================
