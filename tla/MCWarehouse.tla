----------------------------- MODULE MCWarehouse -----------------------------
(* Instances of Warehouse for TLC: who may leave decides what still holds. *)
EXTENDS Warehouse

OneEach == [c \in Clients |-> 1]
SecondSendsTwo == [c \in Clients |-> IF c = 2 THEN 2 ELSE 1]

FirstLeaves == {1}
FirstAndLastLeave == {1, NumClients}
AnyoneLeaves == Clients
=============================================================================
