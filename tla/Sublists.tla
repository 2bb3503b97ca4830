------------------------------ MODULE Sublists ------------------------------
(* What loops leave that go through a list and take some of its elements.   *)
EXTENDS Naturals, FiniteSets

(* The elements of s at some of its places, in their order.                 *)
Selected(s, places) ==
    [k \in 1 .. Cardinality(places) |->
        s[CHOOSE i \in places : Cardinality({j \in places : j <= i}) = k]]
=============================================================================
