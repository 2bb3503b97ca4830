--------------------------- MODULE MCSocketChannel ---------------------------
(* Instances of SocketChannel for TLC: two threads that send three objects *)
(* of one or two units.                                                    *)
EXTENDS SocketChannel

CONSTANTS s1, s2, m1, m2, m3

TwoSenders == [s \in Senders |-> IF s = s1 THEN <<m1, m2>> ELSE <<m3>>]
OneEach == [s \in Senders |-> IF s = s1 THEN <<m1>> ELSE <<m3>>]
Sizes == [m \in Messages |-> IF m = m2 THEN 1 ELSE 2]

NobodyLeaves == {}
SenderLeaves == {"sender"}
EitherLeaves == {"sender", "receiver"}
=============================================================================
