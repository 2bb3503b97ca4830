---------------------------- MODULE MCSmallParts ----------------------------
(* Instances of SmallParts for TLC. *)
EXTENDS SmallParts

(* As many modules as ranks, more, and fewer; one that cannot be divided.   *)
(* Two groups of ranks are launched with MPI only.                          *)
MCLaunches ==
    {<<s[1], s[2], t>> : s \in {<<2, 2>>, <<2, 4>>, <<1, 2>>, <<3, 1>>, <<3, 2>>},
                         t \in {"UnixSocket", "TCPIPSocket", "MPI"}}
        \cup {<<4, 2, "MPI">>}

MCMessages == <<2, 1>>

(* The third package comes before the others if they are not submitted.     *)
MCPriority == <<1, 1, 2>>

(* One broker's total may be 0, as in a load query that was never set.      *)
MCAmounts == <<1, 2>>
MCLoads == {[free |-> 2, queued |-> 0, total |-> 4], [free |-> 1, queued |-> 0, total |-> 0]}

(* Norms below, in and above the bins, and three in one bin.                *)
MCNorm == <<4, 1, 4, 9, 4>>
=============================================================================
