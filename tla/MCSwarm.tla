------------------------------ MODULE MCSwarm ------------------------------
(* Swarm for TLC: a1 and a2 add one address twice, a3 another.  The tracker *)
(* that takes offers is the second, so that destroy() may come before it.   *)
EXTENDS Swarm, TLC

CONSTANTS o1, i1, a1, a2, a3, id1, x, y

TwoAddresses == a1 :> x @@ a2 :> x @@ a3 :> y
Announced == <<"http", "ws">>
=============================================================================
