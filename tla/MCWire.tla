------------------------------- MODULE MCWire -------------------------------
(* Wire for TLC: A downloads and can be asked too, B seeds, chokes, rejects   *)
(* and ignores.  Each end also declares its pieces, B announces later ones.   *)
EXTENDS Wire

LeechAndSeed ==
  [A |-> {"interested", "notInterested", "unchoke", "declare", "request", "cancel", "piece"},
   B |-> {"choke", "unchoke", "declare", "have", "request", "piece", "reject", "ignore"}]
=============================================================================
