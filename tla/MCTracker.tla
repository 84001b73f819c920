------------------------------ MODULE MCTracker -----------------------------
(***************************************************************************)
(* The tracker server with interchangeable connections and torrents.       *)
(***************************************************************************)
EXTENDS TrackerServer
Symmetry == Permutations(Conns) \cup Permutations(InfoHashes)
=============================================================================
