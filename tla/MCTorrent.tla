----------------------------- MODULE MCTorrent -----------------------------
(* Torrent for TLC: interchangeable receivers. *)
EXTENDS Torrent, TLC

Symmetry == Permutations(Receivers)
=============================================================================
