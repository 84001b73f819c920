---------------------------- MODULE MCSignalling ----------------------------
(* Two clients in one torrent of one tracker. *)
EXTENDS Signalling, TLC
CONSTANTS u1, v1, pu, pv, h1
MCPeerId == [t \in Trackers |-> IF t = v1 THEN pv ELSE pu]
MCInfoHash == [t \in Trackers |-> h1]
=============================================================================
