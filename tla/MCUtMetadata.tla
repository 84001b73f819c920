---------------------------- MODULE MCUtMetadata ----------------------------
(***************************************************************************)
(* A BrowserTorrent end and an end of another program.                     *)
(***************************************************************************)
EXTENDS UtMetadata, TLC
CONSTANTS here, there
Opposite == (here :> there) @@ (there :> here)
=============================================================================
