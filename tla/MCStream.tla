------------------------------ MODULE MCStream ------------------------------
(***************************************************************************)
(* A whole file of six bytes and an empty file, in blocks of two; of the   *)
(* two pages only one knows the empty file.                                *)
(***************************************************************************)
EXTENDS Stream, TLC
CONSTANTS all, none, left, right
Registered == (left :> {all, none}) @@ (right :> {all})
FirstOf == [r \in {all, none} |-> 0]
LastOf == (all :> 5) @@ (none :> -1)
=============================================================================
