----------------------------- MODULE MCDownload -----------------------------
(* Download for TLC.  The loop runs take every fault on one wire; the liveness *)
(* run takes two interchangeable wires and no fault.                           *)
EXTENDS Download, TLC
=============================================================================
