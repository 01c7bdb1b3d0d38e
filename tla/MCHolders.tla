----------------------------- MODULE MCHolders -----------------------------
(* Instances with the history of holders for TLC.                           *)
EXTENDS Holders
===========================================================================
