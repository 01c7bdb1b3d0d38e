------------------------------ MODULE MCSync ------------------------------
(* Instances of the abstract specification for TLC.                         *)
EXTENDS Sync

===========================================================================
