------------------------------ MODULE MCKills ------------------------------
(* Instances of the kernel under arbitrary programs for TLC.                *)
EXTENDS Kills
===========================================================================
