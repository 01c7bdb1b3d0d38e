------------------------------ MODULE MCMemory ------------------------------
(* An instance of virtual memory for TLC.                                   *)
EXTENDS Memory
=============================================================================
