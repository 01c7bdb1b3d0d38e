----------------------------- MODULE MCKernel -----------------------------
(* Instances of the kernel under well-behaved programs for TLC.             *)
EXTENDS Programs
===========================================================================
