----------------------------- MODULE MCDownload -----------------------------
(* An instance of the network receiver for TLC.                             *)
EXTENDS Download
=============================================================================
