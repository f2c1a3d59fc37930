------------------------------- MODULE MCFind -------------------------------
(* FindScan on a tree with a few rows, a short pipe and a short channel. *)
EXTENDS FindScan
=============================================================================
