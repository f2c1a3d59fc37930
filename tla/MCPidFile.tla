----------------------------- MODULE MCPidFile -----------------------------
(* PidFile with a few pids, and as many inodes and one more, so that a new *)
(* one can always be made.                                                 *)
EXTENDS PidFile
=============================================================================
