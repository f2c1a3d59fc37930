---------------------------- MODULE MCLogRotate ----------------------------
(* LogRotate over a few seconds with one midnight. *)
EXTENDS LogRotate

AtOne == {1}
FileIds == 1..12
=============================================================================
