------------------------------ MODULE MCNative ------------------------------
(* NativeCopy from a destination that is absent, older or newer. *)
EXTENDS NativeCopy

AnyDst == Absence \cup Older \cup Newer
=============================================================================
