------------------------------- MODULE MCCopy -------------------------------
(* CopyMethod on d/, d/l -> ..., d/e/ and d/e/f, in two chunks. *)
EXTENDS CopyMethod

SmallKind == [d |-> "dir", e |-> "dir", f |-> "file", l |-> "link"]
SmallAbove == [d |-> {}, e |-> {"d"}, f |-> {"d", "e"}, l |-> {"d"}]
SmallParent == [d |-> "root", e |-> "d", f |-> "e", l |-> "d"]
TwoChunks == << <<"d", "e">>, <<"f", "l">> >>
=============================================================================
