----------------------------- MODULE MCSelector -----------------------------
(* SelectorPipeline on small files: node numbers 0 and 1, node 1 selected,  *)
(* without a worker and with two.                                          *)
EXTENDS SelectorPipeline

TwoNodes == {0, 1}

NoneOrTwo == {0, 2}
=============================================================================
