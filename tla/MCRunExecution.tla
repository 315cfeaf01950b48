--------------------------- MODULE MCRunExecution ---------------------------
(* RunExecution on small instances.                                        *)
EXTENDS RunExecutionInvariant, TLC

Symmetry == Permutations(Workers)
=============================================================================
