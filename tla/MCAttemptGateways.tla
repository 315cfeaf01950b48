-------------------------- MODULE MCAttemptGateways --------------------------
(* AttemptGateways on small instances.  The calls of a kind and the        *)
(* requests are interchangeable.                                           *)
EXTENDS AttemptGateways, TLC
Symmetry == Permutations(AskCalls) \cup Permutations(Requests)
=============================================================================
