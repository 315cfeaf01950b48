------------------------------ MODULE MCRowLocks ------------------------------
(* RowLocks on small instances: connections are interchangeable.           *)
EXTENDS RowLocks, TLC

Symmetry == Permutations(Txns) \cup Permutations(Runs)
=============================================================================
