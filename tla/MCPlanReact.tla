----------------------------- MODULE MCPlanReact -----------------------------
(* PlanReact on small instances: step ids and calls are interchangeable.   *)
EXTENDS PlanReact, TLC

Symmetry == Permutations(StepIds) \cup Permutations(Calls)
=============================================================================
