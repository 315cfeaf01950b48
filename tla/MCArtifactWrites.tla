--------------------------- MODULE MCArtifactWrites ---------------------------
(* ArtifactWrites on small instances: artifacts are interchangeable.       *)
EXTENDS ArtifactWrites, TLC

Symmetry == Permutations(Artifacts)
=============================================================================
