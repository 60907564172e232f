-------------------------- MODULE MCArtifactStore --------------------------
(* Instances of ArtifactStore for TLC. *)
EXTENDS ArtifactStore, TLC

CONSTANTS a1, a2, a3

\* a2 and a3 do not fit the quota together, a1 fits with either.
Sizes == [a \in Artifacts |-> IF a = a1 THEN 1 ELSE 2]
=============================================================================
