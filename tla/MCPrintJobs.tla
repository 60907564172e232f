---------------------------- MODULE MCPrintJobs ----------------------------
(* Instances of PrintJobs for TLC. *)
EXTENDS PrintJobs, TLC

OneByteEach == [a \in Artifacts |-> 1]
Symmetric == Permutations(Plans) \cup Permutations(Jobs) \cup Permutations(Keys)
               \cup Permutations(Devices)
=============================================================================
