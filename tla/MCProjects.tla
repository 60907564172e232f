----------------------------- MODULE MCProjects -----------------------------
(* Instances of Projects for TLC. *)
EXTENDS Projects, TLC

CONSTANTS plain, pictured

OneByteEach == [a \in Artifacts |-> 1]
Pictures == [d \in Canvases |-> IF d = pictured THEN Artifacts ELSE {}]
Symmetric == Permutations(Clients)

\* Two scenarios share a run: designs with their image, in one folder; and three
\* folders in every arrangement around two projects without images.
VARIABLE scenario

Designing == Next /\ \A c \in Categories : c > 1 => parent'[c] = Null
Foldering == /\ ProjectStep
             /\ writes' <= 2
             /\ \A i \in Ids : project'[i] # Null => project'[i].canvas = plain
             /\ Cardinality({k \in Clients : seen'[k] # Null}) <= 1

MCInit == ProjectsInit /\ scenario \in {"designs", "folders"}
MCNext == /\ \/ scenario = "designs" /\ Designing
             \/ scenario = "folders" /\ Foldering
          /\ UNCHANGED scenario
MCSpec == MCInit /\ [][MCNext]_<<vars, scenario>>
=============================================================================
