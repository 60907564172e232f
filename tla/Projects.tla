------------------------------- MODULE Projects -------------------------------
(***************************************************************************)
(* services/projects.py: saved designs and their folders.  A design's      *)
(* images are artifacts, so this module extends the store: the pin owner   *)
(* "design:<id>" is the project's id.  Every write holds the process-wide  *)
(* _project_write_lock and is one transaction, hence one action; the store *)
(* and its reaper, which do not take that lock, interleave.                *)
(*                                                                         *)
(* Ids are SQLite rowids: the next one is the largest in use plus one, so  *)
(* the id of a deleted last row is handed out again.  `ver` and `born` are *)
(* not in the database: they number the accepted writes and tell contents  *)
(* and projects apart.  Of a canvas only the images it shows matter here.  *)
(***************************************************************************)
EXTENDS ArtifactStore, Sequences

CONSTANTS
  MaxProjects, MaxCategories,  \* bounds on ids
  MaxWrites,                   \* bound on accepted project writes
  TreeLimit,                   \* max_tree_nodes
  Clients,                     \* editors, the assistant, MCP harnesses
  Canvases,                    \* contents of a project
  Shows                        \* the managed images of each canvas

ASSUME ProjectsAssumption ==
  /\ MaxProjects \in Nat /\ MaxCategories \in Nat /\ MaxWrites \in Nat
  /\ TreeLimit \in Nat
  /\ Owners = 1..MaxProjects /\ Designs = Owners
  /\ Shows \in [Canvases -> SUBSET Artifacts]

VARIABLES
  project,  \* [Ids -> row of Project, or Null]
  parent,   \* [Categories -> parent_id, or Null: no such Category]
  seen,     \* [Clients -> what the client last read of a project, or Null]
  writes    \* accepted project writes

projectVars == <<project, parent, seen, writes>>
vars == <<storeVars, projectVars>>

Ids == 1..MaxProjects
Categories == 1..MaxCategories
NoParent == 0                                \* parent_id, category_id = None
Places == Categories \cup {NoParent}
Row == [category : Places, revision : Nat \ {0}, canvas : Canvases,
        ver : Nat, born : Nat]
Reading == [id : Ids, revision : Nat \ {0}, ver : Nat, born : Nat]
ASSUME RowAssumption == Null \notin Row \cup Reading

Saved == {i \in Ids : project[i] # Null}
Folders == {c \in Categories : parent[c] # Null}
Exists(c) == c \in Folders \cup {NoParent}   \* _require_category
Images(i) == Shows[project[i].canvas]
Rowid(n, S) == (\A m \in S : m < n) /\ (n = 1 \/ n - 1 \in S)

ProjectsInit ==
  /\ StoreInit
  /\ project = [i \in Ids |-> Null]
  /\ parent = [c \in Categories |-> Null]
  /\ seen = [k \in Clients |-> Null]
  /\ writes = 0

-----------------------------------------------------------------------------
(* Projects.                                                                *)

NewRow(c, d, stamp) ==
  [category |-> c, revision |-> 1, canvas |-> d, ver |-> stamp, born |-> stamp]
Usable(ids) == ids \subseteq rows /\ \A a \in ids : expiry[a] >= now \/ PinnedAt(a, now)
Pinning(i, ids) == {[owner |-> i, art |-> a, exp |-> Null] : a \in ids}
Read(i, row) == [id |-> i, revision |-> row.revision, ver |-> row.ver, born |-> row.born]

\* The pins of deleted projects go in the transaction that deletes them.
DropPins(S) ==
  /\ open
  /\ pins' = Unpinned(S)
  /\ UNCHANGED <<now, rows, files, temps, expiry, open, op, hot, doomed, reapAt>>

Create(k, c, d) ==
  /\ writes < MaxWrites /\ Exists(c)
  /\ \E n \in Ids :
       /\ Rowid(n, Saved)
       /\ SyncManagedAssets(n, Shows[d])
       /\ project' = [project EXCEPT ![n] = NewRow(c, d, writes + 1)]
       /\ seen' = [seen EXCEPT ![k] = Read(n, project'[n])]
  /\ writes' = writes + 1 /\ UNCHANGED parent

Load(k, i) ==
  /\ open /\ i \in Saved
  /\ seen' = [seen EXCEPT ![k] = Read(i, project[i])]
  /\ UNCHANGED <<storeVars, project, parent, writes>>

\* expected_revision is the current one; everybody else gets 404 or 409.
Accepts(k) ==
  /\ seen[k] # Null /\ seen[k].id \in Saved
  /\ seen[k].revision = project[seen[k].id].revision

Revised(row) == [row EXCEPT !.revision = @ + 1, !.ver = writes + 1]
Replace(k, row) ==
  /\ writes < MaxWrites
  /\ project' = [project EXCEPT ![seen[k].id] = row]
  /\ seen' = [seen EXCEPT ![k] = Read(seen[k].id, row)]
  /\ writes' = writes + 1 /\ UNCHANGED parent

\* An update with a canvas replaces the pins with it; it may move the project, too.
Save(k, c, d) ==
  /\ Accepts(k) /\ Exists(c)
  /\ Replace(k, Revised([project[seen[k].id] EXCEPT !.category = c, !.canvas = d]))
  /\ SyncManagedAssets(seen[k].id, Shows[d])

\* Slip checked against OnlyReusedIdsLoseEdits: moving keeps the revision.
PlaceUnrevised(k, c) ==
  /\ open /\ Accepts(k) /\ Exists(c)
  /\ Replace(k, [project[seen[k].id] EXCEPT !.category = c, !.ver = writes + 1])
  /\ UNCHANGED storeVars

\* An update without a canvas: a move, or a rename (to the same category).
Place(k, c) ==
  /\ open /\ Accepts(k) /\ Exists(c)
  /\ Replace(k, Revised([project[seen[k].id] EXCEPT !.category = c]))
  /\ UNCHANGED storeVars

\* Slip checked against PinsFollowDesigns: the pins outlive the project.
DeleteProjectOnly(i) ==
  /\ open /\ i \in Saved
  /\ project' = [project EXCEPT ![i] = Null]
  /\ UNCHANGED <<storeVars, parent, seen, writes>>

DeleteProject(i) ==
  /\ i \in Saved
  /\ project' = [project EXCEPT ![i] = Null]
  /\ DropPins({i})
  /\ UNCHANGED <<parent, seen, writes>>

-----------------------------------------------------------------------------
(* Folders.  The walk up from a folder visits the least set of folders that *)
(* holds it and, with each folder, its parent.                              *)

Rooted(A) == \A c \in A : parent[c] \in A \cup {NoParent}
Under(c, top) == \A A \in SUBSET Folders : (c \in A /\ Rooted(A)) => top \in A
Above(c) == {d \in Folders : Under(c, d)}
Subtree(c) == {d \in Folders : Under(d, c)}

CreateCategory(c) ==
  /\ open /\ Exists(c)
  /\ \E n \in Categories : Rowid(n, Folders) /\ parent' = [parent EXCEPT ![n] = c]
  /\ UNCHANGED <<storeVars, project, seen, writes>>

\* Slip checked against FoldersFormForest: only the direct parent is compared.
MoveCategoryShallow(c, d) ==
  /\ open /\ c \in Folders /\ Exists(d) /\ c # d
  /\ parent' = [parent EXCEPT ![c] = d]
  /\ UNCHANGED <<storeVars, project, seen, writes>>

\* The walk from the new parent up must end without meeting the folder itself.
MoveCategory(c, d) ==
  /\ open /\ c \in Folders /\ Exists(d)
  /\ d # NoParent => ~Under(d, c) /\ Cardinality(Above(d)) <= TreeLimit
  /\ parent' = [parent EXCEPT ![c] = d]
  /\ UNCHANGED <<storeVars, project, seen, writes>>

\* Slip checked against NothingOrphaned: subfolders stay behind.
DeleteCategoryOnly(c) ==
  /\ c \in Folders
  /\ LET lost == {i \in Saved : project[i].category = c}
     IN /\ project' = [i \in Ids |-> IF i \in lost THEN Null ELSE project[i]]
        /\ DropPins(lost)
  /\ parent' = [parent EXCEPT ![c] = Null]
  /\ UNCHANGED <<seen, writes>>

\* The whole subtree with its projects, or nothing when it is too large.
DeleteCategory(c) ==
  /\ c \in Folders /\ Cardinality(Subtree(c)) <= TreeLimit
  /\ LET lost == {i \in Saved : project[i].category \in Subtree(c)}
     IN /\ project' = [i \in Ids |-> IF i \in lost THEN Null ELSE project[i]]
        /\ DropPins(lost)
  /\ parent' = [d \in Categories |-> IF d \in Subtree(c) THEN Null ELSE parent[d]]
  /\ UNCHANGED <<seen, writes>>

-----------------------------------------------------------------------------
(* Import: a chain of `depth` new folders below c and one project per        *)
(* canvas in the last of them, all in one transaction.                       *)

Chain(n, depth, c) ==   \* n is the rowid of the first new folder
  [d \in Categories |-> CASE d = n /\ depth > 0    -> c
                          [] d \in (n + 1)..(n + depth - 1) -> d - 1
                          [] OTHER                 -> parent[d]]

Import(c, depth, docs) ==
  /\ open /\ Exists(c) /\ writes + Len(docs) <= MaxWrites
  /\ depth + Len(docs) <= TreeLimit
  /\ \A k \in 1..Len(docs) : Usable(Shows[docs[k]])
  /\ \E n \in 1..(MaxCategories + 1), i \in 1..(MaxProjects + 1) :
       LET bottom == IF depth = 0 THEN c ELSE n + depth - 1
           doc(j) == docs[j - i + 1]
           new == i..(i + Len(docs) - 1)
       IN /\ Rowid(n, Folders) /\ n + depth - 1 <= MaxCategories
          /\ Rowid(i, Saved) /\ new \subseteq Ids
          /\ parent' = Chain(n, depth, c)
          /\ project' = [j \in Ids |-> IF j \in new
                                       THEN NewRow(bottom, doc(j), writes + 1 + j - i)
                                       ELSE project[j]]
          /\ pins' = Unpinned(new) \cup {p \in [owner : new, art : rows, exp : {Null}] :
                                           p.art \in Shows[doc(p.owner)]}
  /\ writes' = writes + Len(docs)
  /\ UNCHANGED <<now, rows, files, temps, expiry, open, op, hot, doomed, reapAt, seen>>

-----------------------------------------------------------------------------
ProjectStep ==
  \/ \E k \in Clients :
       \/ \E c \in Places, d \in Canvases : Create(k, c, d) \/ Save(k, c, d)
       \/ \E i \in Ids : Load(k, i)
       \/ \E c \in Places : Place(k, c)
  \/ \E i \in Ids : DeleteProject(i)
  \/ \E c \in Places : CreateCategory(c)
  \/ \E c \in Categories, d \in Places : MoveCategory(c, d)
  \/ \E c \in Categories : DeleteCategory(c)
  \/ \E c \in Places, depth \in 0..MaxCategories, n \in 0..MaxProjects :
       \E docs \in [1..n -> Canvases] : Import(c, depth, docs)

\* The store's own steps; those of its designs are the project steps above.
ArtifactStep ==
  /\ \/ \E a \in Artifacts : PutBegin(a)
     \/ PutInstall \/ PutWriteFails \/ PutCommit
     \/ ReapBegin \/ ReapSelect \/ ReapDelete \/ ReapUnlink \/ ReapAbort
     \/ Tick \/ Close \/ Crash \/ Startup
  /\ UNCHANGED projectVars

Next == ProjectStep \/ ArtifactStep
Spec == ProjectsInit /\ [][Next]_vars

-----------------------------------------------------------------------------
ProjectsTypeOK ==
  /\ StoreTypeOK
  /\ project \in [Ids -> Row \cup {Null}]
  /\ parent \in [Categories -> Places \cup {Null}]
  /\ seen \in [Clients -> Reading \cup {Null}]
  /\ writes \in Nat

(* Folders form a forest: no series of moves, deletions and reused ids     *)
(* puts a folder below itself.  (Every set of folders has a member whose   *)
(* parent is outside it.)                                                  *)
FoldersFormForest ==
  \A S \in SUBSET Folders : S # {} => \E c \in S : parent[c] \notin S

(* Deleting a subtree leaves no folder and no project in a folder that is  *)
(* gone, whose id would later be somebody else's.                          *)
NothingOrphaned ==
  /\ \A c \in Folders : Exists(parent[c])
  /\ \A i \in Saved : Exists(project[i].category)

(* The pins of an id are exactly the images of the project that has it     *)
(* now, and do not expire: nothing is inherited from a deleted project.    *)
PinsFollowDesigns ==
  \A i \in Ids : {p \in pins : p.owner = i} =
    IF i \in Saved THEN Pinning(i, Images(i)) ELSE {}

(* The images of a saved project stay readable, however reaps, crashes and *)
(* failed writes interleave with saves that do not take the store's lock.  *)
DesignsReadable == \A i \in Saved : Images(i) \subseteq rows \cap files

(* What makes these inductive: a client is never ahead of a project it has *)
(* read, and knows its contents when it knows its revision; what it read   *)
(* under the id of another project is older than that project.             *)
ReadingOf(k, i) == seen[k] # Null /\ seen[k].id = i /\ seen[k].born = project[i].born
ReadingsInv ==
  /\ \A i \in Saved : project[i].ver <= writes /\ project[i].born <= writes
  /\ \A k \in Clients : seen[k] # Null => seen[k].born <= writes
  /\ \A k \in Clients, i \in Saved : ReadingOf(k, i) =>
       /\ seen[k].revision <= project[i].revision
       /\ seen[k].revision = project[i].revision => seen[k].ver = project[i].ver
  /\ \A k \in Clients, i \in Saved :
       seen[k] # Null /\ seen[k].id = i => seen[k].born <= project[i].born

ProjectsInv == /\ StoreInv /\ ProjectsTypeOK /\ FoldersFormForest /\ NothingOrphaned
               /\ PinsFollowDesigns /\ ReadingsInv

Rewritten(i) == /\ project[i] # Null /\ project'[i] # Null
                /\ project'[i].born = project[i].born /\ project'[i] # project[i]
Writes(k, i) == seen'[k] # seen[k] /\ seen[k].id = i /\ seen'[k].ver = project'[i].ver

KnewLatest(k, i) == seen[k].ver = project[i].ver
KnewPredecessor(k, i) ==
  seen[k].born < project[i].born /\ seen[k].revision = project[i].revision

(* A save may overwrite contents that its client has not read in one case  *)
(* only: the client read an earlier project, that one was deleted, its id  *)
(* was handed out again, and the new project stands at the very revision   *)
(* the client had read of the old one.  While a project lives, no rename,  *)
(* move or save loses an edit of another client.                           *)
OnlyReusedIdsLoseEdits ==
  [][\A i \in Ids : Rewritten(i) =>
       \E k \in Clients : /\ seen[k] # Null /\ Writes(k, i)
                          /\ KnewLatest(k, i) \/ KnewPredecessor(k, i)]_vars

(* "A concurrent deletion returns 404" (docs/project-persistence.md): no    *)
(* update of a project that was deleted meanwhile is accepted.             *)
DeletedIsNotFound ==
  [][\A i \in Ids : Rewritten(i) =>
       \E k \in Clients : /\ seen[k] # Null /\ Writes(k, i)
                          /\ seen[k].born = project[i].born]_vars
=============================================================================
