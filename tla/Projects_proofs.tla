--------------------------- MODULE Projects_proofs ---------------------------
(***************************************************************************)
(* For any number of projects, folders, clients and artifacts: folders     *)
(* form a forest, nothing is orphaned, pins follow designs, images stay    *)
(* readable, and a save replaces what its client has read.  The inductive  *)
(* invariant is ProjectsInv.                                               *)
(***************************************************************************)
EXTENDS Projects, ArtifactStore_proofs, WellFoundedInduction

LEMMA NotNull ==
  /\ \A r \in Row : r # Null
  /\ \A r \in Reading : r # Null
  /\ \A c \in Places : c # Null
BY RowAssumption, ProjectsAssumption, ArtifactStoreAssumption DEF Places, Categories, NoParent

\* A place is a folder or none of them.
LEMMA Places0 ==
  /\ Categories \subseteq Nat /\ NoParent \notin Categories
  /\ Folders \subseteq Categories /\ Saved \subseteq Ids /\ Ids = Designs
BY ProjectsAssumption DEF Categories, NoParent, Folders, Saved, Ids

\* The typing of rows and readings, one name for each field's type.
LEMMA RowFields ==
  ASSUME NEW r \in Row
  PROVE  /\ r.category \in Places /\ r.revision \in Nat \ {0} /\ r.canvas \in Canvases
         /\ r.ver \in Nat /\ r.born \in Nat
BY DEF Row

LEMMA NewRowIsRow ==
  ASSUME NEW c \in Places, NEW d \in Canvases, NEW n \in Nat
  PROVE  /\ NewRow(c, d, n) \in Row
         /\ NewRow(c, d, n).category = c /\ NewRow(c, d, n).canvas = d
         /\ NewRow(c, d, n).ver = n /\ NewRow(c, d, n).born = n
BY DEF NewRow, Row

LEMMA ReadIsReading ==
  ASSUME NEW i \in Ids, NEW r \in Row
  PROVE  /\ Read(i, r) \in Reading /\ Read(i, r).id = i
         /\ Read(i, r).revision = r.revision /\ Read(i, r).ver = r.ver
         /\ Read(i, r).born = r.born
BY RowFields DEF Read, Reading

-----------------------------------------------------------------------------
(* Folders.                                                                 *)

\* A new folder has no children, so it closes no circle.
LEMMA CreateCategoryKeeps ==
  ASSUME ProjectsTypeOK, FoldersFormForest, NothingOrphaned,
         NEW c \in Places, CreateCategory(c)
  PROVE  FoldersFormForest' /\ NothingOrphaned'
<1> PICK n \in Categories : Rowid(n, Folders) /\ parent' = [parent EXCEPT ![n] = c]
  BY DEF CreateCategory
<1>1. /\ n \notin Folders /\ Folders' = Folders \cup {n} /\ parent'[n] = c
      /\ \A d \in Categories \ {n} : parent'[d] = parent[d]
  BY Places0, NotNull DEF Rowid, Folders, ProjectsTypeOK
<1>2. Exists(c) /\ c # n
  BY <1>1, Places0 DEF CreateCategory, Exists
<1>3. ASSUME NEW S \in SUBSET Folders', S # {} PROVE \E d \in S : parent'[d] \notin S
  <2>1. CASE S \subseteq {n}
    BY <1>1, <1>2, <2>1, <1>3
  <2>2. CASE S \ {n} # {}
    <3>1. PICK d \in S \ {n} : parent[d] \notin S \ {n}
      BY <1>1, <2>2, <1>3 DEF FoldersFormForest
    <3>2. parent[d] # n
      BY <1>1, <3>1, Places0 DEF NothingOrphaned, Exists
    <3> QED BY <1>1, <3>1, <3>2, Places0
  <2> QED BY <2>1, <2>2
<1>4. NothingOrphaned'
  BY <1>1, <1>2 DEF CreateCategory, NothingOrphaned, Exists, Saved
<1> QED BY <1>3, <1>4 DEF FoldersFormForest

\* The walk up from the new parent does not meet the folder: a circle would lie
\* on that walk, and would have been one before.
LEMMA MoveCategoryKeeps ==
  ASSUME ProjectsTypeOK, FoldersFormForest, NothingOrphaned,
         NEW c \in Categories, NEW d \in Places, MoveCategory(c, d)
  PROVE  FoldersFormForest' /\ NothingOrphaned'
<1>1. /\ c \in Folders /\ Exists(d) /\ d # Null /\ parent' = [parent EXCEPT ![c] = d]
      /\ Folders' = Folders /\ UNCHANGED project
      /\ parent'[c] = d /\ \A x \in Categories \ {c} : parent'[x] = parent[x]
  BY NotNull DEF MoveCategory, Folders, ProjectsTypeOK
<1>2. ASSUME NEW S \in SUBSET Folders', S # {}, \A x \in S : parent'[x] \in S PROVE FALSE
  <2>1. c \in S
    BY <1>1, <1>2, Places0 DEF FoldersFormForest
  <2>2. d \in S /\ d # NoParent /\ d \in Folders
    BY <1>1, <1>2, <2>1, Places0
  <2>3. PICK A \in SUBSET Folders : d \in A /\ Rooted(A) /\ c \notin A
    BY <2>2 DEF MoveCategory, Under
  <2>4. PICK x \in A \cap S : parent[x] \notin A \cap S
    <3>1. A \cap S \in SUBSET Folders /\ A \cap S # {}
      BY <2>2, <2>3
    <3> QED BY <3>1 DEF FoldersFormForest
  <2>5. parent'[x] = parent[x] /\ parent[x] \in S
    BY <1>1, <1>2, <2>3, <2>4, Places0
  <2>6. parent[x] \in A
    BY <1>1, <2>3, <2>4, <2>5, Places0 DEF Rooted
  <2> QED BY <2>4, <2>5, <2>6
<1>3. NothingOrphaned'
  BY <1>1 DEF NothingOrphaned, Exists, Saved
<1> QED BY <1>2, <1>3 DEF FoldersFormForest

\* What is left of a forest without a subtree is a forest: a folder whose parent
\* is in the subtree is in it.
LEMMA DeleteCategoryKeeps ==
  ASSUME ProjectsTypeOK, FoldersFormForest, NothingOrphaned,
         NEW c \in Categories, DeleteCategory(c)
  PROVE  FoldersFormForest' /\ NothingOrphaned'
<1>1. /\ Folders' = Folders \ Subtree(c)
      /\ \A x \in Folders' : x \in Folders /\ parent'[x] = parent[x]
  BY DEF DeleteCategory, Folders, Subtree
<1>2. Saved' = {i \in Saved : project[i].category \notin Subtree(c)}
      /\ \A i \in Saved' : project'[i] = project[i]
  BY DEF DeleteCategory, Saved
<1>3. ASSUME NEW x \in Folders', parent[x] \in Subtree(c) PROVE FALSE
  <2>1. ASSUME NEW A \in SUBSET Folders, x \in A, Rooted(A) PROVE c \in A
    <3>1. parent[x] \in A
      BY <1>1, <1>3, <2>1, Places0 DEF Rooted, Subtree
    <3> QED BY <1>3, <2>1, <3>1 DEF Subtree, Under
  <2> QED BY <1>1, <2>1 DEF Subtree, Under
<1>4. FoldersFormForest'
  BY <1>1 DEF FoldersFormForest
<1>5. NothingOrphaned'
  BY <1>1, <1>2, <1>3 DEF NothingOrphaned, Exists
<1> QED BY <1>4, <1>5

\* Folders made below c: a set of them only has a least one, whose parent is c or
\* the folder made before it.
LEMMA ImportKeepsForest ==
  ASSUME ProjectsTypeOK, FoldersFormForest, NothingOrphaned,
         NEW c \in Places, NEW depth \in Nat, NEW n \in Nat, Exists(c),
         Rowid(n, Folders), n + depth - 1 <= MaxCategories, parent' = Chain(n, depth, c)
  PROVE  /\ FoldersFormForest' /\ Folders \subseteq Folders'
         /\ \A d \in Folders' : parent'[d] \in Folders' \cup {NoParent}
         /\ \A d \in Categories : depth > 0 /\ d = n + depth - 1 => d \in Folders'
<1> DEFINE New == {d \in Categories : n <= d /\ d < n + depth}
<1>1. /\ n \notin Folders /\ \A d \in Folders : d < n
      /\ \A d \in Categories : d \in Nat
  BY Places0 DEF Rowid
<1>2. /\ \A d \in Categories \ New : parent'[d] = parent[d]
      /\ n \in New => parent'[n] = c
      /\ \A d \in New \ {n} : parent'[d] = d - 1
  BY <1>1, ProjectsAssumption DEF Chain
<1>3. Folders' = Folders \cup New
  <2>1. \A d \in New : d - 1 # Null
    BY <1>1, ArtifactStoreAssumption, ProjectsAssumption DEF Categories
  <2> QED BY <1>1, <1>2, <2>1, NotNull, Places0 DEF Folders
<1>4. Folders \cap New = {}
  BY <1>1
<1>5. ASSUME NEW S \in SUBSET Folders', S # {} PROVE \E d \in S : parent'[d] \notin S
  <2>1. CASE S \cap Folders # {}
    <3>1. PICK d \in S \cap Folders : parent[d] \notin S \cap Folders
      BY <2>1 DEF FoldersFormForest
    <3>2. parent'[d] = parent[d] /\ parent[d] \in Folders \cup {NoParent}
      BY <1>2, <1>4, <3>1, Places0 DEF NothingOrphaned, Exists
    <3>3. NoParent \notin S
      BY <1>3, <1>5, Places0
    <3> QED BY <3>1, <3>2, <3>3
  <2>2. CASE S \cap Folders = {}
    <3>1. S \subseteq New /\ S \subseteq Nat
      BY <1>1, <1>3, <1>5, <2>2
    <3>2. PICK d \in S : \A e \in S : ~(<<e, d>> \in OpToRel(<, Nat))
      BY <1>5, <3>1, NatLessThanWellFounded, WFMin
    <3>3. \A e \in S : ~(e < d)
      BY <3>1, <3>2 DEF OpToRel
    <3>4. CASE d = n
      BY <1>2, <3>1, <3>4, <2>2, <1>3, <1>5, Places0 DEF Exists
    <3>5. CASE d # n
      BY <1>2, <3>1, <3>3, <3>5
    <3> QED BY <3>4, <3>5
  <2> QED BY <2>1, <2>2
<1>6. ASSUME NEW d \in Folders' PROVE parent'[d] \in Folders' \cup {NoParent}
  <2>1. CASE d \in Folders
    BY <1>2, <1>3, <1>4, <2>1, Places0 DEF NothingOrphaned, Exists
  <2>2. CASE d = n /\ d \in New
    BY <1>2, <1>3, <2>2 DEF Exists
  <2>3. CASE d \in New \ {n}
    <3>1. d - 1 \in Categories
      <4>1. n = 1 \/ n - 1 \in Categories
        BY Places0 DEF Rowid
      <4> QED BY <4>1, <1>1, <2>3, ProjectsAssumption DEF Categories
    <3>2. d - 1 \in New
      BY <1>1, <2>3, <3>1
    <3> QED BY <1>2, <1>3, <2>3, <3>2
  <2> QED BY <1>3, <1>6, <2>1, <2>2, <2>3
<1>7. ASSUME NEW d \in Categories, depth > 0, d = n + depth - 1 PROVE d \in Folders'
  BY <1>1, <1>3, <1>7
<1> QED BY <1>3, <1>5, <1>6, <1>7 DEF FoldersFormForest

-----------------------------------------------------------------------------
(* The store and its pins under projects.                                   *)

\* Giving pins up, or adding pins on existing rows that never expire, keeps the
\* store consistent, in the middle of a reap too.
LEMMA PinsMayChange ==
  ASSUME StoreInv,
         UNCHANGED <<now, rows, files, temps, expiry, open, op, hot, doomed, reapAt>>,
         \A q \in pins' : q \in pins \/ (q \in Pins /\ q.art \in rows /\ q.exp = Null)
  PROVE  StoreInv'
<1>1. pins' \subseteq Pins /\ \A q \in pins' : q.art \in rows
  BY DEF StoreInv, StoreTypeOK, PinsHaveRows
<1>2. StoreTypeOK' /\ RowsHaveFiles' /\ PinsHaveRows'
  BY <1>1 DEF StoreInv, StoreTypeOK, RowsHaveFiles, PinsHaveRows
<1>3. LockInv'
  BY <1>1 DEF StoreInv, LockInv, LiveAt
<1> QED BY <1>2, <1>3 DEF StoreInv

PinsOf(i) == {p \in pins : p.owner = i}

\* Replacing the pins of one owner leaves those of the others alone.
LEMMA RepinnedOwners ==
  ASSUME NEW o \in Ids, NEW ids, pins' = Repinned(o, ids, Null)
  PROVE  PinsOf(o)' = Pinning(o, ids) /\ \A i \in Ids \ {o} : PinsOf(i)' = PinsOf(i)
BY DEF PinsOf, Repinned, Unpinned, Pinning

LEMMA UnpinnedOwners ==
  ASSUME NEW S \in SUBSET Ids, pins' = Unpinned(S)
  PROVE  /\ \A i \in S : PinsOf(i)' = {}
         /\ \A i \in Ids \ S : PinsOf(i)' = PinsOf(i)
BY DEF PinsOf, Unpinned

\* The pins of a project change with its canvas and its deletion only.
LEMMA PinsFollowStep ==
  ASSUME PinsFollowDesigns, NEW S \in SUBSET Ids,
         \A i \in Ids \ S : /\ PinsOf(i)' = PinsOf(i)
                            /\ (project'[i] = Null) = (project[i] = Null)
                            /\ project[i] # Null => project'[i].canvas = project[i].canvas,
         \A i \in S : PinsOf(i)' = IF project'[i] = Null THEN {}
                                   ELSE Pinning(i, Shows[project'[i].canvas])
  PROVE  PinsFollowDesigns'
<1>1. ASSUME NEW i \in Ids
      PROVE  PinsOf(i)' = IF project'[i] = Null THEN {} ELSE Pinning(i, Shows[project'[i].canvas])
  BY DEF PinsFollowDesigns, PinsOf, Saved, Images
<1> QED BY <1>1 DEF PinsFollowDesigns, PinsOf, Saved, Images, Pinning

\* The store's own steps keep every pin of a project: none of them expires.
LEMMA ArtifactStepKeeps ==
  ASSUME ProjectsInv, ArtifactStep
  PROVE  StoreInv' /\ pins' = pins
<1>1. StoreInv'
  BY StoreNextInv DEF ArtifactStep, StoreNext, StoreStep, ProjectsInv
<1>2. ASSUME NEW p \in pins PROVE p.exp = Null
  <2>1. p.owner \in Ids
    BY ProjectsAssumption DEF ProjectsInv, StoreInv, StoreTypeOK, Pins, Ids
  <2>2. p \in Pinning(p.owner, Images(p.owner))
    BY <2>1 DEF ProjectsInv, PinsFollowDesigns
  <2> QED BY <2>2 DEF Pinning
<1>3. CASE ReapBegin
  BY <1>1, <1>2, <1>3 DEF ReapBegin, ReapBeginFrom, LiveAt
<1>4. CASE ~ReapBegin
  BY <1>1, <1>4 DEF ArtifactStep, PutBegin, PutInstall, PutWriteFails, PutCommit, ReapSelect,
     ReapDelete, ReapUnlink, ReapAbort, Tick, Close, Crash, Startup, Opened
<1> QED BY <1>1, <1>3, <1>4

-----------------------------------------------------------------------------
(* What clients have read.                                                  *)

\* A row stays, goes, is new, or is the next revision of what it was.
RowStep(i) ==
  \/ project'[i] = project[i] \/ project'[i] = Null
  \/ project'[i] \in Row /\ project'[i].born > writes
  \/ /\ project[i] # Null /\ project'[i] \in Row
     /\ project'[i].born = project[i].born
     /\ project'[i].revision = project[i].revision + 1

LEMMA ReadingsStep ==
  ASSUME ProjectsTypeOK, ReadingsInv, writes' \in Nat, writes <= writes',
         \A i \in Ids : RowStep(i),
         \A i \in Saved' : project'[i] = project[i]
                           \/ (project'[i].ver <= writes' /\ project'[i].born <= writes'),
         \A k \in Clients : \/ seen'[k] = seen[k]
                            \/ \E i \in Saved' : seen'[k] = Read(i, project'[i]),
         \A i \in Saved' : project'[i] \in Row
  PROVE  ReadingsInv'
<1>1. /\ \A i \in Saved : project[i] \in Row
      /\ \A k \in Clients : seen[k] # Null => seen[k] \in Reading
      /\ writes \in Nat
  BY DEF ProjectsTypeOK, Saved
<1>2. ASSUME NEW i \in Saved' PROVE project'[i].ver <= writes' /\ project'[i].born <= writes'
  <2>1. CASE project'[i] = project[i]
    <3>1. i \in Saved
      BY <2>1 DEF Saved
    <3>2. project[i].ver \in Nat /\ project[i].born \in Nat
      BY <1>1, <3>1, RowFields
    <3> QED BY <1>1, <2>1, <3>1, <3>2 DEF ReadingsInv
  <2> QED BY <2>1
<1>3. ASSUME NEW k \in Clients, seen'[k] # Null PROVE seen'[k].born <= writes'
  <2>1. CASE seen'[k] = seen[k]
    <3>1. seen[k].born \in Nat
      BY <1>1, <1>3, <2>1 DEF Reading
    <3> QED BY <1>1, <1>3, <2>1, <3>1 DEF ReadingsInv
  <2>2. CASE seen'[k] # seen[k]
    <3>1. PICK i \in Saved' : seen'[k] = Read(i, project'[i])
      BY <2>2
    <3> QED BY <1>2, <3>1 DEF Read
  <2> QED BY <2>1, <2>2
<1>4. ASSUME NEW k \in Clients, NEW i \in Saved',
             seen'[k] # Null, seen'[k].id = i, seen'[k].born = project'[i].born
      PROVE  /\ seen'[k].revision <= project'[i].revision
             /\ seen'[k].revision = project'[i].revision => seen'[k].ver = project'[i].ver
  <2>1. CASE seen'[k] # seen[k]
    <3>1. PICK j \in Saved' : seen'[k] = Read(j, project'[j])
      BY <2>1
    <3>2. /\ j = i /\ seen'[k].revision = project'[i].revision
          /\ seen'[k].ver = project'[i].ver
      BY <1>4, <3>1 DEF Read
    <3>3. project'[i].revision \in Nat
      BY RowFields
    <3> QED BY <3>2, <3>3
  <2>2. CASE seen'[k] = seen[k] /\ project'[i] = project[i]
    BY <1>4, <2>2 DEF ReadingsInv, ReadingOf, Saved
  <2>3. CASE seen'[k] = seen[k] /\ project'[i].born > writes
    <3>1. seen[k].born <= writes /\ seen[k].born \in Nat
      BY <1>1, <1>4, <2>3 DEF ReadingsInv, Reading
    <3> QED BY <1>1, <1>4, <2>3, <3>1
  <2>4. CASE /\ seen'[k] = seen[k] /\ project[i] # Null
             /\ project'[i].born = project[i].born
             /\ project'[i].revision = project[i].revision + 1
    <3>1. i \in Saved /\ ReadingOf(k, i)
      BY <1>4, <2>4 DEF Saved, ReadingOf
    <3>2. seen[k].revision <= project[i].revision
      BY <3>1 DEF ReadingsInv
    <3>3. seen[k].revision \in Nat /\ project[i].revision \in Nat
      BY <1>1, <3>1, RowFields DEF ReadingOf, Reading
    <3> QED BY <2>4, <3>2, <3>3
  <2>5. i \in Ids /\ project'[i] # Null
    BY DEF Saved
  <2> QED BY <2>1, <2>2, <2>3, <2>4, <2>5 DEF RowStep
<1>5. ASSUME NEW k \in Clients, NEW i \in Saved', seen'[k] # Null, seen'[k].id = i
      PROVE  seen'[k].born <= project'[i].born
  <2>1. project'[i].born \in Nat /\ i \in Ids /\ project'[i] # Null
    BY RowFields DEF Saved
  <2>2. CASE seen'[k] # seen[k]
    <3>1. PICK j \in Saved' : seen'[k] = Read(j, project'[j])
      BY <2>2
    <3>2. j = i /\ seen'[k].born = project'[i].born
      BY <1>5, <3>1 DEF Read
    <3> QED BY <2>1, <3>2
  <2>3. CASE seen'[k] = seen[k]
    <3>1. seen[k].born <= writes /\ seen[k].born \in Nat /\ seen[k].id = i
      BY <1>1, <1>5, <2>3 DEF ReadingsInv, Reading
    <3>2. CASE project'[i].born > writes
      BY <1>1, <2>1, <2>3, <3>1, <3>2
    <3>3. CASE project[i] # Null /\ project'[i].born = project[i].born
      BY <1>5, <2>1, <2>3, <3>1, <3>3 DEF ReadingsInv, Saved
    <3> QED BY <2>1, <3>2, <3>3 DEF RowStep
  <2> QED BY <2>2, <2>3
<1> QED BY <1>2, <1>3, <1>4, <1>5 DEF ReadingsInv, ReadingOf

-----------------------------------------------------------------------------
(* The invariant, by shape of step.                                          *)

\* One project is written, new or the next revision of what its client read.
LEMMA RowWritten ==
  ASSUME ProjectsInv, StoreInv', NEW k \in Clients, NEW n \in Ids, NEW r \in Row,
         project' = [project EXCEPT ![n] = r], seen' = [seen EXCEPT ![k] = Read(n, r)],
         writes' = writes + 1, UNCHANGED parent, Exists(r.category), r.ver = writes + 1,
         \/ r.born = writes + 1
         \/ /\ n \in Saved /\ r.born = project[n].born
            /\ r.revision = project[n].revision + 1,
         \/ pins' = Repinned(n, Shows[r.canvas], Null)
         \/ n \in Saved /\ r.canvas = project[n].canvas /\ UNCHANGED pins
  PROVE  ProjectsInv'
<1> USE DEF ProjectsInv
<1>1. /\ project'[n] = r /\ \A i \in Ids \ {n} : project'[i] = project[i]
      /\ r # Null /\ n \in Saved' /\ Saved' = Saved \cup {n}
  BY NotNull DEF ProjectsTypeOK, Saved
<1>2. /\ seen'[k] = Read(n, project'[n])
      /\ \A m \in Clients \ {k} : seen'[m] = seen[m]
  BY <1>1 DEF ProjectsTypeOK
<1>3. ProjectsTypeOK'
  <2>1. project' \in [Ids -> Row \cup {Null}]
    BY DEF ProjectsTypeOK
  <2>2. seen' \in [Clients -> Reading \cup {Null}]
    BY ReadIsReading DEF ProjectsTypeOK
  <2> QED BY <2>1, <2>2 DEF ProjectsTypeOK, StoreInv
<1>4. FoldersFormForest' /\ NothingOrphaned'
  <2>1. Folders' = Folders
    BY DEF Folders
  <2>2. ASSUME NEW i \in Saved' PROVE Exists(project'[i].category)
    BY <1>1 DEF NothingOrphaned
  <2> QED BY <2>1, <2>2 DEF FoldersFormForest, NothingOrphaned, Exists
<1>5. PinsFollowDesigns'
  <2>1. CASE pins' = Repinned(n, Shows[r.canvas], Null)
    <3>1. /\ PinsOf(n)' = Pinning(n, Shows[r.canvas])
          /\ \A i \in Ids \ {n} : PinsOf(i)' = PinsOf(i)
      BY <2>1, RepinnedOwners
    <3>2. \A i \in Ids \ {n} : /\ PinsOf(i)' = PinsOf(i)
                               /\ (project'[i] = Null) = (project[i] = Null)
                               /\ project[i] # Null => project'[i].canvas = project[i].canvas
      BY <1>1, <3>1
    <3>3. \A i \in {n} : PinsOf(i)' = IF project'[i] = Null THEN {}
                                      ELSE Pinning(i, Shows[project'[i].canvas])
      BY <1>1, <3>1
    <3>4. {n} \in SUBSET Ids
      OBVIOUS
    <3> QED BY <3>2, <3>3, <3>4, PinsFollowStep
  <2>2. CASE n \in Saved /\ r.canvas = project[n].canvas /\ UNCHANGED pins
    <3>1. \A i \in Ids : PinsOf(i)' = PinsOf(i)
      BY <2>2 DEF PinsOf
    <3>2. \A i \in Ids : /\ (project'[i] = Null) = (project[i] = Null)
                         /\ project[i] # Null => project'[i].canvas = project[i].canvas
      BY <1>1, <2>2 DEF Saved
    <3>3. /\ {} \in SUBSET Ids /\ \A i \in Ids \ {} : i \in Ids
          /\ \A i \in {} : PinsOf(i)' = IF project'[i] = Null THEN {}
                                        ELSE Pinning(i, Shows[project'[i].canvas])
      OBVIOUS
    <3> QED BY <3>1, <3>2, <3>3, PinsFollowStep
  <2> QED BY <2>1, <2>2
<1>6. ReadingsInv'
  <2>1. writes \in Nat /\ writes' \in Nat /\ writes <= writes'
    BY DEF ProjectsTypeOK
  <2>2. r.born <= writes'
    <3>1. CASE n \in Saved /\ r.born = project[n].born
      <4>1. project[n].born \in Nat
        BY <3>1, RowFields
      <4> QED BY <2>1, <3>1, <4>1 DEF ReadingsInv
    <3> QED BY <2>1, <3>1
  <2>3. \A i \in Ids : RowStep(i)
    BY <1>1, <2>1 DEF RowStep, Saved
  <2>4. \A i \in Saved' : project'[i] = project[i]
                          \/ (project'[i].ver <= writes' /\ project'[i].born <= writes')
    BY <1>1, <2>1, <2>2 DEF Saved
  <2>5. \A m \in Clients : \/ seen'[m] = seen[m]
                           \/ \E i \in Saved' : seen'[m] = Read(i, project'[i])
    BY <1>1, <1>2
  <2>6. \A i \in Saved' : project'[i] \in Row
    BY <1>3 DEF ProjectsTypeOK, Saved
  <2> QED BY <2>1, <2>3, <2>4, <2>5, <2>6, ReadingsStep
<1> QED BY <1>3, <1>4, <1>5, <1>6

\* Projects go, with their pins.
LEMMA RowsGone ==
  ASSUME ProjectsInv, NEW S \in SUBSET Ids, DropPins(S), UNCHANGED <<seen, writes>>,
         project' = [i \in Ids |-> IF i \in S THEN Null ELSE project[i]],
         parent' \in [Categories -> Places \cup {Null}], FoldersFormForest', NothingOrphaned'
  PROVE  ProjectsInv'
<1> USE DEF ProjectsInv
<1>1. StoreInv'
  BY PinsMayChange DEF DropPins, Unpinned
<1>2. ProjectsTypeOK'
  BY <1>1 DEF ProjectsTypeOK, StoreInv
<1>3. PinsFollowDesigns'
  <2>1. /\ \A i \in S : PinsOf(i)' = {}
        /\ \A i \in Ids \ S : PinsOf(i)' = PinsOf(i)
    BY UnpinnedOwners DEF DropPins
  <2> QED BY <2>1, PinsFollowStep
<1>4. ReadingsInv'
  <2>1. writes \in Nat /\ writes' = writes
    BY DEF ProjectsTypeOK
  <2>2. \A i \in Ids : RowStep(i)
    BY DEF RowStep
  <2>3. \A i \in Saved' : project'[i] = project[i] /\ project'[i] \in Row
    BY DEF Saved, ProjectsTypeOK
  <2> QED BY <2>1, <2>2, <2>3, ReadingsStep
<1> QED BY <1>1, <1>2, <1>3, <1>4

\* Only folders change, or only the store, or only what a client has read.
LEMMA RowsStay ==
  ASSUME ProjectsInv, StoreInv', UNCHANGED <<pins, project, writes>>,
         parent' \in [Categories -> Places \cup {Null}], FoldersFormForest', NothingOrphaned',
         \A k \in Clients : \/ seen'[k] = seen[k]
                            \/ \E i \in Saved : seen'[k] = Read(i, project[i]),
         seen' \in [Clients -> Reading \cup {Null}]
  PROVE  ProjectsInv'
<1> USE DEF ProjectsInv
<1>1. ProjectsTypeOK'
  BY DEF ProjectsTypeOK, StoreInv
<1>2. PinsFollowDesigns'
  BY DEF PinsFollowDesigns, Saved, Images, Pinning
<1>3. ReadingsInv'
  <2>1. writes \in Nat /\ writes' = writes
    BY DEF ProjectsTypeOK
  <2>2. \A i \in Ids : RowStep(i)
    BY DEF RowStep
  <2>3. Saved' = Saved /\ \A i \in Saved' : project'[i] = project[i] /\ project'[i] \in Row
    BY DEF Saved, ProjectsTypeOK
  <2> QED BY <2>1, <2>2, <2>3, ReadingsStep
<1> QED BY <1>1, <1>2, <1>3

-----------------------------------------------------------------------------
(* The invariant, by action.                                                 *)

LEMMA CreateInv ==
  ASSUME ProjectsInv, NEW k \in Clients, NEW c \in Places, NEW d \in Canvases, Create(k, c, d)
  PROVE  ProjectsInv'
<1> PICK n \in Ids :
      /\ Rowid(n, Saved)
      /\ SyncManagedAssets(n, Shows[d])
      /\ project' = [project EXCEPT ![n] = NewRow(c, d, writes + 1)]
      /\ seen' = [seen EXCEPT ![k] = Read(n, project'[n])]
  BY DEF Create
<1> DEFINE r == NewRow(c, d, writes + 1)
<1>1. writes + 1 \in Nat
  BY DEF ProjectsInv, ProjectsTypeOK
<1>2. /\ r \in Row /\ r.category = c /\ r.canvas = d
      /\ r.ver = writes + 1 /\ r.born = writes + 1
  BY <1>1, NewRowIsRow
<1>3. project' = [project EXCEPT ![n] = r] /\ project'[n] = r
  BY DEF ProjectsInv, ProjectsTypeOK
<1>4. StoreInv'
  BY PinInv, Places0, ProjectsAssumption DEF ProjectsInv
<1>5. /\ seen' = [seen EXCEPT ![k] = Read(n, r)] /\ Exists(r.category)
      /\ writes' = writes + 1 /\ UNCHANGED parent
  BY <1>2, <1>3 DEF Create
<1>6. pins' = Repinned(n, Shows[r.canvas], Null)
  BY <1>2 DEF SyncManagedAssets
<1> HIDE DEF r
<1> QED BY <1>2, <1>3, <1>4, <1>5, <1>6, RowWritten

\* What an accepted save writes is the next revision.
LEMMA RevisedIsRow ==
  ASSUME ProjectsInv, NEW r \in Row
  PROVE  /\ Revised(r) \in Row /\ Revised(r).revision = r.revision + 1
         /\ Revised(r).ver = writes + 1 /\ Revised(r).born = r.born
         /\ Revised(r).category = r.category /\ Revised(r).canvas = r.canvas
<1>1. writes + 1 \in Nat /\ r.revision + 1 \in Nat \ {0}
  BY RowFields DEF ProjectsInv, ProjectsTypeOK
<1> DEFINE a == [r EXCEPT !.revision = r.revision + 1]
<1>2. /\ a \in Row /\ a.revision = r.revision + 1 /\ a.born = r.born
      /\ a.category = r.category /\ a.canvas = r.canvas
  BY <1>1 DEF Row
<1>3. Revised(r) = [a EXCEPT !.ver = writes + 1]
  BY DEF Revised
<1> HIDE DEF a
<1>4. /\ [a EXCEPT !.ver = writes + 1] \in Row
      /\ [a EXCEPT !.ver = writes + 1].ver = writes + 1
      /\ [a EXCEPT !.ver = writes + 1].revision = a.revision
      /\ [a EXCEPT !.ver = writes + 1].born = a.born
      /\ [a EXCEPT !.ver = writes + 1].category = a.category
      /\ [a EXCEPT !.ver = writes + 1].canvas = a.canvas
  BY <1>1, <1>2 DEF Row
<1> QED BY <1>2, <1>3, <1>4

LEMMA SaveInv ==
  ASSUME ProjectsInv, NEW k \in Clients, NEW c \in Places, NEW d \in Canvases, Save(k, c, d)
  PROVE  ProjectsInv'
<1> DEFINE i == seen[k].id
           b == [project[i] EXCEPT !.category = c, !.canvas = d]
           r == Revised(b)
<1>1. i \in Saved /\ i \in Ids /\ project[i] \in Row
  BY DEF Save, Accepts, ProjectsInv, ProjectsTypeOK, Saved
<1>2. /\ b \in Row /\ b.canvas = d /\ b.category = c
      /\ b.born = project[i].born /\ b.revision = project[i].revision
  BY <1>1 DEF Row
<1>3. /\ project' = [project EXCEPT ![i] = r] /\ seen' = [seen EXCEPT ![k] = Read(i, r)]
      /\ writes' = writes + 1 /\ UNCHANGED parent
      /\ SyncManagedAssets(i, Shows[d]) /\ Exists(c)
  BY DEF Save, Replace
<1> HIDE DEF b
<1>4. /\ r \in Row /\ r.canvas = d /\ r.category = c
      /\ r.born = project[i].born /\ r.revision = project[i].revision + 1
      /\ r.ver = writes + 1
  BY <1>2, RevisedIsRow
<1>5. StoreInv'
  BY <1>1, <1>3, PinInv, Places0, ProjectsAssumption DEF ProjectsInv
<1>6. pins' = Repinned(i, Shows[r.canvas], Null)
  BY <1>3, <1>4 DEF SyncManagedAssets
<1>7. Exists(r.category)
  BY <1>3, <1>4
<1> HIDE DEF i, r
<1> QED BY <1>1, <1>3, <1>4, <1>5, <1>6, <1>7, RowWritten

LEMMA PlaceInv ==
  ASSUME ProjectsInv, NEW k \in Clients, NEW c \in Places, Place(k, c)
  PROVE  ProjectsInv'
<1> DEFINE i == seen[k].id
           b == [project[i] EXCEPT !.category = c]
           r == Revised(b)
<1>1. i \in Saved /\ i \in Ids /\ project[i] \in Row
  BY DEF Place, Accepts, ProjectsInv, ProjectsTypeOK, Saved
<1>2. /\ b \in Row /\ b.canvas = project[i].canvas /\ b.category = c
      /\ b.born = project[i].born /\ b.revision = project[i].revision
  BY <1>1 DEF Row
<1>3. /\ project' = [project EXCEPT ![i] = r] /\ seen' = [seen EXCEPT ![k] = Read(i, r)]
      /\ writes' = writes + 1 /\ UNCHANGED parent /\ UNCHANGED storeVars /\ Exists(c)
  BY DEF Place, Replace
<1> HIDE DEF b
<1>4. /\ r \in Row /\ r.canvas = project[i].canvas /\ r.category = c
      /\ r.born = project[i].born /\ r.revision = project[i].revision + 1
      /\ r.ver = writes + 1
  BY <1>2, RevisedIsRow
<1>5. StoreInv' /\ pins' = pins
  BY <1>3, StoreNextInv DEF ProjectsInv, storeVars
<1> HIDE DEF i, r
<1> QED BY <1>1, <1>3, <1>4, <1>5, RowWritten

\* An imported project is a new one, below a folder that exists then.
LEMMA ImportInv ==
  ASSUME ProjectsInv, NEW c \in Places, NEW depth \in 0..MaxCategories,
         NEW m \in 0..MaxProjects, NEW docs \in [1..m -> Canvases], Import(c, depth, docs)
  PROVE  ProjectsInv'
<1> USE DEF ProjectsInv
<1> DEFINE bottom(n) == IF depth = 0 THEN c ELSE n + depth - 1
           doc(i, j) == docs[j - i + 1]
<1>1. m \in Nat /\ depth \in Nat /\ Len(docs) = m /\ writes \in Nat
      /\ writes' = writes + m /\ writes' \in Nat
  <2>1. m \in Nat /\ depth \in Nat /\ writes \in Nat
    BY ProjectsAssumption DEF ProjectsTypeOK
  <2>2. docs \in Seq(Canvases) /\ Len(docs) = m
    BY <2>1
  <2> QED BY <2>1, <2>2 DEF Import
<1>2. PICK n \in 1..(MaxCategories + 1), i \in 1..(MaxProjects + 1) :
        /\ Rowid(n, Folders) /\ n + depth - 1 <= MaxCategories
        /\ Rowid(i, Saved) /\ i..(i + m - 1) \subseteq Ids
        /\ parent' = Chain(n, depth, c)
        /\ project' = [j \in Ids |-> IF j \in i..(i + m - 1)
                                     THEN NewRow(bottom(n), doc(i, j), writes + 1 + j - i)
                                     ELSE project[j]]
        /\ pins' = Unpinned(i..(i + m - 1))
                     \cup {p \in [owner : i..(i + m - 1), art : rows, exp : {Null}] :
                             p.art \in Shows[doc(i, p.owner)]}
  BY <1>1 DEF Import
<1> DEFINE New == i..(i + m - 1)
<1>3. n \in Nat /\ i \in Nat /\ \A j \in New : j \in Nat
  BY ProjectsAssumption
<1>4. ASSUME NEW j \in New PROVE j \in Ids /\ j \notin Saved
  <2>1. i <= j
    BY <1>3
  <2>2. \A x \in Saved : x < i /\ x \in Nat
    BY <1>2, Places0, ProjectsAssumption DEF Rowid, Ids
  <2> QED BY <1>2, <1>3, <2>1, <2>2
<1>5. \A j \in New : /\ doc(i, j) \in Canvases /\ Shows[doc(i, j)] \subseteq rows
                     /\ writes + 1 + j - i \in Nat /\ writes + 1 + j - i > writes
                     /\ writes + 1 + j - i <= writes'
  <2>1. ASSUME NEW j \in New PROVE j - i + 1 \in 1..m
    BY <1>1, <1>3
  <2>2. \A x \in 1..m : docs[x] \in Canvases /\ Shows[docs[x]] \subseteq rows
    BY <1>1 DEF Import, Usable
  <2>3. ASSUME NEW j \in New
        PROVE  writes + 1 + j - i \in Nat /\ writes + 1 + j - i > writes
               /\ writes + 1 + j - i <= writes'
    BY <1>1, <1>3
  <2> QED BY <2>1, <2>2, <2>3
<1>6. /\ FoldersFormForest' /\ Folders \subseteq Folders'
      /\ \A d \in Folders' : parent'[d] \in Folders' \cup {NoParent}
      /\ \A d \in Categories : depth > 0 /\ d = n + depth - 1 => d \in Folders'
  BY <1>1, <1>2, <1>3, ImportKeepsForest DEF Import
<1>7. bottom(n) \in Places /\ bottom(n) \in Folders' \cup {NoParent}
  <2>1. CASE depth = 0
    BY <1>6, <2>1 DEF Import, Exists
  <2>2. CASE depth > 0
    <3>1. n + depth - 1 \in Categories
      BY <1>1, <1>2, <1>3, <2>2, ProjectsAssumption DEF Categories
    <3> QED BY <1>6, <2>2, <3>1 DEF Places
  <2> QED BY <1>1, <2>1, <2>2
<1> DEFINE row(j) == NewRow(bottom(n), doc(i, j), writes + 1 + j - i)
<1>8. \A j \in New : /\ row(j) \in Row /\ row(j).category = bottom(n)
                     /\ row(j).canvas = doc(i, j) /\ row(j).ver = writes + 1 + j - i
                     /\ row(j).born = writes + 1 + j - i
  BY <1>5, <1>7, NewRowIsRow
<1>9. /\ \A j \in New : project'[j] = row(j) /\ row(j) # Null
      /\ \A j \in Ids \ New : project'[j] = project[j]
  BY <1>2, <1>4, <1>8, NotNull
<1>10. /\ \A j \in New : PinsOf(j)' = Pinning(j, Shows[doc(i, j)])
       /\ \A j \in Ids \ New : PinsOf(j)' = PinsOf(j)
  <2>1. ASSUME NEW q
        PROVE  q \in pins' <=>
                 \/ q \in pins /\ q.owner \notin New
                 \/ /\ q \in [owner : New, art : rows, exp : {Null}]
                    /\ q.art \in Shows[doc(i, q.owner)]
    BY <1>2 DEF Unpinned
  <2>2. ASSUME NEW j \in New PROVE PinsOf(j)' = Pinning(j, Shows[doc(i, j)])
    BY <1>5, <2>1 DEF PinsOf, Pinning
  <2>3. ASSUME NEW j \in Ids \ New PROVE PinsOf(j)' = PinsOf(j)
    BY <2>1 DEF PinsOf
  <2> QED BY <2>2, <2>3
<1> HIDE DEF bottom, doc, row
<1>11. StoreInv'
  <2>1. ASSUME NEW q \in pins'
        PROVE  q \in pins \/ (q \in Pins /\ q.art \in rows /\ q.exp = Null)
    <3>1. CASE q \notin pins
      <4>1. q \in [owner : New, art : rows, exp : {Null}]
        BY <1>2, <3>1 DEF Unpinned
      <4>2. New \subseteq Owners /\ rows \subseteq Artifacts
        BY <1>4, ProjectsAssumption DEF Ids, StoreInv, StoreTypeOK
      <4> QED BY <4>1, <4>2 DEF Pins
    <3> QED BY <3>1
  <2>2. UNCHANGED <<now, rows, files, temps, expiry, open, op, hot, doomed, reapAt>>
    BY DEF Import
  <2> QED BY <2>1, <2>2, PinsMayChange
<1>12. ProjectsTypeOK'
  <2>1. project' \in [Ids -> Row \cup {Null}]
    <3>1. \A j \in Ids : project'[j] \in Row \cup {Null}
      BY <1>8, <1>9 DEF ProjectsTypeOK
    <3>2. project' = [j \in Ids |-> project'[j]]
      BY <1>2
    <3> QED BY <3>1, <3>2
  <2>2. parent' \in [Categories -> Places \cup {Null}]
    <3>1. \A d \in Categories : parent'[d] \in Places \cup {Null}
      BY <1>6, Places0 DEF Folders, Places
    <3>2. parent' = [d \in Categories |-> parent'[d]]
      BY <1>2 DEF Chain
    <3> QED BY <3>1, <3>2
  <2>3. UNCHANGED seen
    BY DEF Import
  <2> QED BY <1>1, <1>11, <2>1, <2>2, <2>3 DEF ProjectsTypeOK, StoreInv
<1>13. NothingOrphaned'
  <2>1. ASSUME NEW j \in Saved' PROVE project'[j].category \in Folders' \cup {NoParent}
    <3>1. CASE j \in New
      BY <1>7, <1>8, <1>9, <3>1
    <3>2. CASE j \notin New
      BY <1>6, <1>9, <3>2 DEF Saved, NothingOrphaned, Exists
    <3> QED BY <3>1, <3>2
  <2> QED BY <1>6, <2>1 DEF NothingOrphaned, Exists
<1>14. PinsFollowDesigns'
  <2>1. \A j \in New : PinsOf(j)' = IF project'[j] = Null THEN {}
                                    ELSE Pinning(j, Shows[project'[j].canvas])
    BY <1>8, <1>9, <1>10
  <2>2. \A j \in Ids \ New : /\ PinsOf(j)' = PinsOf(j)
                             /\ (project'[j] = Null) = (project[j] = Null)
                             /\ project[j] # Null => project'[j].canvas = project[j].canvas
    BY <1>9, <1>10
  <2>3. New \in SUBSET Ids
    BY <1>4
  <2> QED BY <2>1, <2>2, <2>3, PinsFollowStep
<1>15. ReadingsInv'
  <2>1. \A j \in Ids : RowStep(j)
    BY <1>5, <1>8, <1>9 DEF RowStep
  <2>2. \A j \in Saved' : project'[j] = project[j]
                          \/ (project'[j].ver <= writes' /\ project'[j].born <= writes')
    BY <1>5, <1>8, <1>9 DEF Saved
  <2>3. UNCHANGED seen /\ writes <= writes'
    BY <1>1 DEF Import
  <2>4. \A j \in Saved' : project'[j] \in Row
    BY <1>12 DEF ProjectsTypeOK, Saved
  <2> QED BY <1>1, <2>1, <2>2, <2>3, <2>4, ReadingsStep
<1> QED BY <1>6, <1>11, <1>12, <1>13, <1>14, <1>15

\* Deletions, folders, reads and the store's own steps.
LEMMA OtherStepsInv ==
  ASSUME ProjectsInv,
         \/ \E k \in Clients, i \in Ids : Load(k, i)
         \/ \E i \in Ids : DeleteProject(i)
         \/ \E c \in Places : CreateCategory(c)
         \/ \E c \in Categories, d \in Places : MoveCategory(c, d)
         \/ \E c \in Categories : DeleteCategory(c)
         \/ ArtifactStep
  PROVE  ProjectsInv'
<1> USE DEF ProjectsInv
<1>1. /\ seen \in [Clients -> Reading \cup {Null}]
      /\ parent \in [Categories -> Places \cup {Null}]
      /\ project \in [Ids -> Row \cup {Null}]
  BY DEF ProjectsTypeOK
<1>2. UNCHANGED <<project, parent>> => FoldersFormForest' /\ NothingOrphaned'
  BY DEF FoldersFormForest, NothingOrphaned, Folders, Exists, Saved
<1>3. UNCHANGED storeVars => StoreInv' /\ pins' = pins
  BY StoreNextInv DEF storeVars
<1>4. ASSUME NEW k \in Clients, NEW i \in Ids, Load(k, i) PROVE ProjectsInv'
  <2>1. /\ i \in Saved /\ seen' = [seen EXCEPT ![k] = Read(i, project[i])]
        /\ UNCHANGED <<storeVars, project, parent, writes>>
    BY <1>4 DEF Load
  <2>2. Read(i, project[i]) \in Reading
    BY <1>1, <2>1, ReadIsReading DEF Saved
  <2>3. \A m \in Clients : \/ seen'[m] = seen[m]
                           \/ \E j \in Saved : seen'[m] = Read(j, project[j])
    BY <1>1, <2>1
  <2> QED BY <1>1, <1>2, <1>3, <2>1, <2>2, <2>3, RowsStay
<1>5. ASSUME NEW i \in Ids, DeleteProject(i) PROVE ProjectsInv'
  <2>1. /\ DropPins({i}) /\ UNCHANGED <<parent, seen, writes>> /\ {i} \in SUBSET Ids
        /\ project' = [j \in Ids |-> IF j \in {i} THEN Null ELSE project[j]]
    BY <1>1, <1>5 DEF DeleteProject
  <2>2. FoldersFormForest' /\ NothingOrphaned'
    BY <2>1 DEF FoldersFormForest, NothingOrphaned, Folders, Exists, Saved
  <2> QED BY <1>1, <2>1, <2>2, RowsGone
<1>6. ASSUME NEW c \in Places, CreateCategory(c) PROVE ProjectsInv'
  <2>1. UNCHANGED <<storeVars, project, seen, writes>>
        /\ parent' \in [Categories -> Places \cup {Null}]
    BY <1>1, <1>6 DEF CreateCategory
  <2>2. FoldersFormForest' /\ NothingOrphaned'
    BY <1>6, CreateCategoryKeeps
  <2> QED BY <1>1, <1>3, <2>1, <2>2, RowsStay
<1>7. ASSUME NEW c \in Categories, NEW d \in Places, MoveCategory(c, d) PROVE ProjectsInv'
  <2>1. UNCHANGED <<storeVars, project, seen, writes>>
        /\ parent' \in [Categories -> Places \cup {Null}]
    BY <1>1, <1>7 DEF MoveCategory
  <2>2. FoldersFormForest' /\ NothingOrphaned'
    BY <1>7, MoveCategoryKeeps
  <2> QED BY <1>1, <1>3, <2>1, <2>2, RowsStay
<1>8. ASSUME NEW c \in Categories, DeleteCategory(c) PROVE ProjectsInv'
  <2> DEFINE S == {i \in Saved : project[i].category \in Subtree(c)}
  <2>1. /\ S \in SUBSET Ids /\ DropPins(S) /\ UNCHANGED <<seen, writes>>
        /\ project' = [i \in Ids |-> IF i \in S THEN Null ELSE project[i]]
    BY <1>8 DEF DeleteCategory, Saved
  <2>2. parent' \in [Categories -> Places \cup {Null}]
    BY <1>1, <1>8 DEF DeleteCategory
  <2>3. FoldersFormForest' /\ NothingOrphaned'
    BY <1>8, DeleteCategoryKeeps
  <2> HIDE DEF S
  <2> QED BY <2>1, <2>2, <2>3, RowsGone
<1>9. CASE ArtifactStep
  <2>1. StoreInv' /\ pins' = pins
    BY <1>9, ArtifactStepKeeps
  <2>2. UNCHANGED <<project, parent, seen, writes>>
    BY <1>9 DEF ArtifactStep, projectVars
  <2> QED BY <1>1, <1>2, <2>1, <2>2, RowsStay
<1> QED BY <1>4, <1>5, <1>6, <1>7, <1>8, <1>9

LEMMA ProjectsNextInv == ProjectsInv /\ [Next]_vars => ProjectsInv'
<1> SUFFICES ASSUME ProjectsInv, [Next]_vars PROVE ProjectsInv'
  OBVIOUS
<1>1. CASE UNCHANGED vars
  <2>1. UNCHANGED <<storeVars, pins, project, parent, seen, writes>>
    BY <1>1 DEF vars, projectVars, storeVars
  <2>2. StoreInv'
    BY <2>1, StoreNextInv DEF ProjectsInv
  <2>3. FoldersFormForest' /\ NothingOrphaned'
    BY <2>1 DEF ProjectsInv, FoldersFormForest, NothingOrphaned, Folders, Exists, Saved
  <2> QED BY <2>1, <2>2, <2>3, RowsStay DEF ProjectsInv, ProjectsTypeOK
<1>2. ASSUME NEW c \in Places, NEW depth \in 0..MaxCategories, NEW n \in 0..MaxProjects,
             NEW docs \in [1..n -> Canvases], Import(c, depth, docs)
      PROVE  ProjectsInv'
  BY <1>2, ImportInv
<1>3. ASSUME NEW k \in Clients,
             \/ \E c \in Places, d \in Canvases : Create(k, c, d)
             \/ \E c \in Places, d \in Canvases : Save(k, c, d)
             \/ \E c \in Places : Place(k, c)
      PROVE  ProjectsInv'
  BY <1>3, CreateInv, SaveInv, PlaceInv
<1> QED BY <1>1, <1>2, <1>3, OtherStepsInv DEF Next, ProjectStep

LEMMA ProjectsInitInv == ProjectsInit => ProjectsInv
<1> SUFFICES ASSUME ProjectsInit PROVE ProjectsInv
  OBVIOUS
<1>1. StoreInv /\ pins = {}
  BY StoreInitInv DEF ProjectsInit, StoreInit
<1>2. Saved = {} /\ Folders = {}
  BY DEF ProjectsInit, Saved, Folders
<1>3. ProjectsTypeOK
  BY <1>1 DEF ProjectsInit, ProjectsTypeOK, StoreInv
<1>4. FoldersFormForest /\ NothingOrphaned /\ PinsFollowDesigns
  BY <1>1, <1>2 DEF FoldersFormForest, NothingOrphaned, PinsFollowDesigns
<1>5. ReadingsInv
  BY <1>2 DEF ProjectsInit, ReadingsInv
<1> QED BY <1>1, <1>3, <1>4, <1>5 DEF ProjectsInv

\* Every reachable state is well typed and keeps the inductive invariant.
THEOREM ProjectsCorrect == Spec => []ProjectsInv
<1>1. ProjectsInit => ProjectsInv
  BY ProjectsInitInv
<1>2. ProjectsInv /\ [Next]_vars => ProjectsInv'
  BY ProjectsNextInv
<1> QED BY <1>1, <1>2, PTL DEF Spec

\* No series of folder creations, moves, imports, deletions and reused ids puts a
\* folder below itself.
THEOREM FoldersStayForest == Spec => []FoldersFormForest
<1>1. ProjectsInv => FoldersFormForest
  BY DEF ProjectsInv
<1> QED BY <1>1, ProjectsCorrect, PTL

\* No deletion leaves a folder or a project behind in a folder that is gone.
THEOREM NothingIsOrphaned == Spec => []NothingOrphaned
<1>1. ProjectsInv => NothingOrphaned
  BY DEF ProjectsInv
<1> QED BY <1>1, ProjectsCorrect, PTL

\* A project that gets the id of a deleted one gets none of its pins.
THEOREM PinsAlwaysFollow == Spec => []PinsFollowDesigns
<1>1. ProjectsInv => PinsFollowDesigns
  BY DEF ProjectsInv
<1> QED BY <1>1, ProjectsCorrect, PTL

\* No image of a saved project is ever reaped: it is pinned, what is pinned has its
\* row, and what has a row has its file.
THEOREM DesignsStayReadable == Spec => []DesignsReadable
<1>1. ASSUME ProjectsInv PROVE DesignsReadable
  <2>1. ASSUME NEW i \in Saved, NEW a \in Images(i) PROVE a \in rows \cap files
    <3>1. [owner |-> i, art |-> a, exp |-> Null] \in pins
      BY <1>1, <2>1, Places0 DEF ProjectsInv, PinsFollowDesigns, Pinning
    <3> QED BY <1>1, <3>1 DEF ProjectsInv, StoreInv, PinsHaveRows, RowsHaveFiles
  <2> QED BY <2>1 DEF DesignsReadable
<1> QED BY <1>1, ProjectsCorrect, PTL

-----------------------------------------------------------------------------
(* Saves.                                                                    *)

WritesWhatWasRead(i) ==
  Rewritten(i) =>
    \E k \in Clients : /\ seen[k] # Null /\ Writes(k, i)
                       /\ KnewLatest(k, i) \/ KnewPredecessor(k, i)

\* The client of an accepted save knows the revision of the project, hence its
\* contents, unless it read an earlier project of that id.
LEMMA AcceptedKnows ==
  ASSUME ProjectsInv, NEW k \in Clients, NEW r, Accepts(k), Replace(k, r),
         r.revision = project[seen[k].id].revision + 1, NEW i \in Ids
  PROVE  WritesWhatWasRead(i)
<1> USE DEF ProjectsInv
<1>1. /\ seen[k] # Null /\ seen[k].id \in Saved
      /\ seen[k].revision = project[seen[k].id].revision
  BY DEF Accepts
<1>2. /\ seen \in [Clients -> Reading \cup {Null}]
      /\ project \in [Ids -> Row \cup {Null}]
  BY DEF ProjectsTypeOK
<1>3. /\ project' = [project EXCEPT ![seen[k].id] = r]
      /\ seen'[k] = Read(seen[k].id, r)
  BY <1>2 DEF Replace
<1>4. CASE i # seen[k].id
  BY <1>2, <1>3, <1>4 DEF WritesWhatWasRead, Rewritten
<1>5. CASE i = seen[k].id
  <2>1. project'[i] = r
    BY <1>1, <1>2, <1>3, <1>5 DEF Saved
  <2>2. seen'[k].ver = r.ver /\ seen'[k].revision = r.revision
    BY <1>3 DEF Read
  <2>3. seen[k].revision \in Nat /\ project[i].revision \in Nat
    BY <1>1, <1>2, <1>5 DEF Reading
  <2>4. seen'[k] # seen[k]
    BY <1>1, <1>5, <2>2, <2>3
  <2>5. KnewLatest(k, i) \/ KnewPredecessor(k, i)
    <3>1. seen[k].born = project[i].born => KnewLatest(k, i)
      BY <1>1, <1>5 DEF ReadingsInv, ReadingOf, KnewLatest
    <3>2. seen[k].born \in Nat /\ project[i].born \in Nat /\ seen[k].born <= project[i].born
      BY <1>1, <1>2, <1>5, RowFields DEF ReadingsInv, Reading, Saved
    <3>3. seen[k].born = project[i].born \/ seen[k].born < project[i].born
      BY <3>2
    <3> QED BY <1>1, <1>5, <3>1, <3>3 DEF KnewPredecessor
  <2> QED BY <1>1, <1>5, <2>1, <2>2, <2>4, <2>5 DEF WritesWhatWasRead, Writes
<1> QED BY <1>4, <1>5

LEMMA NextWrites ==
  ASSUME ProjectsInv, [Next]_vars, NEW i \in Ids
  PROVE  WritesWhatWasRead(i)
<1> USE DEF ProjectsInv
<1>1. project \in [Ids -> Row \cup {Null}]
  BY DEF ProjectsTypeOK
<1>2. ASSUME NEW k \in Clients, NEW c \in Places, NEW d \in Canvases, Create(k, c, d)
      PROVE  WritesWhatWasRead(i)
  <2>1. PICK n \in Ids : Rowid(n, Saved)
                         /\ project' = [project EXCEPT ![n] = NewRow(c, d, writes + 1)]
    BY <1>2 DEF Create
  <2>2. project[n] = Null
    BY <2>1, Places0, ProjectsAssumption DEF Rowid, Saved, Ids
  <2> QED BY <1>1, <2>1, <2>2 DEF WritesWhatWasRead, Rewritten
<1>3. ASSUME NEW k \in Clients, \/ \E c \in Places, d \in Canvases : Save(k, c, d)
                                \/ \E c \in Places : Place(k, c)
      PROVE  WritesWhatWasRead(i)
  <2>1. /\ Accepts(k)
        /\ \/ \E c \in Places, d \in Canvases :
                Replace(k, Revised([project[seen[k].id] EXCEPT !.category = c, !.canvas = d]))
           \/ \E c \in Places : Replace(k, Revised([project[seen[k].id] EXCEPT !.category = c]))
    BY <1>3 DEF Save, Place
  <2>2. project[seen[k].id] \in Row
    BY <1>1, <2>1 DEF Accepts, Saved
  <2>3. PICK b \in Row : Replace(k, Revised(b)) /\ b.revision = project[seen[k].id].revision
    <3>1. ASSUME NEW c \in Places, NEW d \in Canvases
          PROVE  /\ [project[seen[k].id] EXCEPT !.category = c, !.canvas = d] \in Row
                 /\ [project[seen[k].id] EXCEPT !.category = c, !.canvas = d].revision
                      = project[seen[k].id].revision
      BY <2>2 DEF Row
    <3>2. ASSUME NEW c \in Places
          PROVE  /\ [project[seen[k].id] EXCEPT !.category = c] \in Row
                 /\ [project[seen[k].id] EXCEPT !.category = c].revision
                      = project[seen[k].id].revision
      BY <2>2 DEF Row
    <3> QED BY <2>1, <3>1, <3>2
  <2> QED BY <2>1, <2>3, RevisedIsRow, AcceptedKnows
<1>4. ASSUME NEW c \in Places, NEW depth \in 0..MaxCategories, NEW m \in 0..MaxProjects,
             NEW docs \in [1..m -> Canvases], Import(c, depth, docs)
      PROVE  WritesWhatWasRead(i)
  <2>1. PICK x \in 1..(MaxProjects + 1) : Rowid(x, Saved) /\ \A j \in Ids :
          j \in x..(x + Len(docs) - 1) \/ project'[j] = project[j]
    BY <1>4 DEF Import
  <2>2. \A j \in Saved : j < x /\ j \in Nat
    <3>1. Saved \subseteq Nat
      BY ProjectsAssumption DEF Saved, Ids
    <3>2. \A j \in Saved : j < x
      BY <2>1 DEF Rowid
    <3> QED BY <3>1, <3>2
  <2>3. i \in Saved => project'[i] = project[i]
    <3>1. x \in Nat /\ i \in Nat
      BY ProjectsAssumption DEF Ids
    <3>2. i \in x..(x + Len(docs) - 1) => x <= i
      BY <3>1
    <3> QED BY <2>1, <2>2, <3>1, <3>2
  <2> QED BY <2>3 DEF WritesWhatWasRead, Rewritten, Saved
<1>5. CASE UNCHANGED project
  BY <1>5 DEF WritesWhatWasRead, Rewritten
<1>6. CASE project'[i] = Null
  BY <1>6 DEF WritesWhatWasRead, Rewritten
<1>7. CASE project'[i] = project[i]
  BY <1>7 DEF WritesWhatWasRead, Rewritten
<1>8. ASSUME NEW j \in Ids, DeleteProject(j) PROVE project'[i] \in {Null, project[i]}
  BY <1>1, <1>8 DEF DeleteProject
<1>9. ASSUME NEW c \in Categories, DeleteCategory(c) PROVE project'[i] \in {Null, project[i]}
  BY <1>1, <1>9 DEF DeleteCategory
<1>10. ASSUME \/ \E k \in Clients, j \in Ids : Load(k, j)
              \/ \E c \in Places : CreateCategory(c)
              \/ \E c \in Categories, d \in Places : MoveCategory(c, d)
              \/ ArtifactStep \/ UNCHANGED vars
       PROVE  UNCHANGED project
  BY <1>10 DEF Load, CreateCategory, MoveCategory, ArtifactStep, projectVars, vars
<1> QED BY <1>2, <1>3, <1>4, <1>5, <1>6, <1>7, <1>8, <1>9, <1>10 DEF Next, ProjectStep

\* A save overwrites what its client has not read only where a reused id hides it: the
\* client read an earlier project of that id, at the revision the present one has.
THEOREM EditsAreLostOnlyToReusedIds == Spec => OnlyReusedIdsLoseEdits
<1>1. ProjectsInv /\ [Next]_vars
        => [\A i \in Ids : Rewritten(i) =>
              \E k \in Clients : /\ seen[k] # Null /\ Writes(k, i)
                                 /\ KnewLatest(k, i) \/ KnewPredecessor(k, i)]_vars
  BY NextWrites DEF WritesWhatWasRead
<1> QED BY <1>1, ProjectsCorrect, PTL DEF Spec, OnlyReusedIdsLoseEdits
=============================================================================
