----------------------------- MODULE NLUniverse -----------------------------
(***************************************************************************)
(* The ownership tree of src/src/nl/netlist/core: the universe owns        *)
(* databases, a database owns root libraries, a library owns libraries and *)
(* designs.  Each owner keeps its objects by ID and maps names to IDs; a   *)
(* database also registers the nested libraries.  Lookups by name go       *)
(* through the map and then through the IDs.                               *)
(*                                                                         *)
(* Objects are elements of pools, which bound how many are ever created.   *)
(* An instance of a primitive is the pair of its design and its model: all *)
(* that its destruction looks at.  Designs have no names here: the map of  *)
(* their owner is kept by the same OWNER_RENAME.                           *)
(***************************************************************************)
EXTENDS Integers, FiniteSetsExt, Functions

CONSTANTS
  DBs, DB0,        \* The databases; DB0 is made with the universe.
  Libraries, Designs,
  RootNames, NestedNames,  \* Names given to libraries of a database, of a library.
  NoName,          \* The empty name.
  None,
  DBIDs,           \* The number of values of NLID::DBID.
  GivenDBIDs,      \* The IDs clients choose for a database.
  MaxInstances,    \* Bound on the number of instances.
  Habits           \* What clients do although the code does not cope with it.

(* Clients renumber a database to an ID in use, renumber or destroy DB0,   *)
(* use primitives of other databases than their own and DB0, destroy       *)
(* primitives that have instances.                                         *)
AllHabits == {"takenID", "touchDB0", "foreignModel", "destroyModel"}

VARIABLES
  universe,        \* NLUniverse::universe_ is set.
  dbs,             \* NLUniverse::dbs_, by ID.
  db,              \* The live databases.
  lib,             \* The live libraries.
  design,          \* The live designs.
  instances,       \* The live instances.
  made,            \* The objects created so far.
  failed           \* What went wrong: a failed assert, a read of a dead model.

vars == <<universe, dbs, db, lib, design, instances, made, failed>>

ASSUME UniverseAssumption ==
  /\ DB0 \in DBs
  /\ NoName \notin RootNames \cup NestedNames
  /\ None \notin DBs \cup Libraries \cup Designs
  /\ DBs \cap (Libraries \cup Designs) = {} /\ Libraries \cap Designs = {}
  /\ DBIDs \in Nat \ {0} /\ GivenDBIDs \subseteq 0 .. DBIDs - 1
  /\ Habits \subseteq AllHabits

(***************************************************************************)
(* Maps.                                                                   *)
(***************************************************************************)
Without(f, S) == [x \in DOMAIN f \ S |-> f[x]]

(* insert() of a set or a map: an entry that is there stays. *)
Insert(f, k, v) == [x \in DOMAIN f \cup {k} |-> IF x \in DOMAIN f THEN f[x] ELSE v]

Assign(f, k, v) == [x \in DOMAIN f \cup {k} |-> IF x = k THEN v ELSE f[x]]

NextID(f) == IF DOMAIN f = {} THEN 0 ELSE Max(DOMAIN f) + 1

(* A lookup by name: the map, then the IDs. *)
Find(names, objects, name) ==
  IF name \in DOMAIN names /\ names[name] \in DOMAIN objects THEN objects[names[name]] ELSE None

Free(names, objects, name) == name = NoName \/ Find(names, objects, name) = None

(* Mutant: an object that had no name gets no entry. *)
MutRename(names, id, previous, name) ==
  IF previous = NoName THEN names
  ELSE IF name = NoName THEN Without(names, {previous})
  ELSE Insert(Without(names, {previous}), name, names[previous])

(* OWNER_RENAME: the entry of the previous name moves to the new one. *)
Rename(names, id, previous, name) ==
  IF previous = NoName THEN (IF name = NoName THEN names ELSE Assign(names, name, id))
  ELSE IF name = NoName THEN Without(names, {previous})
  ELSE Insert(Without(names, {previous}), name, names[previous])

RenameAsserts(names, previous) == previous = NoName \/ previous \in DOMAIN names

AddName(names, name, id) == IF name = NoName THEN names ELSE Assign(names, name, id)

(***************************************************************************)
(* The tree.                                                               *)
(***************************************************************************)
Root(l) == lib[l].owner \in DBs

(* Library k and those it is nested in. *)
Above(k) ==
  {l \in DOMAIN lib : \A S \in SUBSET DOMAIN lib :
     k \in S /\ (\A x \in S : Root(x) \/ lib[x].owner \in S) => l \in S}

getDB(k) == lib[CHOOSE l \in Above(k) : Root(l)].owner

(* Library l and those below it: all that commonPreDestroy() reaches. *)
Under(l) ==
  {k \in DOMAIN lib : \A S \in SUBSET DOMAIN lib :
     l \in S /\ (\A x \in S : Range(lib[x].libraries) \subseteq S) => k \in S}

(* The libraries a database destroys: nested ones are left to their parents. *)
Owned(d) == UNION {Under(l) : l \in {k \in Range(db[d].libraries) : Root(k)}}

DesignsOf(libs) == UNION {Range(lib[l].designs) : l \in libs}

(***************************************************************************)
(* The order in which a teardown destroys designs.                         *)
(***************************************************************************)

(* NLUniverse::preDestroy: the first database goes last. *)
DBBefore(d, e) ==
  LET first == dbs[Min(DOMAIN dbs)]
  IN  d # first /\ (e = first \/ db[d].id < db[e].id)

(* Mutant: the root libraries are destroyed in the order of their IDs. *)
MutRootBefore(k, l) ==
  IF lib[k].owner # lib[l].owner THEN DBBefore(lib[k].owner, lib[l].owner)
  ELSE lib[k].id < lib[l].id

(* NLDB::commonPreDrestroy: standard libraries go first. *)
RootBefore(k, l) ==
  IF lib[k].owner # lib[l].owner THEN DBBefore(lib[k].owner, lib[l].owner)
  ELSE IF lib[k].type = lib[l].type THEN lib[k].id < lib[l].id
  ELSE lib[k].type = "Standard"

(* Libraries of one owner. *)
SiblingBefore(k, l) ==
  \/ Root(k) /\ Root(l) /\ RootBefore(k, l)
  \/ ~Root(k) /\ lib[k].owner = lib[l].owner /\ lib[k].id < lib[l].id

(* NLLibrary::commonPreDestroy: designs by ID, before the libraries below. *)
DesignBefore(x, y) ==
  LET k == design[x].library
      l == design[y].library
  IN  IF k = l THEN design[x].id < design[y].id
      ELSE k \in Above(l) \/ \E a \in Above(k), b \in Above(l) : SiblingBefore(a, b)

(* The destruction of an instance with its design reads its model, which   *)
(* went in an earlier call or earlier in this one.                         *)
ReadsDead(gone) ==
  \E i \in instances :
    /\ i.design \in gone
    /\ \/ i.model \notin DOMAIN design
       \/ i.model \in gone /\ DesignBefore(i.model, i.design)

DestroyDesigns(gone) ==
  /\ UNCHANGED made
  /\ design' = Without(design, gone)
  /\ instances' = {i \in instances : i.design \notin gone}
  /\ failed' = IF ReadsDead(gone) THEN failed \cup {"dead model"} ELSE failed

(***************************************************************************)
(* Databases.                                                              *)
(***************************************************************************)
NewDB(id) == [id |-> id, libraries |-> <<>>, names |-> <<>>]

Init ==
  /\ universe = TRUE
  /\ dbs = [id \in {0} |-> DB0]
  /\ db = [d \in {DB0} |-> NewDB(0)]
  /\ lib = <<>> /\ design = <<>> /\ instances = {} /\ made = {DB0} /\ failed = {}

AddDB(d, id) ==
  /\ dbs' = Insert(dbs, id, d)
  /\ db' = Assign(db, d, NewDB(id))
  /\ made' = made \cup {d}
  /\ UNCHANGED <<universe, lib, design, instances, failed>>

CreateDB(d) ==
  /\ universe /\ d \in DBs \ made
  /\ AddDB(d, NextID(dbs) % DBIDs)

CreateDBWithID(d, id) ==
  /\ universe /\ d \in DBs \ made
  /\ id \notin DOMAIN dbs
  /\ AddDB(d, id)

(* NLDB::setID() tests nothing: the database that has the old ID is taken  *)
(* out, and the insertion under an ID in use does nothing.                 *)
SetDBID(d, id) ==
  /\ universe /\ d \in DOMAIN db
  /\ d # DB0 \/ "touchDB0" \in Habits
  /\ id \notin DOMAIN dbs \/ "takenID" \in Habits
  /\ dbs' = Insert(Without(dbs, {db[d].id}), id, d)
  /\ db' = [db EXCEPT ![d].id = id]
  /\ UNCHANGED <<universe, lib, design, instances, made, failed>>

(* NLDB::destroy(). *)
DestroyDB(d) ==
  /\ universe /\ d \in DOMAIN db
  /\ d # DB0 \/ "touchDB0" \in Habits
  /\ DestroyDesigns(DesignsOf(Owned(d)))
  /\ lib' = Without(lib, Owned(d))
  /\ db' = Without(db, {d})
  /\ dbs' = Without(dbs, {db[d].id})
  /\ UNCHANGED universe

DestroyUniverse ==
  /\ universe /\ universe' = FALSE
  /\ LET gone == UNION {Owned(d) : d \in Range(dbs)}
     IN  DestroyDesigns(DesignsOf(gone)) /\ lib' = Without(lib, gone)
  /\ db' = Without(db, Range(dbs))
  /\ dbs' = <<>>

(***************************************************************************)
(* Libraries.                                                              *)
(***************************************************************************)
NewLibrary(owner, type, id, name) ==
  [owner |-> owner, type |-> type, id |-> id, name |-> name, libraries |-> <<>>, names |-> <<>>,
   designs |-> <<>>]

(* NLDB::addLibraryAndSetID: every library of the database is registered,  *)
(* nested or not, and its name even when it is empty.                      *)
Register(d, l, name) ==
  LET id == NextID(db[d].libraries)
  IN  db' = [db EXCEPT ![d].libraries = Insert(@, id, l), ![d].names = Assign(@, name, id)]

CreateRootLibrary(l, d, type, name) ==
  /\ universe /\ l \notin made /\ d \in DOMAIN db
  /\ Free(db[d].names, db[d].libraries, name)
  /\ Register(d, l, name)
  /\ lib' = Assign(lib, l, NewLibrary(d, type, NextID(db[d].libraries), name))
  /\ made' = made \cup {l}
  /\ UNCHANGED <<universe, dbs, design, instances, failed>>

CreateNestedLibrary(l, p, name) ==
  /\ universe /\ l \notin made /\ p \in DOMAIN lib
  /\ Free(lib[p].names, lib[p].libraries, name)
  /\ Register(getDB(p), l, name)
  /\ LET id == NextID(db[getDB(p)].libraries)
     IN  lib' = Assign([lib EXCEPT ![p].libraries = Insert(@, id, l),
                                   ![p].names = AddName(@, name, id)],
                       l, NewLibrary(p, lib[p].type, id, name))
  /\ made' = made \cup {l}
  /\ UNCHANGED <<universe, dbs, design, instances, failed>>

(* Mutant: the nested libraries stay registered. *)
MutUnregister(d, gone) ==
  db' = [db EXCEPT ![d].libraries = Without(@, {lib[l].id : l \in {k \in gone : Root(k)}}),
                   ![d].names = Without(@, {lib[l].name : l \in {k \in gone : Root(k)}})]

(* NLDB::removeLibrary for each library that goes. *)
Unregister(d, gone) ==
  db' = [db EXCEPT ![d].libraries = Without(@, {lib[l].id : l \in gone}),
                   ![d].names = Without(@, {lib[l].name : l \in gone})]

(* Destroying primitives reaches none of their instances. *)
MayDestroy(gone) == "destroyModel" \in Habits \/ \A i \in instances : i.model \notin gone

DestroyLibrary(l) ==
  /\ universe /\ l \in DOMAIN lib
  /\ MayDestroy(DesignsOf(Under(l)))
  /\ DestroyDesigns(DesignsOf(Under(l)))
  /\ Unregister(getDB(l), Under(l))
  /\ LET p == lib[l].owner
         rest == IF Root(l) THEN lib
                 ELSE [lib EXCEPT ![p].libraries = Without(@, {lib[l].id}),
                                  ![p].names = Without(@, {lib[l].name} \ {NoName})]
     IN  lib' = Without(rest, Under(l))
  /\ UNCHANGED <<universe, dbs>>

(* Only the map of the owner follows. *)
SetLibraryName(l, name) ==
  /\ universe /\ l \in DOMAIN lib /\ lib[l].name # name
  /\ LET p == lib[l].owner
         owner == IF Root(l) THEN db[p] ELSE lib[p]
         names == Rename(owner.names, lib[l].id, lib[l].name, name)
     IN  /\ Free(owner.names, owner.libraries, name)
         /\ IF ~RenameAsserts(owner.names, lib[l].name)
            THEN failed' = failed \cup {"assert"} /\ UNCHANGED <<db, lib>>
            ELSE /\ lib' = IF Root(l) THEN [lib EXCEPT ![l].name = name]
                           ELSE [lib EXCEPT ![l].name = name, ![p].names = names]
                 /\ db' = IF Root(l) THEN [db EXCEPT ![p].names = names] ELSE db
                 /\ UNCHANGED failed
  /\ UNCHANGED <<universe, dbs, design, instances, made>>

(***************************************************************************)
(* Designs and instances.                                                  *)
(***************************************************************************)
CreateDesign(d, l) ==
  /\ universe /\ d \notin made /\ l \in DOMAIN lib
  /\ LET id == NextID(lib[l].designs)
     IN  /\ design' = Assign(design, d, [library |-> l, id |-> id,
                                         primitive |-> lib[l].type = "Primitives"])
         /\ lib' = [lib EXCEPT ![l].designs = Insert(@, id, d)]
  /\ made' = made \cup {d}
  /\ UNCHANGED <<universe, dbs, db, instances, failed>>

DestroyDesign(d) ==
  /\ universe /\ d \in DOMAIN design
  /\ MayDestroy({d})
  /\ DestroyDesigns({d})
  /\ lib' = [lib EXCEPT ![design[d].library].designs = Without(@, {design[d].id})]
  /\ UNCHANGED <<universe, dbs, db>>

(* Instances of designs that are no primitives are in SNLNetlist. *)
CreateInstance(d, m) ==
  /\ universe /\ {d, m} \subseteq DOMAIN design
  /\ ~design[d].primitive /\ design[m].primitive
  /\ Cardinality(instances) < MaxInstances
  /\ "foreignModel" \in Habits
       \/ getDB(design[m].library) \in {DB0, getDB(design[d].library)}
  /\ instances' = instances \cup {[design |-> d, model |-> m]}
  /\ UNCHANGED <<universe, dbs, db, lib, design, made, failed>>

Next ==
  \/ \E d \in DBs : CreateDB(d) \/ DestroyDB(d)
  \/ \E d \in DBs, id \in GivenDBIDs : CreateDBWithID(d, id) \/ SetDBID(d, id)
  \/ DestroyUniverse
  \/ \E l \in Libraries : DestroyLibrary(l)
  \/ \E l \in Libraries, d \in DBs, name \in RootNames \cup {NoName} :
       \E type \in {"Standard", "Primitives"} : CreateRootLibrary(l, d, type, name)
  \/ \E l, p \in Libraries, name \in NestedNames \cup {NoName} : CreateNestedLibrary(l, p, name)
  \/ \E l \in Libraries :
       \E name \in {NoName} \cup IF l \in DOMAIN lib /\ Root(l) THEN RootNames ELSE NestedNames :
         SetLibraryName(l, name)
  \/ \E d \in Designs : DestroyDesign(d) \/ \E l \in Libraries : CreateDesign(d, l)
  \/ \E d, m \in Designs : CreateInstance(d, m)

Spec == Init /\ [][Next]_vars

(***************************************************************************)
(* Properties.                                                             *)
(***************************************************************************)
Entries(f) == {<<k, f[k]>> : k \in DOMAIN f}

(* The registers hold the live objects, all of them, once, under their     *)
(* IDs, whatever was created with and without an ID, renumbered or         *)
(* destroyed with its owner: the databases of the universe, the libraries  *)
(* of a database, nested ones included (NLDB::getGlobalLibraries), those   *)
(* of a library and its designs; nothing outlives its owner.               *)
RegistryExact ==
  /\ Entries(dbs) = {<<db[d].id, d>> : d \in DOMAIN db}
  /\ \A l \in DOMAIN lib : lib[l].owner \in DOMAIN db \cup DOMAIN lib
  /\ \A d \in DOMAIN design : design[d].library \in DOMAIN lib
  /\ \A d \in DOMAIN db :
       Entries(db[d].libraries) =
         {<<lib[l].id, l>> : l \in {k \in DOMAIN lib : getDB(k) = d}}
  /\ \A l \in DOMAIN lib :
       /\ Entries(lib[l].libraries) =
            {<<lib[k].id, k>> : k \in {k \in DOMAIN lib : lib[k].owner = l}}
       /\ Entries(lib[l].designs) =
            {<<design[d].id, d>> : d \in {d \in DOMAIN design : design[d].library = l}}

(* An object that has a name is what its owner finds under that name, and  *)
(* the owner finds nothing else: "the unique NLLibrary in this NLDB with   *)
(* NLName:name" (NLDB.h), "child NLLibrary named name" (NLLibrary.h); a    *)
(* rename finds the entry it has to move.                                  *)
LookupsFind ==
  /\ "assert" \notin failed
  /\ \A d \in DOMAIN db, name \in RootNames : \A l \in DOMAIN lib :
       (lib[l].owner = d /\ lib[l].name = name) <=> Find(db[d].names, db[d].libraries, name) = l
  /\ \A p \in DOMAIN lib, name \in NestedNames : \A l \in DOMAIN lib :
       (lib[l].owner = p /\ lib[l].name = name) <=> Find(lib[p].names, lib[p].libraries, name) = l

(* "the collection of all NLDB" (NLUniverse.h): every database is found    *)
(* under its ID until it is destroyed or the universe is.                  *)
DBsRegistered ==
  universe => \A d \in DOMAIN db : db[d].id \in DOMAIN dbs /\ dbs[db[d].id] = d

(* "Make sure that the last destroyed DB is DB0" (NLUniverse::preDestroy). *)
DB0GoesLast == DB0 \in Range(dbs) => \A d \in Range(dbs) \ {DB0} : DBBefore(d, DB0)

(* No teardown, of a database or of the universe, destroys a primitive     *)
(* before an instance of it, whose destruction asks the model whether it   *)
(* is a primitive (SNLInstance::destroyFromDesign).                        *)
ModelsOutliveInstances == "dead model" \notin failed
=============================================================================
