--------------------------- MODULE NajaProperties ---------------------------
(***************************************************************************)
(* The property mechanism of naja's core library (src/core): every         *)
(* NajaObject owns a map from property names to NajaProperty pointers, and *)
(* the properties point back at the objects that hold them.  Four kinds of *)
(* property exist and differ only in their hooks:                          *)
(*   "private"   NajaPrivateProperty (NajaDumpableProperty), one owner;    *)
(*   "shared"    NajaSharedProperty, a group that dies with its last       *)
(*               member;                                                   *)
(*   "relation"  NajaRelationProperty, an owner and its members, dies with *)
(*               the owner;                                                *)
(*   "python"    NajaPythonProperty, the proxy that ties an object to its  *)
(*               Python wrapper and clears the wrapper's pointer.          *)
(* All pointers are raw, so what matters is that the two directions agree  *)
(* after every call, whatever cascade of onReleasedBy()/destroy() the call *)
(* sets off.                                                               *)
(***************************************************************************)

CONSTANTS
  Object,            \* addresses at which NajaObjects are built
  Prop,              \* addresses at which NajaProperties are built
  PropName,          \* property names
  KindOf,            \* the class of the property built at an address
  NameOf,            \* the name of the property built at an address
  NoObject, NoProp,  \* null pointers
  NoWrapper,         \* no Python wrapper exists for a proxy
  LeavesForeign      \* clients leave() a group the object is not in

Kind == {"private", "shared", "relation", "python"}

ASSUME ConstantsAssumption ==
  /\ KindOf \in [Prop -> Kind]
  /\ NameOf \in [Prop -> PropName]
  /\ NoObject \notin Object
  /\ NoProp \notin Prop
  /\ NoWrapper \notin Object \cup {NoObject}
  /\ LeavesForeign \in BOOLEAN

(* NajaPythonProperty::name_ is reserved: no other class uses that name. *)
ASSUME PythonNameAssumption ==
  \A p, q \in Prop :
    NameOf[p] = NameOf[q] /\ KindOf[p] = "python" => KindOf[q] = "python"

VARIABLES
  objects,     \* the NajaObjects that exist
  live,        \* the NajaProperties that exist
  properties,  \* NajaObject::properties_
  owner,       \* owner_ of private, relation and python properties
  members,     \* members_ of shared and relation properties
  shadow,      \* ACCESS_OBJECT of the Python wrapper of a proxy
  aborted      \* an assert() failed

vars == <<objects, live, properties, owner, members, shadow, aborted>>

-----------------------------------------------------------------------------
(* The entry of o under p's name: getProperty(p->getName()). *)
Entry(o, p) == properties[o][NameOf[p]]

(* removeProperty() erases by name, whatever property the entry holds. *)
Erase(entries) ==
  [o \in Object |-> [n \in PropName |->
     IF <<o, n>> \in entries THEN NoProp ELSE properties[o][n]]]

(* Mutant: the relation survives its owner. *)
MutDiesRelation(o, q) ==
  \/ owner[q] = o /\ KindOf[q] # "relation"
  \/ KindOf[q] = "shared" /\ members[q] \ {o} = {}

(* Mutant: the group survives its last member. *)
MutDiesShared(o, q) == owner[q] = o

(* onReleasedBy(o): the owner's release destroys the property, a group     *)
(* is destroyed when o was its last member.                                *)
Dies(o, q) ==
  \/ owner[q] = o
  \/ KindOf[q] = "shared" /\ members[q] \ {o} = {}

Dying(o, Q) == {q \in Q : Dies(o, q)}

(* Mutant: preDestroy() detaches nobody. *)
MutCutEntries(o, Q) == {}

(* The map entries the preDestroy() of the dying properties removes from   *)
(* the objects other than o.                                               *)
CutEntries(o, Q) ==
  UNION {{<<m, NameOf[q]>> : m \in members[q] \ {o}} : q \in Dying(o, Q)}

(* removeProperty() asserts that the entry exists. *)
AllPresent(entries) == \A e \in entries : properties[e[1]][e[2]] # NoProp

(* Mutant: members_.erase(object) is missing. *)
MutMembersReleased(o, Q) ==
  [q \in Prop |-> IF q \in Dying(o, Q) THEN {} ELSE members[q]]

(* members_ and owner_ after o released the properties of Q. *)
MembersReleased(o, Q) ==
  [q \in Prop |-> CASE q \in Dying(o, Q)     -> {}
                    [] q \in Q \ Dying(o, Q) -> members[q] \ {o}
                    [] OTHER                 -> members[q]]

OwnersReleased(o, Q) ==
  [q \in Prop |-> IF q \in Dying(o, Q) THEN NoObject ELSE owner[q]]

(* Mutant: the wrapper's pointer is left as it is. *)
MutShadowReleased(o, Q) == shadow

(* NajaPythonProperty::preDestroy() nulls the pointer of the wrapper. *)
ShadowReleased(o, Q) ==
  [q \in Prop |-> IF q \in Dying(o, Q) /\ shadow[q] # NoWrapper
                    THEN NoObject ELSE shadow[q]]

(* onCapturedBy(o). *)
CapturedOwner(o, p) ==
  IF KindOf[p] = "shared" \/ owner[p] # NoObject THEN owner[p] ELSE o

CapturedMembers(o, p) ==
  IF KindOf[p] = "shared" \/ (KindOf[p] = "relation" /\ CapturedOwner(o, p) # o)
    THEN members[p] \cup {o} ELSE members[p]

(* A failed assert() ends the process: nothing runs after it. *)
Running == ~aborted

Abort ==
  /\ aborted' = TRUE
  /\ UNCHANGED <<objects, live, properties, owner, members, shadow>>

(* NajaObject::put(): the entry of the same name is erased and released,   *)
(* then p is added.  A private property destroyed by that release erases   *)
(* its own entry a second time and trips the assert of removeProperty().   *)
Put(o, p) ==
  LET Q == {Entry(o, p)} \ {NoProp}
  IN  IF (\E q \in Q : KindOf[q] = "private") \/ ~AllPresent(CutEntries(o, Q))
        THEN Abort
        ELSE /\ properties' = [Erase(CutEntries(o, Q)) EXCEPT ![o][NameOf[p]] = p]
             /\ live' = (live \ Dying(o, Q)) \cup {p}
             /\ owner' = [OwnersReleased(o, Q) EXCEPT ![p] = CapturedOwner(o, p)]
             /\ members' = [MembersReleased(o, Q) EXCEPT ![p] = CapturedMembers(o, p)]
             /\ UNCHANGED <<objects, aborted>>

(* NajaObject::remove(): erases the entry of p's name, whichever property  *)
(* it holds, and releases p.                                               *)
Remove(o, p) ==
  IF KindOf[p] = "private" \/ ~AllPresent(CutEntries(o, {p}))
    THEN Abort
    ELSE /\ properties' = Erase(CutEntries(o, {p}) \cup {<<o, NameOf[p]>>})
         /\ live' = live \ Dying(o, {p})
         /\ owner' = OwnersReleased(o, {p})
         /\ members' = MembersReleased(o, {p})
         /\ UNCHANGED <<objects, aborted>>

-----------------------------------------------------------------------------
Init ==
  /\ objects = {}
  /\ live = {}
  /\ properties = [o \in Object |-> [n \in PropName |-> NoProp]]
  /\ owner = [p \in Prop |-> NoObject]
  /\ members = [p \in Prop |-> {}]
  /\ shadow = [p \in Prop |-> NoWrapper]
  /\ aborted = FALSE

CreateObject(o) ==
  /\ Running /\ o \notin objects
  /\ objects' = objects \cup {o}
  /\ UNCHANGED <<live, properties, owner, members, shadow, aborted>>

(* NajaObject::destroy(): preDestroy() releases every property, then the   *)
(* object and its map are gone.                                            *)
DestroyObject(o) ==
  LET Q == {properties[o][n] : n \in PropName} \ {NoProp}
  IN  /\ Running /\ o \in objects
      /\ IF ~AllPresent(CutEntries(o, Q))
           THEN Abort
           ELSE /\ objects' = objects \ {o}
                /\ properties' = Erase(CutEntries(o, Q) \cup ({o} \X PropName))
                /\ live' = live \ Dying(o, Q)
                /\ owner' = OwnersReleased(o, Q)
                /\ members' = MembersReleased(o, Q)
                /\ shadow' = ShadowReleased(o, Q)
                /\ UNCHANGED aborted

(* Mutant: preCreate() does not look for a property of the same name. *)
MutCreatePrivate(o, p) ==
  /\ Running /\ o \in objects /\ p \notin live /\ KindOf[p] = "private"
  /\ properties' = [properties EXCEPT ![o][NameOf[p]] = p]
  /\ live' = live \cup {p}
  /\ owner' = [owner EXCEPT ![p] = o]
  /\ UNCHANGED <<objects, members, shadow, aborted>>

(* NajaDumpableProperty::create(): throws when the name is taken. *)
CreatePrivate(o, p) ==
  /\ Running /\ o \in objects /\ p \notin live /\ KindOf[p] = "private"
  /\ Entry(o, p) = NoProp
  /\ properties' = [properties EXCEPT ![o][NameOf[p]] = p]
  /\ live' = live \cup {p}
  /\ owner' = [owner EXCEPT ![p] = o]
  /\ UNCHANGED <<objects, members, shadow, aborted>>

CreateShared(p) ==
  /\ Running /\ p \notin live /\ KindOf[p] = "shared"
  /\ live' = live \cup {p}
  /\ UNCHANGED <<objects, properties, owner, members, shadow, aborted>>

CreateRelation(o, p) ==
  /\ Running /\ o \in objects /\ p \notin live /\ KindOf[p] = "relation"
  /\ Put(o, p)
  /\ UNCHANGED shadow

Join(p, o) ==
  /\ Running /\ o \in objects /\ p \in live /\ KindOf[p] \in {"shared", "relation"}
  /\ Entry(o, p) # p
  /\ Put(o, p)
  /\ UNCHANGED shadow

(* leave(): throws for the owner of a relation, does nothing when the      *)
(* object has no property of that name.                                    *)
Leave(p, o) ==
  /\ Running /\ o \in objects /\ p \in live /\ KindOf[p] \in {"shared", "relation"}
  /\ owner[p] # o
  /\ Entry(o, p) # NoProp
  /\ LeavesForeign \/ Entry(o, p) = p
  /\ Remove(o, p)
  /\ UNCHANGED shadow

(* NajaProperty::destroy() called by a client on the property itself.  A   *)
(* relation leaves its owner's map only if the entry is its own; the other *)
(* removals assert that an entry of that name exists.                      *)
DestroyProperty(p) ==
  LET owners  == {o \in {owner[p]} \ {NoObject} :
                    KindOf[p] = "relation" => Entry(o, p) = p}
      entries == {<<h, NameOf[p]>> : h \in members[p] \cup owners}
  IN  /\ Running /\ p \in live /\ KindOf[p] # "python"
      /\ IF ~AllPresent(entries)
           THEN Abort
           ELSE /\ properties' = Erase(entries)
                /\ live' = live \ {p}
                /\ owner' = [owner EXCEPT ![p] = NoObject]
                /\ members' = [members EXCEPT ![p] = {}]
                /\ UNCHANGED <<objects, shadow, aborted>>

(* Py<Type>_Link: the first time an object is handed to Python a wrapper   *)
(* and its proxy are made.                                                 *)
Link(o, p) ==
  /\ Running /\ o \in objects /\ p \notin live /\ KindOf[p] = "python"
  /\ shadow[p] = NoWrapper
  /\ Entry(o, p) = NoProp
  /\ Put(o, p)
  /\ shadow' = [shadow EXCEPT ![p] = o]

(* Py<Type>_DeAlloc: the wrapper's last reference is dropped. *)
DeAlloc(p) ==
  /\ Running /\ shadow[p] # NoWrapper
  /\ IF shadow[p] = NoObject
       THEN UNCHANGED <<objects, live, properties, owner, members, aborted>>
       ELSE Remove(shadow[p], p)
  /\ shadow' = [shadow EXCEPT ![p] = NoWrapper]

Next ==
  \/ \E o \in Object : CreateObject(o) \/ DestroyObject(o)
  \/ \E p \in Prop : CreateShared(p) \/ DestroyProperty(p) \/ DeAlloc(p)
  \/ \E o \in Object, p \in Prop :
       \/ CreatePrivate(o, p)
       \/ CreateRelation(o, p)
       \/ Join(p, o)
       \/ Leave(p, o)
       \/ Link(o, p)

Spec == Init /\ [][Next]_vars

-----------------------------------------------------------------------------
TypeOK ==
  /\ objects \subseteq Object
  /\ live \subseteq Prop
  /\ properties \in [Object -> [PropName -> Prop \cup {NoProp}]]
  /\ owner \in [Prop -> Object \cup {NoObject}]
  /\ members \in [Prop -> SUBSET Object]
  /\ shadow \in [Prop -> Object \cup {NoObject, NoWrapper}]
  /\ aborted \in BOOLEAN

(* The two directions of attachment agree: an object's map names a         *)
(* property exactly when the property counts that object as its owner or   *)
(* as a member, through every cascade of onReleasedBy() and destroy().     *)
Coherent ==
  \A o \in Object, p \in Prop :
    (Entry(o, p) = p) <=> (owner[p] = o \/ o \in members[p])

(* No raw pointer dangles: maps hold existing properties under their own   *)
(* name, and owners and members are existing objects (NajaObject.cpp,      *)
(* preDestroy() of the three property classes).                            *)
NoDangling ==
  /\ \A o \in Object, n \in PropName :
       properties[o][n] # NoProp =>
         o \in objects /\ properties[o][n] \in live /\ NameOf[properties[o][n]] = n
  /\ \A p \in Prop : owner[p] # NoObject => p \in live /\ owner[p] \in objects
  /\ \A p \in Prop : members[p] # {} => p \in live /\ members[p] \subseteq objects

(* A relation dies with its owner and a private property or proxy never    *)
(* outlives the object it is attached to (NajaRelationProperty.h: "The     *)
(* relation dies with owner").                                             *)
DiesWithOwner ==
  \A p \in live : KindOf[p] # "shared" => owner[p] \in objects

(* join() replaces "any property of the same name" (NajaSharedProperty.h,   *)
(* NajaRelationProperty.h): no call fails the assert of removeProperty().  *)
NoAbort == ~aborted

(* The one call that fails an assert is a put() over a private property:   *)
(* no leave, destroy or wrapper deallocation, whatever the sequence before *)
(* it, asks an object to drop an entry it does not have.                   *)
AbortsOnlyOverPrivate ==
  [][aborted' /\ ~aborted =>
       \E o \in Object, p \in Prop :
         /\ CreateRelation(o, p) \/ Join(p, o)
         /\ Entry(o, p) \in Prop /\ KindOf[Entry(o, p)] = "private"]_vars

(* A Python wrapper whose pointer is set wraps an existing object that     *)
(* still holds the proxy; destroying the object clears the pointer.        *)
WrapperTracksObject ==
  \A p \in Prop :
    shadow[p] \in Object =>
      /\ shadow[p] \in objects
      /\ Entry(shadow[p], p) = p

(* A group that loses its last member is destroyed by that very call, so   *)
(* no memberless group is leaked (NajaSharedProperty::onReleasedBy).       *)
NoMemberlessGroup ==
  [][\A p \in Prop :
       KindOf[p] = "shared" /\ members[p] # {} /\ members'[p] = {} => p \notin live']_vars

(* leave(p) takes the object out of p ("remove object from the members",  *)
(* NajaSharedProperty.h): an entry that holds another property survives.   *)
LeaveIsLocal ==
  [][\A p \in Prop, o \in Object :
       Leave(p, o) => \A n \in PropName :
         properties[o][n] # p => properties'[o][n] = properties[o][n]]_vars
=============================================================================
