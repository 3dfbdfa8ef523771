------------------------ MODULE NajaPropertiesProofs ------------------------
(* Proofs about NajaProperties, for every set of objects, properties and    *)
(* names.                                                                   *)
EXTENDS NajaProperties, TLAPS

(* What the helpers return is well typed. *)
LEMMA HelperTypes ==
  ASSUME TypeOK, NEW o \in Object, NEW Q \in SUBSET Prop, NEW E
  PROVE  /\ Erase(E) \in [Object -> [PropName -> Prop \cup {NoProp}]]
         /\ OwnersReleased(o, Q) \in [Prop -> Object \cup {NoObject}]
         /\ MembersReleased(o, Q) \in [Prop -> SUBSET Object]
         /\ ShadowReleased(o, Q) \in [Prop -> Object \cup {NoObject, NoWrapper}]
         /\ Dying(o, Q) \in SUBSET Q
  BY DEF TypeOK, Erase, OwnersReleased, MembersReleased, ShadowReleased, Dying

(* What onCapturedBy() stores, and the entry that put() looks at, are typed. *)
LEMMA CapturedTypes ==
  ASSUME TypeOK, NEW o \in Object, NEW p \in Prop
  PROVE  /\ CapturedOwner(o, p) \in Object \cup {NoObject}
         /\ CapturedMembers(o, p) \in SUBSET Object
         /\ Entry(o, p) \in Prop \cup {NoProp}
  BY ConstantsAssumption DEF TypeOK, CapturedOwner, CapturedMembers, Entry

(* put(), remove() and an abort leave everything but the wrappers typed. *)
LEMMA PutType ==
  ASSUME TypeOK, NEW o \in Object, NEW p \in Prop, Put(o, p) \/ Remove(o, p) \/ Abort,
         shadow' \in [Prop -> Object \cup {NoObject, NoWrapper}]
  PROVE  TypeOK'
<1> DEFINE Q == {Entry(o, p)} \ {NoProp}
<1>1. Q \in SUBSET Prop /\ {p} \in SUBSET Prop
  BY CapturedTypes
<1>2. CASE Abort
  BY <1>2 DEF Abort, TypeOK
<1>3. CASE Put(o, p) /\ ~Abort
  <2>1. /\ properties' = [Erase(CutEntries(o, Q)) EXCEPT ![o][NameOf[p]] = p]
        /\ live' = (live \ Dying(o, Q)) \cup {p}
        /\ owner' = [OwnersReleased(o, Q) EXCEPT ![p] = CapturedOwner(o, p)]
        /\ members' = [MembersReleased(o, Q) EXCEPT ![p] = CapturedMembers(o, p)]
        /\ objects' = objects /\ aborted' = aborted
    BY <1>3 DEF Put
  <2>2. /\ Erase(CutEntries(o, Q)) \in [Object -> [PropName -> Prop \cup {NoProp}]]
        /\ OwnersReleased(o, Q) \in [Prop -> Object \cup {NoObject}]
        /\ MembersReleased(o, Q) \in [Prop -> SUBSET Object]
    BY <1>1, HelperTypes
  <2> QED
    BY <2>1, <2>2, CapturedTypes, ConstantsAssumption DEF TypeOK
<1>4. CASE Remove(o, p) /\ ~Abort
  <2>1. /\ properties' = Erase(CutEntries(o, {p}) \cup {<<o, NameOf[p]>>})
        /\ live' = live \ Dying(o, {p})
        /\ owner' = OwnersReleased(o, {p})
        /\ members' = MembersReleased(o, {p})
        /\ objects' = objects /\ aborted' = aborted
    BY <1>4 DEF Remove
  <2> QED
    BY <2>1, <1>1, HelperTypes DEF TypeOK
<1> QED
  BY <1>2, <1>3, <1>4

(* Every action preserves the types. *)
LEMMA TypeStep == TypeOK /\ [Next]_vars => TypeOK'
<1> SUFFICES ASSUME TypeOK, [Next]_vars PROVE TypeOK'
  OBVIOUS
<1>1. CASE UNCHANGED vars
  BY <1>1 DEF vars, TypeOK
<1>2. ASSUME NEW o \in Object, CreateObject(o) PROVE TypeOK'
  BY <1>2 DEF CreateObject, TypeOK
<1>3. ASSUME NEW o \in Object, DestroyObject(o) PROVE TypeOK'
  <2> DEFINE Q == {properties[o][n] : n \in PropName} \ {NoProp}
  <2>1. Q \in SUBSET Prop
    BY DEF TypeOK
  <2>2. CASE Abort
    BY <2>2 DEF Abort, TypeOK
  <2>3. CASE ~Abort
    <3>1. /\ objects' = objects \ {o}
          /\ properties' = Erase(CutEntries(o, Q) \cup ({o} \X PropName))
          /\ live' = live \ Dying(o, Q)
          /\ owner' = OwnersReleased(o, Q)
          /\ members' = MembersReleased(o, Q)
          /\ shadow' = ShadowReleased(o, Q)
          /\ UNCHANGED aborted
      BY <1>3, <2>3 DEF DestroyObject
    <3> QED
      BY <3>1, <2>1, HelperTypes DEF TypeOK
  <2> QED
    BY <2>2, <2>3
<1>4. ASSUME NEW o \in Object, NEW p \in Prop, CreatePrivate(o, p) PROVE TypeOK'
  BY <1>4, ConstantsAssumption DEF CreatePrivate, TypeOK
<1>5. ASSUME NEW p \in Prop, CreateShared(p) PROVE TypeOK'
  BY <1>5 DEF CreateShared, TypeOK
<1>6. ASSUME NEW o \in Object, NEW p \in Prop,
             CreateRelation(o, p) \/ Join(p, o) \/ Leave(p, o)
      PROVE  TypeOK'
  <2>1. Put(o, p) \/ Remove(o, p)
    BY <1>6 DEF CreateRelation, Join, Leave
  <2>2. shadow' \in [Prop -> Object \cup {NoObject, NoWrapper}]
    BY <1>6 DEF CreateRelation, Join, Leave, TypeOK
  <2> QED
    BY <2>1, <2>2, PutType
<1>7. ASSUME NEW p \in Prop, DestroyProperty(p) PROVE TypeOK'
  <2>1. CASE Abort
    BY <2>1 DEF Abort, TypeOK
  <2>2. CASE ~Abort
    <3>1. \E E : properties' = Erase(E)
      BY <1>7, <2>2 DEF DestroyProperty
    <3>2. properties' \in [Object -> [PropName -> Prop \cup {NoProp}]]
      BY <3>1 DEF Erase, TypeOK
    <3>3. /\ live' = live \ {p}
          /\ owner' = [owner EXCEPT ![p] = NoObject]
          /\ members' = [members EXCEPT ![p] = {}]
          /\ UNCHANGED <<objects, shadow, aborted>>
      BY <1>7, <2>2 DEF DestroyProperty
    <3> QED
      BY <3>2, <3>3 DEF TypeOK
  <2> QED
    BY <2>1, <2>2
<1>8. ASSUME NEW o \in Object, NEW p \in Prop, Link(o, p) PROVE TypeOK'
  BY <1>8, PutType DEF Link, TypeOK
<1>9. ASSUME NEW p \in Prop, DeAlloc(p) PROVE TypeOK'
  <2>1. shadow' \in [Prop -> Object \cup {NoObject, NoWrapper}]
    BY <1>9 DEF DeAlloc, TypeOK
  <2>2. CASE shadow[p] = NoObject
    BY <1>9, <2>1, <2>2 DEF DeAlloc, TypeOK
  <2>3. CASE shadow[p] # NoObject
    <3>1. shadow[p] \in Object /\ Remove(shadow[p], p)
      BY <1>9, <2>3 DEF DeAlloc, TypeOK
    <3> QED
      BY <3>1, <2>1, PutType
  <2> QED
    BY <2>2, <2>3
<1> QED
  BY <1>1, <1>2, <1>3, <1>4, <1>5, <1>6, <1>7, <1>8, <1>9 DEF Next

(* Type correctness of the property mechanism, whatever clients do. *)
THEOREM TypeCorrect == Spec => []TypeOK
<1>1. Init => TypeOK
  <2> SUFFICES ASSUME Init PROVE TypeOK
    OBVIOUS
  <2>1. properties \in [Object -> [PropName -> Prop \cup {NoProp}]]
    BY DEF Init
  <2>2. /\ owner \in [Prop -> Object \cup {NoObject}]
        /\ members \in [Prop -> SUBSET Object]
        /\ shadow \in [Prop -> Object \cup {NoObject, NoWrapper}]
    BY DEF Init
  <2> QED
    BY <2>1, <2>2 DEF Init, TypeOK
<1> QED
  BY <1>1, TypeStep, PTL DEF Spec

-----------------------------------------------------------------------------
(* Safety.  Coherent is not inductive alone: a release follows members_ and *)
(* owner_ of the released property, so the proof also needs which of the    *)
(* two pointers each class uses (Roles), that the entries lead to existing  *)
(* properties (NoDangling), and which objects the wrappers point at.        *)

(* The pointers each property class has, and that only proxies have a       *)
(* wrapper.                                                                 *)
Roles ==
  \A p \in Prop :
    /\ KindOf[p] = "shared" => owner[p] = NoObject
    /\ KindOf[p] \in {"private", "python"} => members[p] = {}
    /\ owner[p] \notin members[p]
    /\ KindOf[p] # "python" => shadow[p] = NoWrapper

Inv == TypeOK /\ Coherent /\ NoDangling /\ DiesWithOwner
         /\ WrapperTracksObject /\ Roles

(* One entry of a map after removeProperty() calls. *)
LEMMA EraseAt ==
  ASSUME NEW E, NEW m \in Object, NEW n \in PropName
  PROVE  Erase(E)[m][n] = IF <<m, n>> \in E THEN NoProp ELSE properties[m][n]
  BY DEF Erase

(* An entry is cut in another object when a dying property has that object *)
(* as a member.                                                            *)
LEMMA CutAt ==
  ASSUME NEW o, NEW Q, NEW m, NEW n
  PROVE  <<m, n>> \in CutEntries(o, Q) <=>
           \E q \in Dying(o, Q) : m \in members[q] /\ m # o /\ NameOf[q] = n
  BY DEF CutEntries

(* Members hold an entry, so preDestroy() finds what it removes. *)
LEMMA CutPresent ==
  ASSUME Inv, NEW o \in Object, NEW Q \in SUBSET Prop
  PROVE  AllPresent(CutEntries(o, Q))
<1> SUFFICES ASSUME NEW e \in CutEntries(o, Q) PROVE properties[e[1]][e[2]] # NoProp
  BY DEF AllPresent
<1>1. PICK q \in Dying(o, Q) : \E m \in members[q] : e = <<m, NameOf[q]>>
  BY DEF CutEntries
<1> PICK m \in members[q] : e = <<m, NameOf[q]>>
  BY <1>1
<1>2. q \in Prop /\ m \in Object
  BY DEF Dying, Inv, TypeOK
<1>3. Entry(m, q) = q
  BY <1>1, <1>2 DEF Inv, Coherent
<1> QED
  BY <1>1, <1>2, <1>3, ConstantsAssumption DEF Entry

(* The release of the properties Q by o, with the entries X of o erased.    *)
LEMMA ReleaseCoherent ==
  ASSUME Inv, NEW o \in Object, NEW Q \in SUBSET Prop, NEW X,
         \A q \in Q : Entry(o, q) = q /\ <<o, NameOf[q]>> \in X,
         \A m, n : <<m, n>> \in X => m = o,
         \A n \in PropName : <<o, n>> \in X => properties[o][n] \in Q \cup {NoProp},
         properties' = Erase(CutEntries(o, Q) \cup X),
         live' = live \ Dying(o, Q),
         owner' = OwnersReleased(o, Q),
         members' = MembersReleased(o, Q)
  PROVE  Coherent'
<1> SUFFICES ASSUME NEW m \in Object, NEW r \in Prop
             PROVE  (properties'[m][NameOf[r]] = r) <=> (owner'[r] = m \/ m \in members'[r])
  BY DEF Coherent, Entry
<1> DEFINE n == NameOf[r]
<1>1. n \in PropName /\ r # NoProp /\ NoObject # m
  BY ConstantsAssumption
<1>2. properties'[m][n] = IF <<m, n>> \in CutEntries(o, Q) \cup X
                            THEN NoProp ELSE properties[m][n]
  BY <1>1, EraseAt
<1>3. <<m, n>> \in CutEntries(o, Q) <=>
        \E q \in Dying(o, Q) : m \in members[q] /\ m # o /\ NameOf[q] = n
  BY CutAt
<1>4. (properties[m][n] = r) <=> (owner[r] = m \/ m \in members[r])
  BY DEF Inv, Coherent, Entry
<1>5. \A q \in Prop : m \in members[q] => properties[m][NameOf[q]] = q
  BY DEF Inv, Coherent, Entry
<1>6. CASE r \in Dying(o, Q)
  <2>1. owner'[r] = NoObject /\ members'[r] = {}
    BY <1>6 DEF OwnersReleased, MembersReleased
  <2>2. r \in Q /\ (owner[r] = o \/ (KindOf[r] = "shared" /\ owner[r] = NoObject))
    BY <1>6 DEF Dying, Dies, Inv, Roles
  <2>3. properties'[m][n] # r
    BY <1>1, <1>2, <1>3, <1>4, <1>6, <2>2
  <2> QED
    BY <2>1, <2>3, <1>1
<1>7. CASE r \in Q /\ r \notin Dying(o, Q)
  <2>1. owner'[r] = owner[r] /\ members'[r] = members[r] \ {o}
    BY <1>7 DEF OwnersReleased, MembersReleased
  <2>2. owner[r] # o
    BY <1>7 DEF Dying, Dies
  <2>3. CASE m = o
    BY <1>1, <1>2, <1>7, <2>1, <2>2, <2>3
  <2>4. CASE m # o
    <3>1. <<m, n>> \notin X
      BY <2>4
    <3>2. <<m, n>> \in CutEntries(o, Q) => properties[m][n] # r
      BY <1>3, <1>5, <1>7 DEF Dying
    <3> QED
      BY <1>1, <1>2, <1>4, <2>1, <2>4, <3>1, <3>2
  <2> QED
    BY <2>3, <2>4
<1>8. CASE r \notin Q
  <2>1. owner'[r] = owner[r] /\ members'[r] = members[r]
    BY <1>8 DEF OwnersReleased, MembersReleased, Dying
  <2>2. <<m, n>> \in CutEntries(o, Q) => properties[m][n] # r
    BY <1>3, <1>5, <1>8 DEF Dying
  <2>3. <<m, n>> \in X => properties[m][n] # r
    BY <1>1, <1>8
  <2> QED
    BY <1>1, <1>2, <1>4, <2>1, <2>2, <2>3
<1> QED
  BY <1>6, <1>7, <1>8

(* Releasing properties of o, with or without destroying o, leaves no      *)
(* pointer to what was destroyed.                                          *)
LEMMA ReleaseSafe ==
  ASSUME Inv, NEW o \in Object, NEW Q \in SUBSET Prop, NEW X,
         \A q \in Q : Entry(o, q) = q /\ <<o, NameOf[q]>> \in X,
         \A m, n : <<m, n>> \in X => m = o,
         objects' = objects \/ (objects' = objects \ {o} /\ X = {o} \X PropName
                                 /\ \A q \in Prop : Entry(o, q) = q => q \in Q),
         properties' = Erase(CutEntries(o, Q) \cup X),
         live' = live \ Dying(o, Q),
         owner' = OwnersReleased(o, Q),
         members' = MembersReleased(o, Q)
  PROVE  NoDangling' /\ DiesWithOwner'
<1>1. ASSUME NEW q \in Prop PROVE Entry(o, q) = q <=> (owner[q] = o \/ o \in members[q])
  BY DEF Inv, Coherent
<1>2. ASSUME NEW m \in Object, NEW n \in PropName, properties'[m][n] # NoProp
      PROVE  m \in objects' /\ properties'[m][n] \in live' /\ NameOf[properties'[m][n]] = n
  <2> DEFINE r == properties[m][n]
  <2>1. /\ r = properties'[m][n] /\ <<m, n>> \notin X /\ <<m, n>> \notin CutEntries(o, Q)
    BY <1>2, EraseAt
  <2>2. m \in objects /\ r \in live /\ NameOf[r] = n /\ r \in Prop
    BY <1>2, <2>1 DEF Inv, NoDangling, TypeOK
  <2>3. owner[r] = m \/ m \in members[r]
    BY <2>2 DEF Inv, Coherent, Entry
  <2>4. r \notin Dying(o, Q)
    <3> SUFFICES ASSUME r \in Dying(o, Q) PROVE FALSE
      OBVIOUS
    <3>1. r \in Q /\ (owner[r] = o \/ (KindOf[r] = "shared" /\ owner[r] = NoObject))
      BY <2>2 DEF Dying, Dies, Inv, Roles
    <3>2. m # o
      BY <3>1, <2>1, <2>2
    <3> QED
      BY <3>1, <3>2, <2>1, <2>2, <2>3, CutAt, ConstantsAssumption
  <2>5. m \in objects'
    BY <2>1, <2>2
  <2> QED
    BY <2>1, <2>2, <2>4, <2>5
<1>3. ASSUME NEW q \in Prop, owner'[q] # NoObject
      PROVE  q \in live' /\ owner'[q] \in objects'
  <2>1. q \notin Dying(o, Q) /\ owner'[q] = owner[q]
    BY <1>3 DEF OwnersReleased
  <2>2. q \in live /\ owner[q] \in objects
    BY <1>3, <2>1 DEF Inv, NoDangling
  <2>3. owner[q] = o => q \notin Q
    BY <2>1 DEF Dying, Dies
  <2> QED
    BY <1>1, <2>1, <2>2, <2>3
<1>4. ASSUME NEW q \in Prop, members'[q] # {}
      PROVE  q \in live' /\ members'[q] \subseteq objects'
  <2>1. q \notin Dying(o, Q) /\ members'[q] \subseteq members[q] /\ (q \in Q => o \notin members'[q])
    BY <1>4 DEF MembersReleased
  <2>2. q \in live /\ members[q] \subseteq objects
    BY <1>4, <2>1 DEF Inv, NoDangling
  <2>3. q \notin Q => members'[q] = members[q]
    BY DEF MembersReleased, Dying
  <2> QED
    BY <1>1, <2>1, <2>2, <2>3
<1>5. DiesWithOwner'
  <2> SUFFICES ASSUME NEW q \in live', KindOf[q] # "shared" PROVE owner'[q] \in objects'
    BY DEF DiesWithOwner
  <2>1. q \in Prop /\ q \in live /\ q \notin Dying(o, Q)
    BY DEF Inv, TypeOK
  <2>2. owner'[q] = owner[q] /\ owner[q] \in objects
    BY <2>1 DEF OwnersReleased, Inv, DiesWithOwner
  <2>3. owner[q] # NoObject
    BY <2>2, ConstantsAssumption DEF Inv, TypeOK
  <2> QED
    BY <1>3, <2>1, <2>2, <2>3
<1> QED
  BY <1>2, <1>3, <1>4, <1>5 DEF NoDangling

(* put() without an abort, entry by entry: the old entry of o, in Q, is      *)
(* released (the properties D of Q die) and p takes its place under k.      *)
PutEffect(o, p, Q, D, k) ==
  /\ \A m \in Object, n \in PropName :
       /\ m = o /\ n = k => properties'[m][n] = p
       /\ ~(m = o /\ n = k) =>
            \/ /\ properties'[m][n] = NoProp
               /\ \E q \in D : m \in members[q] /\ m # o /\ NameOf[q] = n
            \/ /\ properties'[m][n] = properties[m][n]
               /\ ~\E q \in D : m \in members[q] /\ m # o /\ NameOf[q] = n
  /\ \A r \in Prop \ {p} :
       /\ r \in D => owner'[r] = NoObject /\ members'[r] = {}
       /\ r \in Q \ D => owner'[r] = owner[r] /\ members'[r] = members[r] \ {o}
       /\ r \notin Q => owner'[r] = owner[r] /\ members'[r] = members[r]
  /\ \/ owner'[p] = o /\ members'[p] = members[p] /\ owner[p] = NoObject
          /\ KindOf[p] # "shared"
     \/ owner'[p] = owner[p] /\ members'[p] = members[p] \cup {o}
          /\ KindOf[p] # "python" /\ (KindOf[p] = "relation" => owner[p] # NoObject)
  /\ live' = (live \ D) \cup {p}

(* What is known of the property put and of the one it replaces. *)
PutPre(o, p, Q, D, k) ==
  /\ o \in objects /\ o \in Object /\ p \in Prop /\ k = NameOf[p] /\ k \in PropName
  /\ Entry(o, p) # p /\ owner[p] # o
  /\ KindOf[p] # "private" /\ (KindOf[p] = "python" => p \notin live)
  /\ Q \subseteq Prop /\ p \notin Q /\ D \subseteq Q
  /\ \A q \in Q : NameOf[q] = k /\ properties[o][k] = q
  /\ properties[o][k] \in Q \cup {NoProp}
  /\ \A q \in D : owner[q] = o \/ owner[q] = NoObject
  /\ \A q \in Q \ D : owner[q] # o

(* After put() the maps agree with owners and members. *)
LEMMA PutCoherent ==
  ASSUME Inv, NEW o, NEW p, NEW Q, NEW D, NEW k,
         PutPre(o, p, Q, D, k), PutEffect(o, p, Q, D, k),
         NEW m \in Object, NEW r \in Prop
  PROVE  (properties'[m][NameOf[r]] = r) <=> (owner'[r] = m \/ m \in members'[r])
<1> DEFINE n == NameOf[r]
<1>1. n \in PropName /\ r # NoProp /\ m # NoObject /\ p # NoProp
  BY ConstantsAssumption DEF PutPre
<1>2. (properties[m][n] = r) <=> (owner[r] = m \/ m \in members[r])
  BY DEF Inv, Coherent, Entry
<1>3. \A q \in D : m \in members[q] => q \in Prop /\ properties[m][NameOf[q]] = q
  BY DEF Inv, Coherent, Entry, PutPre
<1>4. CASE r = p
  <2>1. CASE m = o
    BY <1>1, <1>4, <2>1 DEF PutPre, PutEffect
  <2>2. CASE m # o
    <3>1. (properties'[m][n] = r) <=> (properties[m][n] = r)
      BY <1>1, <1>3, <1>4, <2>2 DEF PutPre, PutEffect
    <3>2. (owner'[r] = m \/ m \in members'[r]) <=> (owner[r] = m \/ m \in members[r])
      BY <1>1, <1>4, <2>2 DEF PutEffect
    <3> QED
      BY <3>1, <3>2, <1>2
  <2> QED
    BY <2>1, <2>2
<1>5. CASE r # p /\ r \in D
  <2>1. owner'[r] = NoObject /\ members'[r] = {} /\ n = k
    BY <1>5 DEF PutEffect, PutPre
  <2>2. properties'[m][n] # r
    <3>1. CASE m = o
      BY <1>1, <1>5, <2>1, <3>1 DEF PutEffect
    <3>2. CASE m # o
      <4>1. properties[m][n] = r => m \in members[r]
        BY <1>1, <1>2, <1>5, <3>2 DEF PutPre
      <4> QED
        BY <1>1, <1>5, <3>2, <4>1 DEF PutEffect
    <3> QED
      BY <3>1, <3>2
  <2> QED
    BY <2>1, <2>2, <1>1
<1>6. CASE r # p /\ r \in Q /\ r \notin D
  <2>1. owner'[r] = owner[r] /\ members'[r] = members[r] \ {o} /\ owner[r] # o /\ n = k
    BY <1>6 DEF PutEffect, PutPre
  <2>2. CASE m = o
    BY <1>1, <1>6, <2>1, <2>2 DEF PutEffect
  <2>3. CASE m # o
    <3>1. (properties'[m][n] = r) <=> (properties[m][n] = r)
      BY <1>1, <1>3, <1>6, <2>3 DEF PutEffect
    <3> QED
      BY <1>2, <2>1, <2>3, <3>1
  <2> QED
    BY <2>2, <2>3
<1>7. CASE r # p /\ r \notin Q
  <2>1. owner'[r] = owner[r] /\ members'[r] = members[r] /\ r \notin D
    BY <1>7 DEF PutEffect, PutPre
  <2>2. (properties'[m][n] = r) <=> (properties[m][n] = r)
    <3>1. CASE m = o /\ n = k
      BY <1>1, <1>7, <3>1 DEF PutEffect, PutPre
    <3>2. CASE ~(m = o /\ n = k)
      BY <1>1, <1>3, <2>1, <3>2 DEF PutEffect
    <3> QED
      BY <3>1, <3>2
  <2> QED
    BY <1>2, <2>1, <2>2
<1> QED
  BY <1>4, <1>5, <1>6, <1>7

(* put() preserves every part of the invariant except the wrappers. *)
LEMMA PutSafe ==
  ASSUME Inv, NEW o, NEW p, NEW Q, NEW D, NEW k,
         PutPre(o, p, Q, D, k), PutEffect(o, p, Q, D, k), objects' = objects
  PROVE  /\ Coherent' /\ NoDangling' /\ DiesWithOwner'
         /\ \A r \in Prop :
              /\ KindOf[r] = "shared" => owner'[r] = NoObject
              /\ KindOf[r] \in {"private", "python"} => members'[r] = {}
              /\ owner'[r] \notin members'[r]
<1>1. Coherent'
  BY PutCoherent DEF Coherent, Entry
<1>2. ASSUME NEW m \in Object, NEW n \in PropName, properties'[m][n] # NoProp
      PROVE  m \in objects' /\ properties'[m][n] \in live' /\ NameOf[properties'[m][n]] = n
  <2>1. CASE m = o /\ n = k
    BY <2>1 DEF PutEffect, PutPre
  <2>2. CASE ~(m = o /\ n = k)
    <3>1. /\ properties'[m][n] = properties[m][n]
          /\ ~\E q \in D : m \in members[q] /\ m # o /\ NameOf[q] = n
      BY <1>2, <2>2 DEF PutEffect
    <3>2. PICK r \in Prop : r = properties[m][n] /\ m \in objects /\ r \in live /\ NameOf[r] = n
      BY <1>2, <3>1 DEF Inv, NoDangling, TypeOK
    <3>3. owner[r] = m \/ m \in members[r]
      BY <3>2 DEF Inv, Coherent, Entry
    <3>4. r \notin D
      BY <3>1, <3>2, <3>3, <2>2, ConstantsAssumption DEF PutPre
    <3> QED
      BY <3>1, <3>2, <3>4 DEF PutEffect
  <2> QED
    BY <2>1, <2>2
<1>3. ASSUME NEW q \in Prop, owner'[q] # NoObject PROVE q \in live' /\ owner'[q] \in objects'
  BY <1>3 DEF PutEffect, PutPre, Inv, NoDangling
<1>4. ASSUME NEW q \in Prop, members'[q] # {} PROVE q \in live' /\ members'[q] \subseteq objects'
  <2>1. CASE q = p
    BY <1>4, <2>1 DEF PutEffect, PutPre, Inv, NoDangling
  <2>2. CASE q # p
    <3>1. q \notin D /\ members'[q] \subseteq members[q]
      BY <1>4, <2>2 DEF PutEffect
    <3> QED
      BY <1>4, <3>1 DEF PutEffect, Inv, NoDangling
  <2> QED
    BY <2>1, <2>2
<1>5. DiesWithOwner'
  <2> SUFFICES ASSUME NEW q \in live', KindOf[q] # "shared" PROVE owner'[q] \in objects'
    BY DEF DiesWithOwner
  <2>1. CASE q = p
    <3>1. KindOf[p] \in {"relation", "python"}
      BY <2>1, ConstantsAssumption DEF PutPre, Kind
    <3>2. owner[p] # NoObject => owner[p] \in objects
      BY DEF Inv, NoDangling, PutPre
    <3> QED
      BY <2>1, <3>1, <3>2 DEF PutEffect, PutPre
  <2>2. CASE q # p
    <3>1. q \in live /\ q \notin D /\ q \in Prop
      BY <2>2 DEF PutEffect, Inv, TypeOK
    <3>2. owner'[q] = owner[q]
      BY <2>2, <3>1 DEF PutEffect
    <3> QED
      BY <3>1, <3>2 DEF Inv, DiesWithOwner
  <2> QED
    BY <2>1, <2>2
<1>6. ASSUME NEW r \in Prop
      PROVE  /\ KindOf[r] = "shared" => owner'[r] = NoObject
             /\ KindOf[r] \in {"private", "python"} => members'[r] = {}
             /\ owner'[r] \notin members'[r]
  <2>1. CASE r = p
    <3>1. o \notin members[p] /\ owner[p] \notin members[p]
      BY DEF Inv, Roles, Coherent, PutPre
    <3>2. /\ KindOf[p] = "shared" => owner[p] = NoObject
          /\ KindOf[p] = "python" => members[p] = {}
      BY DEF Inv, Roles, PutPre
    <3> QED
      BY <2>1, <3>1, <3>2 DEF PutEffect, PutPre
  <2>2. CASE r # p
    <3>1. /\ KindOf[r] = "shared" => owner[r] = NoObject
          /\ KindOf[r] \in {"private", "python"} => members[r] = {}
          /\ owner[r] \notin members[r]
      BY DEF Inv, Roles
    <3> QED
      BY <2>2, <3>1 DEF PutEffect
  <2> QED
    BY <2>1, <2>2
<1>7. NoDangling'
  BY <1>2, <1>3, <1>4 DEF NoDangling
<1> QED
  BY <1>1, <1>5, <1>6, <1>7

(* A put() that does not abort has this effect. *)
LEMMA PutIsEffect ==
  ASSUME Inv, NEW o \in objects, NEW p \in Prop, NEW Q,
         Q = {Entry(o, p)} \ {NoProp},
         Entry(o, p) # p, owner[p] # o, KindOf[p] # "private",
         KindOf[p] = "python" => p \notin live,
         \A q \in Q : KindOf[q] # "private",
         Put(o, p)
  PROVE  /\ PutPre(o, p, Q, Dying(o, Q), NameOf[p])
         /\ PutEffect(o, p, Q, Dying(o, Q), NameOf[p])
         /\ objects' = objects /\ aborted' = aborted
<1>1. o \in Object /\ NameOf[p] \in PropName /\ Q \in SUBSET Prop /\ p \notin Q
  BY ConstantsAssumption DEF Inv, TypeOK, Entry
<1>2. PutPre(o, p, Q, Dying(o, Q), NameOf[p])
  <2>1. \A q \in Q : NameOf[q] = NameOf[p] /\ properties[o][NameOf[p]] = q
    BY <1>1 DEF Inv, NoDangling, Entry
  <2>2. properties[o][NameOf[p]] \in Q \cup {NoProp}
    BY DEF Entry
  <2>3. \A q \in Dying(o, Q) : owner[q] = o \/ owner[q] = NoObject
    BY <1>1 DEF Dying, Dies, Inv, Roles
  <2>4. Dying(o, Q) \subseteq Q /\ \A q \in Q \ Dying(o, Q) : owner[q] # o
    BY DEF Dying, Dies
  <2> QED
    BY <1>1, <2>1, <2>2, <2>3, <2>4 DEF PutPre
<1>3. AllPresent(CutEntries(o, Q))
  BY <1>1, CutPresent
<1>4. /\ properties' = [Erase(CutEntries(o, Q)) EXCEPT ![o][NameOf[p]] = p]
      /\ live' = (live \ Dying(o, Q)) \cup {p}
      /\ owner' = [OwnersReleased(o, Q) EXCEPT ![p] = CapturedOwner(o, p)]
      /\ members' = [MembersReleased(o, Q) EXCEPT ![p] = CapturedMembers(o, p)]
      /\ objects' = objects /\ aborted' = aborted
  BY <1>3 DEF Put
<1>5. /\ Erase(CutEntries(o, Q)) \in [Object -> [PropName -> Prop \cup {NoProp}]]
      /\ OwnersReleased(o, Q) \in [Prop -> Object \cup {NoObject}]
      /\ MembersReleased(o, Q) \in [Prop -> SUBSET Object]
  BY <1>1, HelperTypes DEF Inv
<1>6. ASSUME NEW m \in Object, NEW n \in PropName
      PROVE  /\ m = o /\ n = NameOf[p] => properties'[m][n] = p
             /\ ~(m = o /\ n = NameOf[p]) =>
                  \/ /\ properties'[m][n] = NoProp
                     /\ \E q \in Dying(o, Q) : m \in members[q] /\ m # o /\ NameOf[q] = n
                  \/ /\ properties'[m][n] = properties[m][n]
                     /\ ~\E q \in Dying(o, Q) : m \in members[q] /\ m # o /\ NameOf[q] = n
  <2>1. Erase(CutEntries(o, Q))[m][n] = IF <<m, n>> \in CutEntries(o, Q)
                                          THEN NoProp ELSE properties[m][n]
    BY EraseAt
  <2>2. <<m, n>> \in CutEntries(o, Q) <=>
          \E q \in Dying(o, Q) : m \in members[q] /\ m # o /\ NameOf[q] = n
    BY ONLY CutAt
  <2>3. m = o /\ n = NameOf[p] => properties'[m][n] = p
    BY <1>1, <1>4, <1>5
  <2>4. ~(m = o /\ n = NameOf[p]) => properties'[m][n] = Erase(CutEntries(o, Q))[m][n]
    BY <1>1, <1>4, <1>5
  <2> QED
    BY <2>1, <2>2, <2>3, <2>4
<1>7. ASSUME NEW r \in Prop \ {p}
      PROVE  /\ r \in Dying(o, Q) => owner'[r] = NoObject /\ members'[r] = {}
             /\ r \in Q \ Dying(o, Q) => owner'[r] = owner[r] /\ members'[r] = members[r] \ {o}
             /\ r \notin Q => owner'[r] = owner[r] /\ members'[r] = members[r]
  <2>1. owner'[r] = OwnersReleased(o, Q)[r] /\ members'[r] = MembersReleased(o, Q)[r]
    BY <1>4, <1>5
  <2> QED
    BY <2>1 DEF OwnersReleased, MembersReleased, Dying
<1>8. owner'[p] = CapturedOwner(o, p) /\ members'[p] = CapturedMembers(o, p)
  BY <1>4, <1>5
<1>9. KindOf[p] = "shared" => owner[p] = NoObject
  BY DEF Inv, Roles
<1>10. \/ owner'[p] = o /\ members'[p] = members[p] /\ owner[p] = NoObject
            /\ KindOf[p] # "shared"
       \/ owner'[p] = owner[p] /\ members'[p] = members[p] \cup {o}
            /\ KindOf[p] # "python" /\ (KindOf[p] = "relation" => owner[p] # NoObject)
  <2>1. KindOf[p] = "python" => owner[p] = NoObject
    BY DEF Inv, NoDangling
  <2>2. KindOf[p] \in {"shared", "relation", "python"}
    BY ConstantsAssumption DEF Kind
  <2> QED
    BY <1>8, <1>9, <2>1, <2>2 DEF CapturedOwner, CapturedMembers
<1>11. PutEffect(o, p, Q, Dying(o, Q), NameOf[p])
  BY <1>4, <1>6, <1>7, <1>10 DEF PutEffect
<1> QED
  BY <1>2, <1>4, <1>11

(* A wrapper follows its object when the entry of the proxy is not erased.  *)
LEMMA ProxyEntry ==
  ASSUME Inv, NEW p \in Prop, shadow[p] \in Object
  PROVE  KindOf[p] = "python" /\ owner[p] = shadow[p] /\ Entry(shadow[p], p) = p
         /\ p \in live /\ shadow[p] \in objects
<1>1. KindOf[p] = "python"
  BY ConstantsAssumption DEF Inv, Roles
<1>2. Entry(shadow[p], p) = p /\ shadow[p] \in objects
  BY DEF Inv, WrapperTracksObject
<1> QED
  BY <1>1, <1>2, ConstantsAssumption DEF Inv, Coherent, Roles, NoDangling

(* A put() of a shared or relation property disturbs no proxy. *)
LEMMA PutKeepsWrappers ==
  ASSUME Inv, NEW o \in objects, NEW p \in Prop, NEW Q, NEW D,
         KindOf[p] # "python",
         PutPre(o, p, Q, D, NameOf[p]), PutEffect(o, p, Q, D, NameOf[p]),
         objects' = objects, shadow' = shadow
  PROVE  WrapperTracksObject'
<1> SUFFICES ASSUME NEW r \in Prop, shadow[r] \in Object
             PROVE  shadow[r] \in objects /\ properties'[shadow[r]][NameOf[r]] = r
  BY DEF WrapperTracksObject, Entry
<1>1. KindOf[r] = "python" /\ Entry(shadow[r], r) = r /\ shadow[r] \in objects
  BY ProxyEntry
<1>2. NameOf[r] # NameOf[p] /\ NameOf[r] \in PropName
  BY <1>1, PythonNameAssumption, ConstantsAssumption
<1>3. \A q \in D : NameOf[q] # NameOf[r]
  BY <1>2 DEF PutPre
<1> QED
  BY <1>1, <1>2, <1>3 DEF PutEffect, Entry

(* A property that does not exist is attached nowhere. *)
LEMMA DeadDetached ==
  ASSUME Inv, NEW p \in Prop, p \notin live
  PROVE  /\ owner[p] = NoObject /\ members[p] = {}
         /\ \A m \in Object, n \in PropName : properties[m][n] # p
         /\ shadow[p] \notin Object
<1>1. owner[p] = NoObject /\ members[p] = {}
  BY DEF Inv, NoDangling
<1>2. \A m \in Object, n \in PropName : properties[m][n] # p
  BY ConstantsAssumption DEF Inv, NoDangling
<1> QED
  BY <1>1, <1>2, ProxyEntry

(* remove(p) on an object that holds p. *)
LEMMA RemoveSafe ==
  ASSUME Inv, NEW o \in objects, NEW p \in Prop, Entry(o, p) = p,
         KindOf[p] # "private", Remove(o, p)
  PROVE  /\ Coherent' /\ NoDangling' /\ DiesWithOwner' /\ aborted' = aborted
         /\ objects' = objects
         /\ properties' = Erase(CutEntries(o, {p}) \cup {<<o, NameOf[p]>>})
         /\ owner' = OwnersReleased(o, {p}) /\ members' = MembersReleased(o, {p})
<1>1. o \in Object /\ {p} \in SUBSET Prop /\ p # NoProp
  BY ConstantsAssumption DEF Inv, TypeOK
<1>2. AllPresent(CutEntries(o, {p}))
  BY <1>1, CutPresent
<1>3. /\ properties' = Erase(CutEntries(o, {p}) \cup {<<o, NameOf[p]>>})
      /\ live' = live \ Dying(o, {p})
      /\ owner' = OwnersReleased(o, {p})
      /\ members' = MembersReleased(o, {p})
      /\ objects' = objects /\ aborted' = aborted
  BY <1>2 DEF Remove
<1>4. /\ \A q \in {p} : Entry(o, q) = q /\ <<o, NameOf[q]>> \in {<<o, NameOf[p]>>}
      /\ \A m, n : <<m, n>> \in {<<o, NameOf[p]>>} => m = o
      /\ \A n \in PropName : <<o, n>> \in {<<o, NameOf[p]>>} => properties[o][n] \in {p} \cup {NoProp}
  BY DEF Entry
<1>5. Coherent'
  BY <1>1, <1>3, <1>4, ReleaseCoherent
<1>6. NoDangling' /\ DiesWithOwner'
  BY <1>1, <1>3, <1>4, ReleaseSafe
<1> QED
  BY <1>3, <1>5, <1>6

(* Release changes no property's role. *)
LEMMA ReleaseRoles ==
  ASSUME Inv, NEW o \in Object, NEW Q,
         owner' = OwnersReleased(o, Q), members' = MembersReleased(o, Q),
         NEW r \in Prop
  PROVE  /\ KindOf[r] = "shared" => owner'[r] = NoObject
         /\ KindOf[r] \in {"private", "python"} => members'[r] = {}
         /\ owner'[r] \notin members'[r]
<1>1. /\ owner'[r] \in {owner[r], NoObject} /\ members'[r] \subseteq members[r]
      /\ owner'[r] # owner[r] => members'[r] = {}
  BY DEF OwnersReleased, MembersReleased
<1> QED
  BY <1>1 DEF Inv, Roles

(* NajaDumpableProperty::create() preserves the invariant. *)
LEMMA CreatePrivateStep ==
  ASSUME Inv, NEW o \in Object, NEW p \in Prop, CreatePrivate(o, p)
  PROVE  Coherent' /\ NoDangling' /\ DiesWithOwner' /\ aborted' = aborted
           /\ WrapperTracksObject' /\ Roles'
<1> DEFINE k == NameOf[p]
<1>1. /\ o \in objects /\ p \notin live /\ KindOf[p] = "private" /\ k \in PropName
      /\ properties[o][k] = NoProp /\ p # NoProp
      /\ live' = live \cup {p} /\ objects' = objects /\ members' = members
      /\ shadow' = shadow /\ aborted' = aborted
  BY ConstantsAssumption DEF CreatePrivate, Entry
<1>2. \A m \in Object, n \in PropName :
        properties'[m][n] = IF m = o /\ n = k THEN p ELSE properties[m][n]
  BY <1>1 DEF CreatePrivate, Inv, TypeOK
<1>3. \A r \in Prop : owner'[r] = IF r = p THEN o ELSE owner[r]
  BY DEF CreatePrivate, Inv, TypeOK
<1>4. /\ owner[p] = NoObject /\ members[p] = {}
      /\ \A m \in Object, n \in PropName : properties[m][n] # p
  BY <1>1, DeadDetached
<1>5. ASSUME NEW m \in Object, NEW r \in Prop
      PROVE  (properties'[m][NameOf[r]] = r) <=> (owner'[r] = m \/ m \in members'[r])
  <2>1. (properties[m][NameOf[r]] = r) <=> (owner[r] = m \/ m \in members[r])
    BY DEF Inv, Coherent, Entry
  <2>2. NameOf[r] \in PropName /\ r # NoProp
    BY ConstantsAssumption
  <2> QED
    BY <1>1, <1>2, <1>3, <1>4, <2>1, <2>2
<1>6. Coherent'
  BY <1>5 DEF Coherent, Entry
<1>7. NoDangling'
  BY <1>1, <1>2, <1>3 DEF Inv, NoDangling, TypeOK
<1>8. DiesWithOwner'
  BY <1>1, <1>3 DEF Inv, DiesWithOwner, TypeOK
<1>9. WrapperTracksObject'
  <2> SUFFICES ASSUME NEW r \in Prop, shadow[r] \in Object
               PROVE  shadow[r] \in objects' /\ properties'[shadow[r]][NameOf[r]] = r
    BY <1>1 DEF WrapperTracksObject, Entry
  <2>1. KindOf[r] = "python" /\ Entry(shadow[r], r) = r /\ shadow[r] \in objects
    BY ProxyEntry
  <2>2. NameOf[r] # k /\ NameOf[r] \in PropName
    BY <2>1, <1>1, PythonNameAssumption, ConstantsAssumption
  <2> QED
    BY <1>1, <1>2, <2>1, <2>2 DEF Entry
<1>10. Roles'
  BY <1>1, <1>3, <1>4 DEF Inv, Roles
<1> QED
  BY <1>1, <1>6, <1>7, <1>8, <1>9, <1>10 DEF Inv

(* NajaRelationProperty::create() and join() preserve the invariant. *)
LEMMA JoinSteps ==
  ASSUME Inv, NEW o \in Object, NEW p \in Prop,
         CreateRelation(o, p) \/ Join(p, o)
  PROVE  /\ Coherent' /\ NoDangling' /\ DiesWithOwner' /\ WrapperTracksObject' /\ Roles'
         /\ aborted' = aborted \/ (Entry(o, p) \in Prop /\ KindOf[Entry(o, p)] = "private")
<1> DEFINE Q == {Entry(o, p)} \ {NoProp}
<1>1. /\ o \in objects /\ KindOf[p] \in {"shared", "relation"}
      /\ Put(o, p) /\ shadow' = shadow
  BY DEF CreateRelation, Join
<1>a. CASE \E q \in Q : KindOf[q] = "private"
  <2>1. Abort
    BY <1>1, <1>a DEF Put
  <2>2. Entry(o, p) \in Prop /\ KindOf[Entry(o, p)] = "private"
    BY <1>a, ConstantsAssumption DEF Entry, Inv, TypeOK
  <2>3. /\ objects' = objects /\ live' = live /\ properties' = properties
        /\ owner' = owner /\ members' = members /\ shadow' = shadow
    BY <2>1 DEF Abort
  <2>4. Coherent' /\ NoDangling' /\ DiesWithOwner'
    BY <2>3 DEF Inv, Coherent, Entry, NoDangling, DiesWithOwner
  <2>5. WrapperTracksObject' /\ Roles'
    BY <2>3 DEF Inv, WrapperTracksObject, Entry, Roles
  <2> QED
    BY <2>2, <2>4, <2>5
<1>2. Entry(o, p) # p
  <2>1. CASE p \in live
    BY <2>1 DEF CreateRelation, Join
  <2>2. CASE p \notin live
    BY <2>2, DeadDetached, ConstantsAssumption DEF Entry
  <2> QED
    BY <2>1, <2>2
<1>3. owner[p] # o
  BY <1>2 DEF Inv, Coherent
<1>4. SUFFICES ASSUME \A q \in Q : KindOf[q] # "private"
      PROVE  /\ Coherent' /\ NoDangling' /\ DiesWithOwner'
             /\ WrapperTracksObject' /\ Roles' /\ aborted' = aborted
  BY <1>a
<1>5. /\ PutPre(o, p, Q, Dying(o, Q), NameOf[p])
      /\ PutEffect(o, p, Q, Dying(o, Q), NameOf[p])
      /\ objects' = objects /\ aborted' = aborted
  BY <1>1, <1>2, <1>3, <1>4, PutIsEffect
<1>6. /\ Coherent' /\ NoDangling' /\ DiesWithOwner'
      /\ \A r \in Prop :
           /\ KindOf[r] = "shared" => owner'[r] = NoObject
           /\ KindOf[r] \in {"private", "python"} => members'[r] = {}
           /\ owner'[r] \notin members'[r]
  BY <1>5, PutSafe
<1>7. WrapperTracksObject'
  BY <1>1, <1>5, PutKeepsWrappers
<1>8. Roles'
  BY <1>1, <1>6 DEF Inv, Roles
<1> QED
  BY <1>5, <1>6, <1>7, <1>8

(* leave() preserves the invariant. *)
LEMMA LeaveStep ==
  ASSUME ~LeavesForeign, Inv, NEW o \in Object, NEW p \in Prop, Leave(p, o)
  PROVE  Coherent' /\ NoDangling' /\ DiesWithOwner' /\ aborted' = aborted
           /\ WrapperTracksObject' /\ Roles'
<1>1. /\ o \in objects /\ KindOf[p] \in {"shared", "relation"} /\ Entry(o, p) = p
      /\ Remove(o, p) /\ shadow' = shadow
  BY DEF Leave
<1>2. /\ Coherent' /\ NoDangling' /\ DiesWithOwner' /\ aborted' = aborted /\ objects' = objects
      /\ properties' = Erase(CutEntries(o, {p}) \cup {<<o, NameOf[p]>>})
      /\ owner' = OwnersReleased(o, {p}) /\ members' = MembersReleased(o, {p})
  BY <1>1, RemoveSafe
<1>3. WrapperTracksObject'
  <2> SUFFICES ASSUME NEW r \in Prop, shadow[r] \in Object
               PROVE  shadow[r] \in objects' /\ properties'[shadow[r]][NameOf[r]] = r
    BY <1>1 DEF WrapperTracksObject, Entry
  <2>1. KindOf[r] = "python" /\ Entry(shadow[r], r) = r /\ shadow[r] \in objects
    BY ProxyEntry
  <2>2. NameOf[r] # NameOf[p] /\ NameOf[r] \in PropName
    BY <1>1, <2>1, PythonNameAssumption, ConstantsAssumption
  <2>3. <<shadow[r], NameOf[r]>> \notin CutEntries(o, {p}) \cup {<<o, NameOf[p]>>}
    BY <2>2 DEF CutEntries, Dying
  <2>4. properties'[shadow[r]][NameOf[r]] = properties[shadow[r]][NameOf[r]]
    BY <1>2, <2>2, <2>3 DEF Erase
  <2> QED
    BY <1>2, <2>1, <2>4 DEF Entry
<1>4. Roles'
  BY <1>1, <1>2, ReleaseRoles DEF Inv, Roles
<1> QED
  BY <1>2, <1>3, <1>4 DEF Inv

(* NajaObject::destroy() preserves the invariant. *)
LEMMA DestroyObjectStep ==
  ASSUME Inv, NEW o \in Object, DestroyObject(o)
  PROVE  Coherent' /\ NoDangling' /\ DiesWithOwner' /\ aborted' = aborted
           /\ WrapperTracksObject' /\ Roles'
<1> DEFINE Q == {properties[o][n] : n \in PropName} \ {NoProp}
           X == {o} \X PropName
<1>1. /\ o \in objects /\ Q \in SUBSET Prop
      /\ \A q \in Q : Entry(o, q) = q /\ NameOf[q] \in PropName
      /\ \A q \in Prop : Entry(o, q) = q => q \in Q
  BY ConstantsAssumption DEF DestroyObject, Inv, TypeOK, NoDangling, Entry
<1>2. AllPresent(CutEntries(o, Q))
  BY <1>1, CutPresent
<1>3. /\ objects' = objects \ {o}
      /\ properties' = Erase(CutEntries(o, Q) \cup X)
      /\ live' = live \ Dying(o, Q)
      /\ owner' = OwnersReleased(o, Q)
      /\ members' = MembersReleased(o, Q)
      /\ shadow' = ShadowReleased(o, Q)
      /\ aborted' = aborted
  BY <1>2 DEF DestroyObject
<1>4. /\ \A q \in Q : Entry(o, q) = q /\ <<o, NameOf[q]>> \in X
      /\ \A m, n : <<m, n>> \in X => m = o
      /\ \A n \in PropName : <<o, n>> \in X => properties[o][n] \in Q \cup {NoProp}
  BY <1>1
<1> HIDE DEF Q, X
<1>5. Coherent'
  BY <1>1, <1>3, <1>4, ReleaseCoherent
<1>6. NoDangling' /\ DiesWithOwner'
  <2>1. objects' = objects \ {o} /\ X = {o} \X PropName
          /\ \A q \in Prop : Entry(o, q) = q => q \in Q
    BY <1>1, <1>3 DEF X
  <2> QED
    BY <1>1, <1>3, <1>4, <2>1, ReleaseSafe
<1>7. WrapperTracksObject'
  <2> SUFFICES ASSUME NEW r \in Prop, shadow'[r] \in Object
               PROVE  shadow'[r] \in objects' /\ properties'[shadow'[r]][NameOf[r]] = r
    BY DEF WrapperTracksObject, Entry
  <2>1. shadow'[r] = shadow[r] /\ r \notin Dying(o, Q)
    BY <1>3, ConstantsAssumption DEF ShadowReleased
  <2>2. KindOf[r] = "python" /\ Entry(shadow[r], r) = r /\ shadow[r] \in objects
          /\ owner[r] = shadow[r]
    BY <2>1, ProxyEntry
  <2>3. shadow[r] # o
    BY <1>1, <2>1, <2>2 DEF Dying, Dies
  <2>4. owner'[r] = shadow[r]
    BY <1>3, <2>1, <2>2 DEF OwnersReleased
  <2> QED
    BY <1>3, <1>5, <2>1, <2>2, <2>3, <2>4 DEF Coherent, Entry
<1>8. Roles'
  <2>1. \A r \in Prop : KindOf[r] # "python" => shadow'[r] = NoWrapper
    BY <1>3 DEF ShadowReleased, Inv, Roles
  <2> QED
    BY <1>3, <2>1, ReleaseRoles DEF Roles
<1> QED
  BY <1>3, <1>5, <1>6, <1>7, <1>8 DEF Inv

(* NajaProperty::destroy() by a client preserves the invariant. *)
LEMMA DestroyPropertyStep ==
  ASSUME Inv, NEW p \in Prop, DestroyProperty(p)
  PROVE  Coherent' /\ NoDangling' /\ DiesWithOwner' /\ aborted' = aborted
           /\ WrapperTracksObject' /\ Roles'
<1> DEFINE owners  == {o \in {owner[p]} \ {NoObject} :
                         KindOf[p] = "relation" => Entry(o, p) = p}
           entries == {<<h, NameOf[p]>> : h \in members[p] \cup owners}
<1>1. \A m \in Object : (Entry(m, p) = p) <=> (owner[p] = m \/ m \in members[p])
  BY DEF Inv, Coherent
<1>2. \A m \in Object, n \in PropName :
        <<m, n>> \in entries <=> n = NameOf[p] /\ (owner[p] = m \/ m \in members[p])
  BY <1>1, ConstantsAssumption DEF Inv, TypeOK
<1>3. AllPresent(entries)
  BY <1>1, ConstantsAssumption DEF AllPresent, Entry, Inv, TypeOK
<1>4. /\ properties' = Erase(entries) /\ live' = live \ {p} /\ p \in live
      /\ owner' = [owner EXCEPT ![p] = NoObject]
      /\ members' = [members EXCEPT ![p] = {}]
      /\ objects' = objects /\ shadow' = shadow /\ aborted' = aborted
      /\ KindOf[p] # "python"
  BY <1>3 DEF DestroyProperty
<1> HIDE DEF owners, entries
<1>5. ASSUME NEW m \in Object, NEW n \in PropName
      PROVE  properties'[m][n] = IF properties[m][n] = p THEN NoProp ELSE properties[m][n]
  <2>1. properties'[m][n] = IF <<m, n>> \in entries THEN NoProp ELSE properties[m][n]
    BY <1>4 DEF Erase
  <2>2. properties[m][n] = p => n = NameOf[p] /\ Entry(m, p) = p
    BY ConstantsAssumption DEF Inv, NoDangling, Entry
  <2> QED
    BY <1>1, <1>2, <2>1, <2>2 DEF Entry
<1>6. \A r \in Prop : /\ owner'[r] = IF r = p THEN NoObject ELSE owner[r]
                      /\ members'[r] = IF r = p THEN {} ELSE members[r]
  BY <1>4 DEF Inv, TypeOK
<1>7. Coherent'
  <2> SUFFICES ASSUME NEW m \in Object, NEW r \in Prop
               PROVE  (properties'[m][NameOf[r]] = r) <=> (owner'[r] = m \/ m \in members'[r])
    BY DEF Coherent, Entry
  <2>1. (properties[m][NameOf[r]] = r) <=> (owner[r] = m \/ m \in members[r])
    BY DEF Inv, Coherent, Entry
  <2>2. NameOf[r] \in PropName /\ r # NoProp /\ m # NoObject
    BY ConstantsAssumption
  <2> QED
    BY <1>5, <1>6, <2>1, <2>2
<1>8. NoDangling'
  BY <1>4, <1>5, <1>6 DEF Inv, NoDangling, TypeOK
<1>9. DiesWithOwner'
  BY <1>4, <1>6 DEF Inv, DiesWithOwner, TypeOK
<1>10. WrapperTracksObject'
  <2> SUFFICES ASSUME NEW r \in Prop, shadow[r] \in Object
               PROVE  shadow[r] \in objects /\ properties'[shadow[r]][NameOf[r]] = r
    BY <1>4 DEF WrapperTracksObject, Entry
  <2>1. KindOf[r] = "python" /\ Entry(shadow[r], r) = r /\ shadow[r] \in objects
    BY ProxyEntry
  <2>2. r # p /\ NameOf[r] \in PropName
    BY <1>4, <2>1, ConstantsAssumption
  <2> QED
    BY <1>5, <2>1, <2>2 DEF Entry
<1>11. Roles'
  BY <1>4, <1>6 DEF Inv, Roles
<1> QED
  BY <1>4, <1>7, <1>8, <1>9, <1>10, <1>11 DEF Inv

(* Making a Python wrapper preserves the invariant. *)
LEMMA LinkStep ==
  ASSUME Inv, NEW o \in Object, NEW p \in Prop, Link(o, p)
  PROVE  Coherent' /\ NoDangling' /\ DiesWithOwner' /\ aborted' = aborted
           /\ WrapperTracksObject' /\ Roles'
<1> DEFINE Q == {Entry(o, p)} \ {NoProp}
<1>1. /\ o \in objects /\ KindOf[p] = "python" /\ p \notin live /\ Put(o, p)
      /\ Entry(o, p) = NoProp /\ shadow' = [shadow EXCEPT ![p] = o]
  BY DEF Link
<1>2. /\ Entry(o, p) # p /\ owner[p] # o /\ \A q \in Q : KindOf[q] # "private"
  BY <1>1, DeadDetached, ConstantsAssumption
<1>3. /\ PutPre(o, p, Q, Dying(o, Q), NameOf[p])
      /\ PutEffect(o, p, Q, Dying(o, Q), NameOf[p])
      /\ objects' = objects /\ aborted' = aborted
  BY <1>1, <1>2, PutIsEffect
<1>4. /\ Coherent' /\ NoDangling' /\ DiesWithOwner'
      /\ \A r \in Prop :
           /\ KindOf[r] = "shared" => owner'[r] = NoObject
           /\ KindOf[r] \in {"private", "python"} => members'[r] = {}
           /\ owner'[r] \notin members'[r]
  BY <1>3, PutSafe
<1>5. \A r \in Prop : shadow'[r] = IF r = p THEN o ELSE shadow[r]
  BY <1>1 DEF Inv, TypeOK
<1>6. WrapperTracksObject'
  <2> SUFFICES ASSUME NEW r \in Prop, shadow'[r] \in Object
               PROVE  shadow'[r] \in objects' /\ properties'[shadow'[r]][NameOf[r]] = r
    BY DEF WrapperTracksObject, Entry
  <2>1. NameOf[r] \in PropName /\ Dying(o, Q) = {}
    BY <1>1, ConstantsAssumption DEF Dying
  <2>2. CASE r = p
    BY <1>1, <1>3, <1>5, <2>1, <2>2 DEF PutEffect
  <2>3. CASE r # p
    <3>1. shadow'[r] = shadow[r] /\ Entry(shadow[r], r) = r /\ shadow[r] \in objects
      BY <1>5, <2>3, ProxyEntry
    <3>2. ~(shadow[r] = o /\ NameOf[r] = NameOf[p])
      BY <1>1, <3>1, ConstantsAssumption DEF Entry
    <3>3. properties'[shadow[r]][NameOf[r]] = properties[shadow[r]][NameOf[r]]
      <4>1. PutEffect(o, p, Q, {}, NameOf[p])
        BY <1>3, <2>1
      <4>2. shadow[r] \in Object
        BY <3>1
      <4> QED
        BY ONLY <4>1, <4>2, <2>1, <3>2 DEF PutEffect
    <3> QED
      BY <1>3, <3>1, <3>3 DEF Entry
  <2> QED
    BY <2>2, <2>3
<1>7. Roles'
  BY <1>1, <1>4, <1>5 DEF Inv, Roles
<1> QED
  BY <1>3, <1>4, <1>6, <1>7 DEF Inv

(* Dropping a Python wrapper preserves the invariant. *)
LEMMA DeAllocStep ==
  ASSUME Inv, NEW p \in Prop, DeAlloc(p)
  PROVE  Coherent' /\ NoDangling' /\ DiesWithOwner' /\ aborted' = aborted
           /\ WrapperTracksObject' /\ Roles'
<1>1. \A r \in Prop : shadow'[r] = IF r = p THEN NoWrapper ELSE shadow[r]
  BY DEF DeAlloc, Inv, TypeOK
<1>2. CASE shadow[p] = NoObject
  <2>1. /\ objects' = objects /\ live' = live /\ properties' = properties
        /\ owner' = owner /\ members' = members /\ aborted' = aborted
    BY <1>2 DEF DeAlloc
  <2> QED
    BY <1>1, <2>1, ConstantsAssumption DEF Inv, Coherent, Entry, NoDangling, DiesWithOwner,
       WrapperTracksObject, Roles
<1>3. CASE shadow[p] # NoObject
  <2> DEFINE o == shadow[p]
  <2>1. o \in Object /\ Remove(o, p)
    BY <1>3 DEF DeAlloc, Inv, TypeOK
  <2>2. KindOf[p] = "python" /\ Entry(o, p) = p /\ o \in objects
    BY <2>1, ProxyEntry
  <2> HIDE DEF o
  <2>3. /\ Coherent' /\ NoDangling' /\ DiesWithOwner' /\ aborted' = aborted /\ objects' = objects
        /\ owner' = OwnersReleased(o, {p}) /\ members' = MembersReleased(o, {p})
    BY <2>1, <2>2, RemoveSafe
  <2>4. WrapperTracksObject'
    <3> SUFFICES ASSUME NEW r \in Prop, shadow'[r] \in Object
                 PROVE  shadow'[r] \in objects' /\ properties'[shadow'[r]][NameOf[r]] = r
      BY DEF WrapperTracksObject, Entry
    <3>1. r # p /\ shadow'[r] = shadow[r]
      BY <1>1, ConstantsAssumption
    <3>2. owner[r] = shadow[r] /\ shadow[r] \in objects
      BY <3>1, ProxyEntry
    <3>3. owner'[r] = owner[r]
      BY <2>3, <3>1 DEF OwnersReleased, Dying
    <3> QED
      BY <2>3, <3>1, <3>2, <3>3 DEF Coherent, Entry
  <2>5. Roles'
    BY <1>1, <2>1, <2>2, <2>3, ReleaseRoles DEF Inv, Roles
  <2> QED
    BY <2>3, <2>4, <2>5 DEF Inv
<1> QED
  BY <1>2, <1>3

(* Every step of clients that leave only groups they are in preserves the   *)
(* invariant.                                                               *)
LEMMA InvStep ==
  ASSUME ~LeavesForeign, Inv, [Next]_vars
  PROVE  Inv'
<1>1. TypeOK'
  BY TypeStep DEF Inv
<1>2. CASE UNCHANGED vars
  BY <1>2 DEF vars, Inv, TypeOK, Coherent, Entry, NoDangling, DiesWithOwner,
              WrapperTracksObject, Roles
<1>3. CASE Next
  <2>1. ASSUME NEW o \in Object, CreateObject(o) \/ DestroyObject(o) PROVE Inv'
    <3>1. CASE DestroyObject(o)
      BY <3>1, <1>1, DestroyObjectStep DEF Inv
    <3>2. CASE CreateObject(o)
      BY <3>2, <1>1 DEF CreateObject, Inv, TypeOK, Coherent, Entry, NoDangling,
                        DiesWithOwner, WrapperTracksObject, Roles
    <3> QED
      BY <2>1, <3>1, <3>2
  <2>2. ASSUME NEW p \in Prop, CreateShared(p) \/ DestroyProperty(p) \/ DeAlloc(p) PROVE Inv'
    <3>1. CASE CreateShared(p)
      BY <3>1, <1>1 DEF CreateShared, Inv, TypeOK, Coherent, Entry, NoDangling,
                        DiesWithOwner, WrapperTracksObject, Roles
    <3>2. CASE DestroyProperty(p)
      BY <3>2, <1>1, DestroyPropertyStep DEF Inv
    <3>3. CASE DeAlloc(p)
      BY <3>3, <1>1, DeAllocStep DEF Inv
    <3> QED
      BY <2>2, <3>1, <3>2, <3>3
  <2>3. ASSUME NEW o \in Object, NEW p \in Prop,
               \/ CreatePrivate(o, p) \/ CreateRelation(o, p) \/ Join(p, o)
               \/ Leave(p, o) \/ Link(o, p)
        PROVE  Inv'
    <3>1. CASE CreatePrivate(o, p)
      BY <3>1, <1>1, CreatePrivateStep DEF Inv
    <3>2. CASE CreateRelation(o, p) \/ Join(p, o)
      BY <3>2, <1>1, JoinSteps DEF Inv
    <3>3. CASE Leave(p, o)
      BY <3>3, <1>1, LeaveStep DEF Inv
    <3>4. CASE Link(o, p)
      BY <3>4, <1>1, LinkStep DEF Inv
    <3> QED
      BY <2>3, <3>1, <3>2, <3>3, <3>4
  <2> QED
    BY <1>3, <2>1, <2>2, <2>3 DEF Next
<1> QED
  BY <1>2, <1>3

(* The invariant holds before the first object exists. *)
LEMMA InvInit == Init => Inv
<1> SUFFICES ASSUME Init PROVE Inv
  OBVIOUS
<1>1. /\ properties = [o \in Object |-> [n \in PropName |-> NoProp]]
      /\ \A p \in Prop : owner[p] = NoObject /\ members[p] = {} /\ shadow[p] = NoWrapper
      /\ live = {} /\ ~aborted
  BY DEF Init
<1>2. TypeOK
  <2>1. properties \in [Object -> [PropName -> Prop \cup {NoProp}]]
    BY DEF Init
  <2>2. /\ owner \in [Prop -> Object \cup {NoObject}]
        /\ members \in [Prop -> SUBSET Object]
        /\ shadow \in [Prop -> Object \cup {NoObject, NoWrapper}]
    BY DEF Init
  <2> QED
    BY <2>1, <2>2 DEF Init, TypeOK
<1>3. Coherent /\ NoDangling
  BY <1>1, ConstantsAssumption DEF Coherent, NoDangling, Entry
<1> QED
  BY <1>1, <1>2, <1>3, ConstantsAssumption
     DEF Inv, DiesWithOwner, WrapperTracksObject, Roles

(* As long as no client leaves a group it is not in, objects and properties *)
(* agree about who is attached to whom, no pointer dangles, relations die   *)
(* with their owner and wrappers follow their objects.                      *)
THEOREM AttachmentSafe ==
  ASSUME ~LeavesForeign
  PROVE  Spec => [](Coherent /\ NoDangling /\ DiesWithOwner /\ WrapperTracksObject)
<1>1. Inv /\ [Next]_vars => Inv'
  BY InvStep
<1>2. Inv => Coherent /\ NoDangling /\ DiesWithOwner /\ WrapperTracksObject
  BY DEF Inv
<1> QED
  BY <1>1, <1>2, InvInit, PTL DEF Spec

(* No map, owner or member set names anything destroyed: the destroy()      *)
(* cascades clear every entry of what dies.                                 *)
COROLLARY NoPointerDangles ==
  ASSUME ~LeavesForeign
  PROVE  Spec => []NoDangling
BY AttachmentSafe, PTL

(* A relation, a private property or a proxy never outlives the object it   *)
(* is attached to (NajaObject::preDestroy), through every cascade.          *)
COROLLARY AttachedDieWithOwner ==
  ASSUME ~LeavesForeign
  PROVE  Spec => []DiesWithOwner
BY AttachmentSafe, PTL

(* A Python wrapper with a pointer wraps an existing object that holds its  *)
(* proxy.                                                                   *)
COROLLARY WrappersTrackObjects ==
  ASSUME ~LeavesForeign
  PROVE  Spec => []WrapperTracksObject
BY AttachmentSafe, PTL

(* No call leaves a group behind that has lost its last member: whichever   *)
(* call takes the last member away destroys the group                       *)
(* (NajaSharedProperty::onReleasedBy), whatever clients do.                 *)
THEOREM GroupsDieWithLastMember == Spec => NoMemberlessGroup
<1> DEFINE A == \A p \in Prop :
                  KindOf[p] = "shared" /\ members[p] # {} /\ members'[p] = {} => p \notin live'
<1>1. ASSUME TypeOK, NEW o \in Object, NEW Q, NEW p \in Prop, KindOf[p] = "shared",
             members[p] # {}, MembersReleased(o, Q)[p] = {}
      PROVE  p \in Dying(o, Q)
  BY <1>1 DEF MembersReleased, Dying, Dies
<1>2. ASSUME TypeOK, NEW o \in Object, NEW p \in Prop, Put(o, p) \/ Remove(o, p) PROVE A
  <2> DEFINE Q == {Entry(o, p)} \ {NoProp}
  <2>1. CASE Abort
    BY <2>1 DEF Abort
  <2>2. CASE Put(o, p) /\ ~Abort
    <3>1. /\ live' = (live \ Dying(o, Q)) \cup {p}
          /\ members' = [MembersReleased(o, Q) EXCEPT ![p] = CapturedMembers(o, p)]
      BY <2>2 DEF Put
    <3>2. MembersReleased(o, Q) \in [Prop -> SUBSET Object]
      BY <1>2, CapturedTypes, HelperTypes
    <3>3. KindOf[p] = "shared" => CapturedMembers(o, p) # {}
      BY DEF CapturedMembers
    <3> SUFFICES ASSUME NEW r \in Prop, KindOf[r] = "shared", members[r] # {}, members'[r] = {}
                 PROVE  r \notin live'
      OBVIOUS
    <3>4. r # p /\ MembersReleased(o, Q)[r] = {}
      BY <3>1, <3>2, <3>3
    <3> HIDE DEF Q
    <3>5. r \in Dying(o, Q)
      BY <1>1, <1>2, <3>4
    <3> QED
      BY <3>1, <3>4, <3>5
  <2>3. CASE Remove(o, p) /\ ~Abort
    <3>1. live' = live \ Dying(o, {p}) /\ members' = MembersReleased(o, {p})
      BY <2>3 DEF Remove
    <3> QED
      BY <1>1, <1>2, <3>1
  <2> QED
    BY <1>2, <2>1, <2>2, <2>3
<1>3. ASSUME TypeOK, NEW o \in Object, DestroyObject(o) PROVE A
  <2> DEFINE Q == {properties[o][n] : n \in PropName} \ {NoProp}
  <2>1. CASE Abort
    BY <2>1 DEF Abort
  <2>2. CASE ~Abort
    <3>1. live' = live \ Dying(o, Q) /\ members' = MembersReleased(o, Q)
      BY <1>3, <2>2 DEF DestroyObject
    <3> HIDE DEF Q
    <3> QED
      BY <1>1, <1>3, <3>1
  <2> QED
    BY <2>1, <2>2
<1>4. ASSUME TypeOK, NEW p \in Prop, DestroyProperty(p) PROVE A
  <2>1. CASE Abort
    BY <2>1 DEF Abort
  <2>2. CASE ~Abort
    <3>1. live' = live \ {p} /\ members' = [members EXCEPT ![p] = {}]
      BY <1>4, <2>2 DEF DestroyProperty
    <3> QED
      BY <1>4, <3>1 DEF TypeOK
  <2> QED
    BY <2>1, <2>2
<1>5. ASSUME TypeOK, NEW p \in Prop, DeAlloc(p) PROVE A
  <2>1. CASE shadow[p] = NoObject
    BY <1>5, <2>1 DEF DeAlloc
  <2>2. CASE shadow[p] # NoObject
    <3>1. shadow[p] \in Object /\ Remove(shadow[p], p)
      BY <1>5, <2>2 DEF DeAlloc, TypeOK
    <3> QED
      BY <1>2, <1>5, <3>1
  <2> QED
    BY <2>1, <2>2
<1>6. ASSUME TypeOK, Next PROVE A
  <2>1. ASSUME NEW o \in Object, CreateObject(o) \/ DestroyObject(o) PROVE A
    BY <2>1, <1>3, <1>6 DEF CreateObject
  <2>2. ASSUME NEW p \in Prop, CreateShared(p) \/ DestroyProperty(p) \/ DeAlloc(p) PROVE A
    BY <2>2, <1>4, <1>5, <1>6 DEF CreateShared
  <2>3. ASSUME NEW o \in Object, NEW p \in Prop,
               \/ CreatePrivate(o, p) \/ CreateRelation(o, p) \/ Join(p, o)
               \/ Leave(p, o) \/ Link(o, p)
        PROVE  A
    <3>1. CASE CreatePrivate(o, p)
      BY <3>1 DEF CreatePrivate
    <3>2. CASE ~CreatePrivate(o, p)
      <4>1. Put(o, p) \/ Remove(o, p)
        BY <2>3, <3>2 DEF CreateRelation, Join, Leave, Link
      <4> QED
        BY <1>2, <1>6, <4>1
    <3> QED
      BY <3>1, <3>2
  <2> QED
    BY <1>6, <2>1, <2>2, <2>3 DEF Next
<1>7. TypeOK /\ [Next]_vars => [A]_vars
  BY <1>6
<1> QED
  BY <1>7, TypeCorrect, PTL DEF Spec, NoMemberlessGroup

(* The assert of NajaObject::removeProperty() fails in a put() over a       *)
(* private property and in no other call: every other removal, however deep *)
(* in a cascade, finds its entry.                                           *)
THEOREM OnlyReplacingPrivateAborts ==
  ASSUME ~LeavesForeign
  PROVE  Spec => AbortsOnlyOverPrivate
<1> DEFINE A == aborted' /\ ~aborted =>
                  \E o \in Object, p \in Prop :
                    /\ CreateRelation(o, p) \/ Join(p, o)
                    /\ Entry(o, p) \in Prop /\ KindOf[Entry(o, p)] = "private"
<1>1. ASSUME Inv, Next PROVE A
  <2>1. ASSUME NEW o \in Object, CreateObject(o) \/ DestroyObject(o) PROVE aborted' = aborted
    BY <1>1, <2>1, DestroyObjectStep DEF CreateObject
  <2>2. ASSUME NEW p \in Prop, CreateShared(p) \/ DestroyProperty(p) \/ DeAlloc(p)
        PROVE  aborted' = aborted
    BY <1>1, <2>2, DestroyPropertyStep, DeAllocStep DEF CreateShared
  <2>3. ASSUME NEW o \in Object, NEW p \in Prop,
               CreatePrivate(o, p) \/ Leave(p, o) \/ Link(o, p)
        PROVE  aborted' = aborted
    BY <1>1, <2>3, CreatePrivateStep, LeaveStep, LinkStep
  <2>4. ASSUME NEW o \in Object, NEW p \in Prop, CreateRelation(o, p) \/ Join(p, o) PROVE A
    BY <1>1, <2>4, JoinSteps
  <2> QED
    BY <1>1, <2>1, <2>2, <2>3, <2>4 DEF Next
<1>2. Inv /\ [Next]_vars => Inv'
  BY InvStep
<1>3. Inv /\ [Next]_vars => [A]_vars
  BY <1>1
<1> QED
  BY <1>2, <1>3, InvInit, PTL DEF Spec, AbortsOnlyOverPrivate
=============================================================================
