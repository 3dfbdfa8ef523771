----------------------------- MODULE SNLNetlist -----------------------------
(***************************************************************************)
(* The structural netlist (src/nl/netlist/snl): designs, their terminals,  *)
(* nets and instances, and the connections between them.                   *)
(*                                                                         *)
(* Objects are named the way NLID names them, by IDs that are unique       *)
(* inside their design.  A terminal is an ID of TermID that stands for the *)
(* ID, name and direction setModel() compares; buses are their bits.  A    *)
(* net component is a triple <<d, j, k>>, the NLID of terminal k of design *)
(* d (j = Self) or of the instance terminal of instance j of d for         *)
(* terminal k of its model.                                                *)
(*                                                                         *)
(* Every relation is kept twice and by raw pointers: a component knows its *)
(* net and a net its components, an instance its model and a model its     *)
(* slave instances, an instance terminal its model's terminal.             *)
(*                                                                         *)
(* An instance keeps its terminals in the vector instTerms_, which it      *)
(* fills from the end and reads at the flat ID of the model's terminal.    *)
(* Flat IDs are never renewed, so that the two agree only while clients    *)
(* avoid the Habits; SNLInterface has the same vectors with buses and      *)
(* without nets.                                                           *)
(***************************************************************************)
EXTENDS Integers, FiniteSets

CONSTANTS
  Design,           \* designs
  Primitive,        \* the designs of type Primitive
  MaxTermID,        \* bound: terminal IDs are 0 .. MaxTermID
  MaxNets,          \* bound: the nets of all designs together
  NetID, InstID,
  Self,             \* the instance ID of a design's own terminals
  NoDesign, NoNet,  \* null pointers
  PrimitiveEdits,   \* what clients do to primitives that have instances
  Habits            \* what clients do to designs whose flat IDs have holes

ASSUME ConstantsAssumption ==
  /\ Primitive \subseteq Design
  /\ NoDesign \notin Design
  /\ Self \notin InstID
  /\ NoNet \notin Design \X NetID
  /\ PrimitiveEdits \subseteq {"destroy", "grow", "shrink"}
  /\ MaxTermID \in Nat /\ MaxNets \in Nat
  /\ Habits \subseteq {"instantiate", "grow", "exchange", "outOfOrder"}

TermID    == 0 .. MaxTermID
InstRef   == Design \X InstID
NetRef    == Design \X NetID
Component == Design \X (InstID \cup {Self}) \X TermID

VARIABLES
  designs,     \* the designs that exist
  terms,       \* SNLDesign::terms_
  nets,        \* SNLDesign::nets_
  instances,   \* SNLDesign::instances_
  slaves,      \* SNLDesign::slaveInstances_
  model,       \* SNLInstance::model_
  bitTerm,     \* the design whose terminal SNLInstTerm::bitTerm_ is, for
               \* each instance and terminal; NoDesign: no instance terminal
  net,         \* SNLNetComponent::net_
  components,  \* SNLBitNet::components_
  flatID,      \* SNLScalarTerm::flatID_
  slot,        \* the position of each instance terminal in instTerms_
  size,        \* SNLInstance::instTerms_.size()
  fault        \* an assert failed, or an instance terminal outlived its
               \* model's terminal: what follows is not modelled

layout == <<flatID, slot, size>>

vars == <<designs, terms, nets, instances, slaves, model, bitTerm, net, components,
          flatID, slot, size, fault>>

-----------------------------------------------------------------------------
Instances == {i \in InstRef : i[2] \in instances[i[1]]}

Nets == {n \in NetRef : n[2] \in nets[n[1]]}

(* The instance of an instance terminal. *)
InstanceOf(c) == <<c[1], c[2]>>

Components ==
  {c \in Component :
     IF c[2] = Self THEN c[3] \in terms[c[1]]
     ELSE InstanceOf(c) \in Instances /\ bitTerm[InstanceOf(c)][c[3]] # NoDesign}

TermsOf(d) == {c \in Components : c[1] = d /\ c[2] = Self}

InstTermsOf(I) == {c \in Components : InstanceOf(c) \in I}

(* A primitive does not know its instances: editing or destroying one that *)
(* has some reaches none of them.                                          *)
Allowed(d, edit) ==
  d \in Primitive /\ (\E i \in Instances : model[i] = d) => edit \in PrimitiveEdits

(* The instance terminals instance creation builds for model m. *)
Bound(m) == [k \in TermID |-> IF k \in terms[m] THEN m ELSE NoDesign]

Unbound == [k \in TermID |-> NoDesign]

(* The flat ID addTerm() gives: the one after the terminal with the last   *)
(* ID.                                                                     *)
LastID(d) == CHOOSE k \in terms[d] : \A j \in terms[d] : j <= k

NextFlatID(d) == IF terms[d] = {} THEN 0 ELSE flatID[d][LastID(d)] + 1

(* The place of terminal k of m in getBitTerms(). *)
Rank(m, k) == Cardinality({j \in terms[m] : j < k})

(* Mutant: the terminals are pushed in the opposite order. *)
MutPushed(m) ==
  [k \in TermID |-> IF k \in terms[m] THEN Cardinality({j \in terms[m] : j > k}) ELSE 0]

(* The positions of the instance terminals in the vector instance creation *)
(* fills.                                                                  *)
Pushed(m) == [k \in TermID |-> IF k \in terms[m] THEN Rank(m, k) ELSE 0]

NoSlots == [k \in TermID |-> 0]

(* The flat IDs of m have no holes. *)
Compact(m) == \A k \in terms[m] : flatID[m][k] = Rank(m, k)

(* getInstTermByFlatID(s) of the instances of I. *)
AtPosition(I, s) == {c \in InstTermsOf(I) : slot[InstanceOf(c)][c[3]] = s}

(* Mutant: the net's own set keeps the component. *)
MutCut(C, N) ==
  LET D == C \cup UNION {components[n] : n \in N}
  IN  /\ net' = [c \in Component |-> IF c \in D THEN NoNet ELSE net[c]]
      /\ components' = [n \in NetRef |-> IF n \in N THEN {} ELSE components[n]]

(* Mutant: empties the nets the components were on. *)
MutCutNets(C, N) ==
  LET M == N \cup {n \in NetRef : \E c \in C : net[c] = n}
  IN  /\ net' = [c \in Component |->
                   IF c \in C \/ \E n \in M : c \in components[n] THEN NoNet ELSE net[c]]
      /\ components' = [n \in NetRef |-> IF n \in M THEN {} ELSE components[n]]

(* setNet(nullptr) on the components of C and on those of the nets of N,   *)
(* which are destroyed.                                                    *)
Cut(C, N) ==
  LET D == C \cup UNION {components[n] : n \in N}
  IN  /\ net' = [c \in Component |-> IF c \in D THEN NoNet ELSE net[c]]
      /\ components' = [n \in NetRef |->
           IF n \in N THEN {} ELSE components[n] \ {c \in D : net[c] = n}]

WithinBounds == Cardinality(Nets) <= MaxNets

-----------------------------------------------------------------------------
CreateDesign(d) ==
  /\ ~fault
  /\ d \notin designs
  /\ designs' = designs \cup {d}
  /\ UNCHANGED <<terms, nets, instances, slaves, model, bitTerm, net, components>>
  /\ UNCHANGED <<layout, fault>>

(* Mutant: slaveInstances_ are not destroyed with their model. *)
MutDoomed(d) == {i \in Instances : i[1] = d}

(* The instances that go with d: its own, and the slave instances if d is  *)
(* not a primitive.                                                        *)
Doomed(d) ==
  {i \in Instances : i[1] = d}
    \cup (IF d \in Primitive THEN {} ELSE slaves[d])

(* SNLDesign::commonPreDestroy(): instances, slave instances, terminals,   *)
(* then nets.                                                              *)
DestroyDesign(d) ==
  /\ ~fault
  /\ d \in designs
  /\ Allowed(d, "destroy")
  /\ designs' = designs \ {d}
  /\ terms' = [terms EXCEPT ![d] = {}]
  /\ nets' = [nets EXCEPT ![d] = {}]
  /\ instances' = [e \in Design |-> {j \in instances[e] : <<e, j>> \notin Doomed(d)}]
  /\ slaves' = [e \in Design |-> slaves[e] \ Doomed(d)]
  /\ model' = [i \in InstRef |-> IF i \in Doomed(d) THEN NoDesign ELSE model[i]]
  /\ bitTerm' = [i \in InstRef |-> IF i \in Doomed(d) THEN Unbound ELSE bitTerm[i]]
  /\ flatID' = [flatID EXCEPT ![d] = NoSlots]
  /\ slot' = [i \in InstRef |-> IF i \in Doomed(d) THEN NoSlots ELSE slot[i]]
  /\ size' = [i \in InstRef |-> IF i \in Doomed(d) THEN 0 ELSE size[i]]
  /\ Cut(TermsOf(d) \cup InstTermsOf(Doomed(d)),
         {n \in Nets : n[1] = d})
  /\ UNCHANGED fault

(* addTerm() pushes an instance terminal at the end of the vector of each  *)
(* slave instance.                                                         *)
CreateTerm(d, k) ==
  /\ ~fault
  /\ d \in designs
  /\ k \notin terms[d]
  /\ Allowed(d, "grow")
  /\ "outOfOrder" \in Habits \/ \A j \in terms[d] : j < k
  /\ "grow" \in Habits \/ \A i \in slaves[d] : size[i] = NextFlatID(d)
  /\ terms' = [terms EXCEPT ![d] = @ \cup {k}]
  /\ flatID' = [flatID EXCEPT ![d][k] = NextFlatID(d)]
  /\ bitTerm' = [i \in InstRef |->
                   IF i \in slaves[d] THEN [bitTerm[i] EXCEPT ![k] = d] ELSE bitTerm[i]]
  /\ slot' = [i \in InstRef |->
                IF i \in slaves[d] THEN [slot[i] EXCEPT ![k] = size[i]] ELSE slot[i]]
  /\ size' = [i \in InstRef |-> IF i \in slaves[d] THEN size[i] + 1 ELSE size[i]]
  /\ UNCHANGED <<designs, nets, instances, slaves, model, net, components, fault>>

(* Mutant: the instance terminals of the slave instances stay. *)
MutDestroyTerm(d, k) ==
  /\ ~fault
  /\ d \in designs
  /\ k \in terms[d]
  /\ Allowed(d, "shrink")
  /\ terms' = [terms EXCEPT ![d] = @ \ {k}]
  /\ flatID' = [flatID EXCEPT ![d][k] = 0]
  /\ Cut({<<d, Self, k>>}, {})
  /\ UNCHANGED <<designs, nets, instances, slaves, model, bitTerm, slot, size, fault>>

(* preDestroy() disconnects the terminal.  removeTerm() destroys, in every *)
(* slave instance, what is at the terminal's flat ID: asserted to be       *)
(* inside the vector, it may be null or the terminal of another one.       *)
DestroyTerm(d, k) ==
  LET s    == flatID[d][k]
      gone == AtPosition(slaves[d], s)
  IN  /\ ~fault
      /\ d \in designs
      /\ k \in terms[d]
      /\ Allowed(d, "shrink")
      /\ terms' = [terms EXCEPT ![d] = @ \ {k}]
      /\ flatID' = [flatID EXCEPT ![d][k] = 0]
      /\ bitTerm' = [i \in InstRef |-> [x \in TermID |->
                       IF <<i[1], i[2], x>> \in gone THEN NoDesign ELSE bitTerm[i][x]]]
      /\ slot' = [i \in InstRef |-> [x \in TermID |->
                    IF <<i[1], i[2], x>> \in gone THEN 0 ELSE slot[i][x]]]
      /\ Cut({<<d, Self, k>>} \cup gone, {})
      /\ fault' = \/ \E i \in slaves[d] : s >= size[i]
                  \/ \E i \in Instances : bitTerm'[i][k] = d
      /\ UNCHANGED <<designs, nets, instances, slaves, model, size>>

CreateNet(d, n) ==
  /\ ~fault
  /\ d \in designs
  /\ n \notin nets[d]
  /\ nets' = [nets EXCEPT ![d] = @ \cup {n}]
  /\ UNCHANGED <<designs, terms, instances, slaves, model, bitTerm, net, components>>
  /\ UNCHANGED <<layout, fault>>
  /\ WithinBounds'

DestroyNet(d, n) ==
  /\ ~fault
  /\ n \in nets[d]
  /\ nets' = [nets EXCEPT ![d] = @ \ {n}]
  /\ Cut({}, {<<d, n>>})
  /\ UNCHANGED <<designs, terms, instances, slaves, model, bitTerm, layout, fault>>

(* slaveInstances_ of every design when the instances of I enter their     *)
(* models' sets: primitives keep none.                                     *)
Registered(I, m) ==
  [e \in Design |-> slaves[e] \cup {i \in I : e = m[i] /\ e \notin Primitive}]

(* commonPostCreate() fills the vector without holes. *)
CreateInstance(d, j, m) ==
  /\ ~fault
  /\ d \in designs \ Primitive
  /\ m \in designs
  /\ j \notin instances[d]
  /\ "instantiate" \in Habits \/ Compact(m)
  /\ instances' = [instances EXCEPT ![d] = @ \cup {j}]
  /\ model' = [model EXCEPT ![<<d, j>>] = m]
  /\ slaves' = Registered({<<d, j>>}, model')
  /\ bitTerm' = [bitTerm EXCEPT ![<<d, j>>] = Bound(m)]
  /\ slot' = [slot EXCEPT ![<<d, j>>] = Pushed(m)]
  /\ size' = [size EXCEPT ![<<d, j>>] = Cardinality(terms[m])]
  /\ UNCHANGED <<designs, terms, nets, net, components, flatID, fault>>

(* preDestroy(): out of the model's and the design's sets, then the        *)
(* instance terminals.                                                     *)
DestroyInstance(d, j) ==
  LET i == <<d, j>>
  IN  /\ ~fault
      /\ i \in Instances
      /\ slaves' = [slaves EXCEPT ![model[i]] =
                      IF model[i] \in Primitive THEN @ ELSE @ \ {i}]
      /\ instances' = [instances EXCEPT ![d] = @ \ {j}]
      /\ model' = [model EXCEPT ![i] = NoDesign]
      /\ bitTerm' = [bitTerm EXCEPT ![i] = Unbound]
      /\ slot' = [slot EXCEPT ![i] = NoSlots]
      /\ size' = [size EXCEPT ![i] = 0]
      /\ Cut(InstTermsOf({i}), {})
      /\ UNCHANGED <<designs, terms, nets, flatID, fault>>

(* What setModel() compares: IDs, not flat IDs. *)
SameInterface(d, e) ==
  /\ terms[d] = terms[e]
  /\ "exchange" \in Habits \/ \A k \in terms[d] : flatID[d][k] = flatID[e][k]

(* Mutant: slaveInstances_ of the old and the new model are not updated. *)
MutSetModel(d, j, m) ==
  LET i == <<d, j>>
  IN  /\ ~fault
      /\ i \in Instances
      /\ m \in designs \ {model[i]}
      /\ SameInterface(model[i], m)
      /\ bitTerm' = [bitTerm EXCEPT ![i] =
                       [k \in TermID |-> IF @[k] = NoDesign THEN NoDesign ELSE m]]
      /\ model' = [model EXCEPT ![i] = m]
      /\ UNCHANGED <<designs, terms, nets, instances, slaves, net, components, layout, fault>>

(* setModel(): strict mode, the interfaces must be equal; the instance     *)
(* terminals are bound to the new model and keep nets and positions.       *)
SetModel(d, j, m) ==
  LET i   == <<d, j>>
      old == [e \in Design |-> IF e = model[i] /\ e \notin Primitive
                                 THEN slaves[e] \ {i} ELSE slaves[e]]
  IN  /\ ~fault
      /\ i \in Instances
      /\ m \in designs \ {model[i]}
      /\ SameInterface(model[i], m)
      /\ bitTerm' = [bitTerm EXCEPT ![i] =
                       [k \in TermID |-> IF @[k] = NoDesign THEN NoDesign ELSE m]]
      /\ slaves' = [old EXCEPT ![m] = IF m \in Primitive THEN @ ELSE @ \cup {i}]
      /\ model' = [model EXCEPT ![i] = m]
      /\ UNCHANGED <<designs, terms, nets, instances, net, components, layout, fault>>

(* NET_COMPONENT_SET_NET: n is a net of the component's design or null. *)
SetNet(c, n) ==
  /\ ~fault
  /\ c \in Components
  /\ n \in {x \in Nets : x[1] = c[1]} \cup {NoNet}
  /\ n # net[c]
  /\ net' = [net EXCEPT ![c] = n]
  /\ components' = [x \in NetRef |->
       CASE x = net[c] -> components[x] \ {c}
         [] x = n      -> components[x] \cup {c}
         [] OTHER      -> components[x]]
  /\ UNCHANGED <<designs, terms, nets, instances, slaves, model, bitTerm, layout, fault>>

(* The component of design e with the IDs of c. *)
InClone(e, c) == <<e, c[2], c[3]>>

(* What cloneComponents() finds in e for component c: a terminal by its    *)
(* ID, an instance terminal at the flat ID of its model's terminal in the  *)
(* newly filled vector.  Beyond the end of the vector an assert fails.     *)
Counterparts(e, c) ==
  IF c[2] = Self THEN {InClone(e, c)}
  ELSE LET m == model[InstanceOf(c)]
       IN  {<<e, c[2], k>> : k \in {x \in terms[m] : Rank(m, x) = flatID[m][c[3]]}}

(* Mutant: instance terminals are left unconnected. *)
MutCloneComponents(d, e) ==
  [n \in NetRef |->
     IF n[1] = e /\ n[2] \in nets[d]
       THEN {InClone(e, c) : c \in {x \in components[<<d, n[2]>>] : x[2] = Self}}
       ELSE components[n]]

(* cloneComponents(): the nets of clone e are given what is found there    *)
(* for the components of the original's nets.                              *)
CloneComponents(d, e) ==
  [n \in NetRef |->
     IF n[1] = e /\ n[2] \in nets[d]
       THEN UNION {Counterparts(e, c) : c \in components[<<d, n[2]>>]} ELSE components[n]]

(* cloneToLibrary(): terminals with their flat IDs, instances (registered  *)
(* with their models, their vectors filled), then nets; primitives cannot  *)
(* be cloned.                                                              *)
CloneDesign(d, e) ==
  LET copies    == {<<e, j>> : j \in instances[d]}
      Source(i) == model[<<d, i[2]>>]
  IN  /\ ~fault
      /\ d \in designs \ Primitive
      /\ e \in Design \ (designs \cup Primitive)
      /\ "instantiate" \in Habits \/ \A j \in instances[d] : Compact(model[<<d, j>>])
      /\ designs' = designs \cup {e}
      /\ terms' = [terms EXCEPT ![e] = terms[d]]
      /\ flatID' = [flatID EXCEPT ![e] = flatID[d]]
      /\ nets' = [nets EXCEPT ![e] = nets[d]]
      /\ instances' = [instances EXCEPT ![e] = instances[d]]
      /\ model' = [i \in InstRef |-> IF i \in copies THEN Source(i) ELSE model[i]]
      /\ slaves' = Registered(copies, model')
      /\ bitTerm' = [i \in InstRef |-> IF i \in copies THEN Bound(Source(i)) ELSE bitTerm[i]]
      /\ slot' = [i \in InstRef |-> IF i \in copies THEN Pushed(Source(i)) ELSE slot[i]]
      /\ size' = [i \in InstRef |-> IF i \in copies THEN Cardinality(terms[Source(i)]) ELSE size[i]]
      /\ components' = CloneComponents(d, e)
      /\ net' = [c \in Component |->
           IF c[1] = e /\ \E n \in nets[d] : c \in components'[<<e, n>>]
             THEN <<e, CHOOSE n \in nets[d] : c \in components'[<<e, n>>]>>
             ELSE net[c]]
      /\ fault' = \E n \in nets[d] : \E c \in components[<<d, n>>] : Counterparts(e, c) = {}
      /\ WithinBounds'

-----------------------------------------------------------------------------
Init ==
  /\ designs = {}
  /\ terms = [d \in Design |-> {}]
  /\ nets = [d \in Design |-> {}]
  /\ instances = [d \in Design |-> {}]
  /\ slaves = [d \in Design |-> {}]
  /\ model = [i \in InstRef |-> NoDesign]
  /\ bitTerm = [i \in InstRef |-> Unbound]
  /\ net = [c \in Component |-> NoNet]
  /\ components = [n \in NetRef |-> {}]
  /\ flatID = [d \in Design |-> NoSlots]
  /\ slot = [i \in InstRef |-> NoSlots]
  /\ size = [i \in InstRef |-> 0]
  /\ fault = FALSE

DesignStep(d) ==
  \/ CreateDesign(d)
  \/ DestroyDesign(d)
  \/ \E e \in Design : CloneDesign(d, e)

TermStep(d, k) == CreateTerm(d, k) \/ DestroyTerm(d, k)

NetStep(d, n) == CreateNet(d, n) \/ DestroyNet(d, n)

InstanceStep(d, j) ==
  \/ DestroyInstance(d, j)
  \/ \E m \in Design : CreateInstance(d, j, m) \/ SetModel(d, j, m)

Next ==
  \/ \E d \in Design : DesignStep(d)
  \/ \E d \in Design, k \in TermID : TermStep(d, k)
  \/ \E d \in Design, n \in NetID : NetStep(d, n)
  \/ \E d \in Design, j \in InstID : InstanceStep(d, j)
  \/ \E c \in Component, n \in NetRef \cup {NoNet} : SetNet(c, n)

Spec == Init /\ [][Next]_vars

-----------------------------------------------------------------------------
TypeOK ==
  /\ designs \subseteq Design
  /\ terms \in [Design -> SUBSET TermID]
  /\ nets \in [Design -> SUBSET NetID]
  /\ instances \in [Design -> SUBSET InstID]
  /\ slaves \in [Design -> SUBSET InstRef]
  /\ model \in [InstRef -> Design \cup {NoDesign}]
  /\ bitTerm \in [InstRef -> [TermID -> Design \cup {NoDesign}]]
  /\ net \in [Component -> NetRef \cup {NoNet}]
  /\ components \in [NetRef -> SUBSET Component]
  /\ flatID \in [Design -> [TermID -> Nat]]
  /\ slot \in [InstRef -> [TermID -> Nat]]
  /\ size \in [InstRef -> Nat]
  /\ fault \in BOOLEAN

(* Every object is in a design that exists and every instance has a model  *)
(* that exists: no destroy() leaves model_ or design_ dangling.            *)
OwnersLive ==
  /\ \A d \in Design \ designs : terms[d] = {} /\ nets[d] = {} /\ instances[d] = {}
  /\ \A i \in Instances : model[i] \in designs

(* A component's net_ and that net's components_ agree, whichever side an  *)
(* operation started from.                                                 *)
ConnectionsAgree ==
  \A c \in Component, n \in NetRef : net[c] = n <=> c \in components[n]

(* What is connected exists, and a connection never leaves its design:     *)
(* SNLBitNet::getComponents() returns live terminals of the net's design.  *)
ConnectionsLive ==
  \A c \in Component : net[c] # NoNet =>
    /\ c \in Components
    /\ net[c] \in Nets
    /\ net[c][1] = c[1]

(* No raw pointer of the netlist dangles: not design_ or model_, and not   *)
(* net_ or the entries of components_ after a destroy() on either side.    *)
ReferencesLive == OwnersLive /\ ConnectionsLive

(* slaveInstances_ of a non-primitive design are exactly its instances,    *)
(* so that an edit of its interface or its destruction reaches them all.   *)
SlavesAgree ==
  \A d \in Design :
    slaves[d] = IF d \in Primitive THEN {} ELSE {i \in Instances : model[i] = d}

(* An instance has one terminal for each terminal of its model, bound to   *)
(* that model and to no former one.                                        *)
InstTermsMirrorModel ==
  \A i \in InstRef :
    bitTerm[i] = IF i \in Instances THEN Bound(model[i]) ELSE Unbound

(* No assert of removeInstTerm() or getInstTermByFlatID() fails, and no    *)
(* instance terminal is left behind when its model's terminal goes.        *)
NoFault == ~fault

(* A component that lives through a step changes its net only by its own   *)
(* setNet() or when its net is destroyed: the destroy cascades, setModel() *)
(* and clone() disturb no other connection.                                *)
ConnectionsKept ==
  [][\A c \in Components :
       c \in Components' /\ net'[c] # net[c] =>
         \/ net[c] \notin Nets' /\ net'[c] = NoNet
         \/ \E n \in NetRef \cup {NoNet} : SetNet(c, n)]_vars

(* A clone() that returns is connected exactly as its original is,         *)
(* instance terminals included, and the original is as it was.             *)
CloneMirrorsOriginal ==
  [][\A d, e \in Design : CloneDesign(d, e) /\ ~fault' =>
       \A c \in Component : c[1] = d =>
         /\ net'[c] = net[c]
         /\ net'[InClone(e, c)] = IF net[c] = NoNet THEN NoNet ELSE <<e, net[c][2]>>
         /\ c \in Components <=> InClone(e, c) \in Components']_vars

=============================================================================
