-------------------------- MODULE SNLNetlistProofs --------------------------
(***************************************************************************)
(* Proofs about SNLNetlist for any number of designs, terminals, nets and  *)
(* instances, as long as no client edits or destroys a primitive that has  *)
(* instances or has a habit that lets flat IDs and positions diverge.      *)
(***************************************************************************)
EXTENDS SNLNetlist, TLAPS, FiniteSetTheorems, WellFoundedInduction

(* What the theorems ask of clients. *)
Careful == PrimitiveEdits = {} /\ Habits = {}

-----------------------------------------------------------------------------
(* The types of what the netlist links, without the vectors. *)
LinksTyped ==
  /\ designs \subseteq Design
  /\ terms \in [Design -> SUBSET TermID]
  /\ nets \in [Design -> SUBSET NetID]
  /\ instances \in [Design -> SUBSET InstID]
  /\ slaves \in [Design -> SUBSET InstRef]
  /\ model \in [InstRef -> Design \cup {NoDesign}]
  /\ bitTerm \in [InstRef -> [TermID -> Design \cup {NoDesign}]]
  /\ net \in [Component -> NetRef \cup {NoNet}]
  /\ components \in [NetRef -> SUBSET Component]

PositionsTyped ==
  /\ flatID \in [Design -> [TermID -> Nat]]
  /\ slot \in [InstRef -> [TermID -> Nat]]
  /\ size \in [InstRef -> Nat]

(* The links part of the inductive invariant: none of its parts is         *)
(* inductive alone.  A destroy cascade reaches the right instances because *)
(* of SlavesAgree, the right instance terminals because of                 *)
(* InstTermsMirrorModel and the right connections because of               *)
(* ConnectionsAgree.                                                       *)
Inv ==
  /\ LinksTyped
  /\ OwnersLive
  /\ ConnectionsAgree
  /\ ConnectionsLive
  /\ SlavesAgree
  /\ InstTermsMirrorModel

(* Flat IDs grow with the IDs: they tell the terminals of a design apart.  *)
FlatIDsOrdered ==
  \A d \in Design : \A j, k \in terms[d] : j < k => flatID[d][j] < flatID[d][k]

(* Every instance terminal is where its model's terminal is looked up.     *)
SlotsAgree ==
  \A i \in Instances : \A k \in terms[model[i]] :
    slot[i][k] = flatID[model[i]][k] /\ slot[i][k] < size[i]

(* The vectors part: what is found at a flat ID is the terminal meant. *)
Pos == PositionsTyped /\ fault = FALSE /\ FlatIDsOrdered /\ SlotsAgree

-----------------------------------------------------------------------------
(* Components are triples, and their first two parts name an instance      *)
(* unless the component is a design's own terminal.                        *)
LEMMA ComponentParts ==
  ASSUME NEW c \in Component
  PROVE  /\ c[1] \in Design
         /\ c[2] \in InstID \cup {Self}
         /\ c[3] \in TermID
         /\ c = <<c[1], c[2], c[3]>>
         /\ c[2] # Self => InstanceOf(c) \in InstRef
BY DEF Component, InstanceOf, InstRef

(* What Cut leaves behind: the two directions still agree, and only        *)
(* components outside C on nets outside N are still connected, as before.  *)
CutDone(C, N) ==
  /\ net' \in [Component -> NetRef \cup {NoNet}]
  /\ components' \in [NetRef -> SUBSET Component]
  /\ ConnectionsAgree'
  /\ \A c \in Component : net'[c] # NoNet =>
       net'[c] = net[c] /\ c \notin C /\ net[c] \notin N
  /\ \A c \in Component : c \notin C /\ net[c] \notin N => net'[c] = net[c]

(* Cut, applied to agreeing connections, has that effect. *)
LEMMA CutEffect ==
  ASSUME net \in [Component -> NetRef \cup {NoNet}],
         components \in [NetRef -> SUBSET Component],
         ConnectionsAgree,
         NEW C \in SUBSET Component, NEW N \in SUBSET NetRef, Cut(C, N)
  PROVE  CutDone(C, N)
<1> DEFINE D == C \cup UNION {components[n] : n \in N}
<1>1. net' = [c \in Component |-> IF c \in D THEN NoNet ELSE net[c]]
  BY DEF Cut
<1>2. components' = [n \in NetRef |->
           IF n \in N THEN {} ELSE components[n] \ {c \in D : net[c] = n}]
  BY DEF Cut
<1>3. \A c \in Component : c \in D <=> c \in C \/ net[c] \in N
  BY ConstantsAssumption DEF ConnectionsAgree, NetRef
<1>4. NoNet \notin NetRef
  BY ConstantsAssumption DEF NetRef
<1> HIDE DEF D
<1>5. net' \in [Component -> NetRef \cup {NoNet}]
  BY <1>1
<1>6. components' \in [NetRef -> SUBSET Component]
  BY <1>2
<1>7. ConnectionsAgree'
  <2> SUFFICES ASSUME NEW c \in Component, NEW n \in NetRef
               PROVE  net'[c] = n <=> c \in components'[n]
    BY DEF ConnectionsAgree
  <2>1. net[c] = n <=> c \in components[n]
    BY DEF ConnectionsAgree
  <2> QED
    BY <1>1, <1>2, <1>3, <1>4, <2>1
<1> QED
  BY <1>1, <1>3, <1>4, <1>5, <1>6, <1>7 DEF CutDone

(* The empty universe satisfies the invariant. *)
LEMMA InitInv == Init => Inv
<1> SUFFICES ASSUME Init PROVE Inv
  OBVIOUS
<1> USE DEF Init
<1>1. Instances = {} /\ Nets = {}
  BY DEF Instances, Nets, InstRef, NetRef
<1>2. LinksTyped
  <2>1. designs \subseteq Design /\ terms \in [Design -> SUBSET TermID] /\ nets \in [Design -> SUBSET NetID]
    OBVIOUS
  <2>2. instances \in [Design -> SUBSET InstID] /\ slaves \in [Design -> SUBSET InstRef]
    OBVIOUS
  <2>3. model \in [InstRef -> Design \cup {NoDesign}]
    OBVIOUS
  <2>4. bitTerm \in [InstRef -> [TermID -> Design \cup {NoDesign}]]
    BY DEF Unbound
  <2>5. net \in [Component -> NetRef \cup {NoNet}] /\ components \in [NetRef -> SUBSET Component]
    OBVIOUS
  <2> QED
    BY <2>1, <2>2, <2>3, <2>4, <2>5 DEF LinksTyped
<1>3. OwnersLive
  BY <1>1 DEF OwnersLive
<1>4. ConnectionsAgree
  BY ConstantsAssumption DEF ConnectionsAgree, NetRef
<1>5. ConnectionsLive
  BY DEF ConnectionsLive
<1>6. SlavesAgree
  BY <1>1 DEF SlavesAgree
<1>7. InstTermsMirrorModel
  BY <1>1 DEF InstTermsMirrorModel
<1> QED
  BY <1>2, <1>3, <1>4, <1>5, <1>6, <1>7 DEF Inv

-----------------------------------------------------------------------------
(* Creating a design, and creating a net, add an object nothing points to. *)
LEMMA CreateDesignStep ==
  ASSUME Inv, NEW d \in Design, CreateDesign(d)
  PROVE  Inv'
<1> USE DEF Inv, CreateDesign
<1>1. Instances' = Instances /\ Nets' = Nets /\ Components' = Components
  BY DEF Instances, Nets, Components
<1>2. LinksTyped'
  BY DEF LinksTyped
<1>3. OwnersLive'
  BY <1>1 DEF OwnersLive
<1>4. ConnectionsAgree' /\ ConnectionsLive'
  BY <1>1 DEF ConnectionsAgree, ConnectionsLive
<1>5. SlavesAgree' /\ InstTermsMirrorModel'
  BY <1>1 DEF SlavesAgree, InstTermsMirrorModel, Bound
<1> QED
  BY <1>2, <1>3, <1>4, <1>5

(* Creating a net preserves the invariant. *)
LEMMA CreateNetStep ==
  ASSUME Inv, NEW d \in Design, NEW n \in NetID, CreateNet(d, n)
  PROVE  Inv'
<1> USE DEF Inv, CreateNet
<1>1. Instances' = Instances /\ Components' = Components
  BY DEF Instances, Components
<1>2. Nets \subseteq Nets'
  BY DEF Nets, NetRef, LinksTyped
<1>3. LinksTyped'
  BY DEF LinksTyped
<1>4. OwnersLive'
  BY <1>1 DEF OwnersLive, LinksTyped
<1>5. ConnectionsAgree' /\ ConnectionsLive'
  BY <1>1, <1>2 DEF ConnectionsAgree, ConnectionsLive
<1>6. SlavesAgree' /\ InstTermsMirrorModel'
  BY <1>1 DEF SlavesAgree, InstTermsMirrorModel, Bound
<1> QED
  BY <1>3, <1>4, <1>5, <1>6

(* Destroying a net disconnects exactly its components. *)
LEMMA DestroyNetStep ==
  ASSUME Inv, NEW d \in Design, NEW n \in NetID, DestroyNet(d, n)
  PROVE  Inv'
<1> USE DEF Inv
<1>1. <<d, n>> \in NetRef
  BY DEF NetRef
<1>2. UNCHANGED <<designs, terms, instances, slaves, model, bitTerm>> /\ Cut({}, {<<d, n>>})
  BY DEF DestroyNet
<1>3. nets' = [nets EXCEPT ![d] = @ \ {n}]
  BY DEF DestroyNet
<1>4. /\ net' \in [Component -> NetRef \cup {NoNet}]
      /\ components' \in [NetRef -> SUBSET Component]
      /\ ConnectionsAgree'
      /\ \A c \in Component : net'[c] # NoNet => net'[c] = net[c] /\ net[c] # <<d, n>>
  <2> DEFINE N == {<<d, n>>}
  <2>1. {} \in SUBSET Component /\ N \in SUBSET NetRef /\ <<d, n>> \in N
    BY <1>1
  <2>2. Cut({}, N)
    BY <1>2
  <2>3. /\ net \in [Component -> NetRef \cup {NoNet}]
        /\ components \in [NetRef -> SUBSET Component]
        /\ ConnectionsAgree
    BY DEF LinksTyped
  <2> HIDE DEF N
  <2>4. CutDone({}, N)
    BY ONLY <2>1, <2>2, <2>3, CutEffect
  <2> QED
    BY ONLY <2>1, <2>4 DEF CutDone
<1>5. Instances' = Instances /\ Components' = Components
  BY <1>2 DEF Instances, Components
<1>6. \A x \in Nets : x # <<d, n>> => x \in Nets'
  BY <1>3 DEF Nets, NetRef, LinksTyped
<1>7. LinksTyped'
  BY <1>2, <1>3, <1>4 DEF LinksTyped
<1>8. OwnersLive'
  BY <1>2, <1>3, <1>5 DEF OwnersLive, LinksTyped
<1>9. ConnectionsLive'
  BY <1>4, <1>5, <1>6 DEF ConnectionsLive
<1>10. SlavesAgree' /\ InstTermsMirrorModel'
  BY <1>2, <1>5 DEF SlavesAgree, InstTermsMirrorModel, Bound
<1> QED
  BY <1>4, <1>7, <1>8, <1>9, <1>10

(* setNet() moves a component from one set to another. *)
LEMMA SetNetStep ==
  ASSUME Inv, NEW c \in Component, NEW n \in NetRef \cup {NoNet}, SetNet(c, n)
  PROVE  Inv'
<1> USE DEF Inv
<1>1. UNCHANGED <<designs, terms, nets, instances, slaves, model, bitTerm>>
  BY DEF SetNet
<1>2. Instances' = Instances /\ Nets' = Nets /\ Components' = Components
  BY <1>1 DEF Instances, Nets, Components
<1>3. /\ c \in Components
      /\ n = NoNet \/ (n \in Nets /\ n[1] = c[1])
      /\ n # net[c]
      /\ net' = [net EXCEPT ![c] = n]
      /\ components' = [x \in NetRef |->
           CASE x = net[c] -> components[x] \ {c}
             [] x = n      -> components[x] \cup {c}
             [] OTHER      -> components[x]]
  BY DEF SetNet
<1>4. LinksTyped'
  BY <1>1, <1>3 DEF LinksTyped
<1>5. OwnersLive' /\ SlavesAgree' /\ InstTermsMirrorModel'
  BY <1>1, <1>2 DEF OwnersLive, SlavesAgree, InstTermsMirrorModel, Bound
<1>6. ConnectionsAgree'
  <2> SUFFICES ASSUME NEW b \in Component, NEW x \in NetRef
               PROVE  net'[b] = x <=> b \in components'[x]
    BY DEF ConnectionsAgree
  <2>1. net[b] = x <=> b \in components[x]
    BY DEF ConnectionsAgree
  <2> QED
    BY <1>3, <2>1 DEF LinksTyped
<1>7. ConnectionsLive'
  BY <1>2, <1>3 DEF ConnectionsLive, LinksTyped
<1> QED
  BY <1>4, <1>5, <1>6, <1>7

-----------------------------------------------------------------------------
(* The same under the invariant. *)
LEMMA CutKeepsInv ==
  ASSUME Inv, NEW C \in SUBSET Component, NEW N \in SUBSET NetRef, Cut(C, N)
  PROVE  CutDone(C, N)
BY CutEffect DEF Inv, LinksTyped

(* What the invariant says of one instance. *)
LEMMA InstanceFacts ==
  ASSUME Inv, NEW i \in Instances
  PROVE  /\ i \in InstRef /\ i[1] \in designs /\ i[1] \in Design /\ i[2] \in instances[i[1]]
         /\ i = <<i[1], i[2]>>
         /\ model[i] \in designs /\ model[i] \in Design /\ model[i] # NoDesign
         /\ bitTerm[i] = Bound(model[i])
BY ConstantsAssumption DEF Inv, LinksTyped, OwnersLive, Instances, InstRef, InstTermsMirrorModel

(* A new terminal reaches every slave instance. *)
LEMMA CreateTermStep ==
  ASSUME Careful, Inv, NEW d \in Design, NEW k \in TermID, CreateTerm(d, k)
  PROVE  Inv'
<1> USE DEF Inv
<1>1. /\ d \in designs /\ k \notin terms[d]
      /\ terms' = [terms EXCEPT ![d] = @ \cup {k}]
      /\ bitTerm' = [i \in InstRef |->
                   IF i \in slaves[d] THEN [bitTerm[i] EXCEPT ![k] = d] ELSE bitTerm[i]]
      /\ UNCHANGED <<designs, nets, instances, slaves, model, net, components>>
  BY DEF CreateTerm
<1>2. \A i \in Instances : model[i] = d <=> i \in slaves[d]
  BY DEF CreateTerm, Allowed, Careful, SlavesAgree
<1>3. Instances' = Instances /\ Nets' = Nets
  BY <1>1 DEF Instances, Nets
<1>4. LinksTyped'
  <2>1. bitTerm' \in [InstRef -> [TermID -> Design \cup {NoDesign}]]
    BY <1>1 DEF LinksTyped
  <2>2. terms' \in [Design -> SUBSET TermID]
    BY <1>1 DEF LinksTyped
  <2> QED
    BY <1>1, <2>1, <2>2 DEF LinksTyped
<1>5. OwnersLive' /\ SlavesAgree'
  BY <1>1, <1>3 DEF OwnersLive, SlavesAgree, LinksTyped
<1>6. InstTermsMirrorModel'
  <2> SUFFICES ASSUME NEW i \in InstRef
               PROVE  bitTerm'[i] = IF i \in Instances THEN Bound(model[i])' ELSE Unbound
    BY <1>1, <1>3 DEF InstTermsMirrorModel, Unbound
  <2>1. CASE i \in Instances /\ model[i] = d
    <3>1. bitTerm'[i] = [Bound(d) EXCEPT ![k] = d]
      BY <1>1, <1>2, <2>1, InstanceFacts
    <3>2. terms'[d] = terms[d] \cup {k}
      BY <1>1 DEF LinksTyped
    <3> QED
      BY <1>1, <2>1, <3>1, <3>2 DEF Bound
  <2>2. CASE i \in Instances /\ model[i] # d
    <3>1. bitTerm'[i] = Bound(model[i])
      BY <1>1, <1>2, <2>2, InstanceFacts
    <3>2. terms'[model[i]] = terms[model[i]]
      BY <1>1, <2>2, InstanceFacts DEF LinksTyped
    <3> QED
      BY <1>1, <2>2, <3>1, <3>2 DEF Bound
  <2>3. CASE i \notin Instances
    BY <1>1, <2>3 DEF InstTermsMirrorModel, SlavesAgree
  <2> QED
    BY <2>1, <2>2, <2>3
<1>7. Components \subseteq Components'
  <2> SUFFICES ASSUME NEW c \in Components PROVE c \in Components'
    OBVIOUS
  <2>1. c \in Component
    BY DEF Components
  <2>2. c[2] = Self => c[3] \in terms'[c[1]]
    BY <1>1, <2>1, ComponentParts DEF Components, LinksTyped
  <2>3. c[2] # Self => bitTerm'[InstanceOf(c)][c[3]] # NoDesign
    BY <1>1, <2>1, ComponentParts, ConstantsAssumption DEF Components, LinksTyped
  <2> QED
    BY <1>3, <2>1, <2>2, <2>3 DEF Components, InstanceOf
<1>8. ConnectionsAgree' /\ ConnectionsLive'
  BY <1>1, <1>3, <1>7 DEF ConnectionsAgree, ConnectionsLive
<1> QED
  BY <1>4, <1>5, <1>6, <1>8

(* The flat IDs of a design tell its terminals apart. *)
LEMMA FlatIDsDiffer ==
  ASSUME Inv, Pos, NEW d \in Design, NEW j \in terms[d], NEW k \in terms[d],
         flatID[d][j] = flatID[d][k]
  PROVE  j = k
<1>1. j \in TermID /\ k \in TermID
  BY DEF Inv, LinksTyped
<1>2. j \in Int /\ k \in Int
  BY <1>1 DEF TermID
<1>3. flatID[d][j] \in Nat
  BY <1>1 DEF Pos, PositionsTyped
<1>4. (j < k => flatID[d][j] < flatID[d][k]) /\ (k < j => flatID[d][k] < flatID[d][j])
  BY DEF Pos, FlatIDsOrdered
<1> QED
  BY <1>2, <1>3, <1>4

(* removeTerm() finds in each slave instance the terminal it means. *)
LEMMA DestroyTermByID ==
  ASSUME Careful, Inv, Pos, NEW d \in Design, NEW k \in TermID, DestroyTerm(d, k)
  PROVE  /\ bitTerm' = [i \in InstRef |->
                   IF i \in slaves[d] THEN [bitTerm[i] EXCEPT ![k] = NoDesign] ELSE bitTerm[i]]
         /\ slot' = [i \in InstRef |->
                   IF i \in slaves[d] THEN [slot[i] EXCEPT ![k] = 0] ELSE slot[i]]
         /\ Cut({<<d, Self, k>>} \cup {<<i[1], i[2], k>> : i \in slaves[d]}, {})
         /\ fault' = FALSE
<1> DEFINE s    == flatID[d][k]
           gone == AtPosition(slaves[d], s)
<1>1. /\ k \in terms[d]
      /\ bitTerm' = [i \in InstRef |-> [x \in TermID |->
                       IF <<i[1], i[2], x>> \in gone THEN NoDesign ELSE bitTerm[i][x]]]
      /\ slot' = [i \in InstRef |-> [x \in TermID |->
                    IF <<i[1], i[2], x>> \in gone THEN 0 ELSE slot[i][x]]]
      /\ Cut({<<d, Self, k>>} \cup gone, {})
      /\ fault' = (\/ \E i \in slaves[d] : s >= size[i]
                   \/ \E i \in Instances : bitTerm'[i][k] = d)
  BY DEF DestroyTerm
<1>2. slaves[d] \subseteq InstRef /\ slaves[d] \subseteq Instances
  BY DEF Inv, LinksTyped, SlavesAgree
<1>3. \A i \in slaves[d] : model[i] = d /\ bitTerm[i] = Bound(d)
  <2>1. \A i \in slaves[d] : i \in Instances /\ model[i] = d
    BY DEF Inv, SlavesAgree
  <2> QED
    BY <2>1, InstanceFacts
<1>4. \A i \in Instances : model[i] = d => i \in slaves[d]
  BY DEF DestroyTerm, Allowed, Careful, Inv, SlavesAgree
<1>5. \A i \in slaves[d] : \A x \in terms[d] : slot[i][x] = flatID[d][x] /\ slot[i][x] < size[i]
  BY <1>2, <1>3 DEF Pos, SlotsAgree
<1>6. ASSUME NEW c \in gone
      PROVE  c[3] = k /\ InstanceOf(c) \in slaves[d] /\ c = <<InstanceOf(c)[1], InstanceOf(c)[2], k>>
  <2>1. c \in Components /\ c \in Component /\ InstanceOf(c) \in slaves[d] /\ slot[InstanceOf(c)][c[3]] = s
    BY <1>6 DEF AtPosition, InstTermsOf, Components
  <2>2. c[2] # Self
    BY <1>2, <2>1, ConstantsAssumption DEF InstanceOf, InstRef
  <2>3. Bound(d)[c[3]] # NoDesign /\ c[3] \in TermID
    BY <1>3, <2>1, <2>2, ComponentParts DEF Components
  <2>4. c[3] \in terms[d]
    BY <2>3 DEF Bound
  <2>5. flatID[d][c[3]] = flatID[d][k]
    BY <1>5, <2>1, <2>4
  <2>6. c[3] = k
    BY <1>1, <2>4, <2>5, FlatIDsDiffer
  <2> QED
    BY <2>1, <2>6, ComponentParts DEF InstanceOf
<1>7. ASSUME NEW i \in slaves[d] PROVE <<i[1], i[2], k>> \in gone
  <2> DEFINE c == <<i[1], i[2], k>>
  <2>1. i \in InstRef /\ i \in Instances /\ bitTerm[i] = Bound(d)
    BY <1>2, <1>3
  <2>2. c \in Component /\ c[2] # Self /\ InstanceOf(c) = i /\ c[3] = k
    BY <2>1, ConstantsAssumption DEF InstRef, Component, InstanceOf
  <2>3. bitTerm[i][k] # NoDesign
    BY <1>1, <2>1, ConstantsAssumption DEF Bound
  <2>4. slot[i][k] = s
    BY <1>1, <1>5
  <2> HIDE DEF c
  <2> QED
    BY <2>1, <2>2, <2>3, <2>4 DEF c, AtPosition, InstTermsOf, Components
<1>8. gone = {<<i[1], i[2], k>> : i \in slaves[d]}
  BY <1>6, <1>7, Zenon
<1>9. \A i \in InstRef : \A x \in TermID : <<i[1], i[2], x>> \in gone <=> i \in slaves[d] /\ x = k
  <2> SUFFICES ASSUME NEW i \in InstRef, NEW x \in TermID
               PROVE  <<i[1], i[2], x>> \in gone <=> i \in slaves[d] /\ x = k
    OBVIOUS
  <2>1. i = <<i[1], i[2]>>
    BY DEF InstRef
  <2>2. ASSUME <<i[1], i[2], x>> \in gone PROVE i \in slaves[d] /\ x = k
    <3>1. <<i[1], i[2], x>>[3] = k /\ InstanceOf(<<i[1], i[2], x>>) \in slaves[d]
      BY <1>6, <2>2
    <3> QED
      BY <2>1, <3>1 DEF InstanceOf
  <2> QED
    BY <1>7, <2>2
<1> HIDE DEF gone
<1>10. bitTerm' = [i \in InstRef |->
                   IF i \in slaves[d] THEN [bitTerm[i] EXCEPT ![k] = NoDesign] ELSE bitTerm[i]]
  <2>1. \A i \in InstRef : bitTerm[i] \in [TermID -> Design \cup {NoDesign}]
    BY DEF Inv, LinksTyped
  <2>2. \A i \in InstRef : [x \in TermID |-> IF <<i[1], i[2], x>> \in gone THEN NoDesign ELSE bitTerm[i][x]]
          = IF i \in slaves[d] THEN [bitTerm[i] EXCEPT ![k] = NoDesign] ELSE bitTerm[i]
    BY <1>9, <2>1
  <2> QED
    BY <1>1, <2>2
<1>11. slot' = [i \in InstRef |->
                   IF i \in slaves[d] THEN [slot[i] EXCEPT ![k] = 0] ELSE slot[i]]
  <2>1. \A i \in InstRef : slot[i] \in [TermID -> Nat]
    BY DEF Pos, PositionsTyped
  <2>2. \A i \in InstRef : [x \in TermID |-> IF <<i[1], i[2], x>> \in gone THEN 0 ELSE slot[i][x]]
          = IF i \in slaves[d] THEN [slot[i] EXCEPT ![k] = 0] ELSE slot[i]
    BY <1>9, <2>1
  <2> QED
    BY <1>1, <2>2
<1>12. ~\E i \in slaves[d] : s >= size[i]
  <2> SUFFICES ASSUME NEW i \in slaves[d] PROVE ~(s >= size[i])
    OBVIOUS
  <2>1. s < size[i] /\ s \in Nat /\ size[i] \in Nat
    BY <1>1, <1>2, <1>5 DEF Pos, PositionsTyped
  <2> QED
    BY <2>1
<1>13. ~\E i \in Instances : bitTerm'[i][k] = d
  <2> SUFFICES ASSUME NEW i \in Instances PROVE bitTerm'[i][k] # d
    OBVIOUS
  <2>1. i \in InstRef /\ bitTerm[i] = Bound(model[i]) /\ bitTerm[i] \in [TermID -> Design \cup {NoDesign}]
    BY InstanceFacts DEF Inv, LinksTyped
  <2>2. CASE i \in slaves[d]
    BY <1>10, <2>1, <2>2, ConstantsAssumption
  <2>3. CASE i \notin slaves[d]
    <3>1. model[i] # d /\ bitTerm'[i] = bitTerm[i]
      BY <1>4, <1>10, <2>1, <2>3
    <3> QED
      BY <2>1, <3>1, ConstantsAssumption DEF Bound
  <2> QED
    BY <2>2, <2>3
<1>14. Cut({<<d, Self, k>>} \cup {<<i[1], i[2], k>> : i \in slaves[d]}, {})
  BY <1>1, <1>8
<1> QED
  BY <1>1, <1>10, <1>11, <1>12, <1>13, <1>14

(* A terminal that goes takes the instance terminals of every slave        *)
(* instance with it, and their connections.                                *)
LEMMA DestroyTermStep ==
  ASSUME Careful, Inv, Pos, NEW d \in Design, NEW k \in TermID, DestroyTerm(d, k)
  PROVE  Inv'
<1> USE DEF Inv
<1> DEFINE C == {<<d, Self, k>>} \cup {<<i[1], i[2], k>> : i \in slaves[d]}
<1>1. /\ d \in designs /\ k \in terms[d]
      /\ terms' = [terms EXCEPT ![d] = @ \ {k}]
      /\ bitTerm' = [i \in InstRef |->
                   IF i \in slaves[d] THEN [bitTerm[i] EXCEPT ![k] = NoDesign] ELSE bitTerm[i]]
      /\ UNCHANGED <<designs, nets, instances, slaves, model>>
  BY DestroyTermByID DEF DestroyTerm
<1>2. \A i \in Instances : model[i] = d <=> i \in slaves[d]
  BY DEF DestroyTerm, Allowed, Careful, SlavesAgree
<1>3. slaves[d] \in SUBSET InstRef
  BY DEF LinksTyped
<1>4. C \in SUBSET Component
  BY <1>3 DEF Component, InstRef
<1>5. \A c \in Component : c \notin C =>
        /\ ~(c[1] = d /\ c[2] = Self /\ c[3] = k)
        /\ ~(c[2] # Self /\ InstanceOf(c) \in slaves[d] /\ c[3] = k)
  BY ComponentParts DEF InstanceOf
<1>6. CutDone(C, {})
  <2>1. Cut(C, {})
    BY DestroyTermByID
  <2>2. {} \in SUBSET NetRef
    OBVIOUS
  <2> HIDE DEF C
  <2> QED
    BY ONLY <1>4, <2>1, <2>2, Inv, CutKeepsInv
<1> HIDE DEF C
<1>7. Instances' = Instances /\ Nets' = Nets
  BY <1>1 DEF Instances, Nets
<1>8. LinksTyped'
  <2>1. bitTerm' \in [InstRef -> [TermID -> Design \cup {NoDesign}]]
    BY <1>1 DEF LinksTyped
  <2>2. terms' \in [Design -> SUBSET TermID]
    BY <1>1 DEF LinksTyped
  <2> QED
    BY <1>1, <1>6, <2>1, <2>2 DEF LinksTyped, CutDone
<1>9. OwnersLive' /\ SlavesAgree'
  BY <1>1, <1>7 DEF OwnersLive, SlavesAgree, LinksTyped
<1>10. InstTermsMirrorModel'
  <2> SUFFICES ASSUME NEW i \in InstRef
               PROVE  bitTerm'[i] = IF i \in Instances THEN Bound(model[i])' ELSE Unbound
    BY <1>1, <1>7 DEF InstTermsMirrorModel, Unbound
  <2>1. CASE i \in Instances /\ model[i] = d
    <3>1. bitTerm'[i] = [Bound(d) EXCEPT ![k] = NoDesign]
      BY <1>1, <1>2, <2>1, InstanceFacts
    <3>2. terms'[d] = terms[d] \ {k}
      BY <1>1 DEF LinksTyped
    <3> QED
      BY <1>1, <2>1, <3>1, <3>2 DEF Bound
  <2>2. CASE i \in Instances /\ model[i] # d
    <3>1. bitTerm'[i] = Bound(model[i])
      BY <1>1, <1>2, <2>2, InstanceFacts
    <3>2. terms'[model[i]] = terms[model[i]]
      BY <1>1, <2>2, InstanceFacts DEF LinksTyped
    <3> QED
      BY <1>1, <2>2, <3>1, <3>2 DEF Bound
  <2>3. CASE i \notin Instances
    BY <1>1, <2>3 DEF InstTermsMirrorModel, SlavesAgree
  <2> QED
    BY <2>1, <2>2, <2>3
<1>11. \A c \in Components : c \notin C => c \in Components'
  <2> SUFFICES ASSUME NEW c \in Components, c \notin C PROVE c \in Components'
    OBVIOUS
  <2>1. c \in Component
    BY DEF Components
  <2>2. c[2] = Self => c[3] \in terms'[c[1]]
    BY <1>1, <1>5, <2>1, ComponentParts DEF Components, LinksTyped
  <2>3. c[2] # Self => bitTerm'[InstanceOf(c)][c[3]] # NoDesign
    BY <1>1, <1>5, <2>1, ComponentParts DEF Components, LinksTyped
  <2> QED
    BY <1>7, <2>1, <2>2, <2>3 DEF Components, InstanceOf
<1>12. ConnectionsAgree' /\ ConnectionsLive'
  BY <1>6, <1>7, <1>11 DEF CutDone, ConnectionsLive
<1> QED
  BY <1>8, <1>9, <1>10, <1>12

(* A new instance has unconnected terminals for all terminals of its       *)
(* model.                                                                  *)
LEMMA CreateInstanceStep ==
  ASSUME Inv, NEW d \in Design, NEW j \in InstID, NEW m \in Design, CreateInstance(d, j, m)
  PROVE  Inv'
<1> USE DEF Inv
<1> DEFINE i == <<d, j>>
<1>1. /\ d \in designs /\ m \in designs /\ j \notin instances[d]
      /\ instances' = [instances EXCEPT ![d] = @ \cup {j}]
      /\ model' = [model EXCEPT ![i] = m]
      /\ bitTerm' = [bitTerm EXCEPT ![i] = Bound(m)]
      /\ UNCHANGED <<designs, terms, nets, net, components>>
  BY DEF CreateInstance
<1>2. i \in InstRef /\ i \notin Instances
  BY <1>1 DEF InstRef, Instances
<1>3. Instances' = Instances \cup {i}
  BY <1>1 DEF Instances, InstRef, LinksTyped
<1>4. Nets' = Nets
  BY <1>1 DEF Nets
<1>5. \A e \in Design : slaves'[e] = IF e = m /\ e \notin Primitive THEN slaves[e] \cup {i} ELSE slaves[e]
  <2>1. model'[i] = m
    BY <1>1, <1>2 DEF LinksTyped
  <2>2. slaves' = [e \in Design |-> slaves[e] \cup {x \in {i} : e = model'[x] /\ e \notin Primitive}]
    BY DEF CreateInstance, Registered
  <2> QED
    BY <2>1, <2>2
<1>6. slaves' \in [Design -> SUBSET InstRef]
  BY <1>2 DEF CreateInstance, Registered, LinksTyped
<1>7. Bound(m) \in [TermID -> Design \cup {NoDesign}]
  BY DEF Bound
<1> HIDE DEF i
<1>8. LinksTyped'
  BY <1>1, <1>2, <1>6, <1>7 DEF LinksTyped
<1>9. OwnersLive'
  BY <1>1, <1>2, <1>3 DEF OwnersLive, LinksTyped, Instances
<1>10. SlavesAgree'
  <2> SUFFICES ASSUME NEW e \in Design
               PROVE  slaves'[e] = IF e \in Primitive THEN {} ELSE {x \in Instances' : model'[x] = e}
    BY DEF SlavesAgree
  <2>1. slaves[e] = IF e \in Primitive THEN {} ELSE {x \in Instances : model[x] = e}
    BY DEF SlavesAgree
  <2>2. \A x \in Instances : model'[x] = model[x] /\ x # i
    BY <1>1, <1>2 DEF LinksTyped, Instances
  <2>3. model'[i] = m
    BY <1>1, <1>2 DEF LinksTyped
  <2> QED
    BY <1>3, <1>5, <2>1, <2>2, <2>3
<1>11. InstTermsMirrorModel'
  <2> SUFFICES ASSUME NEW x \in InstRef
               PROVE  bitTerm'[x] = IF x \in Instances' THEN Bound(model'[x]) ELSE Unbound
    BY <1>1 DEF InstTermsMirrorModel, Unbound, Bound
  <2>1. CASE x = i
    BY <1>1, <1>2, <1>3, <2>1 DEF LinksTyped
  <2>2. CASE x # i
    BY <1>1, <1>2, <1>3, <2>2 DEF LinksTyped, InstTermsMirrorModel
  <2> QED
    BY <2>1, <2>2
<1>12. Components \subseteq Components'
  <2> SUFFICES ASSUME NEW c \in Components PROVE c \in Components'
    OBVIOUS
  <2>1. c \in Component
    BY DEF Components
  <2>2. c[2] # Self => bitTerm'[InstanceOf(c)] = bitTerm[InstanceOf(c)] /\ InstanceOf(c) \in Instances'
    BY <1>1, <1>2, <1>3, <2>1 DEF Components, LinksTyped, Instances
  <2> QED
    BY <1>1, <2>1, <2>2 DEF Components, InstanceOf
<1>13. ConnectionsAgree' /\ ConnectionsLive'
  BY <1>1, <1>4, <1>12 DEF ConnectionsAgree, ConnectionsLive
<1> QED
  BY <1>8, <1>9, <1>10, <1>11, <1>13

(* What the destruction of a set I of instances does, whoever starts it.   *)
InstancesGone(I) ==
  /\ instances' = [e \in Design |-> {j \in instances[e] : <<e, j>> \notin I}]
  /\ slaves' = [e \in Design |-> slaves[e] \ I]
  /\ model' = [i \in InstRef |-> IF i \in I THEN NoDesign ELSE model[i]]
  /\ bitTerm' = [i \in InstRef |-> IF i \in I THEN Unbound ELSE bitTerm[i]]

(* The parts of the invariant that depend only on that. *)
LEMMA InstancesGoneFacts ==
  ASSUME Inv, NEW I \in SUBSET Instances, InstancesGone(I)
  PROVE  /\ Instances' = Instances \ I
         /\ instances' \in [Design -> SUBSET InstID]
         /\ slaves' \in [Design -> SUBSET InstRef]
         /\ model' \in [InstRef -> Design \cup {NoDesign}]
         /\ bitTerm' \in [InstRef -> [TermID -> Design \cup {NoDesign}]]
         /\ SlavesAgree'
         /\ \A i \in InstRef : bitTerm'[i] = IF i \in Instances' THEN bitTerm[i] ELSE Unbound
         /\ \A i \in Instances' : model'[i] = model[i]
         /\ \A e \in Design : instances'[e] \subseteq instances[e]
<1> USE DEF Inv
<1>1. I \subseteq InstRef
  BY DEF Instances
<1>2. Instances' = Instances \ I
  BY DEF InstancesGone, Instances, InstRef, LinksTyped
<1>3. instances' \in [Design -> SUBSET InstID] /\ slaves' \in [Design -> SUBSET InstRef]
  BY DEF InstancesGone, LinksTyped
<1>4. model' \in [InstRef -> Design \cup {NoDesign}]
  BY DEF InstancesGone, LinksTyped
<1>5. bitTerm' \in [InstRef -> [TermID -> Design \cup {NoDesign}]]
  BY DEF InstancesGone, LinksTyped, Unbound
<1>6. \A i \in Instances' : i \in InstRef /\ model'[i] = model[i]
  BY <1>2 DEF InstancesGone, Instances
<1>7. SlavesAgree'
  <2> SUFFICES ASSUME NEW e \in Design
               PROVE  slaves'[e] = IF e \in Primitive THEN {} ELSE {x \in Instances' : model'[x] = e}
    BY DEF SlavesAgree
  <2>1. slaves[e] = IF e \in Primitive THEN {} ELSE {x \in Instances : model[x] = e}
    BY DEF SlavesAgree
  <2>2. slaves'[e] = slaves[e] \ I
    BY DEF InstancesGone
  <2> QED
    BY <1>2, <1>6, <2>1, <2>2
<1>8. \A i \in InstRef : bitTerm'[i] = IF i \in Instances' THEN bitTerm[i] ELSE Unbound
  BY <1>2 DEF InstancesGone, InstTermsMirrorModel
<1>9. \A e \in Design : instances'[e] \subseteq instances[e]
  BY DEF InstancesGone
<1> QED
  BY <1>2, <1>3, <1>4, <1>5, <1>6, <1>7, <1>8, <1>9

(* SNLInstance::destroy() is the destruction of one instance. *)
LEMMA DestroyInstanceGone ==
  ASSUME Inv, NEW d \in Design, NEW j \in InstID, DestroyInstance(d, j)
  PROVE  InstancesGone({<<d, j>>})
<1> USE DEF Inv
<1> DEFINE i == <<d, j>>
<1>1. /\ i \in Instances
      /\ slaves' = [slaves EXCEPT ![model[i]] = IF model[i] \in Primitive THEN @ ELSE @ \ {i}]
      /\ instances' = [instances EXCEPT ![d] = @ \ {j}]
      /\ model' = [model EXCEPT ![i] = NoDesign]
      /\ bitTerm' = [bitTerm EXCEPT ![i] = Unbound]
  BY DEF DestroyInstance
<1>2. i \in InstRef /\ model[i] \in Design
  BY <1>1, InstanceFacts
<1>3. instances' = [e \in Design |-> {x \in instances[e] : <<e, x>> \notin {i}}]
  BY <1>1 DEF LinksTyped
<1>4. slaves' = [e \in Design |-> slaves[e] \ {i}]
  <2>1. \A e \in Design : e # model[i] \/ e \in Primitive => i \notin slaves[e]
    BY DEF SlavesAgree
  <2> HIDE DEF i
  <2> QED
    BY <1>1, <1>2, <2>1 DEF LinksTyped
<1>5. /\ model' = [x \in InstRef |-> IF x \in {i} THEN NoDesign ELSE model[x]]
      /\ bitTerm' = [x \in InstRef |-> IF x \in {i} THEN Unbound ELSE bitTerm[x]]
  <2> HIDE DEF i
  <2> QED
    BY <1>1, <1>2 DEF LinksTyped
<1> QED
  BY <1>3, <1>4, <1>5 DEF InstancesGone

(* SNLInstance::destroy() preserves the invariant. *)
LEMMA DestroyInstanceStep ==
  ASSUME Inv, NEW d \in Design, NEW j \in InstID, DestroyInstance(d, j)
  PROVE  Inv'
<1> USE DEF Inv
<1> DEFINE i == <<d, j>>
<1>1. /\ i \in Instances
      /\ Cut(InstTermsOf({i}), {})
      /\ UNCHANGED <<designs, terms, nets>>
  BY DEF DestroyInstance
<1>2. i \in InstRef /\ model[i] \in Design
  BY <1>1, InstanceFacts
<1>3. InstancesGone({i})
  BY DestroyInstanceGone
<1> DEFINE C == InstTermsOf({i})
<1>4. C \in SUBSET Component
  BY DEF InstTermsOf, Components
<1>5. CutDone(C, {})
  <2>1. Cut(C, {}) /\ {} \in SUBSET NetRef
    BY <1>1
  <2> HIDE DEF C
  <2> QED
    BY ONLY <1>4, <2>1, Inv, CutKeepsInv
<1>6. \A c \in Components : c \notin C => InstanceOf(c) # i
  BY DEF InstTermsOf
<1> HIDE DEF C, i
<1>7. Instances' = Instances \ {i}
  BY <1>1, <1>3, InstancesGoneFacts
<1>8. \A x \in InstRef : bitTerm'[x] = IF x \in Instances' THEN bitTerm[x] ELSE Unbound
  BY <1>1, <1>3, InstancesGoneFacts
<1>9. LinksTyped' /\ SlavesAgree'
  BY <1>1, <1>3, <1>5, InstancesGoneFacts DEF LinksTyped, CutDone
<1>10. OwnersLive'
  BY <1>1, <1>3, <1>7, InstancesGoneFacts DEF OwnersLive
<1>11. InstTermsMirrorModel'
  <2>1. \A x \in Instances' : model'[x] = model[x]
    BY <1>1, <1>3, InstancesGoneFacts
  <2> QED
    BY <1>1, <1>7, <1>8, <2>1 DEF InstTermsMirrorModel, Bound, Unbound, Instances
<1>12. \A c \in Components : c \notin C => c \in Components'
  BY <1>1, <1>6, <1>7, <1>8 DEF Components, Instances, InstanceOf
<1>13. ConnectionsAgree' /\ ConnectionsLive'
  BY <1>1, <1>5, <1>12 DEF CutDone, ConnectionsLive, Nets
<1> QED
  BY <1>9, <1>10, <1>11, <1>13

(* setModel() requires equal interfaces, so that the instance terminals    *)
(* that exist are the ones the new model needs.                            *)
LEMMA SetModelStep ==
  ASSUME Inv, NEW d \in Design, NEW j \in InstID, NEW m \in Design, SetModel(d, j, m)
  PROVE  Inv'
<1> USE DEF Inv
<1> DEFINE i == <<d, j>>
<1>1. /\ i \in Instances
      /\ m \in designs /\ m # model[i]
      /\ terms[m] = terms[model[i]]
      /\ bitTerm' = [bitTerm EXCEPT ![i] =
                       [k \in TermID |-> IF bitTerm[i][k] = NoDesign THEN NoDesign ELSE m]]
      /\ model' = [model EXCEPT ![i] = m]
      /\ UNCHANGED <<designs, terms, nets, instances, net, components>>
  BY DEF SetModel, SameInterface
<1>2. slaves' = [[e \in Design |-> IF e = model[i] /\ e \notin Primitive
                                     THEN slaves[e] \ {i} ELSE slaves[e]]
                   EXCEPT ![m] = IF m \in Primitive THEN @ ELSE @ \cup {i}]
  BY DEF SetModel
<1>3. i \in InstRef /\ model[i] \in Design /\ model[i] # NoDesign /\ bitTerm[i] = Bound(model[i])
  BY <1>1, InstanceFacts
<1> HIDE DEF i
<1>4. \A e \in Design : slaves'[e] =
        CASE e \in Primitive -> slaves[e]
          [] e = model[i] /\ e \notin Primitive -> slaves[e] \ {i}
          [] e = m /\ e \notin Primitive -> slaves[e] \cup {i}
          [] OTHER -> slaves[e]
  BY <1>1, <1>2
<1>5. slaves' \in [Design -> SUBSET InstRef]
  BY <1>2, <1>3 DEF LinksTyped
<1>6. Instances' = Instances /\ Nets' = Nets
  BY <1>1 DEF Instances, Nets
<1>7. [k \in TermID |-> IF bitTerm[i][k] = NoDesign THEN NoDesign ELSE m] = Bound(m)
  BY <1>1, <1>3, ConstantsAssumption DEF Bound
<1>8. bitTerm' = [bitTerm EXCEPT ![i] = Bound(m)] /\ Bound(m) \in [TermID -> Design \cup {NoDesign}]
  BY <1>1, <1>7 DEF Bound
<1>9. LinksTyped'
  BY <1>1, <1>5, <1>8, ZenonT(30) DEF LinksTyped
<1>10. OwnersLive'
  BY <1>1, <1>3, <1>6 DEF OwnersLive, LinksTyped, Instances
<1>11. SlavesAgree'
  <2> SUFFICES ASSUME NEW e \in Design
               PROVE  slaves'[e] = IF e \in Primitive THEN {} ELSE {x \in Instances : model'[x] = e}
    BY <1>6 DEF SlavesAgree
  <2>1. slaves[e] = IF e \in Primitive THEN {} ELSE {x \in Instances : model[x] = e}
    BY DEF SlavesAgree
  <2>2. \A x \in Instances : model'[x] = IF x = i THEN m ELSE model[x]
    BY <1>1, <1>3 DEF LinksTyped, Instances
  <2>3. CASE e \in Primitive
    BY <1>4, <2>1, <2>3
  <2>4. CASE e \notin Primitive /\ e = model[i]
    <3>1. slaves'[e] = slaves[e] \ {i}
      BY <1>1, <1>4, <2>4
    <3> QED
      BY <1>1, <2>1, <2>2, <2>4, <3>1
  <2>5. CASE e \notin Primitive /\ e = m
    <3>1. slaves'[e] = slaves[e] \cup {i}
      BY <1>1, <1>4, <2>5
    <3> QED
      BY <1>1, <2>1, <2>2, <2>5, <3>1
  <2>6. CASE e \notin Primitive /\ e # m /\ e # model[i]
    <3>1. slaves'[e] = slaves[e]
      BY <1>4, <2>6
    <3> QED
      BY <1>1, <2>1, <2>2, <2>6, <3>1
  <2> QED
    BY <2>3, <2>4, <2>5, <2>6
<1>12. InstTermsMirrorModel'
  <2> SUFFICES ASSUME NEW x \in InstRef
               PROVE  bitTerm'[x] = IF x \in Instances THEN Bound(model'[x]) ELSE Unbound
    BY <1>1, <1>6 DEF InstTermsMirrorModel, Unbound, Bound
  <2>1. CASE x = i
    BY <1>1, <1>3, <1>8, <2>1 DEF LinksTyped
  <2>2. CASE x # i
    BY <1>1, <1>3, <1>8, <2>2 DEF LinksTyped, InstTermsMirrorModel
  <2> QED
    BY <2>1, <2>2
<1>13. Components' = Components
  <2> SUFFICES ASSUME NEW c \in Component, c[2] # Self
               PROVE  bitTerm'[InstanceOf(c)][c[3]] = NoDesign <=> bitTerm[InstanceOf(c)][c[3]] = NoDesign
    BY <1>1, <1>6 DEF Components, InstanceOf
  <2>1. InstanceOf(c) \in InstRef /\ c[3] \in TermID
    BY ComponentParts
  <2> QED
    BY <1>1, <1>3, <2>1, ConstantsAssumption DEF LinksTyped
<1>14. ConnectionsAgree' /\ ConnectionsLive'
  BY <1>1, <1>6, <1>13 DEF ConnectionsAgree, ConnectionsLive
<1> QED
  BY <1>9, <1>10, <1>11, <1>12, <1>14

(* The destroy cascade of a design reaches its own instances and its       *)
(* slave instances, and through them nets of other designs.                *)
LEMMA DestroyDesignStep ==
  ASSUME Careful, Inv, NEW d \in Design, DestroyDesign(d)
  PROVE  Inv'
<1> USE DEF Inv
<1> DEFINE I == Doomed(d)
           C == TermsOf(d) \cup InstTermsOf(I)
           N == {n \in Nets : n[1] = d}
<1>1. /\ d \in designs
      /\ designs' = designs \ {d}
      /\ terms' = [terms EXCEPT ![d] = {}]
      /\ nets' = [nets EXCEPT ![d] = {}]
      /\ InstancesGone(I)
      /\ Cut(C, N)
  BY DEF DestroyDesign, InstancesGone
<1>2. I \in SUBSET Instances
  BY DEF Doomed, SlavesAgree
<1>3. \A i \in Instances : i[1] = d \/ model[i] = d => i \in I
  <2>1. \A i \in Instances : model[i] = d => d \notin Primitive /\ i \in slaves[d]
    BY DEF DestroyDesign, Allowed, Careful, SlavesAgree
  <2> QED
    BY <2>1 DEF Doomed
<1>4. C \in SUBSET Component /\ N \in SUBSET NetRef
  BY DEF TermsOf, InstTermsOf, Components, Nets
<1>5. \A c \in Components : c \notin C =>
        (c[2] = Self => c[1] # d) /\ InstanceOf(c) \notin I
  BY DEF TermsOf, InstTermsOf
<1>6. \A n \in Nets : n \notin N => n[1] # d
  OBVIOUS
<1> HIDE DEF I, C, N
<1>7. CutDone(C, N)
  BY ONLY <1>1, <1>4, Inv, CutKeepsInv
<1>8. Instances' = Instances \ I
  BY <1>1, <1>2, InstancesGoneFacts
<1>9. \A x \in InstRef : bitTerm'[x] = IF x \in Instances' THEN bitTerm[x] ELSE Unbound
  BY <1>1, <1>2, InstancesGoneFacts
<1>10. \A x \in Instances' : model'[x] = model[x]
  BY <1>1, <1>2, InstancesGoneFacts
<1>11. terms' \in [Design -> SUBSET TermID] /\ nets' \in [Design -> SUBSET NetID]
  BY <1>1 DEF LinksTyped
<1>12. LinksTyped' /\ SlavesAgree'
  BY <1>1, <1>2, <1>7, <1>11, InstancesGoneFacts DEF LinksTyped, CutDone
<1>13. OwnersLive'
  <2>1. \A x \in Instances' : model'[x] \in designs'
    BY <1>1, <1>3, <1>8, <1>10 DEF OwnersLive
  <2>2. instances'[d] = {}
    <3> SUFFICES ASSUME NEW j \in instances'[d] PROVE FALSE
      OBVIOUS
    <3>1. j \in instances[d] /\ <<d, j>> \notin I
      BY <1>1 DEF InstancesGone
    <3>2. <<d, j>> \in Instances
      BY <3>1 DEF Instances, InstRef, LinksTyped
    <3> QED
      BY <1>3, <3>1, <3>2
  <2>3. \A e \in Design : instances'[e] \subseteq instances[e]
    BY <1>1, <1>2, InstancesGoneFacts
  <2> QED
    BY <1>1, <2>1, <2>2, <2>3 DEF OwnersLive, LinksTyped
<1>14. InstTermsMirrorModel'
  <2> SUFFICES ASSUME NEW x \in InstRef
               PROVE  bitTerm'[x] = IF x \in Instances' THEN Bound(model[x])' ELSE Unbound
    BY DEF InstTermsMirrorModel, Unbound
  <2>1. CASE x \in Instances'
    <3>1. x \in Instances /\ model[x] # d /\ model[x] \in Design
      BY <1>3, <1>8, <2>1, InstanceFacts
    <3>2. terms'[model[x]] = terms[model[x]]
      BY <1>1, <3>1 DEF LinksTyped
    <3> QED
      BY <1>9, <1>10, <2>1, <3>1, <3>2 DEF InstTermsMirrorModel, Bound
  <2>2. CASE x \notin Instances'
    BY <1>9, <2>2
  <2> QED
    BY <2>1, <2>2
<1>15. \A c \in Components : c \notin C => c \in Components'
  <2> SUFFICES ASSUME NEW c \in Components, c \notin C PROVE c \in Components'
    OBVIOUS
  <2>1. c \in Component
    BY DEF Components
  <2>2. c[2] = Self => c[3] \in terms'[c[1]]
    BY <1>1, <1>5, <2>1, ComponentParts DEF Components, LinksTyped
  <2>3. c[2] # Self => InstanceOf(c) \in Instances' /\ bitTerm'[InstanceOf(c)] = bitTerm[InstanceOf(c)]
    BY <1>5, <1>8, <1>9, <2>1, ComponentParts DEF Components
  <2> QED
    BY <2>1, <2>2, <2>3 DEF Components, InstanceOf
<1>16. \A n \in Nets : n \notin N => n \in Nets'
  BY <1>1, <1>6 DEF Nets, NetRef, LinksTyped
<1>17. ConnectionsAgree' /\ ConnectionsLive'
  BY <1>7, <1>15, <1>16 DEF CutDone, ConnectionsLive
<1> QED
  BY <1>12, <1>13, <1>14, <1>17

(* cloneComponents() finds in the clone the component with the same IDs. *)
LEMMA CloneByID ==
  ASSUME Careful, Inv, Pos, NEW d \in Design, NEW e \in Design, CloneDesign(d, e)
  PROVE  /\ CloneComponents(d, e) = [n \in NetRef |->
              IF n[1] = e /\ n[2] \in nets[d]
                THEN {InClone(e, c) : c \in components[<<d, n[2]>>]} ELSE components[n]]
         /\ fault' = FALSE
<1>1. \A j \in instances[d] : Compact(model[<<d, j>>])
  BY DEF CloneDesign, Careful
<1>2. ASSUME NEW n \in nets[d], NEW c \in components[<<d, n>>]
      PROVE  Counterparts(e, c) = {InClone(e, c)}
  <2>1. <<d, n>> \in NetRef /\ <<d, n>> # NoNet /\ <<d, n>>[1] = d
    BY ConstantsAssumption DEF Inv, LinksTyped, NetRef
  <2>2. c \in Component /\ net[c] = <<d, n>>
    BY <1>2, <2>1 DEF Inv, LinksTyped, ConnectionsAgree
  <2>3. c \in Components /\ c[1] = d
    BY <2>1, <2>2 DEF Inv, ConnectionsLive
  <2>4. CASE c[2] = Self
    BY <2>4 DEF Counterparts
  <2>5. CASE c[2] # Self
    <3> DEFINE i == InstanceOf(c)
               m == model[i]
    <3>1. i \in Instances /\ i = <<d, c[2]>> /\ bitTerm[i][c[3]] # NoDesign /\ c[3] \in TermID
      BY <2>2, <2>3, <2>5, ComponentParts DEF Components, InstanceOf
    <3>2. c[2] \in instances[d]
      BY <3>1 DEF Instances
    <3>3. m \in Design /\ bitTerm[i] = Bound(m)
      BY <3>1, InstanceFacts
    <3>4. c[3] \in terms[m]
      BY <3>1, <3>3 DEF Bound
    <3>5. \A x \in terms[m] : flatID[m][x] = Rank(m, x)
      BY <1>1, <3>1, <3>2 DEF Compact
    <3> HIDE DEF m
    <3>6. \A x \in terms[m] : Rank(m, x) = flatID[m][c[3]] <=> x = c[3]
      BY <3>3, <3>4, <3>5, FlatIDsDiffer
    <3>7. {<<e, c[2], k>> : k \in {x \in terms[m] : Rank(m, x) = flatID[m][c[3]]}} = {<<e, c[2], c[3]>>}
      BY <3>4, <3>6
    <3> QED
      BY <2>5, <3>7 DEF Counterparts, InClone, m
  <2> QED
    BY <2>4, <2>5
<1>3. fault' = FALSE
  BY <1>2 DEF CloneDesign
<1>4. \A n \in nets[d] : UNION {Counterparts(e, c) : c \in components[<<d, n>>]}
                           = {InClone(e, c) : c \in components[<<d, n>>]}
  <2> SUFFICES ASSUME NEW n \in nets[d]
               PROVE  UNION {Counterparts(e, c) : c \in components[<<d, n>>]}
                        = {InClone(e, c) : c \in components[<<d, n>>]}
    OBVIOUS
  <2>1. \A c \in components[<<d, n>>] : Counterparts(e, c) = {InClone(e, c)}
    BY <1>2
  <2> QED
    BY <2>1
<1> QED
  BY <1>3, <1>4 DEF CloneComponents

(* The connections after cloneToLibrary(), object by object: the clone's   *)
(* are the original's, all others are what they were.                      *)
LEMMA CloneConnections ==
  ASSUME Careful, Inv, Pos, NEW d \in Design, NEW e \in Design, CloneDesign(d, e)
  PROVE  /\ \A c \in Component : c[1] # e => net'[c] = net[c]
         /\ \A c \in Component : c[1] = e =>
              net'[c] = IF net[InClone(d, c)] = NoNet THEN NoNet
                        ELSE <<e, net[InClone(d, c)][2]>>
         /\ \A c \in Component, n \in NetRef : n[1] # e =>
              (c \in components'[n] <=> c \in components[n])
         /\ \A c \in Component, n \in NetRef : n[1] = e =>
              (c \in components'[n] <=> c[1] = e /\ InClone(d, c) \in components[<<d, n[2]>>])
<1> USE DEF Inv
<1>1. /\ d \in designs /\ e \notin designs /\ d # e
      /\ net' = [c \in Component |->
           IF c[1] = e /\ \E n \in nets[d] : c \in components'[<<e, n>>]
             THEN <<e, CHOOSE n \in nets[d] : c \in components'[<<e, n>>]>>
             ELSE net[c]]
      /\ components' = [n \in NetRef |->
           IF n[1] = e /\ n[2] \in nets[d]
             THEN {InClone(e, c) : c \in components[<<d, n[2]>>]} ELSE components[n]]
  <2>1. components' = CloneComponents(d, e)
    BY DEF CloneDesign
  <2> QED
    BY <2>1, CloneByID DEF CloneDesign
<1>2. \A c \in Component : InClone(d, c) \in Component /\ InClone(e, c) \in Component
  BY ComponentParts DEF InClone, Component
<1>3. \A n \in NetID : <<d, n>> \in NetRef
  BY DEF NetRef
<1>4. \A c \in Component, n \in NetID :
        InClone(d, c) \in components[<<d, n>>] <=> net[InClone(d, c)] = <<d, n>>
  BY <1>2, <1>3 DEF ConnectionsAgree
<1>5. \A c \in Component, n \in NetID : InClone(d, c) \in components[<<d, n>>] => n \in nets[d]
  <2> SUFFICES ASSUME NEW c \in Component, NEW n \in NetID, net[InClone(d, c)] = <<d, n>>
               PROVE  n \in nets[d]
    BY <1>4
  <2>1. net[InClone(d, c)] \in Nets
    BY <1>2, <1>3, ConstantsAssumption DEF ConnectionsLive, NetRef
  <2> QED
    BY <2>1 DEF Nets
<1>6. \A c \in Component : c[1] = e => net[c] = NoNet
  <2> SUFFICES ASSUME NEW c \in Component, c[1] = e, net[c] # NoNet PROVE FALSE
    OBVIOUS
  <2>1. net[c] \in Nets /\ net[c][1] = e
    BY DEF ConnectionsLive
  <2> QED
    BY <1>1, <2>1 DEF Nets, OwnersLive
<1>7. ASSUME NEW c \in Component, NEW n \in NetRef, n[1] = e
      PROVE  c \in components'[n] <=> c[1] = e /\ InClone(d, c) \in components[<<d, n[2]>>]
  <2>1. n[2] \in NetID
    BY DEF NetRef
  <2>2. CASE n[2] \in nets[d]
    <3>1. components'[n] = {InClone(e, x) : x \in components[<<d, n[2]>>]}
      BY <1>1, <1>7, <2>2
    <3>2. \A x \in components[<<d, n[2]>>] : x \in Component /\ x[1] = d
      <4>1. components[<<d, n[2]>>] \subseteq Component
        BY <1>3, <2>1 DEF LinksTyped
      <4> SUFFICES ASSUME NEW x \in components[<<d, n[2]>>] PROVE x[1] = d
        BY <4>1
      <4>2. net[x] = <<d, n[2]>>
        BY <1>3, <2>1, <4>1 DEF ConnectionsAgree
      <4>3. net[x] # NoNet
        BY <1>3, <2>1, <4>2, ConstantsAssumption DEF NetRef
      <4> QED
        BY <4>1, <4>2, <4>3 DEF ConnectionsLive
    <3>3. \A x \in Component : x[1] = d => InClone(d, InClone(e, x)) = x /\ InClone(e, x)[1] = e
      BY ComponentParts DEF InClone
    <3>4. c[1] = e => InClone(e, InClone(d, c)) = c
      BY ComponentParts DEF InClone
    <3> QED
      BY <3>1, <3>2, <3>3, <3>4
  <2>3. CASE n[2] \notin nets[d]
    <3>1. components'[n] = components[n]
      BY <1>1, <2>3
    <3>2. c \notin components[n]
      <4> SUFFICES ASSUME c \in components[n] PROVE FALSE
        OBVIOUS
      <4>1. net[c] = n /\ n # NoNet
        BY ConstantsAssumption DEF ConnectionsAgree, NetRef
      <4>2. n \in Nets
        BY <4>1 DEF ConnectionsLive
      <4> QED
        BY <1>1, <1>7, <4>2 DEF Nets, OwnersLive
    <3> QED
      BY <1>5, <2>1, <2>3, <3>1, <3>2
  <2> QED
    BY <2>2, <2>3
<1>8. ASSUME NEW c \in Component, c[1] = e
      PROVE  net'[c] = IF net[InClone(d, c)] = NoNet THEN NoNet
                       ELSE <<e, net[InClone(d, c)][2]>>
  <2>0. \A n \in nets[d] : c \in components'[<<e, n>>] <=> InClone(d, c) \in components[<<d, n>>]
    <3> SUFFICES ASSUME NEW n \in nets[d]
                 PROVE  c \in components'[<<e, n>>] <=> InClone(d, c) \in components[<<d, n>>]
      OBVIOUS
    <3>1. n \in NetID /\ <<e, n>> \in NetRef /\ <<e, n>>[1] = e /\ <<e, n>>[2] = n
      BY DEF LinksTyped, NetRef
    <3>2. c \in components'[<<e, n>>] <=> c[1] = e /\ InClone(d, c) \in components[<<d, <<e, n>>[2]>>]
      BY <1>7, <3>1
    <3> QED
      BY <1>8, <3>1, <3>2
  <2>1. CASE net[InClone(d, c)] = NoNet
    <3>1. \A n \in nets[d] : n \in NetID
      BY DEF LinksTyped
    <3>2. \A n \in nets[d] : <<d, n>> # NoNet
      BY <3>1, ConstantsAssumption
    <3>3. ~\E n \in nets[d] : c \in components'[<<e, n>>]
      BY <1>4, <2>0, <2>1, <3>1, <3>2
    <3> QED
      BY <1>1, <1>6, <1>8, <2>1, <3>3
  <2>2. CASE net[InClone(d, c)] # NoNet
    <3>1. net[InClone(d, c)] \in Nets /\ net[InClone(d, c)][1] = d
      BY <1>2, <2>2 DEF ConnectionsLive, InClone
    <3>2. PICK n \in nets[d] : net[InClone(d, c)] = <<d, n>>
      BY <3>1 DEF Nets, NetRef
    <3>3. ASSUME NEW x \in nets[d] PROVE c \in components'[<<e, x>>] <=> x = n
      <4>1. x \in NetID
        BY DEF LinksTyped
      <4>2. c \in components'[<<e, x>>] <=> net[InClone(d, c)] = <<d, x>>
        BY <1>4, <2>0, <4>1
      <4> QED
        BY <3>2, <4>2
    <3>4. (CHOOSE x \in nets[d] : c \in components'[<<e, x>>]) = n
      BY <3>3
    <3>5. \E x \in nets[d] : c \in components'[<<e, x>>]
      BY <3>3
    <3>6. net'[c] = <<e, n>>
      BY <1>1, <1>8, <3>4, <3>5
    <3>7. net[InClone(d, c)][2] = n
      BY <3>2
    <3> QED
      BY <2>2, <3>6, <3>7
  <2> QED
    BY <2>1, <2>2
<1>9. \A c \in Component : c[1] # e => net'[c] = net[c]
  BY <1>1
<1>10. \A c \in Component, n \in NetRef : n[1] # e => (c \in components'[n] <=> c \in components[n])
  BY <1>1
<1> QED
  BY <1>7, <1>8, <1>9, <1>10

(* The clone has the components of the original, and its connections make  *)
(* the invariant hold again.                                               *)
LEMMA CloneDesignStep ==
  ASSUME Careful, Inv, Pos, NEW d \in Design, NEW e \in Design, CloneDesign(d, e)
  PROVE  /\ Inv'
         /\ \A c \in Component : c[1] = e => (InClone(d, c) \in Components <=> c \in Components')
<1> USE DEF Inv
<1> DEFINE copies == {<<e, j>> : j \in instances[d]}
<1>1. /\ d \in designs /\ e \notin designs /\ e \notin Primitive /\ d # e
      /\ designs' = designs \cup {e}
      /\ terms' = [terms EXCEPT ![e] = terms[d]]
      /\ nets' = [nets EXCEPT ![e] = nets[d]]
      /\ instances' = [instances EXCEPT ![e] = instances[d]]
  BY DEF CloneDesign
<1>2. /\ model' = [i \in InstRef |-> IF i \in copies THEN model[<<d, i[2]>>] ELSE model[i]]
      /\ bitTerm' = [i \in InstRef |->
                       IF i \in copies THEN Bound(model[<<d, i[2]>>]) ELSE bitTerm[i]]
      /\ slaves' = [x \in Design |-> slaves[x] \cup {i \in copies : x = model'[i] /\ x \notin Primitive}]
  BY DEF CloneDesign, Registered
<1>3. terms[e] = {} /\ nets[e] = {} /\ instances[e] = {}
  BY <1>1 DEF OwnersLive
<1>4. Instances' = Instances \cup copies
  BY <1>1, <1>3 DEF Instances, InstRef, LinksTyped
<1>5. \A i \in copies : i \in InstRef /\ i \notin Instances /\ i[1] = e /\ <<d, i[2]>> \in Instances
  BY <1>3 DEF Instances, InstRef, LinksTyped
<1>6. \A i \in Instances' : i \notin copies => i \in Instances
  BY <1>4
<1>7. \A i \in InstRef : i[1] = e => (i \in copies <=> <<d, i[2]>> \in Instances)
  BY DEF Instances, InstRef
<1> HIDE DEF copies
<1>8. \A i \in copies : model'[i] = model[<<d, i[2]>>] /\ model'[i] \in designs /\ bitTerm'[i] = Bound(model'[i])
  BY <1>2, <1>5, InstanceFacts
<1>9. \A i \in InstRef : i \notin copies => model'[i] = model[i] /\ bitTerm'[i] = bitTerm[i]
  BY <1>2
<1>10. \A x \in designs : x \in Design /\ terms'[x] = terms[x]
  BY <1>1 DEF LinksTyped
<1>11. LinksTyped'
  <2>1. designs' \subseteq Design /\ terms' \in [Design -> SUBSET TermID] /\ nets' \in [Design -> SUBSET NetID]
    BY <1>1 DEF LinksTyped
  <2>2. instances' \in [Design -> SUBSET InstID]
    BY <1>1 DEF LinksTyped
  <2>3. slaves' \in [Design -> SUBSET InstRef]
    BY <1>2, <1>5 DEF LinksTyped
  <2>4. model' \in [InstRef -> Design \cup {NoDesign}]
    <3>1. \A i \in InstRef : model'[i] \in Design \cup {NoDesign}
      BY <1>8, <1>9, <1>10 DEF LinksTyped
    <3> QED
      BY <1>2, <3>1
  <2>5. bitTerm' \in [InstRef -> [TermID -> Design \cup {NoDesign}]]
    <3>1. \A x \in Design : Bound(x) \in [TermID -> Design \cup {NoDesign}]
      BY DEF Bound
    <3>2. \A i \in copies : bitTerm'[i] \in [TermID -> Design \cup {NoDesign}]
      <4> TAKE i \in copies
      <4>1. bitTerm'[i] = Bound(model'[i]) /\ model'[i] \in Design
        BY <1>8, <1>10
      <4> QED
        BY <3>1, <4>1
    <3>3. \A i \in InstRef : i \notin copies => bitTerm'[i] \in [TermID -> Design \cup {NoDesign}]
      BY <1>9 DEF LinksTyped
    <3> QED
      BY <1>2, <3>2, <3>3
  <2>6. \A c \in Component : net'[c] \in NetRef \cup {NoNet}
    <3> TAKE c \in Component
    <3>1. CASE c[1] # e
      BY <3>1, CloneConnections DEF LinksTyped
    <3>2. CASE c[1] = e
      <4>1. InClone(d, c) \in Component
        BY ComponentParts DEF InClone, Component
      <4>2. net[InClone(d, c)] # NoNet => <<e, net[InClone(d, c)][2]>> \in NetRef
        BY <4>1 DEF LinksTyped, NetRef
      <4> QED
        BY <3>2, <4>2, CloneConnections
    <3> QED
      BY <3>1, <3>2
  <2>7. net' \in [Component -> NetRef \cup {NoNet}]
    BY <2>6 DEF CloneDesign
  <2>8. components' \in [NetRef -> SUBSET Component]
    <3>1. components' = [n \in NetRef |->
           IF n[1] = e /\ n[2] \in nets[d]
             THEN {InClone(e, c) : c \in components[<<d, n[2]>>]} ELSE components[n]]
      BY CloneByID DEF CloneDesign
    <3>2. \A c \in Component : InClone(e, c) \in Component
      BY ComponentParts DEF InClone, Component
    <3>3. \A n \in NetRef : components[<<d, n[2]>>] \subseteq Component /\ components[n] \subseteq Component
      BY DEF LinksTyped, NetRef
    <3> QED
      BY <3>1, <3>2, <3>3
  <2> QED
    BY <2>1, <2>2, <2>3, <2>4, <2>5, <2>7, <2>8 DEF LinksTyped
<1>12. OwnersLive'
  <2>1. \A i \in Instances' : model'[i] \in designs'
    BY <1>1, <1>6, <1>8, <1>9, InstanceFacts DEF OwnersLive
  <2> QED
    BY <1>1, <2>1 DEF OwnersLive, LinksTyped
<1>13. SlavesAgree'
  <2> SUFFICES ASSUME NEW x \in Design
               PROVE  slaves'[x] = IF x \in Primitive THEN {} ELSE {i \in Instances' : model'[i] = x}
    BY DEF SlavesAgree
  <2>1. slaves[x] = IF x \in Primitive THEN {} ELSE {i \in Instances : model[i] = x}
    BY DEF SlavesAgree
  <2>2. slaves'[x] = slaves[x] \cup {i \in copies : x = model'[i] /\ x \notin Primitive}
    BY <1>2
  <2>3. \A i \in Instances : model'[i] = model[i]
    BY <1>5, <1>9 DEF Instances
  <2>4. CASE x \in Primitive
    BY <2>1, <2>2, <2>4
  <2>5. CASE x \notin Primitive
    BY <1>4, <2>1, <2>2, <2>3, <2>5
  <2> QED
    BY <2>4, <2>5
<1>14. InstTermsMirrorModel'
  <2> SUFFICES ASSUME NEW i \in InstRef
               PROVE  bitTerm'[i] = IF i \in Instances' THEN Bound(model[i])' ELSE Unbound
    BY DEF InstTermsMirrorModel, Unbound
  <2>1. CASE i \in copies
    <3>1. Bound(model'[i]) = Bound(model[i])'
      BY <1>8, <1>10, <2>1 DEF Bound
    <3> QED
      BY <1>4, <1>8, <2>1, <3>1
  <2>2. CASE i \notin copies /\ i \in Instances
    <3>1. Bound(model[i]) = Bound(model[i])'
      <4>1. model'[i] = model[i] /\ model[i] \in designs
        BY <1>9, <2>2, InstanceFacts
      <4> QED
        BY <1>10, <4>1 DEF Bound
    <3> QED
      BY <1>4, <1>9, <2>2, <3>1, InstanceFacts
  <2>3. CASE i \notin copies /\ i \notin Instances
    BY <1>4, <1>9, <2>3 DEF InstTermsMirrorModel
  <2> QED
    BY <2>1, <2>2, <2>3
<1>15. ConnectionsAgree'
  <2> SUFFICES ASSUME NEW c \in Component, NEW n \in NetRef
               PROVE  net'[c] = n <=> c \in components'[n]
    BY DEF ConnectionsAgree
  <2>1. n = <<n[1], n[2]>> /\ n[1] \in Design /\ n[2] \in NetID /\ n # NoNet
    BY ConstantsAssumption DEF NetRef
  <2>2. net[c] = n <=> c \in components[n]
    BY DEF ConnectionsAgree
  <2>3. net[c] = n => c[1] = n[1]
    BY <2>1 DEF ConnectionsLive
  <2>4. CASE n[1] # e
    <3>1. c[1] = e => net'[c] # n /\ net[c] # n
      <4>1. c[1] = e => net'[c] = IF net[InClone(d, c)] = NoNet THEN NoNet ELSE <<e, net[InClone(d, c)][2]>>
        BY CloneConnections
      <4> QED
        BY ONLY <4>1, <2>1, <2>3, <2>4
    <3> QED
      BY <2>2, <2>4, <3>1, CloneConnections
  <2>5. CASE n[1] = e
    <3>1. InClone(d, c) \in Component /\ <<d, n[2]>> \in NetRef
      BY <2>1, ComponentParts DEF InClone, Component, NetRef
    <3>2. net[InClone(d, c)] = <<d, n[2]>> <=> InClone(d, c) \in components[<<d, n[2]>>]
      BY <3>1 DEF ConnectionsAgree
    <3>3. net[InClone(d, c)] # NoNet => net[InClone(d, c)] = <<d, net[InClone(d, c)][2]>>
      BY <3>1 DEF ConnectionsLive, Nets, NetRef, InClone
    <3>4. c[1] # e => net'[c] # n
      <4>1. c[1] # e => net'[c] = net[c]
        BY CloneConnections
      <4> QED
        BY <2>3, <2>5, <4>1
    <3>5. c[1] = e => (net'[c] = n <=> net[InClone(d, c)] = <<d, n[2]>>)
      <4>1. c[1] = e => net'[c] = IF net[InClone(d, c)] = NoNet THEN NoNet ELSE <<e, net[InClone(d, c)][2]>>
        BY CloneConnections
      <4>2. <<d, n[2]>> # NoNet
        BY <3>1, ConstantsAssumption DEF NetRef
      <4> QED
        BY <2>1, <2>5, <3>3, <4>1, <4>2
    <3>6. c \in components'[n] <=> c[1] = e /\ InClone(d, c) \in components[<<d, n[2]>>]
      BY <2>5, CloneConnections
    <3> QED
      BY <3>2, <3>4, <3>5, <3>6
  <2> QED
    BY <2>4, <2>5
<1>16. \A c \in Component : c[1] # e => (c \in Components <=> c \in Components')
  <2> SUFFICES ASSUME NEW c \in Component, c[1] # e PROVE c \in Components <=> c \in Components'
    OBVIOUS
  <2>1. terms'[c[1]] = terms[c[1]]
    BY <1>1, ComponentParts DEF LinksTyped
  <2>2. c[2] # Self => /\ InstanceOf(c) \in InstRef /\ InstanceOf(c) \notin copies
                       /\ InstanceOf(c) \in Instances' <=> InstanceOf(c) \in Instances
    BY <1>4, <1>5, ComponentParts DEF InstanceOf
  <2> QED
    BY <1>9, <2>1, <2>2 DEF Components, InstanceOf
<1>17. \A c \in Component : c[1] = e => (InClone(d, c) \in Components <=> c \in Components')
  <2> SUFFICES ASSUME NEW c \in Component, c[1] = e
               PROVE  InClone(d, c) \in Components <=> c \in Components'
    OBVIOUS
  <2> DEFINE o == InClone(d, c)
  <2>1. o \in Component /\ o[1] = d /\ o[2] = c[2] /\ o[3] = c[3]
    BY ComponentParts DEF InClone, Component
  <2>2. terms'[c[1]] = terms[d]
    BY <1>1 DEF LinksTyped
  <2> HIDE DEF o
  <2>3. CASE c[2] = Self
    <3>1. o \in Components <=> c[3] \in terms[d]
      BY <2>1, <2>3 DEF Components
    <3>2. c \in Components' <=> c[3] \in terms'[c[1]]
      BY <2>3 DEF Components
    <3> QED
      BY <2>2, <3>1, <3>2 DEF o
  <2>4. CASE c[2] # Self
    <3>1. InstanceOf(c) \in InstRef /\ InstanceOf(c)[1] = e /\ InstanceOf(o) = <<d, InstanceOf(c)[2]>> /\ c[3] \in TermID
      BY <2>1, <2>4, ComponentParts DEF InstanceOf
    <3>2. InstanceOf(c) \in copies <=> InstanceOf(o) \in Instances
      BY <1>7, <3>1
    <3>3. InstanceOf(c) \in Instances' <=> InstanceOf(c) \in copies
      BY <1>3, <1>4, <3>1 DEF Instances
    <3>4. InstanceOf(c) \in copies => bitTerm'[InstanceOf(c)] = bitTerm[InstanceOf(o)]
      BY <1>8, <3>1, <3>2, InstanceFacts
    <3>5. c \in Components' <=> InstanceOf(c) \in Instances' /\ bitTerm'[InstanceOf(c)][c[3]] # NoDesign
      BY <2>4 DEF Components, InstanceOf
    <3>6. o \in Components <=> InstanceOf(o) \in Instances /\ bitTerm[InstanceOf(o)][c[3]] # NoDesign
      BY <2>1, <2>4 DEF Components
    <3> QED
      BY <3>2, <3>3, <3>4, <3>5, <3>6 DEF o
  <2> QED
    BY <2>3, <2>4
<1>18. ConnectionsLive'
  <2> SUFFICES ASSUME NEW c \in Component, net'[c] # NoNet
               PROVE  c \in Components' /\ net'[c] \in Nets' /\ net'[c][1] = c[1]
    BY DEF ConnectionsLive
  <2>1. CASE c[1] # e
    <3>1. net'[c] = net[c] /\ c \in Components /\ net[c] \in Nets /\ net[c][1] = c[1]
      BY <2>1, CloneConnections DEF ConnectionsLive
    <3>2. net[c] \in Nets'
      BY <1>1, <2>1, <3>1 DEF Nets, NetRef, LinksTyped
    <3> QED
      BY <1>16, <2>1, <3>1, <3>2
  <2>2. CASE c[1] = e
    <3>1. net[InClone(d, c)] # NoNet /\ net'[c] = <<e, net[InClone(d, c)][2]>>
      <4>1. net'[c] = IF net[InClone(d, c)] = NoNet THEN NoNet ELSE <<e, net[InClone(d, c)][2]>>
        BY <2>2, CloneConnections
      <4> QED
        BY ONLY <4>1, net'[c] # NoNet
    <3>2. InClone(d, c) \in Component
      BY ComponentParts DEF InClone, Component
    <3>3. InClone(d, c) \in Components /\ net[InClone(d, c)] \in Nets /\ net[InClone(d, c)][1] = d
      BY <3>1, <3>2 DEF ConnectionsLive, InClone
    <3>4. net'[c] \in Nets'
      BY <1>1, <3>1, <3>3 DEF Nets, NetRef, LinksTyped
    <3> QED
      BY <1>17, <2>2, <3>1, <3>3, <3>4
  <2> QED
    BY <2>1, <2>2
<1> QED
  BY <1>11, <1>12, <1>13, <1>14, <1>15, <1>17, <1>18

-----------------------------------------------------------------------------
(* The vectors.  Every nonempty set of natural numbers has a least         *)
(* element.                                                                *)
LEMMA LeastOf == \A T \in SUBSET Nat : T # {} => \E n \in T : \A m \in T : n <= m
<1> SUFFICES ASSUME NEW T \in SUBSET Nat, T # {}
             PROVE  \E n \in T : \A m \in T : n <= m
  OBVIOUS
<1> DEFINE R == OpToRel(<, Nat)
<1>1. IsWellFoundedOn(R, Nat)
  BY NatLessThanWellFounded
<1>2. \A m, n \in Nat : m < n => <<m, n>> \in R
  BY DEF OpToRel
<1> HIDE DEF R
<1>3. PICK n \in T : \A m \in T : ~(<<m, n>> \in R)
  BY <1>1, WFMin
<1>4. \A m \in T : ~(m < n)
  BY <1>2, <1>3
<1>5. \A m \in T : n <= m
  BY <1>4
<1> QED
  BY <1>5

(* The flat ID of the next terminal is beyond those of a design's          *)
(* terminals.                                                              *)
LEMMA NextIsBeyond ==
  ASSUME Inv, Pos, NEW d \in Design
  PROVE  /\ NextFlatID(d) \in Nat
         /\ \A k \in terms[d] : flatID[d][k] < NextFlatID(d)
<1>1. CASE terms[d] = {}
  BY <1>1 DEF NextFlatID
<1>2. CASE terms[d] # {}
  <2>1. terms[d] \subseteq TermID /\ \A k \in terms[d] : k \in Nat /\ k <= MaxTermID
    BY ConstantsAssumption DEF Inv, LinksTyped, TermID
  <2> DEFINE T == {MaxTermID - k : k \in terms[d]}
  <2>2. T \in SUBSET Nat /\ T # {}
    BY <1>2, <2>1, ConstantsAssumption
  <2>3. PICK t \in T : \A u \in T : t <= u
    BY <2>2, LeastOf
  <2>4. PICK x \in terms[d] : t = MaxTermID - x
    BY <2>3
  <2>5. \A j \in terms[d] : j <= x
    <3> SUFFICES ASSUME NEW j \in terms[d] PROVE j <= x
      OBVIOUS
    <3>1. MaxTermID - j \in T
      OBVIOUS
    <3>2. MaxTermID - x <= MaxTermID - j
      BY <2>3, <2>4, <3>1
    <3> QED
      BY <2>1, <3>2, ConstantsAssumption
  <2>6. LastID(d) \in terms[d] /\ \A j \in terms[d] : j <= LastID(d)
    BY <2>5 DEF LastID
  <2> DEFINE l == LastID(d)
  <2> HIDE DEF T, l
  <2>7. l \in terms[d] /\ \A j \in terms[d] : j <= l
    BY <2>6 DEF l
  <2>8. NextFlatID(d) = flatID[d][l] + 1 /\ flatID[d][l] \in Nat
    BY <1>2, <2>1, <2>7 DEF NextFlatID, l, Pos, PositionsTyped
  <2>9. ASSUME NEW k \in terms[d] PROVE flatID[d][k] < NextFlatID(d)
    <3>1. flatID[d][k] \in Nat /\ k \in Nat /\ l \in Nat /\ k <= l
      BY <2>1, <2>7 DEF Pos, PositionsTyped
    <3>2. k = l \/ k < l
      BY <3>1
    <3>3. k < l => flatID[d][k] < flatID[d][l]
      BY <2>7 DEF Pos, FlatIDsOrdered
    <3> QED
      BY <2>8, <3>1, <3>2, <3>3
  <2> QED
    BY <2>8, <2>9
<1> QED
  BY <1>1, <1>2

(* A terminal's place is inside the vector that is filled. *)
LEMMA RankInside ==
  ASSUME Inv, NEW m \in Design
  PROVE  /\ Cardinality(terms[m]) \in Nat
         /\ \A k \in TermID : Rank(m, k) \in Nat
         /\ \A k \in terms[m] : Rank(m, k) < Cardinality(terms[m])
         /\ Pushed(m) \in [TermID -> Nat]
<1>1. terms[m] \subseteq TermID /\ \A k \in TermID : k \in Nat
  BY ConstantsAssumption DEF Inv, LinksTyped, TermID
<1>2. IsFiniteSet(TermID)
  BY ConstantsAssumption, FS_Interval DEF TermID
<1>3. IsFiniteSet(terms[m]) /\ Cardinality(terms[m]) \in Nat
  BY <1>1, <1>2, FS_Subset, FS_CardinalityType
<1>4. ASSUME NEW k \in TermID
      PROVE  Rank(m, k) \in Nat /\ (k \in terms[m] => Rank(m, k) < Cardinality(terms[m]))
  <2> DEFINE S == {j \in terms[m] : j < k}
  <2>1. S \subseteq terms[m] /\ Rank(m, k) = Cardinality(S)
    BY DEF Rank
  <2>2. k \in terms[m] => S # terms[m]
    BY <1>1
  <2> HIDE DEF S
  <2>3. IsFiniteSet(S) /\ Cardinality(S) \in Nat
    BY <1>3, <2>1, FS_Subset, FS_CardinalityType
  <2>4. Cardinality(S) <= Cardinality(terms[m]) /\ (Cardinality(S) = Cardinality(terms[m]) => S = terms[m])
    BY <1>3, <2>1, FS_Subset
  <2> QED
    BY <1>3, <2>1, <2>2, <2>3, <2>4
<1>5. Pushed(m) \in [TermID -> Nat]
  BY <1>4 DEF Pushed
<1> QED
  BY <1>1, <1>3, <1>4, <1>5

(* At first there is nothing to find. *)
LEMMA InitPos == Init => Pos
<1> SUFFICES ASSUME Init PROVE Pos
  OBVIOUS
<1>1. PositionsTyped /\ fault = FALSE
  BY DEF Init, PositionsTyped, NoSlots
<1>2. Instances = {}
  BY DEF Init, Instances, InstRef
<1>3. FlatIDsOrdered /\ SlotsAgree
  BY <1>2 DEF Init, FlatIDsOrdered, SlotsAgree
<1> QED
  BY <1>1, <1>3 DEF Pos

(* Steps that leave terminals, instances and vectors alone. *)
LEMMA SamePos ==
  ASSUME Pos, UNCHANGED <<terms, instances, model, layout, fault>>
  PROVE  Pos'
<1>1. Instances' = Instances
  BY DEF Instances
<1> QED
  BY <1>1 DEF Pos, PositionsTyped, FlatIDsOrdered, SlotsAgree, layout

(* A new terminal is last in its design and in the vector of each slave    *)
(* instance.                                                               *)
LEMMA CreateTermPos ==
  ASSUME Careful, Inv, Pos, NEW d \in Design, NEW k \in TermID, CreateTerm(d, k)
  PROVE  Pos'
<1> DEFINE f == NextFlatID(d)
<1>1. /\ k \notin terms[d]
      /\ \A j \in terms[d] : j < k
      /\ \A i \in slaves[d] : size[i] = f
      /\ terms' = [terms EXCEPT ![d] = @ \cup {k}]
      /\ flatID' = [flatID EXCEPT ![d][k] = f]
      /\ slot' = [i \in InstRef |->
                    IF i \in slaves[d] THEN [slot[i] EXCEPT ![k] = size[i]] ELSE slot[i]]
      /\ size' = [i \in InstRef |-> IF i \in slaves[d] THEN size[i] + 1 ELSE size[i]]
      /\ UNCHANGED <<instances, model, fault>>
  BY DEF CreateTerm, Careful
<1>2. f \in Nat /\ \A x \in terms[d] : flatID[d][x] < f
  BY NextIsBeyond
<1> HIDE DEF f
<1>3. \A i \in Instances : model[i] = d <=> i \in slaves[d]
  BY DEF CreateTerm, Allowed, Careful, Inv, SlavesAgree
<1>4. Instances' = Instances
  BY <1>1 DEF Instances
<1>5. PositionsTyped'
  <2>1. flatID' \in [Design -> [TermID -> Nat]]
    BY <1>1, <1>2 DEF Pos, PositionsTyped
  <2>2. slot' \in [InstRef -> [TermID -> Nat]]
    BY <1>1 DEF Pos, PositionsTyped
  <2>3. size' \in [InstRef -> Nat]
    BY <1>1 DEF Pos, PositionsTyped
  <2> QED
    BY <2>1, <2>2, <2>3 DEF PositionsTyped
<1>6. /\ terms'[d] = terms[d] \cup {k} /\ terms[d] \subseteq TermID
      /\ \A e \in Design : e # d => terms'[e] = terms[e] /\ flatID'[e] = flatID[e]
      /\ flatID'[d][k] = f
      /\ \A x \in TermID : x # k => flatID'[d][x] = flatID[d][x]
  BY <1>1 DEF Inv, LinksTyped, Pos, PositionsTyped
<1>7. FlatIDsOrdered'
  <2> SUFFICES ASSUME NEW e \in Design, NEW x \in terms'[e], NEW y \in terms'[e], x < y
               PROVE  flatID'[e][x] < flatID'[e][y]
    BY DEF FlatIDsOrdered
  <2>1. CASE e # d
    BY <1>6, <2>1 DEF Pos, FlatIDsOrdered
  <2>2. CASE e = d
    <3>1. x \in TermID /\ y \in TermID /\ x \in Int /\ y \in Int
      BY <1>6, <2>2 DEF TermID
    <3>2. x # k
      <4> SUFFICES ASSUME x = k PROVE FALSE
        OBVIOUS
      <4>1. y \in terms[d]
        BY <1>6, <2>2, <3>1
      <4>2. y < k
        BY <1>1, <4>1
      <4> QED
        BY <3>1, <4>2
    <3>3. x \in terms[d] /\ flatID'[e][x] = flatID[d][x]
      BY <1>6, <2>2, <3>1, <3>2
    <3>4. CASE y = k
      BY <1>2, <1>6, <2>2, <3>3, <3>4
    <3>5. CASE y # k
      BY <1>6, <2>2, <3>1, <3>3, <3>5 DEF Pos, FlatIDsOrdered
    <3> QED
      BY <3>4, <3>5
  <2> QED
    BY <2>1, <2>2
<1>8. SlotsAgree'
  <2>0. model' = model
    BY <1>1
  <2> SUFFICES ASSUME NEW i \in Instances, NEW x \in terms'[model[i]]
               PROVE  slot'[i][x] = flatID'[model[i]][x] /\ slot'[i][x] < size'[i]
    BY <1>4, <2>0 DEF SlotsAgree
  <2>1. i \in InstRef /\ model[i] \in Design
    BY InstanceFacts
  <2>2. slot[i] \in [TermID -> Nat] /\ size[i] \in Nat
    BY <2>1 DEF Pos, PositionsTyped
  <2>3. \A y \in terms[model[i]] : slot[i][y] = flatID[model[i]][y] /\ slot[i][y] < size[i]
    BY DEF Pos, SlotsAgree
  <2>4. CASE model[i] # d
    <3>1. slot'[i] = slot[i] /\ size'[i] = size[i]
      BY <1>1, <1>3, <2>1, <2>4
    <3> QED
      BY <1>6, <2>1, <2>3, <2>4, <3>1
  <2>5. CASE model[i] = d
    <3>1. slot'[i] = [slot[i] EXCEPT ![k] = size[i]] /\ size'[i] = size[i] + 1 /\ size[i] = f
      BY <1>1, <1>3, <2>1, <2>5
    <3>2. CASE x = k
      <4>1. slot'[i][x] = f
        BY <2>2, <3>1, <3>2
      <4> QED
        BY <1>2, <1>6, <2>5, <3>1, <3>2, <4>1
    <3>3. CASE x # k
      <4>1. x \in terms[d] /\ x \in TermID
        BY <1>6, <2>5, <3>3
      <4>2. slot'[i][x] = slot[i][x] /\ flatID'[d][x] = flatID[d][x] /\ slot[i][x] \in Nat
        BY <1>6, <2>2, <3>1, <3>3, <4>1
      <4> QED
        BY <2>2, <2>3, <2>5, <3>1, <4>1, <4>2
    <3> QED
      BY <3>2, <3>3
  <2> QED
    BY <2>4, <2>5
<1> QED
  BY <1>1, <1>5, <1>7, <1>8 DEF Pos

(* A terminal that goes leaves the others where they are. *)
LEMMA DestroyTermPos ==
  ASSUME Careful, Inv, Pos, NEW d \in Design, NEW k \in TermID, DestroyTerm(d, k)
  PROVE  Pos'
<1>1. /\ terms' = [terms EXCEPT ![d] = @ \ {k}]
      /\ flatID' = [flatID EXCEPT ![d][k] = 0]
      /\ UNCHANGED <<instances, model, size>>
  BY DEF DestroyTerm
<1>2. /\ slot' = [i \in InstRef |->
                   IF i \in slaves[d] THEN [slot[i] EXCEPT ![k] = 0] ELSE slot[i]]
      /\ fault' = FALSE
  BY DestroyTermByID
<1>3. Instances' = Instances
  BY <1>1 DEF Instances
<1>4. \A i \in Instances : model[i] = d <=> i \in slaves[d]
  BY DEF DestroyTerm, Allowed, Careful, Inv, SlavesAgree
<1>5. PositionsTyped'
  <2>1. flatID' \in [Design -> [TermID -> Nat]]
    BY <1>1 DEF Pos, PositionsTyped
  <2>2. slot' \in [InstRef -> [TermID -> Nat]]
    BY <1>2 DEF Pos, PositionsTyped
  <2> QED
    BY <1>1, <2>1, <2>2 DEF Pos, PositionsTyped
<1>6. \A e \in Design : \A x \in terms'[e] :
        x \in terms[e] /\ flatID'[e][x] = flatID[e][x] /\ (e = d => x # k) /\ x \in TermID
  BY <1>1 DEF Inv, LinksTyped, Pos, PositionsTyped
<1>7. FlatIDsOrdered'
  BY <1>6 DEF Pos, FlatIDsOrdered
<1>8. SlotsAgree'
  <2> SUFFICES ASSUME NEW i \in Instances, NEW x \in terms'[model[i]]
               PROVE  slot'[i][x] = flatID'[model[i]][x] /\ slot'[i][x] < size'[i]
    BY <1>1, <1>3 DEF SlotsAgree
  <2>1. i \in InstRef /\ model[i] \in Design /\ slot[i] \in [TermID -> Nat]
    BY InstanceFacts DEF Pos, PositionsTyped
  <2>2. x \in terms[model[i]] /\ x \in TermID /\ flatID'[model[i]][x] = flatID[model[i]][x]
    BY <1>6, <2>1
  <2>3. slot'[i][x] = slot[i][x]
    <3>1. CASE model[i] = d
      BY <1>2, <1>6, <2>1, <2>2, <3>1
    <3>2. CASE model[i] # d
      BY <1>2, <1>4, <2>1, <3>2
    <3> QED
      BY <3>1, <3>2
  <2> QED
    BY <1>1, <2>2, <2>3 DEF Pos, SlotsAgree
<1> QED
  BY <1>2, <1>5, <1>7, <1>8 DEF Pos

(* A new instance of a model without holes fills its vector as the flat    *)
(* IDs want it.                                                            *)
LEMMA CreateInstancePos ==
  ASSUME Careful, Inv, Pos, NEW d \in Design, NEW j \in InstID, NEW m \in Design,
         CreateInstance(d, j, m)
  PROVE  Pos'
<1> DEFINE i == <<d, j>>
<1>1. /\ j \notin instances[d] /\ Compact(m)
      /\ instances' = [instances EXCEPT ![d] = @ \cup {j}]
      /\ model' = [model EXCEPT ![i] = m]
      /\ slot' = [slot EXCEPT ![i] = Pushed(m)]
      /\ size' = [size EXCEPT ![i] = Cardinality(terms[m])]
      /\ UNCHANGED <<terms, flatID, fault>>
  BY DEF CreateInstance, Careful
<1>2. i \in InstRef /\ i \notin Instances
  BY <1>1 DEF InstRef, Instances
<1>3. Instances' = Instances \cup {i}
  BY <1>1 DEF Instances, InstRef, Inv, LinksTyped
<1> HIDE DEF i
<1>4. PositionsTyped'
  BY <1>1, <1>2, RankInside DEF Pos, PositionsTyped
<1>5. FlatIDsOrdered'
  BY <1>1 DEF Pos, FlatIDsOrdered
<1>6. SlotsAgree'
  <2> SUFFICES ASSUME NEW x \in Instances', NEW k \in terms[model'[x]]
               PROVE  slot'[x][k] = flatID[model'[x]][k] /\ slot'[x][k] < size'[x]
    BY <1>1 DEF SlotsAgree
  <2>1. CASE x = i
    <3>1. model'[x] = m /\ slot'[x] = Pushed(m) /\ size'[x] = Cardinality(terms[m])
      BY <1>1, <1>2, <2>1 DEF Inv, LinksTyped, Pos, PositionsTyped
    <3>2. k \in terms[m] /\ k \in TermID
      BY <3>1 DEF Inv, LinksTyped
    <3>3. Pushed(m)[k] = Rank(m, k) /\ flatID[m][k] = Rank(m, k)
      BY <1>1, <3>2 DEF Pushed, Compact
    <3> QED
      BY <3>1, <3>2, <3>3, RankInside
  <2>2. CASE x # i
    <3>1. x \in Instances /\ x \in InstRef
      BY <1>3, <2>2 DEF Instances
    <3>2. model'[x] = model[x] /\ slot'[x] = slot[x] /\ size'[x] = size[x]
      BY <1>1, <1>2, <2>2, <3>1 DEF Inv, LinksTyped, Pos, PositionsTyped
    <3> QED
      BY <3>1, <3>2 DEF Pos, SlotsAgree
  <2> QED
    BY <2>1, <2>2
<1> QED
  BY <1>1, <1>4, <1>5, <1>6 DEF Pos

(* setModel() wants the flat IDs the instance terminals are placed by. *)
LEMMA SetModelPos ==
  ASSUME Careful, Inv, Pos, NEW d \in Design, NEW j \in InstID, NEW m \in Design,
         SetModel(d, j, m)
  PROVE  Pos'
<1> DEFINE i == <<d, j>>
<1>1. /\ i \in Instances
      /\ terms[model[i]] = terms[m]
      /\ \A k \in terms[model[i]] : flatID[model[i]][k] = flatID[m][k]
      /\ model' = [model EXCEPT ![i] = m]
      /\ UNCHANGED <<terms, instances, layout, fault>>
  BY DEF SetModel, SameInterface, Careful
<1> HIDE DEF i
<1>2. Instances' = Instances
  BY <1>1 DEF Instances
<1>3. \A x \in Instances : model'[x] = IF x = i THEN m ELSE model[x]
  BY <1>1 DEF Instances, Inv, LinksTyped
<1>4. SlotsAgree'
  <2> SUFFICES ASSUME NEW x \in Instances, NEW k \in terms[model'[x]]
               PROVE  slot[x][k] = flatID[model'[x]][k] /\ slot[x][k] < size[x]
    BY <1>1, <1>2 DEF SlotsAgree, layout
  <2> QED
    BY <1>1, <1>3 DEF Pos, SlotsAgree
<1> QED
  BY <1>1, <1>4 DEF Pos, PositionsTyped, FlatIDsOrdered, layout

(* Destroying instances, alone or with a design. *)
LEMMA InstancesGonePos ==
  ASSUME Inv, Pos, NEW I \in SUBSET Instances, InstancesGone(I), fault' = FALSE,
         slot' = [i \in InstRef |-> IF i \in I THEN NoSlots ELSE slot[i]],
         size' = [i \in InstRef |-> IF i \in I THEN 0 ELSE size[i]],
         flatID' \in [Design -> [TermID -> Nat]],
         \A e \in Design : terms'[e] = {} \/ (terms'[e] = terms[e] /\ flatID'[e] = flatID[e]),
         \A i \in Instances \ I : terms'[model[i]] = terms[model[i]] /\ flatID'[model[i]] = flatID[model[i]]
  PROVE  Pos'
<1>1. Instances' = Instances \ I /\ \A i \in Instances' : model'[i] = model[i]
  BY InstancesGoneFacts
<1>2. PositionsTyped'
  <2>1. NoSlots \in [TermID -> Nat]
    BY DEF NoSlots
  <2> QED
    BY <2>1 DEF Pos, PositionsTyped
<1>3. FlatIDsOrdered'
  BY DEF Pos, FlatIDsOrdered
<1>4. SlotsAgree'
  <2> SUFFICES ASSUME NEW i \in Instances', NEW k \in terms'[model'[i]]
               PROVE  slot'[i][k] = flatID'[model'[i]][k] /\ slot'[i][k] < size'[i]
    BY DEF SlotsAgree
  <2>1. i \in Instances /\ i \notin I /\ i \in InstRef /\ model'[i] = model[i]
    BY <1>1 DEF Instances
  <2>2. slot'[i] = slot[i] /\ size'[i] = size[i]
    BY <2>1
  <2>3. k \in terms[model[i]] /\ flatID'[model'[i]] = flatID[model[i]]
    BY <2>1
  <2> QED
    BY <2>1, <2>2, <2>3 DEF Pos, SlotsAgree
<1> QED
  BY <1>2, <1>3, <1>4 DEF Pos

(* The steps that destroy instances. *)
LEMMA DestroyInstancePos ==
  ASSUME Inv, Pos, NEW d \in Design, NEW j \in InstID, DestroyInstance(d, j)
  PROVE  Pos'
<1> DEFINE i == <<d, j>>
<1>1. /\ i \in Instances
      /\ slot' = [slot EXCEPT ![i] = NoSlots]
      /\ size' = [size EXCEPT ![i] = 0]
      /\ UNCHANGED <<terms, flatID, fault>>
  BY DEF DestroyInstance
<1>2. InstancesGone({i})
  BY DestroyInstanceGone
<1>3. i \in InstRef
  BY <1>1 DEF Instances
<1> HIDE DEF i
<1>4. /\ slot' = [x \in InstRef |-> IF x \in {i} THEN NoSlots ELSE slot[x]]
      /\ size' = [x \in InstRef |-> IF x \in {i} THEN 0 ELSE size[x]]
  BY <1>1, <1>3 DEF Pos, PositionsTyped
<1>5. {i} \in SUBSET Instances /\ fault' = FALSE /\ flatID' \in [Design -> [TermID -> Nat]]
  BY <1>1 DEF Pos, PositionsTyped
<1> QED
  BY <1>1, <1>2, <1>4, <1>5, InstancesGonePos

(* The same with the instances of a design and its slave instances. *)
LEMMA DestroyDesignPos ==
  ASSUME Careful, Inv, Pos, NEW d \in Design, DestroyDesign(d)
  PROVE  Pos'
<1> DEFINE I == Doomed(d)
<1>1. /\ terms' = [terms EXCEPT ![d] = {}]
      /\ flatID' = [flatID EXCEPT ![d] = NoSlots]
      /\ slot' = [i \in InstRef |-> IF i \in I THEN NoSlots ELSE slot[i]]
      /\ size' = [i \in InstRef |-> IF i \in I THEN 0 ELSE size[i]]
      /\ InstancesGone(I)
      /\ UNCHANGED fault
  BY DEF DestroyDesign, InstancesGone
<1>2. I \in SUBSET Instances
  BY DEF Doomed, Inv, SlavesAgree
<1>3. \A i \in Instances : model[i] = d => i \in I
  <2>1. \A i \in Instances : model[i] = d => d \notin Primitive /\ i \in slaves[d]
    BY DEF DestroyDesign, Allowed, Careful, Inv, SlavesAgree
  <2> QED
    BY <2>1 DEF Doomed
<1> HIDE DEF I
<1>4. NoSlots \in [TermID -> Nat]
  BY DEF NoSlots
<1>5. fault' = FALSE /\ flatID' \in [Design -> [TermID -> Nat]]
  BY <1>1, <1>4 DEF Pos, PositionsTyped
<1>6. \A e \in Design : IF e = d THEN terms'[e] = {} ELSE terms'[e] = terms[e] /\ flatID'[e] = flatID[e]
  BY <1>1 DEF Inv, LinksTyped, Pos, PositionsTyped
<1>7. \A i \in Instances \ I : terms'[model[i]] = terms[model[i]] /\ flatID'[model[i]] = flatID[model[i]]
  BY <1>3, <1>6, InstanceFacts
<1>8. \A e \in Design : terms'[e] = {} \/ (terms'[e] = terms[e] /\ flatID'[e] = flatID[e])
  BY <1>6
<1> QED
  BY <1>1, <1>2, <1>5, <1>7, <1>8, InstancesGonePos

(* The clone has the flat IDs of its original, and its instances fill      *)
(* their vectors from models without holes.                                *)
LEMMA CloneDesignPos ==
  ASSUME Careful, Inv, Pos, NEW d \in Design, NEW e \in Design, CloneDesign(d, e)
  PROVE  Pos'
<1> DEFINE copies == {<<e, j>> : j \in instances[d]}
<1>1. /\ e \notin designs
      /\ \A j \in instances[d] : Compact(model[<<d, j>>])
      /\ terms' = [terms EXCEPT ![e] = terms[d]]
      /\ flatID' = [flatID EXCEPT ![e] = flatID[d]]
      /\ instances' = [instances EXCEPT ![e] = instances[d]]
  BY DEF CloneDesign, Careful
<1>2. /\ model' = [i \in InstRef |-> IF i \in copies THEN model[<<d, i[2]>>] ELSE model[i]]
      /\ slot' = [i \in InstRef |-> IF i \in copies THEN Pushed(model[<<d, i[2]>>]) ELSE slot[i]]
      /\ size' = [i \in InstRef |->
                    IF i \in copies THEN Cardinality(terms[model[<<d, i[2]>>]]) ELSE size[i]]
  BY DEF CloneDesign
<1>3. instances[e] = {}
  BY <1>1 DEF Inv, OwnersLive
<1>4. Instances' = Instances \cup copies
  BY <1>1, <1>3 DEF Instances, InstRef, Inv, LinksTyped
<1>5. \A i \in copies : i \in InstRef /\ i[2] \in instances[d] /\ <<d, i[2]>> \in Instances
  BY DEF Instances, InstRef, Inv, LinksTyped
<1> HIDE DEF copies
<1>6. \A i \in copies : model[<<d, i[2]>>] \in designs /\ model[<<d, i[2]>>] \in Design
  BY <1>5, InstanceFacts
<1>7. \A i \in copies : Compact(model[<<d, i[2]>>])
  BY <1>1, <1>5
<1>8. \A x \in designs : x \in Design /\ terms'[x] = terms[x] /\ flatID'[x] = flatID[x]
  BY <1>1 DEF Inv, LinksTyped, Pos, PositionsTyped
<1>9. PositionsTyped'
  <2>1. flatID' \in [Design -> [TermID -> Nat]]
    BY <1>1 DEF Pos, PositionsTyped
  <2>2. \A i \in copies : /\ Pushed(model[<<d, i[2]>>]) \in [TermID -> Nat]
                          /\ Cardinality(terms[model[<<d, i[2]>>]]) \in Nat
    BY <1>6, RankInside
  <2>3. slot' \in [InstRef -> [TermID -> Nat]]
    BY <1>2, <2>2 DEF Pos, PositionsTyped
  <2>4. size' \in [InstRef -> Nat]
    BY <1>2, <2>2 DEF Pos, PositionsTyped
  <2> QED
    BY <2>1, <2>3, <2>4 DEF PositionsTyped
<1>10. FlatIDsOrdered'
  <2>1. \A x \in Design : IF x = e THEN terms'[x] = terms[d] /\ flatID'[x] = flatID[d]
                           ELSE terms'[x] = terms[x] /\ flatID'[x] = flatID[x]
    BY <1>1 DEF Inv, LinksTyped, Pos, PositionsTyped
  <2> SUFFICES ASSUME NEW x \in Design
               PROVE  \A j, k \in terms'[x] : j < k => flatID'[x][j] < flatID'[x][k]
    BY DEF FlatIDsOrdered
  <2> QED
    BY <2>1 DEF Pos, FlatIDsOrdered
<1>11. SlotsAgree'
  <2> SUFFICES ASSUME NEW i \in Instances', NEW k \in terms'[model'[i]]
               PROVE  slot'[i][k] = flatID'[model'[i]][k] /\ slot'[i][k] < size'[i]
    BY DEF SlotsAgree
  <2>1. CASE i \in copies
    <3> DEFINE m == model[<<d, i[2]>>]
    <3>1. m \in designs /\ m \in Design /\ Compact(m)
      BY <1>6, <1>7, <2>1
    <3>2. model'[i] = m /\ slot'[i] = Pushed(m) /\ size'[i] = Cardinality(terms[m])
      BY <1>2, <1>5, <2>1
    <3> HIDE DEF m
    <3>3. k \in terms[m] /\ k \in TermID /\ flatID'[m] = flatID[m]
      BY <1>8, <3>1, <3>2 DEF Inv, LinksTyped
    <3>4. Pushed(m)[k] = Rank(m, k) /\ flatID[m][k] = Rank(m, k)
      BY <3>1, <3>3 DEF Pushed, Compact
    <3> QED
      BY <3>1, <3>2, <3>3, <3>4, RankInside
  <2>2. CASE i \notin copies
    <3>1. i \in Instances /\ i \in InstRef
      BY <1>4, <2>2 DEF Instances
    <3>2. model'[i] = model[i] /\ slot'[i] = slot[i] /\ size'[i] = size[i]
      BY <1>2, <2>2, <3>1
    <3>3. model[i] \in designs
      BY <3>1, InstanceFacts
    <3>4. terms'[model[i]] = terms[model[i]] /\ flatID'[model[i]] = flatID[model[i]]
      BY <1>8, <3>3
    <3> QED
      BY <3>1, <3>2, <3>4 DEF Pos, SlotsAgree
  <2> QED
    BY <2>1, <2>2
<1>12. fault' = FALSE
  BY CloneByID
<1> QED
  BY <1>9, <1>10, <1>11, <1>12 DEF Pos

-----------------------------------------------------------------------------
(* Every step keeps the vectors part. *)
LEMMA NextPos ==
  ASSUME Careful, Inv, Pos, [Next]_vars
  PROVE  Pos'
<1>1. ASSUME NEW d \in Design, DesignStep(d) PROVE Pos'
  <2>1. CreateDesign(d) => UNCHANGED <<terms, instances, model, layout, fault>>
    BY DEF CreateDesign
  <2> QED
    BY <1>1, <2>1, SamePos, DestroyDesignPos, CloneDesignPos DEF DesignStep
<1>2. ASSUME NEW d \in Design, NEW k \in TermID, TermStep(d, k) PROVE Pos'
  BY <1>2, CreateTermPos, DestroyTermPos DEF TermStep
<1>3. ASSUME NEW d \in Design, NEW n \in NetID, NetStep(d, n) PROVE Pos'
  <2>1. UNCHANGED <<terms, instances, model, layout, fault>>
    BY <1>3 DEF NetStep, CreateNet, DestroyNet
  <2> QED
    BY <2>1, SamePos
<1>4. ASSUME NEW d \in Design, NEW j \in InstID, InstanceStep(d, j) PROVE Pos'
  BY <1>4, CreateInstancePos, DestroyInstancePos, SetModelPos DEF InstanceStep
<1>5. ASSUME NEW c \in Component, NEW n \in NetRef \cup {NoNet}, SetNet(c, n) PROVE Pos'
  <2>1. UNCHANGED <<terms, instances, model, layout, fault>>
    BY <1>5 DEF SetNet
  <2> QED
    BY <2>1, SamePos
<1>6. CASE UNCHANGED vars
  <2>1. UNCHANGED <<terms, instances, model, layout, fault>>
    BY <1>6 DEF vars, layout
  <2> QED
    BY <2>1, SamePos
<1> QED
  BY <1>1, <1>2, <1>3, <1>4, <1>5, <1>6 DEF Next

(* Every step keeps the links part. *)
LEMMA NextLinks ==
  ASSUME Careful, Inv, Pos, [Next]_vars
  PROVE  Inv'
<1>1. ASSUME NEW d \in Design, DesignStep(d) PROVE Inv'
  BY <1>1, CreateDesignStep, DestroyDesignStep, CloneDesignStep DEF DesignStep
<1>2. ASSUME NEW d \in Design, NEW k \in TermID, TermStep(d, k) PROVE Inv'
  BY <1>2, CreateTermStep, DestroyTermStep DEF TermStep
<1>3. ASSUME NEW d \in Design, NEW n \in NetID, NetStep(d, n) PROVE Inv'
  BY <1>3, CreateNetStep, DestroyNetStep DEF NetStep
<1>4. ASSUME NEW d \in Design, NEW j \in InstID, InstanceStep(d, j) PROVE Inv'
  BY <1>4, CreateInstanceStep, DestroyInstanceStep, SetModelStep DEF InstanceStep
<1>5. ASSUME NEW c \in Component, NEW n \in NetRef \cup {NoNet}, SetNet(c, n) PROVE Inv'
  BY <1>5, SetNetStep
<1>6. CASE UNCHANGED vars
  <2>1. Instances' = Instances /\ Nets' = Nets /\ Components' = Components
    BY <1>6 DEF vars, Instances, Nets, Components
  <2> QED
    BY <1>6, <2>1 DEF vars, Inv, LinksTyped, OwnersLive, ConnectionsAgree, ConnectionsLive,
                      SlavesAgree, InstTermsMirrorModel, Bound
<1> QED
  BY <1>1, <1>2, <1>3, <1>4, <1>5, <1>6 DEF Next

(* The inductive invariant, whole. *)
Whole == Inv /\ Pos

(* It holds in every reachable netlist. *)
THEOREM WholeInvariant ==
  ASSUME Careful
  PROVE  Spec => []Whole
<1>1. Init => Whole
  BY InitInv, InitPos DEF Whole
<1>2. Whole /\ [Next]_vars => Whole'
  BY NextLinks, NextPos DEF Whole
<1> QED
  BY <1>1, <1>2, PTL DEF Spec

(* In every reachable netlist the two directions of each relation agree    *)
(* and nothing dangles, however many designs, terminals, instances and     *)
(* nets there are: vectors read at flat IDs give the terminals meant, for  *)
(* clients that leave primitives with instances alone and neither grow,    *)
(* instantiate nor exchange designs whose flat IDs have holes.             *)
THEOREM NetlistCoherent ==
  ASSUME Careful
  PROVE  Spec => [](/\ TypeOK /\ OwnersLive /\ ConnectionsAgree /\ ConnectionsLive
                    /\ SlavesAgree /\ InstTermsMirrorModel /\ NoFault)
<1>1. Whole => TypeOK
  <2>1. Whole => LinksTyped /\ PositionsTyped /\ fault \in BOOLEAN
    BY DEF Whole, Inv, Pos
  <2> QED
    BY <2>1 DEF LinksTyped, PositionsTyped, TypeOK
<1>2. Whole => /\ OwnersLive /\ ConnectionsAgree /\ ConnectionsLive
               /\ SlavesAgree /\ InstTermsMirrorModel /\ NoFault
  BY DEF Whole, Inv, Pos, NoFault
<1> QED
  BY <1>1, <1>2, WholeInvariant, PTL

(* No raw pointer dangles: owners and models exist, and a component and    *)
(* its net exist and belong to the same design.                            *)
COROLLARY NoReferenceDangles ==
  ASSUME Careful
  PROVE  Spec => []ReferencesLive
<1>1. OwnersLive /\ ConnectionsLive => ReferencesLive
  BY DEF ReferencesLive
<1> QED
  BY <1>1, NetlistCoherent, PTL

(* The slave instances of a design are exactly the instances of which it   *)
(* is the model.                                                           *)
COROLLARY SlavesAreInstances ==
  ASSUME Careful
  PROVE  Spec => []SlavesAgree
BY NetlistCoherent, PTL

(* Every instance has one terminal for each terminal of its model, through *)
(* setModel() and every edit of an interface.                              *)
COROLLARY InstTermsFollowModel ==
  ASSUME Careful
  PROVE  Spec => []InstTermsMirrorModel
BY NetlistCoherent, PTL

-----------------------------------------------------------------------------
(* One clone() step copies the connections exactly. *)
LEMMA CloneMirrorsStep ==
  ASSUME Careful, Inv, Pos, NEW d \in Design, NEW e \in Design, CloneDesign(d, e),
         NEW c \in Component, c[1] = d
  PROVE  /\ net'[c] = net[c]
         /\ net'[InClone(e, c)] = IF net[c] = NoNet THEN NoNet ELSE <<e, net[c][2]>>
         /\ c \in Components <=> InClone(e, c) \in Components'
<1>1. d # e
  BY DEF CloneDesign
<1>2. InClone(e, c) \in Component /\ InClone(e, c)[1] = e /\ InClone(d, InClone(e, c)) = c
  BY ComponentParts DEF InClone, Component
<1>3. net'[c] = net[c]
  BY <1>1, CloneConnections
<1> DEFINE f == InClone(e, c)
<1> HIDE DEF f
<1>4. f \in Component /\ f[1] = e /\ InClone(d, f) = c
  BY <1>2 DEF f
<1>5. net'[f] = IF net[InClone(d, f)] = NoNet THEN NoNet ELSE <<e, net[InClone(d, f)][2]>>
  BY <1>4, CloneConnections
<1>6. InClone(d, f) \in Components <=> f \in Components'
  BY <1>4, CloneDesignStep
<1> QED
  BY <1>3, <1>4, <1>5, <1>6 DEF f

(* A clone is connected as its original, in every reachable netlist. *)
THEOREM CloneIsExact ==
  ASSUME Careful
  PROVE  Spec => CloneMirrorsOriginal
<1> DEFINE Mirrors ==
      \A d, e \in Design : CloneDesign(d, e) /\ ~fault' =>
        \A c \in Component : c[1] = d =>
          /\ net'[c] = net[c]
          /\ net'[InClone(e, c)] = IF net[c] = NoNet THEN NoNet ELSE <<e, net[c][2]>>
          /\ c \in Components <=> InClone(e, c) \in Components'
<1>1. Whole => Mirrors
  BY CloneMirrorsStep DEF Whole
<1>2. Whole => [Mirrors]_vars
  BY <1>1
<1> QED
  BY <1>2, WholeInvariant, PTL DEF CloneMirrorsOriginal

-----------------------------------------------------------------------------
(* A component of this step that survives it keeps its net, or loses a net *)
(* that is destroyed.                                                      *)
Kept(c) ==
  c \in Components' /\ net'[c] # net[c] => net[c] \notin Nets' /\ net'[c] = NoNet

(* A Cut keeps connections if what it disconnects is destroyed. *)
LEMMA CutKept ==
  ASSUME NEW C, NEW N, CutDone(C, N), NEW c \in Component,
         c \in C => c \notin Components',
         net[c] \in N => net[c] \notin Nets'
  PROVE  Kept(c)
BY DEF CutDone, Kept

(* SNLDesign::destroy() disturbs no connection of what survives. *)
LEMMA DestroyDesignKeeps ==
  ASSUME Careful, Inv, NEW d \in Design, DestroyDesign(d), NEW c \in Components
  PROVE  Kept(c)
<1> DEFINE I == Doomed(d)
           C == TermsOf(d) \cup InstTermsOf(I)
           N == {n \in Nets : n[1] = d}
<1>1. c \in Component
  BY DEF Components
<1>2. C \in SUBSET Component /\ N \in SUBSET NetRef /\ Cut(C, N)
  BY DEF DestroyDesign, TermsOf, InstTermsOf, Components, Nets
<1>3. /\ terms' = [terms EXCEPT ![d] = {}]
      /\ nets' = [nets EXCEPT ![d] = {}]
      /\ InstancesGone(I) /\ I \in SUBSET Instances
  BY DEF DestroyDesign, InstancesGone, Doomed, Inv, SlavesAgree
<1>4. c \in C => (c[2] = Self /\ c[1] = d) \/ InstanceOf(c) \in I
  BY DEF TermsOf, InstTermsOf
<1>5. \A i \in I : i[2] # Self /\ i \notin Instances'
  <2>1. \A i \in I : i \in InstRef
    BY <1>3 DEF Instances
  <2> HIDE DEF I
  <2>2. Instances' = Instances \ I
    BY <1>3, InstancesGoneFacts
  <2> QED
    BY <2>1, <2>2, ConstantsAssumption DEF InstRef
<1>6. c \in C => c \notin Components'
  <2>1. CASE c[2] = Self /\ c[1] = d
    BY <1>3, <2>1, ComponentParts DEF Components, Inv, LinksTyped
  <2>2. CASE InstanceOf(c) \in I
    <3>1. c[2] # Self /\ InstanceOf(c) \notin Instances'
      BY <1>5, <2>2 DEF InstanceOf
    <3> QED
      BY <3>1 DEF Components, InstanceOf
  <2> QED
    BY <1>4, <2>1, <2>2
<1>7. net[c] \in N => net[c] \notin Nets'
  BY <1>3 DEF Nets, NetRef, Inv, LinksTyped
<1> HIDE DEF C, N, I
<1>8. CutDone(C, N)
  BY ONLY <1>2, Inv, CutKeepsInv
<1> QED
  BY ONLY <1>1, <1>6, <1>7, <1>8, CutKept

(* Destroying a terminal disturbs no connection of what survives. *)
LEMMA DestroyTermKeeps ==
  ASSUME Careful, Inv, Pos, NEW d \in Design, NEW k \in TermID, DestroyTerm(d, k), NEW c \in Components
  PROVE  Kept(c)
<1> DEFINE C == {<<d, Self, k>>} \cup {<<i[1], i[2], k>> : i \in slaves[d]}
<1>1. c \in Component
  BY DEF Components
<1>2. slaves[d] \in SUBSET InstRef
  BY DEF Inv, LinksTyped
<1>3. C \in SUBSET Component /\ {} \in SUBSET NetRef /\ Cut(C, {})
  <2>1. C \in SUBSET Component
    BY <1>2 DEF Component, InstRef
  <2> QED
    BY <2>1, DestroyTermByID
<1>4. /\ terms' = [terms EXCEPT ![d] = @ \ {k}]
      /\ bitTerm' = [i \in InstRef |->
                   IF i \in slaves[d] THEN [bitTerm[i] EXCEPT ![k] = NoDesign] ELSE bitTerm[i]]
  BY DestroyTermByID DEF DestroyTerm
<1>5. c \in C => \/ c[1] = d /\ c[2] = Self /\ c[3] = k
                 \/ InstanceOf(c) \in slaves[d] /\ c[3] = k
  BY <1>2 DEF InstanceOf, InstRef
<1>6. c \in C => c \notin Components'
  <2>1. CASE c[1] = d /\ c[2] = Self /\ c[3] = k
    BY <1>4, <2>1 DEF Components, Inv, LinksTyped
  <2>2. CASE InstanceOf(c) \in slaves[d] /\ c[3] = k
    <3>1. InstanceOf(c) \in InstRef /\ c[2] # Self
      BY <1>2, <2>2, ConstantsAssumption DEF InstanceOf, InstRef
    <3>2. bitTerm'[InstanceOf(c)][c[3]] = NoDesign
      BY <1>4, <2>2, <3>1 DEF Inv, LinksTyped
    <3> QED
      BY <3>1, <3>2 DEF Components, InstanceOf
  <2> QED
    BY <1>5, <2>1, <2>2
<1> HIDE DEF C
<1>7. CutDone(C, {})
  BY ONLY <1>3, Inv, CutKeepsInv
<1>8. net[c] \in {} => net[c] \notin Nets'
  OBVIOUS
<1> QED
  BY ONLY <1>1, <1>6, <1>7, <1>8, CutKept

(* Destroying a net disconnects its own components only. *)
LEMMA DestroyNetKeeps ==
  ASSUME Inv, NEW d \in Design, NEW n \in NetID, DestroyNet(d, n), NEW c \in Components
  PROVE  Kept(c)
<1> DEFINE N == {<<d, n>>}
<1>1. c \in Component
  BY DEF Components
<1>2. {} \in SUBSET Component /\ N \in SUBSET NetRef /\ Cut({}, N)
  BY DEF DestroyNet, NetRef
<1>3. net[c] \in N => net[c] \notin Nets'
  BY DEF DestroyNet, Nets, NetRef, Inv, LinksTyped
<1> HIDE DEF N
<1>4. CutDone({}, N)
  BY ONLY <1>2, Inv, CutKeepsInv
<1>5. c \in {} => c \notin Components'
  OBVIOUS
<1> QED
  BY ONLY <1>1, <1>3, <1>4, <1>5, CutKept

(* SNLInstance::destroy() disturbs no connection of what survives. *)
LEMMA DestroyInstanceKeeps ==
  ASSUME Inv, NEW d \in Design, NEW j \in InstID, DestroyInstance(d, j), NEW c \in Components
  PROVE  Kept(c)
<1> DEFINE C == InstTermsOf({<<d, j>>})
<1>1. c \in Component
  BY DEF Components
<1>2. C \in SUBSET Component /\ {} \in SUBSET NetRef /\ Cut(C, {})
  BY DEF DestroyInstance, InstTermsOf, Components
<1>3. <<d, j>> \notin Instances'
  BY DEF DestroyInstance, Instances, Inv, LinksTyped
<1>4. c \in C => InstanceOf(c) = <<d, j>> /\ c[2] # Self
  BY ConstantsAssumption DEF InstTermsOf, InstanceOf
<1>5. c \in C => c \notin Components'
  BY <1>3, <1>4 DEF Components, InstanceOf
<1> HIDE DEF C
<1>6. CutDone(C, {})
  BY ONLY <1>2, Inv, CutKeepsInv
<1>7. net[c] \in {} => net[c] \notin Nets'
  OBVIOUS
<1> QED
  BY ONLY <1>1, <1>5, <1>6, <1>7, CutKept

(* Every other step leaves net_ of the components that existed alone. *)
LEMMA OtherStepsKeep ==
  ASSUME Careful, Inv, Pos, NEW c \in Components, NEW d \in Design,
         \/ CreateDesign(d)
         \/ \E e \in Design : CloneDesign(d, e)
         \/ \E k \in TermID : CreateTerm(d, k)
         \/ \E n \in NetID : CreateNet(d, n)
         \/ \E j \in InstID, m \in Design : CreateInstance(d, j, m) \/ SetModel(d, j, m)
  PROVE  Kept(c)
<1>1. ASSUME NEW e \in Design, CloneDesign(d, e) PROVE net'[c] = net[c]
  <2>1. c \in Component
    BY DEF Components
  <2>2. terms[e] = {} /\ instances[e] = {}
    BY <1>1 DEF CloneDesign, Inv, OwnersLive
  <2>3. c[1] # e
    BY <2>1, <2>2 DEF Components, InstanceOf, Instances
  <2> QED
    BY <1>1, <2>1, <2>3, CloneConnections
<1>2. (\A e \in Design : ~CloneDesign(d, e)) => net' = net
  BY DEF CreateDesign, CreateTerm, CreateNet, CreateInstance, SetModel
<1> QED
  BY <1>1, <1>2 DEF Kept

(* No step but the component's own setNet() or the destruction of its net  *)
(* changes a connection, in every reachable netlist.                       *)
THEOREM OthersConnectionsKept ==
  ASSUME Careful
  PROVE  Spec => ConnectionsKept
<1> DEFINE Keeps ==
      \A c \in Components :
        c \in Components' /\ net'[c] # net[c] =>
          \/ net[c] \notin Nets' /\ net'[c] = NoNet
          \/ \E n \in NetRef \cup {NoNet} : SetNet(c, n)
<1>1. Spec => [][Next]_vars
  BY PTL DEF Spec
<1>3. ASSUME Inv, Pos, Next PROVE Keeps
  <2> SUFFICES ASSUME NEW c \in Components
               PROVE  Kept(c) \/ \E n \in NetRef \cup {NoNet} : SetNet(c, n)
    BY DEF Kept
  <2>1. ASSUME NEW d \in Design, DesignStep(d) PROVE Kept(c)
    BY <1>3, <2>1, OtherStepsKeep, DestroyDesignKeeps DEF DesignStep
  <2>2. ASSUME NEW d \in Design, NEW k \in TermID, TermStep(d, k) PROVE Kept(c)
    BY <1>3, <2>2, OtherStepsKeep, DestroyTermKeeps DEF TermStep
  <2>3. ASSUME NEW d \in Design, NEW n \in NetID, NetStep(d, n) PROVE Kept(c)
    BY <1>3, <2>3, OtherStepsKeep, DestroyNetKeeps DEF NetStep
  <2>4. ASSUME NEW d \in Design, NEW j \in InstID, InstanceStep(d, j) PROVE Kept(c)
    BY <1>3, <2>4, OtherStepsKeep, DestroyInstanceKeeps DEF InstanceStep
  <2>5. ASSUME NEW b \in Component, NEW n \in NetRef \cup {NoNet}, SetNet(b, n)
        PROVE  Kept(c) \/ SetNet(c, n)
    <3>1. CASE b = c
      BY <2>5, <3>1
    <3>2. CASE b # c
      <4>1. net'[c] = net[c]
        BY <1>3, <2>5, <3>2 DEF SetNet, Inv, LinksTyped, Components
      <4> QED
        BY <4>1 DEF Kept
    <3> QED
      BY <3>1, <3>2
  <2> QED
    BY <1>3, <2>1, <2>2, <2>3, <2>4, <2>5 DEF Next
<1>4. Whole /\ [Next]_vars => [Keeps]_vars
  BY <1>3 DEF Whole
<1> QED
  BY <1>1, <1>4, WholeInvariant, PTL DEF ConnectionsKept

=============================================================================
