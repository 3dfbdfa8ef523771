---------------------------- MODULE SNLInterface ----------------------------
(***************************************************************************)
(* The interface of a design and how instances find their terminals        *)
(* (src/nl/netlist/snl): scalar and bus terminals, the flat ID of each bit *)
(* and the vector instTerms_ of each instance, indexed by flat ID.         *)
(*                                                                         *)
(* Flat IDs are given once, when a terminal is added, and never renewed.   *)
(* Removing bits leaves holes in the vectors of the existing instances; a  *)
(* new instance fills its vector without holes.  The lookup getInstTerm()  *)
(* is right only while both counts agree.                                  *)
(*                                                                         *)
(* Nets on the side of the design are left out: they can only make a       *)
(* resize refuse, which changes nothing here.                              *)
(***************************************************************************)
EXTENDS Integers, FiniteSets, Sequences, FiniteSetsExt

CONSTANTS
  Design, Inst,
  MaxTermID,        \* bound: terminal IDs are 0 .. MaxTermID
  Ranges,           \* bound: the <<msb, lsb>> that buses are created with
  MaxBits,          \* bound: flat IDs in use, in all designs together
  MaxObjects,       \* bound: the number of designs and instances
  NoTerm, NoDesign, NoInstTerm,
  Habits            \* what clients do to designs whose flat IDs have holes

TermID == 0 .. MaxTermID

Bit == Design \X TermID \X Int

(* SNLTerm, and SNLInstTerm with whether it is connected. *)
Term == [bus : BOOLEAN, flat : Nat, msb : Int, lsb : Int, bits : SUBSET Int]

InstTerm == [bit : Bit, wired : BOOLEAN]

ASSUME InterfaceAssumption ==
  /\ MaxTermID \in Nat
  /\ Ranges \subseteq Int \X Int
  /\ MaxBits \in Nat /\ MaxObjects \in Nat
  /\ NoDesign \notin Design
  /\ NoTerm \notin Term
  /\ NoInstTerm \notin InstTerm
  /\ Habits \subseteq {"instantiate", "grow", "exchange", "outOfOrder"}

VARIABLES
  designs,    \* the designs that exist
  terms,      \* SNLDesign::terms_
  orderID,    \* SNLBitTerm::orderID_ of the bits of each design
  model,      \* SNLInstance::model_; NoDesign: no such instance
  instTerms   \* SNLInstance::instTerms_

vars == <<designs, terms, orderID, model, instTerms>>

-----------------------------------------------------------------------------
Distance(a, b) == IF a > b THEN a - b ELSE b - a

(* SNLDesign::isBetween(bit, msb, lsb) *)
Span(msb, lsb) == IF msb > lsb THEN lsb .. msb ELSE msb .. lsb

Width(t) == Distance(t.msb, t.lsb) + 1

IDs(d) == {k \in TermID : terms[d][k] # NoTerm}

LastID(d) == CHOOSE k \in IDs(d) : \A j \in IDs(d) : j <= k

(* Bits are triples of a design, a terminal ID and a bit.  bits_ keeps a   *)
(* null pointer for a bit that was destroyed.                              *)
BitsOf(d, k) == {<<d, k, b>> : b \in terms[d][k].bits}

Bits(d) == UNION {BitsOf(d, k) : k \in IDs(d)}

Position(x) == Distance(x[3], terms[x[1]][x[2]].msb)

FlatID(x) == terms[x[1]][x[2]].flat + Position(x)

(* The order of getBitTerms(): by terminal ID, then position in the bus. *)
Precedes(x, y) == x[2] < y[2] \/ (x[2] = y[2] /\ Position(x) < Position(y))

InOrder(X) ==
  [n \in 1 .. Cardinality(X) |-> CHOOSE x \in X : Cardinality({y \in X : Precedes(y, x)}) = n - 1]

Rank(x) == Cardinality({y \in Bits(x[1]) : Precedes(y, x)})

(* The vector slot getInstTermByFlatID() reads. *)
Slot(x) == FlatID(x) + 1

Slaves(d) == {i \in Inst : model[i] = d}

NewInstTerms(X) == [n \in 1 .. Cardinality(X) |-> [bit |-> InOrder(X)[n], wired |-> FALSE]]

(* Mutant: only the new terminal is numbered. *)
MutSetOrderIDs(d) ==
  orderID' = [orderID EXCEPT ![d] =
    [x \in Bits(d)' |-> IF x \in Bits(d) THEN @[x] ELSE Rank(x)']]

(* setOrderIDs() after an edit of d. *)
SetOrderIDs(d) == orderID' = [orderID EXCEPT ![d] = [x \in Bits(d)' |-> Rank(x)']]

(* removeInstTerm() of the bits of X, in one instance. *)
RemoveInstTerms(v, X) ==
  [n \in DOMAIN v |-> IF \E x \in X : Slot(x) = n THEN NoInstTerm ELSE v[n]]

(* No slave instance has a connected terminal for a bit of X. *)
Unwired(d, X) ==
  \A i \in Slaves(d), x \in X :
    instTerms[i][Slot(x)] # NoInstTerm => ~instTerms[i][Slot(x)].wired

-----------------------------------------------------------------------------
(* Mutant: the width of the last terminal is ignored. *)
MutNextFlatID(d) == IF IDs(d) = {} THEN 0 ELSE terms[d][LastID(d)].flat + 1

(* The flat ID addTerm() gives. *)
NextFlatID(d) ==
  IF IDs(d) = {} THEN 0 ELSE terms[d][LastID(d)].flat + Width(terms[d][LastID(d)])

(* The bounds, on what an operation that creates something leaves behind. *)
WithinBounds ==
  /\ MapThenSumSet(NextFlatID, designs) <= MaxBits
  /\ Cardinality(designs) + Cardinality({i \in Inst : model[i] # NoDesign}) <= MaxObjects

(* addTerm().  The vectors of the slave instances grow at their ends. *)
CreateTerm(d, k, bus, msb, lsb) ==
  /\ d \in designs
  /\ terms[d][k] = NoTerm
  /\ "outOfOrder" \in Habits \/ \A j \in IDs(d) : j < k
  /\ "grow" \in Habits \/ \A i \in Slaves(d) : Len(instTerms[i]) = NextFlatID(d)
  /\ terms' = [terms EXCEPT ![d][k] =
       [bus |-> bus, flat |-> NextFlatID(d), msb |-> msb, lsb |-> lsb, bits |-> Span(msb, lsb)]]
  /\ instTerms' = [i \in Inst |->
       IF i \in Slaves(d) THEN instTerms[i] \o NewInstTerms(BitsOf(d, k))' ELSE instTerms[i]]
  /\ SetOrderIDs(d)
  /\ UNCHANGED <<designs, model>>
  /\ WithinBounds'

(* removeTerm() *)
DestroyTerm(d, k) ==
  /\ d \in designs
  /\ terms[d][k] # NoTerm
  /\ terms' = [terms EXCEPT ![d][k] = NoTerm]
  /\ instTerms' = [i \in Inst |->
       IF i \in Slaves(d) THEN RemoveInstTerms(instTerms[i], BitsOf(d, k)) ELSE instTerms[i]]
  /\ SetOrderIDs(d)
  /\ UNCHANGED <<designs, model>>

(* Mutant: removeInstTerm() is not called. *)
MutRemoveBit(x) ==
  /\ x[1] \in designs
  /\ x \in Bits(x[1])
  /\ terms[x[1]][x[2]].bus
  /\ terms' = [terms EXCEPT ![x[1]][x[2]].bits = @ \ {x[3]}]
  /\ SetOrderIDs(x[1])
  /\ UNCHANGED <<designs, model, instTerms>>

(* SNLBusTermBit::destroy(): the bus keeps its width and a null bit. *)
RemoveBit(x) ==
  /\ x[1] \in designs
  /\ x \in Bits(x[1])
  /\ terms[x[1]][x[2]].bus
  /\ terms' = [terms EXCEPT ![x[1]][x[2]].bits = @ \ {x[3]}]
  /\ instTerms' = [i \in Inst |->
       IF i \in Slaves(x[1]) THEN RemoveInstTerms(instTerms[i], {x}) ELSE instTerms[i]]
  /\ SetOrderIDs(x[1])
  /\ UNCHANGED <<designs, model>>

(* The bits a resize cuts off: those outside the new range.  A null bit    *)
(* among them is dereferenced by the code, so the guard wants them live.   *)
Cutoff(d, k, msb, lsb) ==
  {<<d, k, b>> : b \in Span(terms[d][k].msb, terms[d][k].lsb) \ Span(msb, lsb)}

Resizable(d, k, msb, lsb) ==
  /\ d \in designs
  /\ terms[d][k] # NoTerm
  /\ terms[d][k].bus
  /\ {msb, lsb} \subseteq Span(terms[d][k].msb, terms[d][k].lsb)
  /\ Cutoff(d, k, msb, lsb) \subseteq Bits(d)
  /\ Unwired(d, Cutoff(d, k, msb, lsb))

(* Mutant: the remaining instance terminals do not move. *)
MutShifted(v, d, k, count) == v

(* setMSB() moves the terminals of the remaining bits to their new         *)
(* positions, from the slots base + count ... to base ....                 *)
Shifted(v, d, k, count) ==
  LET base  == terms[d][k].flat
      width == Width(terms[d][k])
  IN  [n \in DOMAIN v |->
         CASE n \in base + 1 .. base + width - count         -> v[n + count]
           [] n \in base + width - count + 1 .. base + width -> NoInstTerm
           [] OTHER                                          -> v[n]]

SetMSB(d, k, msb) ==
  /\ terms[d][k] # NoTerm /\ msb # terms[d][k].msb
  /\ Resizable(d, k, msb, terms[d][k].lsb)
  /\ LET cut   == Cutoff(d, k, msb, terms[d][k].lsb)
         count == Distance(terms[d][k].msb, msb)
     IN  /\ terms' = [terms EXCEPT ![d][k].msb = msb,
                                   ![d][k].bits = {b \in @ : <<d, k, b>> \notin cut}]
         /\ instTerms' = [i \in Inst |->
              IF i \in Slaves(d)
                THEN Shifted(RemoveInstTerms(instTerms[i], cut), d, k, count)
                ELSE instTerms[i]]
  /\ SetOrderIDs(d)
  /\ UNCHANGED <<designs, model>>

SetLSB(d, k, lsb) ==
  /\ terms[d][k] # NoTerm /\ lsb # terms[d][k].lsb
  /\ Resizable(d, k, terms[d][k].msb, lsb)
  /\ LET cut == Cutoff(d, k, terms[d][k].msb, lsb)
     IN  /\ terms' = [terms EXCEPT ![d][k].lsb = lsb,
                                   ![d][k].bits = {b \in @ : <<d, k, b>> \notin cut}]
         /\ instTerms' = [i \in Inst |->
              IF i \in Slaves(d) THEN RemoveInstTerms(instTerms[i], cut) ELSE instTerms[i]]
  /\ SetOrderIDs(d)
  /\ UNCHANGED <<designs, model>>

-----------------------------------------------------------------------------
(* The instance pushes one terminal for each bit, in getBitTerms() order. *)
CreateInstance(i, d) ==
  /\ d \in designs
  /\ model[i] = NoDesign
  /\ "instantiate" \in Habits \/ Cardinality(Bits(d)) = NextFlatID(d)
  /\ model' = [model EXCEPT ![i] = d]
  /\ instTerms' = [instTerms EXCEPT ![i] = NewInstTerms(Bits(d))]
  /\ UNCHANGED <<designs, terms, orderID>>
  /\ WithinBounds'

DestroyInstance(i) ==
  /\ model[i] # NoDesign
  /\ model' = [model EXCEPT ![i] = NoDesign]
  /\ instTerms' = [instTerms EXCEPT ![i] = <<>>]
  /\ UNCHANGED <<designs, terms, orderID>>

(* setNet() on an instance terminal; nets themselves are in SNLNetlist. *)
SetNet(i, n) ==
  /\ n \in DOMAIN instTerms[i]
  /\ instTerms[i][n] # NoInstTerm
  /\ instTerms' = [instTerms EXCEPT ![i][n].wired = ~@]
  /\ UNCHANGED <<designs, terms, orderID, model>>

(* What setModel() compares: IDs, kinds and ranges, neither flat IDs nor   *)
(* which bits were destroyed.                                              *)
SameInterface(d, e) ==
  /\ IDs(d) = IDs(e)
  /\ \A k \in IDs(d) :
       /\ terms[d][k].bus = terms[e][k].bus
       /\ terms[d][k].msb = terms[e][k].msb
       /\ terms[d][k].lsb = terms[e][k].lsb

SameLayout(d, e) ==
  \A k \in IDs(d) : terms[d][k].flat = terms[e][k].flat /\ terms[d][k].bits = terms[e][k].bits

(* Mutant: new instance terminals instead of rebound ones. *)
MutRebound(v, e) ==
  [n \in DOMAIN v |->
     IF v[n] = NoInstTerm THEN NoInstTerm
     ELSE [bit |-> <<e, v[n].bit[2], v[n].bit[3]>>, wired |-> FALSE]]

(* Each instance terminal is bound to the bit of the new model e and stays *)
(* in its slot.                                                            *)
Rebound(v, e) ==
  [n \in DOMAIN v |->
     IF v[n] = NoInstTerm THEN NoInstTerm
     ELSE [v[n] EXCEPT !.bit = <<e, v[n].bit[2], v[n].bit[3]>>]]

SetModel(i, e) ==
  /\ model[i] # NoDesign
  /\ e \in designs \ {model[i]}
  /\ SameInterface(model[i], e)
  /\ "exchange" \in Habits \/ SameLayout(model[i], e)
  /\ instTerms' = [instTerms EXCEPT ![i] = Rebound(instTerms[i], e)]
  /\ model' = [model EXCEPT ![i] = e]
  /\ UNCHANGED <<designs, terms, orderID>>

(* cloneInterface(): flat IDs are copied, createBits() makes every bit of  *)
(* the range, and no order ID is set (-1).                                 *)
CloneInterface(d, e) ==
  /\ d \in designs
  /\ e \in Design \ designs
  /\ designs' = designs \cup {e}
  /\ terms' = [terms EXCEPT ![e] = [k \in TermID |->
       IF k \in IDs(d)
         THEN [terms[d][k] EXCEPT !.bits = Span(terms[d][k].msb, terms[d][k].lsb)]
         ELSE NoTerm]]
  /\ orderID' = [orderID EXCEPT ![e] = [x \in Bits(e)' |-> -1]]
  /\ UNCHANGED <<model, instTerms>>
  /\ WithinBounds'

-----------------------------------------------------------------------------
NoBits == [x \in {} |-> 0]

Init ==
  /\ designs \in {{d} : d \in Design}
  /\ terms = [d \in Design |-> [k \in TermID |-> NoTerm]]
  /\ orderID = [d \in Design |-> NoBits]
  /\ model = [i \in Inst |-> NoDesign]
  /\ instTerms = [i \in Inst |-> <<>>]

EditTerm(d, k) ==
  \/ CreateTerm(d, k, FALSE, 0, 0)
  \/ \E r \in Ranges : CreateTerm(d, k, TRUE, r[1], r[2])
  \/ DestroyTerm(d, k)
  \/ \E r \in Ranges : \E b \in Span(r[1], r[2]) :
       RemoveBit(<<d, k, b>>) \/ SetMSB(d, k, b) \/ SetLSB(d, k, b)

EditInstance(i) ==
  \/ DestroyInstance(i)
  \/ \E d \in Design : CreateInstance(i, d) \/ SetModel(i, d)
  \/ \E n \in DOMAIN instTerms[i] : SetNet(i, n)

Next ==
  \/ \E d \in Design, k \in TermID : EditTerm(d, k)
  \/ \E i \in Inst : EditInstance(i)
  \/ \E d, e \in Design : CloneInterface(d, e)

Spec == Init /\ [][Next]_vars

-----------------------------------------------------------------------------
TypeOK ==
  /\ designs \subseteq Design
  /\ terms \in [Design -> [TermID -> Term \cup {NoTerm}]]
  /\ \A d \in Design, k \in TermID : terms[d][k] # NoTerm =>
       /\ d \in designs
       /\ terms[d][k].bits \subseteq Span(terms[d][k].msb, terms[d][k].lsb)
  /\ \A d \in Design : DOMAIN orderID[d] = Bits(d)
  /\ model \in [Inst -> designs \cup {NoDesign}]
  /\ instTerms \in [Inst -> Seq(InstTerm \cup {NoInstTerm})]

(* getInstTerm(bit) returns the terminal of that very bit, whatever was    *)
(* added, removed or resized before and after the instance was created.    *)
LookupFindsBit ==
  \A i \in Inst : model[i] # NoDesign =>
    \A x \in Bits(model[i]) :
      /\ Slot(x) \in DOMAIN instTerms[i]
      /\ instTerms[i][Slot(x)] # NoInstTerm
      /\ instTerms[i][Slot(x)].bit = x

(* No instance terminal outlives its bit: getInstTerms() returns terminals *)
(* of existing bits of the model only.                                     *)
NoDanglingInstTerm ==
  \A i \in Inst : \A n \in DOMAIN instTerms[i] :
    instTerms[i][n] # NoInstTerm =>
      model[i] # NoDesign /\ instTerms[i][n].bit \in Bits(model[i])

(* Two bits of a design never share a flat ID. *)
FlatIDsDistinct ==
  \A d \in Design : \A x, y \in Bits(d) : FlatID(x) = FlatID(y) => x = y

(* Order IDs are the positions in getBitTerms(), or were never given       *)
(* (a clone that was not edited): no edit leaves some of them stale.       *)
OrderIDsAreRanks ==
  \A d \in Design :
    \/ \A x \in Bits(d) : orderID[d][x] = Rank(x)
    \/ \A x \in Bits(d) : orderID[d][x] = -1

(* Whether instance i is connected at bit k[b], as a client sees it. *)
WiredAt(i, k, b) == instTerms[i][Slot(<<model[i], k, b>>)].wired

(* A client that asks an instance for the terminal of a bit finds the      *)
(* connection it left there: resizing, removing other bits and exchanging  *)
(* the model never move a connection to another bit.                       *)
WiresStay ==
  [][\A i \in Inst :
       /\ model[i] # NoDesign
       /\ model'[i] # NoDesign
       /\ \A n \in DOMAIN instTerms[i] : ~SetNet(i, n)
       => \A x \in Bits(model[i]) :
            <<model'[i], x[2], x[3]>> \in UNION {Bits(d)' : d \in designs'} =>
              WiredAt(i, x[2], x[3])' = WiredAt(i, x[2], x[3])]_vars

(* A clone has the interface of its original: the same bits, in the same   *)
(* order.                                                                  *)
CloneHasSameInterface ==
  [][\A d, e \in Design : CloneInterface(d, e) =>
       Bits(e)' = {<<e, x[2], x[3]>> : x \in Bits(d)}]_vars

=============================================================================
