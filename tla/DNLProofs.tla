----------------------------- MODULE DNLProofs -----------------------------
(***************************************************************************)
(* Proofs about DNL, for every hierarchy, wiring, typing and number of     *)
(* threads.                                                                *)
(*                                                                         *)
(* The inductive invariant is Inv: the instances and terminals numbered so *)
(* far are found where the lookups look (Numbered), the intervals of the   *)
(* depth-first search nest as the hierarchy does (Searched), the netlist   *)
(* is what it was (Netlist), and each thread's trace stays in one          *)
(* connected set and lists what it has visited of it (Traced).  Traced has *)
(* a part for each phase of the iso builder: Round1, while labels may be   *)
(* overwritten on nets with several drivers, Settling, once every such net *)
(* is traced again by one thread, and DanglingPass.                        *)
(***************************************************************************)
EXTENDS DNL, TLAPS, WellFoundedInduction, FiniteSetTheorems, FunctionTheorems, SequenceTheorems

Ids == 1 .. Len(insts)

TermIds == 1 .. Len(terms)

-----------------------------------------------------------------------------
(* The numbering.                                                          *)

(* DNLInstanceFull. *)
InstRecord == [snl : Nat, model : Design, parent : Nat, children : Nat \X Nat,
               terms : Nat \X Nat, dfs : Nat \X Nat]

NumberingTypes ==
  /\ insts \in Seq(InstRecord)
  /\ terms \in Seq([inst : Nat, bit : Nat])
  /\ path \in Seq(Paths)
  /\ Len(path) = Len(insts)
  /\ leaves \in SUBSET Nat

(* The model, the parent and the position of each instance. *)
Climbs ==
  /\ 1 \in Ids /\ path[1] = <<>>
  /\ \A i \in Ids :
       /\ ModelOf(i) = DesignAt[path[i]]
       /\ i # 1 =>
            /\ insts[i].parent \in 1 .. i - 1
            /\ insts[i].snl \in 1 .. Len(InstancesOf[ModelOf(insts[i].parent)])
            /\ path[i] = Append(path[insts[i].parent], insts[i].snl)

(* The lookup of the terminals works both ways. *)
TermsFound ==
  /\ \A i \in Ids : \A k \in 1 .. Len(Directions[ModelOf(i)]) :
       /\ getTerminal(i, k) \in TermIds
       /\ terms[getTerminal(i, k)].inst = i
       /\ terms[getTerminal(i, k)].bit = k
  /\ \A t \in TermIds :
       /\ terms[t].inst \in Ids
       /\ terms[t].bit \in 1 .. Len(Directions[ModelOf(terms[t].inst)])
       /\ t = getTerminal(terms[t].inst, terms[t].bit)

(* leaves_. *)
LeavesFound == leaves = {i \in Ids : i # 1 /\ InstancesOf[ModelOf(i)] = <<>>}

(* The instances numbered while the children of i are. *)
Unfolding(i) == phase = "children" /\ i = parent

(* The children of i have their numbers. *)
Expanded(i) == ~Unfolding(i) /\ \A x \in 1 .. Len(pending) : pending[x] # i

(* The lookup of the children of instance i works. *)
ChildrenOf(i) ==
  /\ InstancesOf[ModelOf(i)] = <<>> => insts[i].children = <<None, None>>
  /\ InstancesOf[ModelOf(i)] # <<>> =>
       /\ insts[i].children[1] # None
       /\ insts[i].children[2] = getChildInstance(i, Len(InstancesOf[ModelOf(i)]))
  /\ \A j \in 1 .. Len(InstancesOf[ModelOf(i)]) :
       /\ getChildInstance(i, j) \in Ids \ {1}
       /\ insts[getChildInstance(i, j)].parent = i
       /\ insts[getChildInstance(i, j)].snl = j

ChildrenFound == \A i \in Ids : Expanded(i) => ChildrenOf(i)

(* An instance is found as a child of its parent, whose children are all  *)
(* numbered or are being numbered. *)
ParentsFound ==
  \A c \in Ids : c # 1 =>
    /\ \A x \in 1 .. Len(pending) : pending[x] # insts[c].parent
    /\ Unfolding(insts[c].parent) => c >= first /\ insts[c].snl = c - first + 1
    /\ ~Unfolding(insts[c].parent) => c = getChildInstance(insts[c].parent, insts[c].snl)

(* The stack holds instances whose children have no number yet, once each. *)
PendingOK ==
  /\ pending \in Seq(Nat)
  /\ \A x \in 1 .. Len(pending) : pending[x] \in Ids \ {1}
  /\ \A x, y \in 1 .. Len(pending) : pending[x] = pending[y] => x = y
  /\ phase # "children" => pending = <<>>

(* The children of parent numbered so far are the last instances. *)
UnfoldingOK ==
  phase = "children" =>
    /\ parent \in Ids
    /\ \A x \in 1 .. Len(pending) : pending[x] # parent
    /\ first \in 2 .. Len(insts) + 1
    /\ Position <= Len(InstancesOf[ModelOf(parent)]) + 1
    /\ \A c \in first .. Len(insts) : insts[c].parent = parent /\ insts[c].snl = c - first + 1

(* The part of the invariant about the numbering. *)
Numbered ==
  /\ NumberingTypes
  /\ phase = "top" => insts = <<>> /\ terms = <<>> /\ path = <<>> /\ leaves = {} /\ pending = <<>>
  /\ phase # "top" =>
       /\ Climbs
       /\ TermsFound
       /\ LeavesFound
       /\ ChildrenFound
       /\ ParentsFound
       /\ PendingOK
       /\ UnfoldingOK

-----------------------------------------------------------------------------
(* The depth-first search.                                                 *)

(* Instance i is p or lies under it. *)
Under(i, p) == IsPrefix(path[p], path[i])

(* visit() has returned for i. *)
Finished(i) == insts[i].dfs[2] # 0

(* visit() is at work on i, or on something under it. *)
OnStack(i) == \E k \in 1 .. Len(calls) : calls[k].id = i

Entered(i) == Finished(i) \/ OnStack(i)

(* Instance i was entered when the counter was n. *)
EnteredAt(i, n) ==
  \/ Finished(i) /\ insts[i].dfs[1] = n
  \/ \E k \in 1 .. Len(calls) : calls[k].id = i /\ calls[k].dfsIn = n

CallTypes ==
  /\ calls \in Seq([id : Nat, dfsIn : Nat, child : Nat])
  /\ next \in Nat
  /\ phase \in {"top", "children"} => calls = <<>> /\ next = 0 /\ \A i \in Ids : ~Finished(i)
  /\ phase \notin {"top", "children", "dfs"} => calls = <<>>

(* The calls at work lead from the top to the last one, child by child. *)
StackOK ==
  /\ \A k \in 1 .. Len(calls) : calls[k].id \in Ids /\ ~Finished(calls[k].id)
  /\ \A k, l \in 1 .. Len(calls) : calls[k].id = calls[l].id => k = l
  /\ \A k \in 1 .. Len(calls) :
       IF k = 1 THEN calls[k].id = 1
       ELSE calls[k].id # 1 /\ insts[calls[k].id].parent = calls[k - 1].id
  /\ \A k \in 1 .. Len(calls) :
       IF calls[k].child = None THEN insts[calls[k].id].children[1] = None
       ELSE insts[calls[k].id].children[1] # None
              /\ insts[calls[k].id].children[1] <= calls[k].child

(* Which children of an instance on the stack were visited. *)
ChildrenVisited ==
  \A k \in 1 .. Len(calls) : \A c \in Ids : c # 1 /\ insts[c].parent = calls[k].id =>
    /\ c < calls[k].child => Finished(c) \/ (k < Len(calls) /\ calls[k + 1].id = c)
    /\ c >= calls[k].child => ~Entered(c)

(* A call returns after those for all children. *)
DownClosed == \A c \in Ids : c # 1 /\ Finished(insts[c].parent) => Finished(c)

(* A call is made by that of the parent. *)
UpClosed == \A c \in Ids : c # 1 /\ Entered(c) => Entered(insts[c].parent)

(* The counter is ahead of all numbers given. *)
BeforeNext ==
  /\ \A i \in Ids : \A n \in Nat : EnteredAt(i, n) => n < next
  /\ \A p \in Ids : Finished(p) => insts[p].dfs[2] <= next

(* The interval of a finished instance holds exactly what is under it. *)
FinishedIntervals ==
  \A p, i \in Ids : \A n \in Nat : Finished(p) /\ EnteredAt(i, n) =>
    ((insts[p].dfs[1] <= n /\ n < insts[p].dfs[2]) <=> Under(i, p))

(* What was entered since an instance on the stack is under it. *)
OpenIntervals ==
  \A k \in 1 .. Len(calls) : \A i \in Ids : \A n \in Nat : EnteredAt(i, n) =>
    (calls[k].dfsIn <= n <=> Under(i, calls[k].id))

(* The part of the invariant about initDFSIntervals(). *)
Searched ==
  /\ CallTypes
  /\ phase \notin {"top", "children"} =>
       /\ Entered(1)
       /\ StackOK
       /\ ChildrenVisited
       /\ DownClosed
       /\ UpClosed
       /\ BeforeNext
       /\ FinishedIntervals
       /\ OpenIntervals
  /\ phase \notin {"top", "children", "dfs"} => \A i \in Ids : Finished(i)

-----------------------------------------------------------------------------
(* The nets and the sets they connect.                                     *)

(* An instance the hierarchy ends at: nets inside it connect nothing. *)
LeafInst(i) == i # 1 /\ InstancesOf[ModelOf(i)] = <<>>

(* The nets terminal t is on, each as an instance and a net inside it. *)
NetSet(t) ==
  {w \in {<<terms[t].inst, BitNet(t)>>} : BitNet(t) # None /\ ~LeafInst(terms[t].inst)} \cup
  {w \in {<<insts[terms[t].inst].parent, TermNet(t)>>} : TermNet(t) # None}

(* The terminals on net w. *)
On(w) == InstTermsOn(w[1], w[2]) \cup BitTermsOn(w[1], w[2])

(* The terminals on a net with t. *)
Adj(t) == UNION {On(w) : w \in NetSet(t)}

(* No net leaves S. *)
Closed(S) == \A t \in S : Adj(t) \subseteq S

(* The connected set of t. *)
Comp(t) == {u \in TermIds : \A S \in SUBSET TermIds : Closed(S) /\ t \in S => u \in S}

Drivers == LeafDrivers \cup TopDrivers

(* The types a constant net can have, and an iso. *)
Kinds == {"CONST0", "CONST1", "CONSTX", "CONSTZ"}

IsoTypes == Kinds \cup {"STANDART", "AMBIGUOUS", "SHADOW"}

(* The type of an iso on whose nets the constants of K were met. *)
TypeOf(K) ==
  CASE K = {}                    -> "STANDART"
    [] \E k \in K : K = {k}      -> CHOOSE k \in K : TRUE
    [] OTHER                     -> "AMBIGUOUS"

(* The constants met at the terminals of V. *)
TypesAt(V) == ({TypeIn(t) : t \in V} \cup {TypeOut(t) : t \in V}) \ {"STANDART"}

(* Iso x holds what a trace finds at the terminals of V. *)
IsoHas(x, V) ==
  isos[x] = [drivers |-> {t \in V : Role(t) = "driver"},
             readers |-> {t \in V : Role(t) = "reader"},
             type |-> TypeOf(TypesAt(V))]

IsoRecord == [drivers : SUBSET Nat, readers : SUBSET Nat, type : IsoTypes]

(* Thread w is in the middle of a trace. *)
Active(w) == trace[w].stack # <<>>

TraceRecord == [term : Nat, iso : Nat, stack : Seq(Nat), visited : SUBSET Nat]

TraceTypes ==
  /\ trace \in [Worker -> TraceRecord]
  /\ isos \in Seq(IsoRecord)
  /\ phase \in {"top", "children", "dfs"} =>
       /\ isos = <<>> /\ isoOf = <<>> /\ tasks = {} /\ again = {}
       /\ \A w \in Worker : ~Active(w)
  /\ phase \notin {"top", "children", "dfs"} => isoOf \in [TermIds -> 0 .. Len(isos)]

(* The trace of w stays in the connected set of its first terminal, has all  *)
(* neighbours of what it visited visited or on the stack, and its iso holds *)
(* what it visited. *)
Tracing(w) ==
  LET r == trace[w]
  IN  /\ r.term \in TermIds
      /\ r.iso \in 1 .. Len(isos)
      /\ r.iso = isoOf[r.term]
      /\ \A x \in 1 .. Len(r.stack) : r.stack[x] \in Comp(r.term)
      /\ r.visited \subseteq Comp(r.term)
      /\ r.term \in r.visited \cup Range(r.stack)
      /\ \A u \in r.visited : Adj(u) \subseteq r.visited \cup Range(r.stack)
      /\ IsoHas(r.iso, r.visited)

(* The terminals a trace will start or has started from. *)
Seeds == tasks \cup {trace[w].term : w \in {v \in Worker : Active(v)}}

(* No terminal is traced from twice at a time. *)
SeedsApart ==
  /\ tasks \subseteq TermIds
  /\ \A w \in Worker : Active(w) => trace[w].term \notin tasks
  /\ \A v, w \in Worker : Active(v) /\ Active(w) /\ trace[v].term = trace[w].term => v = w

(* Round 1: every driver has an iso of its own, exact once its trace is    *)
(* over; other terminals carry the ID of some driver they are connected to. *)
Round1 ==
  /\ tasks \subseteq Drivers
  /\ \A d \in Drivers : isoOf[d] # None
  /\ \A d, e \in Drivers : isoOf[d] = isoOf[e] => d = e
  /\ \A x \in 1 .. Len(isos) : \E d \in Drivers : isoOf[d] = x
  /\ \A w \in Worker : Active(w) => trace[w].term \in Drivers
  /\ \A d \in Drivers \ Seeds : IsoHas(isoOf[d], Comp(d))
  /\ \A t \in TermIds \ Drivers : isoOf[t] # None => \E d \in Drivers : t \in Comp(d) /\ isoOf[t] = isoOf[d]
  /\ \A w \in Worker : Active(w) => \A t \in trace[w].visited : isoOf[t] # None
  /\ \A d \in Drivers \ Seeds : \A t \in Comp(d) : isoOf[t] # None

(* An iso of round 1 that was given up. *)
Shadow(x) == x # None /\ isos[x].type = "SHADOW"

(* There is another driver on the nets of d. *)
Several(d) == \E e \in Drivers : e \in Comp(d) /\ e # d

(* One driver of each net with several is treated again. *)
AgainOK ==
  /\ again \subseteq Drivers
  /\ \A a \in again : Several(a)
  /\ \A d \in Drivers : Several(d) => \E a \in again : a \in Comp(d)
  /\ \A a, b \in again : b \in Comp(a) => a = b

(* From round 2 on no two traces meet, and a connected set none is at work  *)
(* on is labelled by one iso, which is exact, or not at all. *)
Settling ==
  /\ tasks \subseteq again
  /\ AgainOK
  /\ \A d, e \in Seeds : e \in Comp(d) => e = d
  /\ \A d \in Seeds : isoOf[d] # None
  /\ \A d \in Seeds : \A t \in TermIds : isoOf[t] = isoOf[d] => t \in Comp(d)
  /\ \A d \in Seeds : \A t \in Comp(d) : isoOf[t] \in {isoOf[d], None} \/ Shadow(isoOf[t])
  /\ \A w \in Worker : Active(w) => \A t \in trace[w].visited : isoOf[t] = trace[w].iso
  /\ \A t \in TermIds : isoOf[t] # None /\ (\A d \in Seeds : t \notin Comp(d)) =>
       /\ \A u \in TermIds : isoOf[u] = isoOf[t] <=> u \in Comp(t)
       /\ IsoHas(isoOf[t], Comp(t))
  /\ \A x \in 1 .. Len(isos) : Shadow(x) \/ (\A t \in TermIds : isoOf[t] # x) =>
       isos[x].drivers = {} /\ isos[x].readers = {}
  /\ \A d \in Drivers : \A t \in Comp(d) : isoOf[t] # None

(* The last pass: one thread, no task, and no driver where it traces. *)
DanglingPass ==
  /\ tasks = {}
  /\ \A w \in Worker \ {Main} : ~Active(w)
  /\ Active(Main) => /\ NetSet(trace[Main].term) # {}
                     /\ \A d \in Drivers : d \notin Comp(trace[Main].term)
  /\ trace[Main].iso # None =>
       trace[Main].iso \in 1 .. Len(isos) /\ isos[trace[Main].iso].drivers = {}

(* The part of the invariant about the iso builder. *)
Traced ==
  /\ phase \in {"top", "children", "dfs", "round1", "round2", "dangling", "done"}
  /\ TraceTypes
  /\ phase \notin {"top", "children", "dfs"} =>
       /\ SeedsApart
       /\ \A d \in tasks : IsoHas(isoOf[d], {})
       /\ \A w \in Worker : Active(w) => Tracing(w)
  /\ phase = "round1" => Round1
  /\ phase \in {"round2", "dangling", "done"} => Settling
  /\ phase \in {"dangling", "done"} => DanglingPass
  /\ phase = "done" => \A w \in Worker : ~Active(w)
  /\ phase = "done" /\ OneChildNets => \A t \in TermIds : NetSet(t) # {} => isoOf[t] # None

(* process() does not change the netlist. *)
Netlist ==
  /\ net \in Wirings /\ type \in Typings
  /\ wires = Wires
-----------------------------------------------------------------------------
(* Numbers and sequences.                                                  *)

(* Every nonempty set of naturals has a least element. *)
LEMMA LeastNat == \A S \in SUBSET Nat : S # {} => \E n \in S : \A m \in S : n <= m
<1> SUFFICES ASSUME NEW S \in SUBSET Nat, S # {}
             PROVE  \E n \in S : \A m \in S : n <= m
  OBVIOUS
<1> DEFINE R == OpToRel(<, Nat)
<1>1. IsWellFoundedOn(R, Nat)
  BY NatLessThanWellFounded
<1>2. \A m, n \in Nat : m < n => <<m, n>> \in R
  BY DEF OpToRel
<1> HIDE DEF R
<1>3. PICK n \in S : \A m \in S : ~(<<m, n>> \in R)
  BY <1>1, WFMin
<1>4. \A m \in S : ~(m < n)
  BY <1>2, <1>3
<1>5. \A m \in S : n <= m
  BY <1>4
<1> QED
  BY <1>5

(* Min() is what its name says. *)
LEMMA MinOf ==
  ASSUME NEW S \in SUBSET Nat, S # {}
  PROVE  Min(S) \in S /\ \A m \in S : Min(S) <= m
<1>1. \E n \in S : \A m \in S : n <= m
  BY LeastNat
<1> QED
  BY <1>1 DEF Min

(* The parts of a nonempty sequence. *)
LEMMA FrontLast ==
  ASSUME NEW S, NEW s \in Seq(S), s # <<>>
  PROVE  /\ Len(s) \in Nat \ {0}
         /\ Front(s) \in Seq(S)
         /\ Len(Front(s)) = Len(s) - 1
         /\ \A x \in 1 .. Len(s) - 1 : Front(s)[x] = s[x]
         /\ Last(s) = s[Len(s)] /\ Last(s) \in S
<1>1. Len(s) \in Nat \ {0}
  OBVIOUS
<1>2. Front(s) = SubSeq(s, 1, Len(s) - 1) /\ Last(s) = s[Len(s)]
  BY DEF Front, Last
<1>3. SubSeq(s, 1, Len(s) - 1) \in Seq(S) /\ Len(SubSeq(s, 1, Len(s) - 1)) = Len(s) - 1
  <2>1. Len(s) - 1 \in Int /\ \A x \in 1 .. Len(s) - 1 : s[x] \in S
    BY <1>1
  <2>2. /\ SubSeq(s, 1, Len(s) - 1) \in Seq(S)
        /\ Len(SubSeq(s, 1, Len(s) - 1)) =
             IF 1 <= Len(s) - 1 THEN (Len(s) - 1) - 1 + 1 ELSE 0
    BY <2>1, SubSeqProperties
  <2>3. \A n \in Nat \ {0} : (IF 1 <= n - 1 THEN (n - 1) - 1 + 1 ELSE 0) = n - 1
    OBVIOUS
  <2>4. (IF 1 <= Len(s) - 1 THEN (Len(s) - 1) - 1 + 1 ELSE 0) = Len(s) - 1
    BY <1>1, <2>3
  <2> QED
    BY <2>2, <2>4
<1>4. \A x \in 1 .. Len(s) - 1 : SubSeq(s, 1, Len(s) - 1)[x] = s[x]
  BY <1>1
<1> QED
  BY <1>1, <1>2, <1>3, <1>4

Below(S, t) == {u \in S : u < t}

(* Sorted(S) lists the numbers of S, each once. *)
LEMMA SortedSeq ==
  ASSUME NEW S \in SUBSET Nat, IsFiniteSet(S)
  PROVE  /\ Sorted(S) \in Seq(S)
         /\ \A x, y \in 1 .. Len(Sorted(S)) : Sorted(S)[x] = Sorted(S)[y] => x = y
         /\ \A t \in S : \E x \in 1 .. Len(Sorted(S)) : Sorted(S)[x] = t
<1> DEFINE n == Cardinality(S)
           f == [t \in S |-> Cardinality(Below(S, t)) + 1]
<1>1. n \in Nat
  BY FS_CardinalityType
<1>2. ASSUME NEW t \in S
      PROVE  IsFiniteSet(Below(S, t)) /\ Cardinality(Below(S, t)) \in 0 .. n - 1
  <2>1. Below(S, t) \in SUBSET (S \ {t})
    BY DEF Below
  <2>2. IsFiniteSet(S \ {t}) /\ Cardinality(S \ {t}) = n - 1
    BY FS_RemoveElement
  <2>3. IsFiniteSet(Below(S, t)) /\ Cardinality(Below(S, t)) <= n - 1
    BY <2>1, <2>2, FS_Subset
  <2>4. Cardinality(Below(S, t)) \in Nat
    BY <2>3, FS_CardinalityType
  <2> HIDE DEF n
  <2> QED
    BY <1>1, <2>3, <2>4
<1>3. ASSUME NEW t \in S, NEW u \in S, u < t
      PROVE  Cardinality(Below(S, u)) # Cardinality(Below(S, t))
  <2>0. t \in Nat /\ u \in Nat /\ \A v \in S : v \in Nat
    OBVIOUS
  <2>1. /\ Below(S, u) \in SUBSET Below(S, t)
        /\ u \in Below(S, t)
        /\ u \notin Below(S, u)
    <3>1. \A v \in S : v < u => v < t
      BY <1>3, <2>0
    <3>2. ~(u < u)
      BY <2>0
    <3> QED
      BY <1>3, <3>1, <3>2 DEF Below
  <2> QED
    BY <1>2, <2>1, FS_Subset
<1>4. f \in Injection(S, 1 .. n)
  <2>1. f \in [S -> 1 .. n]
    <3> HIDE DEF n
    <3> QED
      BY <1>1, <1>2
  <2>2. ASSUME NEW t \in S, NEW u \in S, t # u PROVE f[t] # f[u]
    <3>1. Cardinality(Below(S, t)) \in Nat /\ Cardinality(Below(S, u)) \in Nat
      BY <1>2
    <3>2. t < u \/ u < t
      BY <2>2
    <3> QED
      BY <1>3, <3>1, <3>2
  <2> HIDE DEF n, f
  <2> QED
    BY <2>1, <2>2 DEF Injection, IsInjective
<1>5. f \in Surjection(S, 1 .. n)
  <2>1. IsFiniteSet(1 .. n) /\ Cardinality(1 .. n) = n
    BY <1>1, FS_Interval
  <2> HIDE DEF f
  <2> QED
    BY <1>4, <2>1, FS_Injection
<1>6. ASSUME NEW x \in 1 .. n
      PROVE  \E t \in S : Cardinality(Below(S, t)) = x - 1
  <2>1. \E t \in S : f[t] = x
    <3> HIDE DEF f
    <3> QED
      BY <1>5 DEF Surjection
  <2> QED
    BY <1>2, <2>1
<1>7. Sorted(S) = [x \in 1 .. n |-> CHOOSE t \in S : Cardinality(Below(S, t)) = x - 1]
  BY DEF Sorted, Below
<1> HIDE DEF f, n
<1>8. ASSUME NEW x \in 1 .. n
      PROVE  Sorted(S)[x] \in S /\ Cardinality(Below(S, Sorted(S)[x])) = x - 1
  BY <1>6, <1>7
<1>9. Sorted(S) \in Seq(S) /\ Len(Sorted(S)) = n
  BY <1>1, <1>7, <1>8
<1>10. ASSUME NEW x \in 1 .. n, NEW y \in 1 .. n, Sorted(S)[x] = Sorted(S)[y]
       PROVE  x = y
  <2>1. x - 1 = y - 1
    BY <1>8, <1>10
  <2> QED
    BY <2>1, <1>1
<1>11. ASSUME NEW t \in S PROVE \E x \in 1 .. n : Sorted(S)[x] = t
  <2>1. Cardinality(Below(S, t)) + 1 \in 1 .. n
    BY <1>1, <1>2
  <2>2. \A u \in S : Cardinality(Below(S, u)) = Cardinality(Below(S, t)) => u = t
    <3> TAKE u \in S
    <3>1. u # t => u < t \/ t < u
      OBVIOUS
    <3> QED
      BY <3>1, <1>3
  <2>3. PICK x \in 1 .. n : x = Cardinality(Below(S, t)) + 1
    BY <2>1
  <2>4. Sorted(S)[x] \in S /\ Cardinality(Below(S, Sorted(S)[x])) = x - 1
    BY <1>8
  <2>5. Cardinality(Below(S, t)) = x - 1
    BY <1>2, <2>3
  <2>6. Sorted(S)[x] = t
    BY <2>2, <2>4, <2>5
  <2> QED
    BY <2>6
<1> QED
  BY <1>9, <1>10, <1>11

-----------------------------------------------------------------------------
(* The numbering.                                                          *)

(* What one more instance changes. *)
LEMMA NewInstanceFacts ==
  ASSUME NumberingTypes, NEW p \in Nat, NEW j \in Nat, NEW m \in Design, NewInstance(p, j, m)
  PROVE  /\ insts' \in Seq(InstRecord)
         /\ Len(insts') = Len(insts) + 1
         /\ \A i \in Ids : insts'[i] = insts[i]
         /\ LET r == insts'[Len(insts) + 1]
            IN  /\ r.snl = j /\ r.model = m /\ r.parent = p
                /\ r.dfs = <<None, None>>
                /\ Len(Directions[m]) # 0 => r.terms[1] = Len(terms) + 1
         /\ terms' \in Seq([inst : Nat, bit : Nat])
         /\ Len(terms') = Len(terms) + Len(Directions[m])
         /\ \A t \in TermIds : terms'[t] = terms[t]
         /\ \A k \in 1 .. Len(Directions[m]) :
              terms'[Len(terms) + k] = [inst |-> Len(insts) + 1, bit |-> k]
         /\ leaves' \in SUBSET Nat
<1> DEFINE n == Len(Directions[m])
           R == [inst : Nat, bit : Nat]
           new == [snl |-> j, model |-> m, parent |-> p, children |-> <<None, None>>,
                   terms |-> IF n = 0 THEN <<None, None>> ELSE <<Len(terms) + 1, Len(terms) + 1 + n - 1>>,
                   dfs |-> <<None, None>>]
           s == [k \in 1 .. n |-> [inst |-> Len(insts) + 1, bit |-> k]]
<1>1. n \in Nat /\ None = 0
  BY DNLAssumption
<1>2. insts \in Seq(InstRecord) /\ terms \in Seq(R) /\ leaves \in SUBSET Nat
  BY DEF NumberingTypes
<1>3. insts' = Append(insts, new) /\ terms' = terms \o s
  BY DEF NewInstance
<1>4. leaves' = leaves \/ leaves' = leaves \cup {Len(insts) + 1}
  BY DEF NewInstance
<1>5. Len(insts) \in Nat /\ Len(terms) \in Nat
  BY <1>2
<1>6. new \in InstRecord
  <2>1. <<None, None>> \in Nat \X Nat
    BY <1>1
  <2>2. <<Len(terms) + 1, Len(terms) + 1 + n - 1>> \in Nat \X Nat
    <3> HIDE DEF n
    <3>1. Len(terms) + 1 + n - 1 \in Nat /\ Len(terms) + 1 \in Nat
      BY <1>1, <1>5
    <3> QED
      BY <3>1
  <2> HIDE DEF n
  <2> QED
    BY <2>1, <2>2 DEF InstRecord
<1>7. s \in Seq(R) /\ Len(s) = n
  <2> HIDE DEF n
  <2> QED
    BY <1>1, <1>5
<1>8. /\ new.snl = j /\ new.model = m /\ new.parent = p /\ new.dfs = <<None, None>>
      /\ n # 0 => new.terms[1] = Len(terms) + 1
  OBVIOUS
<1>9. \A k \in 1 .. n : s[k] = [inst |-> Len(insts) + 1, bit |-> k]
  OBVIOUS
<1> HIDE DEF new, s, n, R
<1>10. insts' \in Seq(InstRecord) /\ Len(insts') = Len(insts) + 1
  BY <1>2, <1>3, <1>6
<1>11. \A i \in Ids : insts'[i] = insts[i]
  BY <1>2, <1>3, <1>6 DEF Ids
<1>12. insts'[Len(insts) + 1] = new
  BY <1>2, <1>3, <1>6
<1>13. terms' \in Seq(R) /\ Len(terms') = Len(terms) + n
  BY <1>2, <1>3, <1>7, ConcatProperties
<1>14. \A t \in TermIds : terms'[t] = terms[t]
  BY <1>2, <1>3, <1>7, <1>5, <1>1 DEF TermIds
<1>15. \A k \in 1 .. n : terms'[Len(terms) + k] = s[k]
  BY <1>2, <1>3, <1>7, <1>5, <1>1
<1>16. leaves' \in SUBSET Nat
  <2>1. Len(insts) + 1 \in Nat
    BY <1>5
  <2> QED
    BY <1>2, <1>4, <2>1
<1> QED
  BY <1>8, <1>9, <1>10, <1>11, <1>12, <1>13, <1>14, <1>15, <1>16 DEF n, R

(* The lookups that TermsFound is about, after one more instance. *)
LEMMA NewTermsFound ==
  ASSUME NumberingTypes, NEW p \in Nat, NEW j \in Nat, NEW m \in Design, NewInstance(p, j, m),
         TermsFound, \A i \in Ids : ModelOf(i) \in Design
  PROVE  TermsFound'
<1> DEFINE id == Len(insts) + 1
           n  == Len(Directions[m])
<1>1. /\ Len(insts') = Len(insts) + 1
      /\ \A i \in Ids : insts'[i] = insts[i]
      /\ insts'[id].model = m /\ (n # 0 => insts'[id].terms[1] = Len(terms) + 1)
      /\ Len(terms') = Len(terms) + n
      /\ \A t \in TermIds : terms'[t] = terms[t]
      /\ \A k \in 1 .. n : terms'[Len(terms) + k] = [inst |-> id, bit |-> k]
  BY NewInstanceFacts
<1>2. Len(insts) \in Nat /\ Len(terms) \in Nat /\ n \in Nat
  BY DNLAssumption DEF NumberingTypes
<1> HIDE DEF id, n
<1>3. id \in Nat /\ Ids' = Ids \cup {id} /\ id \notin Ids
  BY <1>1, <1>2 DEF Ids, id
<1>4. TermIds \subseteq TermIds' /\ \A k \in 1 .. n : Len(terms) + k \in TermIds'
  BY <1>1, <1>2 DEF TermIds
<1>5. ASSUME NEW i \in Ids', NEW k \in 1 .. Len(Directions[insts'[i].model])
      PROVE  /\ insts'[i].terms[1] + k - 1 \in TermIds'
             /\ terms'[insts'[i].terms[1] + k - 1].inst = i
             /\ terms'[insts'[i].terms[1] + k - 1].bit = k
  <2>1. CASE i \in Ids
    <3>1. insts'[i] = insts[i]
      BY <2>1, <1>1
    <3>2. k \in 1 .. Len(Directions[ModelOf(i)])
      BY <3>1 DEF ModelOf
    <3>3. PICK t \in TermIds : t = getTerminal(i, k) /\ terms[t].inst = i /\ terms[t].bit = k
      BY <2>1, <3>2 DEF TermsFound
    <3>4. terms'[t] = terms[t] /\ t \in TermIds'
      BY <1>1, <1>4
    <3>5. insts'[i].terms[1] + k - 1 = t
      BY <3>1, <3>3 DEF getTerminal
    <3> QED
      BY <3>3, <3>4, <3>5
  <2>2. CASE i = id
    <3>1. k \in 1 .. n /\ n # 0
      BY <2>2, <1>1, <1>2 DEF n
    <3>2. insts'[i].terms[1] + k - 1 = Len(terms) + k
      BY <2>2, <3>1, <1>1, <1>2
    <3>3. terms'[Len(terms) + k] = [inst |-> id, bit |-> k] /\ Len(terms) + k \in TermIds'
      BY <3>1, <1>1, <1>4
    <3> QED
      BY <2>2, <3>2, <3>3
  <2> QED
    BY <2>1, <2>2, <1>3
<1>6. ASSUME NEW t \in TermIds'
      PROVE  /\ terms'[t].inst \in Ids'
             /\ terms'[t].bit \in 1 .. Len(Directions[insts'[terms'[t].inst].model])
             /\ t = insts'[terms'[t].inst].terms[1] + terms'[t].bit - 1
  <2>1. CASE t \in TermIds
    <3>1. PICK i \in Ids : i = terms[t].inst
      BY <2>1 DEF TermsFound
    <3>2. terms'[t] = terms[t] /\ insts'[i] = insts[i]
      BY <2>1, <1>1
    <3>3. terms[t].bit \in 1 .. Len(Directions[insts[i].model]) /\ t = insts[i].terms[1] + terms[t].bit - 1
      BY <2>1, <3>1 DEF TermsFound, ModelOf, getTerminal
    <3> QED
      BY <3>1, <3>2, <3>3, <1>3
  <2>2. CASE t \notin TermIds
    <3>1. PICK k \in 1 .. n : t = Len(terms) + k
      <4>1. t - Len(terms) \in 1 .. n
        BY <2>2, <1>1, <1>2 DEF TermIds
      <4>2. t = Len(terms) + (t - Len(terms))
        BY <1>2 DEF TermIds
      <4> QED
        BY <4>1, <4>2
    <3>2. terms'[t] = [inst |-> id, bit |-> k] /\ n # 0
      BY <3>1, <1>1, <1>2
    <3>3. terms'[t].inst = id /\ terms'[t].bit = k
      BY <3>2
    <3>4. insts'[id].terms[1] = Len(terms) + 1 /\ insts'[id].model = m
      BY <3>2, <1>1
    <3> QED
      BY <3>1, <3>3, <3>4, <1>2, <1>3 DEF n
  <2> QED
    BY <2>1, <2>2
<1> QED
  BY <1>5, <1>6 DEF TermsFound, ModelOf, getTerminal

(* The top is the first instance. *)
LEMMA CreateTopNumbered ==
  ASSUME Numbered, CreateTop
  PROVE  Numbered'
<1>1. /\ insts = <<>> /\ terms = <<>> /\ leaves = {} /\ pending = <<>>
      /\ NumberingTypes /\ NewInstance(None, None, Top)
      /\ path' = <<<<>>>> /\ parent' = 1 /\ first' = 2 /\ phase' = "children" /\ pending' = pending
  BY DEF Numbered, CreateTop, BeginChildren
<1>2. None = 0 /\ None \in Nat /\ Top \in Design
  BY DNLAssumption
<1>3. /\ insts' \in Seq(InstRecord) /\ Len(insts') = 1
      /\ insts'[1].model = Top
      /\ terms' \in Seq([inst : Nat, bit : Nat])
  <2>1. /\ insts' \in Seq(InstRecord) /\ Len(insts') = Len(insts) + 1
        /\ insts'[Len(insts) + 1].model = Top
        /\ terms' \in Seq([inst : Nat, bit : Nat])
    BY <1>1, <1>2, NewInstanceFacts
  <2>2. Len(insts) = 0
    BY <1>1
  <2> QED
    BY <2>1, <2>2
<1>4. leaves' = {}
  BY <1>1 DEF NewInstance
<1>5. Ids' = {1}
  BY <1>3 DEF Ids
<1>6. path' \in Seq(Paths) /\ Len(path') = 1 /\ path'[1] = <<>> /\ DesignAt[<<>>] = Top
  BY <1>1, HierarchyAssumption
<1>7. TermsFound'
  <2>1. TermsFound /\ \A i \in Ids : ModelOf(i) \in Design
    BY <1>1 DEF TermsFound, Ids, TermIds
  <2> QED
    BY <1>1, <1>2, <2>1, NewTermsFound
<1>8. NumberingTypes'
  BY <1>3, <1>4, <1>6 DEF NumberingTypes
<1>9. Climbs'
  BY <1>3, <1>5, <1>6 DEF Climbs, ModelOf
<1>10. LeavesFound'
  BY <1>4, <1>5 DEF LeavesFound
<1>11. ChildrenFound' /\ ParentsFound'
  BY <1>1, <1>5 DEF ChildrenFound, ParentsFound, Expanded, Unfolding
<1>12. PendingOK'
  BY <1>1 DEF PendingOK
<1>13. UnfoldingOK'
  <2>1. Len(InstancesOf[Top]) \in Nat
    BY DNLAssumption
  <2> QED
    BY <1>1, <1>3, <1>5, <2>1 DEF UnfoldingOK, Position, ModelOf
<1> QED
  BY <1>1, <1>7, <1>8, <1>9, <1>10, <1>11, <1>12, <1>13 DEF Numbered

(* Types of what Climbs is about. *)
LEMMA ClimbsFacts ==
  ASSUME NumberingTypes, Climbs
  PROVE  /\ Len(insts) \in Nat
         /\ \A i \in Ids : i \in Nat /\ insts[i] \in InstRecord /\ path[i] \in Paths
         /\ \A i \in Ids : ModelOf(i) \in Design
         /\ \A i \in Ids : Len(InstancesOf[ModelOf(i)]) \in Nat
         /\ \A i \in Ids : \A j \in 1 .. Len(InstancesOf[ModelOf(i)]) :
              InstancesOf[ModelOf(i)][j] \in Design
<1>1. insts \in Seq(InstRecord) /\ path \in Seq(Paths) /\ Len(path) = Len(insts)
  BY DEF NumberingTypes
<1>2. Len(insts) \in Nat
  BY <1>1
<1>3. \A i \in Ids : i \in Nat /\ insts[i] \in InstRecord /\ path[i] \in Paths
  BY <1>1, <1>2 DEF Ids
<1>4. \A i \in Ids : ModelOf(i) \in Design
  BY <1>3 DEF InstRecord, ModelOf
<1>5. \A d \in Design : InstancesOf[d] \in Seq(Design)
  BY DNLAssumption
<1>6. \A i \in Ids : InstancesOf[ModelOf(i)] \in Seq(Design)
  BY <1>4, <1>5
<1> QED
  BY <1>2, <1>3, <1>4, <1>6

(* One more child of the instance that is unfolded. *)
LEMMA AddChildNumbered ==
  ASSUME Numbered, AddChild
  PROVE  Numbered'
<1> DEFINE id == Len(insts) + 1
           j  == Position
           m  == InstancesOf[ModelOf(parent)][Position]
<1>1. /\ phase = "children" /\ phase' = "children"
      /\ Position <= Len(InstancesOf[ModelOf(parent)])
      /\ NewInstance(parent, j, m)
      /\ path' = Append(path, Append(path[parent], j))
      /\ pending' = Append(pending, id)
      /\ parent' = parent /\ first' = first
  BY DEF AddChild
<1>2. /\ NumberingTypes /\ Climbs /\ TermsFound /\ LeavesFound /\ ChildrenFound /\ ParentsFound
      /\ PendingOK /\ UnfoldingOK
  BY <1>1 DEF Numbered
<1>3. /\ parent \in Ids /\ first \in 2 .. Len(insts) + 1
      /\ \A x \in 1 .. Len(pending) : pending[x] # parent
      /\ \A c \in first .. Len(insts) : insts[c].parent = parent /\ insts[c].snl = c - first + 1
  BY <1>1, <1>2 DEF UnfoldingOK
<1>4. /\ Len(insts) \in Nat /\ parent \in Nat /\ Len(InstancesOf[ModelOf(parent)]) \in Nat
      /\ \A i \in Ids : ModelOf(i) \in Design
      /\ path[parent] \in Paths
  BY <1>2, <1>3, ClimbsFacts
<1>5. j \in 1 .. Len(InstancesOf[ModelOf(parent)]) /\ j \in Nat
  BY <1>1, <1>3, <1>4 DEF Position
<1>6. m \in Design
  BY <1>2, <1>3, <1>5, ClimbsFacts
<1>7. ModelOf(parent) = DesignAt[path[parent]]
  BY <1>2, <1>3 DEF Climbs
<1>8. Append(path[parent], j) \in Paths /\ DesignAt[Append(path[parent], j)] = m
  BY <1>4, <1>5, <1>7, HierarchyAssumption
<1> HIDE DEF m, j, id
<1>9. /\ insts' \in Seq(InstRecord)
      /\ Len(insts') = Len(insts) + 1
      /\ \A i \in Ids : insts'[i] = insts[i]
      /\ insts'[id].snl = j /\ insts'[id].model = m /\ insts'[id].parent = parent
      /\ terms' \in Seq([inst : Nat, bit : Nat])
      /\ leaves' \in SUBSET Nat
  BY <1>1, <1>2, <1>4, <1>5, <1>6, NewInstanceFacts DEF id
<1>10. id \in Nat /\ Ids' = Ids \cup {id} /\ id \notin Ids /\ Len(insts') = id
  BY <1>4, <1>9 DEF Ids, id
<1>11. /\ path' \in Seq(Paths) /\ Len(path') = Len(insts')
       /\ path'[id] = Append(path[parent], j)
       /\ \A i \in Ids : path'[i] = path[i]
  <2>1. path \in Seq(Paths) /\ Len(path) = Len(insts)
    BY <1>2 DEF NumberingTypes
  <2> QED
    BY <2>1, <1>1, <1>4, <1>8, <1>9 DEF Ids, id
<1>12. TermsFound'
  BY <1>1, <1>2, <1>4, <1>5, <1>6, NewTermsFound
<1>13. NumberingTypes'
  BY <1>9, <1>11 DEF NumberingTypes
<1>14. Climbs'
  <2>1. 1 \in Ids' /\ path'[1] = <<>>
    BY <1>2, <1>10, <1>11 DEF Climbs
  <2>2. ASSUME NEW i \in Ids'
        PROVE  /\ insts'[i].model = DesignAt[path'[i]]
               /\ i # 1 =>
                    /\ insts'[i].parent \in 1 .. i - 1
                    /\ insts'[i].snl \in 1 .. Len(InstancesOf[insts'[insts'[i].parent].model])
                    /\ path'[i] = Append(path'[insts'[i].parent], insts'[i].snl)
    <3>1. CASE i \in Ids
      <4>1. insts'[i] = insts[i] /\ path'[i] = path[i] /\ i \in Nat /\ i <= Len(insts)
        BY <3>1, <1>4, <1>9, <1>11 DEF Ids
      <4>2. i # 1 => insts[i].parent \in 1 .. i - 1 /\ insts[i].parent \in Ids
        BY <3>1, <4>1, <1>2, <1>4 DEF Climbs, Ids
      <4>3. i # 1 => /\ insts'[insts[i].parent] = insts[insts[i].parent]
                     /\ path'[insts[i].parent] = path[insts[i].parent]
        BY <4>2, <1>9, <1>11
      <4> QED
        BY <3>1, <4>1, <4>2, <4>3, <1>2 DEF Climbs, ModelOf
    <3>2. CASE i = id
      <4>1. insts'[parent] = insts[parent] /\ path'[parent] = path[parent]
        BY <1>3, <1>9, <1>11
      <4>2. parent \in 1 .. id - 1
        BY <1>3, <1>4 DEF Ids, id
      <4> QED
        BY <3>2, <4>1, <4>2, <1>5, <1>8, <1>9, <1>11 DEF ModelOf
    <3> QED
      BY <3>1, <3>2, <1>10
  <2> QED
    BY <2>1, <2>2 DEF Climbs, ModelOf
<1>15. LeavesFound'
  <2>1. leaves' = IF InstancesOf[m] = <<>> THEN leaves \cup {id} ELSE leaves
    <3>1. parent # None
      BY <1>3, DNLAssumption DEF Ids
    <3> QED
      BY <1>1, <3>1 DEF NewInstance, id
  <2>2. leaves = {i \in Ids : i # 1 /\ InstancesOf[insts[i].model] = <<>>}
    BY <1>2 DEF LeavesFound, ModelOf
  <2>3. id # 1
    BY <1>2, <1>10 DEF Climbs
  <2>4. leaves' = {i \in Ids' : i # 1 /\ InstancesOf[insts'[i].model] = <<>>}
    BY <2>1, <2>2, <2>3, <1>9, <1>10
  <2> QED
    BY <2>4 DEF LeavesFound, ModelOf
<1>16. /\ Len(pending) \in Nat /\ pending' \in Seq(Nat) /\ Len(pending') = Len(pending) + 1
       /\ pending'[Len(pending) + 1] = id
       /\ \A x \in 1 .. Len(pending) : pending'[x] = pending[x]
  BY <1>1, <1>2, <1>10 DEF PendingOK
<1>17. PendingOK'
  <2>1. /\ \A x \in 1 .. Len(pending) : pending[x] \in Ids \ {1}
        /\ \A x, y \in 1 .. Len(pending) : pending[x] = pending[y] => x = y
    BY <1>2 DEF PendingOK
  <2>2. \A x \in 1 .. Len(pending') : x \in 1 .. Len(pending) \/ x = Len(pending) + 1
    BY <1>16
  <2>3. id # 1
    BY <1>2, <1>10 DEF Climbs
  <2>4. \A x \in 1 .. Len(pending') : pending'[x] \in Ids' \ {1}
    BY <1>10, <1>16, <2>1, <2>2, <2>3
  <2>5. \A x, y \in 1 .. Len(pending') : pending'[x] = pending'[y] => x = y
    BY <1>10, <1>16, <2>1, <2>2
  <2> QED
    BY <1>1, <1>16, <2>4, <2>5 DEF PendingOK
<1>18. ASSUME NEW x \in 1 .. Len(pending'), NEW p \in Ids, \A y \in 1 .. Len(pending) : pending[y] # p
       PROVE  pending'[x] # p
  <2>1. x \in 1 .. Len(pending) \/ x = Len(pending) + 1
    BY <1>16
  <2> QED
    BY <2>1, <1>16, <1>18, <1>10
<1>19. ChildrenFound'
  <2> SUFFICES ASSUME NEW i \in Ids', Expanded(i)'
               PROVE  ChildrenOf(i)'
    BY DEF ChildrenFound
  <2>1. i # parent /\ \A x \in 1 .. Len(pending') : pending'[x] # i
    BY <1>1 DEF Expanded, Unfolding
  <2>2. i \in Ids
    BY <2>1, <1>10, <1>16
  <2>3. \A x \in 1 .. Len(pending) : pending[x] # i
    BY <2>1, <1>16
  <2>4. ChildrenOf(i)
    BY <2>1, <2>2, <2>3, <1>2 DEF ChildrenFound, Expanded, Unfolding
  <2>5. insts'[i] = insts[i]
    BY <2>2, <1>9
  <2>6. \A jj \in 1 .. Len(InstancesOf[insts[i].model]) :
          LET c == insts[i].children[1] + jj - 1
          IN  c \in Ids \ {1} /\ insts[c].parent = i /\ insts[c].snl = jj /\ insts'[c] = insts[c]
    BY <2>4, <1>9 DEF ChildrenOf, ModelOf, getChildInstance
  <2> QED
    BY <2>4, <2>5, <2>6, <1>10 DEF ChildrenOf, ModelOf, getChildInstance
<1>20. ParentsFound'
  <2> SUFFICES ASSUME NEW c \in Ids', c # 1
               PROVE  /\ \A x \in 1 .. Len(pending') : pending'[x] # insts'[c].parent
                      /\ insts'[c].parent = parent => c >= first /\ insts'[c].snl = c - first + 1
                      /\ insts'[c].parent # parent =>
                           c = insts'[insts'[c].parent].children[1] + insts'[c].snl - 1
    BY <1>1 DEF ParentsFound, Unfolding, getChildInstance
  <2>1. CASE c = id
    <3>1. \A x \in 1 .. Len(pending') : pending'[x] # parent
      BY <1>3, <1>18
    <3>2. id >= first /\ j = id - first + 1
      BY <1>3, <1>4 DEF Position, id, j
    <3> QED
      BY <2>1, <3>1, <3>2, <1>9
  <2>2. CASE c \in Ids
    <3>1. insts'[c] = insts[c] /\ insts[c].parent \in Ids
      BY <2>2, <1>2, <1>4, <1>9 DEF Climbs, Ids
    <3>2. /\ \A x \in 1 .. Len(pending) : pending[x] # insts[c].parent
          /\ insts[c].parent = parent => c >= first /\ insts[c].snl = c - first + 1
          /\ insts[c].parent # parent =>
               c = insts[insts[c].parent].children[1] + insts[c].snl - 1
      BY <2>2, <1>1, <1>2 DEF ParentsFound, Unfolding, getChildInstance
    <3>3. insts'[insts[c].parent] = insts[insts[c].parent]
      BY <3>1, <1>9
    <3> QED
      BY <3>1, <3>2, <3>3, <1>18
  <2> QED
    BY <2>1, <2>2, <1>10
<1>21. UnfoldingOK'
  <2>1. \A x \in 1 .. Len(pending') : pending'[x] # parent
    BY <1>3, <1>18
  <2>2. insts'[parent] = insts[parent]
    BY <1>3, <1>9
  <2>3. Len(insts') - first + 2 <= Len(InstancesOf[insts'[parent].model]) + 1
    BY <2>2, <1>1, <1>3, <1>4, <1>9, SMTT(30) DEF Position, ModelOf
  <2>4. ASSUME NEW c \in first .. Len(insts')
        PROVE  insts'[c].parent = parent /\ insts'[c].snl = c - first + 1
    <3>1. CASE c = id
      BY <3>1, <1>3, <1>4, <1>9 DEF Position, id, j
    <3>2. CASE c # id
      <4>0. first \in Nat /\ first >= 2 /\ Len(insts') = Len(insts) + 1 /\ c # Len(insts) + 1
        BY <3>2, <1>3, <1>4, <1>9 DEF id
      <4>1. c \in first .. Len(insts) /\ c \in Ids
        BY <4>0, <1>4 DEF Ids
      <4> QED
        BY <4>1, <1>3, <1>9
    <3> QED
      BY <3>1, <3>2
  <2>5. first \in 2 .. Len(insts') + 1
    BY <1>3, <1>4, <1>9
  <2> QED
    BY <1>1, <1>3, <1>10, <2>1, <2>3, <2>4, <2>5 DEF UnfoldingOK, Position, ModelOf
<1> QED
  BY <1>1, <1>12, <1>13, <1>14, <1>15, <1>17, <1>19, <1>20, <1>21 DEF Numbered

(* The range of children of an instance is set once they have numbers. *)
LEMMA EndChildrenFacts ==
  ASSUME Numbered, EndChildren
  PROVE  /\ phase = "children"
         /\ NumberingTypes' /\ Climbs' /\ TermsFound' /\ LeavesFound'
         /\ Len(insts') = Len(insts) /\ Ids' = Ids
         /\ parent \in Ids
         /\ \A i \in Ids : /\ insts'[i].model = insts[i].model
                           /\ insts'[i].parent = insts[i].parent
                           /\ insts'[i].snl = insts[i].snl
                           /\ insts'[i].dfs = insts[i].dfs
         /\ \A i \in Ids : i = parent \/ ChildrenOf(i) => ChildrenOf(i)'
         /\ \A c \in Ids : c # 1 =>
              c = insts'[insts[c].parent].children[1] + insts[c].snl - 1
<1> DEFINE r == IF first = Len(insts) + 1 THEN <<None, None>> ELSE <<first, Len(insts)>>
<1>1. /\ phase = "children" /\ Position > Len(InstancesOf[ModelOf(parent)])
      /\ insts' = [insts EXCEPT ![parent].children = r]
      /\ terms' = terms /\ leaves' = leaves /\ path' = path
  BY DEF EndChildren
<1>2. /\ NumberingTypes /\ Climbs /\ TermsFound /\ LeavesFound /\ ChildrenFound /\ ParentsFound
      /\ PendingOK /\ UnfoldingOK
  BY <1>1 DEF Numbered
<1>3. /\ parent \in Ids /\ first \in 2 .. Len(insts) + 1
      /\ Position <= Len(InstancesOf[ModelOf(parent)]) + 1
      /\ \A c \in first .. Len(insts) : insts[c].parent = parent /\ insts[c].snl = c - first + 1
  BY <1>1, <1>2 DEF UnfoldingOK
<1>4. /\ Len(insts) \in Nat /\ Len(InstancesOf[ModelOf(parent)]) \in Nat
      /\ insts \in Seq(InstRecord)
      /\ \A i \in Ids : insts[i] \in InstRecord /\ i \in Nat
  BY <1>2, <1>3, ClimbsFacts DEF NumberingTypes
<1>5. r \in Nat \X Nat
  <2>1. first \in Nat /\ None \in Nat
    BY <1>3, DNLAssumption
  <2> QED
    BY <1>4, <2>1
<1> HIDE DEF r
<1>6. insts' \in Seq(InstRecord) /\ Len(insts') = Len(insts)
  <2>1. [insts[parent] EXCEPT !.children = r] \in InstRecord
    BY <1>3, <1>4, <1>5 DEF InstRecord
  <2>2. insts' = [insts EXCEPT ![parent] = [insts[parent] EXCEPT !.children = r]]
    BY <1>1
  <2> QED
    BY <2>1, <2>2, <1>3, <1>4 DEF Ids
<1>7. Ids' = Ids
  BY <1>6 DEF Ids
<1>8. insts'[parent] = [insts[parent] EXCEPT !.children = r]
  BY <1>1, <1>3, <1>4, SMTT(30) DEF Ids
<1>9. \A i \in Ids : i # parent => insts'[i] = insts[i]
  BY <1>1, <1>3, <1>4 DEF Ids
<1>10. ASSUME NEW i \in Ids
       PROVE  /\ insts'[i].model = insts[i].model
              /\ insts'[i].parent = insts[i].parent
              /\ insts'[i].snl = insts[i].snl
              /\ insts'[i].terms = insts[i].terms
              /\ insts'[i].dfs = insts[i].dfs
  <2>1. CASE i = parent
    BY <2>1, <1>3, <1>4, <1>8 DEF InstRecord
  <2>2. CASE i # parent
    BY <2>2, <1>9
  <2> QED
    BY <2>1, <2>2
<1>11. insts'[parent].children = r
  BY <1>3, <1>4, <1>8 DEF InstRecord
<1>12. NumberingTypes'
  BY <1>1, <1>2, <1>6 DEF NumberingTypes
<1>13. Climbs'
  <2>1. \A i \in Ids : i # 1 => insts[i].parent \in Ids
    BY <1>2, <1>4 DEF Climbs, Ids
  <2> QED
    BY <1>1, <1>2, <1>7, <1>10, <2>1 DEF Climbs, ModelOf
<1>14. TermsFound'
  <2>1. TermIds' = TermIds
    BY <1>1 DEF TermIds
  <2>2. \A i \in Ids : ModelOf(i)' = ModelOf(i) /\ insts'[i].terms[1] = insts[i].terms[1]
    BY <1>10 DEF ModelOf
  <2> QED
    BY <1>1, <1>2, <1>7, <2>1, <2>2 DEF TermsFound, getTerminal
<1>15. LeavesFound'
  BY <1>1, <1>2, <1>7, <1>10 DEF LeavesFound, ModelOf
<1>16. ASSUME NEW i \in Ids, i # parent, ChildrenOf(i)
       PROVE  ChildrenOf(i)'
  <2>1. insts'[i] = insts[i]
    BY <1>9, <1>16
  <2>2. \A j \in 1 .. Len(InstancesOf[insts[i].model]) :
          LET c == insts[i].children[1] + j - 1
          IN  c \in Ids \ {1} /\ insts'[c].parent = i /\ insts'[c].snl = j
    BY <1>10, <1>16 DEF ChildrenOf, ModelOf, getChildInstance
  <2> QED
    BY <2>1, <2>2, <1>7, <1>16 DEF ChildrenOf, ModelOf, getChildInstance
<1>17. Len(InstancesOf[ModelOf(parent)]) = Len(insts) - first + 1
  BY <1>1, <1>3, <1>4 DEF Position
<1>18. first # Len(insts) + 1 => insts'[parent].children[1] = first /\ insts'[parent].children[2] = Len(insts)
  BY <1>11 DEF r
<1>19. ASSUME NEW i \in Ids, i = parent
       PROVE  ChildrenOf(i)'
  <2> DEFINE s == InstancesOf[ModelOf(parent)]
  <2>0. s \in Seq(Design)
    BY <1>2, <1>3, ClimbsFacts, DNLAssumption
  <2>1. InstancesOf[insts'[parent].model] = s
    BY <1>3, <1>10 DEF ModelOf
  <2>2. s = <<>> <=> first = Len(insts) + 1
    <3>1. s = <<>> <=> Len(s) = 0
      BY <2>0
    <3> HIDE DEF s
    <3>2. Len(s) = Len(insts) - first + 1
      BY <1>17 DEF s
    <3> QED
      BY <3>1, <3>2, <1>3, <1>4
  <2>3. Len(s) = Len(insts) - first + 1
    BY <1>17
  <2> HIDE DEF s
  <2>4. first \in Nat /\ first >= 2 /\ None = 0
    BY <1>3, <1>4, DNLAssumption
  <2>5. s = <<>> => insts'[parent].children = <<None, None>>
    BY <2>2, <1>11 DEF r
  <2>6. s # <<>> => /\ insts'[parent].children[1] # None
                    /\ insts'[parent].children[2] = insts'[parent].children[1] + Len(s) - 1
    BY <2>2, <2>3, <2>4, <1>18, <1>4, SMTT(30)
  <2>7. ASSUME NEW j \in 1 .. Len(s)
        PROVE  LET c == insts'[parent].children[1] + j - 1
               IN  c \in Ids \ {1} /\ insts'[c].parent = parent /\ insts'[c].snl = j
    <3>1. first # Len(insts) + 1
      BY <2>3, <2>4, <1>4
    <3>2. insts'[parent].children[1] = first
      BY <3>1, <1>18
    <3>3. first + j - 1 \in first .. Len(insts) /\ first + j - 1 \in Ids \ {1}
      BY <2>3, <2>4, <1>4 DEF Ids
    <3>4. insts'[first + j - 1].parent = parent /\ insts'[first + j - 1].snl = (first + j - 1) - first + 1
      BY <3>3, <1>3, <1>10
    <3>5. (first + j - 1) - first + 1 = j
      BY <2>4
    <3> QED
      BY <3>2, <3>3, <3>4, <3>5
  <2> QED
    BY <1>7, <1>19, <2>1, <2>5, <2>6, <2>7 DEF ChildrenOf, ModelOf, getChildInstance
<1>20. ASSUME NEW c \in Ids, c # 1
       PROVE  c = insts'[insts[c].parent].children[1] + insts[c].snl - 1
  <2>1. /\ insts[c].parent = parent => c >= first /\ insts[c].snl = c - first + 1
        /\ insts[c].parent # parent =>
             c = insts[insts[c].parent].children[1] + insts[c].snl - 1
    BY <1>1, <1>2, <1>20 DEF ParentsFound, Unfolding, getChildInstance
  <2>2. CASE insts[c].parent = parent
    <3>1. c \in Nat /\ c <= Len(insts) /\ first \in Nat
      BY <1>3, <1>4 DEF Ids
    <3>2. insts'[parent].children[1] = first
      BY <2>1, <2>2, <3>1, <1>4, <1>18
    <3>3. c = first + (c - first + 1) - 1
      BY <3>1
    <3> QED
      BY <2>1, <2>2, <3>2, <3>3
  <2>3. CASE insts[c].parent # parent
    <3>1. insts[c].parent \in Ids
      BY <1>2, <1>4, <1>20 DEF Climbs, Ids
    <3> QED
      BY <2>1, <2>3, <3>1, <1>9
  <2> QED
    BY <2>2, <2>3
<1> QED
  BY <1>1, <1>3, <1>6, <1>7, <1>10, <1>12, <1>13, <1>14, <1>15, <1>16, <1>19, <1>20

(* The loop goes on with the last instance on the stack. *)
LEMMA NextParentNumbered ==
  ASSUME Numbered, NextParent
  PROVE  Numbered'
<1>1. /\ EndChildren /\ pending # <<>> /\ phase' = phase
      /\ parent' = pending[Len(pending)] /\ first' = Len(insts) + 1
      /\ pending' = Front(pending)
  BY DEF NextParent, BeginChildren, Last
<1>2. /\ phase = "children"
      /\ NumberingTypes' /\ Climbs' /\ TermsFound' /\ LeavesFound'
      /\ Len(insts') = Len(insts) /\ Ids' = Ids
      /\ \A i \in Ids : insts'[i].parent = insts[i].parent /\ insts'[i].snl = insts[i].snl
      /\ \A i \in Ids : i = parent \/ ChildrenOf(i) => ChildrenOf(i)'
      /\ \A c \in Ids : c # 1 =>
           c = insts'[insts[c].parent].children[1] + insts[c].snl - 1
  BY <1>1, EndChildrenFacts
<1>3. ChildrenFound /\ ParentsFound /\ PendingOK
  BY <1>2 DEF Numbered
<1>4. /\ pending \in Seq(Nat) /\ Len(pending) \in Nat \ {0}
      /\ pending' \in Seq(Nat) /\ Len(pending') = Len(pending) - 1
      /\ \A x \in 1 .. Len(pending') : x \in 1 .. Len(pending) /\ x # Len(pending) /\ pending'[x] = pending[x]
  <2>1. pending \in Seq(Nat) /\ Len(pending) \in Nat \ {0}
    BY <1>1, <1>3 DEF PendingOK
  <2>2. /\ pending' \in Seq(Nat) /\ Len(pending') = Len(pending) - 1
        /\ \A x \in 1 .. Len(pending) - 1 : pending'[x] = pending[x]
    BY <2>1, <1>1, FrontLast
  <2>3. PICK n \in Nat \ {0} : n = Len(pending)
    BY <2>1
  <2>4. \A x \in 1 .. n - 1 : x \in 1 .. n /\ x # n
    BY <2>3
  <2> QED
    BY <2>1, <2>2, <2>3, <2>4
<1>5. PendingOK'
  <2>1. /\ \A x \in 1 .. Len(pending) : pending[x] \in Ids \ {1}
        /\ \A x, y \in 1 .. Len(pending) : pending[x] = pending[y] => x = y
    BY <1>3 DEF PendingOK
  <2>2. /\ \A x \in 1 .. Len(pending') : pending'[x] \in Ids' \ {1}
        /\ \A x, y \in 1 .. Len(pending') : pending'[x] = pending'[y] => x = y
    <3>1. ASSUME NEW x \in 1 .. Len(pending')
          PROVE  pending'[x] \in Ids' \ {1}
      <4>1. x \in 1 .. Len(pending) /\ pending'[x] = pending[x]
        BY <1>4
      <4> QED
        BY <4>1, <2>1, <1>2
    <3>2. ASSUME NEW x \in 1 .. Len(pending'), NEW y \in 1 .. Len(pending'), pending'[x] = pending'[y]
          PROVE  x = y
      <4>1. x \in 1 .. Len(pending) /\ pending'[x] = pending[x]
        BY <1>4
      <4>2. y \in 1 .. Len(pending) /\ pending'[y] = pending[y]
        BY <1>4
      <4> QED
        BY <4>1, <4>2, <3>2, <2>1
    <3> QED
      BY <3>1, <3>2
  <2> QED
    BY <1>1, <1>2, <1>4, <2>2 DEF PendingOK
<1>6. Len(pending) \in 1 .. Len(pending) /\ \A x \in 1 .. Len(pending) : x \in 1 .. Len(pending') \/ x = Len(pending)
  BY <1>4, SMTT(30)
<1>7. parent' \in Ids /\ \A x \in 1 .. Len(pending') : pending'[x] # parent'
  BY <1>1, <1>3, <1>4, <1>6 DEF PendingOK
<1>8. ChildrenFound'
  <2> SUFFICES ASSUME NEW i \in Ids, Expanded(i)'
               PROVE  ChildrenOf(i)'
    BY <1>2 DEF ChildrenFound
  <2>1. i # parent' /\ \A x \in 1 .. Len(pending') : pending'[x] # i
    BY <1>1, <1>2 DEF Expanded, Unfolding
  <2>2. \A x \in 1 .. Len(pending) : pending[x] # i
    BY <2>1, <1>1, <1>4, <1>6
  <2>3. i # parent => ChildrenOf(i)
    BY <2>2, <1>3 DEF ChildrenFound, Expanded, Unfolding
  <2> QED
    BY <2>3, <1>2
<1>9. ParentsFound'
  <2> SUFFICES ASSUME NEW c \in Ids, c # 1
               PROVE  /\ \A x \in 1 .. Len(pending') : pending'[x] # insts'[c].parent
                      /\ insts'[c].parent # parent'
                      /\ c = insts'[insts'[c].parent].children[1] + insts'[c].snl - 1
    BY <1>1, <1>2 DEF ParentsFound, Unfolding, getChildInstance
  <2>1. insts'[c].parent = insts[c].parent /\ insts'[c].snl = insts[c].snl
    BY <1>2
  <2>2. \A x \in 1 .. Len(pending) : pending[x] # insts[c].parent
    BY <1>3 DEF ParentsFound
  <2>3. c = insts'[insts[c].parent].children[1] + insts[c].snl - 1
    BY <1>2
  <2>4. parent' # insts[c].parent /\ \A x \in 1 .. Len(pending') : pending'[x] # insts[c].parent
    BY <2>2, <1>1, <1>4, <1>6
  <2> QED
    BY <2>1, <2>3, <2>4
<1>10. UnfoldingOK'
  <2>0. insts' \in Seq(InstRecord) /\ parent' \in 1 .. Len(insts')
    BY <1>2, <1>7 DEF NumberingTypes, Ids
  <2>1. Len(insts') \in Nat /\ Len(InstancesOf[insts'[parent'].model]) \in Nat
    <3>0. insts'[parent'] \in InstRecord
      BY <2>0
    <3>1. insts'[parent'].model \in Design
      BY <3>0 DEF InstRecord
    <3> QED
      BY <2>0, <3>1, DNLAssumption
  <2>2. ModelOf(parent)' = insts'[parent'].model
    BY DEF ModelOf
  <2>3. 1 \in Ids
    BY <1>2 DEF Climbs
  <2> QED
    BY <1>1, <1>2, <1>7, <2>1, <2>2, <2>3 DEF UnfoldingOK, Position, Ids, ModelOf
<1> QED
  BY <1>1, <1>2, <1>5, <1>8, <1>9, <1>10 DEF Numbered

(* The numbers are complete. *)
LEMMA VisitTopNumbered ==
  ASSUME Numbered, VisitTop
  PROVE  Numbered'
<1>1. EndChildren /\ pending = <<>> /\ phase' = "dfs" /\ pending' = <<>>
  BY DEF VisitTop
<1>2. /\ phase = "children"
      /\ NumberingTypes' /\ Climbs' /\ TermsFound' /\ LeavesFound'
      /\ Ids' = Ids
      /\ \A i \in Ids : insts'[i].parent = insts[i].parent /\ insts'[i].snl = insts[i].snl
      /\ \A i \in Ids : i = parent \/ ChildrenOf(i) => ChildrenOf(i)'
      /\ \A c \in Ids : c # 1 =>
           c = insts'[insts[c].parent].children[1] + insts[c].snl - 1
  BY <1>1, EndChildrenFacts
<1>3. ChildrenFound
  BY <1>2 DEF Numbered
<1>4. \A i \in Ids : i # parent => ChildrenOf(i)
  BY <1>1, <1>3 DEF ChildrenFound, Expanded, Unfolding
<1>5. ChildrenFound'
  BY <1>2, <1>4 DEF ChildrenFound
<1>6. ParentsFound'
  BY <1>1, <1>2 DEF ParentsFound, Unfolding, getChildInstance
<1>7. PendingOK' /\ UnfoldingOK'
  BY <1>1 DEF PendingOK, UnfoldingOK
<1> QED
  BY <1>1, <1>2, <1>5, <1>6, <1>7 DEF Numbered

(* Later steps change no more than the intervals. *)
SameNumbers ==
  /\ phase \notin {"top", "children"} /\ phase' \notin {"top", "children"}
  /\ UNCHANGED <<terms, leaves, path, pending>>
  /\ insts' \in Seq(InstRecord) /\ Len(insts') = Len(insts)
  /\ \A i \in Ids : /\ insts'[i].model = insts[i].model
                    /\ insts'[i].parent = insts[i].parent
                    /\ insts'[i].snl = insts[i].snl
                    /\ insts'[i].terms = insts[i].terms
                    /\ insts'[i].children = insts[i].children

(* Steps that leave the numbers alone keep Numbered. *)
LEMMA NumberedStays ==
  ASSUME Numbered, SameNumbers
  PROVE  Numbered'
<1>1. /\ NumberingTypes /\ Climbs /\ TermsFound /\ LeavesFound /\ ChildrenFound /\ ParentsFound
      /\ PendingOK
  BY DEF Numbered, SameNumbers
<1>2. pending = <<>> /\ pending' = <<>> /\ Ids' = Ids /\ TermIds' = TermIds
  BY <1>1 DEF SameNumbers, PendingOK, Ids, TermIds
<1>3. /\ path' = path /\ terms' = terms /\ leaves' = leaves
      /\ phase \notin {"top", "children"} /\ phase' \notin {"top", "children"}
      /\ \A i \in Ids : /\ insts'[i].model = insts[i].model
                        /\ insts'[i].parent = insts[i].parent
                        /\ insts'[i].snl = insts[i].snl
                        /\ insts'[i].terms = insts[i].terms
                        /\ insts'[i].children = insts[i].children
  BY DEF SameNumbers
<1>4. \A i \in Ids : i # 1 => insts[i].parent \in Ids
  BY <1>1, ClimbsFacts DEF Climbs, Ids
<1>5. NumberingTypes'
  BY <1>1 DEF NumberingTypes, SameNumbers
<1>6. Climbs'
  <2>1. 1 \in Ids' /\ path'[1] = <<>>
    BY <1>1, <1>2, <1>3 DEF Climbs
  <2>2. ASSUME NEW i \in Ids
        PROVE  /\ insts'[i].model = DesignAt[path'[i]]
               /\ i # 1 =>
                    /\ insts'[i].parent \in 1 .. i - 1
                    /\ insts'[i].snl \in 1 .. Len(InstancesOf[insts'[insts'[i].parent].model])
                    /\ path'[i] = Append(path'[insts'[i].parent], insts'[i].snl)
    <3>1. /\ insts[i].model = DesignAt[path[i]]
          /\ i # 1 =>
               /\ insts[i].parent \in 1 .. i - 1 /\ insts[i].parent \in Ids
               /\ insts[i].snl \in 1 .. Len(InstancesOf[insts[insts[i].parent].model])
               /\ path[i] = Append(path[insts[i].parent], insts[i].snl)
      BY <1>1, <1>4 DEF Climbs, ModelOf
    <3> QED
      BY <1>3, <3>1
  <2> QED
    BY <2>1, <2>2, <1>2 DEF Climbs, ModelOf
<1>7. TermsFound'
  <2>1. \A i \in Ids : ModelOf(i)' = ModelOf(i) /\ insts'[i].terms[1] = insts[i].terms[1]
    BY <1>3 DEF ModelOf
  <2> QED
    BY <1>1, <1>2, <1>3, <2>1 DEF TermsFound, getTerminal
<1>8. LeavesFound'
  BY <1>1, <1>2, <1>3 DEF LeavesFound, ModelOf
<1>9. ChildrenFound'
  <2> SUFFICES ASSUME NEW i \in Ids PROVE ChildrenOf(i)'
    BY <1>2 DEF ChildrenFound
  <2>1. ChildrenOf(i)
    BY <1>1, <1>2, <1>3 DEF ChildrenFound, Expanded, Unfolding
  <2>2. \A j \in 1 .. Len(InstancesOf[insts[i].model]) :
          LET c == insts[i].children[1] + j - 1
          IN  c \in Ids \ {1} /\ insts'[c].parent = i /\ insts'[c].snl = j
    BY <1>3, <2>1 DEF ChildrenOf, ModelOf, getChildInstance
  <2>3. insts'[i].model = insts[i].model /\ insts'[i].children = insts[i].children
    BY <1>3
  <2> QED
    BY <2>1, <2>2, <2>3, <1>2 DEF ChildrenOf, ModelOf, getChildInstance
<1>10. ParentsFound'
  <2> SUFFICES ASSUME NEW c \in Ids, c # 1
               PROVE  c = insts'[insts'[c].parent].children[1] + insts'[c].snl - 1
    BY <1>2, <1>3 DEF ParentsFound, Unfolding, getChildInstance
  <2>1. c = insts[insts[c].parent].children[1] + insts[c].snl - 1
    BY <1>1, <1>3 DEF ParentsFound, Unfolding, getChildInstance
  <2>2. insts'[insts[c].parent].children = insts[insts[c].parent].children
    BY <1>3, <1>4
  <2>3. insts'[c].parent = insts[c].parent /\ insts'[c].snl = insts[c].snl
    BY <1>3
  <2> QED
    BY <2>1, <2>2, <2>3
<1>11. PendingOK' /\ UnfoldingOK'
  BY <1>2, <1>3 DEF PendingOK, UnfoldingOK
<1> QED
  BY <1>3, <1>5, <1>6, <1>7, <1>8, <1>9, <1>10, <1>11 DEF Numbered

(* What the numbering guarantees once it is complete. *)
Done ==
  /\ Len(insts) \in Nat /\ 1 \in Ids /\ None = 0
  /\ \A i \in Ids : i \in Nat /\ i >= 1 /\ insts[i] \in InstRecord
  /\ \A i \in Ids : path[i] \in Paths /\ path[i] \in Seq(Nat)
  /\ \A i \in Ids : ModelOf(i) \in Design /\ ModelOf(i) = DesignAt[path[i]]
  /\ \A i \in Ids : InstancesOf[ModelOf(i)] \in Seq(Design)
  /\ \A i \in Ids : ChildrenOf(i)
  /\ path[1] = <<>>
  /\ \A c \in Ids : c # 1 =>
       /\ insts[c].parent \in Ids /\ insts[c].parent < c
       /\ insts[c].snl \in 1 .. Len(InstancesOf[ModelOf(insts[c].parent)])
       /\ c = getChildInstance(insts[c].parent, insts[c].snl)
       /\ path[c] = Append(path[insts[c].parent], insts[c].snl)

(* Numbered gives what Done lists. *)
LEMMA NumberingDone ==
  ASSUME Numbered, phase \notin {"top", "children"}
  PROVE  Done
<1>1. /\ NumberingTypes /\ Climbs /\ ChildrenFound /\ ParentsFound /\ PendingOK
      /\ pending = <<>>
  BY DEF Numbered, PendingOK
<1>2. /\ Len(insts) \in Nat
      /\ \A i \in Ids : i \in Nat /\ insts[i] \in InstRecord /\ path[i] \in Paths
      /\ \A i \in Ids : ModelOf(i) \in Design
  BY <1>1, ClimbsFacts
<1>3. \A i \in Ids : i >= 1 /\ path[i] \in Seq(Nat)
  BY <1>2, HierarchyAssumption DEF Ids
<1>4. \A i \in Ids : InstancesOf[ModelOf(i)] \in Seq(Design)
  BY <1>2, DNLAssumption
<1>5. \A i \in Ids : ChildrenOf(i)
  BY <1>1 DEF ChildrenFound, Expanded, Unfolding
<1>6. ASSUME NEW c \in Ids, c # 1
      PROVE  /\ insts[c].parent \in Ids /\ insts[c].parent < c
             /\ insts[c].snl \in 1 .. Len(InstancesOf[ModelOf(insts[c].parent)])
             /\ c = getChildInstance(insts[c].parent, insts[c].snl)
             /\ path[c] = Append(path[insts[c].parent], insts[c].snl)
  <2>1. insts[c].parent \in 1 .. c - 1 /\ c \in Nat /\ c <= Len(insts)
    BY <1>1, <1>2, <1>6 DEF Climbs, Ids
  <2>2. insts[c].parent \in Ids /\ insts[c].parent < c
    BY <2>1, <1>2 DEF Ids
  <2>3. c = getChildInstance(insts[c].parent, insts[c].snl)
    BY <1>1, <1>6 DEF ParentsFound, Unfolding
  <2> QED
    BY <2>2, <2>3, <1>1, <1>6 DEF Climbs
<1>7. 1 \in Ids /\ path[1] = <<>> /\ \A i \in Ids : ModelOf(i) = DesignAt[path[i]]
  BY <1>1 DEF Climbs
<1>8. None = 0
  BY DNLAssumption
<1> QED
  BY <1>2, <1>3, <1>4, <1>5, <1>6, <1>7, <1>8 DEF Done

(* The same of the state after a step. *)
LEMMA NumberingDoneNext == (Numbered /\ phase \notin {"top", "children"} => Done)'
<1>1. Numbered /\ phase \notin {"top", "children"} => Done
  BY NumberingDone
<1> QED
  BY <1>1, PTL

(* No two instances have the same path. *)
LEMMA PathInjective ==
  ASSUME Numbered, phase \notin {"top", "children"}
  PROVE  \A i, j \in Ids : path[i] = path[j] => i = j
<1> DEFINE S == {i \in Ids : \E j \in Ids : path[i] = path[j] /\ j # i}
<1>0. /\ 1 \in Ids /\ path[1] = <<>>
      /\ \A i \in Ids : i \in Nat /\ path[i] \in Seq(Nat)
      /\ \A c \in Ids : c # 1 =>
              /\ insts[c].parent \in Ids /\ insts[c].parent < c
              /\ insts[c].snl \in 1 .. Len(InstancesOf[ModelOf(insts[c].parent)])
              /\ c = getChildInstance(insts[c].parent, insts[c].snl)
              /\ path[c] = Append(path[insts[c].parent], insts[c].snl)
  BY NumberingDone DEF Done
<1>1. SUFFICES S = {}
  OBVIOUS
<1>2. SUFFICES ASSUME S # {} PROVE FALSE
  OBVIOUS
<1>3. S \in SUBSET Nat
  BY <1>0
<1>4. PICK i \in S : \A m \in S : i <= m
  <2> HIDE DEF S
  <2> QED
    BY <1>2, <1>3, LeastNat
<1>5. PICK j \in Ids : path[i] = path[j] /\ j # i
  OBVIOUS
<1>6. ASSUME NEW c \in Ids, c # 1
      PROVE  path[c] # <<>> /\ insts[c].snl \in Nat
  <2>1. insts[c].snl \in Nat
    BY <1>0, <1>6
  <2> QED
    BY <2>1, <1>0, <1>6, AppendProperties, SMTT(30)
<1>7. i # 1 /\ j # 1
  BY <1>0, <1>5, <1>6
<1>8. path[insts[i].parent] = path[insts[j].parent] /\ insts[i].snl = insts[j].snl
  <2>1. PICK a, b \in Seq(Nat) : a = path[insts[i].parent] /\ b = path[insts[j].parent]
    BY <1>0, <1>7
  <2>2. PICK m, n \in Nat : m = insts[i].snl /\ n = insts[j].snl
    BY <1>5, <1>6, <1>7
  <2>3. Append(a, m) = Append(b, n)
    BY <1>0, <1>5, <1>7, <2>1, <2>2
  <2>4. a = b /\ m = n
    <3>1. PICK c \in Seq(Nat) : c = Append(a, m) /\ c = Append(b, n)
      BY <2>3, AppendProperties
    <3>2. /\ Len(c) = Len(a) + 1 /\ c[Len(a) + 1] = m
          /\ \A x \in 1 .. Len(a) : c[x] = a[x]
      <4>1. c = Append(a, m)
        BY <3>1
      <4> QED
        BY <4>1, AppendProperties
    <3>3. /\ Len(c) = Len(b) + 1 /\ c[Len(b) + 1] = n
          /\ \A x \in 1 .. Len(b) : c[x] = b[x]
      BY <3>1, AppendProperties
    <3>4. Len(a) \in Nat /\ Len(b) \in Nat
      OBVIOUS
    <3>5. Len(a) = Len(b)
      BY <3>2, <3>3, <3>4
    <3>6. \A x \in 1 .. Len(a) : a[x] = b[x]
      BY <3>2, <3>3, <3>5
    <3> QED
      BY <3>2, <3>3, <3>5, <3>6, SeqEqual
  <2> QED
    BY <2>1, <2>2, <2>3, <2>4
<1>9. insts[i].parent # insts[j].parent
  BY <1>0, <1>5, <1>7, <1>8
<1>10. insts[i].parent \in S
  BY <1>0, <1>7, <1>8, <1>9
<1>11. insts[i].parent < i /\ i \in Nat /\ insts[i].parent \in Nat
  BY <1>0, <1>7
<1>12. i <= insts[i].parent
  BY <1>4, <1>10
<1> QED
  BY <1>11, <1>12

(* Every path is the path of an instance. *)
LEMMA PathsCovered ==
  ASSUME Numbered, phase \notin {"top", "children"}, NEW p \in Paths
  PROVE  \E i \in Ids : path[i] = p
<1> DEFINE Miss(q) == \A i \in Ids : path[i] # q
           S == {n \in Nat : \E q \in Paths : Len(q) = n /\ Miss(q)}
<1>1. \A q \in Paths : q \in Seq(Nat) /\ Len(q) \in Nat
  BY HierarchyAssumption
<1>2. SUFFICES ASSUME S # {} PROVE FALSE
  BY <1>1
<1>3. PICK n \in S : \A m \in S : n <= m
  <2>1. S \in SUBSET Nat
    OBVIOUS
  <2> HIDE DEF S
  <2> QED
    BY <1>2, <2>1, LeastNat
<1>4. PICK q \in Paths : Len(q) = n /\ Miss(q)
  OBVIOUS
<1>5. q # <<>>
  BY <1>4, NumberingDone DEF Done
<1>6. Front(q) \in Paths /\ Last(q) \in 1 .. Len(InstancesOf[DesignAt[Front(q)]])
  BY <1>5, HierarchyAssumption
<1>7. /\ Len(q) \in Nat \ {0} /\ Front(q) \in Seq(Nat) /\ Len(Front(q)) = Len(q) - 1
      /\ \A x \in 1 .. Len(q) - 1 : Front(q)[x] = q[x]
      /\ Last(q) = q[Len(q)] /\ Last(q) \in Nat
  BY <1>1, <1>5, FrontLast
<1>8. Append(Front(q), Last(q)) = q
  <2> DEFINE a == Append(Front(q), Last(q))
  <2>1. /\ a \in Seq(Nat) /\ Len(a) = Len(Front(q)) + 1
        /\ \A x \in 1 .. Len(Front(q)) : a[x] = Front(q)[x]
        /\ a[Len(Front(q)) + 1] = Last(q)
    BY <1>7, AppendProperties
  <2> HIDE DEF a
  <2>2. Len(a) = Len(q)
    BY <2>1, <1>7
  <2>3. ASSUME NEW x \in 1 .. Len(a) PROVE a[x] = q[x]
    <3>1. CASE x \in 1 .. Len(q) - 1
      BY <3>1, <2>1, <1>7
    <3>2. CASE x = Len(q)
      <4>1. Len(Front(q)) + 1 = x
        BY <3>2, <1>7
      <4> QED
        BY <4>1, <3>2, <2>1, <1>7
    <3> QED
      BY <3>1, <3>2, <2>2, <1>7
  <2> QED
    BY <2>1, <2>2, <2>3, <1>1, SeqEqual DEF a
<1>9. PICK i \in Ids : path[i] = Front(q)
  <2>1. Len(q) - 1 \notin S
    BY <1>3, <1>4, <1>7
  <2> QED
    BY <2>1, <1>6, <1>7, SMTT(30)
<1>10. PICK j \in 1 .. Len(InstancesOf[ModelOf(i)]) : j = Last(q)
  BY <1>6, <1>9, NumberingDone DEF Done
<1>11. PICK c \in Ids : c # 1 /\ insts[c].parent = i /\ insts[c].snl = j
  BY NumberingDone DEF Done, ChildrenOf
<1>12. path[c] = q
  BY <1>8, <1>9, <1>10, <1>11, NumberingDone DEF Done
<1> QED
  BY <1>4, <1>12

(* There are as many instances as paths. *)
LEMMA InstancesCounted ==
  ASSUME Numbered, phase \notin {"top", "children"}
  PROVE  Range(path) = Paths /\ Len(insts) = Cardinality(Paths)
<1>1. Len(insts) \in Nat /\ path \in Seq(Paths) /\ Len(path) = Len(insts)
  BY NumberingDone DEF Done, Numbered, NumberingTypes
<1>2. path \in [Ids -> Paths]
  BY <1>1 DEF Ids
<1>3. path \in Bijection(Ids, Paths)
  BY <1>2, PathInjective, PathsCovered DEF Bijection, Injection, Surjection, IsInjective
<1>4. IsFiniteSet(Ids) /\ Cardinality(Ids) = Len(insts)
  <2>1. PICK n \in Nat : n = Len(insts)
    BY <1>1
  <2>2. IsFiniteSet(1 .. n) /\ Cardinality(1 .. n) = n
    <3>1. /\ IsFiniteSet(1 .. n)
          /\ Cardinality(1 .. n) = IF 1 > n THEN 0 ELSE n - 1 + 1
      BY FS_Interval
    <3> QED
      BY <3>1
  <2> QED
    BY <2>1, <2>2 DEF Ids
<1>5. Cardinality(Ids) = Cardinality(Paths)
  <2>1. ExistsBijection(Ids, Paths)
    BY <1>3 DEF ExistsBijection
  <2> QED
    BY <1>4, <2>1, FS_Bijection
<1>6. Range(path) = Paths
  BY <1>2, PathsCovered DEF Range
<1> QED
  BY <1>4, <1>5, <1>6

(* What a prefix is. *)
LEMMA PrefixIff ==
  ASSUME NEW s \in Seq(Nat), NEW t \in Seq(Nat)
  PROVE  IsPrefix(s, t) <=> Len(s) <= Len(t) /\ \A x \in 1 .. Len(s) : s[x] = t[x]
<1>1. Len(s) \in Nat /\ Len(t) \in Nat
  OBVIOUS
<1>2. SubSeq(s, 1, Len(s)) = s
  BY SubSeqFull
<1>3. ASSUME Len(s) <= Len(t)
      PROVE  SubSeq(t, 1, Len(s)) = s <=> \A x \in 1 .. Len(s) : s[x] = t[x]
  <2> DEFINE u == SubSeq(t, 1, Len(s))
  <2>1. \A x \in 1 .. Len(s) : t[x] \in Nat
    BY <1>1, <1>3
  <2>2. /\ u \in Seq(Nat)
        /\ Len(u) = IF 1 <= Len(s) THEN Len(s) - 1 + 1 ELSE 0
        /\ \A x \in 1 .. Len(s) - 1 + 1 : u[x] = t[1 + x - 1]
    BY <1>1, <2>1, SubSeqProperties
  <2>3. Len(u) = Len(s)
    BY <1>1, <2>2
  <2>4. \A x \in 1 .. Len(s) : u[x] = t[x]
    <3> TAKE x \in 1 .. Len(s)
    <3>1. x \in 1 .. Len(s) - 1 + 1 /\ 1 + x - 1 = x
      BY <1>1
    <3> QED
      BY <2>2, <3>1
  <2> HIDE DEF u
  <2>5. (\A x \in 1 .. Len(s) : s[x] = t[x]) => u = s
    BY <2>2, <2>3, <2>4, SeqEqual
  <2> QED
    BY <2>4, <2>5 DEF u
<1> QED
  BY <1>2, <1>3 DEF IsPrefix

(* The instances under an instance: itself and those whose parent is. *)
LEMMA UnderStep ==
  ASSUME Numbered, phase \notin {"top", "children"}
  PROVE  /\ \A i \in Ids : Under(i, i) /\ Under(i, 1)
         /\ \A p \in Ids : Under(1, p) => p = 1
         /\ \A i, p \in Ids : i # 1 => (Under(i, p) <=> i = p \/ Under(insts[i].parent, p))
<1>0. /\ 1 \in Ids /\ path[1] = <<>>
      /\ \A i \in Ids : i \in Nat /\ path[i] \in Seq(Nat) /\ Len(path[i]) \in Nat
      /\ \A c \in Ids : c # 1 =>
              /\ insts[c].parent \in Ids
              /\ insts[c].snl \in Nat
              /\ path[c] = Append(path[insts[c].parent], insts[c].snl)
  BY NumberingDone DEF Done
<1>1. \A i, p \in Ids : Under(i, p) <=> /\ Len(path[p]) <= Len(path[i])
                                        /\ \A x \in 1 .. Len(path[p]) : path[p][x] = path[i][x]
  BY <1>0, PrefixIff DEF Under
<1>2. ASSUME NEW i \in Ids PROVE Under(i, i) /\ Under(i, 1)
  BY <1>0, <1>1
<1>3. ASSUME NEW p \in Ids, Under(1, p) PROVE p = 1
  <2>1. Len(path[p]) = 0
    BY <1>0, <1>1, <1>3
  <2>2. path[p] = path[1]
    BY <1>0, <2>1
  <2> QED
    BY <1>0, <2>2, PathInjective
<1>4. ASSUME NEW i \in Ids, NEW p \in Ids, i # 1
      PROVE  Under(i, p) <=> i = p \/ Under(insts[i].parent, p)
  <2>1. PICK q \in Ids : q = insts[i].parent /\ insts[i].snl \in Nat /\ path[i] = Append(path[q], insts[i].snl)
    BY <1>0, <1>4
  <2>2. /\ Len(path[i]) = Len(path[q]) + 1
        /\ \A x \in 1 .. Len(path[q]) : path[i][x] = path[q][x]
    BY <1>0, <2>1, AppendProperties
  <2>3. ASSUME Under(q, p) PROVE Under(i, p)
    <3>1. Len(path[p]) <= Len(path[q]) /\ \A x \in 1 .. Len(path[p]) : path[p][x] = path[q][x]
      BY <1>1, <2>3
    <3>2. \A x \in 1 .. Len(path[p]) : x \in 1 .. Len(path[q])
      BY <1>0, <3>1
    <3>3. Len(path[p]) <= Len(path[i]) /\ \A x \in 1 .. Len(path[p]) : path[p][x] = path[i][x]
      BY <1>0, <2>2, <3>1, <3>2
    <3> QED
      BY <1>1, <3>3
  <2>4. ASSUME Under(i, p), i # p PROVE Under(q, p)
    <3>1. Len(path[p]) <= Len(path[i]) /\ \A x \in 1 .. Len(path[p]) : path[p][x] = path[i][x]
      BY <1>1, <2>4
    <3>2. Len(path[p]) # Len(path[i])
      <4>1. Len(path[p]) = Len(path[i]) => path[p] = path[i]
        BY <1>0, <3>1, SeqEqual
      <4> QED
        BY <2>4, <4>1, PathInjective
    <3>3. Len(path[p]) <= Len(path[q])
      BY <1>0, <2>2, <3>1, <3>2
    <3>4. \A x \in 1 .. Len(path[p]) : x \in 1 .. Len(path[q])
      BY <1>0, <3>3
    <3>5. \A x \in 1 .. Len(path[p]) : path[p][x] = path[q][x]
      BY <2>2, <3>1, <3>4
    <3> QED
      BY <1>1, <3>3, <3>5
  <2> QED
    BY <1>2, <2>1, <2>3, <2>4
<1> QED
  BY <1>2, <1>3, <1>4

-----------------------------------------------------------------------------
(* The depth-first search.                                                 *)

(* All that is under a finished instance is finished. *)
LEMMA TreeDown ==
  ASSUME Numbered, phase \notin {"top", "children"}, DownClosed,
         NEW p \in Ids, NEW i \in Ids, Finished(p), Under(i, p)
  PROVE  Finished(i)
<1> DEFINE S == {c \in Ids : Under(c, p) /\ ~Finished(c)}
<1>1. SUFFICES ASSUME S # {} PROVE FALSE
  OBVIOUS
<1>2. S \in SUBSET Nat
  BY NumberingDone DEF Done
<1>3. PICK c \in S : \A m \in S : c <= m
  <2> HIDE DEF S
  <2> QED
    BY <1>1, <1>2, LeastNat
<1>4. c # 1 /\ c # p
  BY UnderStep
<1>5. PICK q \in Ids : q = insts[c].parent /\ q < c /\ q \in Nat /\ c \in Nat
  BY <1>4, NumberingDone DEF Done
<1>6. Under(q, p)
  BY <1>4, <1>5, UnderStep
<1>7. ~Finished(q)
  BY <1>4, <1>5 DEF DownClosed
<1> QED
  BY <1>3, <1>5, <1>6, <1>7

(* What an entered instance is under was entered. *)
LEMMA TreeUp ==
  ASSUME Numbered, phase \notin {"top", "children"}, UpClosed,
         NEW p \in Ids, NEW i \in Ids, Entered(i), Under(i, p)
  PROVE  Entered(p)
<1> DEFINE S == {c \in Ids : Under(c, p) /\ Entered(c)}
<1>0. SUFFICES ASSUME ~Entered(p) PROVE FALSE
  OBVIOUS
<1>1. S # {}
  OBVIOUS
<1>2. S \in SUBSET Nat
  BY NumberingDone DEF Done
<1>3. PICK c \in S : \A m \in S : c <= m
  <2> HIDE DEF S
  <2> QED
    BY <1>1, <1>2, LeastNat
<1>4. c # p
  BY <1>0
<1>4a. c # 1
  BY <1>4, UnderStep
<1>5. PICK q \in Ids : q = insts[c].parent /\ q < c /\ q \in Nat /\ c \in Nat
  BY <1>4a, NumberingDone DEF Done
<1>6. Under(q, p)
  BY <1>4, <1>4a, <1>5, UnderStep
<1>7. Entered(q)
  BY <1>4a, <1>5 DEF UpClosed
<1> QED
  BY <1>3, <1>5, <1>6, <1>7

(* The calls on the stack are nested. *)
LEMMA StackUnder ==
  ASSUME Numbered, phase \notin {"top", "children"}, CallTypes, StackOK,
         NEW k \in 1 .. Len(calls), NEW l \in 1 .. Len(calls), k <= l
  PROVE  Under(calls[l].id, calls[k].id)
<1> DEFINE S == {m \in k .. Len(calls) : ~Under(calls[m].id, calls[k].id)}
<1>0. Len(calls) \in Nat
  BY DEF CallTypes
<1>1. SUFFICES ASSUME S # {} PROVE FALSE
  BY <1>0
<1>2. S \in SUBSET Nat
  BY <1>0
<1>3. PICK m \in S : \A n \in S : m <= n
  <2> HIDE DEF S
  <2> QED
    BY <1>1, <1>2, LeastNat
<1>4. calls[k].id \in Ids /\ calls[m].id \in Ids
  BY <1>0 DEF StackOK
<1>5. m # k
  BY <1>4, UnderStep
<1>6. m - 1 \in k .. Len(calls) /\ m - 1 \in 1 .. Len(calls) /\ m # 1 /\ m \in 1 .. Len(calls)
  BY <1>0, <1>5
<1>7. calls[m].id # 1 /\ insts[calls[m].id].parent = calls[m - 1].id
  BY <1>6 DEF StackOK
<1>8. Under(calls[m - 1].id, calls[k].id)
  BY <1>3, <1>6
<1>9. Under(calls[m].id, calls[k].id)
  BY <1>4, <1>7, <1>8, UnderStep
<1> QED
  BY <1>9

(* The types of the calls. *)
LEMMA CallFacts ==
  ASSUME CallTypes
  PROVE  /\ Len(calls) \in Nat /\ next \in Nat
         /\ \A k \in 1 .. Len(calls) :
              calls[k].id \in Nat /\ calls[k].dfsIn \in Nat /\ calls[k].child \in Nat
<1>1. calls \in Seq([id : Nat, dfsIn : Nat, child : Nat]) /\ next \in Nat
  BY DEF CallTypes
<1>2. \A k \in 1 .. Len(calls) : calls[k] \in [id : Nat, dfsIn : Nat, child : Nat]
  BY <1>1, ElementOfSeq
<1> QED
  BY <1>1, <1>2

(* The search begins at the top. *)
LEMMA VisitTopSearched ==
  ASSUME Numbered, Searched, VisitTop
  PROVE  Searched'
<1>1. EndChildren /\ Call(calls, 1) /\ phase' = "dfs" /\ path' = path
  BY DEF VisitTop, EndChildren
<1>2. Done'
  BY <1>1, VisitTopNumbered, NumberingDoneNext
<1>3. phase = "children" /\ Ids' = Ids /\ \A i \in Ids : insts'[i].dfs = insts[i].dfs
  BY <1>1, EndChildrenFacts
<1>4. calls = <<>> /\ next = 0 /\ \A i \in Ids : ~Finished(i)
  BY <1>3 DEF Searched, CallTypes
<1>5. insts'[1] \in InstRecord /\ 1 \in Ids
  BY <1>2, <1>3 DEF Done
<1>6. PICK ch \in Nat : ch = insts'[1].children[1]
  BY <1>5 DEF InstRecord
<1>7. calls' = <<[id |-> 1, dfsIn |-> 0, child |-> ch]>> /\ next' = 1
  BY <1>1, <1>4, <1>6 DEF Call
<1>8. /\ calls' \in Seq([id : Nat, dfsIn : Nat, child : Nat]) /\ Len(calls') = 1
      /\ calls'[1].id = 1 /\ calls'[1].dfsIn = 0 /\ calls'[1].child = ch
      /\ \A k \in 1 .. Len(calls') : k = 1
  BY <1>7
<1>9. \A i \in Ids : ~Finished(i)'
  BY <1>3, <1>4 DEF Finished
<1>10. \A i \in Ids : Entered(i)' <=> i = 1
  BY <1>8, <1>9 DEF Entered, OnStack
<1>11. \A i \in Ids, n \in Nat : EnteredAt(i, n)' <=> i = 1 /\ n = 0
  BY <1>8, <1>9 DEF EnteredAt
<1>12. CallTypes'
  BY <1>1, <1>7, <1>8 DEF CallTypes
<1>13. StackOK'
  <2>1. None = 0
    BY DNLAssumption
  <2> QED
    BY <1>3, <1>5, <1>6, <1>8, <1>9, <2>1 DEF StackOK
<1>14. ASSUME NEW c \in Ids, c # 1, insts'[c].parent = 1
       PROVE  c >= ch
  <2>1. c = insts'[1].children[1] + insts'[c].snl - 1 /\ insts'[c].snl \in 1 .. Len(InstancesOf[insts'[1].model])
        /\ InstancesOf[insts'[1].model] \in Seq(Design)
    BY <1>2, <1>3, <1>5, <1>14 DEF Done, getChildInstance, ModelOf
  <2>2. insts'[c].snl \in Nat /\ insts'[c].snl >= 1
    BY <2>1
  <2> QED
    BY <2>1, <2>2, <1>6
<1>15. ChildrenVisited'
  <2> SUFFICES ASSUME NEW k \in 1 .. Len(calls'), NEW c \in Ids, c # 1, insts'[c].parent = calls'[k].id
               PROVE  /\ c < calls'[k].child => Finished(c)' \/ (k < Len(calls') /\ calls'[k + 1].id = c)
                      /\ c >= calls'[k].child => ~Entered(c)'
    BY <1>3 DEF ChildrenVisited
  <2>1. k = 1 /\ c >= ch /\ c \in Nat
    BY <1>2, <1>3, <1>8, <1>14 DEF Done
  <2> QED
    BY <2>1, <1>6, <1>8, <1>10
<1>16. DownClosed' /\ UpClosed'
  <2>1. \A c \in Ids : c # 1 => insts'[c].parent \in Ids
    BY <1>2, <1>3 DEF Done
  <2> QED
    BY <1>3, <1>9, <1>10, <2>1 DEF DownClosed, UpClosed
<1>17. BeforeNext' /\ FinishedIntervals'
  BY <1>3, <1>7, <1>9, <1>11 DEF BeforeNext, FinishedIntervals
<1>18. OpenIntervals'
  <2>1. path'[1] \in Seq(Nat) /\ Len(path'[1]) \in Nat
    BY <1>2 DEF Done
  <2>3. IsPrefix(path'[1], path'[1])
    BY <2>1, PrefixIff
  <2> QED
    BY <1>1, <1>3, <1>5, <1>8, <1>11, <2>3 DEF OpenIntervals, Under
<1> QED
  BY <1>1, <1>3, <1>5, <1>10, <1>12, <1>13, <1>15, <1>16, <1>17, <1>18 DEF Searched

(* The types of the counters of an instance. *)
LEMMA DfsFacts ==
  ASSUME Numbered, phase \notin {"top", "children"}
  PROVE  \A i \in Ids : insts[i].dfs[1] \in Nat /\ insts[i].dfs[2] \in Nat
                        /\ insts[i].children[1] \in Nat /\ insts[i].children[2] \in Nat
<1>1. \A i \in Ids : insts[i] \in InstRecord
  BY NumberingDone DEF Done
<1>2. \A i \in Ids : insts[i].dfs \in Nat \X Nat /\ insts[i].children \in Nat \X Nat
  BY <1>1 DEF InstRecord
<1> QED
  BY <1>2

(* The children of an instance lie in its range. *)
LEMMA ChildrenInRange ==
  ASSUME Numbered, phase \notin {"top", "children"}, NEW p \in Ids
  PROVE  /\ \A c \in Ids : c # 1 /\ insts[c].parent = p =>
              /\ insts[p].children[1] # None
              /\ insts[p].children[1] <= c /\ c <= insts[p].children[2]
         /\ insts[p].children[1] # None =>
              \A c \in insts[p].children[1] .. insts[p].children[2] :
                c \in Ids /\ c # 1 /\ insts[c].parent = p
<1> DEFINE s == InstancesOf[ModelOf(p)]
           a == insts[p].children[1]
           b == insts[p].children[2]
<1>1. s \in Seq(Design) /\ Len(s) \in Nat /\ (s # <<>> => Len(s) > 0)
  BY NumberingDone DEF Done
<1>2. a \in Nat /\ b \in Nat /\ None = 0
  BY DfsFacts, DNLAssumption
<1>3. /\ s = <<>> => a = None
      /\ s # <<>> => a # None /\ b = a + Len(s) - 1
      /\ \A j \in 1 .. Len(s) : LET c == a + j - 1
                                IN  c \in Ids \ {1} /\ insts[c].parent = p
  BY NumberingDone DEF Done, ChildrenOf, getChildInstance
<1>4. ASSUME NEW c \in Ids, c # 1, insts[c].parent = p
      PROVE  \E j \in 1 .. Len(s) : c = a + j - 1
  BY <1>4, NumberingDone DEF Done, getChildInstance
<1> HIDE DEF s, a, b
<1>5. ASSUME NEW c \in Ids, c # 1, insts[c].parent = p
      PROVE  a # None /\ a <= c /\ c <= b
  <2>1. PICK j \in 1 .. Len(s) : c = a + j - 1
    BY <1>4, <1>5
  <2>2. s # <<>>
    BY <1>1, <2>1
  <2> QED
    BY <1>1, <1>2, <1>3, <2>1, <2>2
<1>6. ASSUME a # None, NEW c \in a .. b
      PROVE  c \in Ids /\ c # 1 /\ insts[c].parent = p
  <2>1. c - a + 1 \in 1 .. Len(s) /\ c = a + (c - a + 1) - 1
    BY <1>1, <1>2, <1>3, <1>6
  <2> QED
    BY <1>3, <2>1
<1> QED
  BY <1>5, <1>6 DEF a, b

(* The search goes down to the next child. *)
LEMMA VisitChildSearched ==
  ASSUME Numbered, Searched, VisitChild
  PROVE  Searched'
<1> DEFINE L == Len(calls)
           R == [id : Nat, dfsIn : Nat, child : Nat]
<1>1. /\ phase = "dfs" /\ calls # <<>> /\ MoreChildren(Last(calls))
      /\ insts' = insts /\ path' = path /\ phase' = phase
      /\ Call([calls EXCEPT ![L].child = @ + 1], Last(calls).child)
  BY DEF VisitChild, numbering
<1>2. /\ CallTypes /\ Entered(1) /\ StackOK /\ ChildrenVisited /\ DownClosed /\ UpClosed
      /\ BeforeNext /\ FinishedIntervals /\ OpenIntervals
  BY <1>1 DEF Searched
<1>3. phase \notin {"top", "children"} /\ None = 0
  BY <1>1, DNLAssumption
<1>4. /\ calls \in Seq(R) /\ L \in Nat /\ L # 0 /\ next \in Nat
      /\ \A k \in 1 .. L : calls[k] \in R /\ calls[k].id \in Nat /\ calls[k].dfsIn \in Nat /\ calls[k].child \in Nat
  <2>1. calls \in Seq(R)
    BY <1>2 DEF CallTypes
  <2>2. \A k \in 1 .. L : calls[k] \in R
    BY <2>1, ElementOfSeq
  <2> QED
    BY <2>1, <2>2, <1>1, <1>2, CallFacts
<1>5. L \in 1 .. L
  BY <1>4
<1>6. PICK c \in Nat : c = calls[L].child
  BY <1>4, <1>5
<1>7. PICK q \in Ids : q = calls[L].id
  BY <1>2, <1>5 DEF StackOK
<1>8. c # None /\ c <= insts[q].children[2] /\ insts[q].children[1] # None /\ insts[q].children[1] <= c
  BY <1>1, <1>2, <1>5, <1>6, <1>7 DEF MoreChildren, Last, StackOK
<1>9. c \in insts[q].children[1] .. insts[q].children[2]
  BY <1>3, <1>8, DfsFacts
<1>10. c \in Ids /\ c # 1 /\ insts[c].parent = q
  BY <1>3, <1>8, <1>9, ChildrenInRange
<1>11. ~Entered(c)
  BY <1>2, <1>5, <1>6, <1>7, <1>10 DEF ChildrenVisited
<1>12. PICK ch \in Nat : ch = insts[c].children[1]
  BY <1>3, <1>10, DfsFacts
<1>13. /\ calls' \in Seq(R) /\ Len(calls') = L + 1 /\ next' = next + 1
       /\ \A k \in 1 .. L : calls'[k].id = calls[k].id /\ calls'[k].dfsIn = calls[k].dfsIn
       /\ \A k \in 1 .. L : k # L => calls'[k].child = calls[k].child
       /\ calls'[L].child = c + 1
       /\ calls'[L + 1].id = c /\ calls'[L + 1].dfsIn = next /\ calls'[L + 1].child = ch
  <2> DEFINE g == [calls[L] EXCEPT !.child = c + 1]
             s == [calls EXCEPT ![L] = g]
             new == [id |-> c, dfsIn |-> next, child |-> ch]
  <2>1. [calls EXCEPT ![L].child = @ + 1] = s
    BY <1>4, <1>5, <1>6
  <2>2. calls' = Append(s, new) /\ next' = next + 1
    <3>1. Last(calls).child = c
      BY <1>6 DEF Last
    <3>2. calls' = Append([calls EXCEPT ![L].child = @ + 1],
                      [id |-> Last(calls).child, dfsIn |-> next, child |-> insts'[Last(calls).child].children[1]])
          /\ next' = next + 1
      BY <1>1 DEF Call
    <3> HIDE DEF s
    <3> QED
      BY <3>1, <3>2, <2>1, <1>1, <1>12
  <2>3. g \in R /\ g.id = calls[L].id /\ g.dfsIn = calls[L].dfsIn /\ g.child = c + 1
    <3>1. PICK f \in R : f = calls[L]
      BY <1>4, <1>5
    <3>2. c + 1 \in Nat
      OBVIOUS
    <3> QED
      BY <3>1, <3>2
  <2>4. new \in R /\ new.id = c /\ new.dfsIn = next /\ new.child = ch
    BY <1>4
  <2> HIDE DEF g, new
  <2>5. s \in Seq(R) /\ Len(s) = L /\ s[L] = g /\ \A k \in 1 .. L : k # L => s[k] = calls[k]
    <3>1. /\ s \in Seq(R) /\ Len(s) = L
          /\ \A k \in 1 .. L : s[k] = IF k = L THEN g ELSE calls[k]
      BY <1>4, <1>5, <2>3, ExceptSeq
    <3> QED
      BY <3>1, <1>5
  <2> HIDE DEF s
  <2>6. /\ Append(s, new) \in Seq(R) /\ Len(Append(s, new)) = L + 1
        /\ \A k \in 1 .. L : Append(s, new)[k] = s[k]
        /\ Append(s, new)[L + 1] = new
    BY <2>4, <2>5, AppendProperties
  <2>7. \A k \in 1 .. L : calls'[k].id = calls[k].id /\ calls'[k].dfsIn = calls[k].dfsIn
    BY <2>2, <2>3, <2>5, <2>6
  <2> QED
    BY <1>5, <2>2, <2>3, <2>4, <2>5, <2>6, <2>7
<1>14. L + 1 \in 1 .. Len(calls') /\ \A k \in 1 .. Len(calls') : k \in 1 .. L \/ k = L + 1
  BY <1>4, <1>13, SMTT(30)
<1>15. \A k \in 1 .. L : k \in 1 .. Len(calls')
  BY <1>4, <1>13
<1> HIDE DEF R
<1>16. Ids' = Ids /\ \A i \in Ids : Finished(i)' = Finished(i)
  BY <1>1 DEF Ids, Finished
<1>17. \A i \in Ids : Entered(i)' <=> Entered(i) \/ i = c
  <2> TAKE i \in Ids
  <2>1. OnStack(i)' <=> OnStack(i) \/ i = c
    BY <1>13, <1>14, <1>15 DEF OnStack
  <2> QED
    BY <2>1, <1>16 DEF Entered
<1>18. \A i \in Ids, n \in Nat : EnteredAt(i, n)' <=> EnteredAt(i, n) \/ (i = c /\ n = next)
  BY <1>1, <1>13, <1>14, <1>15, <1>16 DEF EnteredAt
<1>19. \A k \in 1 .. L : calls[k].id \in Ids /\ calls[k].id # c /\ ~Finished(calls[k].id)
  BY <1>2, <1>11 DEF StackOK, Entered, OnStack
<1>20. CallTypes'
  <2>1. next' \in Nat /\ phase' = "dfs"
    BY <1>1, <1>4, <1>13
  <2>2. calls' \in Seq([id : Nat, dfsIn : Nat, child : Nat])
    BY <1>13 DEF R
  <2> QED
    BY <2>1, <2>2 DEF CallTypes
<1>21. StackOK'
  <2>1. \A k \in 1 .. Len(calls') : calls'[k].id \in Ids /\ ~Finished(calls'[k].id)
    BY <1>10, <1>11, <1>13, <1>14, <1>19 DEF Entered
  <2>2. \A k, l \in 1 .. Len(calls') : calls'[k].id = calls'[l].id => k = l
    <3>1. \A k, l \in 1 .. L : calls[k].id = calls[l].id => k = l
      BY <1>2 DEF StackOK
    <3> QED
      BY <3>1, <1>13, <1>14, <1>19
  <2>3. ASSUME NEW k \in 1 .. Len(calls')
        PROVE  IF k = 1 THEN calls'[k].id = 1
               ELSE calls'[k].id # 1 /\ insts[calls'[k].id].parent = calls'[k - 1].id
    <3>1. CASE k = L + 1
      <4>1. (L + 1) - 1 = L /\ L + 1 # 1
        BY <1>4
      <4> QED
        BY <3>1, <4>1, <1>5, <1>7, <1>10, <1>13
    <3>2. CASE k \in 1 .. L
      <4>1. k # 1 => k - 1 \in 1 .. L
        BY <3>2, <1>4
      <4>2. IF k = 1 THEN calls[k].id = 1
            ELSE calls[k].id # 1 /\ insts[calls[k].id].parent = calls[k - 1].id
        BY <3>2, <1>2 DEF StackOK
      <4> QED
        BY <3>2, <4>1, <4>2, <1>13
    <3> QED
      BY <3>1, <3>2, <1>14
  <2>4. ASSUME NEW k \in 1 .. Len(calls')
        PROVE  IF calls'[k].child = None THEN insts[calls'[k].id].children[1] = None
               ELSE insts[calls'[k].id].children[1] # None
                      /\ insts[calls'[k].id].children[1] <= calls'[k].child
    <3>1. CASE k = L + 1
      BY <3>1, <1>12, <1>13
    <3>2. CASE k = L
      <4>1. calls'[k].child = c + 1 /\ calls'[k].id = q
        BY <3>2, <1>5, <1>7, <1>13
      <4>2. insts[q].children[1] <= c + 1 /\ c + 1 # None
        BY <1>3, <1>8, DfsFacts
      <4> QED
        BY <4>1, <4>2, <1>8
    <3>3. CASE k \in 1 .. L /\ k # L
      BY <3>3, <1>2, <1>13, SMTT(30) DEF StackOK
    <3> QED
      BY <3>1, <3>2, <3>3, <1>14
  <2> QED
    BY <2>1, <2>2, <2>3, <2>4, <1>1, <1>16 DEF StackOK, Finished
<1>22. ChildrenVisited'
  <2> SUFFICES ASSUME NEW k \in 1 .. Len(calls'), NEW e \in Ids, e # 1, insts[e].parent = calls'[k].id
               PROVE  /\ e < calls'[k].child => Finished(e) \/ (k < Len(calls') /\ calls'[k + 1].id = e)
                      /\ e >= calls'[k].child => ~Entered(e)'
    BY <1>1, <1>16 DEF ChildrenVisited
  <2>0. e \in Nat /\ (~Entered(e)' <=> ~Entered(e) /\ e # c)
    BY <1>3, <1>17, NumberingDone DEF Done
  <2>1. CASE k = L + 1
    <3>1. insts[e].parent = c /\ calls'[k].child = ch
      BY <2>1, <1>13
    <3>2. ch <= e
      BY <3>1, <1>3, <1>10, <1>12, ChildrenInRange
    <3>3. ~Entered(e)
      BY <3>1, <1>2, <1>11 DEF UpClosed
    <3>4. e # c
      BY <3>1, <1>3, <1>10, NumberingDone DEF Done
    <3> QED
      BY <2>0, <3>1, <3>2, <3>3, <3>4
  <2>2. CASE k = L
    <3>1. insts[e].parent = calls[L].id /\ calls'[k].child = c + 1
      BY <2>2, <1>5, <1>13
    <3>2. e < c => Finished(e)
      BY <3>1, <1>2, <1>4, <1>5, <1>6 DEF ChildrenVisited
    <3>3. e >= c => ~Entered(e)
      BY <3>1, <1>2, <1>5, <1>6 DEF ChildrenVisited
    <3>4. e = c => k < Len(calls') /\ calls'[k + 1].id = e
      BY <2>2, <1>4, <1>13
    <3>5. (e < c + 1 => e < c \/ e = c) /\ (e >= c + 1 => e >= c /\ e # c)
      BY <2>0
    <3> QED
      BY <2>0, <3>1, <3>2, <3>3, <3>4, <3>5
  <2>3. CASE k \in 1 .. L /\ k # L
    <3>1. insts[e].parent = calls[k].id /\ calls'[k].child = calls[k].child
      BY <2>3, <1>13
    <3>2. k < L /\ k + 1 \in 1 .. L /\ k < Len(calls')
      BY <2>3, <1>4, <1>13
    <3>3. calls'[k + 1].id = calls[k + 1].id
      BY <3>2, <1>13
    <3>4. e # c
      <4>1. calls[k].id # calls[L].id
        BY <2>3, <1>2, <1>5 DEF StackOK
      <4> QED
        BY <4>1, <3>1, <1>7, <1>10
    <3>5. /\ e < calls[k].child => Finished(e) \/ (k < L /\ calls[k + 1].id = e)
          /\ e >= calls[k].child => ~Entered(e)
      BY <2>3, <3>1, <1>2 DEF ChildrenVisited
    <3> QED
      BY <2>0, <3>1, <3>2, <3>3, <3>4, <3>5
  <2> QED
    BY <2>1, <2>2, <2>3, <1>14
<1>23. DownClosed'
  BY <1>1, <1>2, <1>3, <1>16, NumberingDone DEF Done, DownClosed
<1>24. UpClosed'
  <2> SUFFICES ASSUME NEW e \in Ids, e # 1, Entered(e)'
               PROVE  Entered(insts[e].parent)'
    BY <1>1, <1>16 DEF UpClosed
  <2>1. insts[e].parent \in Ids
    BY <1>3, NumberingDone DEF Done
  <2>2. Entered(q)
    BY <1>5, <1>7 DEF Entered, OnStack
  <2>3. Entered(insts[e].parent)
    BY <2>2, <1>2, <1>10, <1>17 DEF UpClosed
  <2> QED
    BY <2>1, <2>3, <1>1, <1>17
<1>25. BeforeNext'
  <2>1. \A i \in Ids : \A n \in Nat : EnteredAt(i, n)' => n < next + 1
    BY <1>2, <1>4, <1>18 DEF BeforeNext
  <2>2. \A p \in Ids : Finished(p) => insts[p].dfs[2] <= next + 1
    BY <1>2, <1>3, <1>4, DfsFacts DEF BeforeNext
  <2> QED
    BY <1>1, <1>13, <1>16, <2>1, <2>2 DEF BeforeNext
<1>26. FinishedIntervals'
  <2> SUFFICES ASSUME NEW p \in Ids, NEW i \in Ids, NEW n \in Nat, Finished(p), EnteredAt(i, n)'
               PROVE  (insts[p].dfs[1] <= n /\ n < insts[p].dfs[2]) <=> Under(i, p)
    BY <1>1, <1>16 DEF FinishedIntervals, Under
  <2>1. CASE EnteredAt(i, n)
    BY <2>1, <1>2 DEF FinishedIntervals
  <2>2. CASE i = c /\ n = next
    <3>1. ~(n < insts[p].dfs[2])
      BY <2>2, <1>2, <1>3, <1>4, DfsFacts DEF BeforeNext
    <3>2. ~Under(q, p)
      BY <1>2, <1>3, <1>5, <1>7, <1>19, TreeDown
    <3>3. c # p
      BY <1>11 DEF Entered
    <3>4. ~Under(c, p)
      BY <3>2, <3>3, <1>3, <1>10, UnderStep
    <3> QED
      BY <2>2, <3>1, <3>4
  <2> QED
    BY <2>1, <2>2, <1>18
<1>27. OpenIntervals'
  <2> SUFFICES ASSUME NEW k \in 1 .. Len(calls'), NEW i \in Ids, NEW n \in Nat, EnteredAt(i, n)'
               PROVE  calls'[k].dfsIn <= n <=> Under(i, calls'[k].id)
    BY <1>1, <1>16 DEF OpenIntervals, Under
  <2>1. CASE k \in 1 .. L /\ EnteredAt(i, n)
    BY <2>1, <1>2, <1>13 DEF OpenIntervals
  <2>2. CASE k \in 1 .. L /\ i = c /\ n = next
    <3>1. EnteredAt(calls[k].id, calls[k].dfsIn)
      BY <2>2 DEF EnteredAt
    <3>2. calls[k].dfsIn < next
      BY <2>2, <3>1, <1>2, <1>4, <1>19 DEF BeforeNext
    <3>3. Under(q, calls[k].id)
      <4>1. k <= L
        BY <2>2, <1>4
      <4> QED
        BY <2>2, <4>1, <1>2, <1>3, <1>5, <1>7, StackUnder
    <3>4. Under(c, calls[k].id)
      BY <2>2, <3>3, <1>3, <1>10, <1>19, UnderStep
    <3>5. calls[k].dfsIn <= next
      BY <2>2, <3>2, <1>4
    <3> QED
      BY <2>2, <3>4, <3>5, <1>13
  <2>3. CASE k = L + 1 /\ EnteredAt(i, n)
    <3>1. n < next
      BY <2>3, <1>2 DEF BeforeNext
    <3>2. Entered(i)
      BY <2>3 DEF Entered, EnteredAt, OnStack
    <3>3. ~Under(i, c)
      BY <3>2, <1>2, <1>3, <1>10, <1>11, TreeUp
    <3>4. ~(next <= n)
      BY <3>1, <1>4
    <3> QED
      BY <2>3, <3>3, <3>4, <1>13
  <2>4. CASE k = L + 1 /\ i = c /\ n = next
    <3>1. Under(c, c) /\ next <= next
      BY <1>3, <1>4, <1>10, UnderStep
    <3> QED
      BY <2>4, <3>1, <1>13
  <2> QED
    BY <2>1, <2>2, <2>3, <2>4, <1>14, <1>18
<1>28. Entered(1)'
  BY <1>2, <1>3, <1>17, NumberingDone DEF Done
<1> QED
  BY <1>1, <1>20, <1>21, <1>22, <1>23, <1>24, <1>25, <1>26, <1>27, <1>28 DEF Searched

(* A call returns. *)
LEMMA ReturnFacts ==
  ASSUME Numbered, Searched, Return
  PROVE  /\ phase = "dfs" /\ phase' = "dfs" /\ path' = path
         /\ Len(calls) \in Nat \ {0} /\ Len(calls') = Len(calls) - 1
         /\ calls' \in Seq([id : Nat, dfsIn : Nat, child : Nat]) /\ next' = next
         /\ \A k \in 1 .. Len(calls') : k \in 1 .. Len(calls) /\ k # Len(calls) /\ calls'[k] = calls[k]
         /\ insts' \in Seq(InstRecord) /\ Len(insts') = Len(insts)
         /\ calls[Len(calls)].id \in Ids
         /\ \A i \in Ids : i # calls[Len(calls)].id => insts'[i] = insts[i]
         /\ LET r == insts'[calls[Len(calls)].id]
            IN  r.dfs[1] = calls[Len(calls)].dfsIn /\ r.dfs[2] = next
         /\ SameNumbers
<1> DEFINE L == Len(calls)
           R == [id : Nat, dfsIn : Nat, child : Nat]
<1>1. /\ phase = "dfs" /\ phase' = "dfs" /\ path' = path /\ calls # <<>> /\ next' = next
      /\ terms' = terms /\ leaves' = leaves /\ pending' = pending
      /\ insts' = [insts EXCEPT ![Last(calls).id].dfs = <<Last(calls).dfsIn, next>>]
      /\ calls' = Front(calls)
  BY DEF Return
<1>2. CallTypes /\ StackOK /\ NumberingTypes
  BY <1>1 DEF Searched, Numbered
<1>3. calls \in Seq(R) /\ next \in Nat
  BY <1>2 DEF CallTypes
<1>4. /\ L \in Nat \ {0}
      /\ calls' \in Seq(R)
      /\ Len(calls') = L - 1
      /\ \A x \in 1 .. L - 1 : calls'[x] = calls[x]
      /\ Last(calls) = calls[L] /\ calls[L] \in R
  <2> HIDE DEF R
  <2> QED
    BY <1>1, <1>3, FrontLast
<1>5. \A k \in 1 .. Len(calls') : k \in 1 .. Len(calls) /\ k # Len(calls) /\ calls'[k] = calls[k]
  BY <1>4, SMTT(30)
<1>6. PICK q \in Ids : q = calls[L].id
  BY <1>2, <1>4 DEF StackOK
<1>7. PICK n \in Nat : n = calls[L].dfsIn
  BY <1>4
<1>8. insts \in Seq(InstRecord) /\ insts[q] \in InstRecord /\ q \in 1 .. Len(insts)
  <2>1. insts \in Seq(InstRecord) /\ q \in 1 .. Len(insts)
    BY <1>2 DEF NumberingTypes, Ids
  <2> QED
    BY <2>1, ElementOfSeq
<1> DEFINE g == [insts[q] EXCEPT !.dfs = <<n, next>>]
<1>9. insts' = [insts EXCEPT ![q] = g]
  BY <1>1, <1>4, <1>6, <1>7, <1>8
<1>10. /\ g \in InstRecord /\ g.dfs = <<n, next>>
       /\ g.model = insts[q].model /\ g.parent = insts[q].parent /\ g.snl = insts[q].snl
       /\ g.terms = insts[q].terms /\ g.children = insts[q].children
  <2>1. <<n, next>> \in Nat \X Nat
    BY <1>3
  <2> QED
    BY <2>1, <1>8 DEF InstRecord
<1> HIDE DEF g, R
<1>11. /\ insts' \in Seq(InstRecord) /\ Len(insts') = Len(insts)
       /\ \A i \in 1 .. Len(insts) : insts'[i] = IF i = q THEN g ELSE insts[i]
  BY <1>8, <1>9, <1>10, ExceptSeq
<1>12. insts'[q] = g /\ \A i \in Ids : i # q => insts'[i] = insts[i]
  BY <1>8, <1>11 DEF Ids
<1>13. insts'[q].dfs[1] = n /\ insts'[q].dfs[2] = next
  BY <1>10, <1>12
<1>14. SameNumbers
  <2>1. \A i \in Ids : /\ insts'[i].model = insts[i].model
                       /\ insts'[i].parent = insts[i].parent
                       /\ insts'[i].snl = insts[i].snl
                       /\ insts'[i].terms = insts[i].terms
                       /\ insts'[i].children = insts[i].children
    BY <1>10, <1>12
  <2> QED
    BY <2>1, <1>1, <1>11 DEF SameNumbers
<1> QED
  BY <1>1, <1>4, <1>5, <1>6, <1>7, <1>11, <1>12, <1>13, <1>14 DEF R

(* Return keeps Searched. *)
LEMMA ReturnSearched ==
  ASSUME Numbered, Searched, Return
  PROVE  Searched'
<1> DEFINE L == Len(calls)
<1>1. /\ phase = "dfs" /\ phase' = "dfs" /\ path' = path
      /\ L \in Nat \ {0} /\ Len(calls') = L - 1
      /\ calls' \in Seq([id : Nat, dfsIn : Nat, child : Nat]) /\ next' = next
      /\ \A k \in 1 .. Len(calls') : k \in 1 .. L /\ k # L /\ calls'[k] = calls[k]
      /\ calls[L].id \in Ids
      /\ Len(insts') = Len(insts)
      /\ \A i \in Ids : i # calls[L].id => insts'[i] = insts[i]
      /\ insts'[calls[L].id].dfs[1] = calls[L].dfsIn /\ insts'[calls[L].id].dfs[2] = next
      /\ \A i \in Ids : /\ insts'[i].parent = insts[i].parent
                        /\ insts'[i].children = insts[i].children
  BY ReturnFacts DEF SameNumbers
<1>2. /\ CallTypes /\ Entered(1) /\ StackOK /\ ChildrenVisited /\ DownClosed /\ UpClosed
      /\ BeforeNext /\ FinishedIntervals /\ OpenIntervals
  BY <1>1 DEF Searched
<1>3. phase \notin {"top", "children"} /\ None = 0
  BY <1>1, DNLAssumption
<1>4. /\ next \in Nat
      /\ \A k \in 1 .. L : calls[k].id \in Nat /\ calls[k].dfsIn \in Nat /\ calls[k].child \in Nat
      /\ L \in 1 .. L /\ \A k \in 1 .. L : k # L => k \in 1 .. Len(calls')
  <2>1. /\ next \in Nat
        /\ \A k \in 1 .. L : calls[k].id \in Nat /\ calls[k].dfsIn \in Nat /\ calls[k].child \in Nat
    BY <1>2, CallFacts
  <2>2. PICK n \in Nat \ {0} : n = L /\ Len(calls') = n - 1
    BY <1>1
  <2>3. n \in 1 .. n /\ \A k \in 1 .. n : k # n => k \in 1 .. n - 1
    OBVIOUS
  <2> QED
    BY <2>1, <2>2, <2>3
<1>5. PICK q \in Ids : q = calls[L].id
  BY <1>1
<1>6. ~Finished(q) /\ EnteredAt(q, calls[L].dfsIn) /\ \A k \in 1 .. L : calls[k].id = q => k = L
  BY <1>2, <1>4, <1>5 DEF StackOK, EnteredAt
<1>7. next # 0
  BY <1>2, <1>4, <1>5, <1>6 DEF BeforeNext
<1>8. Ids' = Ids
  BY <1>1 DEF Ids
<1>9. \A i \in Ids : Finished(i)' <=> Finished(i) \/ i = q
  <2>1. Finished(q)' <=> insts'[q].dfs[2] # 0
    BY DEF Finished
  <2>2. \A i \in Ids : Finished(i)' <=> insts'[i].dfs[2] # 0
    BY DEF Finished
  <2>3. \A i \in Ids : Finished(i) <=> insts[i].dfs[2] # 0
    BY DEF Finished
  <2> QED
    BY <1>1, <1>5, <1>7, <2>2, <2>3
<1>10. ASSUME NEW i \in Ids, NEW n \in Nat
       PROVE  EnteredAt(i, n)' <=> EnteredAt(i, n)
  <2>1. EnteredAt(i, n)' <=> \/ insts'[i].dfs[2] # 0 /\ insts'[i].dfs[1] = n
                             \/ \E k \in 1 .. Len(calls') : calls'[k].id = i /\ calls'[k].dfsIn = n
    BY DEF EnteredAt, Finished
  <2>2. EnteredAt(i, n) <=> \/ insts[i].dfs[2] # 0 /\ insts[i].dfs[1] = n
                            \/ \E k \in 1 .. L : calls[k].id = i /\ calls[k].dfsIn = n
    BY DEF EnteredAt, Finished
  <2>3. CASE i = q
    <3>1. EnteredAt(i, n)' <=> calls[L].dfsIn = n
      BY <2>1, <2>3, <1>1, <1>5, <1>6, <1>7
    <3>2. EnteredAt(i, n) <=> calls[L].dfsIn = n
      BY <2>2, <2>3, <1>4, <1>5, <1>6 DEF Finished
    <3> QED
      BY <3>1, <3>2
  <2>4. CASE i # q
    <3>1. insts'[i] = insts[i]
      BY <2>4, <1>1, <1>5
    <3>2. (\E k \in 1 .. Len(calls') : calls'[k].id = i /\ calls'[k].dfsIn = n)
            <=> \E k \in 1 .. L : calls[k].id = i /\ calls[k].dfsIn = n
      BY <2>4, <1>1, <1>4, <1>5
    <3> QED
      BY <2>1, <2>2, <3>1, <3>2
  <2> QED
    BY <2>3, <2>4
<1>11. \A i \in Ids : Entered(i)' <=> Entered(i)
  <2> TAKE i \in Ids
  <2>1. CASE i = q
    BY <2>1, <1>4, <1>5, <1>9 DEF Entered, OnStack
  <2>2. CASE i # q
    <3>1. OnStack(i)' <=> OnStack(i)
      BY <2>2, <1>1, <1>4, <1>5 DEF OnStack
    <3> QED
      BY <2>2, <3>1, <1>9 DEF Entered
  <2> QED
    BY <2>1, <2>2
<1>12. ~MoreChildren(calls[L])
  BY DEF Return, Last
<1>13. ASSUME NEW c \in Ids, c # 1, insts[c].parent = q
       PROVE  Finished(c)
  <2>1. insts[q].children[1] # None /\ c <= insts[q].children[2] /\ c \in Nat
    BY <1>3, <1>13, ChildrenInRange, NumberingDone DEF Done
  <2>2. calls[L].child # None
    BY <2>1, <1>2, <1>4, <1>5 DEF StackOK
  <2>3. ~(calls[L].child <= insts[q].children[2])
    BY <2>2, <1>5, <1>12 DEF MoreChildren
  <2>4. c < calls[L].child
    BY <2>1, <2>3, <1>3, <1>4, DfsFacts
  <2>5. Finished(c) \/ (L < L /\ calls[L + 1].id = c)
    BY <2>4, <1>2, <1>4, <1>5, <1>13 DEF ChildrenVisited
  <2>6. ~(L < L)
    BY <1>1
  <2> QED
    BY <2>5, <2>6
<1>14. CallTypes'
  <2>1. next' \in Nat /\ phase' = "dfs"
    BY <1>1, <1>4
  <2> QED
    BY <2>1, <1>1 DEF CallTypes
<1>15. StackOK'
  <2>1. ASSUME NEW k \in 1 .. Len(calls')
        PROVE  calls'[k].id \in Ids' /\ insts'[calls'[k].id].dfs[2] = 0
    <3>1. k \in 1 .. L /\ k # L /\ calls'[k] = calls[k]
      BY <1>1
    <3>2. calls[k].id \in Ids /\ ~Finished(calls[k].id) /\ calls[k].id # q
      BY <3>1, <1>2, <1>6 DEF StackOK
    <3>3. insts'[calls[k].id] = insts[calls[k].id]
      BY <3>2, <1>1, <1>5
    <3> QED
      BY <3>1, <3>2, <3>3, <1>8 DEF Finished
  <2>2. \A k, l \in 1 .. Len(calls') : calls'[k].id = calls'[l].id => k = l
    <3> SUFFICES ASSUME NEW k \in 1 .. Len(calls'), NEW l \in 1 .. Len(calls'), calls'[k].id = calls'[l].id
                 PROVE  k = l
      OBVIOUS
    <3>1. k \in 1 .. L /\ calls'[k] = calls[k]
      BY <1>1
    <3>2. l \in 1 .. L /\ calls'[l] = calls[l]
      BY <1>1
    <3>3. calls[k].id = calls[l].id
      BY <3>1, <3>2
    <3> QED
      BY <3>1, <3>2, <3>3, <1>2 DEF StackOK
  <2>3. ASSUME NEW k \in 1 .. Len(calls')
        PROVE  /\ IF k = 1 THEN calls'[k].id = 1
                  ELSE calls'[k].id # 1 /\ insts'[calls'[k].id].parent = calls'[k - 1].id
               /\ IF calls'[k].child = None THEN insts'[calls'[k].id].children[1] = None
                  ELSE insts'[calls'[k].id].children[1] # None
                        /\ insts'[calls'[k].id].children[1] <= calls'[k].child
    <3>1. k \in 1 .. L /\ calls'[k] = calls[k] /\ calls[k].id \in Ids
      BY <1>1, <1>2 DEF StackOK
    <3>2. insts'[calls[k].id] = insts[calls[k].id]
      BY <3>1, <1>1, <1>5, <1>6
    <3>3. k # 1 => calls'[k - 1] = calls[k - 1]
      <4>1. k # 1 => k - 1 \in 1 .. Len(calls')
        BY <1>1
      <4> QED
        BY <4>1, <1>1
    <3>4. /\ IF k = 1 THEN calls[k].id = 1
             ELSE calls[k].id # 1 /\ insts[calls[k].id].parent = calls[k - 1].id
          /\ IF calls[k].child = None THEN insts[calls[k].id].children[1] = None
             ELSE insts[calls[k].id].children[1] # None
                   /\ insts[calls[k].id].children[1] <= calls[k].child
      BY <3>1, <1>2 DEF StackOK
    <3> QED
      BY <3>1, <3>2, <3>3, <3>4
  <2> QED
    BY <2>1, <2>2, <2>3 DEF StackOK, Finished
<1>16. ChildrenVisited'
  <2> SUFFICES ASSUME NEW k \in 1 .. Len(calls'), NEW e \in Ids, e # 1, insts'[e].parent = calls'[k].id
               PROVE  /\ e < calls'[k].child => Finished(e)' \/ (k < Len(calls') /\ calls'[k + 1].id = e)
                      /\ e >= calls'[k].child => ~Entered(e)'
    BY <1>8 DEF ChildrenVisited
  <2>1. k \in 1 .. L /\ k # L /\ calls'[k] = calls[k] /\ insts[e].parent = calls[k].id
    BY <1>1
  <2>2. /\ e < calls[k].child => Finished(e) \/ (k < L /\ calls[k + 1].id = e)
        /\ e >= calls[k].child => ~Entered(e)
    BY <2>1, <1>2 DEF ChildrenVisited
  <2>3. k + 1 = L \/ (k < Len(calls') /\ k + 1 \in 1 .. Len(calls'))
    <3>1. PICK n \in Nat \ {0} : n = L /\ Len(calls') = n - 1
      BY <1>1
    <3>2. \A m \in 1 .. n : m # n => m + 1 = n \/ (m < n - 1 /\ m + 1 \in 1 .. n - 1)
      OBVIOUS
    <3> QED
      BY <2>1, <3>1, <3>2
  <2>4. k < L /\ calls[k + 1].id = e => Finished(e)' \/ (k < Len(calls') /\ calls'[k + 1].id = e)
    BY <2>3, <1>1, <1>5, <1>9
  <2> QED
    BY <2>1, <2>2, <2>4, <1>9, <1>11
<1>17. \A c \in Ids : c # 1 => insts[c].parent \in Ids
  BY <1>3, NumberingDone DEF Done
<1>18. DownClosed'
  <2> SUFFICES ASSUME NEW c \in Ids, c # 1, Finished(insts[c].parent)'
               PROVE  Finished(c)'
    BY <1>8 DEF DownClosed
  <2>1. PICK p \in Ids : p = insts[c].parent /\ p = insts'[c].parent
    BY <1>1, <1>17
  <2>2. Finished(p)'
    BY <2>1 DEF Finished
  <2>3. Finished(p) \/ p = q
    BY <2>2, <1>9
  <2> QED
    BY <2>1, <2>3, <1>2, <1>9, <1>13 DEF DownClosed
<1>19. UpClosed'
  <2>1. ASSUME NEW c \in Ids, c # 1, Entered(c)'
        PROVE  Entered(insts[c].parent)'
    <3>1. PICK p \in Ids : p = insts[c].parent /\ p = insts'[c].parent
      BY <1>1, <1>17, <2>1
    <3>2. Entered(p)'
      BY <2>1, <3>1, <1>2, <1>11 DEF UpClosed
    <3> QED
      BY <3>1, <3>2 DEF Entered, Finished, OnStack
  <2> QED
    BY <1>8, <2>1 DEF UpClosed
<1>20. BeforeNext'
  <2>1. \A i \in Ids : \A n \in Nat : EnteredAt(i, n)' => n < next'
    BY <1>1, <1>2, <1>10 DEF BeforeNext
  <2>2. \A p \in Ids : Finished(p)' => insts'[p].dfs[2] <= next'
    <3> TAKE p \in Ids
    <3>1. CASE p = q
      BY <3>1, <1>1, <1>4, <1>5
    <3>2. CASE p # q
      BY <3>2, <1>1, <1>2, <1>5, <1>9 DEF BeforeNext
    <3> QED
      BY <3>1, <3>2
  <2> QED
    BY <1>8, <2>1, <2>2 DEF BeforeNext
<1>21. FinishedIntervals'
  <2> SUFFICES ASSUME NEW p \in Ids, NEW i \in Ids, NEW n \in Nat, Finished(p)', EnteredAt(i, n)'
               PROVE  (insts'[p].dfs[1] <= n /\ n < insts'[p].dfs[2]) <=> Under(i, p)
    BY <1>1, <1>8 DEF FinishedIntervals, Under
  <2>1. EnteredAt(i, n) /\ n < next
    BY <1>2, <1>10 DEF BeforeNext
  <2>2. CASE p = q
    <3>1. calls[L].dfsIn <= n <=> Under(i, q)
      BY <2>1, <1>2, <1>4, <1>5 DEF OpenIntervals
    <3>2. insts'[q].dfs[1] = calls[L].dfsIn /\ insts'[q].dfs[2] = next
      BY <1>1, <1>5
    <3> QED
      BY <2>1, <2>2, <3>1, <3>2
  <2>3. CASE p # q
    <3>1. Finished(p) /\ insts'[p] = insts[p]
      BY <2>3, <1>1, <1>5, <1>9
    <3> QED
      BY <2>1, <3>1, <1>2 DEF FinishedIntervals
  <2> QED
    BY <2>2, <2>3
<1>22. OpenIntervals'
  <2> SUFFICES ASSUME NEW k \in 1 .. Len(calls'), NEW i \in Ids, NEW n \in Nat, EnteredAt(i, n)'
               PROVE  calls'[k].dfsIn <= n <=> Under(i, calls'[k].id)
    BY <1>1, <1>8 DEF OpenIntervals, Under
  <2>1. EnteredAt(i, n) /\ k \in 1 .. L /\ calls'[k] = calls[k]
    BY <1>1, <1>10
  <2> QED
    BY <2>1, <1>2 DEF OpenIntervals
<1>23. Entered(1)'
  BY <1>2, <1>3, <1>11, NumberingDone DEF Done
<1> QED
  BY <1>1, <1>14, <1>15, <1>16, <1>18, <1>19, <1>20, <1>21, <1>22, <1>23 DEF Searched

(* When the stack is empty, every instance has its interval. *)
LEMMA AllFinished ==
  ASSUME Numbered, Searched, phase = "dfs", calls = <<>>
  PROVE  \A i \in Ids : Finished(i)
<1>1. Entered(1) /\ DownClosed /\ 1 \in Ids
  BY NumberingDone DEF Done, Searched
<1>2. Finished(1)
  BY <1>1 DEF Entered, OnStack
<1> QED
  BY <1>1, <1>2, TreeDown, UnderStep

(* The steps of the iso builder change neither numbers nor intervals. *)
LEMMA SearchedStays ==
  ASSUME Numbered, Searched, UNCHANGED <<insts, path, calls, next>>,
         phase \notin {"top", "children"}, phase' \notin {"top", "children"},
         phase' # "dfs" => phase # "dfs" \/ calls = <<>>
  PROVE  Searched'
<1>1. Ids' = Ids /\ (phase' # "dfs" => calls = <<>> /\ \A i \in Ids : Finished(i))
  BY AllFinished DEF Ids, Searched, CallTypes
<1>2. \A i \in Ids : Finished(i)' = Finished(i) /\ Entered(i)' = Entered(i)
  BY DEF Finished, Entered, OnStack
<1>3. \A i \in Ids, n \in Nat : EnteredAt(i, n)' = EnteredAt(i, n)
  BY DEF Finished, EnteredAt
<1>4. CallTypes'
  BY <1>1 DEF Searched, CallTypes
<1>5. /\ Entered(1) /\ StackOK /\ ChildrenVisited /\ DownClosed /\ UpClosed
      /\ BeforeNext /\ FinishedIntervals /\ OpenIntervals
  BY DEF Searched
<1>6. StackOK' /\ ChildrenVisited' /\ DownClosed' /\ UpClosed'
  BY <1>5, <1>1 DEF StackOK, ChildrenVisited, DownClosed, UpClosed, Finished, Entered, OnStack
<1>7. BeforeNext' /\ FinishedIntervals' /\ OpenIntervals'
  BY <1>5, <1>1, <1>3 DEF BeforeNext, FinishedIntervals, OpenIntervals, Finished, Under
<1>8. Entered(1)'
  BY <1>5 DEF Finished, Entered, OnStack
<1>9. phase' \notin {"top", "children", "dfs"} => \A i \in Ids' : Finished(i)'
  BY <1>1, <1>2
<1> QED
  BY <1>4, <1>6, <1>7, <1>8, <1>9 DEF Searched

(* Nothing is numbered at first. *)
LEMMA InitSearched == Init => Numbered /\ Searched
<1> SUFFICES ASSUME Init PROVE Numbered /\ Searched
  OBVIOUS
<1>1. /\ insts = <<>> /\ terms = <<>> /\ leaves = {} /\ path = <<>> /\ pending = <<>>
      /\ calls = <<>> /\ next = 0 /\ phase = "top"
  BY DEF Init
<1>2. Numbered
  BY <1>1 DEF Numbered, NumberingTypes
<1>3. Searched
  BY <1>1 DEF Searched, CallTypes, Ids
<1> QED
  BY <1>2, <1>3

(* A step that leaves the numbering and the search alone. *)
LEMMA NumberingFrame ==
  ASSUME Numbered, Searched, UNCHANGED <<numbering, unfolding, phase>>
  PROVE  Numbered' /\ Searched'
<1>1. /\ insts' = insts /\ terms' = terms /\ leaves' = leaves /\ path' = path
      /\ pending' = pending /\ parent' = parent /\ first' = first /\ calls' = calls
      /\ next' = next /\ phase' = phase
  BY DEF numbering, unfolding
<1>2. Ids' = Ids /\ TermIds' = TermIds
  BY <1>1 DEF Ids, TermIds
<1>3. NumberingTypes' = NumberingTypes /\ Climbs' = Climbs /\ TermsFound' = TermsFound
  BY <1>1, <1>2 DEF NumberingTypes, Climbs, TermsFound, ModelOf, getTerminal
<1>4. LeavesFound' = LeavesFound /\ ChildrenFound' = ChildrenFound
  BY <1>1, <1>2 DEF LeavesFound, ChildrenFound, ChildrenOf, Expanded, Unfolding, ModelOf, getChildInstance
<1>5. ParentsFound' = ParentsFound /\ PendingOK' = PendingOK /\ UnfoldingOK' = UnfoldingOK
  BY <1>1, <1>2 DEF ParentsFound, PendingOK, UnfoldingOK, Position, Unfolding, ModelOf, getChildInstance
<1>6. Numbered'
  BY <1>1, <1>3, <1>4, <1>5 DEF Numbered
<1>7. CASE phase \in {"top", "children"}
  <2>1. CallTypes'
    BY <1>1, <1>2 DEF Searched, CallTypes, Finished
  <2> QED
    BY <2>1, <1>1, <1>6, <1>7 DEF Searched
<1>8. CASE phase \notin {"top", "children"}
  BY <1>1, <1>6, <1>8, SearchedStays
<1> QED
  BY <1>7, <1>8

(* The iso builder goes from one phase to the next. *)
LEMMA NumberingPhase ==
  ASSUME Numbered, Searched, UNCHANGED <<numbering, unfolding>>,
         phase \notin {"top", "children"}, phase' \notin {"top", "children", "dfs"},
         phase # "dfs" \/ calls = <<>>
  PROVE  Numbered' /\ Searched'
<1>1. /\ insts' = insts /\ terms' = terms /\ leaves' = leaves /\ path' = path
      /\ pending' = pending /\ calls' = calls /\ next' = next
  BY DEF numbering, unfolding
<1>2. insts' \in Seq(InstRecord)
  BY <1>1 DEF Numbered, NumberingTypes
<1>3. SameNumbers
  BY <1>1, <1>2 DEF SameNumbers
<1> QED
  BY <1>1, <1>3, NumberedStays, SearchedStays

(* Before the search, the counters are as in the beginning. *)
LEMMA UnfoldingSearched ==
  ASSUME Numbered, Searched, CreateTop \/ AddChild \/ NextParent
  PROVE  Searched'
<1>1. /\ phase \in {"top", "children"} /\ phase' = "children" /\ calls' = calls /\ next' = next
  BY DEF CreateTop, AddChild, NextParent, EndChildren
<1>2. calls = <<>> /\ next = 0 /\ \A i \in Ids : ~Finished(i)
  BY <1>1 DEF Searched, CallTypes
<1>3. \A i \in Ids' : ~Finished(i)'
  <2>1. CASE CreateTop \/ AddChild
    <3>1. PICK p \in Nat, j \in Nat, m \in Design : NewInstance(p, j, m)
      <4>1. CASE CreateTop
        BY <4>1, DNLAssumption DEF CreateTop
      <4>2. CASE AddChild
        <5>1. /\ phase = "children" /\ Position <= Len(InstancesOf[ModelOf(parent)])
              /\ NewInstance(parent, Position, InstancesOf[ModelOf(parent)][Position])
          BY <4>2 DEF AddChild
        <5>2. NumberingTypes /\ Climbs /\ parent \in Ids /\ first \in 2 .. Len(insts) + 1
          BY <5>1 DEF Numbered, UnfoldingOK
        <5>3. parent \in Nat /\ Len(insts) \in Nat /\ Len(InstancesOf[ModelOf(parent)]) \in Nat
          BY <5>2, ClimbsFacts
        <5>4. Position \in 1 .. Len(InstancesOf[ModelOf(parent)]) /\ Position \in Nat
          BY <5>1, <5>2, <5>3 DEF Position
        <5>5. InstancesOf[ModelOf(parent)][Position] \in Design
          BY <5>2, <5>4, ClimbsFacts
        <5> QED
          BY <5>1, <5>3, <5>4, <5>5
      <4> QED
        BY <2>1, <4>1, <4>2
    <3>2. /\ NumberingTypes
          /\ Len(insts') = Len(insts) + 1
          /\ \A i \in Ids : insts'[i] = insts[i]
          /\ insts'[Len(insts) + 1].dfs = <<None, None>>
      BY <3>1, NewInstanceFacts DEF Numbered
    <3>3. Len(insts) \in Nat /\ None = 0
      BY <3>2, DNLAssumption DEF NumberingTypes
    <3>4. \A i \in Ids' : i \in Ids \/ i = Len(insts) + 1
      BY <3>2, <3>3 DEF Ids
    <3> QED
      BY <1>2, <3>2, <3>3, <3>4 DEF Finished
  <2>2. CASE NextParent
    <3>1. Ids' = Ids /\ \A i \in Ids : insts'[i].dfs = insts[i].dfs
      BY <2>2, EndChildrenFacts DEF NextParent
    <3> QED
      BY <1>2, <3>1 DEF Finished
  <2> QED
    BY <2>1, <2>2
<1>4. CallTypes'
  BY <1>1, <1>2, <1>3 DEF CallTypes
<1> QED
  BY <1>1, <1>4 DEF Searched

(* Every step keeps Numbered and Searched. *)
LEMMA NumberingStep ==
  Numbered /\ Searched /\ [Next]_vars => Numbered' /\ Searched'
<1> SUFFICES ASSUME Numbered, Searched, [Next]_vars PROVE Numbered' /\ Searched'
  OBVIOUS
<1>1. CASE CreateTop
  BY <1>1, CreateTopNumbered, UnfoldingSearched
<1>2. CASE AddChild
  BY <1>2, AddChildNumbered, UnfoldingSearched
<1>3. CASE NextParent
  BY <1>3, NextParentNumbered, UnfoldingSearched
<1>4. CASE VisitTop
  BY <1>4, VisitTopNumbered, VisitTopSearched
<1>5. CASE VisitChild
  <2>1. /\ phase = "dfs" /\ phase' = "dfs" /\ insts' = insts /\ terms' = terms /\ leaves' = leaves
        /\ path' = path /\ pending' = pending
    BY <1>5 DEF VisitChild, numbering
  <2>2. insts' \in Seq(InstRecord)
    BY <2>1 DEF Numbered, NumberingTypes
  <2>3. SameNumbers
    BY <2>1, <2>2 DEF SameNumbers
  <2> QED
    BY <1>5, <2>3, NumberedStays, VisitChildSearched
<1>6. CASE Return
  BY <1>6, ReturnFacts, NumberedStays, ReturnSearched
<1>7. CASE CollectDrivers
  <2>1. phase = "dfs" /\ calls = <<>> /\ phase' = "round1" /\ UNCHANGED <<numbering, unfolding>>
    BY <1>7 DEF CollectDrivers
  <2> QED
    BY <2>1, NumberingPhase
<1>8. CASE \E w \in Worker, t \in tasks : TakeTask(w, t)
  BY <1>8, NumberingFrame DEF TakeTask
<1>9. CASE \E w \in Worker : Visit(w)
  BY <1>9, NumberingFrame DEF Visit
<1>10. CASE Sift
  <2>1. phase = "round1" /\ phase' = "round2" /\ UNCHANGED <<numbering, unfolding>>
    BY <1>10 DEF Sift
  <2> QED
    BY <2>1, NumberingPhase
<1>11. CASE Join
  <2>1. phase = "round2" /\ phase' = "dangling" /\ UNCHANGED <<numbering, unfolding>>
    BY <1>11 DEF Join
  <2> QED
    BY <2>1, NumberingPhase
<1>12. CASE \E t \in 1 .. Len(terms) : TraceDangling(t)
  BY <1>12, NumberingFrame DEF TraceDangling
<1>13. CASE Finish
  <2>1. phase = "dangling" /\ phase' = "done" /\ UNCHANGED <<numbering, unfolding>>
    BY <1>13 DEF Finish
  <2> QED
    BY <2>1, NumberingPhase
<1>14. CASE UNCHANGED vars
  BY <1>14, NumberingFrame DEF vars
<1> QED
  BY <1>1, <1>2, <1>3, <1>4, <1>5, <1>6, <1>7, <1>8, <1>9, <1>10, <1>11, <1>12, <1>13, <1>14 DEF Next

(* The invariant gives the property. *)
LEMMA ExactNumbering ==
  ASSUME Numbered, Searched
  PROVE  NumberingExact
<1> SUFFICES ASSUME phase = "done" PROVE NumberingExact
  BY DEF NumberingExact
<1>1. Done /\ TermsFound /\ LeavesFound /\ NumberingTypes
  BY NumberingDone DEF Numbered
<1>2. Range(path) = Paths /\ Len(insts) = Cardinality(Paths)
  BY InstancesCounted
<1>3. ASSUME NEW i \in Ids
      PROVE  /\ ModelOf(i) = DesignAt[path[i]]
             /\ path[i] = IF IsTop(i) THEN <<>> ELSE Append(path[insts[i].parent], insts[i].snl)
  BY <1>1 DEF Done, IsTop
<1>4. ASSUME NEW i \in Ids, NEW j \in 1 .. Len(InstancesOf[ModelOf(i)])
      PROVE  path[getChildInstance(i, j)] = Append(path[i], j)
  <2>1. PICK c \in Ids : c = getChildInstance(i, j) /\ c # 1 /\ insts[c].parent = i /\ insts[c].snl = j
    BY <1>1 DEF Done, ChildrenOf
  <2> QED
    BY <2>1, <1>1 DEF Done
<1>5. ASSUME NEW i \in Ids, NEW k \in 1 .. Len(Directions[ModelOf(i)])
      PROVE  terms[getTerminal(i, k)] = [inst |-> i, bit |-> k]
  <2>1. PICK t \in TermIds : t = getTerminal(i, k) /\ terms[t].inst = i /\ terms[t].bit = k
    BY <1>1 DEF TermsFound
  <2>2. terms \in Seq([inst : Nat, bit : Nat]) /\ t \in 1 .. Len(terms)
    BY <1>1 DEF NumberingTypes, TermIds
  <2>3. terms[t] \in [inst : Nat, bit : Nat]
    BY <2>2, ElementOfSeq
  <2>4. terms[t] = [inst |-> terms[t].inst, bit |-> terms[t].bit]
    BY <2>3
  <2> QED
    BY <2>1, <2>4
<1>6. leaves = {i \in Ids : ~IsTop(i) /\ InstancesOf[ModelOf(i)] = <<>>}
  BY <1>1 DEF LeavesFound, IsTop
<1>7. ASSUME NEW i \in Ids, NEW p \in Ids
      PROVE  IsUnder(i, p) <=> IsPrefix(path[p], path[i])
  <2>1. Finished(i) /\ Finished(p) /\ FinishedIntervals
    BY DEF Searched
  <2>2. EnteredAt(i, insts[i].dfs[1]) /\ insts[i].dfs[1] \in Nat
    BY <2>1, DfsFacts DEF EnteredAt
  <2> QED
    BY <2>1, <2>2 DEF FinishedIntervals, IsUnder, Under
<1> QED
  BY <1>2, <1>3, <1>4, <1>5, <1>6, <1>7 DEF NumberingExact, Ids

(* Every instance of the hierarchy has one number, and the lookups by      *)
(* order ID, the leaves and the DFS intervals are exact: what              *)
(* DNL::process() and initDFSIntervals() build, for every hierarchy.       *)
THEOREM NumberingIsExact == Spec => []NumberingExact
<1>1. Init => Numbered /\ Searched
  BY InitSearched
<1>2. (Numbered /\ Searched) /\ [Next]_vars => (Numbered /\ Searched)'
  BY NumberingStep
<1>3. Numbered /\ Searched => NumberingExact
  BY ExactNumbering
<1> QED
  BY <1>1, <1>2, <1>3, PTL DEF Spec

-----------------------------------------------------------------------------
(* The nets and the sets they connect.                                     *)

(* The numbering is complete and the netlist as it was. *)
Ready == Numbered /\ Netlist /\ phase \notin {"top", "children"}

(* The components of a design, one by one. *)
LEMMA ComponentsIff ==
  ASSUME NEW d \in Design
  PROVE  /\ \A k \in 1 .. Len(Directions[d]) : <<0, k>> \in Components(d)
         /\ \A j \in 1 .. Len(InstancesOf[d]) : \A k \in 1 .. Len(Directions[InstancesOf[d][j]]) :
              <<j, k>> \in Components(d)
         /\ \A c \in Components(d) :
              \/ \E k \in 1 .. Len(Directions[d]) : c = <<0, k>>
              \/ \E j \in 1 .. Len(InstancesOf[d]) :
                   \E k \in 1 .. Len(Directions[InstancesOf[d][j]]) : c = <<j, k>>
  BY DEF Components

(* The net on both sides of a terminal is a component's. *)
LEMMA TermFacts ==
  ASSUME Ready
  PROVE  /\ \A i \in Ids : DOMAIN net[ModelOf(i)] = Components(ModelOf(i)) /\ ModelOf(i) \in Design
         /\ \A c \in Ids : c # 1 =>
              /\ insts[c].parent \in Ids /\ insts[c].parent # c
              /\ insts[c].snl \in 1 .. Len(InstancesOf[ModelOf(insts[c].parent)])
              /\ ModelOf(c) = InstancesOf[ModelOf(insts[c].parent)][insts[c].snl]
              /\ c = getChildInstance(insts[c].parent, insts[c].snl)
         /\ \A t \in TermIds :
              /\ terms[t].inst \in Ids
              /\ terms[t].bit \in 1 .. Len(Directions[ModelOf(terms[t].inst)])
              /\ t = getTerminal(terms[t].inst, terms[t].bit)
              /\ t \in Nat
<1>1. Done /\ TermsFound /\ NumberingTypes
  BY NumberingDone DEF Ready, Numbered
<1>2. \A i \in Ids : DOMAIN net[ModelOf(i)] = Components(ModelOf(i)) /\ ModelOf(i) \in Design
  BY <1>1, DNLAssumption DEF Ready, Netlist, Done
<1>3. ASSUME NEW c \in Ids, c # 1
      PROVE  /\ insts[c].parent \in Ids /\ insts[c].parent # c
             /\ insts[c].snl \in 1 .. Len(InstancesOf[ModelOf(insts[c].parent)])
             /\ ModelOf(c) = InstancesOf[ModelOf(insts[c].parent)][insts[c].snl]
             /\ c = getChildInstance(insts[c].parent, insts[c].snl)
  <2>1. PICK p \in Ids : p = insts[c].parent /\ p < c /\ p \in Nat /\ c \in Nat
    BY <1>1, <1>3 DEF Done
  <2>2. PICK j \in 1 .. Len(InstancesOf[ModelOf(p)]) : j = insts[c].snl
    BY <1>1, <1>3, <2>1 DEF Done
  <2>3. path[p] \in Paths /\ ModelOf(p) = DesignAt[path[p]] /\ path[c] = Append(path[p], j)
        /\ ModelOf(c) = DesignAt[path[c]] /\ c = getChildInstance(p, j)
    BY <1>1, <1>3, <2>1, <2>2 DEF Done
  <2>4. DesignAt[Append(path[p], j)] = InstancesOf[DesignAt[path[p]]][j]
    BY <2>2, <2>3, HierarchyAssumption
  <2>5. p # c
    BY <2>1
  <2> QED
    BY <2>1, <2>2, <2>3, <2>4, <2>5
<1>4. \A t \in TermIds : t \in Nat
  BY <1>1 DEF NumberingTypes, TermIds
<1> QED
  BY <1>1, <1>2, <1>3, <1>4 DEF TermsFound

(* The terminals of an instance on a net inside it. *)
LEMMA BitOn ==
  ASSUME Ready, NEW i \in Ids, NEW n
  PROVE  BitTermsOn(i, n) = {t \in TermIds : terms[t].inst = i /\ BitNet(t) = n}
<1>0. /\ DOMAIN net[ModelOf(i)] = Components(ModelOf(i)) /\ ModelOf(i) \in Design
      /\ \A t \in TermIds :
              /\ terms[t].inst \in Ids
              /\ terms[t].bit \in 1 .. Len(Directions[ModelOf(terms[t].inst)])
              /\ t = getTerminal(terms[t].inst, terms[t].bit)
  BY TermFacts
<1>1. ASSUME NEW t \in BitTermsOn(i, n)
      PROVE  t \in TermIds /\ terms[t].inst = i /\ BitNet(t) = n
  <2>1. PICK c \in Components(ModelOf(i)) :
          c[1] = 0 /\ net[ModelOf(i)][c] = n /\ t = getTerminal(i, c[2])
    BY <1>0 DEF BitTermsOn
  <2>2. PICK k \in 1 .. Len(Directions[ModelOf(i)]) : c = <<0, k>>
    <3>1. (\E k \in 1 .. Len(Directions[ModelOf(i)]) : c = <<0, k>>)
            \/ \E j \in 1 .. Len(InstancesOf[ModelOf(i)]) :
                   \E k \in 1 .. Len(Directions[InstancesOf[ModelOf(i)][j]]) : c = <<j, k>>
      BY <1>0, ComponentsIff
    <3>2. \A j \in 1 .. Len(InstancesOf[ModelOf(i)]) : j # 0
      OBVIOUS
    <3> QED
      BY <2>1, <3>1, <3>2
  <2>3. t \in TermIds /\ terms[t].inst = i /\ terms[t].bit = k
    BY <2>1, <2>2 DEF Ready, Numbered, TermsFound
  <2> QED
    BY <2>1, <2>2, <2>3 DEF BitNet
<1>2. ASSUME NEW t \in TermIds, terms[t].inst = i, BitNet(t) = n
      PROVE  t \in BitTermsOn(i, n)
  <2>1. PICK k \in 1 .. Len(Directions[ModelOf(i)]) : k = terms[t].bit /\ t = getTerminal(i, k)
    BY <1>0, <1>2
  <2>2. PICK c \in DOMAIN net[ModelOf(i)] : c = <<0, k>>
    BY <1>0, ComponentsIff
  <2>3. c[1] = 0 /\ c[2] = k /\ net[ModelOf(i)][c] = n
    BY <1>2, <2>1, <2>2 DEF BitNet
  <2> QED
    BY <2>1, <2>3 DEF BitTermsOn
<1> QED
  BY <1>1, <1>2

(* The terminals of the children of an instance on a net inside it. *)
LEMMA InstOn ==
  ASSUME Ready, NEW i \in Ids, NEW n
  PROVE  InstTermsOn(i, n) =
           {t \in TermIds : /\ terms[t].inst # 1 /\ insts[terms[t].inst].parent = i
                            /\ TermNet(t) = n}
<1>0. /\ DOMAIN net[ModelOf(i)] = Components(ModelOf(i)) /\ ModelOf(i) \in Design
      /\ \A c \in Ids : c # 1 =>
              /\ insts[c].parent \in Ids
              /\ insts[c].snl \in 1 .. Len(InstancesOf[ModelOf(insts[c].parent)])
              /\ ModelOf(c) = InstancesOf[ModelOf(insts[c].parent)][insts[c].snl]
              /\ c = getChildInstance(insts[c].parent, insts[c].snl)
      /\ \A t \in TermIds :
              /\ terms[t].inst \in Ids
              /\ terms[t].bit \in 1 .. Len(Directions[ModelOf(terms[t].inst)])
              /\ t = getTerminal(terms[t].inst, terms[t].bit)
  BY TermFacts
<1>1. ASSUME NEW t \in InstTermsOn(i, n)
      PROVE  t \in TermIds /\ terms[t].inst # 1 /\ insts[terms[t].inst].parent = i /\ TermNet(t) = n
  <2>1. PICK c \in Components(ModelOf(i)) :
          c[1] # 0 /\ net[ModelOf(i)][c] = n /\ t = getTerminal(getChildInstance(i, c[1]), c[2])
    BY <1>0 DEF InstTermsOn
  <2>2a. PICK j \in 1 .. Len(InstancesOf[ModelOf(i)]) :
           \E k \in 1 .. Len(Directions[InstancesOf[ModelOf(i)][j]]) : c = <<j, k>>
    BY <1>0, <2>1, ComponentsIff
  <2>2. PICK k \in 1 .. Len(Directions[InstancesOf[ModelOf(i)][j]]) : c = <<j, k>>
    BY <2>2a
  <2>3. PICK e \in Ids : e = getChildInstance(i, j) /\ e # 1 /\ insts[e].parent = i /\ insts[e].snl = j
    BY NumberingDone DEF Ready, Done, ChildrenOf
  <2>4. ModelOf(e) = InstancesOf[ModelOf(i)][j]
    BY <1>0, <2>3
  <2>5. t = getTerminal(e, k)
    BY <2>1, <2>2, <2>3
  <2>6. t \in TermIds /\ terms[t].inst = e /\ terms[t].bit = k
    BY <2>2, <2>4, <2>5 DEF Ready, Numbered, TermsFound
  <2>7. TermNet(t) = n
    BY <2>1, <2>2, <2>3, <2>6 DEF TermNet, IsTop
  <2> QED
    BY <2>3, <2>6, <2>7
<1>2. ASSUME NEW t \in TermIds, terms[t].inst # 1, insts[terms[t].inst].parent = i, TermNet(t) = n
      PROVE  t \in InstTermsOn(i, n)
  <2>1. PICK e \in Ids : e = terms[t].inst
    BY <1>0
  <2>2. PICK j \in 1 .. Len(InstancesOf[ModelOf(i)]) : j = insts[e].snl /\ e = getChildInstance(i, j)
                                                        /\ ModelOf(e) = InstancesOf[ModelOf(i)][j]
    BY <1>0, <1>2, <2>1
  <2>3. PICK k \in 1 .. Len(Directions[InstancesOf[ModelOf(i)][j]]) : k = terms[t].bit /\ t = getTerminal(e, k)
    BY <1>0, <2>1, <2>2
  <2>4. PICK c \in DOMAIN net[ModelOf(i)] : c = <<j, k>>
    BY <1>0, ComponentsIff
  <2>5. c[1] = j /\ c[2] = k /\ c[1] # 0
    BY <2>4
  <2>6. net[ModelOf(i)][c] = n
    BY <1>2, <2>1, <2>2, <2>3, <2>4 DEF TermNet, IsTop
  <2> QED
    BY <2>2, <2>3, <2>5, <2>6 DEF InstTermsOn
<1> QED
  BY <1>1, <1>2


(* The nets a terminal is on connect it with what is on them. *)
LEMMA NetSetFacts ==
  ASSUME Ready, NEW t \in TermIds, NEW w \in NetSet(t)
  PROVE  /\ w[1] \in Ids /\ ~LeafInst(w[1]) /\ w[2] # None /\ w = <<w[1], w[2]>>
         /\ t \in On(w)
         /\ On(w) \subseteq TermIds
         /\ \A u \in On(w) : w \in NetSet(u)
<1>0. /\ \A c \in Ids : c # 1 =>
              /\ insts[c].parent \in Ids
              /\ insts[c].snl \in 1 .. Len(InstancesOf[ModelOf(insts[c].parent)])
      /\ \A u \in TermIds : terms[u].inst \in Ids
  BY TermFacts
<1>1. \A c \in Ids : c # 1 => ~LeafInst(insts[c].parent)
  BY <1>0 DEF LeafInst
<1>2. \A u \in TermIds : TermNet(u) # None => terms[u].inst # 1
  BY DEF TermNet, IsTop
<1>3. w[1] \in Ids /\ ~LeafInst(w[1]) /\ w[2] # None /\ w = <<w[1], w[2]>>
  <2>1. \/ w = <<terms[t].inst, BitNet(t)>> /\ BitNet(t) # None /\ ~LeafInst(terms[t].inst)
        \/ w = <<insts[terms[t].inst].parent, TermNet(t)>> /\ TermNet(t) # None
    BY DEF NetSet
  <2> QED
    BY <2>1, <1>0, <1>1, <1>2
<1>4a. PICK i \in Ids : i = w[1]
  BY <1>3
<1>4b. PICK n : n = w[2]
  OBVIOUS
<1>4. w = <<i, n>> /\ ~LeafInst(i) /\ n # None
  BY <1>3, <1>4a, <1>4b
<1>5. On(w) = {u \in TermIds : \/ terms[u].inst = i /\ BitNet(u) = n
                               \/ terms[u].inst # 1 /\ insts[terms[u].inst].parent = i /\ TermNet(u) = n}
  BY <1>4, BitOn, InstOn DEF On
<1>6. \A u \in TermIds : w \in NetSet(u) <=> \/ terms[u].inst = i /\ BitNet(u) = n
                                             \/ terms[u].inst # 1 /\ insts[terms[u].inst].parent = i /\ TermNet(u) = n
  BY <1>2, <1>4 DEF NetSet
<1> QED
  BY <1>3, <1>5, <1>6

(* Connection is symmetric. *)
LEMMA AdjFacts ==
  ASSUME Ready, NEW t \in TermIds
  PROVE  Adj(t) \subseteq TermIds /\ \A u \in Adj(t) : t \in Adj(u)
  BY NetSetFacts DEF Adj

(* The sets that the nets connect. *)
LEMMA CompFacts ==
  ASSUME Ready, NEW t \in TermIds
  PROVE  /\ t \in Comp(t) /\ Comp(t) \subseteq TermIds
         /\ Closed(Comp(t))
         /\ \A S \in SUBSET TermIds : Closed(S) /\ t \in S => Comp(t) \subseteq S
<1>1. \A u \in Comp(t) : Adj(u) \subseteq Comp(t)
  <2> SUFFICES ASSUME NEW u \in Comp(t), NEW v \in Adj(u) PROVE v \in Comp(t)
    OBVIOUS
  <2>1. u \in TermIds
    BY DEF Comp
  <2>2. v \in TermIds
    BY <2>1, AdjFacts
  <2>3. \A S \in SUBSET TermIds : Closed(S) /\ t \in S => v \in S
    BY DEF Comp, Closed
  <2> QED
    BY <2>2, <2>3 DEF Comp
<1> QED
  BY <1>1 DEF Comp, Closed

(* Terminals that are connected have the same connected set. *)
LEMMA CompSame ==
  ASSUME Ready, NEW t \in TermIds, NEW u \in Comp(t)
  PROVE  t \in Comp(u) /\ Comp(u) = Comp(t)
<1>1. u \in TermIds
  BY DEF Comp
<1>2. t \in Comp(u)
  <2> SUFFICES ASSUME t \notin Comp(u) PROVE FALSE
    OBVIOUS
  <2> DEFINE S == TermIds \ Comp(u)
  <2>1. Closed(S)
    <3> SUFFICES ASSUME NEW x \in S, NEW y \in Adj(x) PROVE y \in S
      BY DEF Closed
    <3>1. y \in TermIds /\ x \in Adj(y)
      BY AdjFacts
    <3>2. y \in Comp(u) => x \in Comp(u)
      BY <1>1, <3>1, CompFacts DEF Closed
    <3> QED
      BY <3>1, <3>2
  <2>2. u \in S
    BY <2>1, CompFacts
  <2> QED
    BY <2>2, <1>1, CompFacts
<1>3. Comp(u) \subseteq Comp(t) /\ Comp(t) \subseteq Comp(u)
  BY <1>1, <1>2, CompFacts
<1> QED
  BY <1>2, <1>3

-----------------------------------------------------------------------------
(* What a trace pushes and notes at a terminal.                            *)

(* Terminal numbers make a finite set. *)
LEMMA TermIdsFinite ==
  ASSUME Ready
  PROVE  IsFiniteSet(TermIds) /\ TermIds \in SUBSET Nat
<1>1. PICK n \in Nat : n = Len(terms)
  BY DEF Ready, Numbered, NumberingTypes
<1>2. IsFiniteSet(1 .. n)
  BY FS_Interval
<1> QED
  BY <1>1, <1>2 DEF TermIds

(* Sorted() of a set of terminals has its elements. *)
LEMMA SortedTerms ==
  ASSUME Ready, NEW S \in SUBSET TermIds
  PROVE  Sorted(S) \in Seq(TermIds) /\ Range(Sorted(S)) = S
<1>1. IsFiniteSet(S) /\ S \in SUBSET Nat
  BY TermIdsFinite, FS_Subset
<1>2. /\ Sorted(S) \in Seq(S)
      /\ \A t \in S : \E x \in 1 .. Len(Sorted(S)) : Sorted(S)[x] = t
  BY <1>1, SortedSeq
<1>3. Sorted(S) \in Seq(TermIds)
  BY <1>2, SeqMonotonic
<1>4. Range(Sorted(S)) = {Sorted(S)[x] : x \in 1 .. Len(Sorted(S))}
  BY <1>2, RangeEquality
<1>5. \A x \in 1 .. Len(Sorted(S)) : Sorted(S)[x] \in S
  BY <1>2, ElementOfSeq
<1> QED
  BY <1>2, <1>3, <1>4, <1>5

(* The loop that stops at a visited terminal. *)
LEMMA UpToFacts ==
  ASSUME NEW S, NEW s \in Seq(S), NEW V
  PROVE  /\ UpTo(s, V) \in Seq(S) /\ Range(UpTo(s, V)) \subseteq Range(s)
         /\ Range(s) \cap V = {} => UpTo(s, V) = s
<1> DEFINE hits == {x \in 1 .. Len(s) : s[x] \in V}
<1>1. UpTo(s, V) = IF hits = {} THEN s ELSE SubSeq(s, 1, Min(hits) - 1)
  BY DEF UpTo
<1>2. Range(s) = {s[x] : x \in 1 .. Len(s)} /\ Len(s) \in Nat
  BY RangeEquality
<1>3. Range(s) \cap V = {} => hits = {}
  BY <1>2
<1>4. ASSUME hits # {}
      PROVE  /\ SubSeq(s, 1, Min(hits) - 1) \in Seq(S)
             /\ Range(SubSeq(s, 1, Min(hits) - 1)) \subseteq Range(s)
  <2>1. hits \in SUBSET Nat /\ hits \subseteq 1 .. Len(s)
    BY <1>2
  <2>2. Min(hits) \in hits
    <3> HIDE DEF hits
    <3> QED
      BY <1>4, <2>1, MinOf
  <2>3. PICK m \in 1 .. Len(s) : m = Min(hits)
    BY <2>1, <2>2
  <2>4. m - 1 \in Int /\ \A x \in 1 .. m - 1 : x \in 1 .. Len(s) /\ s[x] \in S
    BY <1>2
  <2>5. /\ SubSeq(s, 1, m - 1) \in Seq(S)
        /\ Len(SubSeq(s, 1, m - 1)) = IF 1 <= m - 1 THEN (m - 1) - 1 + 1 ELSE 0
        /\ \A x \in 1 .. (m - 1) - 1 + 1 : SubSeq(s, 1, m - 1)[x] = s[1 + x - 1]
    BY <2>4, SubSeqProperties
  <2>6. Len(SubSeq(s, 1, m - 1)) = m - 1
    <3>1. \A z \in Nat \ {0} : (IF 1 <= z - 1 THEN (z - 1) - 1 + 1 ELSE 0) = z - 1
      OBVIOUS
    <3> QED
      BY <2>5, <3>1
  <2>7. ASSUME NEW x \in 1 .. m - 1
        PROVE  SubSeq(s, 1, m - 1)[x] \in Range(s)
    <3>1. x \in 1 .. (m - 1) - 1 + 1 /\ 1 + x - 1 = x
      OBVIOUS
    <3>2. SubSeq(s, 1, m - 1)[x] = s[x]
      BY <2>5, <3>1
    <3> QED
      BY <3>2, <2>4, <1>2
  <2>8. Range(SubSeq(s, 1, m - 1)) = {SubSeq(s, 1, m - 1)[x] : x \in 1 .. m - 1}
    BY <2>5, <2>6, RangeEquality
  <2>9. Range(SubSeq(s, 1, m - 1)) \subseteq Range(s)
    BY <2>7, <2>8
  <2> HIDE DEF hits
  <2> QED
    BY <2>3, <2>5, <2>9
<1> QED
  BY <1>1, <1>3, <1>4

(* The empty list of terminals. *)
LEMMA RangeEmpty == Range(<<>>) = {}
  BY DEF Range

(* What is pushed for one net. *)
LEMMA PushedFacts ==
  ASSUME Ready, NEW i \in Ids, NEW n, NEW t \in TermIds, NEW V
  PROVE  /\ Pushed(i, n, t, V) \in Seq(TermIds)
         /\ Range(Pushed(i, n, t, V)) \subseteq On(<<i, n>>) \ {t}
         /\ n # None /\ On(<<i, n>>) \cap V = {} => On(<<i, n>>) \ {t} \subseteq Range(Pushed(i, n, t, V))
<1> DEFINE I == InstTermsOn(i, n)
           B == BitTermsOn(i, n)
           inside == Sorted(I \ {t})
           own == Sorted(B \ {t})
<1>1. I \subseteq TermIds /\ B \subseteq TermIds /\ On(<<i, n>>) = I \cup B
  BY BitOn, InstOn DEF On
<1>2. /\ n = None => Pushed(i, n, t, V) = <<>>
      /\ n # None /\ I \cap V # {} => Pushed(i, n, t, V) = UpTo(inside, V)
      /\ n # None /\ I \cap V = {} => Pushed(i, n, t, V) = inside \o UpTo(own, V)
  BY DEF Pushed
<1> HIDE DEF I, B
<1>3. inside \in Seq(TermIds) /\ Range(inside) = I \ {t} /\ own \in Seq(TermIds) /\ Range(own) = B \ {t}
  BY <1>1, SortedTerms
<1> HIDE DEF inside, own
<1>4. /\ UpTo(inside, V) \in Seq(TermIds) /\ Range(UpTo(inside, V)) \subseteq Range(inside)
      /\ UpTo(own, V) \in Seq(TermIds) /\ Range(UpTo(own, V)) \subseteq Range(own)
      /\ Range(own) \cap V = {} => UpTo(own, V) = own
  BY <1>3, UpToFacts
<1>5. inside \o UpTo(own, V) \in Seq(TermIds) /\ Range(inside \o UpTo(own, V)) = Range(inside) \cup Range(UpTo(own, V))
  BY <1>3, <1>4, ConcatProperties, RangeConcatenation
<1>6. CASE n = None
  BY <1>2, <1>6, RangeEmpty
<1>7. CASE n # None /\ I \cap V # {}
  BY <1>1, <1>2, <1>3, <1>4, <1>7
<1>8. CASE n # None /\ I \cap V = {}
  BY <1>1, <1>2, <1>3, <1>4, <1>5, <1>8
<1> QED
  BY <1>6, <1>7, <1>8

(* The nets inside a leaf. *)
LEMMA LeafNets ==
  ASSUME Ready, PlainLeaves, NEW t \in TermIds, LeafInst(terms[t].inst)
  PROVE  /\ InnerNet(t) # None => On(<<terms[t].inst, InnerNet(t)>>) = {t}
         /\ TypeIn(t) = "STANDART"
<1> DEFINE i == terms[t].inst
           d == ModelOf(i)
           n == InnerNet(t)
<1>1. SUFFICES ASSUME n # None
               PROVE  On(<<i, n>>) = {t} /\ TypeIn(t) = "STANDART"
  BY DEF TypeIn
<1>2. d \notin Assign /\ n = BitNet(t)
  BY <1>1 DEF InnerNet
<1>3. i \in Ids /\ d \in Design /\ i # 1 /\ InstancesOf[d] = <<>>
      /\ DOMAIN net[d] = Components(d)
  BY TermFacts DEF LeafInst
<1>4. d # Top
  <2>0. /\ \A p \in Paths : \A j \in 1 .. Len(InstancesOf[DesignAt[p]]) :
             Append(p, j) \in Paths /\ DesignAt[Append(p, j)] = InstancesOf[DesignAt[p]][j]
        /\ <<>> \in Paths /\ DesignAt[<<>>] = Top
    BY HierarchyAssumption
  <2>1. ModelOf(1) = Top /\ 1 \in Ids
    BY <2>0, NumberingDone DEF Ready, Done
  <2>2. InstancesOf[Top] # <<>>
    <3> SUFFICES ASSUME InstancesOf[Top] = <<>> PROVE FALSE
      OBVIOUS
    <3> DEFINE S == {c \in Ids : c # 1}
    <3>1. S \in SUBSET Nat /\ S # {}
      BY <1>3, NumberingDone DEF Ready, Done
    <3>2. PICK c \in S : \A m \in S : c <= m
      <4> HIDE DEF S
      <4> QED
        BY <3>1, LeastNat
    <3>3. PICK p \in Ids : p = insts[c].parent /\ p < c /\ p \in Nat /\ c \in Nat
                            /\ insts[c].snl \in 1 .. Len(InstancesOf[ModelOf(p)])
      BY NumberingDone DEF Ready, Done
    <3>4. p = 1
      BY <3>2, <3>3
    <3> QED
      BY <2>1, <3>3, <3>4
  <2> QED
    BY <1>3, <2>2
<1>5. net \in Wirings /\ type \in Typings
  BY DEF Ready, Netlist
<1>6. PICK k \in 1 .. Len(Directions[d]) : k = terms[t].bit /\ t = getTerminal(i, k)
  BY TermFacts
<1>7. <<0, k>> \in Components(d) /\ net[d][<<0, k>>] = n
  BY <1>2, <1>3, <1>6, ComponentsIff DEF BitNet
<1>8. /\ \A e \in Components(d) : net[d][e] = n => e = <<0, k>>
      /\ <<d, n>> \notin DOMAIN type
  BY <1>1, <1>2, <1>3, <1>4, <1>5, <1>7 DEF PlainLeaves
<1>9. TypeIn(t) = "STANDART"
  BY <1>8 DEF TypeIn, NetType
<1>10. BitTermsOn(i, n) = {t} /\ InstTermsOn(i, n) = {}
  <2>1. \A x \in DOMAIN net[d] : net[d][x] = n <=> x = <<0, k>>
    BY <1>3, <1>7, <1>8
  <2>2. {x \in DOMAIN net[d] : x[1] = 0 /\ net[d][x] = n} = {<<0, k>>}
    BY <2>1, <1>3, <1>7
  <2>3. {x \in DOMAIN net[d] : x[1] # 0 /\ net[d][x] = n} = {}
    BY <2>1
  <2>4. BitTermsOn(i, n) = {getTerminal(i, k)}
    <3>1. BitTermsOn(i, n) = {getTerminal(i, c[2]) : c \in {<<0, k>>}}
      BY <2>2 DEF BitTermsOn
    <3>2. \A c \in {<<0, k>>} : c[2] = k
      OBVIOUS
    <3> QED
      BY <3>1, <3>2
  <2> QED
    BY <2>3, <2>4, <1>6 DEF InstTermsOn
<1> QED
  BY <1>9, <1>10 DEF On

(* Outside a leaf, the inner net is the net on the terminal. *)
LEMMA InnerNets ==
  ASSUME Ready, NEW t \in TermIds, ~LeafInst(terms[t].inst)
  PROVE  InnerNet(t) = BitNet(t)
<1>1. ModelOf(terms[t].inst) \notin Assign
  <2>1. terms[t].inst \in Ids
    BY TermFacts
  <2>2. CASE terms[t].inst = 1
    BY <2>2, NumberingDone, HierarchyAssumption, DNLAssumption DEF Ready, Done
  <2>3. CASE InstancesOf[ModelOf(terms[t].inst)] # <<>>
    BY <2>3, DNLAssumption
  <2> QED
    BY <2>2, <2>3 DEF LeafInst
<1> QED
  BY <1>1 DEF InnerNet

(* The terminals pushed are connected, and those of a net are all pushed   *)
(* unless the trace has been on it.                                        *)
LEMMA PushFacts ==
  ASSUME Ready, PlainLeaves, NEW t \in TermIds, NEW V
  PROVE  /\ Push(t, V) \in Seq(TermIds)
         /\ Range(Push(t, V)) \subseteq Adj(t)
         /\ \A w \in NetSet(t) : On(w) \cap V = {} => On(w) \subseteq Range(Push(t, V)) \cup {t}
<1> DEFINE i == terms[t].inst
           p == insts[i].parent
           A == Pushed(i, InnerNet(t), t, V)
           B == Pushed(p, TermNet(t), t, V)
<1>1. i \in Ids /\ (i # 1 => p \in Ids) /\ (TermNet(t) # None => i # 1)
  BY TermFacts DEF TermNet, IsTop
<1>2. /\ A \in Seq(TermIds)
      /\ Range(A) \subseteq On(<<i, InnerNet(t)>>) \ {t}
      /\ InnerNet(t) # None /\ On(<<i, InnerNet(t)>>) \cap V = {} => On(<<i, InnerNet(t)>>) \ {t} \subseteq Range(A)
  BY <1>1, PushedFacts
<1>3. /\ B \in Seq(TermIds)
      /\ TermNet(t) = None => Range(B) = {}
      /\ TermNet(t) # None => Range(B) \subseteq On(<<p, TermNet(t)>>) \ {t}
      /\ TermNet(t) # None /\ On(<<p, TermNet(t)>>) \cap V = {} => On(<<p, TermNet(t)>>) \ {t} \subseteq Range(B)
  <2>1. CASE TermNet(t) = None
    <3>1. B = <<>>
      BY <2>1 DEF Pushed
    <3> QED
      BY <2>1, <3>1, RangeEmpty
  <2>2. CASE TermNet(t) # None
    BY <2>2, <1>1, PushedFacts
  <2> QED
    BY <2>1, <2>2
<1>4. Push(t, V) = A \o B
  BY DEF Push
<1>5. InnerNet(t) = None => Range(A) = {}
  <2> SUFFICES ASSUME InnerNet(t) = None PROVE Range(A) = {}
    OBVIOUS
  <2>1. A = <<>>
    BY DEF Pushed
  <2> QED
    BY <2>1, RangeEmpty
<1> HIDE DEF A, B
<1>6. Push(t, V) \in Seq(TermIds) /\ Range(Push(t, V)) = Range(A) \cup Range(B)
  BY <1>2, <1>3, <1>4, ConcatProperties, RangeConcatenation
<1>7. CASE LeafInst(i)
  <2>1. Range(A) = {}
    BY <1>2, <1>5, <1>7, LeafNets
  <2>2. NetSet(t) = {w \in {<<p, TermNet(t)>>} : TermNet(t) # None}
    BY <1>7 DEF NetSet
  <2>3. Adj(t) = UNION {On(w) : w \in NetSet(t)}
    BY DEF Adj
  <2>4. TermNet(t) # None => NetSet(t) = {<<p, TermNet(t)>>} /\ Adj(t) = On(<<p, TermNet(t)>>)
    BY <2>2, <2>3
  <2>5. TermNet(t) = None => NetSet(t) = {}
    BY <2>2
  <2> QED
    BY <2>1, <2>4, <2>5, <1>3, <1>6
<1>8. CASE ~LeafInst(i)
  <2>1. InnerNet(t) = BitNet(t)
    BY <1>8, InnerNets
  <2>2. /\ InnerNet(t) # None => <<i, InnerNet(t)>> \in NetSet(t)
        /\ TermNet(t) # None => <<p, TermNet(t)>> \in NetSet(t)
        /\ \A w \in NetSet(t) : \/ w = <<i, InnerNet(t)>> /\ InnerNet(t) # None
                                \/ w = <<p, TermNet(t)>> /\ TermNet(t) # None
    BY <2>1, <1>8 DEF NetSet
  <2>3. \A w \in NetSet(t) : On(w) \subseteq Adj(t)
    BY DEF Adj
  <2>4. Range(A) \subseteq Adj(t) /\ Range(B) \subseteq Adj(t)
    BY <2>2, <2>3, <1>2, <1>3, <1>5
  <2>5. \A w \in NetSet(t) : On(w) \cap V = {} => On(w) \subseteq Range(Push(t, V)) \cup {t}
    BY <2>2, <1>2, <1>3, <1>6
  <2> QED
    BY <2>4, <2>5, <1>6
<1> QED
  BY <1>7, <1>8

(* The types a trace can meet at a terminal. *)
LEMMA TypeFacts ==
  ASSUME Ready, NEW t
  PROVE  TypeIn(t) \in Kinds \cup {"STANDART"} /\ TypeOut(t) \in Kinds \cup {"STANDART"}
<1>1. \A d, n : NetType(d, n) \in Kinds \cup {"STANDART"}
  BY DNLAssumption DEF Ready, Netlist, NetType, Kinds
<1> QED
  BY <1>1 DEF TypeIn, TypeOut

(* TypeOf for no constant, for one and for two that differ. *)
LEMMA TypeOfFacts ==
  /\ TypeOf({}) = "STANDART"
  /\ \A c : TypeOf({c}) = c
  /\ \A K : (\E a, b \in K : a # b) => TypeOf(K) = "AMBIGUOUS"
<1>1. TypeOf({}) = "STANDART"
  BY DEF TypeOf
<1>2. ASSUME NEW c PROVE TypeOf({c}) = c
  BY DEF TypeOf
<1>3. ASSUME NEW K, NEW a \in K, NEW b \in K, a # b PROVE TypeOf(K) = "AMBIGUOUS"
  <2>1. K # {} /\ ~\E k \in K : K = {k}
    BY <1>3
  <2> QED
    BY <2>1 DEF TypeOf
<1> QED
  BY <1>1, <1>2, <1>3

(* handleConstant() keeps the type of the nets met so far. *)
LEMMA MeetOne ==
  ASSUME NEW K \in SUBSET Kinds, NEW k \in Kinds \cup {"STANDART"}
  PROVE  MeetConstant(TypeOf(K), k) = TypeOf(K \cup ({k} \ {"STANDART"}))
<1>0. \A c \in Kinds : c # "STANDART" /\ c # "AMBIGUOUS"
  BY DEF Kinds
<1>1. CASE k = "STANDART"
  <2>1. K \cup ({k} \ {"STANDART"}) = K
    BY <1>1
  <2> QED
    BY <1>1, <2>1 DEF MeetConstant
<1>2. CASE k # "STANDART"
  <2>0. K \cup ({k} \ {"STANDART"}) = K \cup {k} /\ k \in Kinds /\ k # "AMBIGUOUS"
    BY <1>0, <1>2
  <2>1. CASE K = {}
    <3>1. TypeOf(K) = "STANDART" /\ TypeOf(K \cup {k}) = k
      <4>1. K \cup {k} = {k}
        BY <2>1
      <4> QED
        BY <2>1, <4>1, TypeOfFacts
    <3> QED
      BY <2>0, <3>1, <1>2 DEF MeetConstant
  <2>2. ASSUME NEW c \in K, K = {c} PROVE MeetConstant(TypeOf(K), k) = TypeOf(K \cup {k})
    <3>1. TypeOf(K) = c /\ c # "STANDART" /\ c # "AMBIGUOUS"
      BY <2>2, <1>0, TypeOfFacts
    <3>2. CASE c = k
      <4>1. K \cup {k} = K
        BY <3>2
      <4> QED
        BY <3>1, <3>2, <4>1, <1>2 DEF MeetConstant
    <3>3. CASE c # k
      <4>1. TypeOf(K \cup {k}) = "AMBIGUOUS"
        BY <3>3, TypeOfFacts
      <4> QED
        BY <3>1, <3>3, <4>1, <1>2 DEF MeetConstant
    <3> QED
      BY <3>2, <3>3
  <2>3. ASSUME NEW a \in K, NEW b \in K, a # b PROVE MeetConstant(TypeOf(K), k) = TypeOf(K \cup {k})
    <3>1. TypeOf(K) = "AMBIGUOUS" /\ TypeOf(K \cup {k}) = "AMBIGUOUS"
      BY <2>3, TypeOfFacts
    <3> QED
      BY <3>1 DEF MeetConstant
  <2> QED
    BY <2>0, <2>1, <2>2, <2>3
<1> QED
  BY <1>1, <1>2

(* Both nets of a terminal are met. *)
LEMMA MeetBoth ==
  ASSUME Ready, NEW V, NEW t
  PROVE  MeetConstant(MeetConstant(TypeOf(TypesAt(V)), TypeIn(t)), TypeOut(t)) = TypeOf(TypesAt(V \cup {t}))
<1>1. TypesAt(V) \in SUBSET Kinds /\ TypesAt(V \cup {t}) \in SUBSET Kinds
  BY TypeFacts DEF TypesAt
<1>2. TypeIn(t) \in Kinds \cup {"STANDART"} /\ TypeOut(t) \in Kinds \cup {"STANDART"}
  BY TypeFacts
<1>3. MeetConstant(TypeOf(TypesAt(V)), TypeIn(t)) = TypeOf(TypesAt(V) \cup ({TypeIn(t)} \ {"STANDART"}))
  BY <1>1, <1>2, MeetOne
<1>4. TypesAt(V) \cup ({TypeIn(t)} \ {"STANDART"}) \in SUBSET Kinds
  BY <1>1, <1>2
<1>5. (TypesAt(V) \cup ({TypeIn(t)} \ {"STANDART"})) \cup ({TypeOut(t)} \ {"STANDART"}) = TypesAt(V \cup {t})
  BY DEF TypesAt
<1> QED
  BY <1>2, <1>3, <1>4, <1>5, MeetOne

(* A trace gives an iso no other type. *)
LEMMA TypeOfRange ==
  ASSUME Ready, NEW V
  PROVE  TypeOf(TypesAt(V)) \in IsoTypes /\ TypeOf(TypesAt(V)) # "SHADOW"
<1>1. TypesAt(V) \in SUBSET Kinds
  BY TypeFacts DEF TypesAt
<1>2. CASE TypesAt(V) = {}
  BY <1>2, TypeOfFacts DEF IsoTypes
<1>3. ASSUME NEW c \in TypesAt(V), TypesAt(V) = {c}
      PROVE  TypeOf(TypesAt(V)) \in IsoTypes /\ TypeOf(TypesAt(V)) # "SHADOW"
  <2>1. TypeOf(TypesAt(V)) = c
    BY <1>3, TypeOfFacts
  <2> QED
    BY <2>1, <1>1 DEF Kinds, IsoTypes
<1>4. ASSUME NEW a \in TypesAt(V), NEW b \in TypesAt(V), a # b
      PROVE  TypeOf(TypesAt(V)) \in IsoTypes /\ TypeOf(TypesAt(V)) # "SHADOW"
  BY <1>4, TypeOfFacts DEF IsoTypes
<1> QED
  BY <1>2, <1>3, <1>4

(* The drivers: the terminals with that role that are on a net. *)
LEMMA DriverFacts ==
  ASSUME Ready
  PROVE  /\ Drivers \subseteq TermIds
         /\ \A t \in TermIds : t \in Drivers <=> Role(t) = "driver" /\ NetSet(t) # {}
         /\ LeafDrivers \cap TopDrivers = {}
<1>0. leaves = {i \in Ids : i # 1 /\ InstancesOf[ModelOf(i)] = <<>>}
  BY DEF Ready, Numbered, LeavesFound
<1>1. Drivers \subseteq TermIds
  BY DEF Drivers, LeafDrivers, TopDrivers, TermIds
<1>2. ASSUME NEW t \in TermIds
      PROVE  t \in Drivers <=> Role(t) = "driver" /\ NetSet(t) # {}
  <2> DEFINE i == terms[t].inst
  <2>1. i \in Ids
    BY TermFacts
  <2>2. t \in Drivers <=> \/ i \in leaves /\ Direction(t) # "Input" /\ TermNet(t) # None
                          \/ i = 1 /\ Direction(t) # "Output" /\ BitNet(t) # None
    BY DEF Drivers, LeafDrivers, TopDrivers, TermIds, IsTop
  <2>3. NetSet(t) # {} <=> (BitNet(t) # None /\ ~LeafInst(i)) \/ TermNet(t) # None
    BY DEF NetSet
  <2>4. CASE i = 1
    <3>1. Role(t) = IF Direction(t) = "Output" THEN "reader" ELSE "driver"
      BY <2>4 DEF Role, IsTop
    <3>2. TermNet(t) = None /\ ~LeafInst(i) /\ i \notin leaves
      BY <2>4, <1>0 DEF TermNet, IsTop, LeafInst
    <3> QED
      BY <2>2, <2>3, <2>4, <3>1, <3>2
  <2>5. CASE i # 1 /\ InstancesOf[ModelOf(i)] = <<>>
    <3>1. Role(t) = IF Direction(t) = "Input" THEN "reader" ELSE "driver"
      BY <2>5 DEF Role, IsTop
    <3>2. LeafInst(i) /\ i \in leaves
      BY <2>1, <2>5, <1>0 DEF LeafInst
    <3> QED
      BY <2>2, <2>3, <2>5, <3>1, <3>2
  <2>6. CASE i # 1 /\ InstancesOf[ModelOf(i)] # <<>>
    <3>1. Role(t) = "hier"
      BY <2>6 DEF Role, IsTop
    <3>2. i \notin leaves
      BY <2>6, <1>0
    <3> QED
      BY <2>2, <2>6, <3>1, <3>2
  <2> QED
    BY <2>4, <2>5, <2>6
<1>3. LeafDrivers \cap TopDrivers = {}
  BY <1>0 DEF LeafDrivers, TopDrivers, IsTop
<1> QED
  BY <1>1, <1>2, <1>3

(* What is connected is on a net. *)
LEMMA Linked ==
  ASSUME Ready, NEW t \in TermIds
  PROVE  /\ NetSet(t) = {} => Comp(t) = {t}
         /\ NetSet(t) # {} => \A u \in Comp(t) : NetSet(u) # {}
<1>1. ASSUME NEW u \in TermIds, NetSet(u) = {} PROVE Comp(u) = {u}
  <2>1. Adj(u) = {}
    BY <1>1 DEF Adj
  <2>2. Closed({u})
    BY <2>1 DEF Closed
  <2> QED
    BY <2>2, CompFacts
<1>2. ASSUME NetSet(t) # {}, NEW u \in Comp(t), NetSet(u) = {} PROVE FALSE
  <2>1. u \in TermIds /\ t \in Comp(u)
    BY CompSame DEF Comp
  <2>2. t = u
    BY <1>1, <1>2, <2>1
  <2> QED
    BY <1>2, <2>2
<1> QED
  BY <1>1, <1>2

(* All drivers of a connected set are seeds of round 1. *)
LEMMA CompDrivers ==
  ASSUME Ready, NEW t \in TermIds, NetSet(t) # {}
  PROVE  {u \in Comp(t) : Role(u) = "driver"} = Comp(t) \cap Drivers
  BY Linked, DriverFacts, CompFacts

(* A terminal the last pass finds is on a net. *)
LEMMA DanglingNet ==
  ASSUME Ready, NEW t \in TermIds, Dangling(t)
  PROVE  NetSet(t) # {}
<1>1. terms[t].inst \in Ids
  BY TermFacts
<1>2. LeafInst(terms[t].inst) => isLeaf(terms[t].inst)
  BY <1>1, NumberingDone DEF Ready, Done, ChildrenOf, LeafInst, isLeaf
<1> QED
  BY <1>2 DEF Dangling, NetSet

(* What the iso builder's steps leave alone. *)
SameGraph ==
  /\ TermIds' = TermIds /\ Drivers' = Drivers
  /\ \A t : /\ Adj(t)' = Adj(t) /\ Comp(t)' = Comp(t) /\ NetSet(t)' = NetSet(t)
            /\ Role(t)' = Role(t) /\ TypeIn(t)' = TypeIn(t) /\ TypeOut(t)' = TypeOut(t)
            /\ BitNet(t)' = BitNet(t) /\ TermNet(t)' = TermNet(t)
            /\ Several(t)' = Several(t)
  /\ \A V : TypesAt(V)' = TypesAt(V)

(* The nets do not change while netlist and numbering stay. *)
LEMMA GraphFrame ==
  ASSUME UNCHANGED <<netlist, numbering>>
  PROVE  SameGraph
<1>1. /\ net' = net /\ type' = type /\ wires' = wires /\ insts' = insts /\ terms' = terms
      /\ leaves' = leaves /\ path' = path
  BY DEF netlist, numbering
<1>2. TermIds' = TermIds
  BY <1>1 DEF TermIds
<1>3. \A i : ModelOf(i)' = ModelOf(i)
  BY <1>1 DEF ModelOf
<1>4. \A t : Direction(t)' = Direction(t) /\ BitNet(t)' = BitNet(t) /\ TermNet(t)' = TermNet(t)
  BY <1>1 DEF Direction, BitNet, TermNet, ModelOf, IsTop
<1>5. \A t : NetSet(t)' = NetSet(t)
  BY <1>1 DEF NetSet, LeafInst, ModelOf, BitNet, TermNet, IsTop
<1>6. \A w : On(w)' = On(w)
  BY <1>1 DEF On, InstTermsOn, BitTermsOn, getTerminal, getChildInstance, ModelOf
<1>7. \A t : Adj(t)' = Adj(t)
  BY <1>5, <1>6 DEF Adj
<1>8. \A S : Closed(S)' = Closed(S)
  BY <1>7 DEF Closed
<1>9. \A t : Comp(t)' = Comp(t)
  BY <1>2, <1>8 DEF Comp
<1>10. Drivers' = Drivers
  BY <1>1, <1>4 DEF Drivers, LeafDrivers, TopDrivers, IsTop
<1>11. \A t : Role(t)' = Role(t)
  BY <1>1, <1>4 DEF Role, IsTop, ModelOf
<1>12. \A t : TypeIn(t)' = TypeIn(t) /\ TypeOut(t)' = TypeOut(t)
  BY <1>1 DEF TypeIn, TypeOut, InnerNet, BitNet, TermNet, NetType, ModelOf, IsTop
<1>13. \A V : TypesAt(V)' = TypesAt(V)
  BY <1>12 DEF TypesAt
<1>14. \A t : Several(t)' = Several(t)
  BY <1>9, <1>10 DEF Several
<1> QED
  BY <1>2, <1>4, <1>5, <1>7, <1>9, <1>10, <1>11, <1>12, <1>13, <1>14 DEF SameGraph

-----------------------------------------------------------------------------
(* The traces.                                                             *)

Stack(w) == Range(trace[w].stack)

(* What iso x is once the terminals of V were visited. *)
IsoOn(V) == [drivers |-> {t \in V : Role(t) = "driver"},
             readers |-> {t \in V : Role(t) = "reader"},
             type |-> TypeOf(TypesAt(V))]

(* Thread w is done with terminal t. *)
Step(w, t) ==
  /\ t \in Comp(trace[w].term) /\ t \in TermIds
  /\ trace' \in [Worker -> TraceRecord]
  /\ \A v \in Worker : v # w => trace'[v] = trace[v]
  /\ trace'[w].term = trace[w].term /\ trace'[w].iso = trace[w].iso
  /\ trace'[w].visited = trace[w].visited \cup {t}
  /\ Stack(w) \subseteq Range(trace'[w].stack) \cup {t}
  /\ Range(trace'[w].stack) \subseteq Comp(trace[w].term)
  /\ Adj(t) \subseteq trace'[w].visited \cup Range(trace'[w].stack)
  /\ isos' \in Seq(IsoRecord) /\ Len(isos') = Len(isos)
  /\ \A y \in 1 .. Len(isos) : y # trace[w].iso => isos'[y] = isos[y]
  /\ isos'[trace[w].iso] = IsoOn(trace[w].visited \cup {t})
  /\ \/ isoOf' = isoOf /\ t \in trace[w].visited
     \/ isoOf' = isoOf /\ Role(t) = "driver" /\ phase = "round1"
     \/ isoOf' = [isoOf EXCEPT ![t] = trace[w].iso] /\ ~(Role(t) = "driver" /\ phase = "round1")

(* IsoOn is a record of isos_. *)
LEMMA IsoOnType ==
  ASSUME Ready, NEW V \in SUBSET TermIds
  PROVE  IsoOn(V) \in IsoRecord
<1>1. V \subseteq Nat /\ TypeOf(TypesAt(V)) \in IsoTypes
  BY TypeOfRange, TermIdsFinite
<1>2. {t \in V : Role(t) = "driver"} \in SUBSET Nat /\ {t \in V : Role(t) = "reader"} \in SUBSET Nat
  BY <1>1
<1> QED
  BY <1>1, <1>2 DEF IsoOn, IsoRecord

(* The three changes of VisitNew to the record of an iso. *)
LEMMA IsoExcept ==
  ASSUME NEW p, NEW q, NEW s, NEW a, NEW b, NEW c
  PROVE  [[drivers |-> p, readers |-> q, type |-> s] EXCEPT !.drivers = a, !.readers = b, !.type = c] =
           [drivers |-> a, readers |-> b, type |-> c]
<1>1. [[drivers |-> p, readers |-> q, type |-> s] EXCEPT !.drivers = a] =
        [drivers |-> a, readers |-> q, type |-> s]
  OBVIOUS
<1>2. [[drivers |-> a, readers |-> q, type |-> s] EXCEPT !.readers = b] =
        [drivers |-> a, readers |-> b, type |-> s]
  OBVIOUS
<1>3. [[drivers |-> a, readers |-> b, type |-> s] EXCEPT !.type = c] =
        [drivers |-> a, readers |-> b, type |-> c]
  OBVIOUS
<1> QED
  BY <1>1, <1>2, <1>3

(* One round of the loop of treatDriver(). *)
LEMMA VisitStep ==
  ASSUME Ready, PlainLeaves, TraceTypes, NEW w \in Worker, Tracing(w), Visit(w)
  PROVE  \E t \in TermIds : Step(w, t)
<1> DEFINE r == trace[w]
           s == trace[w].stack
           t == s[Len(s)]
           C == Comp(trace[w].term)
<1>1. s # <<>> /\ t = Last(s)
  BY DEF Visit, Last
<1>2. r \in TraceRecord /\ s \in Seq(Nat) /\ trace \in [Worker -> TraceRecord]
  <2>1. r \in TraceRecord /\ trace \in [Worker -> TraceRecord]
    BY DEF TraceTypes
  <2> QED
    BY <2>1 DEF TraceRecord
<1>3. /\ r.term \in TermIds /\ r.iso \in 1 .. Len(isos)
      /\ \A x \in 1 .. Len(s) : s[x] \in C
      /\ r.visited \subseteq C
      /\ \A u \in r.visited : Adj(u) \subseteq r.visited \cup Range(s)
      /\ isos[r.iso] = IsoOn(r.visited)
  BY DEF Tracing, IsoHas, IsoOn
<1>4. /\ Len(s) \in Nat \ {0} /\ Front(s) \in Seq(Nat) /\ Len(Front(s)) = Len(s) - 1
      /\ \A x \in 1 .. Len(s) - 1 : Front(s)[x] = s[x]
  BY <1>1, <1>2, FrontLast
<1>5. Closed(C) /\ C \subseteq TermIds /\ C \subseteq Nat
  BY <1>3, CompFacts, TermIdsFinite
<1>6. t \in C
  BY <1>3, <1>4, SMTT(30)
<1>7. Range(s) = {s[x] : x \in 1 .. Len(s)} /\ Range(Front(s)) = {Front(s)[x] : x \in 1 .. Len(s) - 1}
  BY <1>2, <1>4, RangeEquality
<1>8. Range(s) \subseteq Range(Front(s)) \cup {t}
  <2>1. \A x \in 1 .. Len(s) : x \in 1 .. Len(s) - 1 \/ x = Len(s)
    BY <1>4
  <2> QED
    BY <1>4, <1>7, <2>1
<1>9. Range(Front(s)) \subseteq C
  <2>1. \A x \in 1 .. Len(s) - 1 : x \in 1 .. Len(s)
    BY <1>4
  <2> QED
    BY <1>3, <1>4, <1>7, <2>1
<1> HIDE DEF t, s, C
<1>10. ASSUME t \in r.visited,
              trace' = [trace EXCEPT ![w].stack = Front(@)],
              isoOf' = isoOf, isos' = isos
       PROVE  Step(w, t)
  <2>1. trace' = [trace EXCEPT ![w] = [r EXCEPT !.stack = Front(s)]]
    BY <1>2, <1>10 DEF s
  <2>2. /\ trace' \in [Worker -> TraceRecord]
        /\ \A v \in Worker : v # w => trace'[v] = trace[v]
        /\ trace'[w] = [r EXCEPT !.stack = Front(s)]
    <3>1. [r EXCEPT !.stack = Front(s)] \in TraceRecord
      BY <1>2, <1>4 DEF TraceRecord
    <3> QED
      BY <2>1, <3>1, <1>2
  <2>3. trace'[w].term = r.term /\ trace'[w].iso = r.iso /\ trace'[w].visited = r.visited
        /\ trace'[w].stack = Front(s)
    BY <2>2, <1>2 DEF TraceRecord
  <2>4. r.visited \cup {t} = r.visited
    BY <1>10
  <2>5. Adj(t) \subseteq r.visited \cup Range(Front(s))
    BY <1>3, <1>8, <1>10
  <2>6. isos \in Seq(IsoRecord)
    BY DEF TraceTypes
  <2> QED
    BY <2>2, <2>3, <2>4, <2>5, <2>6, <1>3, <1>5, <1>6, <1>8, <1>9, <1>10 DEF Step, Stack, s, C
<1>11. ASSUME t \notin r.visited, VisitNew(w, t)
       PROVE  Step(w, t)
  <2> DEFINE P == Push(t, r.visited)
             V == r.visited \cup {t}
  <2>1. /\ P \in Seq(TermIds) /\ Range(P) \subseteq Adj(t)
        /\ \A n \in NetSet(t) : On(n) \cap r.visited = {} => On(n) \subseteq Range(P) \cup {t}
    BY <1>5, <1>6, PushFacts
  <2> HIDE DEF P
  <2>2. P \in Seq(Nat)
    BY <2>1, TermIdsFinite, SeqMonotonic
  <2>3. Front(s) \o P \in Seq(Nat) /\ Range(Front(s) \o P) = Range(Front(s)) \cup Range(P)
    BY <2>2, <1>4, ConcatProperties, RangeConcatenation
  <2>4. V \in SUBSET Nat /\ V \in SUBSET TermIds
    BY <1>3, <1>5, <1>6
  <2>5. trace' = [trace EXCEPT ![w] = [r EXCEPT !.stack = Front(s) \o P, !.visited = V]]
    BY <1>2, <1>11 DEF s, VisitNew, P
  <2>6. /\ trace' \in [Worker -> TraceRecord]
        /\ \A v \in Worker : v # w => trace'[v] = trace[v]
        /\ trace'[w] = [r EXCEPT !.stack = Front(s) \o P, !.visited = V]
    <3>1. [r EXCEPT !.stack = Front(s) \o P, !.visited = V] \in TraceRecord
      BY <1>2, <2>3, <2>4 DEF TraceRecord
    <3> QED
      BY <2>5, <3>1, <1>2
  <2>7. trace'[w].term = r.term /\ trace'[w].iso = r.iso /\ trace'[w].visited = V
        /\ trace'[w].stack = Front(s) \o P
    BY <2>6, <1>2 DEF TraceRecord
  <2>8. Range(Front(s) \o P) \subseteq C
    <3>1. Adj(t) \subseteq C
      BY <1>5, <1>6 DEF Closed
    <3> QED
      BY <3>1, <2>1, <2>3, <1>9
  <2>9. Adj(t) \subseteq V \cup Range(Front(s) \o P)
    <3> SUFFICES ASSUME NEW n \in NetSet(t) PROVE On(n) \subseteq V \cup Range(Front(s) \o P)
      BY DEF Adj
    <3>1. CASE On(n) \cap r.visited = {}
      BY <3>1, <2>1, <2>3
    <3>2. CASE On(n) \cap r.visited # {}
      <4>1. PICK u \in r.visited : u \in On(n)
        BY <3>2
      <4>2. n \in NetSet(u)
        BY <4>1, <1>5, <1>6, NetSetFacts
      <4>3. On(n) \subseteq Adj(u)
        BY <4>2 DEF Adj
      <4> QED
        BY <4>1, <4>3, <2>3, <1>3, <1>8
    <3> QED
      BY <3>1, <3>2
  <2>10. /\ isos' \in Seq(IsoRecord) /\ Len(isos') = Len(isos)
         /\ \A y \in 1 .. Len(isos) : y # r.iso => isos'[y] = isos[y]
         /\ isos'[r.iso] = IsoOn(V)
    <3> DEFINE x == r.iso
    <3>1. x \in 1 .. Len(isos) /\ isos \in Seq(IsoRecord)
      BY <1>3 DEF TraceTypes
    <3>2. isos' = [isos EXCEPT ![x].drivers = IF Role(t) = "driver" THEN @ \cup {t} ELSE @,
                               ![x].readers = IF Role(t) = "reader" THEN @ \cup {t} ELSE @,
                               ![x].type = MeetConstant(MeetConstant(@, TypeIn(t)), TypeOut(t))]
      BY <1>11 DEF VisitNew
    <3> DEFINE a == {u \in r.visited : Role(u) = "driver"}
               b == {u \in r.visited : Role(u) = "reader"}
               ty == TypeOf(TypesAt(r.visited))
    <3>3. isos[x].drivers = a /\ isos[x].readers = b /\ isos[x].type = ty
          /\ isos[x] = [drivers |-> a, readers |-> b, type |-> ty]
      BY <1>3 DEF IsoOn
    <3>4. (IF Role(t) = "driver" THEN a \cup {t} ELSE a) = {u \in V : Role(u) = "driver"}
      OBVIOUS
    <3>5. (IF Role(t) = "reader" THEN b \cup {t} ELSE b) = {u \in V : Role(u) = "reader"}
      OBVIOUS
    <3>6. MeetConstant(MeetConstant(ty, TypeIn(t)), TypeOut(t)) = TypeOf(TypesAt(V))
      BY MeetBoth
    <3> HIDE DEF a, b, ty, x
    <3>7. isos' = [isos EXCEPT ![x] =
            [drivers |-> IF Role(t) = "driver" THEN a \cup {t} ELSE a,
             readers |-> IF Role(t) = "reader" THEN b \cup {t} ELSE b,
             type |-> MeetConstant(MeetConstant(ty, TypeIn(t)), TypeOut(t))]]
      <4> DEFINE ad == IF Role(t) = "driver" THEN a \cup {t} ELSE a
                 bd == IF Role(t) = "reader" THEN b \cup {t} ELSE b
                 td == MeetConstant(MeetConstant(ty, TypeIn(t)), TypeOut(t))
      <4>1. x \in DOMAIN isos
        BY <3>1
      <4>2. isos' = [isos EXCEPT ![x] =
              [isos[x] EXCEPT !.drivers = IF Role(t) = "driver" THEN isos[x].drivers \cup {t} ELSE isos[x].drivers,
                              !.readers = IF Role(t) = "reader" THEN isos[x].readers \cup {t} ELSE isos[x].readers,
                              !.type = MeetConstant(MeetConstant(isos[x].type, TypeIn(t)), TypeOut(t))]]
        BY <3>2, <4>1
      <4>3. isos' = [isos EXCEPT ![x] = [isos[x] EXCEPT !.drivers = ad, !.readers = bd, !.type = td]]
        BY <4>2, <3>3
      <4> HIDE DEF ad, bd, td
      <4>4. [isos[x] EXCEPT !.drivers = ad, !.readers = bd, !.type = td] = [drivers |-> ad, readers |-> bd, type |-> td]
        <5>1. [[drivers |-> a, readers |-> b, type |-> ty] EXCEPT !.drivers = ad, !.readers = bd, !.type = td] =
                [drivers |-> ad, readers |-> bd, type |-> td]
          BY IsoExcept
        <5>2. isos[x] = [drivers |-> a, readers |-> b, type |-> ty]
          BY <3>3
        <5> QED
          BY <5>1, <5>2, Zenon
      <4> QED
        BY <4>3, <4>4 DEF ad, bd, td
    <3>8. isos' = [isos EXCEPT ![x] = IsoOn(V)]
      BY <3>4, <3>5, <3>6, <3>7 DEF IsoOn
    <3>9. IsoOn(V) \in IsoRecord
      BY <2>4, IsoOnType
    <3> HIDE DEF V
    <3>10. /\ isos' \in Seq(IsoRecord) /\ Len(isos') = Len(isos)
           /\ \A y \in 1 .. Len(isos) : isos'[y] = IF y = x THEN IsoOn(V) ELSE isos[y]
      BY <3>1, <3>8, <3>9, ExceptSeq
    <3> QED
      BY <3>1, <3>10 DEF x
  <2>11. isoOf' = IF Role(t) = "driver" /\ phase = "round1" THEN isoOf ELSE [isoOf EXCEPT ![t] = r.iso]
    BY <1>11 DEF VisitNew
  <2>12. /\ \/ isoOf' = isoOf /\ t \in r.visited
            \/ isoOf' = isoOf /\ Role(t) = "driver" /\ phase = "round1"
            \/ isoOf' = [isoOf EXCEPT ![t] = r.iso] /\ ~(Role(t) = "driver" /\ phase = "round1")
    BY <2>11
  <2>13. Stack(w) \subseteq Range(Front(s) \o P) \cup {t}
    BY <1>8, <2>3 DEF Stack, s
  <2> HIDE DEF V
  <2> QED
    BY <2>6, <2>7, <2>8, <2>9, <2>10, <2>12, <2>13, <1>5, <1>6 DEF Step, C, V
<1>12. t \in TermIds
  BY <1>5, <1>6
<1>13. Step(w, t)
  <2>1. \/ t \in r.visited /\ trace' = [trace EXCEPT ![w].stack = Front(@)] /\ UNCHANGED <<isoOf, isos, constants>>
        \/ t \notin r.visited /\ VisitNew(w, t)
    BY <1>1 DEF Visit, s
  <2> QED
    BY <2>1, <1>10, <1>11
<1> QED
  BY <1>12, <1>13

(* The parts of Traced that hold in each phase of the iso builder. *)
Building == phase \notin {"top", "children", "dfs"}

(* IsoHas in the next state. *)
LEMMA IsoHasNext ==
  ASSUME SameGraph, NEW x, NEW V, isos'[x] = IsoOn(V)
  PROVE  IsoHas(x, V)'
<1>1. IsoHas(x, V)' <=> isos'[x] = [drivers |-> {t \in V : Role(t)' = "driver"},
                                    readers |-> {t \in V : Role(t)' = "reader"},
                                    type |-> TypeOf(TypesAt(V)')]
  BY DEF IsoHas, TypeOf
<1> QED
  BY <1>1 DEF IsoOn, SameGraph

(* IsoHas and IsoOn say the same. *)
LEMMA IsoOnHas ==
  ASSUME NEW x, NEW V
  PROVE  IsoHas(x, V) <=> isos[x] = IsoOn(V)
  BY DEF IsoHas, IsoOn

(* A trace that goes on. *)
LEMMA TracingStep ==
  ASSUME Ready, TraceTypes, SameGraph, NEW w \in Worker, NEW t \in TermIds, Tracing(w), Step(w, t),
         isoOf'[trace[w].term] = trace[w].iso
  PROVE  Tracing(w)'
<1> DEFINE r == trace[w]
           q == trace'[w]
<1>1. PICK d \in TermIds : d = r.term /\ d = q.term
  BY DEF Tracing, Step
<1>2. /\ r.iso \in 1 .. Len(isos) /\ q.iso = r.iso /\ Len(isos') = Len(isos)
      /\ q.visited = r.visited \cup {t}
      /\ t \in Comp(d)
      /\ Stack(w) \subseteq Range(q.stack) \cup {t}
      /\ Range(q.stack) \subseteq Comp(d)
      /\ Adj(t) \subseteq q.visited \cup Range(q.stack)
      /\ isos'[r.iso] = IsoOn(q.visited)
      /\ q \in TraceRecord
  BY <1>1 DEF Tracing, Step
<1>3. /\ r.visited \subseteq Comp(d)
      /\ d \in r.visited \cup Stack(w)
      /\ \A u \in r.visited : Adj(u) \subseteq r.visited \cup Stack(w)
  BY <1>1 DEF Tracing, Stack
<1>4. TermIds' = TermIds /\ Comp(d)' = Comp(d) /\ \A u : Adj(u)' = Adj(u)
  BY DEF SameGraph
<1>5. q.stack \in Seq(Nat)
  BY <1>2 DEF TraceRecord
<1>6. \A x \in 1 .. Len(q.stack) : q.stack[x] \in Comp(d)
  <2>1. Range(q.stack) = {q.stack[x] : x \in 1 .. Len(q.stack)}
    BY <1>5, RangeEquality
  <2> QED
    BY <2>1, <1>2
<1>7. q.visited \subseteq Comp(d) /\ d \in q.visited \cup Range(q.stack)
  BY <1>2, <1>3
<1>8. \A u \in q.visited : Adj(u)' \subseteq q.visited \cup Range(q.stack)
  BY <1>2, <1>3, <1>4
<1>9. ASSUME NEW x, NEW V, x = q.iso, V = q.visited PROVE IsoHas(x, V)'
  BY <1>2, <1>9, IsoHasNext
<1>10. isos'[q.iso] = [drivers |-> {u \in q.visited : Role(u)' = "driver"},
                       readers |-> {u \in q.visited : Role(u)' = "reader"},
                       type |-> TypeOf(TypesAt(trace[w].visited)')]
  BY <1>9 DEF IsoHas, TypeOf, TypesAt
<1>11. IsoHas(trace[w].iso, trace[w].visited)'
  BY <1>10 DEF IsoHas, TypeOf
<1>12. Comp(trace[w].term)' = Comp(d)
  BY <1>1, <1>4 DEF Comp, Closed
<1> QED
  BY <1>1, <1>2, <1>4, <1>6, <1>7, <1>8, <1>11, <1>12 DEF Tracing

(* A trace nothing happens to. *)
LEMMA TracingFrame ==
  ASSUME SameGraph, NEW v \in Worker, Tracing(v), trace'[v] = trace[v],
         trace[v].iso \in 1 .. Len(isos'), isos'[trace[v].iso] = isos[trace[v].iso],
         isoOf'[trace[v].term] = isoOf[trace[v].term]
  PROVE  Tracing(v)'
<1> DEFINE r == trace[v]
<1>1. PICK d \in TermIds : d = r.term /\ d = trace'[v].term
  BY DEF Tracing
<1>2. TermIds' = TermIds /\ Comp(d)' = Comp(d) /\ \A u : Adj(u)' = Adj(u)
  BY DEF SameGraph
<1>3. ASSUME NEW x, NEW V, x = r.iso, V = r.visited PROVE IsoHas(x, V)'
  <2>1. isos'[x] = IsoOn(V)
    BY <1>3, IsoOnHas DEF Tracing
  <2> QED
    BY <2>1, IsoHasNext
<1>4. isos'[r.iso] = [drivers |-> {u \in r.visited : Role(u)' = "driver"},
                      readers |-> {u \in r.visited : Role(u)' = "reader"},
                      type |-> TypeOf(TypesAt(trace[v].visited)')]
  BY <1>3, ZenonT(30) DEF IsoHas, TypeOf, TypesAt
<1>5. IsoHas(trace[v].iso, trace[v].visited)'
  BY <1>4 DEF IsoHas, TypeOf
<1>6. Comp(trace[v].term)' = Comp(d)
  BY <1>1, <1>2 DEF Comp, Closed
<1> QED
  BY <1>1, <1>2, <1>5, <1>6 DEF Tracing

(* A trace that ends has visited all that is connected. *)
LEMMA TraceEnds ==
  ASSUME Ready, NEW d \in TermIds, NEW V \in SUBSET Comp(d), d \in V,
         \A u \in V : Adj(u) \subseteq V
  PROVE  V = Comp(d)
<1>1. Closed(V) /\ V \in SUBSET TermIds
  BY CompFacts DEF Closed
<1> QED
  BY <1>1, CompFacts

(* A trace that is over has visited the whole connected set. *)
LEMMA StepEnds ==
  ASSUME Ready, NEW w \in Worker, NEW t \in TermIds, Tracing(w), Step(w, t), trace'[w].stack = <<>>
  PROVE  trace'[w].visited = Comp(trace[w].term)
<1> DEFINE d == trace[w].term
           V == trace'[w].visited
<1>1. /\ d \in TermIds /\ V = trace[w].visited \cup {t} /\ t \in Comp(d)
      /\ Stack(w) \subseteq {t} /\ Adj(t) \subseteq V
  BY RangeEmpty DEF Step, Tracing
<1>2. /\ trace[w].visited \subseteq Comp(d) /\ d \in trace[w].visited \cup Stack(w)
      /\ \A u \in trace[w].visited : Adj(u) \subseteq trace[w].visited \cup Stack(w)
  BY DEF Tracing, Stack
<1> HIDE DEF d, V
<1>3. V \in SUBSET Comp(d) /\ d \in V /\ \A u \in V : Adj(u) \subseteq V
  BY <1>1, <1>2
<1> QED
  BY <1>1, <1>3, TraceEnds DEF d, V

(* The drivers and traces under way after a step of thread w. *)
LEMMA StepSeeds ==
  ASSUME Ready, SeedsApart, NEW w \in Worker, NEW t \in TermIds, Active(w), Step(w, t),
         tasks' = tasks, TermIds' = TermIds
  PROVE  /\ SeedsApart'
         /\ \A v \in Worker : v # w => (Active(v)' <=> Active(v)) /\ trace'[v] = trace[v]
         /\ trace[w].term \in Seeds
         /\ Active(w)' => Seeds' = Seeds
         /\ ~Active(w)' => Seeds' = Seeds \ {trace[w].term}
<1>1. /\ \A v \in Worker : v # w => trace'[v] = trace[v]
      /\ trace'[w].term = trace[w].term
  BY DEF Step
<1>2. \A v \in Worker : v # w => (Active(v)' <=> Active(v))
  BY <1>1 DEF Active
<1>3. \A v \in Worker : trace'[v].term = trace[v].term
  BY <1>1
<1>4. SeedsApart'
  BY <1>2, <1>3 DEF SeedsApart
<1>5. trace[w].term \in Seeds
  BY DEF Seeds
<1>6. Seeds' = tasks \cup {trace[v].term : v \in {x \in Worker : Active(x)'}}
  BY <1>3 DEF Seeds
<1>7. Active(w)' => Seeds' = Seeds
  BY <1>2, <1>6 DEF Seeds
<1>8. ASSUME ~Active(w)' PROVE Seeds' = Seeds \ {trace[w].term}
  <2>1. \A v \in Worker : Active(v)' <=> Active(v) /\ v # w
    BY <1>2, <1>8
  <2>2. Seeds' = tasks \cup {trace[v].term : v \in {x \in Worker : Active(x) /\ x # w}}
    BY <1>6, <2>1
  <2>3. trace[w].term \notin tasks
    BY DEF SeedsApart
  <2>4. \A v \in Worker : Active(v) /\ v # w => trace[v].term # trace[w].term
    BY DEF SeedsApart
  <2> QED
    BY <2>2, <2>3, <2>4 DEF Seeds
<1> QED
  BY <1>1, <1>2, <1>4, <1>5, <1>7, <1>8

(* What a step does to the labels. *)
LEMMA IsoOfStep ==
  ASSUME Ready, TraceTypes, Building, NEW w \in Worker, NEW t \in TermIds, Tracing(w), Step(w, t)
  PROVE  /\ isoOf' \in [TermIds -> 0 .. Len(isos)]
         /\ \A u \in TermIds : isoOf'[u] = isoOf[u] \/ (u = t /\ isoOf'[u] = trace[w].iso)
         /\ \/ t \in trace[w].visited /\ isoOf' = isoOf
            \/ Role(t) = "driver" /\ phase = "round1"
            \/ isoOf'[t] = trace[w].iso
         /\ phase = "round1" => \A u \in TermIds : Role(u) = "driver" => isoOf'[u] = isoOf[u]
<1>1. isoOf \in [TermIds -> 0 .. Len(isos)]
  BY DEF TraceTypes, Building
<1>2. trace[w].iso \in 0 .. Len(isos)
  BY DEF Tracing
<1>3. \/ isoOf' = isoOf /\ t \in trace[w].visited
      \/ isoOf' = isoOf /\ Role(t) = "driver" /\ phase = "round1"
      \/ isoOf' = [isoOf EXCEPT ![t] = trace[w].iso] /\ ~(Role(t) = "driver" /\ phase = "round1")
  BY DEF Step
<1> QED
  BY <1>1, <1>2, <1>3

(* The parts of the invariant no round changes. *)
LEMMA VisitCommon ==
  ASSUME Ready, TraceTypes, Building, Building', SeedsApart, SameGraph, tasks' = tasks,
         \A d \in tasks : IsoHas(isoOf[d], {}),
         \A v \in Worker : Active(v) => Tracing(v),
         NEW w \in Worker, NEW t \in TermIds, Active(w), Step(w, t),
         \A d \in Seeds : isoOf'[d] = isoOf[d] /\ isoOf[d] # None,
         \A d \in Seeds : isoOf[d] = trace[w].iso => d = trace[w].term
  PROVE  /\ TraceTypes' /\ SeedsApart'
         /\ \A d \in tasks' : IsoHas(isoOf[d], {})'
         /\ \A v \in Worker : Active(v)' => Tracing(v)'
<1>0. /\ isos' \in Seq(IsoRecord) /\ Len(isos') = Len(isos)
      /\ trace' \in [Worker -> TraceRecord]
      /\ \A y \in 1 .. Len(isos) : y # trace[w].iso => isos'[y] = isos[y]
      /\ \A v \in Worker : v # w => trace'[v] = trace[v]
  BY DEF Step
<1>1. TermIds' = TermIds
  BY DEF SameGraph
<1>2. TraceTypes'
  <2>1. isoOf' \in [TermIds' -> 0 .. Len(isos')]
    BY <1>0, <1>1, IsoOfStep
  <2> QED
    BY <1>0, <2>1 DEF TraceTypes, Building
<1>3. SeedsApart'
  BY <1>1, StepSeeds
<1>4. ASSUME NEW d \in tasks' PROVE IsoHas(isoOf[d], {})'
  <2>1. d \in Seeds /\ d # trace[w].term /\ d \in TermIds
    BY <1>4 DEF Seeds, SeedsApart
  <2>2. isoOf[d] \in 1 .. Len(isos)
    <3>1. isoOf[d] \in 0 .. Len(isos) /\ isoOf[d] # 0 /\ Len(isos) \in Nat
      BY <2>1, DNLAssumption DEF TraceTypes, Building
    <3> QED
      BY <3>1
  <2>3. isos'[isoOf[d]] = isos[isoOf[d]]
    BY <1>0, <2>1, <2>2
  <2>4. isos[isoOf[d]] = IsoOn({})
    BY <1>4, IsoOnHas
  <2>5. ASSUME NEW x, x = isoOf'[d] PROVE IsoHas(x, {})'
    <3>1. isos'[x] = IsoOn({})
      BY <2>1, <2>3, <2>4, <2>5
    <3> QED
      BY <3>1, IsoHasNext
  <2> QED
    BY <2>5 DEF IsoHas, TypeOf
<1>5. ASSUME NEW v \in Worker, Active(v)' PROVE Tracing(v)'
  <2>1. CASE v = w
    <3>1. isoOf'[trace[w].term] = trace[w].iso
      BY StepSeeds, <1>1 DEF Tracing
    <3> QED
      BY <2>1, <3>1, TracingStep
  <2>2. CASE v # w
    <3>1. Active(v) /\ trace'[v] = trace[v]
      BY <2>2, <1>0, <1>5 DEF Active
    <3>2. trace[v].term \in Seeds /\ trace[v].term # trace[w].term
      BY <2>2, <3>1 DEF Seeds, SeedsApart
    <3>3. trace[v].iso = isoOf[trace[v].term] /\ trace[v].iso \in 1 .. Len(isos)
      BY <3>1 DEF Tracing
    <3>4. isos'[trace[v].iso] = isos[trace[v].iso]
      BY <1>0, <3>2, <3>3
    <3> QED
      BY <1>0, <3>1, <3>2, <3>3, <3>4, TracingFrame
  <2> QED
    BY <2>1, <2>2
<1> QED
  BY <1>2, <1>3, <1>4, <1>5

(* Round 1: each driver keeps the iso it was given, and its trace finds    *)
(* all that is connected.                                                  *)
LEMMA VisitRound1 ==
  ASSUME Ready, TraceTypes, SeedsApart, SameGraph, tasks' = tasks, phase = "round1", phase' = phase,
         Round1, \A v \in Worker : Active(v) => Tracing(v),
         NEW w \in Worker, NEW t \in TermIds, Active(w), Tracing(w), Step(w, t)
  PROVE  /\ Round1'
         /\ \A d \in Seeds : isoOf'[d] = isoOf[d] /\ isoOf[d] # None
         /\ \A d \in Seeds : isoOf[d] = trace[w].iso => d = trace[w].term
<1> DEFINE e == trace[w].term
           x == trace[w].iso
<1>1. Building
  BY DEF Building
<1>2. /\ isoOf' \in [TermIds -> 0 .. Len(isos)]
      /\ \A u \in TermIds : isoOf'[u] = isoOf[u] \/ (u = t /\ isoOf'[u] = x)
      /\ \/ t \in trace[w].visited /\ isoOf' = isoOf
         \/ Role(t) = "driver" /\ phase = "round1"
         \/ isoOf'[t] = x
      /\ \A u \in TermIds : Role(u) = "driver" => isoOf'[u] = isoOf[u]
  BY <1>1, IsoOfStep
<1>3. /\ e \in TermIds /\ x \in 1 .. Len(isos) /\ x = isoOf[e] /\ x # None
      /\ e \in Drivers
  BY DNLAssumption DEF Tracing, Round1
<1>4. Drivers \subseteq TermIds /\ \A d \in Drivers : isoOf'[d] = isoOf[d]
  BY <1>2, DriverFacts
<1>5. Seeds \subseteq Drivers
  BY DEF Seeds, Round1
<1>6. /\ TermIds' = TermIds /\ Drivers' = Drivers /\ \A d : Comp(d)' = Comp(d)
  BY DEF SameGraph
<1>7. /\ \A v \in Worker : v # w => (Active(v)' <=> Active(v)) /\ trace'[v] = trace[v]
      /\ e \in Seeds
      /\ Active(w)' => Seeds' = Seeds
      /\ ~Active(w)' => Seeds' = Seeds \ {e}
  BY <1>6, StepSeeds
<1>8. /\ \A y \in 1 .. Len(isos) : y # x => isos'[y] = isos[y]
      /\ isos'[x] = IsoOn(trace'[w].visited) /\ Len(isos') = Len(isos)
      /\ trace'[w].term = e /\ trace'[w].visited = trace[w].visited \cup {t} /\ t \in Comp(e)
  BY DEF Step
<1>9. \A d \in Drivers : isoOf[d] = x => d = e
  BY <1>3 DEF Round1
<1>10. ASSUME NEW d \in Drivers, d \notin Seeds', d # e PROVE d \notin Seeds
  BY <1>7, <1>10
<1>11. ASSUME e \notin Seeds' PROVE trace'[w].visited = Comp(e)
  <2>1. trace'[w].stack = <<>>
    BY <1>7, <1>11 DEF Active
  <2> QED
    BY <2>1, StepEnds
<1>12. \A u \in trace'[w].visited : isoOf'[u] # None
  <2>1. trace[w].visited \subseteq TermIds
    BY <1>3, CompFacts DEF Tracing
  <2>2. \A u \in trace[w].visited : isoOf[u] # None
    BY DEF Round1
  <2>3. Role(t) = "driver" => isoOf'[t] # None
    <3>1. NetSet(e) # {}
      BY <1>3, DriverFacts
    <3>2. Role(t) = "driver" => t \in Drivers
      BY <3>1, <1>3, <1>8, CompDrivers
    <3> QED
      BY <3>2, <1>4 DEF Round1
  <2> QED
    BY <2>1, <2>2, <2>3, <1>2, <1>3, <1>8
<1> HIDE DEF e, x
<1>20. tasks' \subseteq Drivers'
  BY <1>6 DEF Round1
<1>21. \A d \in Drivers' : isoOf'[d] # None
  BY <1>4, <1>6 DEF Round1
<1>22. \A d, f \in Drivers' : isoOf'[d] = isoOf'[f] => d = f
  BY <1>4, <1>6 DEF Round1
<1>23. \A y \in 1 .. Len(isos') : \E d \in Drivers' : isoOf'[d] = y
  BY <1>4, <1>6, <1>8 DEF Round1
<1>24. \A v \in Worker : Active(v)' => trace'[v].term \in Drivers'
  BY <1>3, <1>6, <1>7, <1>8 DEF Round1
<1>25. ASSUME NEW d \in Drivers', d \notin Seeds' PROVE IsoHas(isoOf[d], Comp(d))'
  <2>1. ASSUME NEW y, NEW V, y = isoOf'[d], V = Comp(d) PROVE IsoHas(y, V)'
    <3>1. CASE d = e
      <4>1. V = trace'[w].visited /\ y = x
        BY <3>1, <2>1, <1>3, <1>4, <1>11, <1>25
      <4>2. isos'[y] = IsoOn(V)
        BY <4>1, <1>8
      <4> QED
        BY <4>2, IsoHasNext
    <3>2. CASE d # e
      <4>1. d \in Drivers \ Seeds
        BY <3>2, <1>6, <1>10, <1>25
      <4>2. isos[isoOf[d]] = IsoOn(Comp(d))
        BY <4>1, IsoOnHas DEF Round1
      <4>3. isoOf[d] # x /\ isoOf[d] \in 1 .. Len(isos)
        <5>1. isoOf[d] \in 0 .. Len(isos) /\ isoOf[d] # 0 /\ Len(isos) \in Nat
          BY <4>1, <1>4, DNLAssumption DEF TraceTypes, Round1
        <5> QED
          BY <5>1, <3>2, <4>1, <1>9
      <4>4. isos'[y] = IsoOn(V)
        BY <4>1, <4>2, <4>3, <2>1, <1>4, <1>8
      <4> QED
        BY <4>4, IsoHasNext
    <3> QED
      BY <3>1, <3>2
  <2>2. Comp(d)' = Comp(d)
    BY <1>6
  <2> QED
    BY <2>1, <2>2 DEF IsoHas, TypeOf, TypesAt
<1>26. \A u \in TermIds' \ Drivers' : isoOf'[u] # None => \E d \in Drivers' : u \in Comp(d)' /\ isoOf'[u] = isoOf'[d]
  <2> SUFFICES ASSUME NEW u \in TermIds \ Drivers, isoOf'[u] # None
               PROVE  \E d \in Drivers : u \in Comp(d) /\ isoOf'[u] = isoOf'[d]
    BY <1>6
  <2>1. CASE isoOf'[u] = isoOf[u]
    BY <2>1, <1>4 DEF Round1
  <2>2. CASE u = t /\ isoOf'[u] = x
    BY <2>2, <1>3, <1>4, <1>8
  <2> QED
    BY <2>1, <2>2, <1>2
<1>27. \A v \in Worker : Active(v)' => \A u \in trace'[v].visited : isoOf'[u] # None
  <2> SUFFICES ASSUME NEW v \in Worker, Active(v)', v # w, NEW u \in trace[v].visited
               PROVE  isoOf'[u] # None
    BY <1>7, <1>12
  <2>1. isoOf[u] # None
    BY <1>7 DEF Round1
  <2>2. u \in TermIds
    BY <1>7, CompFacts DEF Tracing
  <2> QED
    BY <2>1, <2>2, <1>3, <1>2
<1>28. \A d \in Drivers' \ Seeds' : \A u \in Comp(d)' : isoOf'[u] # None
  <2> SUFFICES ASSUME NEW d \in Drivers, d \notin Seeds', NEW u \in Comp(d) PROVE isoOf'[u] # None
    BY <1>6
  <2>1. CASE d = e
    BY <2>1, <1>11, <1>12
  <2>2. CASE d # e
    <3>1. isoOf[u] # None /\ u \in TermIds
      BY <2>2, <1>4, <1>10, CompFacts DEF Round1
    <3> QED
      BY <3>1, <1>2, <1>3
  <2> QED
    BY <2>1, <2>2
<1>29. Round1'
  BY <1>20, <1>21, <1>22, <1>23, <1>24, <1>25, <1>26, <1>27, <1>28 DEF Round1
<1>30. \A d \in Seeds : isoOf'[d] = isoOf[d] /\ isoOf[d] # None
  BY <1>4, <1>5 DEF Round1
<1>31. \A d \in Seeds : isoOf[d] = trace[w].iso => d = trace[w].term
  BY <1>5, <1>9 DEF e, x
<1> QED
  BY <1>29, <1>30, <1>31

(* Round 2 and the last pass: a trace gives all it meets its own iso, and  *)
(* no two traces meet.                                                     *)
LEMMA VisitSettling ==
  ASSUME Ready, TraceTypes, SeedsApart, SameGraph, tasks' = tasks, again' = again,
         phase \in {"round2", "dangling"}, phase' = phase,
         Settling, \A v \in Worker : Active(v) => Tracing(v),
         NEW w \in Worker, NEW t \in TermIds, Active(w), Tracing(w), Step(w, t)
  PROVE  /\ Settling'
         /\ \A d \in Seeds : isoOf'[d] = isoOf[d] /\ isoOf[d] # None
         /\ \A d \in Seeds : isoOf[d] = trace[w].iso => d = trace[w].term
<1> DEFINE e == trace[w].term
           x == trace[w].iso
<1>1. Building /\ phase # "round1"
  BY DEF Building
<1>2. isoOf' \in [TermIds -> 0 .. Len(isos)] /\ isoOf \in [TermIds -> 0 .. Len(isos)]
  BY <1>1, IsoOfStep DEF TraceTypes, Building
<1>3. /\ e \in TermIds /\ x \in 1 .. Len(isos) /\ x = isoOf[e] /\ x # None /\ e \in Seeds
  BY DNLAssumption DEF Tracing, Seeds
<1>4. /\ \A u \in TermIds : u # t => isoOf'[u] = isoOf[u]
      /\ isoOf'[t] = x
  <2>1. t \in trace[w].visited => isoOf[t] = x
    BY DEF Settling
  <2> QED
    BY <2>1, <1>1, IsoOfStep
<1>5. Seeds \subseteq TermIds
  BY DEF Seeds, SeedsApart, Tracing
<1>6. TermIds' = TermIds /\ Drivers' = Drivers /\ \A d : Comp(d)' = Comp(d) /\ Several(d)' = Several(d)
  BY DEF SameGraph
<1>7. /\ \A v \in Worker : v # w => (Active(v)' <=> Active(v)) /\ trace'[v] = trace[v]
      /\ Active(w)' => Seeds' = Seeds
      /\ ~Active(w)' => Seeds' = Seeds \ {e}
  BY <1>6, StepSeeds
<1>8. /\ \A y \in 1 .. Len(isos) : y # x => isos'[y] = isos[y]
      /\ isos'[x] = IsoOn(trace'[w].visited) /\ Len(isos') = Len(isos)
      /\ trace'[w].term = e /\ trace'[w].visited = trace[w].visited \cup {t} /\ t \in Comp(e)
      /\ trace'[w].iso = x
  BY DEF Step
<1>9. ASSUME e \notin Seeds' PROVE trace'[w].visited = Comp(e)
  <2>1. trace'[w].stack = <<>>
    BY <1>3, <1>7, <1>9 DEF Active
  <2> QED
    BY <2>1, StepEnds
<1>10. /\ \A u \in TermIds : u \in Comp(u)
       /\ \A u \in TermIds : \A v \in Comp(u) : v \in TermIds /\ u \in Comp(v) /\ Comp(v) = Comp(u)
  BY CompFacts, CompSame
<1>11. isos[x].type # "SHADOW" /\ isos'[x].type # "SHADOW"
  <2>1. isos[x] = IsoOn(trace[w].visited)
    BY IsoOnHas DEF Tracing
  <2>2. \A V : TypeOf(TypesAt(V)) # "SHADOW"
    BY TypeOfRange
  <2> QED
    BY <2>1, <2>2, <1>8 DEF IsoOn
<1>12. \A u \in trace[w].visited : isoOf[u] = x /\ u \in Comp(e)
  BY DEF Settling, Tracing
<1> HIDE DEF e, x
<1>13. /\ \A d, f \in Seeds : f \in Comp(d) => f = d
       /\ \A d \in Seeds : isoOf[d] # None
       /\ \A d \in Seeds : \A u \in TermIds : isoOf[u] = isoOf[d] => u \in Comp(d)
       /\ \A d \in Seeds : \A u \in Comp(d) : isoOf[u] \in {isoOf[d], None} \/ Shadow(isoOf[u])
       /\ \A u \in TermIds : isoOf[u] # None /\ (\A d \in Seeds : u \notin Comp(d)) =>
            /\ \A v \in TermIds : isoOf[v] = isoOf[u] <=> v \in Comp(u)
            /\ IsoHas(isoOf[u], Comp(u))
       /\ \A y \in 1 .. Len(isos) : Shadow(y) \/ (\A u \in TermIds : isoOf[u] # y) =>
            isos[y].drivers = {} /\ isos[y].readers = {}
       /\ \A d \in Drivers : \A u \in Comp(d) : isoOf[u] # None
  BY DEF Settling
<1>14. \A d \in Seeds : t \in Comp(d) => d = e
  BY <1>3, <1>5, <1>8, <1>10, <1>13
<1>15. \A d \in Seeds : isoOf'[d] = isoOf[d] /\ isoOf[d] # None
  <2> SUFFICES ASSUME NEW d \in Seeds PROVE isoOf'[d] = isoOf[d]
    BY <1>13
  <2>1. CASE d = t
    BY <2>1, <1>3, <1>4, <1>5, <1>10, <1>14
  <2> QED
    BY <2>1, <1>4, <1>5
<1>16. \A d \in Seeds : isoOf[d] = x => d = e
  BY <1>3, <1>5, <1>13
<1>17. Seeds' \subseteq Seeds /\ Seeds \subseteq Seeds' \cup {e}
  BY <1>7
<1>20. tasks' \subseteq again' /\ AgainOK'
  BY <1>6 DEF Settling, AgainOK
<1>21. \A d, f \in Seeds' : f \in Comp(d)' => f = d
  BY <1>6, <1>13, <1>17
<1>22. \A d \in Seeds' : isoOf'[d] # None
  BY <1>15, <1>17
<1>23. \A d \in Seeds' : \A u \in TermIds' : isoOf'[u] = isoOf'[d] => u \in Comp(d)'
  <2> SUFFICES ASSUME NEW d \in Seeds, NEW u \in TermIds, isoOf'[u] = isoOf[d] PROVE u \in Comp(d)
    BY <1>6, <1>15, <1>17
  <2>1. CASE u = t
    BY <2>1, <1>4, <1>8, <1>16
  <2>2. CASE u # t
    BY <2>2, <1>4, <1>13
  <2> QED
    BY <2>1, <2>2
<1>24. \A d \in Seeds' : \A u \in Comp(d)' : isoOf'[u] \in {isoOf'[d], None} \/ Shadow(isoOf[u])'
  <2> SUFFICES ASSUME NEW d \in Seeds, NEW u \in Comp(d) PROVE isoOf'[u] \in {isoOf[d], None} \/ Shadow(isoOf[u])'
    BY <1>6, <1>15, <1>17
  <2>1. u \in TermIds
    BY <1>5, <1>10
  <2>2. CASE u = t
    BY <2>2, <1>3, <1>4, <1>14
  <2>3. CASE u # t
    <3>1. isoOf'[u] = isoOf[u]
      BY <2>1, <2>3, <1>4
    <3>2. CASE Shadow(isoOf[u])
      <4>1. isoOf[u] # 0 /\ isos[isoOf[u]].type = "SHADOW" /\ isoOf[u] \in 0 .. Len(isos)
        BY <3>2, <2>1, <1>2, DNLAssumption DEF Shadow
      <4>2. isoOf[u] \in 1 .. Len(isos) /\ isoOf[u] # x
        <5>1. Len(isos) \in Nat
          BY DEF TraceTypes
        <5> QED
          BY <5>1, <4>1, <1>11
      <4>3. isos'[isoOf'[u]].type = "SHADOW" /\ isoOf'[u] # None
        BY <3>1, <4>1, <4>2, <1>8, DNLAssumption
      <4> QED
        BY <4>3 DEF Shadow
    <3> QED
      BY <3>1, <3>2, <1>13
  <2> QED
    BY <2>2, <2>3
<1>25. \A v \in Worker : Active(v)' => \A u \in trace'[v].visited : isoOf'[u] = trace'[v].iso
  <2>1. \A u \in trace'[w].visited : isoOf'[u] = x
    BY <1>3, <1>4, <1>8, <1>10, <1>12
  <2>2. ASSUME NEW v \in Worker, v # w, Active(v)', NEW u \in trace'[v].visited
        PROVE  isoOf'[u] = trace'[v].iso
    <3>1. Active(v) /\ trace'[v] = trace[v] /\ Tracing(v)
      BY <2>2, <1>7
    <3>2. isoOf[u] = trace[v].iso /\ u \in Comp(trace[v].term) /\ trace[v].term \in Seeds
      BY <3>1, <2>2 DEF Settling, Tracing, Seeds
    <3>3. trace[v].term # e
      BY <3>1, <2>2 DEF SeedsApart, e
    <3>4. u # t /\ u \in TermIds
      BY <3>2, <3>3, <1>5, <1>10, <1>14
    <3> QED
      BY <3>1, <3>2, <3>4, <1>4
  <2> QED
    BY <2>1, <2>2, <1>8
<1>26. ASSUME NEW u \in TermIds', isoOf'[u] # None, \A d \in Seeds' : u \notin Comp(d)'
       PROVE  /\ \A v \in TermIds' : isoOf'[v] = isoOf'[u] <=> v \in Comp(u)'
              /\ IsoHas(isoOf[u], Comp(u))'
  <2>0. u \in TermIds /\ \A d \in Seeds' : u \notin Comp(d)
    BY <1>6, <1>26
  <2>1. CASE u \in Comp(e)
    <3>1. trace'[w].visited = Comp(e) /\ Comp(u) = Comp(e)
      BY <2>0, <2>1, <1>3, <1>9, <1>10
    <3>2. \A v \in Comp(e) : isoOf'[v] = x
      <4> SUFFICES ASSUME NEW v \in Comp(e) PROVE isoOf'[v] = x
        OBVIOUS
      <4>1. v \in TermIds /\ (v = t \/ v \in trace[w].visited)
        <5>1. v \in TermIds
          BY <1>3, <1>10
        <5>2. v \in trace'[w].visited
          BY <3>1
        <5>3. v = t \/ v \in trace[w].visited
          BY <5>2, <1>8
        <5> QED
          BY <5>1, <5>3
      <4> QED
        BY <4>1, <1>4, <1>12
    <3>3. \A v \in TermIds : isoOf'[v] = x => v \in Comp(e)
      BY <1>3, <1>4, <1>8, <1>13
    <3>4. isoOf'[u] = x
      BY <3>2, <2>1
    <3>5. ASSUME NEW y, NEW V, y = isoOf'[u], V = Comp(u) PROVE IsoHas(y, V)'
      <4>1. isos'[y] = IsoOn(V)
        BY <3>1, <3>4, <3>5, <1>8
      <4> QED
        BY <4>1, IsoHasNext
    <3>6. IsoHas(isoOf[u], Comp(u))'
      BY <3>5, <1>6 DEF IsoHas, TypeOf, TypesAt
    <3> QED
      BY <3>1, <3>2, <3>3, <3>4, <3>6, <1>6
  <2>2. CASE u \notin Comp(e)
    <3>1. u # t /\ isoOf'[u] = isoOf[u] /\ \A d \in Seeds : u \notin Comp(d)
      BY <2>0, <2>2, <1>4, <1>8, <1>17
    <3>2. /\ \A v \in TermIds : isoOf[v] = isoOf[u] <=> v \in Comp(u)
          /\ IsoHas(isoOf[u], Comp(u))
      BY <2>0, <3>1, <1>13, <1>26
    <3>3. isoOf[u] # x
      BY <2>0, <2>2, <1>3, <1>13
    <3>4. t \notin Comp(u)
      BY <2>0, <2>2, <1>3, <1>8, <1>10
    <3>5. \A v \in TermIds : isoOf'[v] = isoOf'[u] <=> v \in Comp(u)
      BY <3>1, <3>2, <3>3, <3>4, <1>4
    <3>6. isoOf[u] \in 1 .. Len(isos)
      <4>1. isoOf[u] \in 0 .. Len(isos) /\ isoOf[u] # 0 /\ Len(isos) \in Nat
        BY <2>0, <3>1, <1>2, <1>26, DNLAssumption DEF TraceTypes
      <4> QED
        BY <4>1
    <3>7. ASSUME NEW y, NEW V, y = isoOf'[u], V = Comp(u) PROVE IsoHas(y, V)'
      <4>1. isos'[y] = IsoOn(V)
        BY <3>1, <3>2, <3>3, <3>6, <3>7, <1>8, IsoOnHas
      <4> QED
        BY <4>1, IsoHasNext
    <3>8. IsoHas(isoOf[u], Comp(u))'
      BY <3>7, <1>6 DEF IsoHas, TypeOf, TypesAt
    <3> QED
      BY <3>5, <3>8, <1>6
  <2> QED
    BY <2>1, <2>2
<1>27. ASSUME NEW y \in 1 .. Len(isos'), Shadow(y)' \/ (\A u \in TermIds' : isoOf'[u] # y)
       PROVE  isos'[y].drivers = {} /\ isos'[y].readers = {}
  <2>1. y # x
    <3>1. ~(y = x /\ Shadow(y)')
      BY <1>11 DEF Shadow
    <3>2. isoOf'[e] = x
      BY <1>3, <1>15
    <3> QED
      BY <3>1, <3>2, <1>3, <1>6, <1>27
  <2>2. y \in 1 .. Len(isos) /\ isos'[y] = isos[y]
    BY <2>1, <1>8
  <2>3. Shadow(y)' => Shadow(y)
    BY <2>2 DEF Shadow
  <2>4. ASSUME NEW u \in TermIds, isoOf[u] = y, \A v \in TermIds : isoOf'[v] # y PROVE Shadow(y)
    <3>1. u = t
      BY <2>4, <1>4
    <3>2. y # None
      BY <2>2, DNLAssumption
    <3> QED
      BY <3>1, <3>2, <2>1, <2>4, <1>3, <1>8, <1>13
  <2> QED
    BY <2>2, <2>3, <2>4, <1>6, <1>13, <1>27
<1>28. \A d \in Drivers' : \A u \in Comp(d)' : isoOf'[u] # None
  <2>1. Drivers \subseteq TermIds
    BY DriverFacts
  <2> QED
    BY <2>1, <1>3, <1>4, <1>6, <1>10, <1>13
<1>29. Settling'
  BY <1>20, <1>21, <1>22, <1>23, <1>24, <1>25, <1>26, <1>27, <1>28 DEF Settling
<1> QED
  BY <1>29, <1>15, <1>16 DEF e, x

(* The last pass goes on. *)
LEMMA VisitDangling ==
  ASSUME Ready, SameGraph, TraceTypes, tasks' = tasks, DanglingPass,
         NEW w \in Worker, NEW t \in TermIds, Active(w), Tracing(w), Step(w, t)
  PROVE  DanglingPass'
<1>1. w = Main
  BY DEF DanglingPass
<1>2. /\ \A v \in Worker : v # Main => trace'[v] = trace[v]
      /\ trace'[Main].term = trace[Main].term /\ trace'[Main].iso = trace[Main].iso
      /\ trace'[Main].visited = trace[Main].visited \cup {t} /\ t \in Comp(trace[Main].term)
      /\ isos'[trace[Main].iso] = IsoOn(trace'[Main].visited) /\ Len(isos') = Len(isos)
  BY <1>1 DEF Step
<1>3. /\ tasks = {} /\ \A v \in Worker \ {Main} : ~Active(v)
      /\ NetSet(trace[Main].term) # {}
      /\ \A d \in Drivers : d \notin Comp(trace[Main].term)
  BY <1>1 DEF DanglingPass
<1>4. PICK e \in TermIds : e = trace[Main].term /\ e = trace'[Main].term
  BY <1>1, <1>2 DEF Tracing
<1>5. Drivers' = Drivers /\ Comp(e)' = Comp(e) /\ NetSet(e)' = NetSet(e)
  BY DEF SameGraph
<1>6. trace'[Main].visited \subseteq Comp(e)
  BY <1>1, <1>2, <1>4 DEF Tracing
<1>7. isos'[trace'[Main].iso].drivers = {}
  <2>1. {u \in Comp(e) : Role(u) = "driver"} = {}
    BY <1>3, <1>4, CompDrivers
  <2>2. {u \in trace'[Main].visited : Role(u) = "driver"} = {}
    BY <2>1, <1>6
  <2> QED
    BY <2>2, <1>2 DEF IsoOn
<1>8. trace'[Main].iso \in 1 .. Len(isos')
  BY <1>1, <1>2 DEF Tracing
<1>9. \A v \in Worker \ {Main} : ~Active(v)'
  BY <1>2, <1>3 DEF Active
<1>10. (NetSet(trace[Main].term) # {})' /\ \A d \in Drivers' : d \notin Comp(trace[Main].term)'
  <2>1. NetSet(trace[Main].term)' = NetSet(e)' /\ Comp(trace[Main].term)' = Comp(e)'
    BY <1>4 DEF NetSet, Comp, BitNet, TermNet
  <2> QED
    BY <2>1, <1>3, <1>4, <1>5
<1> QED
  BY <1>3, <1>7, <1>8, <1>9, <1>10 DEF DanglingPass

(* Visit keeps Traced, in each phase. *)
LEMMA VisitTraced ==
  ASSUME Ready, PlainLeaves, Traced, NEW w \in Worker, Visit(w)
  PROVE  Traced'
<1>1. Active(w)
  BY DEF Visit, Active
<1>2. phase \in {"round1", "round2", "dangling"}
  BY <1>1 DEF Traced, TraceTypes
<1>3. Building /\ Building' /\ phase' = phase /\ tasks' = tasks /\ again' = again
  BY <1>2 DEF Building, Visit
<1>4. SameGraph
  BY GraphFrame DEF Visit
<1>5. /\ TraceTypes /\ SeedsApart /\ (\A d \in tasks : IsoHas(isoOf[d], {}))
      /\ \A v \in Worker : Active(v) => Tracing(v)
  BY <1>2 DEF Traced
<1>6. Tracing(w)
  BY <1>1, <1>5
<1>7. PICK t \in TermIds : Step(w, t)
  BY <1>5, <1>6, VisitStep
<1>8. ASSUME \A d \in Seeds : isoOf'[d] = isoOf[d] /\ isoOf[d] # None,
             \A d \in Seeds : isoOf[d] = trace[w].iso => d = trace[w].term
      PROVE  /\ TraceTypes' /\ SeedsApart'
             /\ \A d \in tasks' : IsoHas(isoOf[d], {})'
             /\ \A v \in Worker : Active(v)' => Tracing(v)'
  BY <1>1, <1>3, <1>4, <1>5, <1>7, <1>8, VisitCommon
<1>9. CASE phase = "round1"
  <2>1. Round1
    BY <1>9 DEF Traced
  <2>2. /\ Round1'
        /\ \A d \in Seeds : isoOf'[d] = isoOf[d] /\ isoOf[d] # None
        /\ \A d \in Seeds : isoOf[d] = trace[w].iso => d = trace[w].term
    BY <2>1, <1>1, <1>3, <1>4, <1>5, <1>6, <1>7, <1>9, VisitRound1
  <2> QED
    BY <2>2, <1>3, <1>8, <1>9 DEF Traced
<1>10. CASE phase \in {"round2", "dangling"}
  <2>1. Settling
    BY <1>10 DEF Traced
  <2>2. /\ Settling'
        /\ \A d \in Seeds : isoOf'[d] = isoOf[d] /\ isoOf[d] # None
        /\ \A d \in Seeds : isoOf[d] = trace[w].iso => d = trace[w].term
    BY <2>1, <1>1, <1>3, <1>4, <1>5, <1>6, <1>7, <1>10, VisitSettling
  <2>3. phase = "dangling" => DanglingPass'
    BY <1>1, <1>3, <1>4, <1>5, <1>6, <1>7, VisitDangling DEF Traced
  <2> QED
    BY <2>2, <2>3, <1>3, <1>8, <1>10 DEF Traced
<1> QED
  BY <1>2, <1>9, <1>10

(* The labels stay, and so do the isos they name. *)
LEMMA SettlingFrame ==
  ASSUME SameGraph, Settling, isoOf' = isoOf, again' = again, tasks' \subseteq tasks, Seeds' = Seeds,
         isoOf \in [TermIds -> 0 .. Len(isos)], Len(isos) \in Nat,
         \A y \in 1 .. Len(isos) : isos'[y] = isos[y],
         \A y \in 1 .. Len(isos') : y \notin 1 .. Len(isos) => isos'[y].drivers = {} /\ isos'[y].readers = {},
         \A w \in Worker : Active(w)' => \A u \in trace'[w].visited : isoOf'[u] = trace'[w].iso
  PROVE  Settling'
<1>1. /\ TermIds' = TermIds /\ Drivers' = Drivers
      /\ \A u : Comp(u)' = Comp(u) /\ Several(u)' = Several(u)
  BY DEF SameGraph
<1>2. \A u \in TermIds : isoOf[u] # None => isoOf[u] \in 1 .. Len(isos)
  <2> SUFFICES ASSUME NEW u \in TermIds, isoOf[u] # None PROVE isoOf[u] \in 1 .. Len(isos)
    OBVIOUS
  <2>1. isoOf[u] \in 0 .. Len(isos) /\ isoOf[u] # 0
    BY DNLAssumption
  <2> QED
    BY <2>1
<1>3. AgainOK'
  BY <1>1 DEF Settling, AgainOK
<1>4. \A d \in Seeds' : \A u \in Comp(d)' : isoOf'[u] \in {isoOf'[d], None} \/ Shadow(isoOf[u])'
  <2>1. ASSUME NEW d \in Seeds, NEW u \in Comp(d), Shadow(isoOf[u]) PROVE Shadow(isoOf[u])'
    <3>1. isoOf[u] # None /\ isos[isoOf[u]].type = "SHADOW" /\ u \in TermIds
      BY <2>1 DEF Shadow, Comp
    <3>2. isos'[isoOf'[u]].type = "SHADOW" /\ isoOf'[u] # None
      BY <3>1, <1>2
    <3> QED
      BY <3>2 DEF Shadow
  <2> QED
    BY <2>1, <1>1 DEF Settling
<1>5. \A u \in TermIds' : isoOf'[u] # None /\ (\A d \in Seeds' : u \notin Comp(d)') =>
         /\ \A v \in TermIds' : isoOf'[v] = isoOf'[u] <=> v \in Comp(u)'
         /\ IsoHas(isoOf[u], Comp(u))'
  <2>1. ASSUME NEW u \in TermIds, isoOf[u] # None, \A d \in Seeds : u \notin Comp(d)
        PROVE  /\ \A v \in TermIds : isoOf[v] = isoOf[u] <=> v \in Comp(u)
               /\ IsoHas(isoOf[u], Comp(u))'
    <3>1. /\ \A v \in TermIds : isoOf[v] = isoOf[u] <=> v \in Comp(u)
          /\ IsoHas(isoOf[u], Comp(u))
      BY <2>1 DEF Settling
    <3>2. ASSUME NEW y, NEW V, y = isoOf[u], V = Comp(u) PROVE IsoHas(y, V)'
      <4>1. isos'[y] = IsoOn(V)
        BY <2>1, <3>1, <3>2, <1>2, IsoOnHas
      <4> QED
        BY <4>1, IsoHasNext
    <3>3. Comp(u)' = Comp(u)
      BY <1>1
    <3> QED
      BY <3>1, <3>2, <3>3 DEF IsoHas, TypeOf, TypesAt
  <2> QED
    BY <2>1, <1>1
<1>6. /\ tasks' \subseteq again'
      /\ \A d, e \in Seeds' : e \in Comp(d)' => e = d
      /\ \A d \in Seeds' : isoOf'[d] # None
      /\ \A d \in Seeds' : \A u \in TermIds' : isoOf'[u] = isoOf'[d] => u \in Comp(d)'
      /\ \A d \in Drivers' : \A u \in Comp(d)' : isoOf'[u] # None
  BY <1>1 DEF Settling
<1>7. \A y \in 1 .. Len(isos') : Shadow(y)' \/ (\A u \in TermIds' : isoOf'[u] # y) =>
        isos'[y].drivers = {} /\ isos'[y].readers = {}
  <2>1. \A y \in 1 .. Len(isos) : Shadow(y)' <=> Shadow(y)
    BY DEF Shadow
  <2> QED
    BY <2>1, <1>1 DEF Settling
<1> QED
  BY <1>3, <1>4, <1>5, <1>6, <1>7 DEF Settling

(* A thread takes a task. *)
LEMMA TakeTraced ==
  ASSUME Ready, Traced, NEW w \in Worker, NEW t \in tasks, TakeTask(w, t)
  PROVE  Traced'
<1>1. phase \in {"round1", "round2"} /\ phase' = phase /\ ~Active(w)
  BY DEF TakeTask, Active
<1>2. SameGraph /\ isoOf' = isoOf /\ isos' = isos /\ again' = again /\ tasks' = tasks \ {t}
  BY GraphFrame DEF TakeTask
<1>3. /\ TraceTypes /\ SeedsApart /\ (\A d \in tasks : IsoHas(isoOf[d], {}))
      /\ \A v \in Worker : Active(v) => Tracing(v)
  BY <1>1 DEF Traced
<1>4. /\ t \in TermIds /\ t \in Nat /\ isoOf \in [TermIds -> 0 .. Len(isos)] /\ Len(isos) \in Nat
      /\ trace \in [Worker -> TraceRecord]
  BY <1>1, <1>3, TermIdsFinite DEF SeedsApart, TraceTypes
<1>5. isoOf[t] # None
  <2>1. t \in Seeds
    BY DEF Seeds
  <2> QED
    BY <2>1, <1>1 DEF Traced, Round1, Settling
<1>6. isoOf[t] \in 1 .. Len(isos)
  <2>1. isoOf[t] \in 0 .. Len(isos) /\ isoOf[t] # 0
    BY <1>4, <1>5, DNLAssumption
  <2> QED
    BY <2>1, <1>4
<1> DEFINE q == [term |-> t, iso |-> isoOf[t], stack |-> <<t>>, visited |-> {}]
<1>7. trace' = [trace EXCEPT ![w] = q]
  BY DEF TakeTask, BeginTrace
<1>8. q \in TraceRecord
  <2>1. <<t>> \in Seq(Nat) /\ isoOf[t] \in Nat
    BY <1>4, <1>6
  <2> QED
    BY <2>1, <1>4 DEF TraceRecord
<1>9. /\ trace' \in [Worker -> TraceRecord] /\ trace'[w] = q
      /\ \A v \in Worker : v # w => trace'[v] = trace[v]
  BY <1>4, <1>7, <1>8
<1>10. /\ trace'[w].term = t /\ trace'[w].iso = isoOf[t] /\ trace'[w].stack = <<t>> /\ trace'[w].visited = {}
       /\ Active(w)'
  BY <1>9 DEF Active
<1> HIDE DEF q
<1>11. \A v \in Worker : v # w => (Active(v)' <=> Active(v)) /\ trace'[v].term = trace[v].term
  BY <1>9 DEF Active
<1>12. /\ TermIds' = TermIds /\ Drivers' = Drivers
       /\ \A u : Comp(u)' = Comp(u) /\ Several(u)' = Several(u) /\ Adj(u)' = Adj(u)
  BY <1>2 DEF SameGraph
<1>13. TraceTypes'
  BY <1>1, <1>2, <1>3, <1>9, <1>12 DEF TraceTypes
<1>14. SeedsApart'
  <2>1. \A v \in Worker : Active(v)' => trace'[v].term \notin tasks'
    BY <1>2, <1>3, <1>10, <1>11 DEF SeedsApart
  <2>2. \A v \in Worker : Active(v)' /\ v # w => trace'[v].term # t
    BY <1>3, <1>11 DEF SeedsApart
  <2>3. \A u, v \in Worker : Active(u)' /\ Active(v)' /\ trace'[u].term = trace'[v].term => u = v
    BY <1>3, <1>10, <1>11, <2>2 DEF SeedsApart
  <2> QED
    BY <2>1, <2>3, <1>2, <1>3, <1>12 DEF SeedsApart
<1>15. Seeds' = Seeds
  <2>1. ASSUME NEW d \in Seeds' PROVE d \in Seeds
    <3>1. CASE d \in tasks'
      BY <3>1, <1>2 DEF Seeds
    <3>2. CASE d \notin tasks'
      <4>1. PICK v \in Worker : Active(v)' /\ d = trace'[v].term
        BY <3>2 DEF Seeds
      <4> QED
        BY <4>1, <1>10, <1>11 DEF Seeds
    <3> QED
      BY <3>1, <3>2
  <2>2. ASSUME NEW d \in Seeds PROVE d \in Seeds'
    <3>1. CASE d = t
      BY <3>1, <1>10 DEF Seeds
    <3>2. CASE d # t /\ d \in tasks
      BY <3>2, <1>2 DEF Seeds
    <3>3. CASE d \notin tasks
      <4>1. PICK v \in Worker : Active(v) /\ d = trace[v].term
        BY <3>3 DEF Seeds
      <4>2. v # w
        BY <4>1, <1>1
      <4> QED
        BY <4>1, <4>2, <1>11 DEF Seeds
    <3> QED
      BY <3>1, <3>2, <3>3
  <2> QED
    BY <2>1, <2>2
<1>16. \A y, V : IsoHas(y, V)' <=> IsoHas(y, V)
  <2>1. ASSUME NEW y, NEW V PROVE IsoHas(y, V)' <=> IsoHas(y, V)
    <3>1. IsoHas(y, V)' <=> isos'[y] = [drivers |-> {u \in V : Role(u)' = "driver"},
                                        readers |-> {u \in V : Role(u)' = "reader"},
                                        type |-> TypeOf(TypesAt(V)')]
      BY DEF IsoHas, TypeOf
    <3> QED
      BY <3>1, <1>2 DEF IsoHas, SameGraph
  <2> QED
    BY <2>1
<1>17. \A d \in tasks' : IsoHas(isoOf[d], {})'
  <2>1. \A d \in tasks' : \A y : y = isoOf[d] => IsoHas(y, {})'
    BY <1>2, <1>3, <1>16
  <2> QED
    BY <2>1, <1>2 DEF IsoHas, TypeOf
<1>18. ASSUME NEW v \in Worker, Active(v)' PROVE Tracing(v)'
  <2>1. CASE v # w
    <3>1. Active(v) /\ trace'[v] = trace[v] /\ Tracing(v)
      BY <2>1, <1>3, <1>9, <1>11, <1>18
    <3> QED
      BY <3>1, <1>2, TracingFrame DEF Tracing
  <2>2. CASE v = w
    <3>1. t \in Comp(t)
      BY <1>4, CompFacts
    <3>2. \A x \in 1 .. Len(<<t>>) : <<t>>[x] = t
      OBVIOUS
    <3>3. t \in Range(<<t>>)
      <4>1. 1 \in DOMAIN <<t>> /\ <<t>>[1] = t
        OBVIOUS
      <4> QED
        BY <4>1 DEF Range
    <3>4. IsoHas(trace[w].iso, trace[w].visited)'
      <4>1. \A y, V : y = isoOf[t] /\ V = {} => IsoHas(y, V)'
        BY <1>3, <1>16
      <4> QED
        BY <4>1, <1>10 DEF IsoHas, TypeOf, TypesAt
    <3>5. Comp(trace[w].term)' = Comp(t)
      BY <1>10, <1>12 DEF Comp, Closed
    <3> QED
      BY <2>2, <3>1, <3>2, <3>3, <3>4, <3>5, <1>2, <1>4, <1>6, <1>10, <1>12 DEF Tracing
  <2> QED
    BY <2>1, <2>2
<1>19. ASSUME phase = "round1" PROVE Round1'
  <2>1. Round1
    BY <1>19 DEF Traced
  <2>2. \A v \in Worker : Active(v)' => trace'[v].term \in Drivers'
    BY <2>1, <1>10, <1>11, <1>12 DEF Round1
  <2>3. \A v \in Worker : Active(v)' => \A u \in trace'[v].visited : isoOf'[u] # None
    BY <2>1, <1>2, <1>9, <1>10, <1>11 DEF Round1
  <2>4. \A d \in Drivers' \ Seeds' : IsoHas(isoOf[d], Comp(d))'
    <3>1. \A d \in Drivers \ Seeds : \A y, V : y = isoOf[d] /\ V = Comp(d) => IsoHas(y, V)'
      BY <2>1, <1>16 DEF Round1
    <3>2. ASSUME NEW d \in Drivers \ Seeds PROVE IsoHas(isoOf[d], Comp(d))'
      <4>1. Comp(d)' = Comp(d)
        BY <1>12
      <4> QED
        BY <3>1, <4>1, <1>2 DEF IsoHas, TypeOf, TypesAt
    <3> QED
      BY <3>2, <1>12, <1>15
  <2>5. /\ tasks' \subseteq Drivers'
        /\ \A d \in Drivers' : isoOf'[d] # None
        /\ \A d, e \in Drivers' : isoOf'[d] = isoOf'[e] => d = e
        /\ \A x \in 1 .. Len(isos') : \E d \in Drivers' : isoOf'[d] = x
        /\ \A u \in TermIds' \ Drivers' : isoOf'[u] # None => \E d \in Drivers' : u \in Comp(d)' /\ isoOf'[u] = isoOf'[d]
        /\ \A d \in Drivers' \ Seeds' : \A u \in Comp(d)' : isoOf'[u] # None
    BY <2>1, <1>2, <1>12, <1>15 DEF Round1
  <2> QED
    BY <2>2, <2>3, <2>4, <2>5 DEF Round1
<1>20. ASSUME phase = "round2" PROVE Settling'
  <2>1. Settling
    BY <1>20 DEF Traced
  <2>2. \A v \in Worker : Active(v)' => \A u \in trace'[v].visited : isoOf'[u] = trace'[v].iso
    BY <2>1, <1>2, <1>9, <1>10, <1>11 DEF Settling
  <2> QED
    BY <2>1, <2>2, <1>2, <1>4, <1>15, SettlingFrame
<1> QED
  BY <1>1, <1>13, <1>14, <1>17, <1>18, <1>19, <1>20 DEF Traced

(* The iso of a trace that has not begun. *)
LEMMA NewIsoOn ==
  /\ NewIso = IsoOn({}) /\ NewIso \in IsoRecord
  /\ NewIso.drivers = {} /\ NewIso.readers = {} /\ NewIso.type # "SHADOW"
<1>1. TypesAt({}) = {}
  BY DEF TypesAt
<1>2. NewIso = IsoOn({})
  BY <1>1, TypeOfFacts DEF IsoOn, NewIso
<1> QED
  BY <1>2 DEF NewIso, IsoRecord, IsoTypes

(* The isos and tasks a round starts with. *)
LEMMA StartFacts ==
  ASSUME Ready, NEW order \in Seq(TermIds),
         \A x, y \in 1 .. Len(order) : order[x] = order[y] => x = y,
         NEW from \in Seq(IsoRecord), Start(order, from)
  PROVE  /\ isos' \in Seq(IsoRecord) /\ Len(isos') \in Nat /\ Len(from) \in Nat
         /\ Len(from) <= Len(isos')
         /\ \A y \in 1 .. Len(from) : isos'[y] = from[y]
         /\ \A y \in Len(from) + 1 .. Len(isos') : isos'[y] = NewIso
         /\ tasks' = Range(order)
         /\ DOMAIN isoOf' = TermIds
         /\ \A t \in Range(order) : t \in TermIds /\ isoOf'[t] \in Len(from) + 1 .. Len(isos')
         /\ \A t, u \in Range(order) : isoOf'[t] = isoOf'[u] => t = u
         /\ \A y \in Len(from) + 1 .. Len(isos') : \E t \in Range(order) : isoOf'[t] = y
         /\ \A t \in TermIds : t \notin Range(order) =>
              isoOf'[t] = IF t \in DOMAIN isoOf THEN isoOf[t] ELSE None
<1> DEFINE news == [x \in 1 .. Len(order) |-> NewIso]
<1>1. PICK n \in Nat : n = Len(order)
  OBVIOUS
<1>2. PICK m \in Nat : m = Len(from)
  OBVIOUS
<1>3. news \in Seq(IsoRecord) /\ Len(news) = n /\ \A x \in 1 .. n : news[x] = NewIso
  <2>1. news \in [1 .. n -> IsoRecord]
    BY <1>1, NewIsoOn
  <2> QED
    BY <2>1, <1>1
<1>4. /\ isos' = from \o news
      /\ isoOf' = [t \in 1 .. Len(terms) |->
                 IF \E x \in 1 .. Len(order) : order[x] = t
                   THEN Len(from) + (CHOOSE x \in 1 .. Len(order) : order[x] = t)
                   ELSE IF t \in DOMAIN isoOf THEN isoOf[t] ELSE None]
      /\ tasks' = Range(order)
  BY DEF Start
<1> HIDE DEF news
<1>5. /\ isos' \in Seq(IsoRecord) /\ Len(isos') = m + n
      /\ \A y \in 1 .. m : isos'[y] = from[y]
      /\ \A y \in m + 1 .. m + n : isos'[y] = news[y - m]
  <2>1. /\ from \o news \in Seq(IsoRecord)
        /\ Len(from \o news) = Len(from) + Len(news)
        /\ \A y \in 1 .. Len(from) + Len(news) :
             (from \o news)[y] = IF y <= Len(from) THEN from[y] ELSE news[y - Len(from)]
    BY <1>3, ConcatProperties
  <2>2. \A y \in 1 .. m : y \in 1 .. m + n /\ y <= m
    OBVIOUS
  <2>3. \A y \in m + 1 .. m + n : y \in 1 .. m + n /\ ~(y <= m)
    OBVIOUS
  <2> QED
    BY <2>1, <2>2, <2>3, <1>2, <1>3, <1>4
<1>6. \A y \in m + 1 .. m + n : isos'[y] = NewIso
  <2>1. \A y \in m + 1 .. m + n : y - m \in 1 .. n
    OBVIOUS
  <2> QED
    BY <2>1, <1>3, <1>5
<1>7. Range(order) = {order[x] : x \in 1 .. n} /\ \A x \in 1 .. n : order[x] \in TermIds
  BY <1>1, RangeEquality, ElementOfSeq
<1>8. \A x \in 1 .. n : isoOf'[order[x]] = m + x
  <2> SUFFICES ASSUME NEW x \in 1 .. n PROVE isoOf'[order[x]] = m + x
    OBVIOUS
  <2>1. (CHOOSE y \in 1 .. n : order[y] = order[x]) = x
    BY <1>1
  <2> QED
    BY <2>1, <1>1, <1>2, <1>4, <1>7 DEF TermIds
<1>9. DOMAIN isoOf' = TermIds
  BY <1>4 DEF TermIds
<1>10. \A t \in TermIds : t \notin Range(order) =>
              isoOf'[t] = IF t \in DOMAIN isoOf THEN isoOf[t] ELSE None
  BY <1>1, <1>4, <1>7 DEF TermIds
<1>11. \A t \in Range(order) : t \in TermIds /\ isoOf'[t] \in m + 1 .. m + n
  <2>1. \A x \in 1 .. n : m + x \in m + 1 .. m + n
    OBVIOUS
  <2> QED
    BY <2>1, <1>7, <1>8
<1>12. \A t, u \in Range(order) : isoOf'[t] = isoOf'[u] => t = u
  <2>1. \A x, y \in 1 .. n : m + x = m + y => x = y
    OBVIOUS
  <2> QED
    BY <2>1, <1>7, <1>8
<1>13. \A y \in m + 1 .. m + n : \E t \in Range(order) : isoOf'[t] = y
  <2>1. \A y \in m + 1 .. m + n : \E x \in 1 .. n : y = m + x
    <3> SUFFICES ASSUME NEW y \in m + 1 .. m + n PROVE \E x \in 1 .. n : y = m + x
      OBVIOUS
    <3>1. y - m \in 1 .. n /\ y = m + (y - m)
      OBVIOUS
    <3> QED
      BY <3>1
  <2> QED
    BY <2>1, <1>7, <1>8
<1>14. m <= m + n /\ m + n \in Nat
  OBVIOUS
<1> QED
  BY <1>2, <1>4, <1>5, <1>6, <1>9, <1>10, <1>11, <1>12, <1>13, <1>14

(* The invariant of round 1 when it begins. *)
LEMMA CollectTraced ==
  ASSUME Ready, Traced, CollectDrivers
  PROVE  Traced'
<1> DEFINE order == Sorted(LeafDrivers) \o Sorted(TopDrivers)
<1>1. /\ phase = "dfs" /\ phase' = "round1" /\ trace' = trace /\ again' = again /\ constants' = constants
      /\ Start(order, <<>>) /\ UNCHANGED <<netlist, numbering>>
  BY DEF CollectDrivers
<1>2. SameGraph
  BY <1>1, GraphFrame
<1>3. /\ trace \in [Worker -> TraceRecord] /\ isoOf = <<>> /\ \A w \in Worker : ~Active(w)
  BY <1>1 DEF Traced, TraceTypes
<1>4. LeafDrivers \in SUBSET TermIds /\ TopDrivers \in SUBSET TermIds
  BY DEF LeafDrivers, TopDrivers, TermIds
<1>5. /\ Sorted(LeafDrivers) \in Seq(TermIds) /\ Range(Sorted(LeafDrivers)) = LeafDrivers
      /\ Sorted(TopDrivers) \in Seq(TermIds) /\ Range(Sorted(TopDrivers)) = TopDrivers
  BY <1>4, SortedTerms
<1>6. /\ \A x, y \in 1 .. Len(Sorted(LeafDrivers)) : Sorted(LeafDrivers)[x] = Sorted(LeafDrivers)[y] => x = y
      /\ \A x, y \in 1 .. Len(Sorted(TopDrivers)) : Sorted(TopDrivers)[x] = Sorted(TopDrivers)[y] => x = y
  <2>1. /\ IsFiniteSet(LeafDrivers) /\ LeafDrivers \in SUBSET Nat
        /\ IsFiniteSet(TopDrivers) /\ TopDrivers \in SUBSET Nat
    BY <1>4, TermIdsFinite, FS_Subset
  <2> QED
    BY <2>1, SortedSeq
<1>7. order \in Seq(TermIds) /\ Range(order) = Drivers
  BY <1>5, ConcatProperties, RangeConcatenation DEF Drivers
<1>8. \A x, y \in 1 .. Len(order) : order[x] = order[y] => x = y
  <2>1. PICK s \in Seq(TermIds) : s = Sorted(LeafDrivers)
    BY <1>5
  <2>2. PICK r \in Seq(TermIds) : r = Sorted(TopDrivers)
    BY <1>5
  <2>3. PICK m \in Nat : m = Len(s)
    OBVIOUS
  <2>4. PICK n \in Nat : n = Len(r)
    OBVIOUS
  <2>5. /\ Len(order) = m + n
        /\ \A x \in 1 .. m : order[x] = s[x]
        /\ \A x \in m + 1 .. m + n : order[x] = r[x - m]
    BY <2>1, <2>2, <2>3, <2>4, ConcatProperties
  <2>6. /\ \A x \in 1 .. m : s[x] \in LeafDrivers
        /\ \A x \in 1 .. n : r[x] \in TopDrivers
    BY <2>1, <2>2, <2>3, <2>4, <1>5, RangeEquality
  <2>7. \A x \in LeafDrivers : x \notin TopDrivers
    BY DriverFacts
  <2>8. \A x \in 1 .. m + n : x \in 1 .. m \/ (x \in m + 1 .. m + n /\ x - m \in 1 .. n)
    OBVIOUS
  <2>9. \A x, y \in m + 1 .. m + n : x - m = y - m => x = y
    OBVIOUS
  <2> HIDE DEF order
  <2> SUFFICES ASSUME NEW x \in 1 .. m + n, NEW y \in 1 .. m + n, order[x] = order[y] PROVE x = y
    BY <2>5
  <2>10. CASE x \in 1 .. m /\ y \in 1 .. m
    BY <2>10, <2>1, <2>3, <2>5, <1>6
  <2>11. CASE x \notin 1 .. m /\ y \notin 1 .. m
    <3>1. r[x - m] = r[y - m] /\ x - m \in 1 .. n /\ y - m \in 1 .. n
      BY <2>11, <2>5, <2>8
    <3>2. x - m = y - m
      BY <3>1, <2>2, <2>4, <1>6
    <3> QED
      BY <3>2, <2>8, <2>9, <2>11
  <2>12. CASE x \in 1 .. m /\ y \notin 1 .. m
    BY <2>12, <2>5, <2>6, <2>7, <2>8
  <2>13. CASE x \notin 1 .. m /\ y \in 1 .. m
    BY <2>13, <2>5, <2>6, <2>7, <2>8
  <2> QED
    BY <2>10, <2>11, <2>12, <2>13
<1> HIDE DEF order
<1>9. PICK from \in Seq(IsoRecord) : from = <<>> /\ Len(from) = 0
  <2>1. <<>> \in Seq(IsoRecord)
    OBVIOUS
  <2>2. Len(<<>>) = 0
    OBVIOUS
  <2> QED
    BY <2>1, <2>2
<1>10. /\ isos' \in Seq(IsoRecord) /\ Len(isos') \in Nat
       /\ \A y \in 1 .. Len(isos') : isos'[y] = NewIso
       /\ tasks' = Drivers
       /\ DOMAIN isoOf' = TermIds
       /\ \A t \in Drivers : t \in TermIds /\ isoOf'[t] \in 1 .. Len(isos')
       /\ \A t, u \in Drivers : isoOf'[t] = isoOf'[u] => t = u
       /\ \A y \in 1 .. Len(isos') : \E t \in Drivers : isoOf'[t] = y
       /\ \A t \in TermIds : t \notin Drivers => isoOf'[t] = None
  <2>1. \A t : t \notin DOMAIN isoOf
    BY <1>3
  <2>2. 0 + 1 = 1
    OBVIOUS
  <2>3. /\ isos' \in Seq(IsoRecord) /\ Len(isos') \in Nat
        /\ \A y \in Len(from) + 1 .. Len(isos') : isos'[y] = NewIso
        /\ tasks' = Range(order)
        /\ DOMAIN isoOf' = TermIds
        /\ \A t \in Range(order) : t \in TermIds /\ isoOf'[t] \in Len(from) + 1 .. Len(isos')
        /\ \A t, u \in Range(order) : isoOf'[t] = isoOf'[u] => t = u
        /\ \A y \in Len(from) + 1 .. Len(isos') : \E t \in Range(order) : isoOf'[t] = y
        /\ \A t \in TermIds : t \notin Range(order) =>
              isoOf'[t] = IF t \in DOMAIN isoOf THEN isoOf[t] ELSE None
    <3>1. Start(order, from)
      BY <1>1, <1>9
    <3> QED
      BY <3>1, <1>7, <1>8, StartFacts
  <2>4. Len(from) + 1 = 1
    BY <2>2, <1>9
  <2>5. \A t \in TermIds : t \notin Drivers => isoOf'[t] = None
    BY <2>1, <2>3, <1>7
  <2>6. /\ \A y \in 1 .. Len(isos') : isos'[y] = NewIso
        /\ \A y \in 1 .. Len(isos') : \E t \in Drivers : isoOf'[t] = y
    BY <2>3, <2>4, <1>7
  <2>7. \A t \in Drivers : t \in TermIds /\ isoOf'[t] \in 1 .. Len(isos')
    BY <2>3, <2>4, <1>7
  <2> QED
    BY <2>3, <2>5, <2>6, <2>7, <1>7
<1>11. TermIds' = TermIds /\ Drivers' = Drivers
  BY <1>2 DEF SameGraph
<1>12. \A w \in Worker : ~Active(w)'
  BY <1>1, <1>3 DEF Active
<1>13. Seeds' = Drivers
  BY <1>10, <1>12 DEF Seeds
<1>14. isoOf' \in [TermIds' -> 0 .. Len(isos')]
  <2>1. \A y \in 1 .. Len(isos') : y \in 0 .. Len(isos')
    BY <1>10
  <2>2. None \in 0 .. Len(isos')
    BY <1>10, DNLAssumption
  <2>3. \A t \in TermIds : isoOf'[t] \in 0 .. Len(isos')
    BY <2>1, <2>2, <1>10
  <2>4. isoOf' = [t \in TermIds |-> isoOf'[t]]
    BY <1>1, <1>10 DEF Start, TermIds
  <2> QED
    BY <2>3, <2>4, <1>11
<1>15. TraceTypes'
  BY <1>1, <1>3, <1>10, <1>14 DEF TraceTypes
<1>16. SeedsApart'
  BY <1>10, <1>11, <1>12 DEF SeedsApart
<1>17. \A d \in tasks' : IsoHas(isoOf[d], {})'
  <2>1. \A d \in tasks' : \A y : y = isoOf'[d] => isos'[y] = IsoOn({})
    BY <1>10, NewIsoOn
  <2>2. \A d \in tasks' : \A y : y = isoOf'[d] => IsoHas(y, {})'
    BY <2>1, <1>2, IsoHasNext
  <2> QED
    BY <2>2 DEF IsoHas, TypeOf
<1>18. Round1'
  <2>1. \A d \in Drivers : isoOf'[d] # None
    BY <1>10, DNLAssumption
  <2> QED
    BY <2>1, <1>10, <1>11, <1>12, <1>13 DEF Round1
<1> QED
  BY <1>1, <1>12, <1>15, <1>16, <1>17, <1>18 DEF Traced

(* A finite set of more than one element has two. *)
LEMMA MoreThanOne ==
  ASSUME NEW S, IsFiniteSet(S), NEW d \in S
  PROVE  Cardinality(S) > 1 <=> \E e \in S : e # d
<1>1. Cardinality(S) \in Nat /\ IsFiniteSet(S \ {d}) /\ Cardinality(S \ {d}) = Cardinality(S) - 1
  BY FS_CardinalityType, FS_RemoveElement
<1>2. Cardinality(S \ {d}) \in Nat /\ (Cardinality(S \ {d}) = 0 <=> S \ {d} = {})
  BY <1>1, FS_CardinalityType, FS_EmptySet
<1>3. S \ {d} = {} <=> ~\E e \in S : e # d
  OBVIOUS
<1> QED
  BY <1>1, <1>2, <1>3

(* Whether a terminal shares its net with another driver. *)
LEMMA SeveralSame ==
  ASSUME Ready, NEW d \in Drivers, NEW e \in Drivers, e \in Comp(d), Several(d)
  PROVE  Several(e)
<1>1. d \in TermIds /\ Comp(e) = Comp(d) /\ d \in Comp(d)
  BY DriverFacts, CompFacts, CompSame
<1>2. PICK f \in Drivers : f \in Comp(d) /\ f # d
  BY DEF Several
<1> QED
  BY <1>1, <1>2 DEF Several

(* After round 1 an iso has several drivers exactly when its net has, and  *)
(* one driver of each such net is treated again.                           *)
LEMMA SiftFacts ==
  ASSUME Ready, TraceTypes, Building, Round1, Seeds = {}
  PROVE  /\ \A d \in Drivers : /\ isoOf[d] \in 1 .. Len(isos)
                               /\ isos[isoOf[d]] = IsoOn(Comp(d))
                               /\ isoOf[d] \in MultiDriver <=> Several(d)
         /\ DriversToTreat \subseteq Drivers
         /\ \A a \in DriversToTreat : Several(a)
         /\ \A d \in Drivers : Several(d) => \E a \in DriversToTreat : a \in Comp(d)
         /\ \A a, b \in DriversToTreat : b \in Comp(a) => a = b
<1>1. Drivers \subseteq TermIds
  BY DriverFacts
<1>2. ASSUME NEW d \in Drivers
      PROVE  /\ isoOf[d] \in 1 .. Len(isos)
             /\ isos[isoOf[d]] = IsoOn(Comp(d))
             /\ isos[isoOf[d]].drivers = Comp(d) \cap Drivers
             /\ d \in Comp(d) \cap Drivers
             /\ isoOf[d] \in MultiDriver <=> Several(d)
  <2>1. isoOf[d] \in 1 .. Len(isos)
    <3>1. isoOf[d] \in 0 .. Len(isos) /\ isoOf[d] # 0 /\ Len(isos) \in Nat
      BY <1>1, DNLAssumption DEF TraceTypes, Building, Round1
    <3> QED
      BY <3>1
  <2>2. isos[isoOf[d]] = IsoOn(Comp(d))
    BY IsoOnHas DEF Round1
  <2>3. NetSet(d) # {}
    BY <1>1, DriverFacts
  <2>4. isos[isoOf[d]].drivers = Comp(d) \cap Drivers
    BY <1>1, <2>2, <2>3, CompDrivers DEF IsoOn
  <2>5. d \in Comp(d) \cap Drivers /\ Comp(d) \subseteq TermIds
    BY <1>1, CompFacts
  <2>6. IsFiniteSet(Comp(d) \cap Drivers)
    BY <2>5, TermIdsFinite, FS_Subset
  <2>7. Cardinality(Comp(d) \cap Drivers) > 1 <=> Several(d)
    BY <2>5, <2>6, MoreThanOne DEF Several
  <2>8. isoOf[d] \in MultiDriver <=> Several(d)
    BY <2>1, <2>4, <2>7 DEF MultiDriver
  <2> QED
    BY <2>1, <2>2, <2>4, <2>5, <2>8
<1>3. \A d \in Drivers : Min(Comp(d) \cap Drivers) \in Comp(d) \cap Drivers
  <2>1. Drivers \subseteq Nat
    BY <1>1, TermIdsFinite
  <2>2. \A d \in Drivers : (Comp(d) \cap Drivers) \in SUBSET Nat /\ Comp(d) \cap Drivers # {}
    BY <1>2, <2>1
  <2> QED
    BY <2>2, MinOf
<1>4. ASSUME NEW a \in DriversToTreat
      PROVE  \E d \in Drivers : Several(d) /\ a = Min(Comp(d) \cap Drivers)
  <2>1. PICK x \in MultiDriver : a = Min(isos[x].drivers)
    BY DEF DriversToTreat
  <2>2. x \in 1 .. Len(isos)
    BY <2>1 DEF MultiDriver
  <2>3. PICK d \in Drivers : isoOf[d] = x
    BY <2>2 DEF Round1
  <2> QED
    BY <2>1, <2>3, <1>2
<1>5. ASSUME NEW d \in Drivers, Several(d) PROVE Min(Comp(d) \cap Drivers) \in DriversToTreat
  BY <1>2, <1>5 DEF DriversToTreat
<1>6. ASSUME NEW a \in DriversToTreat
      PROVE  /\ a \in Drivers /\ Several(a) /\ a = Min(Comp(a) \cap Drivers)
  <2>1. PICK d \in Drivers : Several(d) /\ a = Min(Comp(d) \cap Drivers)
    BY <1>4
  <2>2. a \in Drivers /\ a \in Comp(d)
    BY <2>1, <1>3
  <2>3. Comp(a) = Comp(d)
    BY <2>2, <1>1, CompSame
  <2> QED
    BY <2>1, <2>2, <2>3, SeveralSame
<1>7. \A d \in Drivers : Several(d) => \E a \in DriversToTreat : a \in Comp(d)
  BY <1>3, <1>5
<1>8. ASSUME NEW a \in DriversToTreat, NEW b \in DriversToTreat, b \in Comp(a) PROVE a = b
  <2>1. Comp(b) = Comp(a)
    BY <1>1, <1>6, <1>8, CompSame
  <2> QED
    BY <2>1, <1>6
<1> QED
  BY <1>2, <1>6, <1>7, <1>8

(* The isos that have several drivers, once emptied. *)
LEMMA ShadowedFacts ==
  ASSUME isos \in Seq(IsoRecord)
  PROVE  /\ Shadowed \in Seq(IsoRecord) /\ Len(Shadowed) = Len(isos)
         /\ \A x \in 1 .. Len(isos) : x \notin MultiDriver => Shadowed[x] = isos[x]
         /\ \A x \in MultiDriver : x \in 1 .. Len(isos) /\ Shadowed[x].drivers = {} /\ Shadowed[x].readers = {}
                                   /\ Shadowed[x].type = "SHADOW"
<1> DEFINE z == [NewIso EXCEPT !.type = "SHADOW"]
<1>1. z \in IsoRecord /\ z.drivers = {} /\ z.readers = {} /\ z.type = "SHADOW"
  BY DEF NewIso, IsoRecord, IsoTypes
<1>2. Shadowed = [x \in 1 .. Len(isos) |-> IF x \in MultiDriver THEN z ELSE isos[x]]
  BY DEF Shadowed
<1> HIDE DEF z
<1>3. Len(isos) \in Nat /\ \A x \in 1 .. Len(isos) : isos[x] \in IsoRecord
  BY ElementOfSeq
<1>4. Shadowed \in [1 .. Len(isos) -> IsoRecord]
  BY <1>1, <1>2, <1>3
<1>5. Shadowed \in Seq(IsoRecord) /\ Len(Shadowed) = Len(isos)
  BY <1>3, <1>4
<1>6. \A x \in MultiDriver : x \in 1 .. Len(isos)
  BY DEF MultiDriver
<1> QED
  BY <1>1, <1>2, <1>5, <1>6

(* Round 2 begins. *)
LEMMA SiftTraced ==
  ASSUME Ready, Traced, Sift
  PROVE  Traced'
<1>1. /\ phase = "round1" /\ Joined /\ Start(Sorted(DriversToTreat), Shadowed)
      /\ again' = DriversToTreat /\ phase' = "round2" /\ trace' = trace
      /\ UNCHANGED <<netlist, numbering>>
  BY DEF Sift
<1>2. SameGraph
  BY <1>1, GraphFrame
<1>3. /\ TraceTypes /\ Building /\ Round1 /\ isos \in Seq(IsoRecord)
      /\ isoOf \in [TermIds -> 0 .. Len(isos)] /\ trace \in [Worker -> TraceRecord]
  BY <1>1 DEF Traced, Building, TraceTypes
<1>4. (\A w \in Worker : ~Active(w)) /\ Seeds = {}
  BY <1>1 DEF Joined, Active, Seeds
<1> DEFINE A == DriversToTreat
           N == Len(isos)
<1>5. /\ \A d \in Drivers : /\ isoOf[d] \in 1 .. N
                            /\ isos[isoOf[d]] = IsoOn(Comp(d))
                            /\ isoOf[d] \in MultiDriver <=> Several(d)
      /\ A \subseteq Drivers
      /\ \A a \in A : Several(a)
      /\ \A d \in Drivers : Several(d) => \E a \in A : a \in Comp(d)
      /\ \A a, b \in A : b \in Comp(a) => a = b
  BY <1>3, <1>4, SiftFacts
<1>6. Drivers \subseteq TermIds
  BY DriverFacts
<1>7. /\ Sorted(A) \in Seq(TermIds) /\ Range(Sorted(A)) = A
      /\ \A x, y \in 1 .. Len(Sorted(A)) : Sorted(A)[x] = Sorted(A)[y] => x = y
  <2>1. A \in SUBSET TermIds
    BY <1>5, <1>6
  <2>2. IsFiniteSet(A) /\ A \in SUBSET Nat
    BY <2>1, TermIdsFinite, FS_Subset
  <2> HIDE DEF A
  <2> QED
    BY <2>1, <2>2, SortedTerms, SortedSeq
<1>8. /\ Shadowed \in Seq(IsoRecord) /\ Len(Shadowed) = N
      /\ \A x \in 1 .. N : x \notin MultiDriver => Shadowed[x] = isos[x]
      /\ \A x \in MultiDriver : x \in 1 .. N /\ Shadowed[x].drivers = {} /\ Shadowed[x].readers = {}
                                /\ Shadowed[x].type = "SHADOW"
  BY <1>3, ShadowedFacts
<1>9. Start(Sorted(A), Shadowed)
  BY <1>1
<1> HIDE DEF A
<1>10. /\ isos' \in Seq(IsoRecord) /\ Len(isos') \in Nat /\ N \in Nat /\ N <= Len(isos')
       /\ \A y \in 1 .. N : isos'[y] = Shadowed[y]
       /\ \A y \in N + 1 .. Len(isos') : isos'[y] = NewIso
       /\ tasks' = A
       /\ DOMAIN isoOf' = TermIds
       /\ \A t \in A : t \in TermIds /\ isoOf'[t] \in N + 1 .. Len(isos')
       /\ \A t, u \in A : isoOf'[t] = isoOf'[u] => t = u
       /\ \A t \in TermIds : t \notin A => isoOf'[t] = isoOf[t]
  <2>1. /\ isos' \in Seq(IsoRecord) /\ Len(isos') \in Nat /\ Len(Shadowed) \in Nat
        /\ Len(Shadowed) <= Len(isos')
        /\ \A y \in 1 .. Len(Shadowed) : isos'[y] = Shadowed[y]
        /\ \A y \in Len(Shadowed) + 1 .. Len(isos') : isos'[y] = NewIso
        /\ tasks' = Range(Sorted(A))
        /\ DOMAIN isoOf' = TermIds
        /\ \A t \in Range(Sorted(A)) : t \in TermIds /\ isoOf'[t] \in Len(Shadowed) + 1 .. Len(isos')
        /\ \A t, u \in Range(Sorted(A)) : isoOf'[t] = isoOf'[u] => t = u
        /\ \A t \in TermIds : t \notin Range(Sorted(A)) =>
             isoOf'[t] = IF t \in DOMAIN isoOf THEN isoOf[t] ELSE None
    BY <1>7, <1>8, <1>9, StartFacts
  <2>2. DOMAIN isoOf = TermIds
    BY <1>3
  <2> QED
    BY <2>1, <2>2, <1>7, <1>8
<1>11. /\ TermIds' = TermIds /\ Drivers' = Drivers /\ \A d : Comp(d)' = Comp(d)
       /\ \A d : Several(d)' = Several(d)
  BY <1>2 DEF SameGraph
<1>12. \A w \in Worker : ~Active(w)'
  BY <1>1, <1>4 DEF Active
<1>13. Seeds' = A /\ again' = A
  BY <1>1, <1>10, <1>12 DEF Seeds, A
<1>14. /\ \A y \in 1 .. N : y \in 0 .. Len(isos') /\ y # None
       /\ \A y \in 0 .. N : y # None => y \in 1 .. N
       /\ \A y \in 0 .. N : y \in 0 .. Len(isos') /\ y \notin N + 1 .. Len(isos')
       /\ \A y \in N + 1 .. Len(isos') : y \in 0 .. Len(isos') /\ y # None /\ y \in 1 .. Len(isos')
       /\ \A y \in 1 .. Len(isos') : y \in 1 .. N \/ y \in N + 1 .. Len(isos')
  <2>1. PICK m \in Nat : m = Len(isos')
    BY <1>10
  <2>2. PICK n \in Nat : n = N /\ n <= m
    BY <2>1, <1>10
  <2>3. /\ \A y \in 1 .. n : y \in 0 .. m /\ y # 0
        /\ \A y \in 0 .. n : y # 0 => y \in 1 .. n
        /\ \A y \in 0 .. n : y \in 0 .. m /\ y \notin n + 1 .. m
        /\ \A y \in n + 1 .. m : y \in 0 .. m /\ y # 0 /\ y \in 1 .. m
        /\ \A y \in 1 .. m : y \in 1 .. n \/ y \in n + 1 .. m
    BY <2>2
  <2> QED
    BY <2>1, <2>2, <2>3, DNLAssumption
<1> HIDE DEF N
<1>15. \A t \in TermIds : isoOf[t] \in 0 .. N
  BY <1>3 DEF N
<1>16. isoOf' \in [TermIds' -> 0 .. Len(isos')]
  <2>1. \A t \in TermIds : isoOf'[t] \in 0 .. Len(isos')
    BY <1>10, <1>14, <1>15
  <2>2. isoOf' = [t \in TermIds |-> isoOf'[t]]
    BY <1>1, <1>10 DEF Start, TermIds
  <2> QED
    BY <2>1, <2>2, <1>11
<1>17. TraceTypes'
  BY <1>1, <1>3, <1>10, <1>16 DEF TraceTypes
<1>18. SeedsApart'
  BY <1>10, <1>11, <1>12 DEF SeedsApart
<1>19. \A d \in tasks' : IsoHas(isoOf[d], {})'
  <2>1. \A d \in tasks' : \A y : y = isoOf'[d] => isos'[y] = IsoOn({})
    BY <1>10, NewIsoOn
  <2>2. \A d \in tasks' : \A y : y = isoOf'[d] => IsoHas(y, {})'
    BY <2>1, <1>2, IsoHasNext
  <2> QED
    BY <2>2 DEF IsoHas, TypeOf
<1>20. /\ \A u \in TermIds : u \in Comp(u)
       /\ \A u \in TermIds : \A v \in Comp(u) : v \in TermIds /\ u \in Comp(v) /\ Comp(v) = Comp(u)
  BY CompFacts, CompSame
(* Each labelled terminal has the iso of a driver it is connected to. *)
<1>21. ASSUME NEW u \in TermIds, isoOf[u] # None
       PROVE  \E f \in Drivers : u \in Comp(f) /\ isoOf[u] = isoOf[f] /\ f \in Comp(u) /\ Comp(f) = Comp(u)
  <2>1. PICK f \in Drivers : u \in Comp(f) /\ isoOf[u] = isoOf[f]
    BY <1>3, <1>20, <1>21, <1>6 DEF Round1
  <2> QED
    BY <2>1, <1>6, <1>20
<1>22. /\ \A d, e \in Drivers : isoOf[d] = isoOf[e] => d = e
       /\ \A d \in Drivers : \A u \in Comp(d) : isoOf[u] # None
       /\ \A y \in 1 .. N : \E d \in Drivers : isoOf[d] = y
  BY <1>3, <1>4 DEF Round1, N
<1>30. tasks' \subseteq again'
  BY <1>10, <1>13
<1>31. AgainOK'
  <2>1. /\ again' \subseteq Drivers'
        /\ \A a \in again' : Several(a)'
        /\ \A d \in Drivers' : Several(d)' => \E a \in again' : a \in Comp(d)'
        /\ \A a, b \in again' : b \in Comp(a)' => a = b
    BY <1>5, <1>11, <1>13
  <2> QED
    BY <2>1 DEF AgainOK
<1>32. \A d, e \in Seeds' : e \in Comp(d)' => e = d
  BY <1>5, <1>11, <1>13
<1>33. \A d \in Seeds' : isoOf'[d] # None
  BY <1>10, <1>13, <1>14
<1>34. \A d \in Seeds' : \A u \in TermIds' : isoOf'[u] = isoOf'[d] => u \in Comp(d)'
  <2> SUFFICES ASSUME NEW d \in A, NEW u \in TermIds, isoOf'[u] = isoOf'[d] PROVE u \in Comp(d)
    BY <1>11, <1>13
  <2>1. u \in A
    BY <1>10, <1>14, <1>15
  <2> QED
    BY <2>1, <1>10, <1>20
<1>35. \A d \in Seeds' : \A u \in Comp(d)' : isoOf'[u] \in {isoOf'[d], None} \/ Shadow(isoOf[u])'
  <2> SUFFICES ASSUME NEW d \in A, NEW u \in Comp(d), u # d PROVE Shadow(isoOf[u])'
    BY <1>11, <1>13
  <2>1. u \in TermIds /\ d \in Drivers /\ d \in TermIds /\ Several(d)
    BY <1>5, <1>6, <1>20
  <2>2. u \notin A
    BY <1>5
  <2>3. isoOf'[u] = isoOf[u] /\ isoOf[u] # None
    BY <2>1, <2>2, <1>10, <1>22
  <2>4. PICK f \in Drivers : isoOf[u] = isoOf[f] /\ f \in Comp(u)
    BY <2>1, <2>3, <1>21
  <2>5. f \in Comp(d)
    BY <2>1, <2>4, <1>20
  <2>6. Several(f)
    BY <2>1, <2>5, SeveralSame
  <2>7. isoOf[f] \in MultiDriver /\ isoOf[f] \in 1 .. N
    BY <2>6, <1>5, <1>8
  <2>8. isos'[isoOf'[u]].type = "SHADOW"
    BY <2>3, <2>4, <2>7, <1>8, <1>10
  <2> QED
    BY <2>3, <2>8 DEF Shadow
<1>36. \A w \in Worker : Active(w)' => \A u \in trace'[w].visited : isoOf'[u] = trace'[w].iso
  BY <1>12
<1>37. ASSUME NEW u \in TermIds', isoOf'[u] # None, \A d \in Seeds' : u \notin Comp(d)'
       PROVE  /\ \A v \in TermIds' : isoOf'[v] = isoOf'[u] <=> v \in Comp(u)'
              /\ IsoHas(isoOf[u], Comp(u))'
  <2>1. u \in TermIds /\ \A d \in A : u \notin Comp(d)
    BY <1>11, <1>13, <1>37
  <2>2. u \notin A /\ isoOf'[u] = isoOf[u] /\ isoOf[u] # None
    BY <2>1, <1>10, <1>20, <1>37
  <2>3. PICK f \in Drivers : isoOf[u] = isoOf[f] /\ f \in Comp(u) /\ Comp(f) = Comp(u)
    BY <2>1, <2>2, <1>21
  <2>4. ~Several(f)
    <3> SUFFICES ASSUME Several(f) PROVE FALSE
      OBVIOUS
    <3>1. PICK a \in A : a \in Comp(f)
      BY <1>5
    <3> QED
      BY <3>1, <2>1, <2>3, <1>20
  <2>5. ASSUME NEW v \in TermIds, isoOf'[v] = isoOf'[u] PROVE v \in Comp(u)
    <3>1. v \notin A
      BY <2>1, <2>2, <2>5, <1>10, <1>14, <1>15
    <3>2. isoOf[v] = isoOf[f] /\ isoOf[v] # None
      BY <2>2, <2>3, <2>5, <3>1, <1>10
    <3>3. PICK g \in Drivers : v \in Comp(g) /\ isoOf[v] = isoOf[g]
      BY <3>2, <1>21
    <3>4. g = f
      BY <3>2, <3>3, <1>22
    <3> QED
      BY <3>3, <3>4, <2>3
  <2>6. ASSUME NEW v \in Comp(u) PROVE isoOf'[v] = isoOf'[u]
    <3>1. v \in TermIds /\ u \in Comp(v) /\ v \in Comp(f)
      BY <2>1, <2>3, <1>20
    <3>2. v \notin A
      BY <2>1, <3>1
    <3>3. isoOf'[v] = isoOf[v] /\ isoOf[v] # None
      BY <3>1, <3>2, <1>10, <1>22
    <3>4. PICK g \in Drivers : isoOf[v] = isoOf[g] /\ g \in Comp(v)
      BY <3>1, <3>3, <1>21
    <3>5. g \in Comp(f)
      BY <3>1, <3>4, <1>6, <1>20
    <3>6. g = f
      BY <3>5, <2>4 DEF Several
    <3> QED
      BY <3>3, <3>4, <3>6, <2>2, <2>3
  <2>7. ASSUME NEW y, NEW V, y = isoOf'[u], V = Comp(u) PROVE IsoHas(y, V)'
    <3>1. isoOf[f] \in 1 .. N /\ isoOf[f] \notin MultiDriver /\ isos[isoOf[f]] = IsoOn(Comp(f))
      BY <2>4, <1>5
    <3>2. isos'[y] = IsoOn(V)
      BY <3>1, <2>2, <2>3, <2>7, <1>8, <1>10
    <3> QED
      BY <3>2, <1>2, IsoHasNext
  <2>8. IsoHas(isoOf[u], Comp(u))'
    BY <2>7, <1>11 DEF IsoHas, TypeOf, TypesAt
  <2> QED
    BY <2>5, <2>6, <2>8, <1>11
<1>38. ASSUME NEW y \in 1 .. Len(isos'), Shadow(y)' \/ (\A u \in TermIds' : isoOf'[u] # y)
       PROVE  isos'[y].drivers = {} /\ isos'[y].readers = {}
  <2>1. CASE y \in N + 1 .. Len(isos')
    BY <2>1, <1>10, NewIsoOn
  <2>2. CASE y \in 1 .. N
    <3>1. PICK d \in Drivers : isoOf[d] = y
      BY <2>2, <1>22
    <3>2. isos'[y] = Shadowed[y]
      BY <2>2, <1>10
    <3>3. CASE Several(d)
      BY <3>1, <3>2, <3>3, <1>5, <1>8
    <3>4. CASE ~Several(d)
      <4>1. isos'[y] = IsoOn(Comp(d))
        BY <2>2, <3>1, <3>2, <3>4, <1>5, <1>8
      <4>2. isos'[y].type # "SHADOW"
        BY <4>1, TypeOfRange DEF IsoOn
      <4>3. d \notin A
        BY <3>4, <1>5
      <4>4. d \in TermIds /\ isoOf'[d] = y
        BY <4>3, <3>1, <1>6, <1>10
      <4> QED
        BY <4>2, <4>4, <1>11, <1>38 DEF Shadow
    <3> QED
      BY <3>3, <3>4
  <2> QED
    BY <2>1, <2>2, <1>14
<1>39. \A d \in Drivers' : \A u \in Comp(d)' : isoOf'[u] # None
  <2> SUFFICES ASSUME NEW d \in Drivers, NEW u \in Comp(d) PROVE isoOf'[u] # None
    BY <1>11
  <2>1. u \in TermIds
    BY <1>6, <1>20
  <2> QED
    BY <2>1, <1>10, <1>14, <1>22
<1>40. Settling'
  BY <1>30, <1>31, <1>32, <1>33, <1>34, <1>35, <1>36, <1>37, <1>38, <1>39 DEF Settling
<1> QED
  BY <1>1, <1>12, <1>17, <1>18, <1>19, <1>40 DEF Traced

(* The isos and their labels once a new iso is appended. *)
LEMMA AppendIso ==
  ASSUME isos \in Seq(IsoRecord), isos' = Append(isos, NewIso)
  PROVE  /\ isos' \in Seq(IsoRecord) /\ Len(isos) \in Nat /\ Len(isos') = Len(isos) + 1
         /\ \A y \in 1 .. Len(isos) : isos'[y] = isos[y] /\ y \in 1 .. Len(isos')
         /\ isos'[Len(isos')] = NewIso
         /\ \A y \in 1 .. Len(isos') : y \notin 1 .. Len(isos) => y = Len(isos')
         /\ Len(isos') \notin 0 .. Len(isos) /\ Len(isos') \in 1 .. Len(isos')
         /\ \A y \in 0 .. Len(isos) : y \in 0 .. Len(isos')
<1>1. PICK n \in Nat : n = Len(isos)
  OBVIOUS
<1>2. /\ isos' \in Seq(IsoRecord) /\ Len(isos') = n + 1
      /\ \A y \in 1 .. n : isos'[y] = isos[y]
      /\ isos'[n + 1] = NewIso
  BY <1>1, NewIsoOn, AppendProperties
<1>3. /\ \A y \in 1 .. n + 1 : y \notin 1 .. n => y = n + 1
      /\ n + 1 \notin 0 .. n /\ n + 1 \in 1 .. n + 1
      /\ \A y \in 0 .. n : y \in 0 .. n + 1
      /\ \A y \in 1 .. n : y \in 1 .. n + 1
  OBVIOUS
<1> QED
  BY <1>1, <1>2, <1>3

(* Both rounds are over. *)
LEMMA JoinTraced ==
  ASSUME Ready, Traced, Join
  PROVE  Traced'
<1>1. /\ phase = "round2" /\ Joined /\ phase' = "dangling" /\ trace' = [w \in Worker |-> Idle]
      /\ isoOf' = isoOf /\ isos' = isos /\ tasks' = tasks /\ again' = again
      /\ UNCHANGED <<netlist, numbering>>
  BY DEF Join
<1>2. SameGraph /\ TermIds' = TermIds
  BY <1>1, GraphFrame DEF SameGraph
<1>3. /\ TraceTypes /\ Settling /\ SeedsApart /\ isos \in Seq(IsoRecord)
      /\ isoOf \in [TermIds -> 0 .. Len(isos)] /\ Len(isos) \in Nat
  BY <1>1 DEF Traced, TraceTypes
<1>4. tasks = {} /\ Seeds = {}
  BY <1>1 DEF Joined, Active, Seeds
<1>5. \A w \in Worker : trace'[w] = Idle /\ ~Active(w)'
  BY <1>1 DEF Active, Idle
<1>6. Seeds' = {}
  BY <1>1, <1>4, <1>5 DEF Seeds
<1>7. TraceTypes'
  <2>1. Idle \in TraceRecord
    BY DNLAssumption DEF Idle, TraceRecord
  <2>2. trace' \in [Worker -> TraceRecord]
    BY <2>1, <1>1
  <2> QED
    BY <2>2, <1>1, <1>2, <1>3 DEF TraceTypes
<1>8. Settling'
  BY <1>1, <1>2, <1>3, <1>4, <1>5, <1>6, SettlingFrame
<1>9. DanglingPass'
  <2>1. trace'[Main].iso = None
    BY <1>5, DNLAssumption DEF Idle
  <2>2. ~Active(Main)'
    BY <1>5, DNLAssumption
  <2> QED
    BY <2>1, <2>2, <1>1, <1>4, <1>5 DEF DanglingPass
<1>10. SeedsApart' /\ \A d \in tasks' : IsoHas(isoOf[d], {})'
  BY <1>1, <1>4, <1>5 DEF SeedsApart
<1> QED
  BY <1>1, <1>5, <1>7, <1>8, <1>9, <1>10 DEF Traced

(* The last pass starts a trace: nothing connected to its terminal has an  *)
(* iso yet.                                                                *)
LEMMA DanglingTraced ==
  ASSUME Ready, Traced, NEW t \in 1 .. Len(terms), TraceDangling(t)
  PROVE  Traced'
<1> DEFINE n == Len(isos')
<1>1. /\ phase = "dangling" /\ phase' = phase /\ ~Active(Main) /\ Dangling(t)
      /\ isos' = Append(isos, NewIso) /\ isoOf' = [isoOf EXCEPT ![t] = n]
      /\ trace' = [trace EXCEPT ![Main] = [term |-> t, iso |-> n, stack |-> <<t>>, visited |-> {}]]
      /\ tasks' = tasks /\ again' = again /\ UNCHANGED <<netlist, numbering>>
  BY DEF TraceDangling, Active, BeginTrace
<1>2. SameGraph
  BY <1>1, GraphFrame
<1>3. /\ TermIds' = TermIds /\ Drivers' = Drivers
      /\ \A u : Comp(u)' = Comp(u) /\ Several(u)' = Several(u) /\ NetSet(u)' = NetSet(u)
  BY <1>2 DEF SameGraph
<1>4. /\ TraceTypes /\ Settling /\ DanglingPass /\ isos \in Seq(IsoRecord)
      /\ isoOf \in [TermIds -> 0 .. Len(isos)] /\ trace \in [Worker -> TraceRecord]
  BY <1>1 DEF Traced, TraceTypes
<1>5. t \in TermIds /\ t \in Nat /\ isoOf[t] = None /\ NetSet(t) # {}
  BY <1>1, TermIdsFinite, DanglingNet DEF Dangling, TermIds
<1>6. tasks = {} /\ (\A w \in Worker : ~Active(w)) /\ Seeds = {}
  BY <1>1, <1>4 DEF DanglingPass, Seeds
<1>7. /\ isos' \in Seq(IsoRecord) /\ Len(isos) \in Nat
      /\ \A y \in 1 .. Len(isos) : isos'[y] = isos[y] /\ y \in 1 .. n
      /\ isos'[n] = NewIso
      /\ \A y \in 1 .. n : y \notin 1 .. Len(isos) => y = n
      /\ n \notin 0 .. Len(isos) /\ n \in 1 .. n
      /\ \A y \in 0 .. Len(isos) : y \in 0 .. n
      /\ n \in Nat
  BY <1>1, <1>4, AppendIso
<1> HIDE DEF n
<1>8. n # None /\ n \in 0 .. n
  <2>1. 0 \in 0 .. Len(isos)
    BY <1>7
  <2> QED
    BY <2>1, <1>7, DNLAssumption
<1>9. /\ isoOf'[t] = n /\ \A u \in TermIds : u # t => isoOf'[u] = isoOf[u]
      /\ isoOf' \in [TermIds -> 0 .. n]
  BY <1>1, <1>4, <1>5, <1>7, <1>8
<1> DEFINE q == [term |-> t, iso |-> n, stack |-> <<t>>, visited |-> {}]
<1>10. q \in TraceRecord
  <2>1. <<t>> \in Seq(Nat)
    BY <1>5
  <2> QED
    BY <2>1, <1>5, <1>7 DEF TraceRecord
<1>11. /\ trace' \in [Worker -> TraceRecord] /\ trace'[Main] = q
       /\ \A w \in Worker : w # Main => trace'[w] = trace[w]
  BY <1>1, <1>4, <1>10, DNLAssumption
<1>12. /\ trace'[Main].term = t /\ trace'[Main].iso = n /\ trace'[Main].stack = <<t>>
       /\ trace'[Main].visited = {} /\ Active(Main)'
  BY <1>11 DEF Active
<1> HIDE DEF q
<1>13. \A w \in Worker : Active(w)' <=> w = Main
  BY <1>6, <1>11, <1>12, DNLAssumption DEF Active
<1>14. Seeds' = {t}
  <2>1. Main \in Worker
    BY DNLAssumption
  <2> QED
    BY <2>1, <1>1, <1>6, <1>12, <1>13 DEF Seeds
<1>15. /\ \A u \in TermIds : u \in Comp(u)
       /\ \A u \in TermIds : \A v \in Comp(u) : v \in TermIds /\ u \in Comp(v) /\ Comp(v) = Comp(u)
  BY CompFacts, CompSame
<1>16. \A u \in TermIds : isoOf[u] # None =>
         /\ \A v \in TermIds : isoOf[v] = isoOf[u] <=> v \in Comp(u)
         /\ IsoHas(isoOf[u], Comp(u))
  BY <1>4, <1>6 DEF Settling
<1>17. \A u \in Comp(t) : isoOf[u] = None
  BY <1>5, <1>15, <1>16
<1>18. TraceTypes'
  BY <1>1, <1>3, <1>7, <1>9, <1>11 DEF TraceTypes, n
<1>19. SeedsApart' /\ \A d \in tasks' : IsoHas(isoOf[d], {})'
  BY <1>1, <1>6, <1>13 DEF SeedsApart
<1>20. ASSUME NEW w \in Worker, Active(w)' PROVE Tracing(w)'
  <2>1. w = Main
    BY <1>13, <1>20
  <2>2. \A x \in 1 .. Len(<<t>>) : <<t>>[x] = t
    OBVIOUS
  <2>3. t \in Range(<<t>>)
    <3>1. 1 \in DOMAIN <<t>> /\ <<t>>[1] = t
      OBVIOUS
    <3> QED
      BY <3>1 DEF Range
  <2>4. IsoHas(trace[Main].iso, trace[Main].visited)'
    <3>1. \A y, V : y = n /\ V = {} => isos'[y] = IsoOn(V)
      BY <1>7, NewIsoOn
    <3>2. \A y, V : y = n /\ V = {} => IsoHas(y, V)'
      BY <3>1, <1>2, IsoHasNext
    <3> QED
      BY <3>2, <1>12 DEF IsoHas, TypeOf, TypesAt
  <2>5. Comp(trace[Main].term)' = Comp(t)
    <3>1. Comp(trace[Main].term)' = Comp(t)'
      BY <1>12 DEF Comp
    <3> QED
      BY <3>1, <1>3
  <2> QED
    BY <2>1, <2>2, <2>3, <2>4, <2>5, <1>3, <1>5, <1>7, <1>9, <1>12, <1>15 DEF Tracing, n
<1>21. tasks' \subseteq again' /\ AgainOK'
  BY <1>1, <1>3, <1>4 DEF Settling, AgainOK
<1>22. /\ \A d, e \in Seeds' : e \in Comp(d)' => e = d
       /\ \A d \in Seeds' : isoOf'[d] # None
  BY <1>8, <1>9, <1>14
<1>23. \A d \in Seeds' : \A u \in TermIds' : isoOf'[u] = isoOf'[d] => u \in Comp(d)'
  <2> SUFFICES ASSUME NEW u \in TermIds, isoOf'[u] = n PROVE u \in Comp(t)
    BY <1>3, <1>9, <1>14
  <2>1. isoOf[u] # n
    BY <1>4, <1>7
  <2> QED
    BY <2>1, <1>9, <1>15
<1>24. \A d \in Seeds' : \A u \in Comp(d)' : isoOf'[u] \in {isoOf'[d], None} \/ Shadow(isoOf[u])'
  <2>1. \A u \in Comp(t) : u = t \/ isoOf'[u] = None
    <3> SUFFICES ASSUME NEW u \in Comp(t), u # t PROVE isoOf'[u] = None
      OBVIOUS
    <3>1. u \in TermIds
      BY <1>5, <1>15
    <3> QED
      BY <3>1, <1>9, <1>17
  <2> QED
    BY <2>1, <1>3, <1>14
<1>25. \A w \in Worker : Active(w)' => \A u \in trace'[w].visited : isoOf'[u] = trace'[w].iso
  BY <1>12, <1>13
<1>26. ASSUME NEW u \in TermIds', isoOf'[u] # None, \A d \in Seeds' : u \notin Comp(d)'
       PROVE  /\ \A v \in TermIds' : isoOf'[v] = isoOf'[u] <=> v \in Comp(u)'
              /\ IsoHas(isoOf[u], Comp(u))'
  <2>1. u \in TermIds /\ u \notin Comp(t)
    BY <1>3, <1>14, <1>26
  <2>2. u # t /\ isoOf'[u] = isoOf[u] /\ isoOf[u] # None
    BY <2>1, <1>5, <1>9, <1>15, <1>26
  <2>3. /\ \A v \in TermIds : isoOf[v] = isoOf[u] <=> v \in Comp(u)
        /\ IsoHas(isoOf[u], Comp(u))
    BY <2>1, <2>2, <1>16
  <2>4. t \notin Comp(u) /\ isoOf[u] # n
    BY <2>1, <1>4, <1>7, <1>15
  <2>5. \A v \in TermIds : isoOf'[v] = isoOf'[u] <=> v \in Comp(u)
    BY <2>2, <2>3, <2>4, <1>9
  <2>6. isoOf[u] \in 1 .. Len(isos)
    <3>1. isoOf[u] \in 0 .. Len(isos) /\ isoOf[u] # 0 /\ Len(isos) \in Nat
      BY <2>1, <2>2, <1>4, <1>7, DNLAssumption
    <3> QED
      BY <3>1
  <2>7. ASSUME NEW y, NEW V, y = isoOf'[u], V = Comp(u) PROVE IsoHas(y, V)'
    <3>1. isos'[y] = IsoOn(V)
      BY <2>2, <2>3, <2>6, <2>7, <1>7, IsoOnHas
    <3> QED
      BY <3>1, <1>2, IsoHasNext
  <2>8. IsoHas(isoOf[u], Comp(u))'
    BY <2>7, <1>3 DEF IsoHas, TypeOf, TypesAt
  <2> QED
    BY <2>5, <2>8, <1>3
<1>27. ASSUME NEW y \in 1 .. Len(isos'), Shadow(y)' \/ (\A u \in TermIds' : isoOf'[u] # y)
       PROVE  isos'[y].drivers = {} /\ isos'[y].readers = {}
  <2>1. CASE y = n
    BY <2>1, <1>7, NewIsoOn
  <2>2. CASE y \in 1 .. Len(isos)
    <3>1. isos'[y] = isos[y] /\ y # None
      BY <2>2, <1>7, DNLAssumption
    <3>2. Shadow(y)' => Shadow(y)
      BY <3>1 DEF Shadow
    <3>3. (\A u \in TermIds : isoOf'[u] # y) => \A u \in TermIds : isoOf[u] # y
      BY <3>1, <1>5, <1>9
    <3> QED
      BY <2>2, <3>1, <3>2, <3>3, <1>3, <1>4, <1>27 DEF Settling
  <2> QED
    BY <2>1, <2>2, <1>7 DEF n
<1>28. \A d \in Drivers' : \A u \in Comp(d)' : isoOf'[u] # None
  <2>1. Drivers \subseteq TermIds
    BY DriverFacts
  <2> QED
    BY <2>1, <1>3, <1>4, <1>8, <1>9, <1>15 DEF Settling
<1>29. Settling'
  BY <1>21, <1>22, <1>23, <1>24, <1>25, <1>26, <1>27, <1>28 DEF Settling
<1>30. DanglingPass'
  <2>1. \A d \in Drivers : d \notin Comp(t)
    <3>1. Drivers \subseteq TermIds
      BY DriverFacts
    <3> QED
      BY <3>1, <1>4, <1>5, <1>15 DEF Settling
  <2>2. NetSet(trace[Main].term)' = NetSet(t) /\ Comp(trace[Main].term)' = Comp(t)
    <3>1. NetSet(trace[Main].term)' = NetSet(t)' /\ Comp(trace[Main].term)' = Comp(t)'
      BY <1>12 DEF NetSet, Comp, BitNet, TermNet
    <3> QED
      BY <3>1, <1>3
  <2>3. isos'[trace'[Main].iso].drivers = {} /\ trace'[Main].iso \in 1 .. Len(isos')
    BY <1>7, <1>12, NewIsoOn DEF n
  <2>4. \A w \in Worker \ {Main} : ~Active(w)'
    BY <1>13
  <2> QED
    BY <2>1, <2>2, <2>3, <2>4, <1>1, <1>3, <1>5, <1>6 DEF DanglingPass
<1> QED
  BY <1>1, <1>18, <1>19, <1>20, <1>29, <1>30 DEF Traced

(* When nothing dangles, every terminal on a net has an iso. *)
LEMMA AllLabelled ==
  ASSUME Ready, OneChildNets, Settling, Seeds = {}, \A t \in TermIds : ~Dangling(t),
         NEW t \in TermIds, NetSet(t) # {}
  PROVE  isoOf[t] # None
<1> SUFFICES ASSUME isoOf[t] = None PROVE FALSE
  OBVIOUS
<1> DEFINE i == terms[t].inst
           d == ModelOf(i)
           n == BitNet(t)
<1>1. /\ i \in Ids /\ d \in Design /\ DOMAIN net[d] = Components(d)
      /\ terms[t].bit \in 1 .. Len(Directions[d])
  BY TermFacts
<1>2. ASSUME NEW u \in TermIds, u \in Comp(t) PROVE isoOf[u] = None
  <2>1. t \in Comp(u)
    BY <1>2, CompSame
  <2> QED
    BY <2>1, <1>2 DEF Settling
<1>3. TermNet(t) = None /\ n # None /\ ~LeafInst(i) /\ isLeaf(i)
  <2>1. TermNet(t) = None /\ (n = None \/ isLeaf(i))
    BY DEF Dangling
  <2> QED
    BY <2>1 DEF NetSet
<1>4. <<i, n>> \in NetSet(t)
  BY <1>3 DEF NetSet
<1>5. ASSUME NEW u \in TermIds, u \in On(<<i, n>>) PROVE u \in Comp(t)
  <2>1. u \in Adj(t)
    BY <1>4, <1>5 DEF Adj
  <2> QED
    BY <2>1, CompFacts DEF Closed
<1>6. /\ BitTermsOn(i, n) \subseteq On(<<i, n>>) /\ InstTermsOn(i, n) \subseteq On(<<i, n>>)
  BY DEF On
<1>7. Done /\ ChildrenOf(i)
  BY <1>1, NumberingDone DEF Ready, Done
<1>8. InstancesOf[d] \in Seq(Design)
  BY <1>1, DNLAssumption
<1>9. Len(InstancesOf[d]) = 1 \/ (i = 1 /\ InstancesOf[d] = <<>>)
  <2>1. CASE InstancesOf[d] = <<>>
    BY <2>1, <1>3 DEF LeafInst
  <2>2. CASE InstancesOf[d] # <<>>
    <3>1. insts[i].children[2] = insts[i].children[1] + Len(InstancesOf[d]) - 1
          /\ insts[i].children[1] = insts[i].children[2]
      BY <2>2, <1>3, <1>7 DEF ChildrenOf, getChildInstance, isLeaf
    <3>2. insts[i].children[1] \in Nat /\ Len(InstancesOf[d]) \in Nat
      <4>1. insts[i] \in InstRecord
        BY <1>1, ElementOfSeq DEF Ready, Numbered, NumberingTypes, Ids
      <4> QED
        BY <4>1, <1>8 DEF InstRecord
    <3>3. \A a, l \in Nat : a = a + l - 1 => l = 1
      OBVIOUS
    <3> QED
      BY <3>1, <3>2, <3>3
  <2> QED
    BY <2>1, <2>2
<1>10. i = 1 => d = Top
  <2>1. path[1] = <<>> /\ ModelOf(1) = DesignAt[path[1]]
    BY DEF Ready, Numbered, Climbs
  <2> QED
    BY <2>1, HierarchyAssumption
<1> DEFINE c == <<0, terms[t].bit>>
<1>11. c \in Components(d) /\ net[d][c] = n /\ net \in Wirings
  BY <1>1, ComponentsIff DEF BitNet, Ready, Netlist
<1>12. ASSUME NEW e \in Components(d), net[d][e] = n, e[1] # 0 PROVE FALSE
  <2>1. PICK u : u = getTerminal(getChildInstance(i, e[1]), e[2])
    OBVIOUS
  <2>2. u \in InstTermsOn(i, n)
    BY <1>1, <1>12, <2>1 DEF InstTermsOn
  <2>3. u \in TermIds /\ TermNet(u) = n
    BY <2>2, <1>1, InstOn
  <2>4. isoOf[u] # None
    BY <2>3, <1>3 DEF Dangling
  <2> QED
    BY <2>2, <2>3, <2>4, <1>2, <1>5, <1>6
<1>13. ASSUME NEW k \in 1 .. Len(Directions[d]), net[d][<<0, k>>] = n
       PROVE  \E u \in TermIds : /\ u \in Comp(t) /\ terms[u].inst = i /\ terms[u].bit = k
                                 /\ isoOf[u] = None /\ BitNet(u) = n
  <2>1. PICK u : u = getTerminal(i, k)
    OBVIOUS
  <2>2. u \in TermIds /\ terms[u].inst = i /\ terms[u].bit = k
    BY <1>1, <2>1 DEF Ready, Numbered, TermsFound
  <2>3. BitNet(u) = n
    BY <2>2, <1>13 DEF BitNet
  <2>4. u \in BitTermsOn(i, n)
    BY <1>1, <2>2, <2>3, BitOn
  <2> QED
    BY <2>2, <2>3, <2>4, <1>2, <1>5, <1>6
<1>14. CASE i = 1
  <2>1. ASSUME NEW k \in 1 .. Len(Directions[d]), net[d][<<0, k>>] = n, Directions[d][k] # "Output"
        PROVE  FALSE
    <3>1. PICK u \in TermIds : /\ u \in Comp(t) /\ terms[u].inst = i /\ terms[u].bit = k
                               /\ isoOf[u] = None /\ BitNet(u) = n
      BY <1>13, <2>1
    <3>2. u \in TopDrivers
      BY <3>1, <2>1, <1>3, <1>14 DEF TopDrivers, IsTop, Direction, TermIds
    <3>3. u \in Drivers /\ u \in Comp(u)
      BY <3>1, <3>2, CompFacts DEF Drivers
    <3> QED
      BY <3>1, <3>3 DEF Settling
  <2>2. \/ \E e \in Components(d) : net[d][e] = net[d][c] /\ e[1] # 0
        \/ \E k \in 1 .. Len(Directions[d]) : net[d][<<0, k>>] = net[d][c] /\ Directions[d][k] # "Output"
    BY <1>1, <1>3, <1>9, <1>10, <1>11, <1>14 DEF OneChildNets
  <2> QED
    BY <2>1, <2>2, <1>11, <1>12
<1>15. CASE i # 1
  <2>1. PICK p \in Ids : p = insts[i].parent
    BY <1>1, <1>15, TermFacts
  <2>2. PICK j \in 1 .. Len(InstancesOf[ModelOf(p)]) : j = insts[i].snl
    BY <2>1, <1>1, <1>15, TermFacts
  <2>3. InstancesOf[ModelOf(p)][j] = d /\ ModelOf(p) \in Design
    BY <2>1, <2>2, <1>1, <1>15, TermFacts
  <2>4. ASSUME NEW k \in 1 .. Len(Directions[d]), net[d][<<0, k>>] = n, net[ModelOf(p)][<<j, k>>] # None
        PROVE  FALSE
    <3>1. PICK u \in TermIds : /\ u \in Comp(t) /\ terms[u].inst = i /\ terms[u].bit = k
                               /\ isoOf[u] = None /\ BitNet(u) = n
      BY <1>13, <2>4
    <3>2. TermNet(u) # None
      BY <3>1, <2>1, <2>2, <2>4, <1>15 DEF TermNet, IsTop
    <3> QED
      BY <3>1, <3>2 DEF Dangling
  <2>5. Len(InstancesOf[d]) = 1
    BY <1>9, <1>15
  <2>6. \/ \E e \in Components(d) : net[d][e] = net[d][c] /\ e[1] # 0
        \/ \A e \in Design : \A m \in 1 .. Len(InstancesOf[e]) : InstancesOf[e][m] = d =>
             \E k \in 1 .. Len(Directions[d]) : net[d][<<0, k>>] = net[d][c] /\ net[e][<<m, k>>] # None
    BY <2>5, <1>1, <1>3, <1>11 DEF OneChildNets
  <2> QED
    BY <2>3, <2>4, <2>6, <1>11, <1>12
<1> QED
  BY <1>14, <1>15

(* The last pass ends. *)
LEMMA FinishTraced ==
  ASSUME Ready, Traced, Finish
  PROVE  Traced'
<1>1. /\ phase = "dangling" /\ phase' = "done" /\ ~Active(Main) /\ trace' = trace
      /\ isos' = Append(isos, NewIso) /\ isoOf' = isoOf
      /\ \A t \in TermIds : ~Dangling(t)
      /\ tasks' = tasks /\ again' = again /\ UNCHANGED <<netlist, numbering>>
  BY DEF Finish, Active, TermIds
<1>2. SameGraph /\ TermIds' = TermIds /\ \A u : NetSet(u)' = NetSet(u)
  BY <1>1, GraphFrame DEF SameGraph
<1>3. /\ TraceTypes /\ Settling /\ DanglingPass /\ isos \in Seq(IsoRecord)
      /\ isoOf \in [TermIds -> 0 .. Len(isos)] /\ trace \in [Worker -> TraceRecord]
  BY <1>1 DEF Traced, TraceTypes
<1>4. tasks = {} /\ (\A w \in Worker : ~Active(w)) /\ Seeds = {}
  BY <1>1, <1>3 DEF DanglingPass, Seeds
<1>5. (\A w \in Worker : ~Active(w)') /\ Seeds' = {}
  BY <1>1, <1>4 DEF Active, Seeds
<1>6. /\ isos' \in Seq(IsoRecord) /\ Len(isos) \in Nat /\ isos'[Len(isos')] = NewIso
      /\ \A y \in 1 .. Len(isos) : isos'[y] = isos[y] /\ y \in 1 .. Len(isos')
      /\ \A y \in 1 .. Len(isos') : y \notin 1 .. Len(isos) => y = Len(isos')
      /\ \A y \in 0 .. Len(isos) : y \in 0 .. Len(isos')
  BY <1>1, <1>3, AppendIso
<1>7. TraceTypes'
  BY <1>1, <1>2, <1>3, <1>6 DEF TraceTypes
<1>8. Settling'
  <2>1. \A y \in 1 .. Len(isos') : y \notin 1 .. Len(isos) => isos'[y].drivers = {} /\ isos'[y].readers = {}
    BY <1>6, NewIsoOn
  <2> QED
    BY <2>1, <1>1, <1>2, <1>3, <1>4, <1>5, <1>6, SettlingFrame
<1>9. DanglingPass'
  <2>1. ~Active(Main)'
    BY <1>5, DNLAssumption
  <2> QED
    BY <2>1, <1>1, <1>3, <1>4, <1>5, <1>6 DEF DanglingPass
<1>10. OneChildNets => \A t \in TermIds' : (NetSet(t) # {})' => isoOf'[t] # None
  BY <1>1, <1>2, <1>3, <1>4, AllLabelled
<1>11. SeedsApart' /\ \A d \in tasks' : IsoHas(isoOf[d], {})'
  BY <1>1, <1>4, <1>5 DEF SeedsApart
<1>12. OneChildNets' => OneChildNets
  BY DEF OneChildNets
<1> QED
  BY <1>1, <1>5, <1>7, <1>8, <1>9, <1>10, <1>11, <1>12 DEF Traced

(* No step changes the netlist. *)
LEMMA NetlistStays ==
  ASSUME Netlist, UNCHANGED netlist
  PROVE  Netlist'
<1>1. net' = net /\ type' = type /\ wires' = wires
  BY DEF netlist
<1>2. Wires' = Wires
  BY <1>1 DEF Wires, WireTerms, WireNets, NetType
<1> QED
  BY <1>1, <1>2 DEF Netlist

(* Until round 1 there are no isos. *)
LEMMA NumberingTraced ==
  ASSUME Traced, phase \in {"top", "children", "dfs"}, phase' \in {"top", "children", "dfs"},
         UNCHANGED labelling
  PROVE  Traced'
<1>1. /\ isoOf' = isoOf /\ isos' = isos /\ tasks' = tasks /\ again' = again /\ trace' = trace
  BY DEF labelling
<1>2. TraceTypes'
  BY <1>1 DEF Traced, TraceTypes, Active
<1> QED
  BY <1>2 DEF Traced

(* So does a step that changes nothing. *)
LEMMA StutterTraced ==
  ASSUME Traced, UNCHANGED vars
  PROVE  Traced'
<1>1. /\ phase' = phase /\ isoOf' = isoOf /\ isos' = isos /\ tasks' = tasks /\ again' = again
      /\ trace' = trace /\ UNCHANGED <<netlist, numbering>>
  BY DEF vars, labelling
<1>2. SameGraph
  BY <1>1, GraphFrame
<1>3. /\ TermIds' = TermIds /\ Drivers' = Drivers
      /\ \A t : /\ Comp(t)' = Comp(t) /\ Adj(t)' = Adj(t) /\ NetSet(t)' = NetSet(t) /\ Role(t)' = Role(t)
                /\ Several(t)' = Several(t)
      /\ \A V : TypesAt(V)' = TypesAt(V)
  BY <1>2 DEF SameGraph
<1>4. TraceTypes'
  BY <1>1, <1>3 DEF Traced, TraceTypes, Active
<1>5. (\A w \in Worker : Active(w)' <=> Active(w)) /\ Seeds' = Seeds
  BY <1>1 DEF Active, Seeds
<1>6. \A x, V : IsoHas(x, V) => IsoHas(x, V)'
  <2>1. ASSUME NEW x, NEW V, IsoHas(x, V) PROVE IsoHas(x, V)'
    <3>1. isos'[x] = IsoOn(V)
      BY <1>1, <2>1, IsoOnHas
    <3> QED
      BY <3>1, <1>2, IsoHasNext
  <2> QED
    BY <2>1
<1>7. ASSUME NEW d, IsoHas(isoOf[d], Comp(d)) PROVE IsoHas(isoOf[d], Comp(d))'
  <2>1. \A x, V : x = isoOf[d] /\ V = Comp(d) => IsoHas(x, V)'
    BY <1>6, <1>7
  <2>2. Comp(d)' = Comp(d)
    BY <1>3
  <2> QED
    BY <2>1, <2>2, <1>1 DEF IsoHas, TypeOf, TypesAt
<1>8. CASE phase \in {"top", "children", "dfs"}
  BY <1>1, <1>4, <1>8 DEF Traced
<1>9. CASE phase \notin {"top", "children", "dfs"}
  <2>1. /\ SeedsApart /\ (\A d \in tasks : IsoHas(isoOf[d], {})) /\ \A w \in Worker : Active(w) => Tracing(w)
        /\ isoOf \in [TermIds -> 0 .. Len(isos)] /\ Len(isos) \in Nat
    BY <1>9 DEF Traced, TraceTypes
  <2>2. SeedsApart'
    BY <2>1, <1>1, <1>3, <1>5 DEF SeedsApart
  <2>3. \A d \in tasks' : IsoHas(isoOf[d], {})'
    <3>1. \A d \in tasks : \A x : x = isoOf[d] => IsoHas(x, {})'
      BY <2>1, <1>6
    <3> QED
      BY <3>1, <1>1 DEF IsoHas, TypeOf
  <2>4. \A w \in Worker : Active(w)' => Tracing(w)'
    <3> SUFFICES ASSUME NEW w \in Worker, Active(w) PROVE Tracing(w)'
      BY <1>5
    <3>1. Tracing(w) /\ trace'[w] = trace[w] /\ trace[w].iso \in 1 .. Len(isos')
      BY <2>1, <1>1 DEF Tracing
    <3> QED
      BY <3>1, <1>1, <1>2, TracingFrame
  <2>5. phase = "round1" => Round1'
    <3> SUFFICES ASSUME Round1 PROVE Round1'
      BY DEF Traced
    <3>1. \A d \in Drivers' \ Seeds' : IsoHas(isoOf[d], Comp(d))'
      BY <1>3, <1>5, <1>7 DEF Round1
    <3>2. /\ tasks' \subseteq Drivers'
          /\ \A d \in Drivers' : isoOf'[d] # None
          /\ \A d, e \in Drivers' : isoOf'[d] = isoOf'[e] => d = e
          /\ \A x \in 1 .. Len(isos') : \E d \in Drivers' : isoOf'[d] = x
          /\ \A w \in Worker : Active(w)' => trace'[w].term \in Drivers'
          /\ \A u \in TermIds' \ Drivers' : isoOf'[u] # None => \E d \in Drivers' : u \in Comp(d)' /\ isoOf'[u] = isoOf'[d]
          /\ \A w \in Worker : Active(w)' => \A t \in trace'[w].visited : isoOf'[t] # None
          /\ \A d \in Drivers' \ Seeds' : \A u \in Comp(d)' : isoOf'[u] # None
      BY <1>1, <1>3, <1>5 DEF Round1
    <3> QED
      BY <3>1, <3>2 DEF Round1
  <2>6. phase \in {"round2", "dangling", "done"} => Settling'
    <3> SUFFICES ASSUME Settling PROVE Settling'
      BY DEF Traced
    <3>1. \A w \in Worker : Active(w)' => \A u \in trace'[w].visited : isoOf'[u] = trace'[w].iso
      BY <1>1, <1>5 DEF Settling
    <3> QED
      BY <2>1, <3>1, <1>1, <1>2, <1>5, SettlingFrame
  <2>7. phase \in {"dangling", "done"} => DanglingPass'
    <3> SUFFICES ASSUME DanglingPass PROVE DanglingPass'
      BY DEF Traced
    <3>1. NetSet(trace[Main].term)' = NetSet(trace[Main].term) /\ Comp(trace[Main].term)' = Comp(trace[Main].term)
      <4>1. PICK e : e = trace[Main].term
        OBVIOUS
      <4>2. NetSet(trace[Main].term)' = NetSet(e)' /\ Comp(trace[Main].term)' = Comp(e)'
        BY <4>1, <1>1 DEF NetSet, Comp, BitNet, TermNet
      <4> QED
        BY <4>1, <4>2, <1>3
    <3> QED
      BY <3>1, <1>1, <1>3, <1>5, DNLAssumption DEF DanglingPass
  <2>8. phase = "done" /\ OneChildNets => \A t \in TermIds' : (NetSet(t) # {})' => isoOf'[t] # None
    BY <1>1, <1>3 DEF Traced
  <2>9. OneChildNets' => OneChildNets
    BY DEF OneChildNets
  <2> QED
    BY <2>2, <2>3, <2>4, <2>5, <2>6, <2>7, <2>8, <2>9, <1>1, <1>4, <1>5 DEF Traced
<1> QED
  BY <1>8, <1>9

(* What holds of the dissolved netlist at all times. *)
Inv == PlainLeaves /\ Numbered /\ Searched /\ Netlist /\ Traced

(* The invariant holds at first, *)
LEMMA InitInv == Init /\ PlainLeaves => Inv
<1> SUFFICES ASSUME Init, PlainLeaves PROVE Netlist /\ Traced
  BY InitSearched DEF Inv
<1>1. Netlist
  BY DEF Init, Netlist
<1>2. /\ phase = "top" /\ isoOf = <<>> /\ isos = <<>> /\ tasks = {} /\ again = {}
      /\ trace = [w \in Worker |-> Idle]
  BY DEF Init
<1>3. TraceTypes
  <2>1. Idle \in TraceRecord
    BY DNLAssumption DEF Idle, TraceRecord
  <2>2. trace \in [Worker -> TraceRecord] /\ \A w \in Worker : ~Active(w)
    BY <2>1, <1>2 DEF Active, Idle
  <2> QED
    BY <2>2, <1>2 DEF TraceTypes
<1> QED
  BY <1>1, <1>2, <1>3 DEF Traced

(* is kept by every step, *)
LEMMA InvStep == Inv /\ [Next]_vars => Inv'
<1> SUFFICES ASSUME Inv, [Next]_vars PROVE Inv'
  OBVIOUS
<1>1. PlainLeaves /\ Numbered /\ Searched /\ Netlist /\ Traced
  BY DEF Inv
<1>2. PlainLeaves' /\ Numbered' /\ Searched'
  BY <1>1, NumberingStep DEF PlainLeaves
<1>3. UNCHANGED netlist
  BY DEF Next, CreateTop, AddChild, NextParent, EndChildren, VisitTop, VisitChild, Return, CollectDrivers,
         TakeTask, Visit, Sift, Join, TraceDangling, Finish, vars
<1>4. Netlist'
  BY <1>1, <1>3, NetlistStays
<1>5. CASE CreateTop \/ AddChild \/ NextParent \/ VisitTop \/ VisitChild \/ Return
  <2>1. UNCHANGED labelling /\ phase \in {"top", "children", "dfs"} /\ phase' \in {"top", "children", "dfs"}
    BY <1>5 DEF CreateTop, AddChild, NextParent, EndChildren, VisitTop, VisitChild, Return
  <2> QED
    BY <2>1, <1>1, <1>2, <1>4, NumberingTraced DEF Inv
<1>6. ASSUME phase \notin {"top", "children"} PROVE Ready
  BY <1>1, <1>6 DEF Ready
<1>7. CASE CollectDrivers
  BY <1>1, <1>2, <1>4, <1>6, <1>7, CollectTraced DEF Inv, CollectDrivers
<1>8. CASE \E w \in Worker, t \in tasks : TakeTask(w, t)
  BY <1>1, <1>2, <1>4, <1>6, <1>8, TakeTraced DEF Inv, TakeTask
<1>9. CASE \E w \in Worker : Visit(w)
  <2>1. PICK w \in Worker : Visit(w)
    BY <1>9
  <2>2. phase \notin {"top", "children"}
    BY <2>1, <1>1 DEF Visit, Traced, TraceTypes, Active
  <2> QED
    BY <2>1, <2>2, <1>1, <1>2, <1>4, <1>6, VisitTraced DEF Inv
<1>10. CASE Sift
  BY <1>1, <1>2, <1>4, <1>6, <1>10, SiftTraced DEF Inv, Sift
<1>11. CASE Join
  BY <1>1, <1>2, <1>4, <1>6, <1>11, JoinTraced DEF Inv, Join
<1>12. CASE \E t \in 1 .. Len(terms) : TraceDangling(t)
  BY <1>1, <1>2, <1>4, <1>6, <1>12, DanglingTraced DEF Inv, TraceDangling
<1>13. CASE Finish
  BY <1>1, <1>2, <1>4, <1>6, <1>13, FinishTraced DEF Inv, Finish
<1>14. CASE UNCHANGED vars
  BY <1>1, <1>2, <1>4, <1>14, StutterTraced DEF Inv
<1> QED
  BY <1>5, <1>7, <1>8, <1>9, <1>10, <1>11, <1>12, <1>13, <1>14 DEF Next

(* and so holds at all times. *)
LEMMA InvHolds == PlainLeaves /\ Spec => []Inv
  BY InitInv, InvStep, PTL DEF Spec

-----------------------------------------------------------------------------
(* What the isos are in the end.                                           *)
LEMMA IsosDone ==
  ASSUME Inv, phase = "done"
  PROVE  IsoListsItsTerms
<1>1. Ready /\ Settling /\ DanglingPass /\ (\A w \in Worker : ~Active(w)) /\ TraceTypes
  BY DEF Inv, Traced, Ready
<1>2. Seeds = {} /\ isoOf \in [TermIds -> 0 .. Len(isos)]
  BY <1>1 DEF Seeds, DanglingPass, TraceTypes
<1>3. ASSUME NEW x \in 1 .. Len(isos)
      PROVE  /\ isos[x].drivers \cup isos[x].readers = {t \in TermIds : isoOf[t] = x /\ Role(t) # "hier"}
             /\ isos[x].type = "SHADOW" => x \notin Range(isoOf)
  <2>0. x # None
    BY DNLAssumption
  <2>1. CASE \A t \in TermIds : isoOf[t] # x
    <3>1. isos[x].drivers = {} /\ isos[x].readers = {}
      BY <2>1, <1>1 DEF Settling
    <3>2. x \notin Range(isoOf)
      BY <2>1, <1>2 DEF Range
    <3> QED
      BY <2>1, <3>1, <3>2
  <2>2. ASSUME NEW t \in TermIds, isoOf[t] = x
        PROVE  /\ isos[x].drivers \cup isos[x].readers = {u \in TermIds : isoOf[u] = x /\ Role(u) # "hier"}
               /\ isos[x].type = "SHADOW" => x \notin Range(isoOf)
    <3>1. /\ \A u \in TermIds : isoOf[u] = x <=> u \in Comp(t)
          /\ IsoHas(x, Comp(t))
      BY <2>0, <2>2, <1>1, <1>2 DEF Settling
    <3>2. isos[x].drivers = {u \in Comp(t) : Role(u) = "driver"} /\ isos[x].readers = {u \in Comp(t) : Role(u) = "reader"}
          /\ isos[x].type # "SHADOW"
      BY <3>1, <1>1, TypeOfRange DEF IsoHas
    <3>3. \A u : Role(u) # "hier" <=> Role(u) \in {"driver", "reader"}
      BY DEF Role
    <3>4. Comp(t) \subseteq TermIds
      BY DEF Comp
    <3> QED
      BY <3>1, <3>2, <3>3, <3>4
  <2> QED
    BY <2>1, <2>2
<1> QED
  BY <1>3 DEF IsoListsItsTerms, TermIds

(* Each net treated again has one iso with several drivers. *)
LEMMA AgainCounted ==
  ASSUME Inv, phase = "round2", Joined
  PROVE  Cardinality(again) = Cardinality(MultiDriver)
<1>1. Ready /\ Settling /\ AgainOK /\ TraceTypes
  BY DEF Inv, Traced, Ready, Settling
<1>2. Seeds = {} /\ isoOf \in [TermIds -> 0 .. Len(isos)] /\ Len(isos) \in Nat
  BY <1>1 DEF Seeds, Joined, Active, TraceTypes
<1>3. Drivers \subseteq TermIds /\ again \subseteq Drivers
  BY <1>1, DriverFacts DEF AgainOK
<1>4. /\ \A u \in TermIds : u \in Comp(u)
      /\ \A u \in TermIds : \A v \in Comp(u) : v \in TermIds /\ u \in Comp(v) /\ Comp(v) = Comp(u)
  BY <1>1, CompFacts, CompSame
<1>5. \A u \in TermIds : isoOf[u] # None =>
        /\ isoOf[u] \in 1 .. Len(isos)
        /\ \A v \in TermIds : isoOf[v] = isoOf[u] <=> v \in Comp(u)
        /\ isos[isoOf[u]].drivers = {v \in Comp(u) : Role(v) = "driver"}
        /\ IsFiniteSet(isos[isoOf[u]].drivers)
  <2> SUFFICES ASSUME NEW u \in TermIds, isoOf[u] # None
               PROVE  /\ isoOf[u] \in 1 .. Len(isos)
                      /\ \A v \in TermIds : isoOf[v] = isoOf[u] <=> v \in Comp(u)
                      /\ isos[isoOf[u]].drivers = {v \in Comp(u) : Role(v) = "driver"}
                      /\ IsFiniteSet(isos[isoOf[u]].drivers)
    OBVIOUS
  <2>1. isoOf[u] \in 1 .. Len(isos)
    <3>1. isoOf[u] \in 0 .. Len(isos) /\ isoOf[u] # 0
      BY <1>2, DNLAssumption
    <3> QED
      BY <3>1, <1>2
  <2>2. /\ \A v \in TermIds : isoOf[v] = isoOf[u] <=> v \in Comp(u)
        /\ IsoHas(isoOf[u], Comp(u))
    BY <1>1, <1>2 DEF Settling
  <2>3. isos[isoOf[u]].drivers = {v \in Comp(u) : Role(v) = "driver"}
    BY <2>2 DEF IsoHas
  <2>4. isos[isoOf[u]].drivers \subseteq TermIds
    BY <2>3 DEF Comp
  <2>5. IsFiniteSet(isos[isoOf[u]].drivers)
    BY <2>4, <1>1, TermIdsFinite, FS_Subset
  <2> QED
    BY <2>1, <2>2, <2>3, <2>5
<1>6. ASSUME NEW a \in again PROVE isoOf[a] # None /\ isoOf[a] \in MultiDriver /\ a \in TermIds
  <2>1. a \in TermIds /\ a \in Drivers /\ Several(a) /\ a \in Comp(a)
    BY <1>1, <1>3, <1>4 DEF AgainOK
  <2>2. isoOf[a] # None
    BY <2>1, <1>1 DEF Settling
  <2>3. \A d \in Drivers : Role(d) = "driver"
    BY <1>1, <1>3, DriverFacts
  <2>4. PICK e \in Drivers : e \in Comp(a) /\ e # a
    BY <2>1 DEF Several
  <2>5. a \in isos[isoOf[a]].drivers /\ e \in isos[isoOf[a]].drivers
    BY <2>1, <2>2, <2>3, <2>4, <1>5
  <2>6. Cardinality(isos[isoOf[a]].drivers) > 1
    BY <2>1, <2>2, <2>4, <2>5, <1>5, MoreThanOne
  <2> QED
    BY <2>1, <2>2, <2>6, <1>5 DEF MultiDriver
<1>7. ASSUME NEW a \in again, NEW b \in again, isoOf[a] = isoOf[b] PROVE a = b
  <2>1. b \in Comp(a)
    BY <1>5, <1>6, <1>7
  <2> QED
    BY <2>1, <1>1 DEF AgainOK
<1>8. ASSUME NEW x \in MultiDriver PROVE \E a \in again : isoOf[a] = x
  <2>1. x \in 1 .. Len(isos) /\ Cardinality(isos[x].drivers) > 1 /\ x # None
    BY DNLAssumption DEF MultiDriver
  <2>2. isos[x].drivers # {}
    <3>1. Cardinality({}) = 0 /\ ~(0 > 1)
      BY FS_EmptySet
    <3> QED
      BY <2>1, <3>1
  <2>3. PICK t \in TermIds : isoOf[t] = x
    BY <2>1, <2>2, <1>1 DEF Settling
  <2>4. isos[x].drivers = {v \in Comp(t) : Role(v) = "driver"} /\ IsFiniteSet(isos[x].drivers)
    BY <2>1, <2>3, <1>5
  <2>5. PICK d \in isos[x].drivers : TRUE
    BY <2>2
  <2>6. PICK e \in isos[x].drivers : e # d
    BY <2>1, <2>4, MoreThanOne
  <2>7. d \in Comp(t) /\ e \in Comp(t)
    BY <2>4
  <2>8. NetSet(t) # {}
    BY <2>6, <2>7, <1>1, Linked
  <2>9. d \in Drivers /\ e \in Drivers
    BY <2>4, <2>8, <1>1, CompDrivers
  <2>10. Several(d)
    BY <2>6, <2>7, <2>9, <1>4 DEF Several
  <2>11. PICK a \in again : a \in Comp(d)
    BY <2>9, <2>10, <1>1 DEF AgainOK
  <2>12. a \in Comp(t) /\ a \in TermIds
    BY <2>7, <2>11, <1>4
  <2> QED
    BY <2>1, <2>3, <2>12, <1>5
<1> DEFINE f == [a \in again |-> isoOf[a]]
<1>9. f \in Bijection(again, MultiDriver)
  <2>1. f \in [again -> MultiDriver]
    BY <1>6
  <2>2. \A a, b \in again : f[a] = f[b] => a = b
    BY <1>7
  <2>3. \A x \in MultiDriver : \E a \in again : f[a] = x
    BY <1>8
  <2> HIDE DEF f
  <2> QED
    BY <2>1, <2>2, <2>3 DEF Bijection, Injection, Surjection, IsInjective
<1>10. ExistsBijection(again, MultiDriver)
  BY <1>9 DEF ExistsBijection
<1>11. IsFiniteSet(again)
  BY <1>1, <1>3, TermIdsFinite, FS_Subset
<1> QED
  BY <1>10, <1>11, FS_Bijection

(* In the end an iso lists exactly the leaf and top terminals that carry   *)
(* its ID: nothing of round 1 survives on a net with several drivers,      *)
(* whatever the threads of round 1 wrote over each other's labels.  For    *)
(* every hierarchy, netlist and number of threads.                         *)
THEOREM IsosListTheirTerms == PlainLeaves /\ Spec => []IsoListsItsTerms
<1>1. Inv => IsoListsItsTerms
  BY IsosDone DEF IsoListsItsTerms
<1> QED
  BY <1>1, InvHolds, PTL

(* The assertions of process() hold: driversToTreat has as many drivers as *)
(* there are isos with several, and the last pass meets none.              *)
THEOREM AssertionsAreMet == PlainLeaves /\ Spec => []AssertionsHold
<1>1. Inv => AssertionsHold
  <2> SUFFICES ASSUME Inv PROVE AssertionsHold
    OBVIOUS
  <2>1. phase = "dangling" /\ trace[Main].iso # None => isos[trace[Main].iso].drivers = {}
    BY DEF Inv, Traced, DanglingPass
  <2> QED
    BY <2>1, AgainCounted DEF AssertionsHold
<1> QED
  BY <1>1, InvHolds, PTL

-----------------------------------------------------------------------------
(* The isos are the equipotentials.                                        *)

(* The terminals as the hierarchy names them. *)
Name(t) == <<path[terms[t].inst], terms[t].bit>>

Names(S) == {Name(t) : t \in S}

(* The nets that connect terminals, and what the hierarchy makes of one. *)
Nets == UNION {NetSet(t) : t \in TermIds}

Wire(w) == [terms |-> Names(On(w)), type |-> NetType(ModelOf(w[1]), w[2])]

(* The names are distinct. *)
LEMMA NameInjective ==
  ASSUME Ready
  PROVE  \A t, u \in TermIds : Name(t) = Name(u) => t = u
<1> SUFFICES ASSUME NEW t \in TermIds, NEW u \in TermIds, Name(t) = Name(u) PROVE t = u
  OBVIOUS
<1>1. path[terms[t].inst] = path[terms[u].inst] /\ terms[t].bit = terms[u].bit
  BY DEF Name
<1>2. terms[t].inst = terms[u].inst
  BY <1>1, TermFacts, PathInjective DEF Ready
<1> QED
  BY <1>1, <1>2, TermFacts

(* The nets are those on which there is a terminal. *)
LEMMA NetsIff ==
  ASSUME Ready, NEW i \in Ids, NEW n
  PROVE  <<i, n>> \in Nets <=> n # None /\ ~LeafInst(i) /\ \E c \in DOMAIN net[ModelOf(i)] : net[ModelOf(i)][c] = n
<1>0. /\ DOMAIN net[ModelOf(i)] = Components(ModelOf(i)) /\ ModelOf(i) \in Design
      /\ \A t \in TermIds : terms[t].inst \in Ids
  BY TermFacts
<1>1. BitTermsOn(i, n) = {t \in TermIds : terms[t].inst = i /\ BitNet(t) = n}
  BY BitOn
<1>2. InstTermsOn(i, n) =
           {t \in TermIds : /\ terms[t].inst # 1 /\ insts[terms[t].inst].parent = i
                            /\ TermNet(t) = n}
  BY InstOn
<1>3. ASSUME <<i, n>> \in Nets
      PROVE  n # None /\ ~LeafInst(i) /\ \E c \in DOMAIN net[ModelOf(i)] : net[ModelOf(i)][c] = n
  <2>1. PICK t \in TermIds : <<i, n>> \in NetSet(t)
    BY <1>3 DEF Nets
  <2>2. PICK w \in NetSet(t) : w = <<i, n>>
    BY <2>1
  <2>3. w[1] \in Ids /\ ~LeafInst(w[1]) /\ w[2] # None /\ t \in On(w)
    BY <2>2, NetSetFacts
  <2>4. n # None /\ ~LeafInst(i) /\ t \in InstTermsOn(i, n) \cup BitTermsOn(i, n)
    BY <2>2, <2>3 DEF On
  <2>5. \E c \in DOMAIN net[ModelOf(i)] : net[ModelOf(i)][c] = n
    BY <2>4 DEF InstTermsOn, BitTermsOn
  <2> QED
    BY <2>4, <2>5
<1>4. ASSUME n # None, ~LeafInst(i), NEW c \in DOMAIN net[ModelOf(i)], net[ModelOf(i)][c] = n
      PROVE  <<i, n>> \in Nets
  <2>1. PICK t : t \in InstTermsOn(i, n) \/ t \in BitTermsOn(i, n)
    BY <1>4 DEF InstTermsOn, BitTermsOn
  <2>2. CASE t \in InstTermsOn(i, n)
    <3>1. t \in TermIds /\ insts[terms[t].inst].parent = i /\ TermNet(t) = n
      BY <2>2, <1>2
    <3>2. <<i, n>> \in NetSet(t)
      BY <3>1, <1>4 DEF NetSet
    <3> QED
      BY <3>1, <3>2 DEF Nets
  <2>3. CASE t \in BitTermsOn(i, n)
    <3>1. t \in TermIds /\ terms[t].inst = i /\ BitNet(t) = n
      BY <2>3, <1>1
    <3>2. <<i, n>> \in NetSet(t)
      BY <3>1, <1>4 DEF NetSet
    <3> QED
      BY <3>1, <3>2 DEF Nets
  <2> QED
    BY <2>1, <2>2, <2>3
<1> QED
  BY <1>3, <1>4

(* The names of the terminals on a net. *)
LEMMA WireTermsNamed ==
  ASSUME Ready, NEW i \in Ids, NEW n
  PROVE  WireTerms(path[i], n) = Names(On(<<i, n>>))
<1> DEFINE d == ModelOf(i)
           C == {x \in DOMAIN net[d] : net[d][x] = n}
           P(c) == <<IF c[1] = 0 THEN path[i] ELSE Append(path[i], c[1]), c[2]>>
           T(c) == IF c[1] = 0 THEN getTerminal(i, c[2]) ELSE getTerminal(getChildInstance(i, c[1]), c[2])
<1>1. d = DesignAt[path[i]] /\ d \in Design /\ DOMAIN net[d] = Components(d) /\ ChildrenOf(i)
  BY TermFacts, NumberingDone DEF Ready, Done
<1>2. WireTerms(path[i], n) = {P(c) : c \in C}
  BY <1>1 DEF WireTerms
<1>3. On(<<i, n>>) = {T(c) : c \in C}
  <2>1. On(<<i, n>>) = {getTerminal(getChildInstance(i, c[1]), c[2]) : c \in {x \in DOMAIN net[d] : x[1] # 0 /\ net[d][x] = n}}
                        \cup {getTerminal(i, c[2]) : c \in {x \in DOMAIN net[d] : x[1] = 0 /\ net[d][x] = n}}
    BY DEF On, InstTermsOn, BitTermsOn
  <2>2. ASSUME NEW t \in On(<<i, n>>) PROVE \E c \in C : t = T(c)
    BY <2>1
  <2>3. ASSUME NEW c \in C PROVE T(c) \in On(<<i, n>>)
    BY <2>1
  <2> QED
    BY <2>2, <2>3
<1>4. ASSUME NEW c \in C PROVE Name(T(c)) = P(c)
  <2>1. c \in Components(d)
    BY <1>1
  <2>2. TermsFound
    BY DEF Ready, Numbered
  <2>3. CASE \E k \in 1 .. Len(Directions[d]) : c = <<0, k>>
    <3>1. PICK k \in 1 .. Len(Directions[d]) : c = <<0, k>>
      BY <2>3
    <3>2. T(c) = getTerminal(i, k) /\ P(c) = <<path[i], k>>
      BY <3>1
    <3>3. terms[getTerminal(i, k)].inst = i /\ terms[getTerminal(i, k)].bit = k
      BY <2>2 DEF TermsFound
    <3> QED
      BY <3>2, <3>3 DEF Name
  <2>4. CASE \E j \in 1 .. Len(InstancesOf[d]) : \E k \in 1 .. Len(Directions[InstancesOf[d][j]]) : c = <<j, k>>
    <3>1. PICK j \in 1 .. Len(InstancesOf[d]) : \E k \in 1 .. Len(Directions[InstancesOf[d][j]]) : c = <<j, k>>
      BY <2>4
    <3>2. PICK k \in 1 .. Len(Directions[InstancesOf[d][j]]) : c = <<j, k>>
      BY <3>1
    <3>3. PICK e \in Ids : e = getChildInstance(i, j) /\ e # 1 /\ insts[e].parent = i /\ insts[e].snl = j
      BY <1>1 DEF ChildrenOf
    <3>4. path[e] = Append(path[i], j) /\ ModelOf(e) = InstancesOf[d][j]
      BY <3>3, TermFacts, NumberingDone DEF Ready, Done
    <3>5. terms[getTerminal(e, k)].inst = e /\ terms[getTerminal(e, k)].bit = k
      BY <2>2, <3>4 DEF TermsFound
    <3>6. j # 0
      <4>1. \A l \in Nat : \A m \in 1 .. l : m # 0
        OBVIOUS
      <4>2. Len(InstancesOf[d]) \in Nat
        BY <1>1, DNLAssumption
      <4> QED
        BY <4>1, <4>2
    <3>7. T(c) = getTerminal(e, k) /\ P(c) = <<path[e], k>>
      BY <3>2, <3>3, <3>4, <3>6
    <3> QED
      BY <3>5, <3>7 DEF Name
  <2> QED
    BY <2>1, <2>3, <2>4, <1>1, ComponentsIff
<1> HIDE DEF T, P, C
<1> QED
  BY <1>2, <1>3, <1>4 DEF Names

(* The wires of the hierarchy are the nets of the traces. *)
LEMMA WiresNamed ==
  ASSUME Ready
  PROVE  wires = {Wire(w) : w \in Nets}
<1>0. wires = UNION {{[terms |-> WireTerms(p, n), type |-> NetType(DesignAt[p], n)] : n \in WireNets(p)} : p \in Paths}
  BY DEF Ready, Netlist, Wires
<1>1. \A i \in Ids : /\ path[i] \in Paths /\ ModelOf(i) = DesignAt[path[i]]
                     /\ (path[i] = <<>> <=> i = 1)
  <2>1. Done
    BY NumberingDone DEF Ready
  <2>2. \A i, j \in Ids : path[i] = path[j] => i = j
    BY PathInjective DEF Ready
  <2> QED
    BY <2>1, <2>2 DEF Done
<1>2. ASSUME NEW i \in Ids, NEW n PROVE n \in WireNets(path[i]) <=> <<i, n>> \in Nets
  <2>1. LeafInst(i) <=> path[i] # <<>> /\ InstancesOf[DesignAt[path[i]]] = <<>>
    BY <1>1 DEF LeafInst
  <2>2. Range(net[DesignAt[path[i]]]) = {net[ModelOf(i)][c] : c \in DOMAIN net[ModelOf(i)]}
    BY <1>1 DEF Range
  <2>3. n \in WireNets(path[i]) <=> ~LeafInst(i) /\ n # None /\ \E c \in DOMAIN net[ModelOf(i)] : net[ModelOf(i)][c] = n
    BY <2>1, <2>2 DEF WireNets
  <2> QED
    BY <2>3, NetsIff
<1>3. ASSUME NEW i \in Ids, NEW n
      PROVE  Wire(<<i, n>>) = [terms |-> WireTerms(path[i], n), type |-> NetType(DesignAt[path[i]], n)]
  BY <1>1, WireTermsNamed DEF Wire
<1>4. ASSUME NEW w \in Nets PROVE w[1] \in Ids /\ w = <<w[1], w[2]>>
  BY NetSetFacts DEF Nets
<1>5. ASSUME NEW v \in wires PROVE v \in {Wire(w) : w \in Nets}
  <2>1. PICK p \in Paths : \E n \in WireNets(p) : v = [terms |-> WireTerms(p, n), type |-> NetType(DesignAt[p], n)]
    BY <1>0
  <2>2. PICK n \in WireNets(p) : v = [terms |-> WireTerms(p, n), type |-> NetType(DesignAt[p], n)]
    BY <2>1
  <2>3. PICK i \in Ids : path[i] = p
    BY PathsCovered DEF Ready
  <2>4. <<i, n>> \in Nets /\ v = Wire(<<i, n>>)
    BY <2>2, <2>3, <1>2, <1>3
  <2> QED
    BY <2>4
<1>6. ASSUME NEW w \in Nets PROVE Wire(w) \in wires
  <2>1. PICK i \in Ids : i = w[1]
    BY <1>4
  <2>2. PICK n : n = w[2]
    OBVIOUS
  <2>3. w = <<i, n>>
    BY <2>1, <2>2, <1>4
  <2>4. n \in WireNets(path[i]) /\ path[i] \in Paths
    BY <2>3, <1>1, <1>2
  <2>5. Wire(w) = [terms |-> WireTerms(path[i], n), type |-> NetType(DesignAt[path[i]], n)]
    BY <2>3, <1>3
  <2> QED
    BY <2>4, <2>5, <1>0
<1> QED
  BY <1>5, <1>6

(* The types met at a terminal are those of its nets. *)
LEMMA TypesNamed ==
  ASSUME Ready, PlainLeaves, NEW V \in SUBSET TermIds
  PROVE  TypesAt(V) = {NetType(ModelOf(w[1]), w[2]) : w \in UNION {NetSet(t) : t \in V}} \ {"STANDART"}
<1> DEFINE K(w) == NetType(ModelOf(w[1]), w[2])
<1>1. ASSUME NEW t \in TermIds, TypeIn(t) # "STANDART" PROVE \E w \in NetSet(t) : TypeIn(t) = K(w)
  <2>1. ~LeafInst(terms[t].inst)
    BY <1>1, LeafNets
  <2>2. InnerNet(t) = BitNet(t) /\ BitNet(t) # None
    BY <2>1, <1>1, InnerNets DEF TypeIn
  <2>3. <<terms[t].inst, BitNet(t)>> \in NetSet(t)
    BY <2>1, <2>2 DEF NetSet
  <2>4. TypeIn(t) = K(<<terms[t].inst, BitNet(t)>>)
    BY <2>2 DEF TypeIn
  <2> QED
    BY <2>3, <2>4
<1>2. ASSUME NEW t \in TermIds, TypeOut(t) # "STANDART" PROVE \E w \in NetSet(t) : TypeOut(t) = K(w)
  <2>1. TermNet(t) # None
    BY <1>2 DEF TypeOut
  <2>2. <<insts[terms[t].inst].parent, TermNet(t)>> \in NetSet(t)
    BY <2>1 DEF NetSet
  <2>3. TypeOut(t) = K(<<insts[terms[t].inst].parent, TermNet(t)>>)
    BY <2>1 DEF TypeOut
  <2> QED
    BY <2>2, <2>3
<1>3. ASSUME NEW t \in TermIds, NEW w \in NetSet(t) PROVE K(w) \in {TypeIn(t), TypeOut(t)}
  <2>1. CASE w = <<terms[t].inst, BitNet(t)>> /\ BitNet(t) # None /\ ~LeafInst(terms[t].inst)
    <3>1. InnerNet(t) = BitNet(t)
      BY <2>1, InnerNets
    <3> QED
      BY <2>1, <3>1 DEF TypeIn
  <2>2. CASE w = <<insts[terms[t].inst].parent, TermNet(t)>> /\ TermNet(t) # None
    BY <2>2 DEF TypeOut
  <2> QED
    BY <2>1, <2>2 DEF NetSet
<1>4. ASSUME NEW k \in TypesAt(V) PROVE k # "STANDART" /\ \E t \in V : \E w \in NetSet(t) : k = K(w)
  <2>1. k # "STANDART"
    BY DEF TypesAt
  <2>2. PICK t \in V : k = TypeIn(t) \/ k = TypeOut(t)
    BY DEF TypesAt
  <2>3. t \in TermIds
    OBVIOUS
  <2> QED
    BY <2>1, <2>2, <2>3, <1>1, <1>2
<1>5. ASSUME NEW t \in V, NEW w \in NetSet(t), K(w) # "STANDART" PROVE K(w) \in TypesAt(V)
  BY <1>3, <1>5 DEF TypesAt
<1> HIDE DEF K
<1>6. TypesAt(V) = {K(w) : w \in UNION {NetSet(t) : t \in V}} \ {"STANDART"}
  BY <1>4, <1>5
<1> QED
  BY <1>6 DEF K

(* The abstract specification's connected sets are the traces'. *)
LEMMA ConnectedNamed ==
  ASSUME Ready, PlainLeaves
  PROVE  /\ Equipotentials!Terms = {Name(t) : t \in {u \in TermIds : NetSet(u) # {}}}
         /\ \A t \in TermIds : NetSet(t) # {} =>
              /\ Equipotentials!Connected(Name(t)) = Names(Comp(t))
              /\ Equipotentials!TypeOn(Names(Comp(t))) = TypeOf(TypesAt(Comp(t)))
<1> DEFINE E == Equipotentials!Terms
           L == {u \in TermIds : NetSet(u) # {}}
<1>1. wires = {Wire(w) : w \in Nets}
  BY WiresNamed
<1>2. \A t, u \in TermIds : Name(t) = Name(u) => t = u
  BY NameInjective
<1>3. ASSUME NEW w \in Nets
      PROVE  /\ On(w) \subseteq L
             /\ \A t \in TermIds : t \in On(w) <=> w \in NetSet(t)
  <2>1. PICK u \in TermIds : w \in NetSet(u)
    BY DEF Nets
  <2>2. On(w) \subseteq TermIds /\ \A t \in On(w) : w \in NetSet(t)
    BY <2>1, NetSetFacts
  <2>3. \A t \in TermIds : w \in NetSet(t) => t \in On(w)
    BY NetSetFacts
  <2> QED
    BY <2>2, <2>3
<1>4. E = Names(L)
  <2>0. (\A w : Wire(w).terms = Names(On(w))) /\ E = UNION {v.terms : v \in wires}
    BY DEF Equipotentials!Terms, Wire
  <2>1. E = UNION {Names(On(w)) : w \in Nets}
    <3> HIDE DEF E
    <3>1. ASSUME NEW x \in E PROVE \E w \in Nets : x \in Names(On(w))
      <4>1. PICK v \in wires : x \in v.terms
        BY <2>0
      <4>2. PICK w \in Nets : v = Wire(w)
        BY <1>1
      <4> QED
        BY <4>1, <4>2, <2>0
    <3>2. ASSUME NEW w \in Nets, NEW x \in Names(On(w)) PROVE x \in E
      <4>1. Wire(w) \in wires /\ x \in Wire(w).terms
        BY <1>1, <2>0
      <4> QED
        BY <4>1, <2>0
    <3> QED
      BY <3>1, <3>2
  <2>2. ASSUME NEW x \in E PROVE x \in Names(L)
    BY <2>1, <1>3 DEF Names
  <2>3. ASSUME NEW t \in L PROVE Name(t) \in E
    <3>1. PICK w \in NetSet(t) : TRUE
      OBVIOUS
    <3>2. w \in Nets /\ t \in On(w)
      BY NetSetFacts DEF Nets
    <3> QED
      BY <3>2, <2>1 DEF Names
  <2> QED
    BY <2>2, <2>3 DEF Names
<1>5. ASSUME NEW t \in TermIds, NetSet(t) # {}
      PROVE  /\ Equipotentials!Connected(Name(t)) = Names(Comp(t))
             /\ Equipotentials!TypeOn(Names(Comp(t))) = TypeOf(TypesAt(Comp(t)))
  <2>1. /\ t \in Comp(t) /\ Comp(t) \subseteq TermIds /\ Closed(Comp(t))
        /\ \A S \in SUBSET TermIds : Closed(S) /\ t \in S => Comp(t) \subseteq S
        /\ Comp(t) \subseteq L
    BY <1>5, CompFacts, Linked
  <2>2. ASSUME NEW w \in Nets PROVE Names(On(w)) \cap Names(Comp(t)) # {} <=> \E v \in Comp(t) : w \in NetSet(v)
    <3>1. ASSUME NEW x \in Names(On(w)), x \in Names(Comp(t)) PROVE \E v \in Comp(t) : w \in NetSet(v)
      <4>1. PICK v \in Comp(t) : x = Name(v)
        BY <3>1 DEF Names
      <4>2. PICK u \in On(w) : x = Name(u)
        BY <3>1 DEF Names
      <4>3. u = v
        BY <4>1, <4>2, <1>2, <1>3, <2>1
      <4> QED
        BY <4>1, <4>2, <4>3, <1>3, <2>1
    <3>2. ASSUME NEW v \in Comp(t), w \in NetSet(v) PROVE Names(On(w)) \cap Names(Comp(t)) # {}
      <4>1. v \in On(w)
        BY <3>2, <1>3, <2>1
      <4> QED
        BY <4>1 DEF Names
    <3> QED
      BY <3>1, <3>2
  <2>3. Names(Comp(t)) \in Equipotentials!ClosedSets
    <3>1. Names(Comp(t)) \in SUBSET E
      BY <2>1, <1>4 DEF Names
    <3>2. ASSUME NEW w \in Nets, Names(On(w)) \cap Names(Comp(t)) # {} PROVE Names(On(w)) \subseteq Names(Comp(t))
      <4>1. PICK v \in Comp(t) : w \in NetSet(v)
        BY <2>2, <3>2
      <4>2. On(w) \subseteq Adj(v) /\ Adj(v) \subseteq Comp(t)
        BY <4>1, <2>1 DEF Adj, Closed
      <4> QED
        BY <4>2 DEF Names
    <3>3. \A v \in wires : v.terms \cap Names(Comp(t)) # {} => v.terms \subseteq Names(Comp(t))
      BY <3>2, <1>1 DEF Wire
    <3> QED
      BY <3>1, <3>3 DEF Equipotentials!ClosedSets
  <2>4. ASSUME NEW x \in Equipotentials!Connected(Name(t)) PROVE x \in Names(Comp(t))
    <3>1. Name(t) \in Names(Comp(t))
      BY <2>1 DEF Names
    <3> QED
      BY <2>3, <2>4, <3>1 DEF Equipotentials!Connected
  <2>5. ASSUME NEW u \in Comp(t) PROVE Name(u) \in Equipotentials!Connected(Name(t))
    <3>1. Name(u) \in E
      BY <2>1, <1>4 DEF Names
    <3>2. ASSUME NEW S \in Equipotentials!ClosedSets, Name(t) \in S PROVE Name(u) \in S
      <4> DEFINE T == {v \in TermIds : Name(v) \in S}
      <4>1. \A w \in Nets : Names(On(w)) \cap S # {} => Names(On(w)) \subseteq S
        <5>1. \A v \in wires : v.terms \cap S # {} => v.terms \subseteq S
          BY <3>2 DEF Equipotentials!ClosedSets
        <5>2. \A w \in Nets : Wire(w) \in wires /\ Wire(w).terms = Names(On(w))
          BY <1>1 DEF Wire
        <5> QED
          BY <5>1, <5>2
      <4>2. ASSUME NEW v \in T, NEW w \in NetSet(v) PROVE On(w) \subseteq T
        <5>1. w \in Nets
          BY DEF Nets
        <5>2. v \in On(w) /\ On(w) \subseteq TermIds
          BY <5>1, <1>3
        <5>3. Name(v) \in Names(On(w)) /\ Name(v) \in S
          BY <5>2 DEF Names
        <5>4. Names(On(w)) \subseteq S
          BY <5>1, <5>3, <4>1
        <5> QED
          BY <5>2, <5>4 DEF Names
      <4>3. Closed(T)
        BY <4>2 DEF Closed, Adj
      <4>4. T \in SUBSET TermIds /\ t \in T
        BY <3>2
      <4>5. u \in T
        BY <4>3, <4>4, <2>1
      <4> QED
        BY <4>5
    <3> QED
      BY <3>1, <3>2 DEF Equipotentials!Connected
  <2>6. Equipotentials!Connected(Name(t)) = Names(Comp(t))
    <3>1. \A x \in Names(Comp(t)) : \E u \in Comp(t) : x = Name(u)
      BY DEF Names
    <3> QED
      BY <2>4, <2>5, <3>1
  <2> DEFINE C == {w.type : w \in {x \in wires : x.terms \cap Names(Comp(t)) # {}}} \ {"STANDART"}
  <2>7. C = TypesAt(Comp(t))
    <3> DEFINE K(w) == NetType(ModelOf(w[1]), w[2])
    <3>1. TypesAt(Comp(t)) = {K(w) : w \in UNION {NetSet(v) : v \in Comp(t)}} \ {"STANDART"}
      BY <2>1, TypesNamed
    <3>2. \A w : Wire(w).type = K(w) /\ Wire(w).terms = Names(On(w))
      BY DEF Wire
    <3>3. \A v \in Comp(t) : NetSet(v) \subseteq Nets
      BY <2>1 DEF Nets
    <3> HIDE DEF K
    <3>4. ASSUME NEW k \in C PROVE k \in TypesAt(Comp(t))
      <4>1. PICK x \in wires : x.terms \cap Names(Comp(t)) # {} /\ k = x.type
        OBVIOUS
      <4>2. PICK w \in Nets : x = Wire(w)
        BY <1>1
      <4>3. PICK v \in Comp(t) : w \in NetSet(v)
        BY <4>1, <4>2, <2>2, <3>2
      <4> QED
        BY <3>1, <3>2, <4>1, <4>2, <4>3
    <3>5. ASSUME NEW k \in TypesAt(Comp(t)) PROVE k \in C
      <4>1. PICK v \in Comp(t) : \E w \in NetSet(v) : k = K(w)
        BY <3>1
      <4>2. PICK w \in NetSet(v) : k = K(w)
        BY <4>1
      <4>3. w \in Nets
        BY <3>3
      <4>4. Wire(w) \in wires /\ Wire(w).terms \cap Names(Comp(t)) # {} /\ Wire(w).type = k
        BY <4>2, <4>3, <2>2, <3>2, <1>1
      <4>5. k # "STANDART"
        BY <3>1
      <4> QED
        BY <4>4, <4>5
    <3> QED
      BY <3>4, <3>5
  <2>8. Equipotentials!TypeOn(Names(Comp(t))) = TypeOf(C)
    BY DEF Equipotentials!TypeOn, TypeOf
  <2> HIDE DEF C
  <2> QED
    BY <2>6, <2>7, <2>8
<1> QED
  BY <1>4, <1>5 DEF Names

(* Only terminals on a net carry the ID of an iso. *)
Labels == phase \notin {"top", "children", "dfs"} => \A t \in TermIds : isoOf[t] # None => NetSet(t) # {}

(* In round 1 a label comes from a driver. *)
LEMMA Round1Labels == Inv /\ phase = "round1" => Labels
<1> SUFFICES ASSUME Inv, phase = "round1", NEW t \in TermIds, isoOf[t] # None PROVE NetSet(t) # {}
  BY DEF Labels
<1>1. Ready /\ Round1
  BY DEF Inv, Ready, Traced
<1>2. CASE t \in Drivers
  BY <1>1, <1>2, DriverFacts
<1>3. CASE t \notin Drivers
  <2>1. PICK d \in Drivers : t \in Comp(d)
    BY <1>1, <1>3 DEF Round1
  <2> QED
    BY <2>1, <1>1, DriverFacts, Linked
<1> QED
  BY <1>2, <1>3

(* Round 2 starts with new labels for drivers only. *)
LEMMA SiftLabels ==
  ASSUME Inv, Labels, Sift
  PROVE  Labels'
<1>1. /\ phase = "round1" /\ Joined /\ Start(Sorted(DriversToTreat), Shadowed)
      /\ UNCHANGED <<netlist, numbering>>
  BY DEF Sift
<1>2. TermIds' = TermIds /\ \A t : NetSet(t)' = NetSet(t)
  BY <1>1, GraphFrame DEF SameGraph
<1>3. Ready /\ TraceTypes /\ Building /\ Round1 /\ Seeds = {} /\ isoOf \in [TermIds -> 0 .. Len(isos)]
  BY <1>1 DEF Inv, Ready, Traced, Building, TraceTypes, Joined, Active, Seeds
<1> DEFINE A == DriversToTreat
           s == Sorted(A)
<1>4. A \subseteq Drivers /\ \A t \in Drivers : t \in TermIds /\ NetSet(t) # {}
  BY <1>3, SiftFacts, DriverFacts
<1>5. s \in Seq(TermIds) /\ Range(s) = A
  <2>1. A \in SUBSET TermIds
    BY <1>4
  <2> HIDE DEF A
  <2> QED
    BY <1>3, <2>1, SortedTerms
<1>6. \A x \in 1 .. Len(s) : s[x] \in A
  BY <1>5, RangeEquality
<1>7. ASSUME NEW t \in TermIds PROVE isoOf'[t] = isoOf[t] \/ t \in A
  <2>1. isoOf' = [u \in 1 .. Len(terms) |->
                 IF \E x \in 1 .. Len(s) : s[x] = u
                   THEN Len(Shadowed) + (CHOOSE x \in 1 .. Len(s) : s[x] = u)
                   ELSE IF u \in DOMAIN isoOf THEN isoOf[u] ELSE None]
    BY <1>1 DEF Start
  <2>2. CASE \E x \in 1 .. Len(s) : s[x] = t
    BY <2>2, <1>6
  <2>3. CASE ~\E x \in 1 .. Len(s) : s[x] = t
    <3>1. t \in 1 .. Len(terms) /\ t \in DOMAIN isoOf
      BY <1>3 DEF TermIds
    <3> HIDE DEF s
    <3> QED
      BY <2>1, <2>3, <3>1
  <2> QED
    BY <2>2, <2>3
<1>8. \A t \in TermIds : isoOf[t] # None => NetSet(t) # {}
  BY <1>1 DEF Labels
<1> QED
  BY <1>2, <1>4, <1>7, <1>8 DEF Labels

(* A trace labels terminals connected to a labelled one. *)
LEMMA VisitLabels ==
  ASSUME Inv, Labels, NEW w \in Worker, Visit(w)
  PROVE  Labels'
<1>1. Active(w)
  BY DEF Visit, Active
<1>2. phase \in {"round1", "round2", "dangling"} /\ phase' = phase /\ UNCHANGED <<netlist, numbering>>
  BY <1>1 DEF Inv, Traced, TraceTypes, Visit
<1>3. Ready /\ Building /\ TraceTypes /\ Tracing(w) /\ PlainLeaves
  BY <1>1, <1>2 DEF Inv, Ready, Traced, Building
<1>4. TermIds' = TermIds /\ \A t : NetSet(t)' = NetSet(t)
  BY <1>2, GraphFrame DEF SameGraph
<1>5. PICK t \in TermIds : Step(w, t)
  BY <1>3, VisitStep
<1>6. \A u \in TermIds : isoOf'[u] = isoOf[u] \/ u = t
  BY <1>3, <1>5, IsoOfStep
<1>7. \A u \in TermIds : isoOf[u] # None => NetSet(u) # {}
  BY <1>2 DEF Labels
<1>8. NetSet(t) # {}
  <2>1. PICK e \in TermIds : e = trace[w].term
    BY <1>3 DEF Tracing
  <2>2. isoOf[e] # None /\ t \in Comp(e)
    BY <2>1, <1>3, <1>5, DNLAssumption DEF Tracing, Step
  <2> QED
    BY <2>2, <1>3, <1>7, Linked
<1> QED
  BY <1>4, <1>6, <1>7, <1>8 DEF Labels

(* Every step keeps Labels. *)
LEMMA LabelsStep == Inv /\ Inv' /\ Labels /\ [Next]_vars => Labels'
<1>0. (Inv /\ phase = "round1" => Labels)'
  BY Round1Labels, PTL
<1> SUFFICES ASSUME Inv, Inv', Labels, [Next]_vars PROVE Labels'
  OBVIOUS
<1>1. CASE CreateTop \/ AddChild \/ NextParent \/ VisitTop \/ VisitChild \/ Return
  BY <1>1 DEF CreateTop, AddChild, NextParent, EndChildren, VisitTop, VisitChild, Return, Labels
<1>2. CASE CollectDrivers
  BY <1>0, <1>2 DEF CollectDrivers
<1>3. ASSUME isoOf' = isoOf, phase' \notin {"top", "children", "dfs"} => phase \notin {"top", "children", "dfs"},
             UNCHANGED <<netlist, numbering>>
      PROVE  Labels'
  <2>1. TermIds' = TermIds /\ \A t : NetSet(t)' = NetSet(t)
    BY <1>3, GraphFrame DEF SameGraph
  <2> QED
    BY <1>3, <2>1 DEF Labels
<1>4. CASE \E w \in Worker, t \in tasks : TakeTask(w, t)
  BY <1>3, <1>4 DEF TakeTask
<1>5. CASE \E w \in Worker : Visit(w)
  BY <1>5, VisitLabels
<1>6. CASE Sift
  BY <1>6, SiftLabels
<1>7. CASE Join
  BY <1>3, <1>7 DEF Join
<1>8. ASSUME NEW t \in 1 .. Len(terms), TraceDangling(t) PROVE Labels'
  <2>1. phase = "dangling" /\ Dangling(t) /\ isoOf' = [isoOf EXCEPT ![t] = Len(isos')] /\ UNCHANGED <<netlist, numbering>>
    BY <1>8 DEF TraceDangling
  <2>2. TermIds' = TermIds /\ \A u : NetSet(u)' = NetSet(u)
    BY <2>1, GraphFrame DEF SameGraph
  <2>3. Ready /\ t \in TermIds /\ isoOf \in [TermIds -> 0 .. Len(isos)]
    BY <2>1 DEF Inv, Ready, Traced, TraceTypes, TermIds
  <2>4. NetSet(t) # {}
    BY <2>1, <2>3, DanglingNet
  <2>5. \A u \in TermIds : isoOf'[u] = isoOf[u] \/ u = t
    BY <2>1, <2>3
  <2> QED
    BY <2>1, <2>2, <2>4, <2>5 DEF Labels
<1>9. CASE Finish
  BY <1>3, <1>9 DEF Finish
<1>10. CASE UNCHANGED vars
  BY <1>3, <1>10 DEF vars, labelling
<1> QED
  BY <1>1, <1>2, <1>4, <1>5, <1>6, <1>7, <1>8, <1>9, <1>10 DEF Next

(* The isos are exact once the last pass is over. *)
LEMMA IsosExact ==
  Inv /\ Labels /\ OneChildNets /\ phase = "done" => Labelling = Equipotentials!Isos
<1> SUFFICES ASSUME Inv, Labels, OneChildNets, phase = "done" PROVE Labelling = Equipotentials!Isos
  OBVIOUS
<1>1. Ready /\ PlainLeaves /\ Settling /\ DanglingPass /\ TraceTypes /\ (\A w \in Worker : ~Active(w))
  BY DEF Inv, Ready, Traced
<1>2. Seeds = {} /\ isoOf \in [TermIds -> 0 .. Len(isos)]
  BY <1>1 DEF Seeds, DanglingPass, TraceTypes
<1>3. \A t \in TermIds : isoOf[t] # None <=> NetSet(t) # {}
  BY DEF Inv, Traced, Labels
<1> DEFINE L == {u \in TermIds : NetSet(u) # {}}
           I(t) == [terms |-> Names(Comp(t)), type |-> TypeOf(TypesAt(Comp(t)))]
<1>4. Equipotentials!Isos = {I(t) : t \in L}
  <2>1. /\ Equipotentials!Terms = {Name(t) : t \in L}
        /\ \A t \in L : /\ Equipotentials!Connected(Name(t)) = Names(Comp(t))
                        /\ Equipotentials!TypeOn(Names(Comp(t))) = TypeOf(TypesAt(Comp(t)))
    BY <1>1, ConnectedNamed
  <2> DEFINE J(x) == [terms |-> Equipotentials!Connected(x), type |-> Equipotentials!TypeOn(Equipotentials!Connected(x))]
  <2>2. Equipotentials!Isos = {J(x) : x \in Equipotentials!Terms}
    BY DEF Equipotentials!Isos
  <2>3. \A t \in L : J(Name(t)) = I(t)
    BY <2>1
  <2> HIDE DEF I, J, L
  <2> QED
    BY <2>1, <2>2, <2>3
<1> DEFINE On2(x) == {u \in TermIds : isoOf[u] = x}
           R(x) == [terms |-> Names(On2(x)), type |-> isos[x].type]
<1>5. Labelling = {R(x) : x \in Range(isoOf) \ {None}}
  BY DEF Labelling, Names, Name, TermIds
<1>6. Range(isoOf) \ {None} = {isoOf[t] : t \in L}
  BY <1>2, <1>3 DEF Range
<1>7. ASSUME NEW t \in L PROVE R(isoOf[t]) = I(t)
  <2>1. isoOf[t] # None /\ (\A u \in TermIds : isoOf[u] = isoOf[t] <=> u \in Comp(t)) /\ IsoHas(isoOf[t], Comp(t))
    BY <1>1, <1>2, <1>3 DEF Settling
  <2>2. Comp(t) \subseteq TermIds
    BY DEF Comp
  <2>3. On2(isoOf[t]) = Comp(t)
    BY <2>1, <2>2
  <2>4. isos[isoOf[t]].type = TypeOf(TypesAt(Comp(t)))
    BY <2>1 DEF IsoHas
  <2> HIDE DEF On2
  <2> QED
    BY <2>3, <2>4
<1> HIDE DEF R, I, L
<1> QED
  BY <1>4, <1>5, <1>6, <1>7

(* Inv and Labels hold at all times. *)
LEMMA LabelsHold == PlainLeaves /\ Spec => [](Inv /\ Labels)
<1>1. Init => Labels
  BY DEF Init, Labels
<1> QED
  BY <1>1, InitInv, InvStep, LabelsStep, PTL DEF Spec

(* The isos process() computes are the equipotentials: whatever the         *)
(* hierarchy, the wiring, the number of threads and the order they work in, *)
(* it publishes in one step the connected sets of terminals with their      *)
(* types, and changes them no more.  That it gets there is left to TLC.     *)
THEOREM IsosAreEquipotentials == PlainLeaves /\ OneChildNets /\ Spec => Equipotentials!Safety
<1>0. (Inv /\ Labels /\ OneChildNets /\ phase = "done" => Labelling = Equipotentials!Isos)'
  BY IsosExact, PTL
<1>1. Init => Equipotentials!Init
  BY DEF Init, Equipotentials!Init
<1>2. Inv /\ Labels /\ (Inv /\ Labels)' /\ OneChildNets /\ [Next]_vars => [Equipotentials!Compute]_(Equipotentials!evars)
  <2> SUFFICES ASSUME Inv, Labels, (Inv /\ Labels)', OneChildNets, [Next]_vars
               PROVE  [Equipotentials!Compute]_(Equipotentials!evars)
    OBVIOUS
  <2>1. UNCHANGED netlist /\ wires' = wires
    BY DEF Next, CreateTop, AddChild, NextParent, EndChildren, VisitTop, VisitChild, Return, CollectDrivers,
           TakeTask, Visit, Sift, Join, TraceDangling, Finish, vars, netlist
  <2>2. CASE phase # "done" /\ phase' # "done"
    BY <2>1, <2>2 DEF Equipotentials!evars
  <2>3. CASE phase = "done"
    <3>1. tasks = {} /\ \A w \in Worker : trace[w].stack = <<>>
      BY <2>3 DEF Inv, Traced, DanglingPass, Active
    <3>2. UNCHANGED vars
      BY <2>3, <3>1 DEF Next, CreateTop, AddChild, NextParent, EndChildren, VisitTop, VisitChild, Return, CollectDrivers,
           TakeTask, Visit, Sift, Join, TraceDangling, Finish
    <3>3. Labelling' = Labelling /\ phase' = phase
      BY <3>2 DEF Labelling, vars, numbering, labelling
    <3> QED
      BY <2>1, <2>3, <3>3 DEF Equipotentials!evars
  <2>4. CASE phase # "done" /\ phase' = "done"
    <3>1. OneChildNets'
      BY DEF OneChildNets
    <3>2. Labelling' = (Equipotentials!Isos)'
      BY <1>0, <2>4, <3>1
    <3>3. (Equipotentials!Isos)' = Equipotentials!Isos
      BY <2>1 DEF Equipotentials!Isos, Equipotentials!Connected, Equipotentials!TypeOn, Equipotentials!ClosedSets,
                  Equipotentials!Terms
    <3> QED
      BY <2>1, <2>4, <3>2, <3>3 DEF Equipotentials!Compute
  <2> QED
    BY <2>2, <2>3, <2>4
<1>3. OneChildNets => OneChildNets'
  BY DEF OneChildNets
<1> QED
  BY <1>1, <1>2, <1>3, LabelsHold, PTL DEF Spec, Equipotentials!Safety
=============================================================================
