-------------------------------- MODULE DNL --------------------------------
(***************************************************************************)
(* The dissolved netlist (src/dnl): DNL::process() numbers the instances   *)
(* and terminals of the whole hierarchy under the top design, then the iso *)
(* builder labels every terminal with the ID of its iso, the electrically  *)
(* connected set it belongs to.  Tasks, one per driver, run in parallel.   *)
(*                                                                         *)
(* DNL IDs and iso IDs are positions in vectors; they count from 1 here    *)
(* and None is DNLID_MAX.  Instances and terminals of a design are listed  *)
(* in the order of their IDs, so that a position is the order ID           *)
(* OrderIDInitializer gives.  Component <<0, k>> of a design is its        *)
(* terminal k, <<j, k>> terminal k of its instance j.                      *)
(***************************************************************************)
EXTENDS Integers, Sequences, FiniteSets, SequencesExt

CONSTANTS
  Top,          \* NLUniverse::getTopDesign()
  InstancesOf,  \* the models of the instances of each design
  Directions,   \* the directions of the terminals of each design
  DesignAt,     \* the hierarchy unfolded: the design at the end of each path
  Assign,       \* the assign primitive
  Wirings,      \* ways to connect the components of each design to nets
  Typings,      \* ways to choose constant nets: functions of <<design, net>>
  Worker, Main, \* the threads; Main is the one that calls process()
  None          \* DNLID_MAX, also the null net

Design == DOMAIN InstancesOf

Components(d) ==
  {<<0, k>> : k \in 1 .. Len(Directions[d])} \cup
  UNION {{<<j, k>> : k \in 1 .. Len(Directions[InstancesOf[d][j]])} :
           j \in 1 .. Len(InstancesOf[d])}

ASSUME DNLAssumption ==
  /\ Top \in Design \ Assign
  /\ \A d \in Design : InstancesOf[d] \in Seq(Design)
  /\ \A d \in Design : Directions[d] \in Seq({"Input", "Output", "Inout"})
  /\ \A d \in Assign : InstancesOf[d] = <<>>
  /\ \A f \in Wirings, d \in Design : DOMAIN f[d] = Components(d)
  /\ \A y \in Typings : \A q \in DOMAIN y : y[q] \in {"CONST0", "CONST1", "CONSTX", "CONSTZ"}
  /\ Main \in Worker
  /\ None = 0

(* An instance is the path of positions that leads to it from the top.     *)
Paths == DOMAIN DesignAt

(* No design contains itself: there are finitely many paths.               *)
ASSUME HierarchyAssumption ==
  /\ IsFiniteSet(Paths)
  /\ <<>> \in Paths /\ DesignAt[<<>>] = Top
  /\ \A p \in Paths :
       /\ p \in Seq(Nat)
       /\ DesignAt[p] \in Design
       /\ \A j \in 1 .. Len(InstancesOf[DesignAt[p]]) :
            Append(p, j) \in Paths /\ DesignAt[Append(p, j)] = InstancesOf[DesignAt[p]][j]
       /\ p # <<>> => /\ Front(p) \in Paths
                      /\ Last(p) \in 1 .. Len(InstancesOf[DesignAt[Front(p)]])

VARIABLES
  net,      \* the wiring: [Design -> [components -> net or None]]
  type,     \* SNLNet::type_ of the constant nets
  wires,    \* history: the nets of all contexts, as the hierarchy has them
  insts,    \* DNLInstances_
  terms,    \* DNLTerms_
  leaves,   \* leaves_
  path,     \* history: the path of each instance
  pending,  \* the stack of process()
  parent,   \* parentId
  first,    \* childrenIndexes.first
  calls,    \* the calls of visit() in initDFSIntervals()
  next,     \* its counter
  phase,
  isoOf,    \* termId2isoId_
  isos,     \* DNLIsoDB::isos_
  constants,\* constant0Isos_ ... : the pairs <<type, iso>>
  tasks,    \* drivers whose trace has not started
  again,    \* driversToTreat
  trace     \* what each thread is tracing

netlist == <<net, type, wires>>
numbering == <<insts, terms, leaves, path>>
unfolding == <<pending, parent, first, calls, next>>
labelling == <<isoOf, isos, constants, tasks, again, trace>>

vars == <<netlist, numbering, unfolding, phase, labelling>>

-----------------------------------------------------------------------------
(* Accessors of DNLInstanceFull and DNLTerminalFull. *)
ModelOf(i) == insts[i].model

IsTop(i) == i = 1

getChildInstance(i, j) == insts[i].children[1] + j - 1

getTerminal(i, k) == insts[i].terms[1] + k - 1

IsUnder(i, p) == insts[p].dfs[1] <= insts[i].dfs[1] /\ insts[i].dfs[1] < insts[p].dfs[2]

isLeaf(i) == insts[i].children[1] = insts[i].children[2]

Direction(t) == Directions[ModelOf(terms[t].inst)][terms[t].bit]

(* The net inside the instance, and the one outside. *)
BitNet(t) == net[ModelOf(terms[t].inst)][<<0, terms[t].bit>>]

TermNet(t) ==
  LET i == terms[t].inst
  IN  IF IsTop(i) THEN None ELSE net[ModelOf(insts[i].parent)][<<insts[i].snl, terms[t].bit>>]

(* Terminals on net n of instance i: of its children, and its own. *)
InstTermsOn(i, n) ==
  {getTerminal(getChildInstance(i, c[1]), c[2]) :
     c \in {x \in DOMAIN net[ModelOf(i)] : x[1] # 0 /\ net[ModelOf(i)][x] = n}}

BitTermsOn(i, n) ==
  {getTerminal(i, c[2]) :
     c \in {x \in DOMAIN net[ModelOf(i)] : x[1] = 0 /\ net[ModelOf(i)][x] = n}}

(* The numbers of S in ascending order. *)
Sorted(S) ==
  [x \in 1 .. Cardinality(S) |-> CHOOSE t \in S : Cardinality({u \in S : u < t}) = x - 1]

-----------------------------------------------------------------------------
(* DNL::process(): instances and terminals.                                *)

(* Instance j of p, a model m, gets the next number, and so do its         *)
(* terminals.                                                              *)
NewInstance(p, j, m) ==
  LET id   == Len(insts) + 1
      from == Len(terms) + 1
      n    == Len(Directions[m])
  IN  /\ insts' = Append(insts,
             [snl |-> j, model |-> m, parent |-> p, children |-> <<None, None>>,
              terms |-> IF n = 0 THEN <<None, None>> ELSE <<from, from + n - 1>>,
              dfs |-> <<None, None>>])
      /\ terms' = terms \o [k \in 1 .. n |-> [inst |-> id, bit |-> k]]
      /\ leaves' = IF p # None /\ InstancesOf[m] = <<>> THEN leaves \cup {id} ELSE leaves

(* The children of instance p come next. *)
BeginChildren(p, id) ==
  /\ parent' = p
  /\ first' = id

CreateTop ==
  /\ phase = "top"
  /\ NewInstance(None, None, Top)
  /\ path' = <<<<>>>>
  /\ BeginChildren(1, 2)
  /\ phase' = "children"
  /\ UNCHANGED <<netlist, pending, calls, next, labelling>>

(* The position of the next child of parent. *)
Position == Len(insts) - first + 2

(* One round of the loop over the instances of parent. *)
AddChild ==
  /\ phase = "children"
  /\ Position <= Len(InstancesOf[ModelOf(parent)])
  /\ NewInstance(parent, Position, InstancesOf[ModelOf(parent)][Position])
  /\ path' = Append(path, Append(path[parent], Position))
  /\ pending' = Append(pending, Len(insts) + 1)
  /\ UNCHANGED <<netlist, parent, first, calls, next, phase, labelling>>

(* setChildrenIndexes() once the loop is over. *)
EndChildren ==
  /\ phase = "children"
  /\ Position > Len(InstancesOf[ModelOf(parent)])
  /\ insts' = [insts EXCEPT ![parent].children =
                  IF first = Len(insts) + 1 THEN <<None, None>> ELSE <<first, Len(insts)>>]
  /\ UNCHANGED <<netlist, terms, leaves, path, labelling>>

(* The loop of process() goes on with the instance on top of the stack. *)
NextParent ==
  /\ EndChildren
  /\ pending # <<>>
  /\ BeginChildren(Last(pending), Len(insts) + 1)
  /\ pending' = Front(pending)
  /\ UNCHANGED <<calls, next, phase>>

(* A call of visit(): its number, and the first child it will visit. *)
Call(stack, id) ==
  /\ calls' = Append(stack, [id |-> id, dfsIn |-> next, child |-> insts'[id].children[1]])
  /\ next' = next + 1

(* The stack is empty: initDFSIntervals() visits the top. *)
VisitTop ==
  /\ EndChildren
  /\ pending = <<>>
  /\ Call(calls, 1)
  /\ phase' = "dfs"
  /\ UNCHANGED <<pending, parent, first>>

(* Mutant: the last child is not visited. *)
MutMoreChildren(f) == f.child # None /\ f.child < insts[f.id].children[2]

(* The range of children has both ends inside. *)
MoreChildren(f) == f.child # None /\ f.child <= insts[f.id].children[2]

VisitChild ==
  /\ phase = "dfs"
  /\ calls # <<>>
  /\ MoreChildren(Last(calls))
  /\ UNCHANGED numbering
  /\ Call([calls EXCEPT ![Len(calls)].child = @ + 1], Last(calls).child)
  /\ UNCHANGED <<netlist, pending, parent, first, phase, labelling>>

(* visit() returns and sets the interval. *)
Return ==
  /\ phase = "dfs"
  /\ calls # <<>>
  /\ ~MoreChildren(Last(calls))
  /\ insts' = [insts EXCEPT ![Last(calls).id].dfs = <<Last(calls).dfsIn, next>>]
  /\ calls' = Front(calls)
  /\ UNCHANGED <<netlist, terms, leaves, path, pending, parent, first, next, phase, labelling>>

-----------------------------------------------------------------------------
(* The iso builder.                                                        *)

NewIso == [drivers |-> {}, readers |-> {}, type |-> "STANDART"]

(* The terminals isos start from: leaf outputs on a net, top inputs. *)
LeafDrivers ==
  {t \in 1 .. Len(terms) :
     terms[t].inst \in leaves /\ Direction(t) # "Input" /\ TermNet(t) # None}

TopDrivers ==
  {t \in 1 .. Len(terms) :
     IsTop(terms[t].inst) /\ Direction(t) # "Output" /\ BitNet(t) # None}

(* One new iso for each driver of the sequence order, one task each. *)
Start(order, from) ==
  /\ isos' = from \o [x \in 1 .. Len(order) |-> NewIso]
  /\ isoOf' = [t \in 1 .. Len(terms) |->
                 IF \E x \in 1 .. Len(order) : order[x] = t
                   THEN Len(from) + (CHOOSE x \in 1 .. Len(order) : order[x] = t)
                   ELSE IF t \in DOMAIN isoOf THEN isoOf[t] ELSE None]
  /\ tasks' = Range(order)

(* The numbering is complete; process() of the iso builder up to round 1. *)
CollectDrivers ==
  /\ phase = "dfs"
  /\ calls = <<>>
  /\ Start(Sorted(LeafDrivers) \o Sorted(TopDrivers), <<>>)
  /\ phase' = "round1"
  /\ UNCHANGED <<netlist, numbering, unfolding, constants, again, trace>>

Idle == [term |-> None, iso |-> None, stack |-> <<>>, visited |-> {}]

(* treatDriver() begins at terminal t, for iso x, with its own bit set. *)
BeginTrace(w, t, x) ==
  trace' = [trace EXCEPT ![w] = [term |-> t, iso |-> x, stack |-> <<t>>, visited |-> {}]]

(* A thread takes a task. *)
TakeTask(w, t) ==
  /\ phase \in {"round1", "round2"}
  /\ t \in tasks
  /\ trace[w].stack = <<>>
  /\ tasks' = tasks \ {t}
  /\ BeginTrace(w, t, isoOf[t])
  /\ UNCHANGED <<netlist, numbering, unfolding, phase, isoOf, isos, constants, again>>

(* Terminals the loop over s pushes before it breaks at a visited one. *)
UpTo(s, V) ==
  LET hits == {x \in 1 .. Len(s) : s[x] \in V}
  IN  IF hits = {} THEN s ELSE SubSeq(s, 1, Min(hits) - 1)

(* What the trace pushes at terminal t for net n of instance i. *)
Pushed(i, n, t, V) ==
  LET inside == Sorted(InstTermsOn(i, n) \ {t})
      own    == Sorted(BitTermsOn(i, n) \ {t})
  IN  CASE n = None                                        -> <<>>
        [] n # None /\ InstTermsOn(i, n) \cap V # {} -> UpTo(inside, V)
        [] OTHER                                           -> inside \o UpTo(own, V)

(* The net treatDriver() follows into the instance. *)
InnerNet(t) == IF ModelOf(terms[t].inst) \in Assign THEN None ELSE BitNet(t)

NetType(d, n) == IF <<d, n>> \in DOMAIN type THEN type[<<d, n>>] ELSE "STANDART"

TypeIn(t) ==
  IF InnerNet(t) = None THEN "STANDART" ELSE NetType(ModelOf(terms[t].inst), InnerNet(t))

TypeOut(t) ==
  IF TermNet(t) = None THEN "STANDART"
  ELSE NetType(ModelOf(insts[terms[t].inst].parent), TermNet(t))

(* handleConstant(): the iso's type once the trace has met a net of type k. *)
MeetConstant(old, k) ==
  CASE old = "AMBIGUOUS" \/ k = "STANDART" -> old
    [] old \in {"STANDART", k}             -> k
    [] OTHER                               -> "AMBIGUOUS"

Role(t) ==
  LET i == terms[t].inst
  IN  CASE IsTop(i) -> IF Direction(t) = "Output" THEN "reader" ELSE "driver"
        [] ~IsTop(i) /\ InstancesOf[ModelOf(i)] = <<>> ->
             IF Direction(t) = "Input" THEN "reader" ELSE "driver"
        [] OTHER -> "hier"

(* Another thread is in the middle of a trace. *)
Others(w) == \E v \in Worker \ {w} : trace[v].stack # <<>>

(* constantXIsos_ after iso x met nets of the types of K and came to type  *)
(* k.  The sets are shared and unlocked: while another thread traces, an   *)
(* insertion may be lost.                                                  *)
Listed(w, x, K, k) ==
  CASE K \subseteq {"STANDART"} -> {constants}
    [] k = "AMBIGUOUS"          -> {{c \in constants : c[2] # x}}
    [] OTHER -> {constants \cup {<<k, x>>}} \cup (IF Others(w) THEN {constants} ELSE {})

(* Mutant: the net outside is not followed. *)
MutPush(t, V) == Pushed(terms[t].inst, InnerNet(t), t, V)

(* The terminals on the net inside, then those on the net outside. *)
Push(t, V) ==
  Pushed(terms[t].inst, InnerNet(t), t, V)
    \o Pushed(insts[terms[t].inst].parent, TermNet(t), t, V)

(* treatDriver() at a terminal t its trace has not visited. *)
VisitNew(w, t) ==
  LET x == trace[w].iso
  IN  /\ trace' = [trace EXCEPT
             ![w].stack = Front(@) \o Push(t, trace[w].visited),
             ![w].visited = @ \cup {t}]
      /\ isos' = [isos EXCEPT
             ![x].drivers = IF Role(t) = "driver" THEN @ \cup {t} ELSE @,
             ![x].readers = IF Role(t) = "reader" THEN @ \cup {t} ELSE @,
             ![x].type = MeetConstant(MeetConstant(@, TypeIn(t)), TypeOut(t))]
      /\ isoOf' = IF Role(t) = "driver" /\ phase = "round1" THEN isoOf
                  ELSE [isoOf EXCEPT ![t] = x]
      /\ constants' \in Listed(w, x, {TypeIn(t), TypeOut(t)}, isos'[x].type)

(* One round of the loop of treatDriver() in thread w. *)
Visit(w) ==
  /\ trace[w].stack # <<>>
  /\ LET t == Last(trace[w].stack)
     IN  \/ /\ t \in trace[w].visited
            /\ trace' = [trace EXCEPT ![w].stack = Front(@)]
            /\ UNCHANGED <<isoOf, isos, constants>>
         \/ /\ t \notin trace[w].visited
            /\ VisitNew(w, t)
  /\ UNCHANGED <<netlist, numbering, unfolding, phase, tasks, again>>

(* parallel_for() has returned: no task is left and no thread at work. *)
Joined == tasks = {} /\ \A w \in Worker : trace[w].stack = <<>>

MultiDriver == {x \in 1 .. Len(isos) : Cardinality(isos[x].drivers) > 1}

(* Mutant: every driver of a shared iso is treated again. *)
MutDriversToTreat == UNION {isos[x].drivers : x \in MultiDriver}

(* driversToTreat: the first driver of every iso that has several. *)
DriversToTreat ==
  {Min(isos[x].drivers) : x \in MultiDriver}

(* Mutant: the isos of round 1 stay. *)
MutShadowed == isos

(* makeShadow() empties the isos that have several drivers. *)
Shadowed ==
  [x \in 1 .. Len(isos) |->
     IF x \in MultiDriver THEN [NewIso EXCEPT !.type = "SHADOW"] ELSE isos[x]]

(* Round 2 traces each net with several drivers once, from its first one. *)
Sift ==
  /\ phase = "round1"
  /\ Joined
  /\ Start(Sorted(DriversToTreat), Shadowed)
  /\ again' = DriversToTreat
  /\ phase' = "round2"
  /\ UNCHANGED <<netlist, numbering, unfolding, constants, trace>>

Join ==
  /\ phase = "round2"
  /\ Joined
  /\ phase' = "dangling"
  /\ trace' = [w \in Worker |-> Idle]
  /\ UNCHANGED <<netlist, numbering, unfolding, isoOf, isos, constants, tasks, again>>

(* A terminal on a net whose iso is not known yet.  isLeaf() compares the  *)
(* ends of the range of children.                                          *)
Dangling(t) ==
  /\ \/ BitNet(t) # None /\ ~isLeaf(terms[t].inst)
     \/ TermNet(t) # None
  /\ isoOf[t] = None

(* The last pass: nets no driver was found on get an iso each. *)
TraceDangling(t) ==
  /\ phase = "dangling"
  /\ trace[Main].stack = <<>>
  /\ Dangling(t)
  /\ \A u \in 1 .. t - 1 : ~Dangling(u)
  /\ isos' = Append(isos, NewIso)
  /\ isoOf' = [isoOf EXCEPT ![t] = Len(isos')]
  /\ BeginTrace(Main, t, Len(isos'))
  /\ UNCHANGED <<netlist, numbering, unfolding, phase, constants, tasks, again>>

(* The null iso comes last. *)
Finish ==
  /\ phase = "dangling"
  /\ trace[Main].stack = <<>>
  /\ \A t \in 1 .. Len(terms) : ~Dangling(t)
  /\ isos' = Append(isos, NewIso)
  /\ phase' = "done"
  /\ UNCHANGED <<netlist, numbering, unfolding, isoOf, constants, tasks, again, trace>>

-----------------------------------------------------------------------------
(* The netlist as the hierarchy defines it, without DNL IDs.  The nets     *)
(* inside an instance without instances are not part of it.                *)
WireTerms(p, n) ==
  {<<IF c[1] = 0 THEN p ELSE Append(p, c[1]), c[2]>> :
     c \in {x \in DOMAIN net[DesignAt[p]] : net[DesignAt[p]][x] = n}}

WireNets(p) ==
  IF p # <<>> /\ InstancesOf[DesignAt[p]] = <<>> THEN {} ELSE Range(net[DesignAt[p]]) \ {None}

Wires ==
  UNION {{[terms |-> WireTerms(p, n), type |-> NetType(DesignAt[p], n)] : n \in WireNets(p)} :
           p \in Paths}

Init ==
  /\ net \in Wirings
  /\ type \in Typings
  /\ wires = Wires
  /\ insts = <<>> /\ terms = <<>> /\ leaves = {} /\ path = <<>>
  /\ pending = <<>> /\ parent = None /\ first = None
  /\ calls = <<>> /\ next = 0
  /\ phase = "top"
  /\ isoOf = <<>> /\ isos = <<>> /\ constants = {}
  /\ tasks = {} /\ again = {}
  /\ trace = [w \in Worker |-> Idle]

Next ==
  \/ CreateTop
  \/ AddChild
  \/ NextParent
  \/ VisitTop
  \/ VisitChild
  \/ Return
  \/ CollectDrivers
  \/ \E w \in Worker, t \in tasks : TakeTask(w, t)
  \/ \E w \in Worker : Visit(w)
  \/ Sift
  \/ Join
  \/ \E t \in 1 .. Len(terms) : TraceDangling(t)
  \/ Finish

Spec == Init /\ [][Next]_vars /\ WF_vars(Next)

-----------------------------------------------------------------------------
(* What the netlists have to satisfy for the isos to be exact.  Nets inside *)
(* a design without instances, which a trace follows too: one terminal     *)
(* each, none constant.                                                    *)
PlainLeaves ==
  \A f \in Wirings, d \in Design :
    InstancesOf[d] = <<>> /\ d # Top /\ d \notin Assign =>
      \A c \in Components(d) : f[d][c] # None =>
        /\ \A e \in Components(d) : f[d][e] = f[d][c] => e = c
        /\ \A y \in Typings : <<d, f[d][c]>> \notin DOMAIN y

(* isLeaf() compares the ends of a range, so an instance with one child    *)
(* counts as a leaf and the last pass skips the nets inside.  Each has to  *)
(* be on a terminal that gets its iso otherwise: of the child, connected   *)
(* outside, or an input of the top.                                        *)
OneChildNets ==
  \A f \in Wirings, d \in Design :
    (Len(InstancesOf[d]) = 1 \/ (d = Top /\ InstancesOf[d] = <<>>)) =>
      \A c \in Components(d) : f[d][c] # None =>
        \/ \E e \in Components(d) : f[d][e] = f[d][c] /\ e[1] # 0
        \/ /\ d = Top => \E k \in 1 .. Len(Directions[d]) :
                           f[d][<<0, k>>] = f[d][c] /\ Directions[d][k] # "Output"
           /\ \A e \in Design : \A j \in 1 .. Len(InstancesOf[e]) : InstancesOf[e][j] = d =>
                \E k \in 1 .. Len(Directions[d]) :
                  f[d][<<0, k>>] = f[d][c] /\ f[e][<<j, k>>] # None

(* The isos as the users of the DNL see them: the terminals labelled with  *)
(* the same iso ID.                                                        *)
Labelling ==
  {[terms |-> {<<path[terms[t].inst], terms[t].bit>> :
                 t \in {u \in 1 .. Len(terms) : isoOf[u] = x}},
    type  |-> isos[x].type] :
     x \in Range(isoOf) \ {None}}

(* The parallel computation yields the isos of the abstract specification, *)
(* whatever the number of drivers on a net and the order the threads work  *)
(* in, and it ends.                                                        *)
Equipotentials == INSTANCE DNLEquipotentials WITH
  done <- phase = "done", result <- IF phase = "done" THEN Labelling ELSE {}

ImplementsEquipotentials == Equipotentials!Spec

(* Every instance of the hierarchy has one number, climbing to the top     *)
(* gives its path and the lookups by order ID find its children and its    *)
(* terminals; leaves_ are the instances without children; the DFS          *)
(* intervals tell who is under whom.                                       *)
NumberingExact ==
  phase = "done" =>
    /\ Range(path) = Paths
    /\ Len(insts) = Cardinality(Paths)
    /\ \A i \in 1 .. Len(insts) :
         /\ ModelOf(i) = DesignAt[path[i]]
         /\ path[i] = IF IsTop(i) THEN <<>> ELSE Append(path[insts[i].parent], insts[i].snl)
         /\ \A j \in 1 .. Len(InstancesOf[ModelOf(i)]) :
              path[getChildInstance(i, j)] = Append(path[i], j)
         /\ \A k \in 1 .. Len(Directions[ModelOf(i)]) :
              terms[getTerminal(i, k)] = [inst |-> i, bit |-> k]
    /\ leaves = {i \in 1 .. Len(insts) : ~IsTop(i) /\ InstancesOf[ModelOf(i)] = <<>>}
    /\ \A i, p \in 1 .. Len(insts) : IsUnder(i, p) <=> IsPrefix(path[p], path[i])

(* In the end an iso lists exactly the leaf and top terminals that carry   *)
(* its ID, and each is listed by one iso: nothing of round 1 survives on a *)
(* net with several drivers.                                               *)
IsoListsItsTerms ==
  phase = "done" =>
    \A x \in 1 .. Len(isos) :
      /\ isos[x].drivers \cup isos[x].readers =
           {t \in 1 .. Len(terms) : isoOf[t] = x /\ Role(t) # "hier"}
      /\ isos[x].type = "SHADOW" => x \notin Range(isoOf)

(* The assertions of process(): each driver treated again accounts for one *)
(* iso with several drivers, and the last pass meets no driver.            *)
AssertionsHold ==
  /\ phase = "round2" /\ Joined => Cardinality(again) = Cardinality(MultiDriver)
  /\ phase = "dangling" /\ trace[Main].iso # None => isos[trace[Main].iso].drivers = {}

=============================================================================
