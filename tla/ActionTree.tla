----------------------------- MODULE ActionTree -----------------------------
(***************************************************************************)
(* The batch netlist editor (src/src/bne): deletions and constant drives   *)
(* asked for one occurrence at a time are gathered in a tree over the      *)
(* instance paths (ActionTree::addAction), subtrees of the same model that *)
(* ask for the same edits are merged (normalize), and the edits are done   *)
(* bottom up, each path made unique first (process, SNLUniquifier).        *)
(*                                                                         *)
(* A design is a number; netlist[d] gives the model of each of its         *)
(* instances and the constant each of them is driven with.  Primitives     *)
(* have no slave instances.  A node of the tree is the number of its       *)
(* position in nodes_, from 1; parent 0 stands for the (size_t)-1 of the   *)
(* root.  Which terminal of an instance is driven is abstracted away.      *)
(***************************************************************************)
EXTENDS Integers, Sequences, FiniteSets, SequencesExt

CONSTANTS
  Netlists,      \* The netlists process() may start from; design 1 is the top.
  Primitive,     \* The designs that are primitives.
  Requests,      \* The edits a client may ask for: [kind, path, value].
  Modes,         \* The values of <<blockNormalization_, keepOrder_>>.
  MaxActions,    \* Bound on the number of edits, by blockNormalization_.
  None           \* The constant of an instance that is not driven.

VARIABLES
  netlist,       \* The designs and their instances.
  original,      \* The netlist before the edits.
  mode,          \* blockNormalization_ and keepOrder_.
  nodes,         \* nodes_.
  actions,       \* actions_, in the order of the requests.
  phase,         \* Where process() is.
  dfs,           \* snlidorder: the nodes in depth-first order.
  at,            \* The position of the loop over snlidorder.
  group,         \* The nodes of one model still to be compared.
  queue          \* The queue of process().

vars == <<netlist, original, mode, nodes, actions, phase, dfs, at, group, queue>>

(* A fold from the left that evaluates each intermediate value once. *)
Fold(Op(_, _), base, seq) ==
  FoldLeft(LAMBDA w, x : CHOOSE y \in {Op(v, x) : v \in {w}} : TRUE, base, seq)

(***************************************************************************)
(* The netlist.                                                            *)
(***************************************************************************)
Top == 1

DesignAt(net, path) == FoldLeft(LAMBDA d, i : net[d].model[i], Top, path)

HasPath(net, path) ==
  \A n \in 1 .. Len(path) : path[n] \in DOMAIN net[DesignAt(net, SubSeq(path, 1, n - 1))].model

Slaves(net, m) ==
  {s \in UNION {{d} \X DOMAIN net[d].model : d \in DOMAIN net} : net[s[1]].model[s[2]] = m}

SetModel(net, path, m) ==
  [net EXCEPT ![DesignAt(net, Front(path))].model[Last(path)] = m]

ReplaceWithClone(net, path) ==
  SetModel(Append(net, net[DesignAt(net, path)]), path, Len(net) + 1)

(* A model with one instance, or a primitive, is edited in place. *)
UniquifyInstance(net, path) ==
  LET m == DesignAt(net, path)
  IN  IF m \in Primitive \/ Cardinality(Slaves(net, m)) = 1
      THEN net ELSE ReplaceWithClone(net, path)

(* Mutant: the last model of the path is not made unique. *)
MutUniquify(net, path) ==
  Fold(LAMBDA w, n : UniquifyInstance(w, SubSeq(path, 1, n)), net,
       [n \in 1 .. Len(path) - 1 |-> n])

(* SNLUniquifier::process() with the tail: top down along the path. *)
Uniquify(net, path) ==
  Fold(LAMBDA w, n : UniquifyInstance(w, SubSeq(path, 1, n)), net,
       [n \in 1 .. Len(path) |-> n])

Without(f, x) == [y \in DOMAIN f \ {x} |-> f[y]]

(* Action::processOnContext. *)
Apply(net, action) ==
  LET d == DesignAt(net, Front(action.path))
      i == Last(action.path)
  IN  IF action.kind = "delete"
      THEN [net EXCEPT ![d] = [model |-> Without(@.model, i), tied |-> Without(@.tied, i)]]
      ELSE [net EXCEPT ![d].tied[i] = action.value]

(***************************************************************************)
(* The tree.                                                               *)
(***************************************************************************)
NewNode(inst, nlid, parent) ==
  [inst |-> inst, nlid |-> nlid, parents |-> <<<<parent, inst>>>>, children |-> <<>>,
   actions |-> <<>>, processed |-> FALSE]

getChild(N, n, inst) == {c \in Range(N[n].children) : N[c].inst = inst}

(* The node a path reaches, or 0: getNodeForContext(). *)
getNodeForContext(N, path) ==
  FoldLeft(LAMBDA n, i : IF n = 0 \/ getChild(N, n, i) = {} THEN 0
                         ELSE CHOOSE c \in getChild(N, n, i) : TRUE, 1, path)

AddStep(N, path) ==
  LET parent == getNodeForContext(N, Front(path))
      new == NewNode(Last(path), DesignAt(netlist, path), parent)
  IN  IF getNodeForContext(N, path) # 0 THEN N
      ELSE Append([N EXCEPT ![parent].children = Append(@, Len(N) + 1)], new)

addHierChild(N, context) ==
  Fold(LAMBDA w, n : AddStep(w, SubSeq(context, 1, n)), N, [n \in 1 .. Len(context) |-> n])

RECURSIVE isPartOfTree(_, _), getContext(_, _)

(* Only the first parent is followed. *)
isPartOfTree(N, n) ==
  /\ N[n].parents # <<>>
  /\ LET parent == N[n].parents[1][1] IN parent = 0 \/ isPartOfTree(N, parent)

getContext(N, n) ==
  IF N[n].parents[1][1] = 0 THEN <<>>
  ELSE Append(getContext(N, N[n].parents[1][1]), N[n].inst)

(* Action::operator==: neither the context nor the constant is compared. *)
SameAction(a, b) == a.kind = b.kind /\ Last(a.path) = Last(b.path)

RECURSIVE SameNode(_, _, _)

(* ActionTreeNode::operator==: the instance is not compared, nor are those *)
(* of the children.                                                        *)
SameNode(N, a, b) ==
  /\ N[a].nlid = N[b].nlid
  /\ Len(N[a].actions) = Len(N[b].actions)
  /\ \A k \in DOMAIN N[a].actions :
       SameAction(actions[N[a].actions[k]], actions[N[b].actions[k]])
  /\ Len(N[a].children) = Len(N[b].children)
  /\ \A k \in DOMAIN N[a].children : SameNode(N, N[a].children[k], N[b].children[k])

(* Action::operator<. *)
Before(x, y) ==
  LET a == actions[x]
      b == actions[y]
  IN  IF a.kind # b.kind THEN a.kind = "delete"
      ELSE \/ Last(a.path) < Last(b.path)
           \/ Last(a.path) = Last(b.path) /\ a.value < b.value

sortActions(N) == [n \in DOMAIN N |-> [N[n] EXCEPT !.actions = SortSeq(@, Before)]]

RECURSIVE DepthFirst(_, _)

(* The stack of normalize(): the last child of a node is taken first. *)
DepthFirst(N, stack) ==
  IF stack = <<>> THEN <<>>
  ELSE <<Last(stack)>> \o DepthFirst(N, Front(stack) \o N[Last(stack)].children)

(* Mutant: the merged node keeps its parent. *)
MutMergeInto(N, rep, n) ==
  LET edge == N[n].parents[1]
  IN  [N EXCEPT ![edge[1]].children = Append(RemoveFirst(@, n), rep),
                ![rep].parents = Append(@, edge)]

(* One node takes the place of an equal one under the parent of that one. *)
MergeInto(N, rep, n) ==
  LET edge == N[n].parents[1]
  IN  [N EXCEPT ![edge[1]].children = Append(RemoveFirst(@, n), rep),
                ![rep].parents = Append(@, edge),
                ![n].parents = Tail(@)]

Orphans(N) == {n \in DOMAIN N : N[n].parents = <<>> /\ N[n].children # <<>>}

DetachOrphans(N) ==
  [n \in DOMAIN N |->
     [N[n] EXCEPT !.parents = SelectSeq(@, LAMBDA e : e[1] \notin Orphans(N)),
                  !.children = IF n \in Orphans(N) THEN <<>> ELSE @]]

(***************************************************************************)
(* The editor's operations.                                                *)
(***************************************************************************)
Init ==
  /\ netlist \in Netlists
  /\ original = netlist
  /\ mode \in Modes
  /\ nodes = <<NewNode(0, Top, 0)>>
  /\ actions = <<>>
  /\ phase = "collect"
  /\ dfs = <<>> /\ at = 0 /\ group = <<>> /\ queue = <<>>

(* An edit is asked for at most once for an instance. *)
addAction ==
  /\ phase = "collect"
  /\ Len(actions) < MaxActions[mode.blocked]
  /\ \E r \in Requests :
       /\ HasPath(netlist, r.path)
       /\ \A k \in DOMAIN actions : actions[k].path # r.path
       /\ actions' = Append(actions, r)
       /\ LET N == addHierChild(nodes, Front(r.path))
              n == getNodeForContext(N, Front(r.path))
          IN  nodes' = [N EXCEPT ![n].actions = Append(@, Len(actions) + 1)]
  /\ UNCHANGED <<netlist, original, mode, phase, dfs, at, group, queue>>

process ==
  /\ phase = "collect" /\ actions # <<>>
  /\ IF mode.blocked
     THEN phase' = "process" /\ queue' = <<1>> /\ UNCHANGED <<nodes, dfs, at>>
     ELSE /\ phase' = "merge"
          /\ nodes' = IF mode.keepOrder THEN nodes ELSE sortActions(nodes)
          /\ dfs' = DepthFirst(nodes, <<1>>)
          /\ at' = 1
          /\ UNCHANGED queue
  /\ UNCHANGED <<netlist, original, mode, actions, group>>

(* The next NLID of snlidorder, with all the nodes of that model; the top  *)
(* is left out.                                                            *)
NextModel ==
  /\ phase = "merge" /\ Len(group) <= 1 /\ at < Len(dfs)
  /\ at' = at + 1
  /\ group' = SelectSeq(dfs, LAMBDA n : nodes[n].nlid = nodes[dfs[at']].nlid)
  /\ UNCHANGED <<netlist, original, mode, nodes, actions, phase, dfs, queue>>

(* The nodes that equal the last of the group. *)
nodesToMerge ==
  LET Equal(n) == isPartOfTree(nodes, n) /\ SameNode(nodes, Last(group), n)
  IN  IF isPartOfTree(nodes, Last(group)) THEN SelectSeq(Front(group), Equal) ELSE <<>>

(* One iteration over the nodes of a model: the last takes the place of    *)
(* the others that equal it.                                               *)
Merge ==
  /\ phase = "merge" /\ Len(group) > 1
  /\ nodes' = Fold(LAMBDA N, n : MergeInto(N, Last(group), n), nodes, nodesToMerge)
  /\ group' = SelectSeq(Front(group), LAMBDA n : n \notin Range(nodesToMerge))
  /\ UNCHANGED <<netlist, original, mode, actions, phase, dfs, at, queue>>

(* One round of the loop that takes the merged nodes out of the tree, and  *)
(* its end.                                                                *)
DropOrphans ==
  /\ phase = "merge" /\ Len(group) <= 1 /\ at = Len(dfs)
  /\ nodes' = DetachOrphans(nodes)
  /\ IF Orphans(nodes) # {} THEN UNCHANGED <<phase, queue>>
     ELSE phase' = "process" /\ queue' = <<1>>
  /\ UNCHANGED <<netlist, original, mode, actions, dfs, at, group>>

Unprocessed(n) == SelectSeq(nodes[n].children, LAMBDA c : ~nodes[c].processed)

(* Mutant: the children are not queued. *)
MutRequeue ==
  /\ phase = "process" /\ queue # <<>>
  /\ Unprocessed(Head(queue)) # <<>>
  /\ queue' = Append(Tail(queue), Head(queue))
  /\ UNCHANGED <<netlist, original, mode, nodes, actions, phase, dfs, at, group>>

(* A node waits for its children, which are queued before it. *)
Requeue ==
  /\ phase = "process" /\ queue # <<>>
  /\ Unprocessed(Head(queue)) # <<>>
  /\ queue' = Tail(queue) \o Unprocessed(Head(queue)) \o <<Head(queue)>>
  /\ UNCHANGED <<netlist, original, mode, nodes, actions, phase, dfs, at, group>>

(* A node queued several times is processed once. *)
Skip ==
  /\ phase = "process" /\ queue # <<>>
  /\ Unprocessed(Head(queue)) = <<>>
  /\ nodes[Head(queue)].processed
  /\ queue' = Tail(queue)
  /\ UNCHANGED <<netlist, original, mode, nodes, actions, phase, dfs, at, group>>

(* Mutant: the parents a node has got by merging are forgotten. *)
MutSetModels(net, n) ==
  SetModel(net, getContext(nodes, n), DesignAt(net, getContext(nodes, n)))

(* The instances of all the parents get the model of the first. *)
SetModels(net, n) ==
  LET m == DesignAt(net, getContext(nodes, n))
  IN  Fold(LAMBDA w, e : SetModel(w, Append(getContext(nodes, e[1]), e[2]), m),
           net, nodes[n].parents)

(* The instances the actions of a node name are all there still. *)
AllFound(net, n) == \A a \in Range(nodes[n].actions) : HasPath(net, actions[a].path)

Ready(n) == Unprocessed(n) = <<>> /\ ~nodes[n].processed

(* The path is made unique, the node's edits are done, and the instances   *)
(* of all the parents get the edited model.                                *)
ProcessNode ==
  /\ phase = "process" /\ queue # <<>>
  /\ LET n == Head(queue)
     IN  /\ Ready(n)
         /\ nodes' = [nodes EXCEPT ![n].processed = TRUE]
         /\ \E unique \in {Uniquify(netlist, getContext(nodes, n))} :
              /\ AllFound(unique, n)
              /\ \E edited \in {Fold(LAMBDA w, a : Apply(w, actions[a]), unique, nodes[n].actions)} :
                   netlist' = IF nodes[n].parents[1][1] = 0 THEN edited ELSE SetModels(edited, n)
  /\ queue' = Tail(queue)
  /\ UNCHANGED <<original, mode, actions, phase, dfs, at, group>>

(* processOnContext() follows the null pointer getInstance() returned.     *)
Crash ==
  /\ phase = "process" /\ queue # <<>>
  /\ Ready(Head(queue))
  /\ ~AllFound(Uniquify(netlist, getContext(nodes, Head(queue))), Head(queue))
  /\ phase' = "crashed"
  /\ UNCHANGED <<netlist, original, mode, nodes, actions, dfs, at, group, queue>>

Finish ==
  /\ phase = "process" /\ queue = <<>>
  /\ phase' = "done"
  /\ UNCHANGED <<netlist, original, mode, nodes, actions, dfs, at, group, queue>>

Next ==
  \/ addAction \/ process \/ NextModel \/ Merge \/ DropOrphans
  \/ Requeue \/ Skip \/ ProcessNode \/ Crash \/ Finish

Work ==
  NextModel \/ Merge \/ DropOrphans \/ Requeue \/ Skip \/ ProcessNode \/ Crash \/ Finish

(* A client may never call process(); once called it runs to its end in    *)
(* one thread.                                                             *)
Spec == Init /\ [][Next]_vars /\ WF_vars(Work)

(***************************************************************************)
(* Properties.                                                             *)
(***************************************************************************)
RECURSIVE OccurrencesIn(_, _, _)

OccurrencesIn(net, path, d) ==
  UNION {{[path |-> Append(path, i), tied |-> net[d].tied[i]]}
           \cup OccurrencesIn(net, Append(path, i), net[d].model[i]) : i \in DOMAIN net[d].model}

(* The netlist unfolded from the top: every occurrence and its constant.   *)
Occurrences(net) == OccurrencesIn(net, <<>>, Top)

Edits(kind) == {a \in Range(actions) : a.kind = kind}

Expected(o) ==
  LET drives == {a \in Edits("drive") : a.path = o.path}
  IN  [o EXCEPT !.tied = IF drives = {} THEN @ ELSE (CHOOSE a \in drives : TRUE).value]

(* When process() returns, the unfolded netlist is the original one        *)
(* without the occurrences asked to be deleted ("\param pathToDelete The   *)
(* path to delete", BNE.h) and with the constants asked for, and nothing   *)
(* else is changed; no edit finds its instance gone.                       *)
EditsAsAsked ==
  /\ phase # "crashed"
  /\ phase = "done" =>
       Occurrences(netlist) =
         {Expected(o) : o \in {x \in Occurrences(original) :
                                \A a \in Edits("delete") : ~IsPrefix(a.path, x.path)}}

(* What is asked below a path, relative to it. *)
Relative(context) ==
  LET below == SelectSeq(actions, LAMBDA a : IsStrictPrefix(context, a.path))
  IN  [k \in DOMAIN below |-> [below[k] EXCEPT !.path = SubSeq(@, Len(context) + 1, Len(@))]]

Contexts == UNION {{SubSeq(a.path, 1, n) : n \in 0 .. Len(a.path) - 1} : a \in Range(actions)}

(* Two occurrences of one design that are both edited are edited alike.    *)
Alike ==
  \A c, d \in Contexts :
    DesignAt(original, c) = DesignAt(original, d) => Relative(c) = Relative(d)

(* A design has instances in one design only. *)
OneParent ==
  \A m \in DOMAIN original \ Primitive : Cardinality({s[1] : s \in Slaves(original, m)}) <= 1

(* No edit of one occurrence leaks into another that shared its model,     *)
(* through a model kept because it had one instance (SNLUniquifier::       *)
(* process), a merge of two nodes (normalize) or the models set on the     *)
(* parents of a merged node (process): always without normalization, and   *)
(* with it when occurrences of a design are edited alike and each design   *)
(* has instances in one design only.                                       *)
EditsExact == mode.blocked \/ (Alike /\ OneParent) => EditsAsAsked

RECURSIVE Below(_)

Below(n) == {n} \cup UNION {Below(c) : c \in Range(nodes[n].children)}

(* The assertions of normalize() and verifyTree(): a node that is merged   *)
(* has one parent still and is listed by it once, and after the orphans    *)
(* are taken out every node reached from the root is part of the tree, by  *)
(* a first parent that knows it under the node's own instance, which       *)
(* getContext() takes for granted.                                         *)
AssertionsHold ==
  /\ phase = "merge" /\ Len(group) > 1 =>
       \A n \in Range(nodesToMerge) :
         /\ Len(nodes[n].parents) = 1
         /\ Cardinality({k \in DOMAIN nodes[nodes[n].parents[1][1]].children :
                            nodes[nodes[n].parents[1][1]].children[k] = n}) = 1
  /\ phase = "process" =>
       \A n \in Below(1) : isPartOfTree(nodes, n) /\ nodes[n].parents[1][2] = nodes[n].inst

(* Merging pays: when process() returns, all the instances whose nodes     *)
(* were merged share one model, unless an edit deleted them.               *)
MergedShareModel ==
  phase = "done" =>
    \A n \in Below(1) \ {1} :
      Cardinality({DesignAt(netlist, path) :
        path \in {p \in {Append(getContext(nodes, e[1]), e[2]) : e \in Range(nodes[n].parents)} :
                    HasPath(netlist, p)}}) <= 1

(* process() comes to an end, although it puts a node back in the queue    *)
(* until all of its children are processed.                                *)
Terminates == phase # "collect" ~> phase \in {"done", "crashed"}
=============================================================================
