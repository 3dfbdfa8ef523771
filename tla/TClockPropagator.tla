-------------------------- MODULE TClockPropagator --------------------------
(***************************************************************************)
(* One run of the clock propagation on a timing graph (src/tgraph): the    *)
(* loop breaker's depth-first search, the forward pass in topological      *)
(* order (Kahn) that computes the launch clocks of the edges, and the      *)
(* backward pass that computes their capture clocks.                       *)
(*                                                                         *)
(* The graph is chosen in the initial state: live nodes and edges only     *)
(* (TGraph models the slots), accepted by the checks of run().  Edge       *)
(* vectors have whatever order earlier removals left: an edge of a node is *)
(* taken in any order.                                                     *)
(***************************************************************************)
EXTENDS Integers, FiniteSets, Sequences, SequencesExt

CONSTANTS
  Node,          \* node IDs
  Edge, Clock,
  CaptureSets,   \* the sets of capture edges <<C, D>> to consider
  FlopOutputs,   \* the sets of nodes that are flop data outputs to consider
  MaxDisabled    \* bound: edges an earlier run has disabled

ASSUME GraphAssumption ==
  /\ Node \subseteq Nat /\ IsFiniteSet(Node) /\ IsFiniteSet(Edge)
  /\ CaptureSets \subseteq SUBSET (Node \X Node)
  /\ FlopOutputs \subseteq SUBSET Node
  /\ MaxDisabled \in Nat

VARIABLES
  source, target,        \* of the edges
  seed,                  \* TClock::node_
  captureEdges, flopOutput,
  cutBefore,             \* edges disabled when the run starts
  phase,
  disabled,              \* edges with disabled_ set
  color, stack, todo,    \* TLoopBreaker: todo are the edges not yet followed
  inDegree, queue, head, \* Kahn's algorithm
  resolved,              \* clocks that reach a node
  capture,               \* capture clocks at a node
  fromClocks, toClocks   \* masks of the edges

graph == <<source, target, seed, captureEdges, flopOutput, cutBefore>>
dfs   == <<color, stack, todo>>
kahn  == <<inDegree, queue, head, resolved>>
masks == <<fromClocks, toClocks>>
vars  == <<graph, phase, disabled, dfs, kahn, capture, masks>>

-----------------------------------------------------------------------------
Out(n) == {e \in Edge : source[e] = n}

In(n) == {e \in Edge : target[e] = n}

Enabled(E) == E \ disabled

SeedsAt(n) == {c \in Clock : seed[c] = n}

White == {n \in Node : color[n] = "white"}

(* run() empties all masks, then starts the loop breaker. *)
Reset ==
  /\ phase = "start"
  /\ fromClocks' = [e \in Edge |-> {}]
  /\ toClocks' = [e \in Edge |-> {}]
  /\ phase' = "dfs"
  /\ UNCHANGED <<graph, disabled, dfs, kahn, capture>>

(* The next start node: the white node with the smallest ID. *)
Visit(n) ==
  /\ phase = "dfs"
  /\ stack = <<>>
  /\ n \in White
  /\ \A m \in White : n <= m
  /\ color' = [color EXCEPT ![n] = "gray"]
  /\ stack' = <<n>>
  /\ todo' = [todo EXCEPT ![n] = Out(n)]
  /\ UNCHANGED <<graph, phase, disabled, kahn, capture, masks>>

(* Mutant: a loop from a node to itself is not cut. *)
MutCloses(e) == color[target[e]] = "gray" /\ target[e] # source[e]

(* Edge e closes a cycle of the current path. *)
Closes(e) == color[target[e]] = "gray"

(* Mutant: the cursor does not pass a disabled edge. *)
MutAdvanced(n, e) == IF e \in disabled THEN todo[n] ELSE todo[n] \ {e}

(* The edges left once the cursor of n has passed e. *)
Advanced(n, e) == todo[n] \ {e}

FollowEdge(e) ==
  LET n == Last(stack)
      m == target[e]
  IN  /\ phase = "dfs"
      /\ stack # <<>>
      /\ e \in todo[n]
      /\ \/ /\ e \notin disabled /\ color[m] = "white"
            /\ color' = [color EXCEPT ![m] = "gray"]
            /\ stack' = Append(stack, m)
            /\ todo' = [todo EXCEPT ![n] = Advanced(n, e), ![m] = Out(m)]
            /\ UNCHANGED disabled
         \/ /\ e \in disabled \/ color[m] # "white"
            /\ disabled' = IF e \notin disabled /\ Closes(e) THEN disabled \cup {e} ELSE disabled
            /\ todo' = [todo EXCEPT ![n] = Advanced(n, e)]
            /\ UNCHANGED <<color, stack>>
      /\ UNCHANGED <<graph, phase, kahn, capture, masks>>

FinishNode ==
  /\ phase = "dfs"
  /\ stack # <<>>
  /\ todo[Last(stack)] = {}
  /\ color' = [color EXCEPT ![Last(stack)] = "black"]
  /\ stack' = Front(stack)
  /\ UNCHANGED <<graph, phase, disabled, todo, kahn, capture, masks>>

-----------------------------------------------------------------------------
(* Mutant: disabled edges count. *)
MutEnabledInDegree(n) == Cardinality(In(n))

EnabledInDegree(n) == Cardinality(Enabled(In(n)))

(* The nodes of S in the order of their IDs. *)
ByID(S) == {s \in SetToSeqs(S) : \A i, j \in DOMAIN s : i < j => s[i] < s[j]}

(* propagateForward(): seeds, in-degrees over enabled edges, roots. *)
StartForward ==
  /\ phase = "dfs"
  /\ stack = <<>>
  /\ White = {}
  /\ resolved' = [n \in Node |-> SeedsAt(n)]
  /\ inDegree' = [n \in Node |-> EnabledInDegree(n)]
  /\ queue' \in ByID({n \in Node : EnabledInDegree(n) = 0})
  /\ head' = 1
  /\ phase' = "forward"
  /\ UNCHANGED <<graph, disabled, dfs, capture, masks>>

(* Mutant: clocks are passed on by the last edge into a node only. *)
MutReceives(n, m) ==
  LET into == {e \in Enabled(Out(n)) : target[e] = m}
  IN  into # {} /\ inDegree[m] = Cardinality(into)

(* Node n passes its clocks on to m. *)
Receives(n, m) == \E e \in Enabled(Out(n)) : target[e] = m

CountDown(n) == [m \in Node |-> inDegree[m] - Cardinality(Enabled(Out(n)) \cap In(m))]

ProcessNode ==
  /\ phase = "forward"
  /\ head <= Len(queue)
  /\ LET n     == queue[head]
         ready == {m \in Node : CountDown(n)[m] = 0 /\ inDegree[m] # 0}
     IN  /\ resolved' = [m \in Node |->
                           IF Receives(n, m) THEN resolved[m] \cup resolved[n] ELSE resolved[m]]
         /\ inDegree' = CountDown(n)
         /\ \E s \in SetToSeqs(ready) : queue' = queue \o s
  /\ head' = head + 1
  /\ UNCHANGED <<graph, phase, disabled, dfs, capture, masks>>

(* Mutant: only clocks that arrive through an edge count. *)
MutAtClock(n, from) == UNION {from[e] : e \in Enabled(In(n))}

(* The clocks at the clock pin n of a capture edge, given the launch masks. *)
AtClock(n, from) == SeedsAt(n) \cup UNION {from[e] : e \in Enabled(In(n))}

(* The forward pass ends: logic_error, or the launch masks are stored and  *)
(* the capture edges give the backward pass its seeds.                     *)
EndForward ==
  LET complete == Len(queue) = Cardinality(Node)
  IN  /\ phase = "forward"
      /\ head > Len(queue)
      /\ phase' = IF complete THEN "backward" ELSE "failed"
      /\ fromClocks' = [e \in Edge |->
           IF complete /\ e \notin disabled THEN resolved[source[e]] ELSE fromClocks[e]]
      /\ capture' = [n \in Node |->
           UNION {AtClock(x[1], fromClocks') : x \in {y \in captureEdges : y[2] = n}}]
      /\ head' = Len(queue)
      /\ UNCHANGED <<graph, disabled, dfs, inDegree, queue, resolved, toClocks>>

(* The backward pass does not go past node n. *)
Stops(n) == n \in flopOutput

(* propagateBackward(), one node of the reversed order. *)
CaptureNode ==
  /\ phase = "backward"
  /\ head > 0
  /\ LET n  == queue[head]
         in == IF Stops(n) THEN {} ELSE Enabled(In(n))
     IN  /\ toClocks' = [e \in Edge |-> IF e \in in THEN capture[n] ELSE toClocks[e]]
         /\ capture' = [m \in Node |->
              IF \E e \in in : source[e] = m THEN capture[m] \cup capture[n] ELSE capture[m]]
  /\ head' = head - 1
  /\ UNCHANGED <<graph, phase, disabled, dfs, inDegree, queue, resolved, fromClocks>>

EndBackward ==
  /\ phase = "backward"
  /\ head = 0
  /\ phase' = "done"
  /\ UNCHANGED <<graph, disabled, dfs, kahn, capture, masks>>

-----------------------------------------------------------------------------
Init ==
  /\ source \in [Edge -> Node]
  /\ target \in [Edge -> Node]
  /\ seed \in [Clock -> Node]
  /\ captureEdges \in CaptureSets
  /\ flopOutput \in FlopOutputs
  /\ cutBefore \in {E \in SUBSET Edge : Cardinality(E) <= MaxDisabled}
  /\ phase = "start"
  /\ disabled = cutBefore
  /\ color = [n \in Node |-> "white"]
  /\ stack = <<>>
  /\ todo = [n \in Node |-> {}]
  /\ inDegree = [n \in Node |-> 0]
  /\ queue = <<>>
  /\ head = 1
  /\ resolved = [n \in Node |-> {}]
  /\ capture = [n \in Node |-> {}]
  /\ fromClocks = [e \in Edge |-> Clock]   \* masks of an earlier run
  /\ toClocks = [e \in Edge |-> Clock]

Next ==
  \/ Reset
  \/ \E n \in Node : Visit(n)
  \/ \E e \in Edge : FollowEdge(e)
  \/ FinishNode
  \/ StartForward
  \/ ProcessNode
  \/ EndForward
  \/ CaptureNode
  \/ EndBackward

Spec == Init /\ [][Next]_vars /\ WF_vars(Next)

-----------------------------------------------------------------------------
TypeOK ==
  /\ phase \in {"start", "dfs", "forward", "backward", "done", "failed"}
  /\ disabled \subseteq Edge
  /\ color \in [Node -> {"white", "gray", "black"}]
  /\ stack \in Seq(Node)
  /\ todo \in [Node -> SUBSET Edge]
  /\ inDegree \in [Node -> Nat]
  /\ queue \in Seq(Node)
  /\ head \in Nat
  /\ {resolved, capture} \subseteq [Node -> SUBSET Clock]
  /\ {fromClocks, toClocks} \subseteq [Edge -> SUBSET Clock]

(* No edge of E that ends in N leaves the set S. *)
ClosedUnder(E, N, S) == \A e \in E : source[e] \in S /\ target[e] \in N => target[e] \in S

(* A path of edges of E, of none if n = m, leads from n to m through nodes *)
(* of N: m is in every set that contains n and is closed under E.          *)
PathIn(E, N, n, m) ==
  /\ n \in N /\ m \in N
  /\ \A S \in SUBSET N : n \in S /\ ClosedUnder(E, N, S) => m \in S

Leads(N, n, m) == PathIn(Edge \ disabled, N, n, m)

RunOver == phase \in {"done", "failed"}

(* The loop breaker leaves no cycle among the enabled edges, whatever the  *)
(* order of the edges and whichever edges were disabled before.            *)
EnabledAcyclic ==
  RunOver => \A e \in Edge \ disabled : ~Leads(Node, target[e], source[e])

(* Every edge it has cut would close a cycle again if it were enabled: no  *)
(* edge is lost that is not on a loop.                                     *)
NoNeedlessCut ==
  RunOver => \A e \in disabled \ cutBefore : Leads(Node, target[e], source[e])

(* The loop breaker cuts a minimal set: no cycle is left and every edge it *)
(* cut closes one, whatever was disabled before and whatever the order.    *)
CutsExact == EnabledAcyclic /\ NoNeedlessCut

(* The topological order covers the graph: the logic_error of              *)
(* propagateForward() is never thrown.                                     *)
NeverFails == phase # "failed"

(* FromClocks of an edge are the clocks whose seed reaches its source over *)
(* enabled edges; disabled edges have none.                                *)
FromClocksExact ==
  phase = "done" => \A e \in Edge :
    fromClocks[e] =
      IF e \in disabled THEN {} ELSE {c \in Clock : Leads(Node, seed[c], source[e])}

(* ToClocks of an edge are the clocks at the clock pins of the capture     *)
(* endpoints its target leads to without passing a flop data output.       *)
ToClocksExact ==
  phase = "done" => \A e \in Edge :
    toClocks[e] =
      IF e \in disabled THEN {}
      ELSE {c \in Clock : \E x \in captureEdges :
              /\ Leads(Node, seed[c], x[1])
              /\ Leads(Node \ flopOutput, target[e], x[2])}

(* The run ends on every graph. *)
Terminates == <>(phase = "done")

=============================================================================
