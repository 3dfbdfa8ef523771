------------------------------- MODULE TGraph -------------------------------
(***************************************************************************)
(* The storage of the timing graph (src/tgraph): nodes, edges and capture  *)
(* edges live in vectors, IDs are vector indices, removed slots go to a    *)
(* free list and are reused last in, first out.  Every node keeps the IDs  *)
(* of its edges; clocks keep the ID of the node they are seeded at.        *)
(*                                                                         *)
(* Edges and capture edges follow the same code twice: they are the two    *)
(* kinds of link.  IDs count from 1 here and from 0 in the code.  Proxies  *)
(* are data and left out.                                                  *)
(***************************************************************************)
EXTENDS Naturals, FiniteSets, Sequences, SequencesExt

CONSTANTS MaxNodes, MaxLinks, MaxClocks   \* bounds on the vectors

ASSUME BoundsAssumption == {MaxNodes, MaxLinks, MaxClocks} \subseteq Nat

Kind  == {"edge", "capture"}
Store == Kind \cup {"node"}

VARIABLES
  nodes,     \* nodes_: alive, latch (cellKind_) and the IDs of their links
  links,     \* edges_ and captureEdges_
  free,      \* freeNodes_, freeEdges_, freeCaptureEdges_
  live,      \* liveNodes_, liveEdges_, liveCaptureEdges_
  clocks,    \* clocks_: the seed nodes
  orphaned   \* history: the clocks whose seed node was removed

vars == <<nodes, links, free, live, clocks, orphaned>>

-----------------------------------------------------------------------------
isNodeValid(n) == n \in DOMAIN nodes /\ nodes[n].alive

NoLinks == [K \in Kind |-> <<>>]

FreshNode == [alive |-> TRUE, latch |-> FALSE, out |-> NoLinks, in |-> NoLinks]

DeadNode == [FreshNode EXCEPT !.alive = FALSE]

(* Only edges have clock masks; a mask is its size here. *)
FreshLink(K, n, m) ==
  [alive |-> TRUE, source |-> n, target |-> m, mask |-> IF K = "edge" THEN Len(clocks) ELSE 0]

(* eraseEdgeId(): the last entry takes the place of the erased one. *)
EraseEdgeId(s, e) ==
  LET at == {i \in DOMAIN s : s[i] = e}
  IN  IF at = {} THEN s
      ELSE Front([s EXCEPT ![CHOOSE i \in at : \A j \in at : i <= j] = Last(s)])

(* Both ends of link l drop its ID e. *)
Detached(K, v, l, e) ==
  LET w == [v EXCEPT ![l.source].out[K] = EraseEdgeId(@, e)]
  IN  [w EXCEPT ![l.target].in[K] = EraseEdgeId(@, e)]

Killed(v, e) == [v EXCEPT ![e] = [@ EXCEPT !.alive = FALSE, !.mask = 0]]

(* The storage g without link e. *)
Removed(K, g, e) ==
  [nodes |-> Detached(K, g.nodes, g.links[K][e], e),
   links |-> [g.links EXCEPT ![K] = Killed(@, e)],
   free  |-> [g.free EXCEPT ![K] = Append(@, e)],
   live  |-> [g.live EXCEPT ![K] = @ - 1]]

(* Mutant: isEdgeValid() is not asked. *)
MutRemoveLink(K, g, e) == Removed(K, g, e)

(* removeEdge() and removeCaptureEdge() on the storage g. *)
RemoveLink(K, g, e) == IF g.links[K][e].alive THEN Removed(K, g, e) ELSE g

(* One after the other, for the IDs of s. *)
RemoveLinks(K, g, s) ==
  LET after[k \in 0 .. Len(s)] == IF k = 0 THEN g ELSE RemoveLink(K, after[k - 1], s[k])
  IN  after[Len(s)]

Storage == [nodes |-> nodes, links |-> links, free |-> free, live |-> live]

StorageBecomes(g) ==
  /\ nodes' = g.nodes
  /\ links' = g.links
  /\ free' = g.free
  /\ live' = g.live

-----------------------------------------------------------------------------
(* Mutant: the ID stays on the free list. *)
MutFreeAfterCreate(S) == free

(* The free lists once a slot of S is taken. *)
FreeAfterCreate(S) == IF free[S] = <<>> THEN free ELSE [free EXCEPT ![S] = Front(@)]

CreateNode ==
  /\ \/ /\ free["node"] # <<>>
        /\ nodes' = [nodes EXCEPT ![Last(free["node"])] = FreshNode]
     \/ /\ free["node"] = <<>>
        /\ Len(nodes) < MaxNodes
        /\ nodes' = Append(nodes, FreshNode)
  /\ free' = FreeAfterCreate("node")
  /\ live' = [live EXCEPT !["node"] = @ + 1]
  /\ UNCHANGED <<links, clocks, orphaned>>

(* The ID createEdge() or createCaptureEdge() gives. *)
NextLinkID(K) == IF free[K] = <<>> THEN Len(links[K]) + 1 ELSE Last(free[K])

CreateLink(K, n, m) ==
  /\ isNodeValid(n) /\ isNodeValid(m)
  /\ \/ /\ free[K] # <<>>
        /\ links' = [links EXCEPT ![K][NextLinkID(K)] = FreshLink(K, n, m)]
     \/ /\ free[K] = <<>>
        /\ Len(links[K]) < MaxLinks
        /\ links' = [links EXCEPT ![K] = Append(@, FreshLink(K, n, m))]
  /\ free' = FreeAfterCreate(K)
  /\ LET w == [nodes EXCEPT ![n].out[K] = Append(@, NextLinkID(K))]
     IN  nodes' = [w EXCEPT ![m].in[K] = Append(@, NextLinkID(K))]
  /\ live' = [live EXCEPT ![K] = @ + 1]
  /\ UNCHANGED <<clocks, orphaned>>

DestroyLink(K, e) ==
  /\ e \in DOMAIN links[K]
  /\ links[K][e].alive
  /\ StorageBecomes(RemoveLink(K, Storage, e))
  /\ UNCHANGED <<clocks, orphaned>>

(* Mutant: incoming edges are left. *)
MutUnlinked(n) ==
  LET g1 == RemoveLinks("capture", Storage, nodes[n].out["capture"])
      g2 == RemoveLinks("capture", g1, nodes[n].in["capture"])
  IN  RemoveLinks("edge", g2, nodes[n].out["edge"])

(* The storage once removeNode() has removed the links of n: the four      *)
(* vectors are copied first, so a loop from n to n is met twice.           *)
Unlinked(n) ==
  LET g1 == RemoveLinks("capture", Storage, nodes[n].out["capture"])
      g2 == RemoveLinks("capture", g1, nodes[n].in["capture"])
      g3 == RemoveLinks("edge", g2, nodes[n].out["edge"])
  IN  RemoveLinks("edge", g3, nodes[n].in["edge"])

RemoveNode(n) ==
  /\ isNodeValid(n)
  /\ LET g == Unlinked(n)
     IN  StorageBecomes([nodes |-> [g.nodes EXCEPT ![n] = DeadNode],
                         links |-> g.links,
                         free  |-> [g.free EXCEPT !["node"] = Append(@, n)],
                         live  |-> [g.live EXCEPT !["node"] = @ - 1]])
  /\ orphaned' = orphaned \cup {c \in DOMAIN clocks : clocks[c] = n}
  /\ UNCHANGED clocks

(* setCellKind(): only latches matter here. *)
SetCellKind(n, latch) ==
  /\ isNodeValid(n)
  /\ nodes[n].latch # latch
  /\ nodes' = [nodes EXCEPT ![n].latch = latch]
  /\ UNCHANGED <<links, free, live, clocks, orphaned>>

(* Mutant: the masks of the edges keep their size. *)
MutResized(s) == s

(* resizeClockMasks() on the live edges when a clock is added. *)
Resized(s) ==
  [e \in DOMAIN s |-> IF s[e].alive THEN [s[e] EXCEPT !.mask = Len(clocks) + 1] ELSE s[e]]

CreateClock(n) ==
  /\ isNodeValid(n)
  /\ Len(clocks) < MaxClocks
  /\ clocks' = Append(clocks, n)
  /\ links' = [links EXCEPT !["edge"] = Resized(@)]
  /\ UNCHANGED <<nodes, free, live, orphaned>>

(* The checks at the head of TClockPropagator::run(). *)
RunAccepts ==
  /\ \A n \in DOMAIN nodes : nodes[n].alive => ~nodes[n].latch
  /\ \A c \in DOMAIN clocks : isNodeValid(clocks[c])

-----------------------------------------------------------------------------
Init ==
  /\ nodes = <<>>
  /\ links = NoLinks
  /\ free = [S \in Store |-> <<>>]
  /\ live = [S \in Store |-> 0]
  /\ clocks = <<>>
  /\ orphaned = {}

Next ==
  \/ CreateNode
  \/ \E n \in 1 .. MaxNodes : RemoveNode(n) \/ CreateClock(n)
  \/ \E n \in 1 .. MaxNodes, latch \in BOOLEAN : SetCellKind(n, latch)
  \/ \E K \in Kind, n, m \in 1 .. MaxNodes : CreateLink(K, n, m)
  \/ \E K \in Kind, e \in 1 .. MaxLinks : DestroyLink(K, e)

Spec == Init /\ [][Next]_vars

-----------------------------------------------------------------------------
TypeOK ==
  /\ \A n \in DOMAIN nodes, K \in Kind :
       /\ nodes[n].out[K] \in Seq(DOMAIN links[K])
       /\ nodes[n].in[K] \in Seq(DOMAIN links[K])
  /\ \A K \in Kind : \A e \in DOMAIN links[K] :
       {links[K][e].source, links[K][e].target} \subseteq DOMAIN nodes
  /\ live \in [Store -> Nat]
  /\ clocks \in Seq(DOMAIN nodes)

AliveSlots(v) == {n \in DOMAIN v : v[n].alive}

Slots(S) == IF S = "node" THEN nodes ELSE links[S]

(* Every slot is either alive or on its free list, once, and the live      *)
(* counters are exact: no create() hands out an ID that is in use, not     *)
(* even after a node with a loop on itself was removed.                    *)
SlotsAccounted ==
  \A S \in Store :
    /\ IsInjective(free[S])
    /\ ToSet(free[S]) = DOMAIN Slots(S) \ AliveSlots(Slots(S))
    /\ live[S] = Cardinality(AliveSlots(Slots(S)))

(* A node lists exactly the live links that start and end at it, once.     *)
AdjacencyExact ==
  \A n \in DOMAIN nodes, K \in Kind :
    /\ IsInjective(nodes[n].out[K]) /\ IsInjective(nodes[n].in[K])
    /\ ToSet(nodes[n].out[K]) = {e \in AliveSlots(links[K]) : links[K][e].source = n}
    /\ ToSet(nodes[n].in[K]) = {e \in AliveSlots(links[K]) : links[K][e].target = n}

(* No live link ends at a removed node. *)
LinksAnchored ==
  \A K \in Kind : \A e \in AliveSlots(links[K]) :
    nodes[links[K][e].source].alive /\ nodes[links[K][e].target].alive

(* The lists of the nodes and the ends of the links describe one graph     *)
(* over live nodes, also after removeNode() met a self loop in both lists. *)
GraphSound == AdjacencyExact /\ LinksAnchored

(* All live edges carry masks of the size of the clock count, so that the  *)
(* propagator can combine them whatever the order in which edges and       *)
(* clocks were created and slots reused.                                   *)
MasksSized ==
  \A e \in AliveSlots(links["edge"]) : links["edge"][e].mask = Len(clocks)

(* A link dies only by its own removal or with one of its ends, and keeps  *)
(* its ends while it lives: IDs are stable handles.                        *)
LinksStable ==
  [][\A K \in Kind : \A e \in AliveSlots(links[K]) :
       LET l == links[K][e]
       IN  IF e \in AliveSlots(links'[K])
             THEN links'[K][e].source = l.source /\ links'[K][e].target = l.target
             ELSE \/ DestroyLink(K, e)
                  \/ ~nodes'[l.source].alive
                  \/ ~nodes'[l.target].alive]_vars

(* The propagator refuses a graph that lost the seed node of a clock. *)
RemovedSeedRejected == RunAccepts => orphaned = {}

=============================================================================
