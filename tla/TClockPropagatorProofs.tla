------------------------ MODULE TClockPropagatorProofs ------------------------
(* Proofs about TClockPropagator, for graphs of any size. *)
EXTENDS TClockPropagator, Integers, SequencesExt, TLAPS, WellFoundedInduction, FiniteSetTheorems, FunctionTheorems

-----------------------------------------------------------------------------
(* Natural numbers and sequences that list a finite set. *)

(* Every nonempty set of naturals has a least element. *)
LEMMA LeastNat == \A T \in SUBSET Nat : T # {} => \E n \in T : \A m \in T : n <= m
<1> SUFFICES ASSUME NEW T \in SUBSET Nat, T # {}
             PROVE  \E n \in T : \A m \in T : n <= m
  OBVIOUS
<1> DEFINE R == OpToRel(<, Nat)
<1>1. IsWellFoundedOn(R, Nat)
  BY NatLessThanWellFounded
<1>2. \A m, n \in Nat : m < n => <<m, n>> \in R
  BY DEF OpToRel
<1> HIDE DEF R
<1>3. PICK n \in T : \A m \in T : ~(<<m, n>> \in R)
  BY <1>1, WFMin
<1>4. \A m \in T : ~(m < n)
  BY <1>2, <1>3
<1>5. \A m \in T : n <= m
  BY <1>4
<1> QED
  BY <1>5

(* A sequence of the elements of a finite set. *)
LEMMA SeqOfSet ==
  ASSUME NEW S, IsFiniteSet(S), NEW s \in SetToSeqs(S)
  PROVE  /\ s \in Seq(S)
         /\ \A i, j \in DOMAIN s : s[i] = s[j] => i = j
         /\ \A x \in S : \E i \in DOMAIN s : s[i] = x
<1> DEFINE c == Cardinality(S)
<1>1. c \in Nat
  BY FS_CardinalityType
<1>2. s \in [1 .. c -> S] /\ \A i, j \in 1 .. c : i # j => s[i] # s[j]
  BY DEF SetToSeqs
<1> HIDE DEF c
<1>3. s \in Injection(1 .. c, S)
  BY <1>2 DEF Injection, IsInjective
<1>4. IsFiniteSet(1 .. c) /\ Cardinality(1 .. c) = c
  BY <1>1, FS_Interval
<1>5. s \in Surjection(1 .. c, S)
  BY <1>3, <1>4, FS_Injection DEF c
<1>6. \A x \in S : \E i \in 1 .. c : s[i] = x
  BY <1>5 DEF Surjection
<1> QED
  BY <1>1, <1>2, <1>6

-----------------------------------------------------------------------------
-----------------------------------------------------------------------------
(* Paths. *)

(* The empty path. *)
LEMMA PathRefl == \A E, N : \A n \in N : PathIn(E, N, n, n)
BY DEF PathIn

(* A path and an edge at its end. *)
LEMMA PathSnoc ==
  ASSUME NEW E, NEW N, NEW n, NEW e \in E, PathIn(E, N, n, source[e]), target[e] \in N
  PROVE  PathIn(E, N, n, target[e])
<1> SUFFICES ASSUME NEW S \in SUBSET N, n \in S, ClosedUnder(E, N, S)
             PROVE  target[e] \in S
  BY DEF PathIn
<1>1. source[e] \in S
  BY DEF PathIn
<1> QED
  BY <1>1 DEF ClosedUnder

(* An edge and a path behind it. *)
LEMMA PathCons ==
  ASSUME NEW E, NEW N, NEW m, NEW e \in E, PathIn(E, N, target[e], m), source[e] \in N
  PROVE  PathIn(E, N, source[e], m)
<1> SUFFICES ASSUME NEW S \in SUBSET N, source[e] \in S, ClosedUnder(E, N, S)
             PROVE  m \in S
  BY DEF PathIn
<1>1. target[e] \in S
  BY DEF PathIn, ClosedUnder
<1> QED
  BY <1>1 DEF PathIn

(* More edges allow more paths. *)
LEMMA PathMono ==
  ASSUME NEW E, NEW F, E \subseteq F, NEW N, NEW n, NEW m, PathIn(E, N, n, m)
  PROVE  PathIn(F, N, n, m)
<1> SUFFICES ASSUME NEW S \in SUBSET N, n \in S, ClosedUnder(F, N, S)
             PROVE  m \in S
  BY DEF PathIn
<1>1. ClosedUnder(E, N, S)
  BY DEF ClosedUnder
<1> QED
  BY <1>1 DEF PathIn

(* A path that is not empty has a last edge. *)
LEMMA PathLast ==
  ASSUME NEW E, NEW N, NEW n, NEW m, PathIn(E, N, n, m)
  PROVE  n = m \/ \E e \in E : target[e] = m /\ PathIn(E, N, n, source[e])
<1> DEFINE S == {k \in N : n = k \/ \E e \in E : target[e] = k /\ PathIn(E, N, n, source[e])}
<1>1. n \in S /\ S \in SUBSET N
  BY DEF PathIn
<1>2. \A k \in S : PathIn(E, N, n, k)
  BY PathSnoc, PathRefl DEF PathIn
<1>3. ClosedUnder(E, N, S)
  <2> SUFFICES ASSUME NEW e \in E, source[e] \in S, target[e] \in N PROVE target[e] \in S
    BY DEF ClosedUnder
  <2>1. PathIn(E, N, n, source[e])
    <3> HIDE DEF S
    <3> QED
      BY <1>2
  <2> QED
    BY <2>1
<1> HIDE DEF S
<1>4. m \in S
  BY <1>1, <1>3 DEF PathIn
<1> QED
  BY <1>4 DEF S

(* No path leads up against a ranking. *)
LEMMA PathDescends ==
  ASSUME NEW E, NEW N, NEW f \in [N -> Nat], NEW n, NEW m, PathIn(E, N, n, m),
         \A e \in E : source[e] \in N /\ target[e] \in N /\ f[target[e]] < f[source[e]]
  PROVE  f[m] <= f[n]
<1> DEFINE S == {k \in N : f[k] <= f[n]}
<1>1. n \in N /\ n \in S /\ S \in SUBSET N
  BY DEF PathIn
<1>2. ClosedUnder(E, N, S)
  BY <1>1 DEF ClosedUnder
<1> HIDE DEF S
<1>3. m \in S
  BY <1>1, <1>2 DEF PathIn
<1> QED
  BY <1>3 DEF S

-----------------------------------------------------------------------------
(* The loop breaker. *)

GraphTyped ==
  /\ source \in [Edge -> Node] /\ target \in [Edge -> Node] /\ seed \in [Clock -> Node]
  /\ captureEdges \subseteq Node \X Node
  /\ flopOutput \subseteq Node

DfsTyped ==
  /\ disabled \subseteq Edge
  /\ color \in [Node -> {"white", "gray", "black"}]
  /\ stack \in Seq(Node)
  /\ todo \in [Node -> SUBSET Edge]

(* The enabled edges the search is past. *)
Followed == {e \in Edge \ disabled : color[source[e]] # "white" /\ e \notin todo[source[e]]}

(* The stack holds the gray nodes, once. *)
StackGray ==
  /\ \A i, j \in DOMAIN stack : stack[i] = stack[j] => i = j
  /\ \A n \in Node : color[n] = "gray" <=> \E i \in DOMAIN stack : stack[i] = n

TodoTyped ==
  \A n \in Node : todo[n] \subseteq Out(n) /\ (color[n] = "black" => todo[n] = {})

(* An edge the search is past ends at a finished node or further up the    *)
(* stack.                                                                  *)
FollowedAhead ==
  \A e \in Followed :
    \/ color[target[e]] = "black"
    \/ \E i, j \in DOMAIN stack : i < j /\ stack[i] = source[e] /\ stack[j] = target[e]

(* The finished nodes can be ranked so that their edges descend: the order *)
(* in which they were finished.                                            *)
Ranking(f, k) ==
  /\ f \in [Node -> Nat]
  /\ \A n \in Node : f[n] < k
  /\ \A e \in Edge \ disabled : color[source[e]] = "black" =>
       color[target[e]] = "black" /\ f[target[e]] < f[source[e]]

Ranked == \E f, k : k \in Nat /\ Ranking(f, k)

(* The path that the search has taken. *)
StackPaths ==
  \A i, j \in DOMAIN stack : i <= j => PathIn(Followed, Node, stack[i], stack[j])

(* An edge was cut because such a path led from its end to its start. *)
CutPaths == \A e \in disabled \ cutBefore : PathIn(Followed, Node, target[e], source[e])

DfsInv ==
  /\ GraphTyped /\ DfsTyped /\ StackGray /\ TodoTyped
  /\ FollowedAhead /\ Ranked /\ StackPaths /\ CutPaths

(* The parts about paths in the next state, from facts about the old graph. *)
LEMMA PathsNext ==
  ASSUME source' = source, target' = target, cutBefore' = cutBefore,
         \A i, j \in DOMAIN stack' : i <= j => PathIn(Followed', Node, stack'[i], stack'[j]),
         \A e \in disabled' \ cutBefore : PathIn(Followed', Node, target[e], source[e])
  PROVE  StackPaths' /\ CutPaths'
<1>1. StackPaths'
  BY DEF StackPaths, PathIn, ClosedUnder
<1>2. CutPaths'
  BY DEF CutPaths, PathIn, ClosedUnder
<1> QED
  BY <1>1, <1>2

(* A step that does not touch the search keeps its invariant. *)
LEMMA DfsUnchanged ==
  ASSUME DfsInv, UNCHANGED <<source, target, seed, captureEdges, flopOutput, cutBefore, disabled, color, stack, todo>>
  PROVE  DfsInv'
<1>1. Followed' = Followed
  BY DEF Followed
<1>2. StackPaths' /\ CutPaths'
  BY <1>1, PathsNext DEF DfsInv, StackPaths, CutPaths
<1>3. GraphTyped' /\ DfsTyped' /\ StackGray' /\ TodoTyped'
  BY DEF DfsInv, GraphTyped, DfsTyped, StackGray, TodoTyped, Out
<1>4. FollowedAhead'
  BY <1>1 DEF DfsInv, FollowedAhead
<1>5. Ranked'
  BY DEF DfsInv, Ranked, Ranking
<1> QED
  BY <1>2, <1>3, <1>4, <1>5 DEF DfsInv

(* Visit(): a new start node. *)
LEMMA VisitInv ==
  ASSUME DfsInv, NEW n \in Node, Visit(n)
  PROVE  DfsInv'
<1> USE DEF GraphTyped, DfsTyped
<1>1. /\ UNCHANGED <<source, target, seed, captureEdges, flopOutput, cutBefore, disabled>>
      /\ stack = <<>> /\ color[n] = "white"
      /\ color' = [color EXCEPT ![n] = "gray"] /\ stack' = <<n>> /\ todo' = [todo EXCEPT ![n] = Out(n)]
  BY DEF Visit, White, graph
<1>2. GraphTyped /\ DfsTyped
  BY DEF DfsInv
<1>3. GraphTyped' /\ DfsTyped'
  BY <1>1, <1>2 DEF Out
<1>4. DOMAIN stack' = {1} /\ stack'[1] = n /\ DOMAIN stack = {}
  BY <1>1
<1>5. \A m \in Node : color'[m] = IF m = n THEN "gray" ELSE color[m]
  BY <1>1, <1>2
<1>6. \A m \in Node : todo'[m] = IF m = n THEN Out(n) ELSE todo[m]
  BY <1>1, <1>2
<1>7. Followed' = Followed
  BY <1>1, <1>2, <1>5, <1>6 DEF Followed, Out
<1>8. StackGray'
  BY <1>4, <1>5 DEF DfsInv, StackGray
<1>9. TodoTyped'
  BY <1>1, <1>5, <1>6 DEF DfsInv, TodoTyped, Out
<1>10. FollowedAhead'
  BY <1>1, <1>2, <1>4, <1>5, <1>7 DEF DfsInv, FollowedAhead, Followed
<1>11. Ranked'
  <2>1. PICK f, k : k \in Nat /\ Ranking(f, k)
    BY DEF DfsInv, Ranked
  <2>2. Ranking(f, k)'
    BY <1>1, <1>2, <1>5, <2>1 DEF Ranking
  <2> QED
    BY <2>1, <2>2 DEF Ranked
<1>12. \A i, j \in DOMAIN stack' : i <= j => PathIn(Followed', Node, stack'[i], stack'[j])
  BY <1>4, PathRefl
<1>13. \A e \in disabled' \ cutBefore : PathIn(Followed', Node, target[e], source[e])
  BY <1>1, <1>7 DEF DfsInv, CutPaths
<1>14. StackPaths' /\ CutPaths'
  BY <1>1, <1>12, <1>13, PathsNext
<1> QED
  BY <1>3, <1>8, <1>9, <1>10, <1>11, <1>14 DEF DfsInv

(* FollowEdge() to a white node: it is pushed. *)
LEMMA DescendInv ==
  ASSUME DfsInv, UNCHANGED <<source, target, seed, captureEdges, flopOutput, cutBefore, disabled>>,
         stack # <<>>, NEW e \in Edge, e \in todo[Last(stack)], e \notin disabled,
         color[target[e]] = "white",
         color' = [color EXCEPT ![target[e]] = "gray"],
         stack' = Append(stack, target[e]),
         todo' = [todo EXCEPT ![Last(stack)] = Advanced(Last(stack), e), ![target[e]] = Out(target[e])]
  PROVE  DfsInv'
<1> DEFINE n == Last(stack)
           m == target[e]
           k == Len(stack)
<1>0. source' = source /\ target' = target /\ cutBefore' = cutBefore /\ disabled' = disabled
  OBVIOUS
<1>1. GraphTyped /\ DfsTyped
  BY DEF DfsInv
<1>2. k \in Nat /\ k >= 1 /\ DOMAIN stack = 1 .. k /\ n = stack[k] /\ n \in Node /\ m \in Node
  BY <1>1 DEF DfsTyped, GraphTyped, Last
<1>3. color[n] = "gray" /\ source[e] = n /\ m # n
  BY <1>2 DEF DfsInv, StackGray, TodoTyped, Out
<1>4. \A a \in Node : color'[a] = IF a = m THEN "gray" ELSE color[a]
  BY <1>1, <1>2 DEF DfsTyped
<1>5. /\ todo'[m] = Out(m) /\ todo'[n] = todo[n] \ {e}
      /\ \A a \in Node : a # m /\ a # n => todo'[a] = todo[a]
  BY <1>1, <1>2, <1>3 DEF DfsTyped, Advanced
<1>6. /\ stack' \in Seq(Node) /\ DOMAIN stack' = 1 .. k + 1
      /\ \A i \in 1 .. k + 1 : stack'[i] = IF i = k + 1 THEN m ELSE stack[i]
  <2>1. stack \in Seq(Node)
    BY <1>1 DEF DfsTyped
  <2>2. stack' \in Seq(Node) /\ Len(stack') = k + 1
    BY <1>2, <2>1
  <2> QED
    BY <1>2, <2>1, <2>2
<1>7. GraphTyped' /\ DfsTyped'
  <2>1. todo' \in [Node -> SUBSET Edge]
    BY <1>1, <1>2 DEF DfsTyped, Out, Advanced
  <2>2. color' \in [Node -> {"white", "gray", "black"}]
    BY <1>1, <1>2 DEF DfsTyped
  <2> QED
    BY <1>1, <1>6, <2>1, <2>2 DEF GraphTyped, DfsTyped
<1>8. \A i \in 1 .. k : i \in 1 .. k + 1 /\ i # k + 1 /\ stack[i] # m /\ stack[i] \in Node
  BY <1>1, <1>2 DEF DfsInv, StackGray, DfsTyped
<1>9. \A i \in 1 .. k + 1 : i = k + 1 \/ i \in 1 .. k
  BY <1>2
<1> HIDE DEF n, m, k
<1>10. Followed' = Followed \cup {e}
  <2>1. ASSUME NEW x \in Followed' PROVE x \in Followed \cup {e}
    <3>1. /\ x \in Edge \ disabled /\ source[x] \in Node
          /\ color'[source[x]] # "white" /\ x \notin todo'[source[x]]
      BY <1>0, <1>1, <2>1 DEF Followed, GraphTyped
    <3>2. source[x] # m
      BY <1>5, <3>1 DEF Out
    <3>3. color[source[x]] # "white" /\ (x \notin todo[source[x]] \/ x = e)
      BY <1>4, <1>5, <3>1, <3>2
    <3> QED
      BY <3>1, <3>3 DEF Followed
  <2>2. ASSUME NEW x \in Followed \cup {e} PROVE x \in Followed'
    <3>1. /\ x \in Edge \ disabled /\ source[x] \in Node /\ color[source[x]] # "white"
          /\ x \notin todo[source[x]] \/ x = e
      BY <1>1, <1>3, <2>2 DEF Followed, GraphTyped
    <3>2. source[x] # m
      BY <3>1 DEF m
    <3>3. color'[source[x]] # "white" /\ x \notin todo'[source[x]]
      BY <1>3, <1>4, <1>5, <3>1, <3>2
    <3> QED
      BY <1>0, <3>1, <3>3 DEF Followed
  <2> QED
    BY <2>1, <2>2
<1>11. StackGray'
  <2>1. \A i, j \in DOMAIN stack' : stack'[i] = stack'[j] => i = j
    BY <1>2, <1>6, <1>8, <1>9 DEF DfsInv, StackGray
  <2>2. \A a \in Node : color'[a] = "gray" <=> \E i \in DOMAIN stack' : stack'[i] = a
    <3>1. k + 1 \in 1 .. k + 1
      BY <1>2
    <3> QED
      BY <1>2, <1>4, <1>6, <1>8, <1>9, <3>1 DEF DfsInv, StackGray
  <2> QED
    BY <2>1, <2>2 DEF StackGray
<1>12. TodoTyped'
  <2>1. ASSUME NEW a \in Node
        PROVE  todo'[a] \subseteq Out(a) /\ (color'[a] = "black" => todo'[a] = {})
    <3>1. todo[a] \subseteq Out(a) /\ (color[a] = "black" => todo[a] = {})
      BY DEF DfsInv, TodoTyped
    <3>2. CASE a = m
      BY <1>4, <1>5, <3>2
    <3>3. CASE a = n
      BY <1>3, <1>4, <1>5, <3>1, <3>3
    <3>4. CASE a # m /\ a # n
      BY <1>4, <1>5, <3>1, <3>4
    <3> QED
      BY <3>2, <3>3, <3>4
  <2> QED
    BY <1>0, <2>1 DEF TodoTyped, Out
<1>13. ASSUME NEW x \in Followed'
       PROVE  \/ color'[target[x]] = "black"
              \/ \E i, j \in DOMAIN stack' : i < j /\ stack'[i] = source[x] /\ stack'[j] = target[x]
  <2>1. CASE x = e
    <3>1. k \in 1 .. k + 1 /\ k + 1 \in 1 .. k + 1 /\ k < k + 1
      BY <1>2
    <3>2. stack'[k] = source[x] /\ stack'[k + 1] = target[x]
      BY <1>2, <1>3, <1>6, <2>1, <3>1 DEF m
    <3> QED
      BY <1>6, <3>1, <3>2
  <2>2. CASE x \in Followed
    <3>0. target[x] \in Node
      BY <1>1, <2>2 DEF GraphTyped, Followed
    <3>1. CASE color[target[x]] = "black"
      <4>1. target[x] # m
        BY <3>1 DEF m
      <4> QED
        BY <1>4, <3>0, <3>1, <4>1
    <3>2. CASE \E i, j \in DOMAIN stack : i < j /\ stack[i] = source[x] /\ stack[j] = target[x]
      BY <1>2, <1>6, <1>8, <3>2
    <3> QED
      BY <2>2, <3>1, <3>2 DEF DfsInv, FollowedAhead
  <2> QED
    BY <1>10, <2>1, <2>2
<1>14. FollowedAhead'
  BY <1>13 DEF FollowedAhead
<1>15. Ranked'
  <2>1. PICK f, c : c \in Nat /\ Ranking(f, c)
    BY DEF DfsInv, Ranked
  <2>2. \A x \in Edge : color[target[x]] = "black" => target[x] # m
    BY DEF m
  <2>3. Ranking(f, c)'
    BY <1>1, <1>4, <2>1, <2>2 DEF Ranking, GraphTyped
  <2> QED
    BY <2>1, <2>3 DEF Ranked
<1>16. ASSUME NEW i \in DOMAIN stack', NEW j \in DOMAIN stack', i <= j
       PROVE  PathIn(Followed', Node, stack'[i], stack'[j])
  <2>1. CASE j \in 1 .. k
    <3>1. i \in 1 .. k
      BY <1>2, <1>6, <1>16, <2>1
    <3>2. PathIn(Followed, Node, stack[i], stack[j])
      BY <1>2, <1>16, <2>1, <3>1 DEF DfsInv, StackPaths
    <3> QED
      BY <1>6, <1>8, <1>10, <2>1, <3>1, <3>2, PathMono
  <2>2. CASE j = k + 1 /\ i \in 1 .. k
    <3>1. PathIn(Followed, Node, stack[i], stack[k])
      BY <1>2, <2>2 DEF DfsInv, StackPaths
    <3>2. PathIn(Followed', Node, stack[i], source[e])
      BY <1>2, <1>3, <1>10, <3>1, PathMono
    <3>3. e \in Followed'
      BY <1>10
    <3>4. PathIn(Followed', Node, stack[i], target[e])
      <4> HIDE DEF Followed
      <4> QED
        BY <1>2, <3>2, <3>3, PathSnoc DEF m
    <3> QED
      BY <1>6, <1>8, <2>2, <3>4 DEF m
  <2>3. CASE i = k + 1 /\ j = k + 1
    BY <1>2, <1>6, <2>3, PathRefl
  <2> QED
    BY <1>2, <1>6, <1>9, <1>16, <2>1, <2>2, <2>3
<1>17. \A x \in disabled' \ cutBefore : PathIn(Followed', Node, target[x], source[x])
  <2>1. \A x \in disabled \ cutBefore : PathIn(Followed, Node, target[x], source[x])
    BY DEF DfsInv, CutPaths
  <2> HIDE DEF Followed
  <2> QED
    BY <1>10, <2>1, PathMono
<1>18. StackPaths' /\ CutPaths'
  BY <1>16, <1>17, PathsNext
<1> QED
  BY <1>7, <1>11, <1>12, <1>14, <1>15, <1>18 DEF DfsInv

(* FollowEdge() along an edge that is disabled, ends at a finished node or *)
(* closes a cycle.                                                         *)
LEMMA PassInv ==
  ASSUME DfsInv,
         UNCHANGED <<source, target, seed, captureEdges, flopOutput, cutBefore, color, stack>>,
         stack # <<>>, NEW e \in Edge, e \in todo[Last(stack)],
         e \in disabled \/ color[target[e]] # "white",
         disabled' = IF e \notin disabled /\ Closes(e) THEN disabled \cup {e} ELSE disabled,
         todo' = [todo EXCEPT ![Last(stack)] = Advanced(Last(stack), e)]
  PROVE  DfsInv'
<1> DEFINE n == Last(stack)
           m == target[e]
           k == Len(stack)
<1>0. /\ source' = source /\ target' = target /\ cutBefore' = cutBefore
      /\ color' = color /\ stack' = stack
  OBVIOUS
<1>1. GraphTyped /\ DfsTyped
  BY DEF DfsInv
<1>2. k \in Nat /\ k >= 1 /\ DOMAIN stack = 1 .. k /\ n = stack[k] /\ n \in Node /\ m \in Node
  BY <1>1 DEF DfsTyped, GraphTyped, Last
<1>3. color[n] = "gray" /\ source[e] = n
  BY <1>2 DEF DfsInv, StackGray, TodoTyped, Out
<1>4. todo'[n] = todo[n] \ {e} /\ \A a \in Node : a # n => todo'[a] = todo[a]
  BY <1>1, <1>2 DEF DfsTyped, Advanced
<1>5. GraphTyped' /\ DfsTyped'
  <2>1. todo' \in [Node -> SUBSET Edge]
    BY <1>1, <1>2 DEF DfsTyped, Advanced
  <2>2. disabled' \subseteq Edge
    BY <1>1 DEF DfsTyped
  <2> QED
    BY <1>0, <1>1, <2>1, <2>2 DEF GraphTyped, DfsTyped
<1> HIDE DEF n, m, k
<1>6. Followed' = IF e \in disabled' THEN Followed ELSE Followed \cup {e}
  <2>1. \A x \in Edge : source[x] \in Node
    BY <1>1 DEF GraphTyped
  <2>2. \A x \in Edge : x # e => (x \in disabled' <=> x \in disabled)
    OBVIOUS
  <2>3. \A x \in Edge : x # e => (x \in todo'[source[x]] <=> x \in todo[source[x]])
    BY <1>4, <2>1
  <2>4. e \notin Followed /\ e \notin todo'[source[e]]
    BY <1>3, <1>4 DEF Followed, n
  <2>5. \A x \in Edge : x # e => (x \in Followed' <=> x \in Followed)
    BY <1>0, <2>2, <2>3 DEF Followed
  <2>6. e \in Followed' <=> e \notin disabled'
    BY <1>0, <1>3, <2>4 DEF Followed
  <2>7. Followed \subseteq Edge /\ Followed' \subseteq Edge
    BY DEF Followed
  <2> HIDE DEF Followed
  <2>8. CASE e \in disabled'
    <3>1. \A x \in Edge : x \in Followed' <=> x \in Followed
      BY <2>4, <2>5, <2>6, <2>8
    <3> QED
      BY <2>7, <2>8, <3>1
  <2>9. CASE e \notin disabled'
    <3>1. \A x \in Edge : x \in Followed' <=> x \in Followed \cup {e}
      BY <2>5, <2>6, <2>9
    <3> QED
      BY <2>7, <2>9, <3>1
  <2> QED
    BY <2>8, <2>9
<1>7. StackGray'
  BY <1>0 DEF DfsInv, StackGray
<1>8. TodoTyped'
  <2>1. ASSUME NEW a \in Node
        PROVE  todo'[a] \subseteq Out(a) /\ (color'[a] = "black" => todo'[a] = {})
    BY <1>0, <1>3, <1>4 DEF DfsInv, TodoTyped
  <2> QED
    BY <1>0, <2>1 DEF TodoTyped, Out
<1>9. ASSUME NEW x \in Followed'
      PROVE  \/ color'[target[x]] = "black"
             \/ \E i, j \in DOMAIN stack' : i < j /\ stack'[i] = source[x] /\ stack'[j] = target[x]
  <2>1. CASE x \in Followed
    BY <1>0, <2>1 DEF DfsInv, FollowedAhead
  <2>2. CASE x = e /\ e \notin disabled'
    <3>1. color[m] # "white" /\ color[m] # "gray"
      BY <2>2 DEF Closes, m
    <3>2. color[m] = "black"
      BY <1>1, <1>2, <3>1 DEF DfsTyped
    <3> QED
      BY <1>0, <2>2, <3>2 DEF m
  <2> QED
    BY <1>6, <2>1, <2>2
<1>10. FollowedAhead'
  BY <1>0, <1>9 DEF FollowedAhead
<1>11. Ranked'
  <2>1. PICK f, c : c \in Nat /\ Ranking(f, c)
    BY DEF DfsInv, Ranked
  <2>2. disabled \subseteq disabled'
    OBVIOUS
  <2>3. Ranking(f, c)'
    BY <1>0, <2>1, <2>2 DEF Ranking
  <2> QED
    BY <2>1, <2>3 DEF Ranked
<1>12. Followed \subseteq Followed'
  BY <1>6
<1>13. \A i, j \in DOMAIN stack' : i <= j => PathIn(Followed', Node, stack'[i], stack'[j])
  <2>1. \A i, j \in DOMAIN stack : i <= j => PathIn(Followed, Node, stack[i], stack[j])
    BY DEF DfsInv, StackPaths
  <2> HIDE DEF Followed
  <2> QED
    BY <1>0, <1>12, <2>1, PathMono
<1>14. ASSUME NEW x \in disabled' \ cutBefore
       PROVE  PathIn(Followed', Node, target[x], source[x])
  <2>1. CASE x \in disabled
    <3>1. PathIn(Followed, Node, target[x], source[x])
      BY <1>14, <2>1 DEF DfsInv, CutPaths
    <3> HIDE DEF Followed
    <3> QED
      BY <1>12, <3>1, PathMono
  <2>2. CASE x = e /\ Closes(e)
    <3>1. PICK i \in DOMAIN stack : stack[i] = target[e]
      BY <1>1, <2>2 DEF DfsInv, StackGray, Closes, GraphTyped
    <3>2. k \in DOMAIN stack /\ i <= k /\ stack[k] = source[e]
      BY <1>2, <1>3, <3>1
    <3> QED
      BY <1>0, <1>13, <2>2, <3>1, <3>2
  <2> QED
    BY <2>1, <2>2
<1>15. StackPaths' /\ CutPaths'
  BY <1>0, <1>13, <1>14, PathsNext
<1> QED
  BY <1>5, <1>7, <1>8, <1>10, <1>11, <1>15 DEF DfsInv

(* FinishNode: the top of the stack has no edges left. *)
LEMMA FinishInv ==
  ASSUME DfsInv, FinishNode
  PROVE  DfsInv'
<1> DEFINE n == Last(stack)
           k == Len(stack)
<1>0. /\ source' = source /\ target' = target /\ cutBefore' = cutBefore
      /\ UNCHANGED <<seed, captureEdges, flopOutput>>
      /\ disabled' = disabled /\ todo' = todo /\ todo[n] = {}
      /\ stack # <<>> /\ stack' = Front(stack) /\ color' = [color EXCEPT ![n] = "black"]
  BY DEF FinishNode, graph
<1>1. GraphTyped /\ DfsTyped
  BY DEF DfsInv
<1>2. k \in Nat /\ k >= 1 /\ DOMAIN stack = 1 .. k /\ n = stack[k] /\ n \in Node
  BY <1>0, <1>1 DEF DfsTyped, Last
<1>3. color[n] = "gray"
  BY <1>2 DEF DfsInv, StackGray
<1>4. \A a \in Node : color'[a] = IF a = n THEN "black" ELSE color[a]
  BY <1>0, <1>1, <1>2 DEF DfsTyped
<1>5. /\ stack' \in Seq(Node) /\ DOMAIN stack' = 1 .. k - 1
      /\ \A i \in 1 .. k - 1 : stack'[i] = stack[i]
  BY <1>0, <1>1, <1>2 DEF DfsTyped, Front
<1>6. GraphTyped' /\ DfsTyped'
  <2>1. color' \in [Node -> {"white", "gray", "black"}]
    BY <1>0, <1>1, <1>2 DEF DfsTyped
  <2> QED
    BY <1>0, <1>1, <1>5, <2>1 DEF GraphTyped, DfsTyped
<1> HIDE DEF n, k
<1>71. \A i \in 1 .. k - 1 : i \in 1 .. k /\ i < k /\ k \in 1 .. k
  BY <1>2
<1>7. /\ \A i \in 1 .. k - 1 : i \in 1 .. k /\ stack[i] # n /\ i < k
      /\ \A i \in 1 .. k : i = k \/ i \in 1 .. k - 1
  BY <1>2, <1>71 DEF DfsInv, StackGray
<1>8. Followed' = Followed
  <2>1. \A x \in Edge : color'[source[x]] # "white" <=> color[source[x]] # "white"
    BY <1>1, <1>3, <1>4 DEF GraphTyped
  <2> QED
    BY <1>0, <2>1 DEF Followed
<1>9. StackGray'
  <2>1. \A i, j \in DOMAIN stack' : stack'[i] = stack'[j] => i = j
    BY <1>2, <1>5, <1>7 DEF DfsInv, StackGray
  <2>2. \A a \in Node : color'[a] = "gray" <=> \E i \in DOMAIN stack' : stack'[i] = a
    BY <1>2, <1>4, <1>5, <1>7 DEF DfsInv, StackGray
  <2> QED
    BY <2>1, <2>2 DEF StackGray
<1>10. TodoTyped'
  <2>1. ASSUME NEW a \in Node
        PROVE  todo'[a] \subseteq Out(a) /\ (color'[a] = "black" => todo'[a] = {})
    BY <1>0, <1>4 DEF DfsInv, TodoTyped, n
  <2> QED
    BY <1>0, <2>1 DEF TodoTyped, Out
<1>11. ASSUME NEW x \in Followed
       PROVE  \/ color'[target[x]] = "black"
              \/ \E i, j \in DOMAIN stack' : i < j /\ stack'[i] = source[x] /\ stack'[j] = target[x]
  <2>0. target[x] \in Node
    BY <1>1 DEF Followed, GraphTyped
  <2>1. CASE color[target[x]] = "black"
    BY <1>4, <2>0, <2>1
  <2>2. CASE \E i, j \in DOMAIN stack : i < j /\ stack[i] = source[x] /\ stack[j] = target[x]
    <3>1. PICK i, j \in DOMAIN stack : i < j /\ stack[i] = source[x] /\ stack[j] = target[x]
      BY <2>2
    <3>2. CASE j = k
      BY <1>2, <1>4, <2>0, <3>1, <3>2
    <3>3. CASE j # k
      <4>1. i \in 1 .. k - 1 /\ j \in 1 .. k - 1
        BY <1>2, <3>1, <3>3
      <4> QED
        BY <1>5, <3>1, <4>1
    <3> QED
      BY <3>2, <3>3
  <2> QED
    BY <2>1, <2>2 DEF DfsInv, FollowedAhead
<1>12. FollowedAhead'
  BY <1>0, <1>8, <1>11 DEF FollowedAhead
<1>13. Ranked'
  <2>1. PICK f, c : c \in Nat /\ Ranking(f, c)
    BY DEF DfsInv, Ranked
  <2>2. PICK g :
          /\ g \in [Node -> Nat]
          /\ \A a \in Node : g[a] = IF a = n THEN c ELSE f[a]
          /\ \A a \in Node : g[a] < c + 1
    <3> DEFINE h == [f EXCEPT ![n] = c]
    <3>1. /\ h \in [Node -> Nat]
          /\ \A a \in Node : h[a] = IF a = n THEN c ELSE f[a]
          /\ \A a \in Node : h[a] < c + 1
      BY <1>2, <2>1 DEF Ranking
    <3> QED
      BY <3>1
  <2>3. ASSUME NEW x \in Edge \ disabled, color'[source[x]] = "black"
        PROVE  color'[target[x]] = "black" /\ g[target[x]] < g[source[x]]
    <3>0. source[x] \in Node /\ target[x] \in Node
      BY <1>1 DEF GraphTyped
    <3>1. CASE source[x] = n
      <4>1. x \in Followed
        BY <1>0, <1>3, <3>1 DEF Followed, n
      <4>2. ~ \E i, j \in DOMAIN stack : i < j /\ stack[i] = source[x] /\ stack[j] = target[x]
        BY <1>2, <1>7, <3>1
      <4>3. color[target[x]] = "black"
        BY <4>1, <4>2 DEF DfsInv, FollowedAhead
      <4>4. target[x] # n
        BY <1>3, <4>3
      <4> QED
        BY <1>2, <1>4, <2>1, <2>2, <3>0, <3>1, <4>3, <4>4 DEF Ranking
    <3>2. CASE source[x] # n
      <4>1. color[source[x]] = "black"
        BY <1>4, <2>3, <3>0, <3>2
      <4>2. color[target[x]] = "black" /\ f[target[x]] < f[source[x]]
        BY <2>1, <4>1 DEF Ranking
      <4>3. target[x] # n
        BY <1>3, <4>2
      <4> QED
        BY <1>4, <2>2, <3>0, <3>2, <4>2, <4>3
    <3> QED
      BY <3>1, <3>2
  <2>4. Ranking(g, c + 1)'
    BY <1>0, <2>2, <2>3 DEF Ranking
  <2>5. c + 1 \in Nat
    BY <2>1
  <2> QED
    BY <2>4, <2>5 DEF Ranked
<1>14. \A i, j \in DOMAIN stack' : i <= j => PathIn(Followed', Node, stack'[i], stack'[j])
  BY <1>2, <1>5, <1>7, <1>8 DEF DfsInv, StackPaths
<1>15. \A x \in disabled' \ cutBefore : PathIn(Followed', Node, target[x], source[x])
  BY <1>0, <1>8 DEF DfsInv, CutPaths
<1>16. StackPaths' /\ CutPaths'
  BY <1>0, <1>14, <1>15, PathsNext
<1> QED
  BY <1>6, <1>9, <1>10, <1>12, <1>13, <1>16 DEF DfsInv

(* FollowEdge: the two cases. *)
LEMMA FollowInv ==
  ASSUME DfsInv, NEW e \in Edge, FollowEdge(e)
  PROVE  DfsInv'
<1>1. UNCHANGED <<source, target, seed, captureEdges, flopOutput, cutBefore>> /\ stack # <<>>
      /\ e \in todo[Last(stack)]
  BY DEF FollowEdge, graph
<1>2. CASE e \notin disabled /\ color[target[e]] = "white"
  BY <1>1, <1>2, DescendInv DEF FollowEdge
<1>3. CASE e \in disabled \/ color[target[e]] # "white"
  BY <1>1, <1>3, PassInv DEF FollowEdge
<1> QED
  BY <1>2, <1>3

-----------------------------------------------------------------------------
(* The forward pass. *)

(* Sets of edges are finite. *)
LEMMA EdgeSets ==
  ASSUME NEW S \in SUBSET Edge
  PROVE  IsFiniteSet(S) /\ Cardinality(S) \in Nat /\ (Cardinality(S) = 0 <=> S = {})
<1>1. IsFiniteSet(S)
  BY GraphAssumption, FS_Subset
<1> QED
  BY <1>1, FS_CardinalityType, FS_EmptySet

(* The nodes that were processed, and the enabled edges into m from others. *)
Passed == {queue[i] : i \in 1 .. head - 1}

Pending(m) == {e \in Edge \ disabled : target[e] = m /\ source[e] \notin Passed}

(* The queue holds nodes once, each after the sources of its edges. *)
QueueOK ==
  /\ queue \in Seq(Node)
  /\ \A i, j \in DOMAIN queue : queue[i] = queue[j] => i = j
  /\ \A e \in Edge \ disabled, j \in DOMAIN queue : queue[j] = target[e] =>
       \E i \in DOMAIN queue : i < j /\ queue[i] = source[e]

(* In-degrees count the pending edges; nodes without any are queued. *)
DegreesOK ==
  /\ head \in 1 .. Len(queue) + 1
  /\ inDegree \in [Node -> Nat]
  /\ \A m \in Node : inDegree[m] = Cardinality(Pending(m))
  /\ \A m \in Node : inDegree[m] = 0 <=> \E i \in DOMAIN queue : queue[i] = m

(* Resolved clocks reach the node, and have passed the processed nodes. *)
ResolvedOK ==
  /\ resolved \in [Node -> SUBSET Clock]
  /\ \A m \in Node : SeedsAt(m) \subseteq resolved[m]
  /\ \A m \in Node : \A c \in resolved[m] : Leads(Node, seed[c], m)
  /\ \A e \in Edge \ disabled : source[e] \in Passed => resolved[source[e]] \subseteq resolved[target[e]]

AllBlack == \A n \in Node : color[n] = "black"

MasksEmpty == fromClocks = [e \in Edge |-> {}] /\ toClocks = [e \in Edge |-> {}]

ForwardInv == AllBlack /\ MasksEmpty /\ QueueOK /\ DegreesOK /\ ResolvedOK

(* propagateForward(): the roots are queued, no edge is pending at them. *)
LEMMA StartForwardInv ==
  ASSUME DfsInv, MasksEmpty, StartForward
  PROVE  ForwardInv'
<1>0. /\ source' = source /\ target' = target /\ seed' = seed /\ disabled' = disabled /\ color' = color
      /\ fromClocks' = fromClocks /\ toClocks' = toClocks
      /\ stack = <<>> /\ White = {} /\ head' = 1
      /\ resolved' = [n \in Node |-> SeedsAt(n)]
      /\ inDegree' = [n \in Node |-> EnabledInDegree(n)]
      /\ queue' \in SetToSeqs({n \in Node : EnabledInDegree(n) = 0})
  BY DEF StartForward, graph, dfs, masks, ByID
<1>1. GraphTyped /\ DfsTyped
  BY DEF DfsInv
<1>2. AllBlack'
  <2>1. \A n \in Node : color[n] # "gray"
    BY <1>0 DEF DfsInv, StackGray
  <2> QED
    BY <1>0, <1>1, <2>1 DEF AllBlack, White, DfsTyped
<1>3. MasksEmpty'
  BY <1>0 DEF MasksEmpty
<1> DEFINE R == {n \in Node : EnabledInDegree(n) = 0}
<1>4. /\ queue' \in Seq(R)
      /\ \A i, j \in DOMAIN queue' : queue'[i] = queue'[j] => i = j
      /\ \A x \in R : \E i \in DOMAIN queue' : queue'[i] = x
  <2>1. IsFiniteSet(R)
    BY GraphAssumption, FS_Subset
  <2> HIDE DEF R
  <2>2. \A s \in SetToSeqs(R) :
          /\ s \in Seq(R)
          /\ \A i, j \in DOMAIN s : s[i] = s[j] => i = j
          /\ \A x \in R : \E i \in DOMAIN s : s[i] = x
    BY <2>1, SeqOfSet
  <2> QED
    BY <1>0, <2>2 DEF R
<1>5. \A i \in DOMAIN queue' : queue'[i] \in R
  BY <1>4
<1>6. queue' \in Seq(Node)
  <2>1. queue' \in Seq(R) /\ \A i \in DOMAIN queue' : queue'[i] \in Node
    BY <1>4, <1>5
  <2> HIDE DEF R
  <2> QED
    BY <2>1
<1>7. ASSUME NEW n \in Node
      PROVE  /\ Enabled(In(n)) \in SUBSET Edge
             /\ Enabled(In(n)) = {e \in Edge \ disabled : target[e] = n}
             /\ EnabledInDegree(n) \in Nat
             /\ EnabledInDegree(n) = 0 <=> Enabled(In(n)) = {}
  <2>1. Enabled(In(n)) \in SUBSET Edge /\ Enabled(In(n)) = {e \in Edge \ disabled : target[e] = n}
    BY DEF Enabled, In
  <2> QED
    BY <2>1, EdgeSets DEF EnabledInDegree
<1>8. QueueOK'
  <2>1. ASSUME NEW e \in Edge \ disabled, NEW j \in DOMAIN queue', queue'[j] = target[e] PROVE FALSE
    BY <1>5, <1>7, <2>1
  <2> QED
    BY <1>0, <1>4, <1>6, <2>1 DEF QueueOK
<1>9. Passed' = {}
  BY <1>0 DEF Passed
<1>10. \A n \in Node : Pending(n)' = Enabled(In(n))
  BY <1>0, <1>7, <1>9 DEF Pending
<1>11. DegreesOK'
  <2>1. head' \in 1 .. Len(queue') + 1
    BY <1>0, <1>6
  <2>2. inDegree' \in [Node -> Nat]
    BY <1>0, <1>7
  <2>3. \A m \in Node : inDegree'[m] = Cardinality(Pending(m)')
    BY <1>0, <1>10 DEF EnabledInDegree
  <2>4. \A m \in Node : inDegree'[m] = 0 <=> \E i \in DOMAIN queue' : queue'[i] = m
    BY <1>0, <1>4, <1>5
  <2> QED
    BY <2>1, <2>2, <2>3, <2>4 DEF DegreesOK
<1>12. ResolvedOK'
  <2>1. resolved' \in [Node -> SUBSET Clock]
    BY <1>0 DEF SeedsAt
  <2>2. \A m \in Node : SeedsAt(m)' \subseteq resolved'[m]
    BY <1>0 DEF SeedsAt
  <2>3. \A m \in Node : \A c \in resolved'[m] : seed[c] = m
    BY <1>0 DEF SeedsAt
  <2>4. \A m \in Node : \A c \in resolved'[m] : Leads(Node, seed[c], m)'
    BY <1>0, <2>3 DEF Leads, PathIn
  <2> QED
    BY <1>9, <2>1, <2>2, <2>4 DEF ResolvedOK
<1> QED
  BY <1>2, <1>3, <1>8, <1>11, <1>12 DEF ForwardInv

(* Leads in a step that leaves the edges alone. *)
LEMMA LeadsNext ==
  ASSUME source' = source, target' = target, disabled' = disabled
  PROVE  \A N, n, m : Leads(N, n, m)' <=> Leads(N, n, m)
BY DEF Leads, PathIn, ClosedUnder

(* propagateForward(), one node: its edges stop to be pending, and the     *)
(* nodes that have none left are queued behind it.                         *)
LEMMA ProcessNodeInv ==
  ASSUME DfsInv, ForwardInv, ProcessNode
  PROVE  ForwardInv'
<1> DEFINE n == queue[head]
           ready == {m \in Node : CountDown(n)[m] = 0 /\ inDegree[m] # 0}
           k == Len(queue)
<1>0. /\ source' = source /\ target' = target /\ seed' = seed /\ disabled' = disabled /\ color' = color
      /\ fromClocks' = fromClocks /\ toClocks' = toClocks
      /\ head <= Len(queue) /\ head' = head + 1
      /\ resolved' = [m \in Node |->
                        IF Receives(n, m) THEN resolved[m] \cup resolved[n] ELSE resolved[m]]
      /\ inDegree' = CountDown(n)
      /\ \E s \in SetToSeqs(ready) : queue' = queue \o s
  BY DEF ProcessNode, graph, dfs, masks
<1>1. GraphTyped /\ DfsTyped /\ AllBlack /\ MasksEmpty /\ QueueOK /\ DegreesOK /\ ResolvedOK
  BY DEF DfsInv, ForwardInv
<1>2. /\ k \in Nat /\ head \in 1 .. k /\ DOMAIN queue = 1 .. k /\ queue \in Seq(Node) /\ n \in Node
      /\ \A i \in 1 .. head - 1 : i \in 1 .. k /\ i # head
      /\ \A i \in 1 .. head : i = head \/ i \in 1 .. head - 1
  BY <1>0, <1>1 DEF QueueOK, DegreesOK
<1>3. n \notin Passed
  BY <1>1, <1>2 DEF Passed, QueueOK
<1>4. PICK s \in SetToSeqs(ready) : queue' = queue \o s
  BY <1>0
<1>5. /\ s \in Seq(ready)
      /\ \A i, j \in DOMAIN s : s[i] = s[j] => i = j
      /\ \A x \in ready : \E i \in DOMAIN s : s[i] = x
  <2>1. IsFiniteSet(ready)
    BY GraphAssumption, FS_Subset
  <2> HIDE DEF ready
  <2> QED
    BY <2>1, SeqOfSet
<1> DEFINE l == Len(s)
<1>6. l \in Nat /\ DOMAIN s = 1 .. l /\ \A i \in 1 .. l : s[i] \in ready /\ s[i] \in Node
  BY <1>5
<1>7. s \in Seq(Node)
  <2> HIDE DEF ready
  <2> QED
    BY <1>5, <1>6
<1> HIDE DEF ready, n
<1>8. /\ queue' \in Seq(Node) /\ Len(queue') = k + l /\ DOMAIN queue' = 1 .. k + l
      /\ \A i \in 1 .. k : queue'[i] = queue[i]
      /\ \A i \in 1 .. l : queue'[k + i] = s[i]
  BY <1>2, <1>4, <1>6, <1>7
<1> HIDE DEF k, l
<1>9. /\ \A i \in 1 .. k + l : i \in 1 .. k \/ (i - k \in 1 .. l /\ i = k + (i - k))
      /\ \A i \in 1 .. k : i \in 1 .. k + l
      /\ \A i \in 1 .. l : k + i \in 1 .. k + l /\ k + i \notin 1 .. k
  BY <1>2, <1>6
<1>20. \A i \in 1 .. k + l : i - k \in 1 .. l => queue'[i] = s[i - k]
  <2> SUFFICES ASSUME NEW i \in 1 .. k + l, i - k \in 1 .. l PROVE queue'[i] = s[i - k]
    OBVIOUS
  <2>1. queue'[k + (i - k)] = s[i - k]
    BY <1>8
  <2>2. k + (i - k) = i
    BY <1>2, <1>6
  <2> QED
    BY <2>1, <2>2
<1>10. Passed' = Passed \cup {n}
  <2>1. \A i \in 1 .. head : queue'[i] = queue[i]
    BY <1>2, <1>8
  <2>2. head' - 1 = head /\ head \in 1 .. head
    BY <1>0, <1>2
  <2>3. Passed' = {queue'[i] : i \in 1 .. head}
    BY <2>2 DEF Passed
  <2>4. \A i \in 1 .. head - 1 : i \in 1 .. head
    BY <1>2
  <2> QED
    BY <1>2, <2>1, <2>2, <2>3, <2>4 DEF Passed, n
<1>11. ASSUME NEW m \in Node
       PROVE  /\ Pending(m)' = Pending(m) \ (Enabled(Out(n)) \cap In(m))
              /\ Enabled(Out(n)) \cap In(m) \subseteq Pending(m)
              /\ Cardinality(Pending(m)') \in Nat
              /\ inDegree'[m] = Cardinality(Pending(m)')
              /\ Pending(m) = {} => Pending(m)' = {}
  <2>1. Pending(m)' = Pending(m) \ (Enabled(Out(n)) \cap In(m))
    BY <1>0, <1>10 DEF Pending, Enabled, Out, In
  <2>2. Enabled(Out(n)) \cap In(m) \subseteq Pending(m)
    BY <1>3 DEF Pending, Enabled, Out, In
  <2>3. Pending(m) \in SUBSET Edge /\ Pending(m)' \in SUBSET Edge
    BY <1>0 DEF Pending
  <2>4. inDegree'[m] = inDegree[m] - Cardinality(Enabled(Out(n)) \cap In(m))
    BY <1>0 DEF CountDown
  <2>5. inDegree[m] = Cardinality(Pending(m))
    BY <1>1 DEF DegreesOK
  <2>6. Pending(m) \cap (Enabled(Out(n)) \cap In(m)) = Enabled(Out(n)) \cap In(m)
    BY <2>2
  <2>7. IsFiniteSet(Pending(m)) /\ Cardinality(Pending(m)') \in Nat
    BY <2>3, EdgeSets
  <2> DEFINE A == Pending(m)
             B == Enabled(Out(n)) \cap In(m)
  <2> HIDE DEF A, B
  <2>8. Cardinality(A \ B) = Cardinality(A) - Cardinality(A \cap B)
    BY <2>7, FS_Difference DEF A
  <2> QED
    BY <2>1, <2>2, <2>4, <2>5, <2>6, <2>7, <2>8 DEF A, B
<1>12. ASSUME NEW m \in Node
       PROVE  inDegree'[m] = 0 <=> (inDegree[m] = 0 \/ m \in ready)
  <2>1. inDegree[m] = 0 => inDegree'[m] = 0
    <3>1. Pending(m) \in SUBSET Edge
      BY DEF Pending
    <3>2. inDegree[m] = 0 => Pending(m) = {}
      BY <1>1, <3>1, EdgeSets DEF DegreesOK
    <3> QED
      BY <1>11, <3>2, FS_EmptySet
  <2>2. m \in ready <=> (inDegree'[m] = 0 /\ inDegree[m] # 0)
    BY <1>0 DEF ready
  <2> QED
    BY <2>1, <2>2
<1>13. \A m \in Node : inDegree'[m] = 0 <=> \E i \in DOMAIN queue' : queue'[i] = m
  <2>1. \A m \in Node : inDegree[m] = 0 <=> \E i \in 1 .. k : queue[i] = m
    BY <1>1, <1>2 DEF DegreesOK
  <2>2. \A m \in Node : m \in ready <=> \E i \in 1 .. l : s[i] = m
    BY <1>5, <1>6
  <2>3. \A m \in Node : (\E i \in 1 .. k + l : queue'[i] = m) <=> (\E i \in 1 .. k : queue[i] = m) \/ (\E i \in 1 .. l : s[i] = m)
    BY <1>8, <1>9
  <2> QED
    BY <1>8, <1>12, <2>1, <2>2, <2>3
<1>14. \A i \in 1 .. l : \A j \in 1 .. k : s[i] # queue[j]
  <2>0. \A j \in 1 .. k : queue[j] \in Node
    BY <1>2
  <2>1. \A j \in 1 .. k : inDegree[queue[j]] = 0
    BY <1>1, <1>2, <2>0 DEF DegreesOK
  <2>2. \A i \in 1 .. l : inDegree[s[i]] # 0
    BY <1>6 DEF ready
  <2> QED
    BY <2>1, <2>2
<1>15. QueueOK'
  <2>1. ASSUME NEW i \in 1 .. k + l, NEW j \in 1 .. k + l, queue'[i] = queue'[j] PROVE i = j
    <3>1. CASE i \in 1 .. k /\ j \in 1 .. k
      BY <1>1, <1>2, <1>8, <2>1, <3>1 DEF QueueOK
    <3>2. CASE i \in 1 .. k /\ j - k \in 1 .. l
      <4>1. queue'[j] = s[j - k]
        BY <1>20, <3>2
      <4> QED
        BY <1>8, <1>14, <2>1, <3>2, <4>1
    <3>3. CASE i - k \in 1 .. l /\ j \in 1 .. k
      <4>1. queue'[i] = s[i - k]
        BY <1>20, <3>3
      <4> QED
        BY <1>8, <1>14, <2>1, <3>3, <4>1
    <3>4. CASE i - k \in 1 .. l /\ j - k \in 1 .. l
      <4>1. queue'[i] = s[i - k] /\ queue'[j] = s[j - k]
        BY <1>20, <3>4
      <4>2. i - k = j - k
        BY <1>5, <1>6, <2>1, <3>4, <4>1
      <4> QED
        BY <1>2, <4>2
    <3> QED
      BY <1>9, <3>1, <3>2, <3>3, <3>4
  <2>2. ASSUME NEW e \in Edge \ disabled, NEW j \in 1 .. k + l, queue'[j] = target[e]
        PROVE  \E i \in 1 .. k + l : i < j /\ queue'[i] = source[e]
    <3>1. CASE j \in 1 .. k
      <4>1. PICK i \in 1 .. k : i < j /\ queue[i] = source[e]
        BY <1>1, <1>2, <1>8, <2>2, <3>1 DEF QueueOK
      <4> QED
        BY <1>8, <1>9, <4>1
    <3>2. CASE j - k \in 1 .. l
      <4>1. target[e] \in Node /\ inDegree'[target[e]] = 0
        BY <1>1, <1>8, <1>13, <2>2 DEF GraphTyped
      <4>2. ASSUME NEW t \in Node, inDegree'[t] = 0 PROVE Pending(t)' = {}
        <5>1. Pending(t)' \in SUBSET Edge
          BY <1>0 DEF Pending
        <5>2. Cardinality(Pending(t)') = 0
          BY <1>11, <4>2
        <5> QED
          BY <5>1, <5>2, EdgeSets
      <4>3. source[e] \in Passed'
        <5>1. \A t \in Node : inDegree'[t] = 0 /\ target[e] = t => source[e] \in Passed'
          BY <1>0, <4>2 DEF Pending
        <5> QED
          BY <4>1, <5>1
      <4>4. PICK i \in 1 .. head : queue[i] = source[e]
        <5>1. Passed' \subseteq {queue[i] : i \in 1 .. head}
          <6>1. head \in 1 .. head /\ \A i \in 1 .. head - 1 : i \in 1 .. head
            BY <1>2
          <6> QED
            BY <1>10, <6>1 DEF Passed, n
        <5> QED
          BY <4>3, <5>1
      <4>5. i \in 1 .. k /\ i < j
        BY <1>2, <3>2
      <4> QED
        BY <1>8, <1>9, <4>4, <4>5
    <3> QED
      BY <1>9, <3>1, <3>2
  <2>3. queue' \in Seq(Node) /\ DOMAIN queue' = 1 .. k + l
    BY <1>8
  <2>4. \A i, j \in DOMAIN queue' : queue'[i] = queue'[j] => i = j
    BY <2>1, <2>3
  <2>5. disabled' = disabled /\ source' = source /\ target' = target
    BY <1>0
  <2>6. \A e \in Edge \ disabled', j \in DOMAIN queue' :
          queue'[j] = target'[e] => \E i \in DOMAIN queue' : i < j /\ queue'[i] = source'[e]
    BY <2>2, <2>3, <2>5
  <2> QED
    BY <2>3, <2>4, <2>6 DEF QueueOK
<1>16. DegreesOK'
  <2>1. head' \in 1 .. Len(queue') + 1
    BY <1>0, <1>2, <1>6, <1>8
  <2>2. inDegree' \in [Node -> Nat]
    BY <1>0, <1>11 DEF CountDown
  <2> QED
    BY <1>11, <1>13, <2>1, <2>2 DEF DegreesOK
<1>17. ASSUME NEW m \in Node, m \in Passed \cup {n} PROVE resolved'[m] = resolved[m]
  <2>1. \E i \in DOMAIN queue : queue[i] = m
    BY <1>2, <1>17 DEF Passed, n
  <2>2. Pending(m) = {}
    <3>1. Pending(m) \in SUBSET Edge
      BY DEF Pending
    <3> QED
      BY <1>1, <2>1, <3>1, EdgeSets DEF DegreesOK
  <2>3. ~Receives(n, m)
    BY <1>3, <2>2 DEF Receives, Pending, Enabled, Out
  <2> QED
    BY <1>0, <2>3
<1>18. ResolvedOK'
  <2>1. resolved' \in [Node -> SUBSET Clock] /\ \A m \in Node : resolved[m] \subseteq resolved'[m]
    BY <1>0, <1>1, <1>2 DEF ResolvedOK
  <2>2. \A m \in Node : SeedsAt(m)' \subseteq resolved'[m]
    BY <1>0, <1>1, <2>1 DEF ResolvedOK, SeedsAt
  <2>3. ASSUME NEW m \in Node, NEW c \in resolved'[m] PROVE Leads(Node, seed[c], m)
    <3>1. CASE c \in resolved[m]
      BY <1>1, <3>1 DEF ResolvedOK
    <3>2. CASE Receives(n, m) /\ c \in resolved[n]
      <4>1. PICK e \in Edge \ disabled : source[e] = n /\ target[e] = m
        BY <3>2 DEF Receives, Enabled, Out
      <4>2. PathIn(Edge \ disabled, Node, seed[c], source[e])
        BY <1>1, <1>2, <3>2, <4>1 DEF ResolvedOK, Leads
      <4>3. PathIn(Edge \ disabled, Node, seed[c], target[e])
        BY <4>1, <4>2, PathSnoc
      <4> QED
        BY <4>1, <4>3 DEF Leads
    <3> QED
      BY <1>0, <3>1, <3>2
  <2>6. \A N, x, m : Leads(N, x, m)' <=> Leads(N, x, m)
    BY <1>0, LeadsNext
  <2>4. \A m \in Node : \A c \in resolved'[m] : Leads(Node, seed[c], m)'
    <3>1. \A m \in Node : \A c \in resolved'[m] : Leads(Node, seed[c], m)
      BY <2>3
    <3>2. seed' = seed
      BY <1>0
    <3> QED
      BY <3>1, <3>2, <2>6
  <2>5. ASSUME NEW e \in Edge \ disabled, source[e] \in Passed \cup {n}
        PROVE  resolved'[source[e]] \subseteq resolved'[target[e]]
    <3>0. source[e] \in Node /\ target[e] \in Node
      BY <1>1 DEF GraphTyped
    <3>1. resolved'[source[e]] = resolved[source[e]]
      BY <1>17, <2>5, <3>0
    <3>2. CASE source[e] \in Passed
      BY <1>1, <2>1, <3>0, <3>1, <3>2 DEF ResolvedOK
    <3>3. CASE source[e] = n
      <4>1. Receives(n, target[e])
        BY <3>3 DEF Receives, Enabled, Out
      <4> QED
        BY <1>0, <3>0, <3>1, <3>3, <4>1
    <3> QED
      BY <2>5, <3>2, <3>3
  <2> QED
    BY <1>0, <1>10, <2>1, <2>2, <2>4, <2>5 DEF ResolvedOK
<1>19. AllBlack' /\ MasksEmpty'
  BY <1>0, <1>1 DEF AllBlack, MasksEmpty
<1> QED
  BY <1>15, <1>16, <1>18, <1>19 DEF ForwardInv

-----------------------------------------------------------------------------
(* The end of the forward pass. *)

Covered == \A n \in Node : \E i \in DOMAIN queue : queue[i] = n

(* Of the nodes that are not queued one of the highest rank has no edge    *)
(* from another one, so it is queued: Kahn's algorithm gets every node.    *)
LEMMA AllQueued ==
  ASSUME DfsInv, ForwardInv, head > Len(queue)
  PROVE  Covered
<1>1. GraphTyped /\ AllBlack /\ QueueOK /\ DegreesOK
  BY DEF DfsInv, ForwardInv
<1> DEFINE Rest == {n \in Node : ~\E i \in DOMAIN queue : queue[i] = n}
<1>2. \A m \in Rest : \E e \in Edge \ disabled : target[e] = m /\ source[e] \in Rest
  <2> SUFFICES ASSUME NEW m \in Rest
               PROVE  \E e \in Edge \ disabled : target[e] = m /\ source[e] \in Rest
    OBVIOUS
  <2>1. m \in Node /\ inDegree[m] # 0
    BY <1>1 DEF DegreesOK
  <2>2. Pending(m) \in SUBSET Edge
    BY DEF Pending
  <2>3. Pending(m) # {}
    BY <1>1, <2>1, <2>2, EdgeSets DEF DegreesOK
  <2>4. PICK e \in Edge \ disabled : target[e] = m /\ source[e] \notin Passed
    BY <2>3 DEF Pending
  <2>5. \A i \in DOMAIN queue : i \in 1 .. head - 1
    BY <1>1 DEF DegreesOK, QueueOK
  <2>6. source[e] \in Node /\ ~\E i \in DOMAIN queue : queue[i] = source[e]
    BY <1>1, <2>4, <2>5 DEF Passed, GraphTyped
  <2> QED
    BY <2>4, <2>6
<1>3. PICK f, k : k \in Nat /\ Ranking(f, k)
  BY DEF DfsInv, Ranked
<1>4. /\ \A m \in Rest : m \in Node /\ f[m] \in Nat /\ k - f[m] \in Nat
      /\ \A e \in Edge \ disabled : f[target[e]] < f[source[e]]
  BY <1>1, <1>3 DEF Ranking, AllBlack, GraphTyped
<1>5. Rest = {} => Covered
  BY DEF Covered
<1> HIDE DEF Rest
<1> SUFFICES ASSUME Rest # {} PROVE FALSE
  BY <1>5
<1> DEFINE T == {k - f[m] : m \in Rest}
<1>6. T \in SUBSET Nat /\ T # {}
  BY <1>4
<1>7. PICK t \in T : \A u \in T : t <= u
  <2> HIDE DEF T
  <2> QED
    BY <1>6, LeastNat
<1>8. PICK m \in Rest : t = k - f[m]
  OBVIOUS
<1>9. PICK e \in Edge \ disabled : target[e] = m /\ source[e] \in Rest
  BY <1>2
<1>10. k - f[source[e]] \in T
  BY <1>9
<1>11. k - f[m] <= k - f[source[e]]
  BY <1>7, <1>8, <1>10
<1>12. f[m] < f[source[e]]
  BY <1>4, <1>9
<1>13. f[m] \in Nat /\ f[source[e]] \in Nat
  BY <1>4, <1>9
<1> QED
  BY <1>3, <1>11, <1>12, <1>13

(* The length of the queue tells that no node is missing. *)
LEMMA QueueLength ==
  ASSUME QueueOK, Covered
  PROVE  Len(queue) = Cardinality(Node)
<1>1. Len(queue) \in Nat /\ DOMAIN queue = 1 .. Len(queue) /\ queue \in [1 .. Len(queue) -> Node]
  BY DEF QueueOK
<1>2. \A i, j \in 1 .. Len(queue) : queue[i] = queue[j] => i = j
  BY <1>1 DEF QueueOK
<1>3. \A n \in Node : \E i \in 1 .. Len(queue) : queue[i] = n
  BY <1>1 DEF Covered
<1>4. queue \in Bijection(1 .. Len(queue), Node)
  BY <1>1, <1>2, <1>3 DEF Bijection, Injection, IsInjective, Surjection
<1>5. ExistsBijection(1 .. Len(queue), Node)
  BY <1>4 DEF ExistsBijection
<1> QED
  BY <1>1, <1>5, FS_CountingElements

(* The clocks resolved at a node are those whose seed leads there. *)
LEMMA ResolvedExact ==
  ASSUME DfsInv, ForwardInv, head > Len(queue), NEW n \in Node
  PROVE  resolved[n] = {c \in Clock : Leads(Node, seed[c], n)}
<1>1. GraphTyped /\ QueueOK /\ DegreesOK /\ ResolvedOK
  BY DEF DfsInv, ForwardInv
<1>2. \A m \in Node : m \in Passed
  <2>1. \A i \in DOMAIN queue : i \in 1 .. head - 1
    BY <1>1 DEF DegreesOK, QueueOK
  <2> QED
    BY <2>1, AllQueued DEF Passed, Covered
<1>3. ASSUME NEW c \in Clock, Leads(Node, seed[c], n) PROVE c \in resolved[n]
  <2> DEFINE S == {m \in Node : c \in resolved[m]}
  <2>1. seed[c] \in S /\ S \in SUBSET Node
    BY <1>1 DEF ResolvedOK, SeedsAt, GraphTyped
  <2>2. \A e \in Edge \ disabled : resolved[source[e]] \subseteq resolved[target[e]]
    BY <1>1, <1>2 DEF ResolvedOK, GraphTyped
  <2>3. ClosedUnder(Edge \ disabled, Node, S)
    BY <2>2 DEF ClosedUnder
  <2> HIDE DEF S
  <2>4. n \in S
    BY <1>3, <2>1, <2>3 DEF Leads, PathIn
  <2> QED
    BY <2>4 DEF S
<1>4. ASSUME NEW c \in resolved[n] PROVE c \in Clock /\ Leads(Node, seed[c], n)
  BY <1>1 DEF ResolvedOK
<1> QED
  BY <1>3, <1>4

(* The launch masks as FromClocksExact wants them. *)
FromMasks ==
  \A e \in Edge :
    fromClocks[e] = IF e \in disabled THEN {} ELSE {c \in Clock : Leads(Node, seed[c], source[e])}

(* The same in the next state, from facts about the old graph. *)
LEMMA FromMasksNext ==
  ASSUME source' = source, target' = target, disabled' = disabled, seed' = seed,
         \A e \in Edge \ disabled : fromClocks'[e] = {c \in Clock : Leads(Node, seed[c], source[e])},
         \A e \in disabled : e \in Edge => fromClocks'[e] = {}
  PROVE  FromMasks'
<1> DEFINE L(e) == {c \in Clock : Leads(Node, seed[c], source[e])}
<1>1. \A e : L(e)' = L(e)
  <2>1. \A N, n, m : Leads(N, n, m)' <=> Leads(N, n, m)
    BY LeadsNext
  <2> QED
    BY <2>1
<1>2. \A e \in Edge : fromClocks'[e] = IF e \in disabled THEN {} ELSE L(e)
  OBVIOUS
<1>3. \A e \in Edge : fromClocks'[e] = IF e \in disabled' THEN {} ELSE L(e)'
  <2> HIDE DEF L
  <2> QED
    BY <1>1, <1>2
<1> QED
  BY <1>3 DEF FromMasks

(* The clocks at a clock pin. *)
LEMMA AtClockExact ==
  ASSUME GraphTyped, NEW from, NEW n \in Node,
         \A e \in Edge \ disabled : from[e] = {c \in Clock : Leads(Node, seed[c], source[e])}
  PROVE  AtClock(n, from) = {c \in Clock : Leads(Node, seed[c], n)}
<1>1. \A e : e \in Enabled(In(n)) <=> (e \in Edge \ disabled /\ target[e] = n)
  BY DEF Enabled, In
<1>2. ASSUME NEW c \in AtClock(n, from) PROVE c \in Clock /\ Leads(Node, seed[c], n)
  <2>1. CASE c \in SeedsAt(n)
    BY <2>1, PathRefl DEF SeedsAt, Leads
  <2>2. ASSUME NEW e \in Enabled(In(n)), c \in from[e] PROVE c \in Clock /\ Leads(Node, seed[c], n)
    <3>1. e \in Edge \ disabled /\ target[e] = n
      BY <1>1
    <3>2. c \in Clock /\ PathIn(Edge \ disabled, Node, seed[c], source[e])
      BY <2>2, <3>1 DEF Leads
    <3>3. PathIn(Edge \ disabled, Node, seed[c], target[e])
      BY <3>1, <3>2, PathSnoc
    <3> QED
      BY <3>1, <3>2, <3>3 DEF Leads
  <2> QED
    BY <1>2, <2>1, <2>2 DEF AtClock
<1>3. ASSUME NEW c \in Clock, Leads(Node, seed[c], n) PROVE c \in AtClock(n, from)
  <2>1. CASE seed[c] = n
    BY <2>1 DEF AtClock, SeedsAt
  <2>2. CASE seed[c] # n
    <3>1. PICK e \in Edge \ disabled : target[e] = n /\ PathIn(Edge \ disabled, Node, seed[c], source[e])
      BY <1>3, <2>2, PathLast DEF Leads
    <3>2. e \in Enabled(In(n)) /\ c \in from[e]
      BY <1>1, <3>1 DEF Leads
    <3> QED
      BY <3>2 DEF AtClock
  <2> QED
    BY <2>1, <2>2
<1> QED
  BY <1>2, <1>3

-----------------------------------------------------------------------------
(* The backward pass. *)

(* Clock c is at the clock pin of a capture edge that ends at n.            *)
CapturedAt(c, n) == \E x \in captureEdges : x[2] = n /\ Leads(Node, seed[c], x[1])

(* Clock c captures what leaves n, as ToClocksExact wants it. *)
Captures(c, n) ==
  \E x \in captureEdges : Leads(Node, seed[c], x[1]) /\ Leads(Node \ flopOutput, n, x[2])

(* The edges the pass has crossed. *)
Crossed ==
  {e \in Edge \ disabled :
     target[e] \notin flopOutput /\ \E i \in DOMAIN queue : i > head /\ queue[i] = target[e]}

(* Capture clocks start at the capture edges, are justified outside flop   *)
(* outputs, and have passed the crossed edges.                             *)
CaptureOK ==
  /\ capture \in [Node -> SUBSET Clock]
  /\ \A n \in Node, c \in Clock : CapturedAt(c, n) => c \in capture[n]
  /\ \A n \in Node \ flopOutput : \A c \in capture[n] : Captures(c, n)
  /\ \A e \in Crossed : capture[target[e]] \subseteq capture[source[e]]

ToMasks ==
  /\ \A e \in Crossed : toClocks[e] = capture[target[e]]
  /\ \A e \in Edge \ Crossed : toClocks[e] = {}

BackwardInv ==
  /\ AllBlack /\ QueueOK /\ Covered /\ FromMasks
  /\ head \in 0 .. Len(queue)
  /\ CaptureOK /\ ToMasks

(* The forward pass ends with every node queued and the launch masks exact. *)
LEMMA EndForwardInv ==
  ASSUME DfsInv, ForwardInv, EndForward
  PROVE  phase' = "backward" /\ BackwardInv'
<1>1. head > Len(queue) /\ GraphTyped /\ AllBlack /\ MasksEmpty /\ QueueOK
  BY DEF EndForward, DfsInv, ForwardInv
<1>2. Covered /\ Len(queue) = Cardinality(Node)
  BY <1>1, AllQueued, QueueLength
<1>3. /\ source' = source /\ target' = target /\ seed' = seed /\ disabled' = disabled /\ color' = color
      /\ captureEdges' = captureEdges /\ flopOutput' = flopOutput /\ queue' = queue
      /\ toClocks' = toClocks /\ head' = Len(queue) /\ phase' = "backward"
  BY <1>2 DEF EndForward, graph, dfs
<1>4. /\ fromClocks' = [e \in Edge |-> IF e \notin disabled THEN resolved[source[e]] ELSE fromClocks[e]]
      /\ capture' = [n \in Node |->
           UNION {AtClock(x[1], fromClocks') : x \in {y \in captureEdges : y[2] = n}}]
  BY <1>2 DEF EndForward
<1>5. \A N, n, m : Leads(N, n, m)' <=> Leads(N, n, m)
  BY <1>3, LeadsNext
<1>6. /\ \A e \in Edge \ disabled : fromClocks'[e] = {c \in Clock : Leads(Node, seed[c], source[e])}
      /\ \A e \in disabled : e \in Edge => fromClocks'[e] = {}
  <2>1. \A e \in Edge \ disabled : fromClocks'[e] = resolved[source[e]] /\ source[e] \in Node
    BY <1>1, <1>4 DEF GraphTyped
  <2>2. \A n \in Node : resolved[n] = {c \in Clock : Leads(Node, seed[c], n)}
    BY <1>1, ResolvedExact
  <2>3. \A e \in disabled : e \in Edge => fromClocks'[e] = {}
    BY <1>1, <1>4 DEF MasksEmpty
  <2> QED
    BY <2>1, <2>2, <2>3
<1>7. FromMasks'
  BY <1>3, <1>6, FromMasksNext
<1>8. \A x \in captureEdges :
        x[1] \in Node /\ x[2] \in Node
        /\ AtClock(x[1], fromClocks') = {c \in Clock : Leads(Node, seed[c], x[1])}
  <2>1. \A x \in captureEdges : x[1] \in Node /\ x[2] \in Node
    BY <1>1 DEF GraphTyped
  <2>2. \A n \in Node : AtClock(n, fromClocks') = {c \in Clock : Leads(Node, seed[c], n)}
    BY <1>1, <1>6, AtClockExact
  <2> QED
    BY <2>1, <2>2
<1>9. capture' \in [Node -> SUBSET Clock]
  BY <1>4, <1>8
<1>10. \A n \in Node, c \in Clock : c \in capture'[n] <=> CapturedAt(c, n)
  BY <1>4, <1>8 DEF CapturedAt
<1>11. Crossed' = {}
  BY <1>1, <1>3 DEF Crossed, QueueOK
<1>12. \A n \in Node, c \in Clock : CapturedAt(c, n)' => c \in capture'[n]
  <2>1. \A n \in Node, c \in Clock : CapturedAt(c, n)' <=> CapturedAt(c, n)
    BY <1>3, <1>5 DEF CapturedAt
  <2> QED
    BY <1>10, <2>1
<1>13. \A n \in Node \ flopOutput : \A c \in capture'[n] : Captures(c, n)'
  <2> SUFFICES ASSUME NEW n \in Node \ flopOutput, NEW c \in capture'[n]
               PROVE  Captures(c, n)'
    OBVIOUS
  <2>1. PICK x \in captureEdges : x[2] = n /\ Leads(Node, seed[c], x[1])
    BY <1>9, <1>10 DEF CapturedAt
  <2>2. Leads(Node \ flopOutput, n, x[2])
    BY <2>1, PathRefl DEF Leads
  <2>3. Captures(c, n)
    BY <2>1, <2>2 DEF Captures
  <2> QED
    BY <1>3, <1>5, <2>3 DEF Captures
<1>14. CaptureOK'
  BY <1>3, <1>9, <1>11, <1>12, <1>13 DEF CaptureOK
<1>15. ToMasks'
  BY <1>1, <1>3, <1>11 DEF ToMasks, MasksEmpty
<1>16. AllBlack' /\ QueueOK' /\ Covered'
  BY <1>1, <1>2, <1>3 DEF AllBlack, QueueOK, Covered
<1>17. head' \in 0 .. Len(queue')
  BY <1>1, <1>3 DEF QueueOK
<1> QED
  BY <1>3, <1>7, <1>14, <1>15, <1>16, <1>17 DEF BackwardInv

(* propagateBackward(), one node: the sources of its edges come before it  *)
(* in the queue, so what was crossed stays as it is.                       *)
LEMMA CaptureNodeInv ==
  ASSUME DfsInv, BackwardInv, CaptureNode
  PROVE  BackwardInv'
<1> DEFINE n == queue[head]
           into == IF Stops(n) THEN {} ELSE Enabled(In(n))
<1>1. /\ source' = source /\ target' = target /\ seed' = seed /\ disabled' = disabled /\ color' = color
      /\ captureEdges' = captureEdges /\ flopOutput' = flopOutput /\ queue' = queue
      /\ fromClocks' = fromClocks /\ head > 0 /\ head' = head - 1
      /\ toClocks' = [e \in Edge |-> IF e \in into THEN capture[n] ELSE toClocks[e]]
      /\ capture' = [m \in Node |->
           IF \E e \in into : source[e] = m THEN capture[m] \cup capture[n] ELSE capture[m]]
  BY DEF CaptureNode, graph, dfs
<1>2. /\ GraphTyped /\ AllBlack /\ QueueOK /\ Covered /\ FromMasks /\ CaptureOK /\ ToMasks
      /\ head \in 0 .. Len(queue)
  BY DEF DfsInv, BackwardInv
<1>3. head \in DOMAIN queue /\ n \in Node /\ \A i \in DOMAIN queue : i \in Int
  BY <1>1, <1>2 DEF QueueOK
<1>4. \A e : e \in into <=> (e \in Edge \ disabled /\ target[e] = n /\ n \notin flopOutput)
  BY DEF Stops, Enabled, In
<1> HIDE DEF into
<1>5. \A e : e \in Crossed' <=> (e \in Crossed \/ e \in into)
  <2>1. \A i \in DOMAIN queue : i > head - 1 <=> (i > head \/ i = head)
    BY <1>2, <1>3
  <2> QED
    BY <1>1, <1>3, <1>4, <2>1 DEF Crossed
<1>6. \A m \in Node : (\E i \in DOMAIN queue : i >= head /\ queue[i] = m) => capture'[m] = capture[m]
  <2> SUFFICES ASSUME NEW i \in DOMAIN queue, i >= head, queue[i] \in Node,
                      NEW e \in into, source[e] = queue[i]
               PROVE  FALSE
    BY <1>1
  <2>1. PICK j \in DOMAIN queue : j < head /\ queue[j] = source[e]
    BY <1>2, <1>3, <1>4 DEF QueueOK
  <2>2. j = i
    BY <1>2, <2>1 DEF QueueOK
  <2> QED
    BY <1>2, <1>3, <2>1, <2>2
<1>7. \A e \in Edge \ disabled : source[e] \in Node /\ target[e] \in Node
  BY <1>2 DEF GraphTyped
<1>8. \A e \in Crossed' : capture'[target[e]] = capture[target[e]]
  <2> SUFFICES ASSUME NEW e \in Crossed' PROVE \E i \in DOMAIN queue : i >= head /\ queue[i] = target[e]
    BY <1>1, <1>6, <1>7 DEF Crossed
  <2>1. CASE e \in Crossed
    BY <1>2, <1>3, <2>1 DEF Crossed
  <2>2. CASE e \in into
    BY <1>3, <1>4, <2>2
  <2> QED
    BY <1>5, <2>1, <2>2
<1>9. capture' \in [Node -> SUBSET Clock] /\ \A m \in Node : capture[m] \subseteq capture'[m]
  BY <1>1, <1>2, <1>3 DEF CaptureOK
<1>10. \A N, x, m : Leads(N, x, m)' <=> Leads(N, x, m)
  BY <1>1, LeadsNext
<1>11. \A m \in Node, c \in Clock : CapturedAt(c, m)' => c \in capture'[m]
  <2>1. \A m \in Node, c \in Clock : CapturedAt(c, m)' <=> CapturedAt(c, m)
    BY <1>1, <1>10 DEF CapturedAt
  <2> QED
    BY <1>2, <1>9, <2>1 DEF CaptureOK
<1>12. ASSUME NEW m \in Node \ flopOutput, NEW c \in capture'[m] PROVE Captures(c, m)'
  <2>1. CASE c \in capture[m]
    <3>1. Captures(c, m)
      BY <1>2, <2>1 DEF CaptureOK
    <3> QED
      BY <1>1, <1>10, <3>1 DEF Captures
  <2>2. ASSUME NEW e \in into, source[e] = m, c \in capture[n] PROVE Captures(c, m)'
    <3>1. n \in Node \ flopOutput /\ target[e] = n /\ e \in Edge \ disabled
      BY <1>3, <1>4, <2>2
    <3>2. Captures(c, n)
      BY <1>2, <2>2, <3>1 DEF CaptureOK
    <3>3. PICK x \in captureEdges : Leads(Node, seed[c], x[1]) /\ Leads(Node \ flopOutput, n, x[2])
      BY <3>2 DEF Captures
    <3>4. PathIn(Edge \ disabled, Node \ flopOutput, target[e], x[2])
      BY <3>1, <3>3 DEF Leads
    <3>5. PathIn(Edge \ disabled, Node \ flopOutput, source[e], x[2])
      BY <2>2, <3>1, <3>4, PathCons
    <3>6. Captures(c, m)
      BY <2>2, <3>3, <3>5 DEF Captures, Leads
    <3> QED
      BY <1>1, <1>10, <3>6 DEF Captures
  <2> QED
    BY <1>1, <2>1, <2>2
<1>13. ASSUME NEW e \in Crossed' PROVE capture'[target[e]] \subseteq capture'[source[e]]
  <2>0. e \in Edge \ disabled /\ capture'[target[e]] = capture[target[e]]
    BY <1>1, <1>8 DEF Crossed
  <2>1. CASE e \in Crossed
    BY <1>2, <1>7, <1>9, <2>0, <2>1 DEF CaptureOK
  <2>2. CASE e \in into
    BY <1>1, <1>4, <1>7, <2>0, <2>2
  <2> QED
    BY <1>5, <2>1, <2>2
<1>14. CaptureOK'
  BY <1>1, <1>9, <1>11, <1>12, <1>13 DEF CaptureOK
<1>15. ToMasks'
  <2>1. ASSUME NEW e \in Crossed' PROVE toClocks'[e] = capture'[target[e]]
    <3>0. e \in Edge \ disabled /\ capture'[target[e]] = capture[target[e]]
      BY <1>1, <1>8 DEF Crossed
    <3>1. CASE e \in into
      BY <1>1, <1>4, <3>0, <3>1
    <3>2. CASE e \notin into
      BY <1>1, <1>2, <1>5, <3>0, <3>2 DEF ToMasks
    <3> QED
      BY <3>1, <3>2
  <2>2. ASSUME NEW e \in Edge \ Crossed' PROVE toClocks'[e] = {}
    BY <1>1, <1>2, <1>5 DEF ToMasks
  <2> QED
    BY <1>1, <2>1, <2>2 DEF ToMasks
<1>16. FromMasks'
  BY <1>1, <1>2, FromMasksNext DEF FromMasks
<1>17. AllBlack' /\ QueueOK' /\ Covered' /\ head' \in 0 .. Len(queue')
  BY <1>1, <1>2 DEF AllBlack, QueueOK, Covered
<1> QED
  BY <1>14, <1>15, <1>16, <1>17 DEF BackwardInv

(* The capture masks as ToClocksExact wants them. *)
ToMasksExact ==
  \A e \in Edge : toClocks[e] = IF e \in disabled THEN {} ELSE {c \in Clock : Captures(c, target[e])}

(* When all nodes are done a clock that captures n is at n: where it is    *)
(* not, it is not at any node that the path leads through either.          *)
LEMMA CaptureExact ==
  ASSUME DfsInv, BackwardInv, head = 0
  PROVE  ToMasksExact
<1>1. GraphTyped /\ QueueOK /\ Covered /\ CaptureOK /\ ToMasks
  BY DEF DfsInv, BackwardInv
<1>2. \A e : e \in Crossed <=> (e \in Edge \ disabled /\ target[e] \notin flopOutput)
  <2>1. \A i \in DOMAIN queue : i > head
    BY <1>1 DEF QueueOK
  <2> QED
    BY <1>1, <2>1 DEF Crossed, Covered, GraphTyped
<1>3. ASSUME NEW n \in Node \ flopOutput, NEW c \in Clock, Captures(c, n) PROVE c \in capture[n]
  <2>1. PICK x \in captureEdges : Leads(Node, seed[c], x[1]) /\ Leads(Node \ flopOutput, n, x[2])
    BY <1>3 DEF Captures
  <2> DEFINE N == Node \ flopOutput
             S == {m \in N : c \notin capture[m]}
  <2>2. x[2] \in N /\ c \in capture[x[2]]
    BY <1>1, <2>1 DEF Leads, PathIn, CaptureOK, CapturedAt
  <2>3. \A e \in Edge \ disabled : target[e] \in N => capture[target[e]] \subseteq capture[source[e]]
    BY <1>1, <1>2 DEF CaptureOK
  <2>4. ClosedUnder(Edge \ disabled, N, S)
    BY <2>3 DEF ClosedUnder
  <2>5. S \in SUBSET N /\ x[2] \notin S
    BY <2>2
  <2> HIDE DEF S
  <2>6. n \notin S
    BY <2>1, <2>4, <2>5 DEF Leads, PathIn
  <2> QED
    BY <2>6 DEF S
<1>4. ASSUME NEW n \in Node, NEW c, Captures(c, n) PROVE n \notin flopOutput
  BY <1>4 DEF Captures, Leads, PathIn
<1>5. \A n \in Node \ flopOutput : capture[n] = {c \in Clock : Captures(c, n)}
  <2> SUFFICES ASSUME NEW n \in Node \ flopOutput PROVE capture[n] = {c \in Clock : Captures(c, n)}
    OBVIOUS
  <2>1. \A c \in capture[n] : c \in Clock /\ Captures(c, n)
    BY <1>1 DEF CaptureOK
  <2>2. \A c \in Clock : Captures(c, n) => c \in capture[n]
    BY <1>3
  <2> QED
    BY <2>1, <2>2
<1>6. ASSUME NEW e \in Edge
      PROVE  toClocks[e] = IF e \in disabled THEN {} ELSE {c \in Clock : Captures(c, target[e])}
  <2>0. target[e] \in Node
    BY <1>1 DEF GraphTyped
  <2>1. CASE e \in disabled
    BY <1>1, <1>2, <2>1 DEF ToMasks
  <2>2. CASE e \notin disabled /\ target[e] \in flopOutput
    <3>1. toClocks[e] = {}
      BY <1>1, <1>2, <2>2 DEF ToMasks
    <3>2. \A c \in Clock : ~Captures(c, target[e])
      BY <1>4, <2>0, <2>2
    <3>3. {c \in Clock : Captures(c, target[e])} = {}
      BY <3>2
    <3> QED
      BY <2>2, <3>1, <3>3
  <2>3. CASE e \notin disabled /\ target[e] \notin flopOutput
    <3>1. toClocks[e] = capture[target[e]]
      BY <1>1, <1>2, <2>3 DEF ToMasks
    <3> QED
      BY <1>5, <2>0, <2>3, <3>1
  <2> QED
    BY <2>1, <2>2, <2>3
<1> QED
  BY <1>6 DEF ToMasksExact

-----------------------------------------------------------------------------
(* The run. *)

Inv ==
  /\ DfsInv
  /\ phase \in {"start", "dfs", "forward", "backward", "done"}
  /\ phase = "dfs" => MasksEmpty
  /\ phase = "forward" => ForwardInv
  /\ phase = "backward" => BackwardInv
  /\ phase = "done" => AllBlack /\ FromMasks /\ ToMasksExact

(* A step that touches neither the graph nor the masks keeps what was said *)
(* about them.                                                             *)
LEMMA MasksUnchanged ==
  ASSUME source' = source, target' = target, disabled' = disabled, seed' = seed,
         captureEdges' = captureEdges, flopOutput' = flopOutput,
         fromClocks' = fromClocks, toClocks' = toClocks
  PROVE  (FromMasks => FromMasks') /\ (ToMasksExact => ToMasksExact')
<1>1. FromMasks => FromMasks'
  BY FromMasksNext DEF FromMasks
<1>2. ASSUME ToMasksExact PROVE ToMasksExact'
  <2> DEFINE T(e) == {c \in Clock : Captures(c, target[e])}
  <2>1. \A e : T(e)' = T(e)
    <3>1. \A N, n, m : Leads(N, n, m)' <=> Leads(N, n, m)
      BY LeadsNext
    <3>2. \A c, n : Captures(c, n)' <=> Captures(c, n)
      BY <3>1 DEF Captures
    <3> QED
      BY <3>2
  <2>2. \A e \in Edge : toClocks[e] = IF e \in disabled THEN {} ELSE T(e)
    BY <1>2 DEF ToMasksExact
  <2>3. \A e \in Edge : toClocks'[e] = IF e \in disabled' THEN {} ELSE T(e)'
    <3> HIDE DEF T
    <3> QED
      BY <2>1, <2>2
  <2> QED
    BY <2>3 DEF ToMasksExact
<1> QED
  BY <1>1, <1>2

(* The invariant holds before the run. *)
LEMMA InvInit == Init => Inv
<1> SUFFICES ASSUME Init PROVE Inv
  OBVIOUS
<1>1. GraphTyped /\ DfsTyped
  BY GraphAssumption DEF Init, GraphTyped, DfsTyped
<1>2. StackGray /\ TodoTyped
  BY DEF Init, StackGray, TodoTyped
<1>3. Followed = {}
  BY <1>1 DEF Init, Followed, GraphTyped
<1>4. FollowedAhead /\ StackPaths /\ CutPaths
  BY <1>3 DEF Init, FollowedAhead, StackPaths, CutPaths
<1>5. Ranked
  <2> DEFINE f == [n \in Node |-> 0]
  <2>1. Ranking(f, 1)
    BY <1>1 DEF Init, Ranking, GraphTyped
  <2> QED
    BY <2>1 DEF Ranked
<1> QED
  BY <1>1, <1>2, <1>4, <1>5 DEF Init, Inv, DfsInv

(* Every step of the run keeps it. *)
LEMMA InvNext == Inv /\ [Next]_vars => Inv'
<1> SUFFICES ASSUME Inv, [Next]_vars PROVE Inv'
  OBVIOUS
<1>0. DfsInv
  BY DEF Inv
<1>1. CASE Reset
  <2>1. DfsInv'
    BY <1>0, <1>1, DfsUnchanged DEF Reset, graph, dfs
  <2>2. phase' = "dfs" /\ MasksEmpty'
    BY <1>1 DEF Reset, MasksEmpty
  <2> QED
    BY <2>1, <2>2 DEF Inv
<1>2. ASSUME NEW n \in Node, Visit(n) PROVE Inv'
  <2>1. DfsInv'
    BY <1>0, <1>2, VisitInv
  <2>2. phase = "dfs" /\ phase' = "dfs" /\ MasksEmpty'
    BY <1>2 DEF Visit, Inv, MasksEmpty, masks
  <2> QED
    BY <2>1, <2>2 DEF Inv
<1>3. ASSUME NEW e \in Edge, FollowEdge(e) PROVE Inv'
  <2>1. DfsInv'
    BY <1>0, <1>3, FollowInv
  <2>2. phase = "dfs" /\ phase' = "dfs" /\ MasksEmpty'
    BY <1>3 DEF FollowEdge, Inv, MasksEmpty, masks
  <2> QED
    BY <2>1, <2>2 DEF Inv
<1>4. CASE FinishNode
  <2>1. DfsInv'
    BY <1>0, <1>4, FinishInv
  <2>2. phase = "dfs" /\ phase' = "dfs" /\ MasksEmpty'
    BY <1>4 DEF FinishNode, Inv, MasksEmpty, masks
  <2> QED
    BY <2>1, <2>2 DEF Inv
<1>5. CASE StartForward
  <2>1. DfsInv'
    BY <1>0, <1>5, DfsUnchanged DEF StartForward, graph, dfs
  <2>2. phase = "dfs" /\ phase' = "forward"
    BY <1>5 DEF StartForward
  <2>3. ForwardInv'
    BY <1>0, <1>5, <2>2, StartForwardInv DEF Inv
  <2> QED
    BY <2>1, <2>2, <2>3 DEF Inv
<1>6. CASE ProcessNode
  <2>1. DfsInv'
    BY <1>0, <1>6, DfsUnchanged DEF ProcessNode, graph, dfs
  <2>2. phase = "forward" /\ phase' = "forward"
    BY <1>6 DEF ProcessNode
  <2>3. ForwardInv'
    BY <1>0, <1>6, <2>2, ProcessNodeInv DEF Inv
  <2> QED
    BY <2>1, <2>2, <2>3 DEF Inv
<1>7. CASE EndForward
  <2>1. DfsInv'
    BY <1>0, <1>7, DfsUnchanged DEF EndForward, graph, dfs
  <2>2. phase = "forward"
    BY <1>7 DEF EndForward
  <2>3. phase' = "backward" /\ BackwardInv'
    BY <1>0, <1>7, <2>2, EndForwardInv DEF Inv
  <2> QED
    BY <2>1, <2>3 DEF Inv
<1>8. CASE CaptureNode
  <2>1. DfsInv'
    BY <1>0, <1>8, DfsUnchanged DEF CaptureNode, graph, dfs
  <2>2. phase = "backward" /\ phase' = "backward"
    BY <1>8 DEF CaptureNode
  <2>3. BackwardInv'
    BY <1>0, <1>8, <2>2, CaptureNodeInv DEF Inv
  <2> QED
    BY <2>1, <2>2, <2>3 DEF Inv
<1>9. CASE EndBackward
  <2>1. DfsInv'
    BY <1>0, <1>9, DfsUnchanged DEF EndBackward, graph, dfs
  <2>2. phase = "backward" /\ phase' = "done" /\ head = 0
    BY <1>9 DEF EndBackward
  <2>3. AllBlack /\ FromMasks /\ ToMasksExact
    BY <1>0, <2>2, CaptureExact DEF Inv, BackwardInv
  <2>4. AllBlack' /\ FromMasks' /\ ToMasksExact'
    BY <1>9, <2>3, MasksUnchanged DEF EndBackward, graph, dfs, masks, AllBlack
  <2> QED
    BY <2>1, <2>2, <2>4 DEF Inv
<1>10. CASE UNCHANGED vars
  <2>1. DfsInv'
    BY <1>0, <1>10, DfsUnchanged DEF vars, graph, dfs
  <2>2. /\ source' = source /\ target' = target /\ seed' = seed /\ captureEdges' = captureEdges
        /\ flopOutput' = flopOutput /\ phase' = phase /\ disabled' = disabled /\ color' = color
        /\ inDegree' = inDegree /\ queue' = queue /\ head' = head /\ resolved' = resolved
        /\ capture' = capture /\ fromClocks' = fromClocks /\ toClocks' = toClocks
    BY <1>10 DEF vars, graph, dfs, kahn, masks
  <2>3. \A N, n, m : Leads(N, n, m)' <=> Leads(N, n, m)
    BY <2>2, LeadsNext
  <2>4. /\ AllBlack' <=> AllBlack
        /\ MasksEmpty' <=> MasksEmpty
        /\ QueueOK' <=> QueueOK
        /\ Covered' <=> Covered
    BY <2>2 DEF AllBlack, MasksEmpty, QueueOK, Covered
  <2>5. DegreesOK => DegreesOK'
    <3>1. \A m : Pending(m)' = Pending(m)
      BY <2>2 DEF Pending, Passed
    <3> QED
      BY <2>2, <3>1 DEF DegreesOK
  <2>6. ResolvedOK => ResolvedOK'
    BY <2>2, <2>3 DEF ResolvedOK, Passed, SeedsAt
  <2>7. (FromMasks => FromMasks') /\ (ToMasksExact => ToMasksExact')
    BY <2>2, MasksUnchanged
  <2>8. (CaptureOK => CaptureOK') /\ (ToMasks => ToMasks')
    <3>1. Crossed' = Crossed
      BY <2>2 DEF Crossed
    <3>2. \A c, n : (CapturedAt(c, n)' <=> CapturedAt(c, n)) /\ (Captures(c, n)' <=> Captures(c, n))
      BY <2>2, <2>3 DEF CapturedAt, Captures
    <3> QED
      BY <2>2, <3>1, <3>2 DEF CaptureOK, ToMasks
  <2> QED
    BY <2>1, <2>2, <2>4, <2>5, <2>6, <2>7, <2>8 DEF Inv, ForwardInv, BackwardInv
<1> QED
  BY <1>1, <1>2, <1>3, <1>4, <1>5, <1>6, <1>7, <1>8, <1>9, <1>10 DEF Next

(* It holds throughout. *)
LEMMA SpecInv == Spec => []Inv
BY InvInit, InvNext, PTL DEF Spec

(* On a graph of any size, with any edges disabled before and in any order *)
(* of the edges, TLoopBreaker leaves no cycle and cuts no edge that is not *)
(* on one.                                                                 *)
THEOREM LoopBreakerCutsExact == Spec => []CutsExact
<1>1. Inv => CutsExact
  <2> SUFFICES ASSUME Inv, RunOver PROVE EnabledAcyclic /\ NoNeedlessCut
    BY DEF CutsExact, EnabledAcyclic, NoNeedlessCut
  <2>1. DfsInv /\ GraphTyped /\ AllBlack
    BY DEF Inv, DfsInv, RunOver
  <2>2. ASSUME NEW e \in Edge \ disabled, Leads(Node, target[e], source[e]) PROVE FALSE
    <3>1. PICK f, k : k \in Nat /\ Ranking(f, k)
      BY <2>1 DEF DfsInv, Ranked
    <3>2. f \in [Node -> Nat] /\ \A x \in Edge \ disabled :
            source[x] \in Node /\ target[x] \in Node /\ f[target[x]] < f[source[x]]
      BY <2>1, <3>1 DEF Ranking, AllBlack, GraphTyped
    <3>3. PathIn(Edge \ disabled, Node, target[e], source[e])
      BY <2>2 DEF Leads
    <3>4. f[source[e]] <= f[target[e]]
      BY <3>2, <3>3, PathDescends
    <3> QED
      BY <3>2, <3>4
  <2>3. ASSUME NEW e \in disabled \ cutBefore PROVE Leads(Node, target[e], source[e])
    <3>1. PathIn(Followed, Node, target[e], source[e])
      BY <2>1 DEF DfsInv, CutPaths
    <3>2. Followed \subseteq Edge \ disabled
      BY DEF Followed
    <3>3. PathIn(Edge \ disabled, Node, target[e], source[e])
      BY <3>1, <3>2, PathMono
    <3> QED
      BY <3>3 DEF Leads
  <2> QED
    BY <2>2, <2>3 DEF EnabledAcyclic, NoNeedlessCut
<1> QED
  BY <1>1, SpecInv, PTL

(* propagateForward() never throws its logic_error: after the loop breaker *)
(* the topological order has every node.                                   *)
THEOREM TopologicalOrderCovers == Spec => []NeverFails
<1>1. Inv => NeverFails
  BY DEF Inv, NeverFails
<1> QED
  BY <1>1, SpecInv, PTL

(* The FromClocks that propagateForward() leaves are the clocks that reach *)
(* the source of the edge.                                                 *)
THEOREM LaunchClocksExact == Spec => []FromClocksExact
<1>1. Inv => FromClocksExact
  BY DEF Inv, FromClocksExact, FromMasks
<1> QED
  BY <1>1, SpecInv, PTL

(* The ToClocks that propagateBackward() leaves are the clocks of the      *)
(* capture endpoints that the target of the edge leads to.                 *)
THEOREM CaptureClocksExact == Spec => []ToClocksExact
<1>1. Inv => ToClocksExact
  BY DEF Inv, ToClocksExact, ToMasksExact, Captures
<1> QED
  BY <1>1, SpecInv, PTL
=============================================================================
