------------------------ MODULE LogicLevelComputer ------------------------
(***************************************************************************)
(* The logic depth of a netlist (src/metrics/LogicLevelComputer): from     *)
(* each term to trace, a task walks backwards over the isos of the         *)
(* dissolved netlist, breadth first, and keeps the longest paths it met.   *)
(* The tasks run in parallel and prune each other through the map          *)
(* dnlID2ll, which they test and set without a lock.                       *)
(*                                                                         *)
(* The netlist is the data of a run: who drives a term and which terms a   *)
(* driver computes its value from.  It may have combinational loops.  Any  *)
(* set of terms may be the terms to trace.                                 *)
(***************************************************************************)
EXTENDS Integers, FiniteSets, Sequences, SequencesExt

CONSTANTS
  Workers,      \* the threads of the TBB pool
  Netlists,     \* the netlists a run is done on
  NoDriver      \* DNLID_MAX

ASSUME LogicLevelAssumption ==
  /\ Workers # {}
  /\ \A n \in Netlists :
       /\ DOMAIN n.drivers \subseteq Nat
       /\ n.starts \subseteq DOMAIN n.drivers
       /\ \A t \in DOMAIN n.drivers : n.drivers[t] \subseteq DOMAIN n.inputs \cup n.stops
       /\ \A d \in DOMAIN n.inputs : n.inputs[d] \subseteq DOMAIN n.drivers /\ IsFiniteSet(n.inputs[d])
       /\ IsFiniteSet(DOMAIN n.inputs)
       /\ NoDriver \notin DOMAIN n.inputs

VARIABLES
  net,            \* the netlist; no step changes it
  toTrace,        \* terms no task has been started for
  pc,             \* "idle", "walk" (at the loop over drivers) or "mark"
  queue,          \* the queue of the task a worker runs
  path,           \* the path taken from it
  todo,           \* drivers of the last term of path still to be looked at
  driver,         \* the driver that passed the test
  dnlID2ll,       \* the shared map; 0: no entry
  local,          \* localMaxLogicLevel of each worker
  combined,       \* workers whose result was added to the members
  maxLogicLevel,  \* maxLogicLevel_
  logicLevels     \* logicLevels_; no path is met twice, so it is a set

vars == <<net, toTrace, pc, queue, path, todo, driver, dnlID2ll, local, combined,
          maxLogicLevel, logicLevels>>

-----------------------------------------------------------------------------
(* A path is a sequence of pairs of a term and the driver it is behind.    *)
LastTerm(p) == Last(p)[1]

Level(p) == Len(p) - 1

(* Drivers that are neither sequential nor ports of the top design. *)
Followed(t) == net.drivers[t] \ net.stops

(* Mutant: a path as long as the longest one so far is given up. *)
MutPruned(d, p) == dnlID2ll[d] # 0 /\ dnlID2ll[d] >= Len(p)

(* A longer path came to d before. *)
Pruned(d, p) == dnlID2ll[d] # 0 /\ dnlID2ll[d] > Len(p)

(* The inputs of d, in their order, that make path p one gate longer; a    *)
(* gate that is on the path already is left out.                           *)
FreshInputs(p, d) ==
  {s \in SetToSeqs({t \in net.inputs[d] : <<t, d>> \notin Range(p)}) :
     \A i, j \in DOMAIN s : i < j => s[i] < s[j]}

Extensions(p, d, s) == [n \in DOMAIN s |-> Append(p, <<s[n], d>>)]

Kept(l, p) ==
  CASE Level(p) > l.max              -> [max |-> Level(p), paths |-> {p}]
    [] Level(p) = l.max /\ l.max > 0 -> [l EXCEPT !.paths = @ \cup {p}]
    [] OTHER                         -> l

-----------------------------------------------------------------------------
(* A worker takes a task of the parallel_for_each. *)
Start(w, t) ==
  /\ pc[w] = "idle"
  /\ t \in toTrace
  /\ toTrace' = toTrace \ {t}
  /\ queue' = [queue EXCEPT ![w] = << << <<t, NoDriver>> >> >>]
  /\ pc' = [pc EXCEPT ![w] = "walk"]
  /\ UNCHANGED <<net, path, todo, driver, dnlID2ll, local, combined, maxLogicLevel, logicLevels>>

(* The head of the while loop. *)
Pop(w) ==
  /\ pc[w] = "walk"
  /\ todo[w] = {}
  /\ queue[w] # <<>>
  /\ LET p == Head(queue[w])
     IN  /\ path' = [path EXCEPT ![w] = p]
         /\ local' = [local EXCEPT ![w] = Kept(@, p)]
         /\ todo' = [todo EXCEPT ![w] = Followed(LastTerm(p))]
  /\ queue' = [queue EXCEPT ![w] = Tail(@)]
  /\ UNCHANGED <<net, toTrace, pc, driver, dnlID2ll, combined, maxLogicLevel, logicLevels>>

(* Mutant: the loop does not get past a driver it skips. *)
MutSkip(w, d) ==
  /\ pc[w] = "walk"
  /\ d \in todo[w]
  /\ Pruned(d, path[w])
  /\ UNCHANGED vars

(* The test of dnlID2ll[d] says that the path is not worth following. *)
Skip(w, d) ==
  /\ pc[w] = "walk"
  /\ d \in todo[w]
  /\ Pruned(d, path[w])
  /\ todo' = [todo EXCEPT ![w] = @ \ {d}]
  /\ UNCHANGED <<net, toTrace, pc, queue, path, driver, dnlID2ll, local, combined,
                 maxLogicLevel, logicLevels>>

(* The test passes.  Other workers may write dnlID2ll[d] before Mark does. *)
Pass(w, d) ==
  /\ pc[w] = "walk"
  /\ d \in todo[w]
  /\ ~Pruned(d, path[w])
  /\ todo' = [todo EXCEPT ![w] = @ \ {d}]
  /\ driver' = [driver EXCEPT ![w] = d]
  /\ pc' = [pc EXCEPT ![w] = "mark"]
  /\ UNCHANGED <<net, toTrace, queue, path, dnlID2ll, local, combined, maxLogicLevel, logicLevels>>

(* dnlID2ll[driver] is set, whatever it is by now, and the longer paths    *)
(* are queued.                                                             *)
Mark(w) ==
  /\ pc[w] = "mark"
  /\ dnlID2ll' = [dnlID2ll EXCEPT ![driver[w]] = Len(path[w])]
  /\ \E s \in FreshInputs(path[w], driver[w]) :
       queue' = [queue EXCEPT ![w] = queue[w] \o Extensions(path[w], driver[w], s)]
  /\ pc' = [pc EXCEPT ![w] = "walk"]
  /\ driver' = [driver EXCEPT ![w] = NoDriver]
  /\ UNCHANGED <<net, toTrace, path, todo, local, combined, maxLogicLevel, logicLevels>>

(* The queue is empty: the task is over. *)
Finish(w) ==
  /\ pc[w] = "walk"
  /\ todo[w] = {}
  /\ queue[w] = <<>>
  /\ pc' = [pc EXCEPT ![w] = "idle"]
  /\ path' = [path EXCEPT ![w] = <<>>]
  /\ UNCHANGED <<net, toTrace, queue, todo, driver, dnlID2ll, local, combined,
                 maxLogicLevel, logicLevels>>

AllTraced == toTrace = {} /\ \A w \in Workers : pc[w] = "idle"

(* After the parallel part the results of the workers are put together, in *)
(* the order of the container.                                             *)
Combine(w) ==
  /\ AllTraced
  /\ w \notin combined
  /\ combined' = combined \cup {w}
  /\ maxLogicLevel' = IF local[w].max > maxLogicLevel THEN local[w].max ELSE maxLogicLevel
  /\ logicLevels' = CASE local[w].max > maxLogicLevel -> local[w].paths
                      [] local[w].max = maxLogicLevel -> logicLevels \cup local[w].paths
                      [] OTHER                        -> logicLevels
  /\ UNCHANGED <<net, toTrace, pc, queue, path, todo, driver, dnlID2ll, local>>

Init ==
  /\ net \in Netlists
  /\ toTrace = net.starts
  /\ pc = [w \in Workers |-> "idle"]
  /\ queue = [w \in Workers |-> <<>>]
  /\ path = [w \in Workers |-> <<>>]
  /\ todo = [w \in Workers |-> {}]
  /\ driver = [w \in Workers |-> NoDriver]
  /\ dnlID2ll = [d \in DOMAIN net.inputs |-> 0]
  /\ local = [w \in Workers |-> [max |-> 0, paths |-> {}]]
  /\ combined = {}
  /\ maxLogicLevel = 0
  /\ logicLevels = {}

Work(w) ==
  \/ \E t \in toTrace : Start(w, t)
  \/ Pop(w)
  \/ \E d \in todo[w] : Skip(w, d) \/ Pass(w, d)
  \/ Mark(w)
  \/ Finish(w)
  \/ Combine(w)

Next == \E w \in Workers : Work(w)

(* The caller waits until the pool has run every task to its end. *)
Spec == Init /\ [][Next]_vars /\ WF_vars(Next)

-----------------------------------------------------------------------------
Done == combined = Workers

(* The paths of level n that the netlist has, from any term to trace. *)
Gates == UNION {net.inputs[d] \X {d} : d \in DOMAIN net.inputs}

RealPaths ==
  LET P[n \in 0 .. Cardinality(Gates)] ==
        IF n = 0 THEN {<< <<t, NoDriver>> >> : t \in net.starts}
        ELSE {Append(x[1], x[2]) : x \in
                {y \in P[n - 1] \X Gates :
                   y[2][2] \in Followed(LastTerm(y[1])) /\ y[2] \notin Range(y[1])}}
  IN  UNION {P[n] : n \in DOMAIN P}

(* A driver feeds another one through one gate. *)
Feeds(d, e) == \E t \in net.inputs[e] : d \in Followed(t)

(* No combinational loop: among any drivers there is one that no other of  *)
(* them feeds, and it does not feed itself.                                *)
LoopFree ==
  \A D \in (SUBSET DOMAIN net.inputs) \ {{}} : \E e \in D : \A d \in D : ~Feeds(d, e)

(* Whatever the schedule and the lost updates of dnlID2ll: process()       *)
(* reports real paths, all of the reported level, and in a netlist without *)
(* combinational loops these are all its longest paths.                    *)
LevelsExact ==
  Done =>
    /\ logicLevels \subseteq RealPaths
    /\ \A p \in logicLevels : Level(p) = maxLogicLevel
    /\ LoopFree => \A p \in RealPaths :
         /\ Level(p) <= maxLogicLevel
         /\ Level(p) = maxLogicLevel /\ Level(p) > 0 => p \in logicLevels

(* process() ends, in a netlist with combinational loops too. *)
Terminates == <>Done

(* A longest path is found in a netlist with combinational loops too.      *)
(* Pruning makes this wrong: the path that came first to a gate may be     *)
(* unable to go on where a shorter one could.                              *)
LongestFoundInLoops == Done => \A p \in RealPaths : Level(p) <= maxLogicLevel
=============================================================================
