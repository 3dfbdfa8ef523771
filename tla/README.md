# A TLA+ model of naja

naja is a C++ library for netlists of integrated circuits: an in-memory
database of designs, terminals, nets and instances, readers and writers for the
usual formats, a flat view of the hierarchy, editing passes over it and a timing
graph. This directory models the parts of it that keep state: what the objects
point at, what each call changes, and which agreement between those pointers
every other part of the library relies on.

The modules are written from the source. Definitions carry the names of the
functions they stand for; `PROJECT.json` gives, for each definition, the file
and the lines it translates.

Contents

1. The system
2. What is hard in this code
3. The modules and how they correspond to the code
4. What the runs check
5. Bounds, symmetry, fairness
6. What is proved
7. What clients must not do, and what happens if they do
8. What is not modelled
9. Plan

## 1. The system

| component | state | operations | talks to |
|---|---|---|---|
| properties (`src/core`, wrappers in `naja_wrapping`) | a map name -> property in every object; owner and members in the property; the pointer in the Python wrapper | create, join, leave, destroy a property; destroy an object; make and drop a wrapper | every netlist object is a `NajaObject` |
| netlist connectivity (`nl/netlist/snl`) | designs; their terminals, nets, instances; the instances of a design; model of an instance; net of a component and components of a net | create and destroy each; `setNet`, `setModel`, `clone` | properties through the base class; interfaces through flat IDs |
| interfaces and flat IDs (`SNLTerm`, `SNLBusTerm`, `SNLInstance`) | flat ID, range and bits of a terminal; order IDs; the vector `instTerms_` of each instance, indexed by flat ID | add and remove terminals, destroy a bit, `setMSB`, `setLSB`, create instances, `setModel`, `cloneInterface` | connectivity, dissolved netlist (order IDs) |
| universe, databases, libraries (`nl/netlist/core`) | ownership tree, IDs, name tables, top database and top design | create, rename, destroy, `mergeAssigns` | owns all designs |
| paths and occurrences | path nodes owned by their tail instance | construct, look up, free with the instance | instances |
| equipotential, uniquification | traversals and edits along a path | extract; clone and exchange models on a path | connectivity |
| dissolved netlist (`dnl`) | flat instances and terminals, equipotential nets (isos) | build with parallel tasks, query | connectivity, order IDs |
| batch editing (`bne`) | a tree of delayed actions | add, normalise, process | uniquification |
| optimisation passes | work sets over the dissolved netlist | propagate constants, remove logic without load, reduce cells | dissolved netlist, batch editing |
| metrics (`metrics`) | queue and longest paths of each task, the shared map of levels | parallel traversals | dissolved netlist |
| timing graph (`tgraph`) | slot vectors and free lists of nodes, edges and capture edges, adjacency, clocks, masks of clocks on edges | create and remove, register clocks, propagate | built from the netlist |
| clock propagation (`tgraph`) | colours and stack of a search, in-degrees and queue, clocks at nodes, masks at edges | break loops, forward pass, backward pass | timing graph |
| formats, serialization, Python binding, physical netlist, applications | mostly none beyond the netlist | read, write, convert | all of the above |

Most of the modelled code runs in the thread of its caller. What plays the role
of concurrency there is the order of the calls: clients hold raw pointers, call in any
order, and a call sets off a cascade of `preDestroy()`, `onReleasedBy()` and
`removeInstTerm()` calls that reach into other objects. Only the dissolved
netlist, the passes and the metrics start tasks of their own; the tasks of the
dissolved netlist and of the logic levels are modelled as interleaved threads.

What makes each component correct:

* properties: both directions of an attachment agree, nothing outlives what it
  points at, no release is done twice;
* connectivity: `net_` and `components_` agree, the instances a design knows are
  exactly its instances, an instance has the terminals of its model, a call
  disturbs no connection it does not name, a clone is connected as its original;
* interfaces: the flat ID of a bit finds the terminal of that bit in each
  instance, whatever was edited before;
* timing graph: a slot is in use or free, never both; adjacency is exact; every
  edge carries masks of the same size;
* clock propagation: the loop breaker cuts every cycle and nothing else, the run
  ends, and the masks equal their definition by reachability;
* universe: registers and name tables hold exactly the live objects, and no
  teardown destroys a primitive before its instances;
* dissolved netlist: every instance has one number, and every electrically
  connected set of terminals has one iso, whatever the threads do;
* batch editing: the unfolded netlist changes where an edit was asked for and
  nowhere else, and processing ends;
* metrics: the longest combinational paths are found whatever the threads do.

## 2. What is hard in this code

`PROJECT.json` lists the hazards with their lines. They fall into six groups.

* Cascades. `NajaObject::put()` releases a property in the middle of an update of
  the very map the release edits; the destruction of a design destroys instances
  in other designs while nets refer to them on both sides.
* The same fact kept twice. Connections, attachments, models and their
  instances, flat IDs and vector slots: every operation has to move both copies.
* Numbering with holes. Flat IDs are given once and count terminals that are
  gone, new instances number without holes, buses shift in place.
* Slots that are reused. IDs in the timing graph are indices into vectors with
  free lists, handed out again after a removal.
* Tasks that share results. Threads trace nets from their drivers into common
  arrays; on a net with several drivers they overwrite each other's labels, and a
  second round has to leave no trace of the first. Others prune each other's search
  through a map that is tested and set without a lock.
* Sharing of models. A design is edited for one occurrence while others use it:
  whether a clone is made depends on the number of instances at that moment, and
  equal requests are merged so that sharing survives.

A unit test follows one order of calls. These properties need several calls, by
several actors, to go wrong, which is what the model checker enumerates.

## 3. The modules and how they correspond to the code

| module | models | checked by |
|---|---|---|
| `NajaProperties` | `NajaObject`, the property classes, `NajaPythonProperty` and the wrapper macros | `MCNajaProperties`, proofs in `NajaPropertiesProofs` |
| `SNLNetlist` | `SNLDesign`, `SNLInstance`, `SNLInstTerm`, `SNLScalarNet`, `SNLScalarTerm`, `SNLBitNet` | `MCSNLNetlist`, proofs in `SNLNetlistProofs` |
| `SNLInterface` | `SNLBusTerm` and the flat-ID side of `SNLDesign` and `SNLInstance` | `MCSNLInterface`, proofs in `SNLInterfaceProofs` |
| `TGraph` | `TGraph`, `TNode`, `TEdge`, `TCaptureEdge`, `TClock` | `MCTGraph`, proofs in `TGraphProofs` |
| `TClockPropagator` | `TLoopBreaker`, `TClockPropagator` | `MCTClockPropagator`, proofs in `TClockPropagatorProofs` |
| `DNLEquipotentials` | what the isos of the dissolved netlist are, in one step | refined by `DNL` |
| `DNL` | `DNL::process()`, `DNLIsoDBBuilder`, `treatDriver()` | `MCDNL`, proofs in `DNLProofs` |
| `LogicLevelComputer` | `LogicLevelComputer::process()` | `MCLogicLevelComputer`, proofs in `LogicLevelComputerProofs` |
| `ActionTree` | `BNE`, `ActionTree`, the actions, `SNLUniquifier` | `MCActionTree` |
| `NLUniverse` | `NLUniverse`, `NLDB`, `NLLibrary`, the registration of designs | `MCNLUniverse`, proofs in `NLUniverseProofs` |

The proof modules stand each for itself: a few lemmas about natural numbers and about
sequences that list a finite set are repeated at the head of those that need them.

Operators whose names start with `Mut` are faulty variants of the definition
that follows them. No specification uses them: they are there to show that each
property notices the fault when the definition is replaced by the variant.

### NajaProperties

`properties` is `NajaObject::properties_`, `owner` and `members` are the fields
of the property classes, `shadow` is the pointer inside a Python wrapper. An
address (`Object`, `Prop`) is reused after destruction, as the allocator may do.
One action is one call of the public interface with everything it sets off:
`Put` and `Remove` contain the release of the property concerned, `Dying` and
`CutEntries` what its `preDestroy()` does to other objects. `aborted` records
that the `assert` of `removeProperty()` failed: nothing happens after that.
The value of a property is left out: nothing here depends on it.

### SNLNetlist

An object is named by the IDs that `NLID` uses: a net is a design and a net ID,
a component is a design, an instance ID (or `Self` for the design's own
terminal) and a terminal ID. The variables are the containers and pointers of
the classes. `Primitive` is a parameter because primitives are treated
differently throughout: they do not register their instances and cannot be
cloned. `bitTerm` records, for each instance terminal, the design whose terminal
it is bound to, so that a terminal left behind by `setModel()` would show.
An instance reads its terminals in the vector `instTerms_` at the flat ID of the model's
terminal, and fills that vector from the end: `flatID` is what `addTerm()` computes from
the last terminal (`NextFlatID`), `slot` the position each instance terminal was
pushed to, `size` the length of the vector, holes included. `DestroyTerm` removes
what is at the flat ID (`AtPosition`), and a clone finds its instance terminals there
(`Counterparts`); that these are the right ones is a property, not a definition.
`fault` records that an assert on a position failed, or that an instance terminal was left
behind by the removal of its terminal: nothing happens after that.
Terminals and nets are bits; direction, name and type are left out. Names cannot
conflict because the ID already identifies the object. `DestroyDesign` is the
whole of `commonPreDestroy()`.

### SNLInterface

The same designs and instances with buses: flat IDs that count bits, bits that are
destroyed by themselves, ranges that are resized. A terminal is a record
of its kind, flat ID, range and the set of its bits that exist (`bits_` holds a
null pointer for the others). `instTerms[i]` is the vector of the instance, with
`NoInstTerm` for a null pointer; an entry says which bit it is bound to and
whether it is connected. `Slot` is the lookup of `getInstTermByFlatID()`.
`setMSB()` with its checks is `SetMSB`: `Unwired` is the loop that refuses,
`Shifted` the loop that moves, `Rebound` the loop of `setModel()` that binds the
instance terminals to the bits of the new model. A call the code refuses with an exception changes
nothing and is not a step. The nets of the design itself are left out: they can
only make a resize refuse.

### TGraph

`nodes` and `links` are the vectors, `free` the free lists (last in, first out),
`live` the counters. Edges and capture edges are handled by two copies of the
same code and are one set of actions here, with the kind as parameter; where the
copies differ (masks are carried by edges only) the definition says so. `RemoveLink` is `removeEdge()` on the storage as a value, so
that `RemoveLinks` can call it for one ID after the other, as the loops of
`removeNode()` do. `orphaned` is a history variable: the clocks whose seed node was removed.
`RunAccepts` is the test at the start of `TClockPropagator::run()`.

### TClockPropagator

One run on a graph chosen in the initial state; the graph does not change during
the run because the caller waits for it. The loops of the code are one action
per iteration: `Visit`, `FollowEdge` and `FinishNode` are the three branches of
the search in `TLoopBreaker::run()`, `ProcessNode` is an iteration of Kahn's
algorithm, `CaptureNode` one of the backward pass. The order of the edges of a
node depends on earlier removals, so a step takes any of them. The properties say "is reached from" through
`Leads(S, n, m)`, a path from n to m over enabled edges and nodes of S. The masks start
with arbitrary contents, as an earlier run leaves them, and some edges may be
disabled already.

### DNL and DNLEquipotentials

`DNLEquipotentials` says what an iso is: the closure of "on the same net" over the
nets of all hierarchical contexts, with a type that follows from the constant nets
it contains. The isos appear in one step, and that step happens.

`DNL` is the code. `CreateTop`, `AddChild` and `NextParent` are the loops of
`DNL::process()` that number instances and terminals: one step is one instance, or the end
of the children of one and the next parent from the stack. Lookups (`getChildInstance`,
`getTerminal`) are offsets into ranges, as in the code. `VisitTop`, `VisitChild` and
`Return` are the recursion of `initDFSIntervals()`, with its calls as a stack.
The hierarchy is given unfolded, by the design at the end of each path (`DesignAt`), and
the history variable `path` records the path of each number: this is what
the numbering is compared with. `CollectDrivers` gives each driver an iso. Then threads take tasks (`TakeTask`) and
trace: `Visit` is one round of the loop of `treatDriver()`, which writes the shared
label of a terminal, the iso of its own task, and the shared sets of constant isos.
A round is one step because its only writes that other threads can see are to
separate entries, apart from those sets: there an insertion may be lost while
another thread is at work. `Sift` is the sequential part after the first round
(isos with several drivers become shadows and one driver of each is traced again),
`Join` the end of the second, `TraceDangling` the pass over nets without a driver.
The refinement mapping takes a terminal to its path from the top and its position,
so that it does not depend on the numbering: `done` is the end of the
computation, `result` the sets of terminals that carry the same iso ID.

### LogicLevelComputer

The netlist is data that a run does not change: the drivers of the iso of a term,
the combinational inputs of a driver, the drivers at which a trace stops and the
terms it begins at. A worker takes a task (`Start`), takes a path from its queue and
compares it with the longest ones of its thread (`Pop`), and goes through the drivers.
`FreshInputs` are the inputs of a gate that are not on the path yet; each makes a
longer path for the queue.
The test of `dnlID2ll` (`Skip`, `Pass`) and the assignment to it (`Mark`) are two
steps, because other tasks run between them; the find and the read within the test are
one, since an entry that was found stays. `Combine` is an iteration of the last loop.
The order of the drivers in an iso depends on `DNL`, so a step takes any of them.

### ActionTree

The netlist is a function from designs to their instances, each with a model and
perhaps a constant it is driven with: all that the edits look at. `addAction` is a
request with the nodes it adds to the tree. `process` begins; `NextModel`, `Merge`
and `DropOrphans` are the loops of `normalize()`; `Requeue`, `Skip` and
`ProcessNode` the three branches of the loop of `process()`. `ProcessNode` calls
`Uniquify`, which is `SNLUniquifier::process()`, applies the actions of the node
and sets the model on the instances of all its parents. `Crash` is the null pointer
that is followed when an instance is gone. What the client should see is stated on
`Occurrences`, the netlist unfolded from the top. Two places of `normalize()` and
`isPartOfTree()` have undefined behaviour (the first element of an emptied vector
is read, an element is erased from a vector in a loop over it); the model takes the
outcome of the usual vector, in which the element past the end is still there to
read as the comparison expects.

### NLUniverse

`dbs`, and the fields `libraries`, `names` and `designs` of the records, are the
intrusive sets and name maps; an object is a member of a pool and is created once.
`Insert` is the insertion of a set or map that keeps what is there, `Assign` the
`operator[]` that overwrites: the difference decides who is found. `Above`
and `Under` are the libraries reached by following owners and children, as least closed
sets. `DesignBefore` is the order in which a teardown destroys designs: by the
place of their libraries in the tree, and for each two siblings by the rule of the loop
that destroys them (`DBBefore`, `RootBefore`, `SiblingBefore`).
`ReadsDead` says that an instance in a later design asks an earlier one, its
model, whether it is a primitive. Each call has the guards of the code and no others, except
those that name a member of `Habits`: `NLDB::setID()` takes any ID and any database, and
`SNLInstance::create()` any model. Not modelled is the library type `InDB0`, which nothing in
the library creates; one with designs of its own would be destroyed
among the libraries of primitives, in the order of IDs. Instances of designs that are not primitives are
destroyed with their model and are in `SNLNetlist`.

## 4. What the runs check

Runs that must pass:

* `najaProperties` - `Coherent`, `NoDangling`, `DiesWithOwner` and
  `WrapperTracksObject` hold after every call; a group dies with its last member
  (`NoMemberlessGroup`). An assert fails in a call that puts a property over a private one of
  the same name and in no other (`AbortsOnlyOverPrivate`): every client call is in
  the run, apart from `leave()` of a group the object is not in.
* `snlNetlist` - no pointer dangles (`ReferencesLive`, which joins `OwnersLive` and
  `ConnectionsLive`); `ConnectionsAgree`, `SlavesAgree`, `InstTermsMirrorModel`
  after every call; flat IDs and positions fit together, so that no assert fails and no
  instance terminal is left behind (`NoFault`); no step disturbs a connection it does not name
  (`ConnectionsKept`); `CloneMirrorsOriginal`. Clients keep the rules of section 7.
* `snlInterface` - designs under instances that exist already, clones of designs, and
  instances that change between models: the lookup is exact (`LookupFindsBit`), no
  instance terminal outlives its bit (`NoDanglingInstTerm`), flat IDs are distinct,
  order IDs are up to date (`OrderIDsAreRanks`), and a connection stays at its bit
  (`WiresStay`).
* `tgraph` - `SlotsAccounted`, `GraphSound` (exact adjacency over live nodes) and
  `MasksSized` after every call, and IDs are stable handles (`LinksStable`). The hard
  case is an edge from a node to itself, which `removeNode()` meets twice.
* `clockPropagator` - on every graph of four nodes and three edges, in every order
  of following edges: what remains is acyclic and nothing was cut that is not on a
  cycle (`CutsExact`), the `logic_error` of the forward pass is not thrown
  (`NeverFails`), the masks equal their definitions by reachability
  (`FromClocksExact`, `ToClocksExact`), and the run ends (`Terminates`).
* `dnl` - two threads in every interleaving. `ImplementsEquipotentials` is the
  refinement of `DNLEquipotentials`, liveness included; `NumberingExact` the numbers,
  lookups and intervals; `IsoListsItsTerms` that an iso and the labels agree, so
  that nothing of the first round survives on a net with several drivers;
  `AssertionsHold` the two assertions of the code.
* `logicLevel` - two tasks in every interleaving, on every small netlist.
  `LevelsExact`: the reported paths are real and of the reported level, and without
  combinational loops they are all the longest paths there are. A task that follows a
  path because it did not see a longer one does too much, never too little: a longest
  path has the longest prefix at each gate, and only a longer one prunes it.
  `Terminates`, with combinational loops too.
* `actionTree` - up to four requests in two hierarchies, in each mode. `EditsExact`:
  without normalisation the unfolded netlist changes exactly as asked; with it, it
  does when the edited occurrences of a design are edited alike and a design has its
  instances in one design. `AssertionsHold`: those of `normalize()` and
  `verifyTree()`. `MergedShareModel`: what was merged keeps sharing a model.
  `Terminates`: a node that is put back in the queue is reached again.
* `nlUniverse` - `RegistryExact`, `LookupsFind` and `ModelsOutliveInstances` through
  every order of creating, renaming, renumbering and destroying, for clients without
  the habits of section 7, when nested libraries have other names than those of the
  database.

Runs that show a disagreement between the code and what the repository says of
it; each is a finding in `PROJECT.json` with the line quoted:

* `instantiateHoles` - an instance of a design one of whose terminals was removed
  finds the wrong terminal for a bit, or none.
* `joinOverPrivate` - `join()` on an object that holds a private property of the same
  name, documented to replace it, fails an assert: `put()` erases the entry and the
  release of the old property erases it again (`NajaObject.cpp:64`).
* `editsLeak` - with normalisation, deleting 3/1 and 1/1/1 deletes 2/1/1 too, where
  3 and 1/1 have the same model: the two nodes are merged, and the model edited for
  both is set on 1/1 before the design of 1, which 2 shares, is made unique. The same
  property also fails because equal actions may differ in the constant and equal nodes
  in the instances of their children.

Further configurations, not among the runs, reproduce what the passing runs leave out; in each
TLC finds the property violated, and section 7 says why:

| configuration (module) | property |
|---|---|
| `MCLeaveForeign.cfg` (`MCNajaProperties`) | `LeaveIsLocal` |
| `MCRecreateTerm.cfg` (`MCSNLNetlist`) | `InstTermsMirrorModel` |
| `MCCloneHoles.cfg` (`MCSNLNetlist`) | `CloneMirrorsOriginal` |
| `MCDestroyPrimitive.cfg` (`MCSNLNetlist`) | `OwnersLive` |
| `MCCloneInterface.cfg` (`MCSNLInterface`) | `CloneHasSameInterface` |
| `MCReusedSeed.cfg` (`MCTGraph`) | `RemovedSeedRejected` |
| `MCLogicLevelLoops.cfg` (`MCLogicLevelComputer`) | `LongestFoundInLoops` |
| `MCLibraryNames.cfg` (`MCNLUniverse`) | `LookupsFind` |
| `MCTakenID.cfg`, `MCLastDBID.cfg` (`MCNLUniverse`) | `DBsRegistered` |
| `MCMoveDB0.cfg` (`MCNLUniverse`) | `DB0GoesLast` |
| `MCForeignModel.cfg`, `MCDestroyModel.cfg` (`MCNLUniverse`) | `ModelsOutliveInstances` |

## 5. Bounds, symmetry, fairness

* `MCNajaProperties`: three objects, since a relation needs an owner, a member
  and a bystander; a private property, two groups and two relations under one
  name, so that every kind can replace every other; two proxies. All objects and
  properties of one kind are interchangeable, and the run uses that symmetry.
* `MCSNLNetlist`: two designs and a primitive, two terminal IDs, two net IDs and at most
  two nets in all, one instance ID per design. Two terminals are what a hole needs:
  the first is removed and the second keeps its flat ID. This gives an instance of a design, an instance of a
  primitive, a clone of a design with an instance, a design that instantiates
  itself, and a component with a choice of nets. Two nets are needed to see a
  component move. `MCRecreateTerm` is the same with the habit `"grow"`; `MCCloneHoles` has
  `"instantiate"` and a third terminal, so that the lookup beside a hole finds
  another terminal instead of the end of the vector.
* `MCSNLInterface`: terminal IDs 0 and 1, scalar or bus, a falling bus of three bits
  and a rising bus of two: shifting needs three bits to show an error of one, and
  the direction changes the sign. At most three objects and five flat IDs: one design
  with both buses and two instances, one created before an edit and one after it, or
  two designs of two bits each, one perhaps a clone of the other, and an instance that
  changes between them.
* `MCTGraph`: two nodes, two links of each kind, one clock. A self loop next to
  another edge, a slot freed and taken again, and a clock registered between the
  two all occur.
* `MCTClockPropagator`: all graphs with four nodes and three edges, one edge
  perhaps disabled before. They contain every short loop, a self loop, parallel edges,
  two loops that share an edge, and a seed, a path with a fork or a join and an
  endpoint. The capture edge and the flop output have fixed places: every labelling
  of the graph around them occurs.
* `MCDNL`: a top with an input, an output, an assign and two instances of a design
  with a driver and a load; six wirings of the top by three of the inner design, with
  and without constant nets that agree or conflict, eight instances on three levels, so that
the stack holds siblings of different parents. Two threads suffice to have two
  traces of one net interleave; three tasks wait for them.
* `MCLogicLevelComputer`: two terms to trace and three gates, one with two inputs; the
  first term has one or two drivers, every other wiring of the terms occurs, and one
  gate may be sequential. Paths of different lengths to one gate, met by two tasks, and
  loops of one to three gates are among them.
* `MCActionTree`: three instances of a design with two instances of a design with a
  primitive, and a variant in which the inner design is instantiated at the top too.
  Ten requests at three depths; three of them without normalisation, four with it,
  which is what two equal pairs of edits need to be merged.
* `MCNLUniverse`: DB0 and two databases, so that the order among user databases matters
  and changes with a new ID; three libraries that may be nested in each other, three
  designs and two instances. Names come with one user database, the one with ID 5, and without
  designs (`NamesOrDesigns`): two for root libraries, two for nested ones, so that each can be
  renamed to another name, to none and back. Designs and databases do not look at the
  names of libraries.
  Pools are used up once: a slot that is reused is covered by the IDs, which are.

`CHECK_DEADLOCK FALSE` appears where the model really stops: an interface or a
timing graph that has used up its bound, a universe that was destroyed, or a
propagation, a dissolution, a computation of levels or a batch of edits that has ended.

Fairness is assumed where the code runs to an end once called. `TClockPropagator`,
`DNL` and `LogicLevelComputer` have weak fairness of the whole next-state relation: the caller waits for
`run()` or `process()`, and the parallel loops return when their tasks are done, so a
step that can be taken is taken; nothing is assumed about which thread takes it.
`ActionTree` has weak fairness of the steps of `process()` only: a client need not
call it. All other modules state safety only.

## 6. What is proved

TLAPS checks the following for every value of the constants: any number of
objects, properties, designs, terminals, nets, instances, nodes, edges, clocks and
workers. Each module has one inductive invariant, named `Inv` or made of the parts
named below, one lemma per action, and the theorems as its consequences.

`NajaPropertiesProofs`

* `TypeCorrect` - types, from `ConstantsAssumption` alone.
* `AttachmentSafe` - the four safety invariants, for clients that do not leave groups
  they are not in (`~LeavesForeign`); puts over private properties, after which an assert has
  failed, are included. The inductive invariant `Inv` adds `Roles` to them: a group
  has no owner, private properties and proxies have no members, nobody is owner
  and member of the same property, and only proxies have wrappers. Without the
  last but one, an owner that is also listed as a member would have its entry
  erased twice by a cascade. The argument goes by the two shapes every call has:
  `ReleaseSafe` (an object releases some of its properties, perhaps while it is
  destroyed) and `PutSafe` (it releases one and captures another), each with a
  lemma for the agreement of maps and members; the actions are instances of them.
  `NoPointerDangles`, `AttachedDieWithOwner` and `WrappersTrackObjects` state the parts.
* `GroupsDieWithLastMember` - the action property about groups, without a condition on clients.
* `OnlyReplacingPrivateAborts` - a step that fails an assert is a `put()` over a private
  property of the same name, under the same condition. That a release never erases an
  entry that is not there needs `Coherent` and `Roles` in the state before.

`SNLNetlistProofs`

All theorems are for clients that do not edit or destroy a primitive that has instances and
have none of the habits of section 7 (`Careful`): without that, `MCRecreateTerm` and
`MCCloneHoles` refute two of them.

* `NetlistCoherent` - types and the six invariants together. The invariant has two parts,
  `Inv` about the pointers and `Pos` about the positions. `Pos` says that the flat IDs of
  a design rise with the IDs of its terminals (`FlatIDsOrdered`), and that the vector of an instance
  holds each instance terminal at the flat ID of its terminal, inside its bounds
  (`SlotsAgree`). From it follow the two facts that bring the code's lookups by
  position back to IDs: what `DestroyTerm` finds at a flat ID is the instance terminal of that
  terminal and is found in every slave instance (`DestroyTermByID`), and a clone finds
  for each component the one with the same IDs (`CloneByID`). The parts of `Inv` are inductive as one
  conjunction: that destroying a design reaches all its instances needs
  `SlavesAgree`, that the terminals it disconnects are all there are needs
  `InstTermsMirrorModel`, and that emptying a net leaves nobody behind needs
  `ConnectionsAgree`. One lemma per action; the destructive ones rest on a
  lemma about `Cut`, which disconnects a set of components and a set of nets.
  `NoReferenceDangles`, `SlavesAreInstances` and `InstTermsFollowModel` state the
  parts.
* `CloneIsExact` and `OthersConnectionsKept` - the action properties, from the
  same invariant.

`SNLInterfaceProofs`, all for clients without the habits of section 7
(`Habits = {}`): without that condition `instantiateHoles` refutes the first.

* `InstTermLookupExact`, `InstTermsNeverDangle`, `FlatIDsNeverClash`,
  `OrderIDsNeverStale` - the four invariants. The inductive invariant says of the
  terminals of a design that they lie one behind the other in the order of their IDs,
  each as wide as its range (`Sound`), and of an instance that its vector covers the
  flat IDs of its model, that every entry that is not null is at the flat ID of
  its bit, and that no bit is without an entry (`Fits`). With buses
  disjoint the position in the vector determines the bit, which is what the lookup
  needs; that the space of a terminal never overlaps the next one is what resizing
  keeps, because it shifts all later terminals and the entries of all instances by the
  same amount.
* `ConnectionsStayAtBits` - the action property `WiresStay`, for each operation the
  invariant before and after it and where it moves the entries.

`TGraphProofs`

* `SlotsAccountedHolds`, `GraphSoundHolds`, `MasksSizedHolds`, `LinksStableHolds`.
  The inductive invariant is `Sound` of the storage: a slot is alive or on the free list,
  once; the lists of a live node name each live link at it once and nothing
  else; the counters are cardinalities. `removeNode()` calls `removeEdge()` for the IDs
  of copies of its lists: that each call keeps the storage sound, also the second one for
  a loop on the node, which finds the edge dead, is an induction over those lists
  (`Sound` is stated on a storage value for that reason). At the end no live link is at
  the node, so it may be freed.

`TClockPropagatorProofs`, for every finite graph (`GraphAssumption`):

* `LoopBreakerCutsExact` - the invariant of the search: the grey nodes are the stack, each
  reaches the next over enabled edges, and an enabled edge from a finished node
  leads to a node that finished before it. When the search ends the edges left descend in the
  order of finishing, so there is no cycle; an edge was cut only when it led to a grey node,
  from which the stack leads back.
* `TopologicalOrderCovers` - the in-degrees count the enabled edges from nodes not yet processed;
  if the queue ran empty before the end, the nodes left would each have a predecessor
  among them, and the first of them to finish in the search would contradict the order.
* `LaunchClocksExact`, `CaptureClocksExact` - a processed node holds exactly the clocks whose seed
  leads to it, since all its predecessors were processed before it; the backward pass
  goes through the same order from the other end.

`LogicLevelComputerProofs`

* `LogicLevelsExact` - for every finite netlist, number of workers and schedule. That the
  reported paths are real needs that queues hold only real beginnings of paths. That
  none of the longest ones is lost is an invariant of coverage: its
  start is untraced, or a beginning of it is in a queue or in the hands of a worker, or it is
  among the local results. It could only be lost by pruning at a gate whose entry in
  `dnlID2ll` is larger; that entry is the length of some path to the gate (`MapOK`,
  whatever updates were lost), and continued from there it would be
  a longer path than the longest - in a netlist without combinational loops, where the
  continuation meets no gate again. With loops it may, and the property fails
  (`MCLogicLevelLoops.cfg`).

`DNLProofs`, for every finite hierarchy (`HierarchyAssumption`), wiring, typing and set of
threads:

* `NumberingIsExact` - the numbers, lookups and depth-first intervals. The inductive
  invariant has two parts. `Numbered`: an instance is found as a child of its parent unless
  the parent waits on the stack or its children are just being numbered; the children
  numbered last are consecutive; the stack names nobody twice. That every path has a number
  in the end is an argument by the shortest path without one, whose parent would have to wait
  on an empty stack. `Searched`: the calls at work lead from the top down; what was entered
  since a call began is under its instance, and the interval of a call that returned
  holds exactly the instances under it. Both directions are needed at once: that
  nothing else falls into an interval rests on the children visited so far having finished.
* `IsosListTheirTerms` and `AssertionsAreMet`, on netlists with `PlainLeaves` (section 7). The part
  of the invariant about the traces is `Traced`: every trace stays inside the connected set
  (`Comp`, the least closed set) of its first terminal, the neighbours of what it visited are
  visited or on its stack, and its iso is a function of what it visited. A trace that
  ends has visited a closed set, hence the whole connected set. This needs that the early
  `break` of the loops over a net loses nothing: a net of which a terminal was visited has been
  pushed as a whole. In round 1 the labels on a net with several drivers are whatever
  was written last, always an iso of a driver of that set (`Round1`). From then on no two
  traces meet (`Settling`): one driver of each net with several is traced again, the isos they
  share are shadows, and a set no trace works on is labelled by one exact iso. That
  `driversToTreat` names each such net once is why the count of the assertion is right.
* `IsosAreEquipotentials` - the safety part of the refinement, `Equipotentials!Safety`, on netlists
  that satisfy `OneChildNets` as well. The nets of the traces are the wires of the hierarchy under
  the names of their terminals (`WiresNamed`), so the least closed sets correspond
  (`ConnectedNamed`); labels are given to terminals on nets only (`Labels`) and in the end to
  all of them (`AllLabelled`); hence `Finish` is the step of the abstract specification and every
  other step a stutter. That `Finish` is reached stays with TLC.

`NLUniverseProofs`, for clients without the habits of section 7 (`NoHabits`) and while the IDs of
databases do not run out (`IDsSuffice`: the IDs clients
choose leave room below `DBIDs` for as many databases as there are); section 7 says
what happens otherwise:

* `RegistersAreExact` - the inductive invariant `RegInv` says that each register holds its
  objects under their IDs (`Registers`), that a nested library has a larger ID than the one
  it is nested in, and that nested libraries are of the type of their parents. The growing
  IDs are what makes the tree end: without them `getDB()` might not reach a
  database. Libraries are created with an ID above all of their database, so a
  destroyed one may leave its ID to a later one and the order still holds.
* `TeardownIsSafe` - from the same invariant: an instance and its model are in libraries of
  different type, hence in different trees of root libraries. In one database the standard
  ones go first; otherwise the model is in DB0, which has ID 0 and goes last.
* `LookupsAreExact` - needs also that no nested library has the name of one of a
  database (`NamesApart`); `MCLibraryNames` refutes it otherwise. `Named` relates a
  name table to the objects of its owner, with whatever other entries the table has: the
  table of a database also gets those of nested libraries, and of empty names.

Induction. The induction theorems of the library take an operator as parameter, which the
provers cannot instantiate. The arguments above that need induction (over the lists of a
node, over paths, over the order of finishing, up the tree of libraries) are stated with sets instead: a
nonempty set of naturals has a least element, which each module derives from the
well-foundedness of `<`, so the set of indices at which a claim fails, if not empty,
has a first one.

Assumptions: those named in the modules, which TLC evaluates in the runs. Graphs and
netlists are finite; driver and input maps of a netlist fit together. The conditions on
clients (`LeavesForeign`, `Careful`, `Habits`, `NoHabits`, `IDsSuffice`, `NamesApart`) and on netlists
(`PlainLeaves`, `OneChildNets`) are hypotheses of the theorems that need them, and the passing
runs are instances that meet them.

Only model-checked: `ActionTree`, which uses recursive operators, with which the prover cannot
work. Liveness (`Terminates`, and the eventual step of
`DNLEquipotentials`) stays with TLC, since the prover does not reason about fairness.

## 7. What clients must not do, and what happens if they do

Each of these is a parameter of a module. The passing runs and the theorems leave
it out; setting the parameter reproduces the behaviour described. Where a
configuration is named, TLC finds a violation with it.

* `LeavesForeign` of `NajaProperties` (`MCLeaveForeign.cfg`) - `leave()` of a group the object
  is not in erases the property of that name the object does hold, because
  `NajaObject::remove()` erases by name; that property keeps counting the object, so that
  `Coherent` fails too.
* `PrimitiveEdits` - `"destroy"` (`MCDestroyPrimitive.cfg`, `OwnersLive`): a primitive does
  not know its instances, and destroying it leaves their `model_` dangling; the branch
  that should refuse is empty (`SNLDesign.cpp:198`). With `"grow"` the
  instances a primitive has do not get the new terminal, with `"shrink"` they
  keep the removed one: `InstTermsMirrorModel` fails.
* `Habits` of `SNLInterface` and of `SNLNetlist` - `"instantiate"`: an instance of a design
  whose flat IDs have holes is the run `instantiateHoles`; the clone of a design with such an
  instance (`MCCloneHoles.cfg`) has a net on another terminal of it than the
  original, or fails an assert, because `cloneComponents()` looks for instance terminals
  by flat ID (`SNLBitNet.cpp:69`) in vectors filled without holes. `"grow"`: a terminal added after
  the last terminal was removed gets a flat ID that addresses a null
  slot in the instances that exist; when it is destroyed in turn its instance terminals stay,
  with a dangling `bitTerm_` (`MCRecreateTerm.cfg`, `SNLInstance.cpp:215`). `"outOfOrder"`: terminals with explicit IDs
  below the largest one get the same flat ID. `"exchange"`: `setModel()` accepts
  a model whose flat IDs or destroyed bits differ, and the lookup fails after it.
* `NestedNames` and `RootNames` with a common name (`MCLibraryNames.cfg`) - a nested library with
  the name of a library of the database takes over its entry in the name table
  (`NLDB.cpp:123`), and removes it when it is destroyed.
* `Habits` of `NLUniverse` - `"takenID"` (`MCTakenID.cfg`): `NLDB::setID()` renumbers to an ID in
  use, the insertion does nothing (`NLUniverse.cpp:92`), and the database drops out of the
  universe. `"touchDB0"` (`MCMoveDB0.cfg`): DB0 is renumbered behind another database and
  is not the last one destroyed, or is destroyed by itself. `"foreignModel"`
  (`MCForeignModel.cfg`): an instance of a primitive of another user database, which
  `SNLInstance::preCreate()` accepts, reads a model that is gone when the universe destroys
  that database first (`SNLInstance.cpp:391`). `"destroyModel"` (`MCDestroyModel.cfg`): so does an
  instance whose primitive was destroyed, by itself or with its library. With either
  `ModelsOutliveInstances` fails.
* `DBIDs` - the number of database IDs, 256 in the code. `NLUniverse::addDBAndSetID()`
  adds one to the last ID in eight bits: after a database with the last ID the next gets ID 0,
  the insertion beside DB0 fails without notice, and the database is never registered
  (`MCLastDBID.cfg`, with four IDs).

Not tied to a parameter:

* Replacing a private property by `join()` or by a relation, the run `joinOverPrivate`. The
  passing run and the theorems of `NajaProperties` include it.
* `MCCloneInterface.cfg` - the clone of a bus creates all bits of the range, also those
  that were destroyed in the original (`SNLBusTerm.cpp:257`).
* `MCReusedSeed.cfg` - a clock whose seed node was removed is accepted when a new node
  has taken the slot, and is propagated from there (`TClockPropagator.cpp:149`).
* An instance with exactly one child counts as a leaf in `DNLInstanceFull::isLeaf()`,
  which compares the ends of an inclusive range (`DNL.h:215`). The pass over dangling
  nets then skips a net inside it that no driver and no outer net reaches, and its
  terminals have no iso. `OneChildNets` says of the wirings that this does not happen;
  `IsosAreEquipotentials` needs it, the other theorems about `DNL` do not.
* A trace follows the net inside a design without instances too, unless it is an assign
  (`DNL_impl.h:59`), while the drivers are collected by the nets outside. Two terminals
  of such a design on one inner net would be joined, and the last pass could
  come to a driver, against its assertion (`DNL_impl.h:583`). `PlainLeaves` excludes it: inside a
  leaf each net has one terminal and is not constant, as in the primitives libraries define.
* `MCLogicLevelLoops.cfg` (`LongestFoundInLoops`) - in a netlist with combinational
  loops the reported maximum depends on the schedule: a path that comes to a gate first
  prunes a shorter one, and may itself be unable to go on because it has passed the next
  gate already.
* `LogicLevelComputer` takes `getID()` of a top terminal for its number in the dissolved
  netlist (`LogicLevelComputer.cpp:32`). The two agree while the terminals of the top are
  scalars without gaps; the bits of a bus share one ID, so that some outputs are not
  traced and another terminal may be. The model starts from any set of terms.
* `NLDB::commonPreDrestroy()` disposes of a set of libraries while the destruction of
  a nested library removes it from the same set; nested libraries were unlinked
  before, so the removal finds nothing (`NLDB.cpp:86`, `NLLibrary.cpp:195`).

One more call has no step in the model: resizing a bus over a bit that was
destroyed before dereferences the null pointer in `bits_` (`SNLBusTerm.cpp:320`,
and the same in `setLSB()`). The guard `Cutoff(...) \subseteq Bits(d)` leaves it
out.

## 8. What is not modelled

Formats, serialization, visualisation, logging and the argument conversion of the
Python binding translate data and keep no state of their own that others read.
The readers make up most of the lines of the repository; they are translation tables
over a grammar, and a finite instance of one says nothing the next test file would
not. The physical netlist repeats the ownership scheme of the structural one. Values
(names, parameters, attributes, truth tables, geometry) are data. The component
list in `PROJECT.json` has an entry with the reason for each part. Within the
modelled components, the following is left out for now: bundles and bus nets,
`mergeAssigns()` and `setTermsNets()`, and the shared paths that an instance frees
when it is destroyed; reductions and drives of top terminals in the batch editor
(the control is that of the other actions, the data is in truth tables);
isos computed on demand (`getCustomIso()`); the fanout count and the logic cone, which
are traversals without shared state; libraries with explicit IDs, and
`topDB_` and `topDesign_`, which nothing clears when what they name is destroyed
(`NLDB.cpp:223`): a client that destroys the top has to set a new one.
`mergeAssigns()` and `setTermsNets()` stay out of `SNLNetlist` because its proofs go
through every action: they are sequences of `setNet()` and `destroy()` calls, which
are there, and the ring of assigns described in the hazards is the case beyond that.

## 9. Plan

In this order; each line is a module with its run, then its theorems.

1. `SNLSharedPath`: paths that name a path that was freed with its instance.
2. `mergeAssigns()`, `connectAllComponentsTo()` and `setTermsNets()` in a module that
   extends `SNLNetlist`. Question: a ring of assigns ends with one net on both sides of
   an assign, which is then cleared and destroyed - who still points at it?
3. Constant propagation and removal of logic without load as fixed points over the
   dissolved netlist.
4. Bundles and bus nets in `SNLInterface`; the dump and load round trip on it.

Theorems to add: of `ActionTree`, once its recursion over the tree of edits is written with
recursive functions.
