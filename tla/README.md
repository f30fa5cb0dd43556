# A TLA+ development for librhdl

librhdl turns structural descriptions of digital circuits into redstone: an
entity's structure becomes a netlist of inverters, the netlist becomes a tree of
layers and channels, the tree becomes blocks, the blocks become commands. This
directory holds models of the parts of the program that decide something, what
TLC checks about them and what TLAPS proves about them. All paths below are
relative to the repository root; line numbers are those of this commit.

The program is single-threaded and persists nothing. What makes it hard is not
concurrency but *order*: every algorithm is a loop that changes the data it
decides from, the same operations reach it in any order through a C API, and most
of what it relies on is said only by `assert` (the default build is Debug, so the
assertions are live).

## 1. The system

| Part | Code (`src/`) | State | Operations | Status |
|---|---|---|---|---|
| Channel router | `representation/spatial/tree/divisivewires.cpp`, `wire.cpp`, `collectedwire.cpp` | wires, `less_`, predecessor lists, successor counts, rows | `tryInsertCrosser`, `mayBeCrossed`, `computePositions` | modelled, proofs |
| Wires and their extents | `wire.cpp`, `singlewire.cpp`, `collectedwire.cpp`, `crosser.cpp` | stops, joints, extents | crossing, connecting, drawing | modelled |
| Tree placement | `treemodel.cpp`, `node*.cpp`, `mutablelayer.cpp` | layers of node groups, positions | `createModel`, `computeSpatial` | modelled, proofs |
| Connections, segments, paths | `connection.cpp`, `connector.cpp`, `segment.cpp`, `supersegment.cpp`, `path*.cpp` | a graph of wire segments | `createSegments`, path lengths | modelled |
| Repeater placement | `fixoverlongwires_impl.cpp` | open paths, repeaters | `fixConnection`, splits | modelled, proofs |
| Blocks | `representation/blocks/`, `toBlocks` in `representation/spatial/tree/` | a space of blocks | drawing, slicing | what is drawn; not slicing and printing |
| Simulator of blocks | `simulation/blockssim.cpp`, `simulation/blocks/` | power of every block | propagate, `test`, `extendTest` | modelled as the test that BGTree runs |
| Netlist | `representation/netlist/` | graph, interface map | optimising constructor, splits, `hasCycles`, `copyInto`, `simStep` | modelled, proofs |
| Netlist composition | `transformation/structure2netlist.cpp` | graph under construction | `connect`, `merge`, `oneway` | modelled |
| Entity | `entity/`, `representation/representation*.cpp` | list of representations, indices by type, timings | `addRepresentation`, `getRepresentation`, `generate` | modelled, proofs |
| Transformer | `transformation/transformer.cpp` | shortest paths, two queues | registration, search, lookup | modelled, proofs |
| Transformations | `netlist2tree.cpp`, `bgtree.cpp` | none | `execute` | modelled |
| Structures and builder | `representation/structural/` | ports, connections, partition classes | connect, realize, finish | modelled, proofs |
| Builder ports | `representation/structural/builder/*port*.cpp` | enclosed ports, peers | select, realize, search | modelled, proofs |
| Interfaces | `interface/` | immutable | compatibility checks | verdicts, not messages |
| Simulators of structures and netlists | `simulation/hierarchicalsim.cpp`, `netlistsim.cpp`, `simulator.h` | levels of nets, state caches | `set`, `processInput`, `step`, `get` | modelled |
| Behavioural simulators | `simulation/fast/`, `lib/` | state, last inputs | `step` | modelled for the library's behaviours |
| C API | `c_api/` | typed handles, names | `rhdl_*` | the calls that construct, `rhdl_transform`, fatal errors |
| C++ construction API | `construction/` | handles | `Component`, `>>`, `=`, destructors | what it adds to the C API |
| Partition classes | `util/*partition*` | classes of ports | `ingest`, `reject`, `kill` | as connections use them |
| Dictionaries | `util/dictionary/` | names in order | add, replace, find | a name is unique and keeps its place |
| Start-up, library | `init/`, `lib/` | flags, eleven entities | fixed sequence | the entities, made by the same operators as a program's |
| Containers, caches | `util/` | data | data | not modelled |
| C values, namespaces | `c_api/` | views | reads | not modelled |
| rhdc | `examples/rhdc/` | interpreter scopes | commands | not modelled |

How they interact. A client builds a *structure* through the C API or the C++
construction API. Finishing it adds the structure to its *entity*, which, if it is
stateless, at once generates a netlist to look for cycles: the *transformer* knows
the chain of transformations, *StructureToNetlist* asks each part's entity for its
netlist, copies it and joins it to the others, and the *netlist* constructor
removes what it finds unnecessary. Asking for commands runs the rest of the chain.
*Netlist2Tree* places nodes layer by layer; while it does, every vertical wire that
crosses a channel asks that channel's *router* for a column, and rows are computed
when a channel is complete. Segments are then built, wires that are too long get
repeaters, and where that fails the vertex is split: a new netlist, with a new
timing, is added to the entity and the transformation starts over. Simulators read
all of these and compare them.

What must be right, part by part:

* router: no accepted sequence of crossings makes a channel unroutable; rows keep
  nets apart; nothing routable is refused; routing ends;
* netlist: removing and adding pairs of inverters changes neither what the circuit
  computes nor whether it has feedback;
* entity: no cyclic circuit is synthesised for a stateless entity; equal timings
  mean equal delays; a part can be simulated;
* transformer: every pair of types gets a shortest chain of existing steps;
* builder: a finished structure has exactly the connections asked for, in any order;
* tree: an inverter for each of the netlist's, on the same nets, no wire in the way
  of another net's;
* repeaters: every source reaches every destination of its net, and nothing else;
* simulators: all of one entity give the same outputs after any inputs;
* C API: no sequence of legal calls ends in an assertion.

The hazards behind these, each at its line, are listed in `PROJECT.json`.

## 2. Modules

There are two halves. The *synthesis* half goes from a netlist to tested blocks:
`TreeModel`, `TreePlacement`, `Repeaters`, `BlockLayout` and `BlocksSim` each extend
the one before, and `Netlist2Tree` is their composition. The *construction* half
goes from calls of the API to simulators: `Ports`, `StructureBuilder` and
`StructureNetlist` describe a structure as a value, `Construction` is the program
that changes it, and `ConstructAndSimulate` adds `Simulation`. `Netlist` is shared:
both halves instantiate it for its graphs. `DivisiveWires`, `Transformer` and
`EntityRepresentations` each look closely at one component.

| Module | What it is |
|---|---|
| `ChannelRouting` | abstract: columns are taken while the channel stays routable, then rows are assigned such that no two nets touch |
| `DivisiveWires` | the router as it is coded; implements `ChannelRouting` |
| `DivisiveWiresProofs` | theorems about the router's order, its topological sort, rows and refusals, and the refinement |
| `Transformer` | registration and search |
| `TransformerProofs` | theorems about the search |
| `EntityRepresentations` | one entity and everything that appends to its list |
| `EntityProofs` | theorems about it |
| `Netlist` | the optimising constructor and the splitting constructor |
| `NetlistProofs` | theorems about both |
| `Minima` | lemmas: induction by a least counterexample, recursion over a measure, left folds |
| `TreeModel` | `createModel`: netlist to layers of nodes |
| `TreePlacement` | `computeSpatial`: columns, rows, heights |
| `Repeaters` | `fixBrokenLinks`: segments, paths, repeaters, splits |
| `BlockLayout` | `toBlocks` |
| `BlocksSim` | the test that `BGTree` runs on the blocks |
| `Netlist2Tree` | the loop of `Netlist2Tree::execute` and `BGTree::execute`, over all of these |
| `SynthesisProofs` | theorems about it: tree, types, timing |
| `LayoutProofs` | theorems about it: the wires that are drawn |
| `Ports` | ports, compatibility, which pair a connection means |
| `StructureBuilder` | a structure under construction and what is done to it |
| `StructureNetlist` | `StructureToNetlist`, and the netlist constructor as a function |
| `Construction` | a program that constructs one structure |
| `ConstructionProofs` | theorems about it, and before them lemmas about the search for the pair that is meant |
| `Library` | the entities `lib_init` makes |
| `Simulation` | simulators of structures, netlists and behaviours |
| `ConstructAndSimulate` | construction, then all simulators of what came out |
| `MC*` | values for the constants |

### DivisiveWires

`pos` is the column of every crosser (a vertical wire that ends in the channel),
`less`, `predecessors` and `numSuccessors` are the members of the same names;
`order`, `remainingSucc`, `next` and `relpos` belong to `ascendingOrder` and
`computePositions`. `TryInsertCrosser` is one call with everything it does:
the test, the insertion, `extendRelation` and `makeLess` with its two loops over
the matrix. `ComputePositions`, `TakeGreatest`, `AssignRows`, `DropNext` and
`Finish` are the steps of `computePositions`. A collected wire's secondary
comparator is a tie-break that no property depends on; the model takes any of the
greatest wires. `release()` is not modelled: its only caller is commented out
(`treemodel.cpp:387`). Which columns are tried, and in which order, is the business
of tree placement: here any crosser may try any column.

### Transformer

`work` and `nextWork` are the two queues. They are sets taken in type order, which
is the order the code's queues keep: they start sorted, and an item is only ever
moved to the end of the other queue in the order it was taken. `Work` is one item,
with the whole inner loop over intermediate types as the operator `Chosen`. When
two transformations between the same types are registered the last one wins; a
pair of types stands for it.

### EntityRepresentations

A representation is its type, its parent, its timing, whether its netlist has
cycles (`cyclic`) and whether it was split or lengthened on its way (`altered`).
Finishing a structure, asking for a representation and `rhdl_transform` are the
actions; each contains the chain of transformations it starts, the netlists that
splitting leaves in the list, and the check of a stateless entity. What an
unexpected exception does (`cerror`, `c_api.cpp:122`) is an outcome, `failed`.
How many splits a transformation needs is left open up to `MaxSplits`.

### Netlist

A vertex is a net, an edge an inverter; parallel inverters are counted. The
constructor is one action per round of its loop over `v1` (`Visit`) and a last one
(`FinishConstruction`); `Split` is the second constructor, which starts from a
finished netlist. Of several targets of one `v2` the code keeps the first in its
map: which one that is depends on the order of insertion, so the model takes any.
Vertices keep their numbers where the code renumbers them. `Behaviour` is what can
be seen at the interfaces: the outputs in each stable state for each input, a
stable state being a fixed point of `simStep` with the inputs held. Circuits with
feedback have several of these, or none. The history variable `lost` collects the
inverters that disappear without their target having been merged; section 5 says
which those are.

### TreeModel, TreePlacement

`tree` is what `TreeModel` has made so far: nodes, their groups by layer, and the
wires that belong to none of them. A `Connection`, which the code merges as it finds
that two wires are one net, is named by the netlist's vertex: to merge is to give a
wire its net. `known`, `lower` and `upper` are `known_vertices`, `lower_vertices`,
`upper_vertices`, `edges` what `processEdges` has still to go through (how many
inverters to each target, taken target by target), and `stage` says which handler runs. An inverter whose target is
new becomes the parent of a group one layer up; one whose target is known is a leaf,
for which the net is passed up through every layer between; loose vertices and
outputs come last.

`PlaceNode` is one round of `placeNodes`: the node goes above its parent, or to a
column skipped for it, or to the first column from its layer's start that both
routers, above and below, accept.
`DivisiveWires` is not instantiated per channel. `less_` is there shown to be the
closure of the pairs of nets that meet in a column, and this is how `TreePlacement`
computes it. `ComputeVertical` is the rest of `computeSpatial`: rows, layers'
heights, low inverters. Interfaces and sets that the code sorts by address are taken
in any order. An assertion is a conjunct of the action that evaluates it, so that
failing it shows as a deadlock.

### Repeaters

Segments, super segments and the connectors between them follow from the wires and
are operators. `route` holds the paths and the candidate positions of the
connection at hand. `FixConnection` is one round of `fixConnection`: every path that
is still too long is evaluated, and then the best position gets a repeater
(`PlaceRepeater`), or there is none and the connection is given up
(`GiveUpConnection`). `SplitBroken` is what `execute` does in the end: the netlist is
split at the broken vertices, the timing is broken and the model starts anew.

`Evaluation` is `Path::evaluatePositions`, which walks along a path from repeater to
repeater and rates the positions of the stretches that are too long. What it
returns is less regular than that: it may leave after a stretch that is too long, and
rates the later ones in a later round; it counts elements from where it thinks it is
(`RateStretch`); and it relies on repeaters not standing where elements meet
or where the path ends. The operator keeps its two loops and all of its assertions;
where one fails, `Abort` ends the program. `MaxPower` is the power of a source (16).

### BlockLayout, BlocksSim

A space is a function from cells to blocks. The order of drawing is kept, since what
is drawn later replaces what was there. `BlocksSim` is one source at a time
(`Test`), then repeaters as long as any is reached (`ExtendTest`). Power spreads
through a queue in the code and level by level here, which leaves the same powers.
`links` collects, as `assessLinks` does, what each source reached.

### Ports, StructureBuilder

A port is `<<element, path>>`, element 0 being the structure; a connection is named
by the port it was made for. `build` is one record: the ports, `net` from each
real port to its connection, the relation of composite connections to those of
their components (`children` and `parents`, both kept as in the code), the parts and
the builder each belongs to. `Fits` is the compatibility check, `Meant` the search
(`findCompatibles`), which may enclose new ports on its way. `Connected` is a whole
request: search, realization of either side, joining of connections, combination of
builders; its result says whether it was granted, refused, or ended the program.
`Composed` and `Constructed` are what finishing does: realize the interface, then go
down from the top ports (`ConnectionsBuilder`).

### StructureNetlist

`StructureToNetlist` takes the structure, the entities and the order of the elements'
addresses, on which the order of joining depends. `Optimized` is the netlist
constructor run to its end as a function, for circuits whose order of visits is
settled; `Netlist` is the version with every order.

### Construction

`BeginNew`, `BeginExisting`, `Component`, `MakeComponent` (a component made on its
own, C++), `Select`, `Connect`, `Finish` and `Abort` are the calls. A *plan* bounds
a program: which entities there are, which components it makes, how many ports it
selects and how many requests succeed. `Finish` includes the destructor (`leaving`)
and a name that was taken since (`taken`). `asked` is a history of granted requests.
Beginning a structure under a name that is taken is refused and changes nothing, so
it is not an action.

### Library, Simulation, ConstructAndSimulate

The library's structures are scripts that run through the operators of
`StructureBuilder`, as the C++ code of `lib.cpp` runs through the builder. A
simulator is a record of its inputs and state. `PropagateDeep` of a hierarchical
simulator is the code's loop, down, through the parts, up, until nothing changes.
`TestEntity` and `TestProduct` make every simulator an entity has, with the netlist
and the behaviour where there is one; then `DriveInputs` and `TakeStep` alternate,
with any inputs.

## 3. Runs

| Run | Bounds | Question |
|---|---|---|
| `channel_pairs` | 3 nets, each crossed once from above and once from below, 6 columns, fairness | is the order strict, are the rows right, is the abstract channel implemented, does a placement that keeps trying end with a routed channel? |
| `channel_fork` | 4 nets that can form a chain, two of which can meet twice, 8 crossers, 4 columns | is the relation the closure of the columns, is every refusal necessary, are the counters right? |
| `transformer` | 5 types, all subsets of 11 transformations | are answers shortest, does the assertion hold? |
| `entity` | all three kinds, at most 6 representations before an operation and 2 splits in it, one user name | are timings honest, is what is synthesised acyclic, can parts be simulated? |
| `entity_accepted` | the same | does a stateless entity accept only acyclic structures? (no) |
| `entity_netlist` | the same | does the assertion in `addRepresentation` hold? (no) |
| `netlist` | 4 nets, up to 4 inverters, one input, one output, one split | are behaviour and feedback kept while no inverter is lost? |
| `netlist_outputs` | 4 nets, 3 inverters, two outputs | does the optimisation ever lose an output? (yes) |
| `netlist_cycles` | 3 nets, up to 4 inverters | is all feedback seen by `hasCycles`? (no) |
| `netlist2tree` | netlists of 3 nets, 2 inputs, 2 outputs: all with up to 3 inverters, a latch in a ring (4) and a latch with two clocks (5); range 16; at most 4 nets added by splits | do the blocks compute what the netlist did, whatever happened between, and does splitting end? |
| `synthesis_aborted` | the latch with two clocks | do the assertions of the evaluation of paths hold? (no) |
| `construction` | 13 sketches of structures of up to 3 library components, 3 requests, 2 selected ports; all 11 library entities, all input sequences | is what comes out what was asked for, and do all simulators agree? |

Why the bounds are enough to be interesting. Three nets are the least that make a cycle
through several columns, which a test of one column cannot see, and five columns the
least in which a wire can drop past another; with a sixth no crosser is left without a
column. In the fork two nets meet twice, so that the predecessor lists hold a
duplicate, and four form a chain whose middle column may come last, which only the
second loop of `makeLess` gets right. Five types with paths of three and four steps
between the same ends make the search replace a path, and two passes disagree. Two
splits and six representations allow a second structure, a rejected one, and a second
tree from the same netlist. Four nets hold the pattern the optimisation looks for
(`v1`, `v2`, `v3`) together with one net that spoils it, in every numbering, with
feedback of every length up to four.

Three nets make trees of several layers with leaves, nets passed up, loose vertices,
latches and clocks, wires beyond the range of redstone, repeaters and splits. With one
output and as few inverters at most one net of each netlist is split, in one round.
With two, the tree made from a split netlist is often split again, and sometimes two
nets at once: this is what `SplitOnce` is about. Outputs differ only in the nets they
are attached to and are declared symmetric; nothing in the model or in the properties
takes them in an order. `MaxPower` is the real range. No assertion of
`evaluatePositions` fails for up to three inverters; the latch with two clocks is there
because one does. `Added` is never used up: a behaviour that needed more would deadlock
before `SplitBroken`. Three requests are the least that join two connections that both
exist, in both orders; three components the least in which one joins two others that
are connected already. The sketches are chosen so that each kind of refusal, each way
to end and each way to realize a port is reached. Requests that succeed are bounded,
not those that are refused.

`CHECK_DEADLOCK FALSE` is set where the system really stops: a crosser may find no
column in the channel of `channel_fork`, and a netlist is finished once it is built and
split; a program of `construction` ends. In `channel_pairs` the columns suffice for
every crosser, and in `netlist2tree` every behaviour ends in `Done`: both check for
deadlock, which in `netlist2tree` means that no assertion of placement and drawing
fails.

### Properties

*Router.* `StrictPartialOrder`: `less_` never becomes cyclic, although
`mayBeCrossed` looks at one column and `checkStrictPartialOrdering` only at pairs.
`LessIsColumnClosure`: the incremental closure is the closure. `ColumnsOrdered`:
each column's constraint is recorded. `OrderComplete`: `ascendingOrder` takes every
wire and its counters end at zero. `RowsRespectOrder`, `RowsSeparated`, `RowsTight`:
in every state of dropping, no short circuit, and at the end no wire could fall
further. `RefusesOnlyUnroutable`: a refusal is always necessary. `ImplementsChannel`:
refinement of `ChannelRouting`. `Routed`: liveness.

*Transformer.* `PathsAreWalks`, `WorkIsUnsettled` (the assertion at
`transformer.cpp:101`), `AnswersAreShortest`, `PathsOnlyShrink`.

*Entity.* `SameTimingSameDelays`, `SynthesizedAcyclic`, `PartsSimulatable` (the
assertion at `hierarchicalsim.cpp:39`). The last two are stated for entities that
are made of structures. They do not hold for `EInverter` once somebody adds a
structure to it through `rhdl_begin_structure`.

*Netlist.* `BehaviourKept` and `CyclesKept`, in every state of the loop; the type
invariant includes that the interface map never points to a removed vertex, which
`remapInterface` relies on.

*Synthesis.* Through all stages: `TreeHoldsNetlist`, an inverter of the tree for each
of the netlist's, on its nets; `WiresApart`, no two nets share a cell or touch where
one is connected, across channels and layers that were computed apart;
`LinksConduct`, which is BGTree's own assertion, every source reaches every
destination of its net; `NoCrosstalk`, which BGTree does *not* look at, it
reaches nothing else; `BlocksComputeNetlist`, the stable states of the blocks
are those of the netlist that was asked for. For the loop: `TimingTold`, a model
that claims its netlist's timing needed no repeater; `SplitOnce`, a vertex is split
at most once, so that the loop of `netlist2tree.cpp:35`, which nothing bounds, ends.

*Construction.* `NetsAsAsked`: two ports share a connection exactly when a chain of
granted requests leads from one to the other, however the connections were merged.
`RelativesMutual`: composite connections and those of their components know each
other and are alive. `ConnectedTogether`, `StatelessSound`: builders that absorb
each other forget no part and no statefulness. `StructureAsAsked`: what finishing
finds from the top ports is everything that was asked for. `MeantUnambiguous`: the
search never takes one of several pairs that would fit.

*Simulation.* `NetlistComputesStructure`: for every order of the addresses the netlist
has the stable states of the structure, with parts that have a functional
behaviour and interfaces that are connected. `OutputsAgree`: hierarchical,
netlist and behavioural simulators give the same outputs after any inputs and steps.
`TestProduct` leaves out structures whose netlist lost inverters to the optimisation
(the delays differ by intent) or ran into an assertion.

Every property of a passing run has a mutant: an operator in the module, marked as
such, that changes one mapped definition in the way a plausible bug would, and that
the run then refutes.

### Fairness

The router's specification has `WF_vars(Next)`: the program is one thread that runs
the placement to its end. `Routed` is checked in a channel with enough columns.
Nothing else assumes fairness. Most other loops are over finite sets they only
shrink. For the loop of the synthesis, `SplitOnce` bounds the rounds and the
deadlock check excludes that one stops in between; a temporal formula over its
next-state relation would say no more and is out of reach for its size. A program
that constructs a structure owes nobody to go on.

## 4. Proofs

What follows is proved for every value of the constants that the named assumptions
of the modules admit: any number of wires and columns, of types, of vertices and
inverters, of representations and splits. No theorem has a hypothesis of its own.

*How.* Every invariant is shown to hold at first and to be kept by each action, one
step per action. Where an argument needs an induction (over a set that a fold takes
apart, over the length of a chain, over the ancestors of a representation) the set of
counterexamples is supposed nonempty and a least one led to a contradiction: the
lemmas of `Minima`. So what recursive functions and folds compute is proved as well:
that the function exists, from its equation, and then what it returns. The
strengthened invariants were checked by TLC, as invariants of the runs, before they
were proved.

### Router

* `OrderIsStrict`, `ColumnsAreOrdered`, `TypeCorrect`. None is inductive alone. The
  invariant is `IInv == TypeOK /\ ColumnsExclusive /\ StrictPartialOrder /\
  ColumnsOrdered`. That the order stays strict needs only that it was one and that
  `mayBeCrossed` consulted it (`InsertOrder`, over `ClosureKeepsOrder`, over
  `ClosureMembers`, which says what the two loops of `makeLess` put into the matrix).
  That every column stays ordered needs, in addition, that a side never has two
  crossers in one column: otherwise the one net that `extendRelation` looks up would
  not be the only one there.
* `OrderIsAlwaysComplete`: the sort takes every wire and its counters end at zero.
  The invariant `OInv` says what the counters count (`SuccessorsCounted`,
  `RemainingCounted`: the entries of the predecessor lists, duplicates included, of
  wires not taken yet), that `less_` is generated by those lists
  (`LessIsGenerated`), and that whatever is greater than a taken wire was taken
  before it. As a finite strict order has a maximal element, there is always a wire
  whose counter is zero.
* `LessIsAlwaysClosure`: the incremental closure is the closure that `Chains` defines
  by recursion on the intermediate wires.
* `RowsAlwaysRespectOrder`, `RowsAlwaysSeparated`, `RowsAreTight`, over `RInv`: the
  wires not yet dropped are in the row of their place in the order, those dropped are
  no higher than that, and every row below them is blocked by a wire that was dropped
  earlier and therefore stays.
* `RefusalsJustified`: when a column is refused, no order of the wires would have
  served. `RouterImplementsChannel`: every step is a step of `ChannelRouting` or a
  stutter.

### Transformer

* `Walks`, `TransformerTypes`: `WalksMeet` joins two chains at the type they share,
  `JoinIsWalk` applies it to what the inner loop chose, and registering more
  transformations keeps every chain a chain. So `Entity::generate` never asks for a
  step that does not exist.
* `WorkIsAlwaysUnsettled` (the assertion at `transformer.cpp:101`) and
  `PathsAlwaysShrink`, over `WorkInv`: the queues are disjoint, and a path known
  of a pair still in them is no shorter than the pass that works on it.
* `AnswersAreAlwaysShortest`, over `SearchInv`: a pair that has left the queues has a path no
  longer than the pass, and every pair that a chain of `k` steps joins, `k` below the
  pass, has a path of at most `k`. The proof cuts a shortest chain before its last step.

### Netlist

* `BehaviourIsAlwaysKept`, `CyclesAreAlwaysKept`, `NetlistsAreGraphs`. The invariant
  `NetlistInv` says that both graphs are graphs (edges between vertices, interfaces on
  vertices), which vertices the loop has still to take, and the two properties, which
  are about netlists that lost no inverter. A round of the loop merges `v3` into `v1` across `v2`: the proof
  maps each stable state of the smaller netlist to one of the larger and back,
  `v3`'s level being `v1`'s and `v2`'s its inverse, and each cycle likewise.
  Splitting a vertex is the same argument with the two new vertices.
* One thing had to change. `VerticalSplitVertex` was a `CASE` with arms that overlap
  when the split vertex has an inverter to itself; the provers rightly refused to
  choose. It is an `IF` now, in the order in which the code moves the edges.

### Entity

* `TimingsAlwaysTellDelays`, `SynthesisIsAlwaysAcyclic`, `PartsAreAlwaysSimulatable`,
  `EntityTypes`, over `EInv`: every representation comes after the one it was made
  from, has the same cycles, and has its timing unless it was altered on its way; no
  two begin the same timing; a stateless entity's list has nothing cyclic behind its
  structure's netlist as long as the program runs. Everything that appends to the list is shown to append
  what *fits* (`FitsBehind`), and that is enough, because nothing is ever changed or
  removed (`AppendKeeps`). `TimingsAlwaysTellDelays` then follows representations to
  their common ancestor (`OriginFacts`).

### Construction

* `BuildsAreTyped`, `RelativesStayMutual`, `ConnectedStayTogether`, `StatelessStaysSound`,
  `MeantStaysUnambiguous`: for any program of the API, any interfaces and any number of
  parts and requests. Two assumptions: entities have interfaces whose ports form finite
  trees of known ports, whose single ports have one direction, and a stateless flag
  (`PlansAssumption`, `IsInterface`). TLC evaluates them for the library's entities.
* None of the five is inductive. `IInv` says that `BuildOK` holds, that ports which
  were connected belong to elements there are and have one owner (`AskedOK`), and that
  a finished stateless structure has stateless parts (`ProductOK`). `BuildOK` is the
  soundness of the record a structure is while it is built: its ports form trees, of
  which nothing but ports not realized yet is above such a port (`PortsOK`); the known
  ports are exactly those in a connection, each connection is named by a known port,
  and relatives are alive and know each other (`NetsOK`); every part belongs to the
  structure or to a partial builder there is, and none that counts as stateless has a
  stateful part (`PartsOK`).
* Every operation of `StructureBuilder` has a lemma that it keeps `BuildOK` and what
  else it leaves alone; `ConnectedOK` puts them together for a whole request, in each
  of its outcomes (granted, refused, ended, an exception nobody expects). What it needs
  is that the search finds ports there are, or one that is enclosed on the way, and
  that one of the two is known. This is `MeantOK`: an induction over the depth of a
  pair of ports, since every call of `findCompatibles` is one level further down one
  of the two. That the recursive functions exist at all is shown from the same measure
  (`RecursionExists`, `LeftFoldExists` of `Minima`). `JoinsTyped` is the like for
  `componentWise`, which joins only ports that are known.
* `MeantStaysUnambiguous`: what a request comes to mean is the only pair of ports below
  the two that fits. `Only` says this of an outcome and two sets of ports, and the
  search builds it up: asking the components one after the other keeps it for the
  union of what is below them (`OnlyAmong`, on the prefixes of the fold), looking from
  the other side keeps it (`OnlySwapped`, since for ports of two parts *fits* is
  symmetric once single ports have one direction), and a container adds itself
  (`OnlyWithin`). That no port competes with those it encloses is `ShapeStrict`: a tree
  is never equal to a part of itself. It needs that every single port is either an
  input or an output, which `IsInterface` says of every entity because `ISingle` keeps a
  `SingleDirection` (`direction.h:18`); it is kept by all of the construction.
* To get there, functions of pairs are applied to a pair, what was an overriding with
  `@@` is said by `Over` or `IF`, and the loop over enclosed ports is an operator
  (`Among`). What the actions do did not change: the run has the states it had.
* `Connectable` restricts the search to pairs of which one port is a part's. It is the
  assertion of `Element::predicate` (`element.cpp:40`): two ports of the structure
  are no request.

### Synthesis

* `TreeIsComplete` (`TreeHoldsNetlist`), `TimingIsTold` (`TimingTold`) and
  `SynthesisTypeOK` (`TypeOK`), for any connected netlist that the assertions of
  `createModel` admit, of any number of vertices and inverters, with any feedback, for any
  sets of interfaces, and for all netlists that splitting makes of it. Two assumptions: the vertices are numbered without gaps and
  finitely many (`VerticesAssumption`), and no interface is both an input and an output
  (`InterfacesAssumption`).
* All three follow from `SynthesisInvariant`, whose `SynthesisOK` follows the stages. `ModelOK`
  is `createModel`'s. That the tree is complete can only be said of a tree that is
  finished, so while it grows `CountOK` counts: of each pair of nets, the inverters made
  and those still to be made (`Remaining`) are the netlist's, where what is still to be
  made depends on which of the queues the vertex is in and how far its edges have come.
  It is complete in the end only if every vertex comes to be known, also when it can
  be reached from loose vertices only; hence `FollowedOK`, that what has been dealt with leads
  to what is known, and `ReachedOK`, that a set of vertices with everything known in
  it that its inverters do not leave has all of them. The other parts are what makes a step well defined:
  each node is in one group, below it is its parent's layer (`Homed`, `Reads`, `Hung`),
  and there is a group for each vertex in the queue to put its nodes in (`EdgesOK`, `BottomOK`).
* `LooseStart` walks back from a vertex nobody reached to one where a traversal can start.
  That it finds one is an induction over what can be reached.
* `PlacementOK` has the fact that every node placed or waiting has a parent that was
  placed, on which positions depend. `RepairOK` and `SimulationOK` follow the repeaters from the
  connection that needs them, through the space they are drawn into, to the blocks a test
  reaches: as long as the timing is kept there is none in any of the three. That the drawing
  has no other source of repeaters is a lemma about both folds of `toBlocks`; that a test
  reaches only what was drawn, one about the propagation of power.
* What had to change in the model was its form: functions of two vertices are applied to a
  pair, overriding is `Over`, `edges` is a function instead of a sorted sequence, filters of
  sequences are flattened sequences of at most one element. The run has the states it had.
* `WiresStayApart` (`WiresApart`), under the same assumptions and for every layout: no two
  nets share a block, and none crosses another where that is connected. It says of three
  computations that know nothing of each other (columns per layer, rows per channel,
  heights over all layers) that their results fit. `LayoutInvariant` carries it: `LayoutOK`
  is `SynthesisOK` with one part per computation.
  `StructureOK` is about the tree. A channel has one wire per net. Whatever a node
  drives goes on (`EndsOK`): to a reader above, to another output of the net beside it,
  or, in the highest layer, to an interface; until then the net waits in a queue or is
  offered to an interface that is still to come. This is what makes the extent of a
  wire, which ends at what it is connected to, cover every place where a node meets it.
  `ColumnsOK` is about the columns. Nodes of one layer have different ones (`Spread`),
  bottom wires are under their readers, and in each channel there is a strict order of
  the nets that contains every pair of which one leads down and the other up in the same
  column (`Ordered`); `less_` is the least one (`LessFacts`). That there still is one when a node
  has been placed follows from what the routers of the two channels beside the node were
  asked: a column is taken only if the net may cross there in both. The argument for one
  channel is that of `DivisiveWiresProofs`.
  `GeometryOK` is about heights. With an order, `ascendingOrder` lists all wires such
  that none precedes one it must be above; dropping them one by one (`Drop`) keeps
  rows apart that meet (`Clear`); and stacking leaves each layer above the rows below it
  (`LayersApart`), with a block to spare where a low inverter needs it.
  `SettledApart` then goes through the kinds of wires: two vertical ones in
  different layers, in one layer, or above the bottom; two horizontal ones of a channel;
  one of each, where a connection is at the end of one of them.

### What stays with TLC

* Liveness (`Routed`): `ENABLED` and fairness are beyond the prover.
* `Simulation` and what extends it have recursive operators (a simulator contains
  simulators), which the prover does not support: `NetlistComputesStructure`,
  `OutputsAgree`.
* `NetsAsAsked` is a fact about the interfaces of the library, not of every entity: where
  `Joins` looks up the second component in the first port again, whole composites join
  otherwise than asked (section 5). `StructureAsAsked` rests on it.
* `NoCrosstalk`, `LinksConduct`, `BlocksComputeNetlist`: beyond the wires being apart
  they depend on the numbers in the code (how far power spreads, how high an inverter
  is), and on shortest paths and power levels that only an induction over whole layouts
  would describe.
* `SplitOnce` is about which paths are too long, thus about the same geometry.

## 5. Disagreements found

Each is a run that TLC ends with a counterexample, and an entry in `PROJECT.json`.

1. *A stateless entity accepts a second structure with cycles* (`entity_accepted`).
   `generate(dstType, source)` takes the path from `source`'s type but starts from
   the first representation of that type (`entity.cpp:189`), so the check looks at
   the first structure's netlist.
2. *Adding blocks by name fails an assertion* (`entity_netlist`). For a stateless
   entity `addRepresentation` wants a netlist made from the blocks
   (`entity.cpp:59`).
3. *The optimisation can cut off an output* (`netlist_outputs`). Of several
   eligible `v3` behind one `v2` a map keyed by `v2` keeps one (`netlist.cpp:144`,
   `:174`), but `v2` is cleared as if all had been merged (`:202`). Three inverters,
   two of them behind the first and each with an output, are enough.
4. *The optimisation can hide feedback* (`netlist_cycles`). An inverter from the
   eaten vertex to itself is lost in `Graph_Impl_Boost::eat` (`boost/graph.cpp:52`),
   and `removeUnnecessaryOneways` does not look for it as it does for `v1 -> v1` and
   `v2 -> v2`. The entity then takes the clock for combinational logic.

5. *Placing repeaters can fail an assertion* (`synthesis_aborted`). `evaluatePositions`
   assumes that behind a stretch that is short enough and ends with the path no
   repeater was found (`path.cpp:102`). Repeaters are placed wherever the rating is
   best, at the end of a path as well; if an earlier stretch of that path is then still
   too long, the next round fails. The latch 2→3→2 with the clocks 1→1 and 3→3, its
   inputs at 1 and 2, its output at 1 and 3→1 joining the two, gets there: a path of 21
   blocks, repeaters as the 18th and the 21st, 17 blocks before them. Where the stretch
   right before the last repeater is the long one the evaluation goes on: no assertion
   fails, and the netlist with inputs at 1 and 2, output at 1 and inverters 1→3, 2→1,
   3→1, 3→2 is given up there, split, and synthesized.

`BehaviourKept` and `CyclesKept` say that 3 and 4 are the only ways in which the
constructor goes wrong within the bounds.

### Limits met while modelling

These are things the code does that no text of the repository denies, so that there is
nothing to refute. The models do what the code does, or a guard keeps the case out
and is named here.

Synthesis:

* Other assertions of `evaluatePositions` and `find` (`path.cpp:23`, `:30`, `:107`,
  `:139`) fail for some paths and repeaters, such as a short stretch behind
  which a repeater stands at the end of an element. They are part of `Evaluation`; in
  the runs only the latch with two clocks fails any.
* `noBackCrossConnections` asks the connector of the front (`supersegment.cpp:38`).
  The model keeps it; it takes five nets to matter.
* The assertion at `blockssim.cpp:128` has a side effect; the model is of the Debug
  build.
* `Netlists` has only what `createModel` admits. Assertions of the code fail for an
  input that nothing reads, a net that nothing reads and that is no output, and two
  outputs of one net. Two inputs of one net are left out as well, although an assertion
  (`findMax1`) only fails for them if the lowest layer takes another net after theirs.

Construction:

* Components of two composites that are connected are not (`complexport.cpp:56`):
  the second component is looked up in the first port again. `Joins` models this, and
  the properties speak of chains of requests.
* An interface whose net is disconnected loses it (`structure2netlist.cpp:26`) and
  keeps a stale number (`mappedrepresentation.h:57`).
* One interface of a nested port left unconnected beside a connected one ends the
  program at the finish (`builderport.cpp:243`). So do a whole composite connected to
  the structure's top port, an exception a C call does not expect (`c_api.cpp:122`),
  and a destructor that finalizes and throws.
* Erasing in a range-for (`cbuilderportcontainer.cpp:78`) is undefined; it is the
  outcome `ended`.
* `structure2netlist.cpp:104` asserts that two nets to be merged differ. Connecting
  two ports of one part that share a net inside (`S` and `Q` of `RS_Latch`) fails it.
* A oneway makes the netlist directional where `HierarchicalSim` propagates both
  ways. With three requests on one `RS_Latch`, one of them from the latch's `Q` to its
  own `R`, the simulators differ; the plan for that part stops at two.
* Refused requests leave the ports they enclosed. A rejected cyclic structure stays
  in an existing entity. `E_ILLEGAL_RECONNECTION` is never thrown.
* `?:` binds weaker than `|` in `compositedirection.cpp:17`. It matters only for a
  direction that is both, which no caller passes.

## 6. Not modelled, and why

* *C values and namespaces, handles, reference counts*: views of objects that are
  modelled; they decide nothing.
* *Containers, caches, the templates of the dictionaries, `reject`, `kill` and
  `clear` of partition classes*: data, or taking down what is no longer read.
* *Messages, commands, printing, slicing*: formatting.
* *rhdc*: an example client, written in Rust. What it may call is what `Construction` calls.
* *Components of two structures connected with each other*:
  `completestructurebuilder.cpp:34` only asserts. One structure is open at a time.
* *Behaviours supplied by a user*: opaque functions. Those of the library are modelled.
* *The order of static initialisation*: a fixed sequence.
* `horizontalSplitVertices`, `release()`, `createShortcuts` and `InverterSim` have no
  caller.

## 7. Plan

All parts of the program that decide something are modelled, and the invariants of every
half are proved as far as section 4 says. What would come next is `NoCrosstalk`, at first
for layouts without repeaters. `WiresStayApart` is its first half; the second is what
blocks do to their neighbours: which corners and ends of different nets can touch, and that
an inverter powers nothing but its output's wire.
