---------------------------- MODULE Netlist2Tree ----------------------------
(***************************************************************************)
(* The synthesis of a netlist: Netlist2Tree::execute builds a tree model,   *)
(* computes its geometry, places repeaters and starts over with a split     *)
(* netlist as long as some connection is too long for any repeater;         *)
(* BGTree::execute draws the model in blocks and tests every link.  One     *)
(* thread runs it all, from a netlist its assertions admit.                 *)
(***************************************************************************)
EXTENDS BlocksSim

CONSTANT Further  \* sets of inverters that are taken although they exceed MaxEdges

ASSUME FurtherAssumption == Further \subseteq SUBSET (GivenVertices \X GivenVertices)

VARIABLE given  \* history: the netlist the transformation was asked for

vars == <<given, netlist, stage, model, placement, repair, simulation>>

EdgeSets ==
    Further \cup {E \in SUBSET (GivenVertices \X GivenVertices) : Cardinality(E) <= MaxEdges}

\* Vertices and inputs are named so that the inputs are attached to the first ones.
Netlists ==
    LET inputs == SetToSeq(InIfaces)
    IN  {g \in {[vertices |-> GivenVertices,
                 edges |-> [e \in Graph!VertexRefs \X Graph!VertexRefs |->
                                IF e \in E THEN 1 ELSE 0],
                 ifaceMap |-> f] :
                    E \in EdgeSets,
                    f \in {f \in [Graph!Ifaces -> GivenVertices] :
                                \A k \in DOMAIN inputs : f[inputs[k]] = k}} :
            Graph!Connected(g) = GivenVertices /\ Placeable(g)}

Init ==
    /\ netlist \in Netlists /\ given = netlist
    /\ StartModel /\ NotPlaced /\ NotRepaired /\ NotSimulated

CreateModel == ModelNext /\ UNCHANGED <<given, placement, repair, simulation>>

ComputeSpatial ==
    /\ PreComputeSpatial \/ PlaceNode \/ PlaceBottomWires \/ ComputeVertical
    /\ UNCHANGED <<given, repair, simulation>>

FixBrokenLinks ==
    /\ \/ CreateSegments \/ BeginConnection \/ FixConnection \/ FinishRepair
       \/ SplitBroken
    /\ UNCHANGED <<given, simulation>>

BGTree ==
    /\ ToBlocks \/ Test \/ ExtendTest \/ FinishTest \/ FinishBlocks
    /\ UNCHANGED given

Done == stage \in {"done", "aborted"} /\ UNCHANGED vars

Next == CreateModel \/ ComputeSpatial \/ FixBrokenLinks \/ BGTree \/ Done

Spec == Init /\ [][Next]_vars

-----------------------------------------------------------------------------
(***************************************************************************)
(* Properties.                                                              *)
(***************************************************************************)
Stages == {"bottom", "layers", "top", "place", "vertical", "segments", "repair",
           "blocks", "assess", "done", "aborted"}

Tested == stage = "assess" /\ tests = <<>> /\ sim = Idle

\* The state is made of what its names say: nodes belong to one group each, groups
\* have parents one layer below, and everything placed, routed or tested is a node, a
\* wire or a net of the tree.
TypeOK ==
    /\ stage \in Stages /\ netlist.vertices \subseteq Graph!VertexRefs
    /\ \A n \in Nodes : Cardinality({p \in Places(tree) : Contains(GroupAt(tree, p).nodes, n)}) = 1
    /\ \A p \in Places(tree) : GroupAt(tree, p).parent # NoParent =>
            LayerOf(tree, GroupAt(tree, p).parent) = p[1] - 1
    /\ DOMAIN known \subseteq netlist.vertices
    /\ ToSet(lower) \cup ToSet(upper) \subseteq DOMAIN known
    /\ DOMAIN col \subseteq Nodes /\ Range(col) \subseteq Nat /\ Range(bottom) \subseteq Nat
    /\ pending \cup broken \subseteq netlist.vertices
    /\ timing \in {"kept", "broken"}
    /\ links \subseteq (Nodes \cup InIfaces) \X (Nodes \cup OutIfaces)

\* The finished tree has an inverter for each of the netlist's, reading and driving
\* the same nets, however the net it drives was met: as a child, or as a leaf joined
\* to a net passed up from below.
TreeHoldsNetlist ==
    stage = "place" =>
        \A e \in netlist.vertices \X netlist.vertices :
            netlist.edges[e] = Cardinality({n \in Nodes : tree.nodes[n].invert
                                    /\ <<tree.nodes[n].in, tree.nodes[n].out>> = e})

Span(w) == Min(w.stops)..Max(w.stops)

\* Wires of different nets never share a block: where the columns of one layer, the
\* rows of its channels and the layers' heights have been computed apart, no two
\* vertical wires overlap in a column, no two horizontal ones in a row, and none
\* crosses another net's wire where that is connected.
WiresApart ==
    stage = "segments" =>
        \A v, w \in ToSet(DrawnWires) : v.net # w.net =>
            IF v.vertical = w.vertical
            THEN v.at = w.at => Span(v) \cap Span(w) = {}
            ELSE w.at \in Span(v) /\ v.at \in Span(w) =>
                    w.at \notin v.joints /\ v.at \notin w.joints

\* Power from one net never reaches another: a source lights up nothing but what its
\* own net leads to, through wires that cross, touch at corners or run side by side,
\* and through repeaters.  BGTree only looks at the destinations of the net.
NoCrosstalk == \A p \in links : NetOfSource(p[1]) = NetOfDestination(p[2])

\* What BGTree asserts when it has tested everything: every source reaches every
\* destination of its net, with repeaters no further apart than redstone carries and
\* in the direction of the current.
LinksConduct == Tested => BrokenLinks = {}

\* What the blocks compute: an inverter's torch is on unless some source that is on
\* reaches it.
BlocksBehaviour ==
    LET Before(d) == {s \in Inverters \cup InIfaces : <<s, d>> \in links}
        before == [d \in Inverters \cup OutIfaces |-> Before(d)]
        Stable(driven) == {on \in SUBSET Inverters :
            \A n \in Inverters : n \in on <=> before[n] \cap (on \cup driven) = {}}
    IN  UNION {{<<driven, {o \in OutIfaces : before[o] \cap (on \cup driven) # {}}>> :
                    on \in Stable(driven)} : driven \in SUBSET InIfaces}

\* The blocks compute what the netlist computed that was to be synthesized, latches
\* and clocks included, however often it was split and the model made anew.
BlocksComputeNetlist == stage = "done" => BlocksBehaviour = Graph!Behaviour(given)

\* A model that keeps its netlist's timing has no link that waits for a repeater.
TimingTold == timing = "kept" => RepeatersHit = {}

\* The splitting, which nothing bounds, comes to an end: what is split is a net of the
\* given netlist that was not split before, so that there are no more rounds than
\* nets.  (No state on the way is without a successor either.)
SplitOnce ==
    \A v \in broken :
        v \in given.vertices /\ Graph!Targets(netlist, v) \subseteq given.vertices

\* What Path::evaluatePositions asserts: behind a stretch that is short enough the path
\* goes on, up to its end, where no repeater is left to be found.
PathsEvaluable == stage # "aborted"
=============================================================================
