----------------------------- MODULE TreeModel -----------------------------
(***************************************************************************)
(* TreeModel::createModel: a netlist becomes layers of nodes.  A layer has  *)
(* groups of nodes, a group the inverters that read one net; between two    *)
(* layers is a channel with one horizontal wire per net.  An inverter whose *)
(* target is met for the first time becomes the parent of the target's      *)
(* group one layer up; an inverter whose target is known is a leaf: the     *)
(* target's net is passed up to the leaf's layer and joined in the channel  *)
(* above.  At last every output is passed up to the top layer.              *)
(*                                                                         *)
(* A Connection, the set of wires connected so far, is named by the vertex  *)
(* it stands for: merging connections is giving a wire its net.  Nodes are  *)
(* named by the order of their making, a node or 0, the wire below the      *)
(* lowest layer, is what an output wire belongs to.  The orders an          *)
(* adjacency list keeps are the order of the vertices' numbers; interfaces  *)
(* and the outputs of a layer are sorted by address in the code and taken   *)
(* in any order here.  An assertion of the code is a conjunct of the action *)
(* that evaluates it: where it fails the program stops.                     *)
(***************************************************************************)
EXTENDS Integers, FiniteSets, SequencesExt

CONSTANTS
    GivenVertices,  \* the vertices of the first netlist
    Added,          \* how many vertices splitting may add
    MaxEdges,       \* inverters of the first netlist
    InIfaces, OutIfaces

ASSUME VerticesAssumption ==
    /\ GivenVertices \subseteq Nat /\ \E n \in GivenVertices : GivenVertices = 1..n
    /\ Added \in Nat /\ MaxEdges \in Nat

ASSUME InterfacesAssumption ==
    /\ IsFiniteSet(InIfaces) /\ IsFiniteSet(OutIfaces)
    /\ InIfaces \cap OutIfaces = {}

VARIABLES
    netlist,  \* the source of the transformation
    stage,    \* what execute is doing: a handler of createModel, or a later step
    tree,     \* the nodes, groups and wires made so far
    known,    \* known_vertices: the parent_node of each vertex met so far
    lower,    \* lower_vertices
    upper,    \* upper_vertices
    edges,    \* the current vertex's edges still to be processed, counted by target
    ifaces    \* the interfaces still to be processed

model == <<tree, known, lower, upper, edges, ifaces>>

Graph == INSTANCE Netlist WITH
    source <- netlist, graph <- netlist, unvisited <- {}, built <- TRUE, lost <- {}

\* f, and g where f says nothing.
Over(f, g) == [x \in (DOMAIN f) \cup (DOMAIN g) |-> IF x \in DOMAIN f THEN f[x] ELSE g[x]]
Single(x, y) == [z \in {x} |-> y]

Bottom == 0     \* a wire of bottom_ in place of a node
NoParent == 0   \* no parent_node
Loose == "loose"  \* a bottom wire without an interface

-----------------------------------------------------------------------------
(***************************************************************************)
(* Reading the tree.  channels[1] is lower_cross_, channels[k + 1] the      *)
(* cross_ of layer k, so that channels[k] is crossBelow() of layer k.       *)
(***************************************************************************)
Places(t) == UNION {{l} \X (1..Len(t.layers[l])) : l \in 1..Len(t.layers)}
GroupAt(t, p) == t.layers[p[1]][p[2]]
PlaceOf(t, node) == CHOOSE p \in Places(t) : Contains(GroupAt(t, p).nodes, node)
LayerOf(t, node) == PlaceOf(t, node)[1]

\* Node::child, as a set of at most one place.
Child(t, node) == {p \in Places(t) : node # Bottom /\ GroupAt(t, p).parent = node}

\* inputToGroup and bottomToGroup: the group that reads a net at an output.
InputToGroup(t, net, output) ==
    IF output # Bottom THEN Child(t, output)
    ELSE {p \in Places(t) : p[1] = 1 /\ GroupAt(t, p).net = net}

\* findNearestOutput: any output of the net in the highest layer that has one.
NearestOutputs(t, net) ==
    LET outputs == {n \in 1..Len(t.nodes) : t.nodes[n].out = net}
        highest == {n \in outputs : \A m \in outputs : LayerOf(t, m) <= LayerOf(t, n)}
    IN  IF outputs = {} THEN {Bottom} ELSE highest

-----------------------------------------------------------------------------
(***************************************************************************)
(* Growing the tree.                                                        *)
(***************************************************************************)
EmptyTree == [layers |-> <<>>, nodes |-> <<>>, channels |-> << <<>> >>,
              bottom |-> <<>>, top |-> <<>>]

\* Wires::findOrMake in channel c.
FindOrMake(t, c, net) ==
    IF Contains(t.channels[c], net) THEN t
    ELSE [t EXCEPT !.channels[c] = Append(@, net)]

\* insertNodeGroup before the group at index g of layer l.
InsertNodeGroup(t, l, g, net, parent) ==
    [FindOrMake(t, l, net) EXCEPT !.layers[l] =
        InsertAt(@, g, [net |-> net, parent |-> parent, nodes |-> <<>>])]

\* insertPassThrough(0): the new node comes first in its group.
InsertPassThrough(t, p) ==
    LET net == GroupAt(t, p).net
    IN  [t EXCEPT !.nodes = Append(@, [invert |-> FALSE, in |-> net, out |-> net]),
                  !.layers[p[1]][p[2]].nodes = <<Len(t.nodes) + 1>> \o @]

MakeInverter(t, p, target) ==
    [t EXCEPT !.nodes = Append(@, [invert |-> TRUE, in |-> GroupAt(t, p).net, out |-> target]),
              !.layers[p[1]][p[2]].nodes = Append(@, Len(t.nodes) + 1)]

\* The index chainPassThrough computes: its loop looks at the first group only.
ChainIndex(t, node) ==
    LET at == PlaceOf(t, node)
        first == t.layers[at[1] + 1][1].parent
        before == PlaceOf(t, first)
        Index(p, n) == SelectInSeq(GroupAt(t, p).nodes, LAMBDA m : m = n)
    IN  IF \/ t.layers[at[1] + 1] = <<>>
           \/ before[2] > at[2]
           \/ before[2] = at[2] /\ Index(before, first) > Index(at, node)
        THEN 1 ELSE 2

\* Mutant of ChainPassThrough: the new group hangs on the newest node.
ChainPassThroughNewest(t, node) ==
    LET l == LayerOf(t, node) + 1
        g == ChainIndex(t, node)
    IN  InsertPassThrough(InsertNodeGroup(t, l, g, t.nodes[node].out, Len(t.nodes)), <<l, g>>)

\* chainPassThrough in the layer above a node without a child.
ChainPassThrough(t, node) ==
    LET l == LayerOf(t, node) + 1
        g == ChainIndex(t, node)
    IN  InsertPassThrough(InsertNodeGroup(t, l, g, t.nodes[node].out, node), <<l, g>>)

\* The node a pass-through starts with, for an output below the highest layer: in
\* the group that reads the net there, else on the output itself, else in a new
\* group over the bottom wire.
StartPassThrough(t, net, output) ==
    LET group == InputToGroup(t, net, output)
    IN  IF group # {} THEN InsertPassThrough(t, CHOOSE p \in group : TRUE)
        ELSE IF output # Bottom THEN ChainPassThrough(t, output)
        ELSE InsertPassThrough(InsertNodeGroup(t, 1, 1, net, NoParent), <<1, 1>>)

InTopLayer(t, output) == output # Bottom /\ LayerOf(t, output) = Len(t.layers)

PassThroughToTop(t, net, output) ==
    LET start == StartPassThrough(t, net, output)
        above == Len(t.layers) - LayerOf(start, Len(start.nodes))
    IN  IF InTopLayer(t, output) THEN t
        ELSE FoldLeft(LAMBDA r, i : ChainPassThrough(r, Len(r.nodes)), start,
                      [i \in 1..above |-> i])

\* The node whose output passThroughToTop returned.
TopOutput(t, output) == IF InTopLayer(t, output) THEN output ELSE Len(t.nodes)

-----------------------------------------------------------------------------
(***************************************************************************)
(* The netlists a tree is made from.  An entity's interfaces may be         *)
(* attached in other ways.  An assertion of the code fails for an input     *)
(* nothing reads (processBottomIFace), a net nothing reads that is no       *)
(* output (processEdge) and two outputs of one net (addCrosser_oneway, for  *)
(* useAsTopInterfaceWire).  Two inputs of one net are left out as well,     *)
(* although an assertion (findMax1, for bottomToGroup) only fails if        *)
(* another net is taken after theirs in the lowest layer.                   *)
(***************************************************************************)
Placeable(g) ==
    /\ \A i \in InIfaces : Graph!Targets(g, g.ifaceMap[i]) # {}
    /\ \A v \in g.vertices :
          /\ Graph!Targets(g, v) = {} => Graph!IfacesAt(g, v, OutIfaces) # {}
          /\ Cardinality(Graph!IfacesAt(g, v, InIfaces)) <= 1
          /\ Cardinality(Graph!IfacesAt(g, v, OutIfaces)) <= 1

StartModel ==
    /\ stage = "bottom" /\ ifaces = InIfaces
    /\ tree = EmptyTree /\ known = <<>>
    /\ lower = <<>> /\ upper = <<>> /\ edges = <<>>

NewModel ==
    /\ stage' = "bottom" /\ ifaces' = InIfaces
    /\ tree' = EmptyTree /\ known' = <<>>
    /\ lower' = <<>> /\ upper' = <<>> /\ edges' = <<>>

\* known_vertices.emplace: a vertex that is known stays as it is.
Emplace(v, parent) == Over(known, Single(v, parent))

(***************************************************************************)
(* processBottomIFace of a net without other inputs.                        *)
(***************************************************************************)
ProcessBottomIFace(i) ==
    LET v == netlist.ifaceMap[i]
    IN  /\ stage = "bottom" /\ i \in ifaces
        /\ v \notin DOMAIN known
        /\ Graph!Targets(netlist, v) # {}
        /\ ifaces' = ifaces \ {i}
        /\ tree' = [FindOrMake(tree, 1, v) EXCEPT
                        !.bottom = Append(@, [net |-> v, iface |-> i])]
        /\ known' = Emplace(v, NoParent)
        /\ upper' = Append(upper, v)
        /\ UNCHANGED <<netlist, stage, lower, edges>>

(***************************************************************************)
(* processLooseVertices: what no input reaches gets a wire of its own, at   *)
(* the vertex where following the first inverter backwards ends.            *)
(***************************************************************************)
Reachable(from) ==
    FoldSet(LAMBDA v, R : R \cup UNION {Graph!Targets(netlist, u) : u \in R},
            from, netlist.vertices)

WalkBack(v) ==
    LET Step(w, u) ==
            IF w.at \in w.seen \/ Graph!Sources(netlist, w.at) = {} THEN w
            ELSE [at |-> Min(Graph!Sources(netlist, w.at)), seen |-> w.seen \cup {w.at}]
    IN  FoldSet(LAMBDA u, w : Step(w, u), [at |-> v, seen |-> {}], netlist.vertices).at

\* A loose output if there is one, else any loose vertex.
LooseStart(loose) ==
    LET outputs == {v \in loose : Graph!IfacesAt(netlist, v, OutIfaces) # {}}
    IN  Min(IF outputs # {} THEN outputs ELSE loose)

ProcessLooseVertex ==
    LET loose == netlist.vertices \ Reachable(ToSet(upper))
        v == WalkBack(LooseStart(loose))
    IN  /\ stage = "bottom" /\ ifaces = {}
        /\ IF loose = {}
           THEN /\ stage' = "layers"
                /\ UNCHANGED <<tree, known, upper>>
           ELSE /\ tree' = [tree EXCEPT !.bottom = Append(@, [net |-> v, iface |-> Loose])]
                /\ known' = Emplace(v, NoParent)
                /\ upper' = Append(upper, v)
                /\ UNCHANGED stage
        /\ UNCHANGED <<netlist, lower, edges, ifaces>>

(***************************************************************************)
(* The layers.                                                              *)
(***************************************************************************)
NextLayer ==
    /\ stage = "layers" /\ lower = <<>> /\ DOMAIN edges = {} /\ upper # <<>>
    /\ lower' = upper /\ upper' = <<>>
    /\ tree' = [tree EXCEPT !.layers = Append(@, <<>>), !.channels = Append(@, <<>>)]
    /\ UNCHANGED <<netlist, stage, known, edges, ifaces>>

\* Mutant of OutEdges: an inverter from v to itself is met at both its ends.
OutEdgesBothEnds(v) ==
    LET Count(w) == (IF w = v THEN 2 ELSE 1) * netlist.edges[<<v, w>>]
    IN  [w \in {u \in netlist.vertices : Count(u) > 0} |-> Count(w)]

\* The inverters out of v, by target: parallel ones follow each other.
OutEdges(v) ==
    [w \in Graph!Targets(netlist, v) |-> netlist.edges[<<v, w>>]]

NextTarget == Min(DOMAIN edges)

WithoutNext ==
    IF edges[NextTarget] > 1 THEN [edges EXCEPT ![NextTarget] = @ - 1]
    ELSE [w \in DOMAIN edges \ {NextTarget} |-> edges[w]]

\* The group of the first of lower_vertices in the layer being made.
GroupOf(t, v) == InputToGroup(t, v, known[v])

\* processVertex before it goes through the edges; DOMAIN edges # {} until they are done.
ProcessVertex ==
    LET v == Head(lower)
        l == Len(tree.layers)
    IN  /\ stage = "layers" /\ lower # <<>> /\ DOMAIN edges = {}
        /\ known[v] # NoParent \/ l = 1
        /\ tree' = IF GroupOf(tree, v) # {} THEN tree
                   ELSE InsertNodeGroup(tree, l, Len(tree.layers[l]) + 1, v, known[v])
        /\ edges' = OutEdges(v)
        /\ lower' = IF DOMAIN OutEdges(v) = {} THEN Tail(lower) ELSE lower
        /\ UNCHANGED <<netlist, stage, known, upper, ifaces>>

AfterEdge ==
    /\ edges' = WithoutNext
    /\ lower' = IF DOMAIN WithoutNext = {} THEN Tail(lower) ELSE lower
    /\ UNCHANGED <<netlist, stage, ifaces>>

\* processEdge to a vertex met for the first time.
ProcessEdge ==
    LET w == NextTarget
        p == CHOOSE p \in GroupOf(tree, Head(lower)) : TRUE
        node == Len(tree.nodes) + 1
        read == Graph!Targets(netlist, w) # {}
    IN  /\ stage = "layers" /\ DOMAIN edges # {}
        /\ w \notin DOMAIN known
        /\ read \/ Graph!IfacesAt(netlist, w, OutIfaces) # {}
        /\ tree' = MakeInverter(tree, p, w)
        /\ known' = Emplace(w, IF read THEN node ELSE NoParent)
        /\ upper' = IF read THEN Append(upper, w) ELSE upper
        /\ AfterEdge

\* processLeaf: the known vertex's net is passed up and joined above the layer.
ProcessLeaf(output) ==
    LET w == NextTarget
        p == CHOOSE p \in GroupOf(tree, Head(lower)) : TRUE
        inv == Len(tree.nodes) + 1
        made == MakeInverter(tree, p, w)
    IN  /\ stage = "layers" /\ DOMAIN edges # {}
        /\ w \in DOMAIN known
        /\ output \in NearestOutputs(tree, w)
        /\ tree' = FindOrMake(PassThroughToTop(made, w, output), Len(tree.layers) + 1, w)
        /\ UNCHANGED <<known, upper>>
        /\ AfterEdge

BeginTopIFaces ==
    /\ stage = "layers" /\ lower = <<>> /\ DOMAIN edges = {} /\ upper = <<>>
    /\ stage' = "top" /\ ifaces' = OutIfaces
    /\ UNCHANGED <<netlist, tree, known, lower, upper, edges>>

\* processTopIFace: the output's wire crosses the anchor of one interface only.
ProcessTopIFace(i, output) ==
    LET v == netlist.ifaceMap[i]
        passed == PassThroughToTop(tree, v, output)
        node == TopOutput(passed, output)
    IN  /\ stage = "top" /\ i \in ifaces
        /\ output \in NearestOutputs(tree, v)
        /\ \A k \in 1..Len(tree.top) : tree.top[k].node # node
        /\ tree' = [FindOrMake(passed, Len(tree.layers) + 1, v) EXCEPT
                        !.top = Append(@, [node |-> node, iface |-> i])]
        /\ ifaces' = ifaces \ {i}
        /\ UNCHANGED <<netlist, stage, known, lower, upper, edges>>

ModelNext ==
    \/ \E i \in InIfaces : ProcessBottomIFace(i)
    \/ ProcessLooseVertex \/ NextLayer \/ ProcessVertex \/ ProcessEdge
    \/ \E n \in 0..Len(tree.nodes) : ProcessLeaf(n)
    \/ BeginTopIFaces
    \/ \E i \in OutIfaces, n \in 0..Len(tree.nodes) : ProcessTopIFace(i, n)
=============================================================================
