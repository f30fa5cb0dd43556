------------------------------- MODULE Netlist -------------------------------
(***************************************************************************)
(* A netlist (representation/netlist/netlist.cpp): a graph whose vertices   *)
(* are nets and whose edges are inverters, with the entity's interfaces     *)
(* attached to nets.  The constructor takes the graph StructureToNetlist    *)
(* built and removes pairs of inverters it finds unnecessary, one vertex at *)
(* a time; a second constructor copies a netlist and splits vertices whose  *)
(* wires came out too long, by putting two inverters behind them.           *)
(***************************************************************************)
EXTENDS Integers, FiniteSets, FiniteSetsExt, Functions

CONSTANTS
    GivenVertices,  \* the vertices of the graph the constructor is given: 1..n
    Added,          \* how many vertices splitting may add
    MaxEdges,       \* inverters of the graph the constructor is given
    InIfaces,       \* the interfaces with direction IN
    OutIfaces       \* the interfaces with direction OUT

ASSUME GivenAssumption ==
    /\ GivenVertices \subseteq Nat /\ \E n \in GivenVertices : GivenVertices = 1..n
    /\ Added \in Nat /\ MaxEdges \in Nat

ASSUME IfacesAssumption ==
    /\ IsFiniteSet(InIfaces) /\ IsFiniteSet(OutIfaces)
    /\ InIfaces \cap OutIfaces = {}

VertexRefs == 1..(Cardinality(GivenVertices) + Added)
Ifaces == InIfaces \cup OutIfaces

\* edges[<<u, v>>] counts parallel inverters: the adjacency list keeps duplicates.
Graphs ==
    [vertices: SUBSET VertexRefs,
     edges: [VertexRefs \X VertexRefs -> Nat],
     ifaceMap: [Ifaces -> VertexRefs]]

VARIABLES
    source,    \* the graph the running constructor was given
    graph,     \* graph_ and ifaceMap_ of the netlist being constructed
    unvisited, \* the vertices the loop over v1 has yet to reach
    built,     \* whether the constructor has returned
    lost       \* history: inverters removed without their target being eaten

vars == <<source, graph, unvisited, built, lost>>

-----------------------------------------------------------------------------
(***************************************************************************)
(* The graph.                                                              *)
(***************************************************************************)
Targets(g, v) == {w \in g.vertices : g.edges[<<v, w>>] > 0}
Sources(g, v) == {u \in g.vertices : g.edges[<<u, v>>] > 0}
CountOut(g, v) == MapThenSumSet(LAMBDA w : g.edges[<<v, w>>], g.vertices)
CountIn(g, v) == MapThenSumSet(LAMBDA u : g.edges[<<u, v>>], g.vertices)
IfacesAt(g, v, ifaces) == {i \in ifaces : g.ifaceMap[i] = v}

\* An interface counts like an inverter outside of the netlist.
ICountIn(g, v) == CountIn(g, v) + Cardinality(IfacesAt(g, v, InIfaces))
ICountOut(g, v) == CountOut(g, v) + Cardinality(IfacesAt(g, v, OutIfaces))

WithoutEdges(g, removed) ==
    [g EXCEPT !.edges = [e \in DOMAIN g.edges |-> IF e \in removed THEN 0 ELSE g.edges[e]]]

\* eater takes over the interfaces and the inverters of eaten.  An inverter from
\* eaten to itself becomes one between the two, which clear_vertex removes: the
\* range of in-edges eat goes through was taken before and ends too early for it.
\* (Two parallel ones may reallocate the in-edges under that range; the old range
\* still names no more than the old edges.)
Eat(g, eater, eaten) ==
    LET MovedTo(u, v) ==
            (IF u = eater THEN g.edges[<<eaten, v>>] ELSE 0) +
            (IF v = eater THEN g.edges[<<u, eaten>>] ELSE 0)
    IN  [g EXCEPT
            !.edges = [e \in DOMAIN g.edges |->
                IF eaten \in {e[1], e[2]} THEN 0
                ELSE g.edges[e] + MovedTo(e[1], e[2])],
            !.ifaceMap = [i \in DOMAIN g.ifaceMap |->
                IF g.ifaceMap[i] = eaten THEN eater ELSE g.ifaceMap[i]]]

\* Mutant of Connected: only nets with inverters are connected.
ConnectedByInverters(g) ==
    {v \in g.vertices : Targets(g, v) # {} \/ Sources(g, v) # {}}

Connected(g) ==
    {v \in g.vertices : \/ Targets(g, v) # {} \/ Sources(g, v) # {}
                        \/ IfacesAt(g, v, Ifaces) # {}}

RemoveDisconnectedVertices(g) == [g EXCEPT !.vertices = Connected(g)]

\* Vertices nothing leads to are taken away, again and again: what remains then
\* has a cycle before it.
HasCycles(g) ==
    LET remaining[n \in 0..Cardinality(g.vertices)] ==
            IF n = 0 THEN g.vertices
            ELSE LET before == remaining[n - 1]
                 IN  {v \in before : Sources(g, v) \cap before # {}}
    IN  remaining[Cardinality(g.vertices)] # {}

(***************************************************************************)
(* What the graph computes: in a stable state a net is on when an input    *)
(* drives it or some inverter into it has its source off.  A graph with    *)
(* cycles may have several stable states (a latch) or none (a clock).      *)
(***************************************************************************)
Stable(g, driven) ==
    LET before == [v \in g.vertices |-> Sources(g, v)]
        input == {g.ifaceMap[i] : i \in driven}
    IN  {on \in SUBSET g.vertices :
            \A v \in g.vertices : v \in on <=> v \in input \/ before[v] \ on # {}}

Behaviour(g) ==
    UNION {{<<driven, {o \in OutIfaces : g.ifaceMap[o] \in on}>> : on \in Stable(g, driven)} :
                driven \in SUBSET InIfaces}

-----------------------------------------------------------------------------
(***************************************************************************)
(* removeUnnecessaryOneways at v1: v1 -> v2 -> v3 is unnecessary when v3   *)
(* has no other input, or when nothing but v3 depends on v1 and v2.        *)
(***************************************************************************)
EligibleV2(g, v1) ==
    {v2 \in Targets(g, v1) : CountOut(g, v2) >= 1 /\ ICountIn(g, v2) <= 1}

\* Mutant of LoopsBack: feedback from v2 to v1 is not looked for.
LoopsBackDirectly(g, v1) == v1 \in Targets(g, v1)

LoopsBack(g, v1) ==
    \/ v1 \in Targets(g, v1)
    \/ \E v2 \in EligibleV2(g, v1) : Targets(g, v2) \cap {v1, v2} # {}

\* Mutant of MayEat: what else depends on v1 is not counted.
MayEatIgnoringV1(g, v1, v2, v3) == ICountIn(g, v3) = 1 \/ ICountOut(g, v2) = 1

MayEat(g, v1, v2, v3) ==
    \/ ICountIn(g, v3) = 1
    \/ ICountOut(g, v1) <= 1 /\ ICountOut(g, v2) = 1

EligibleV3(g, v1, v2) == {v3 \in Targets(g, v2) : MayEat(g, v1, v2, v3)}

\* eligible_v3 is a map: of several v3 behind one v2 only the first is kept.
ChoicesOfV3(g, v1) ==
    LET V2s == {v2 \in EligibleV2(g, v1) : EligibleV3(g, v1, v2) # {}}
    IN  {f \in [V2s -> g.vertices] : \A v2 \in V2s : f[v2] \in EligibleV3(g, v1, v2)}

Eaten(g, v1, v3s) ==
    FoldSet(LAMBDA v3, h : Eat(h, v1, v3),
            WithoutEdges(g, {<<v2, v3s[v2]>> : v2 \in DOMAIN v3s}), Range(v3s))

\* The v2 all of whose targets were eligible.
ClearedV2(g, v1) ==
    {v2 \in EligibleV2(g, v1) : Targets(g, v2) = EligibleV3(g, v1, v2)}

Cleared(g, V2s) ==
    LET unread == {v2 \in V2s : IfacesAt(g, v2, OutIfaces) = {}}
    IN  WithoutEdges(g, (V2s \X g.vertices) \cup (g.vertices \X unread))

LostEdges(g, v1, v3s) ==
    {e \in ClearedV2(g, v1) \X g.vertices : g.edges[e] > 0 /\ v3s[e[1]] # e[2]}
    \cup {<<v3, v3>> : v3 \in {v \in Range(v3s) : g.edges[<<v, v>>] > 0}}

-----------------------------------------------------------------------------
(***************************************************************************)
(* StructureToNetlist hands over a graph without disconnected vertices.    *)
(***************************************************************************)
EdgeSets == {E \in SUBSET (GivenVertices \X GivenVertices) : Cardinality(E) <= MaxEdges}

GivenGraphs ==
    {g \in {[vertices |-> GivenVertices,
             edges |-> [e \in VertexRefs \X VertexRefs |-> IF e \in E THEN 1 ELSE 0],
             ifaceMap |-> f] : E \in EdgeSets, f \in [Ifaces -> GivenVertices]} :
        Connected(g) = GivenVertices}

Init ==
    /\ source \in GivenGraphs
    /\ graph = source
    /\ unvisited = GivenVertices
    /\ built = FALSE
    /\ lost = {}

\* One round of the loop over v1, which goes through the vertices by number.
Visit(v1) ==
    /\ unvisited # {} /\ v1 = Min(unvisited)
    /\ IF LoopsBack(graph, v1)
       THEN UNCHANGED <<graph, lost>>
       ELSE \E v3s \in ChoicesOfV3(graph, v1) :
               /\ graph' = Cleared(Eaten(graph, v1, v3s), ClearedV2(graph, v1))
               /\ lost' = lost \cup LostEdges(graph, v1, v3s)
    /\ unvisited' = unvisited \ {v1}
    /\ UNCHANGED <<source, built>>

FinishConstruction ==
    /\ ~built /\ unvisited = {}
    /\ graph' = RemoveDisconnectedVertices(graph)
    /\ built' = TRUE
    /\ UNCHANGED <<source, unvisited, lost>>

\* The netlist with one vertex split: vertex -> middle -> out takes its place
\* for everything that reads it, and its inputs stay where they are.
Unused == VertexRefs \ GivenVertices

VerticalSplitVertex(g, vertex, middle, out) ==
    [vertices |-> g.vertices \cup {middle, out},
     edges |-> [e \in DOMAIN g.edges |->
        IF e \in {<<vertex, middle>>, <<middle, out>>} THEN 1
        ELSE IF e[1] = vertex THEN 0
        ELSE g.edges[IF e[1] = out THEN <<vertex, e[2]>> ELSE e]],
     ifaceMap |-> [i \in Ifaces |->
        IF i \in IfacesAt(g, vertex, OutIfaces) THEN out ELSE g.ifaceMap[i]]]

Split(vertex) ==
    LET Fresh == {v \in Unused : v \notin graph.vertices}
    IN  /\ built /\ vertex \in graph.vertices
        /\ Cardinality(Fresh) >= 2
        /\ source' = graph
        /\ graph' = VerticalSplitVertex(graph, vertex, Min(Fresh), Min(Fresh) + 1)
        /\ lost' = {}
        /\ UNCHANGED <<unvisited, built>>

Next ==
    \/ \E v \in VertexRefs : Visit(v) \/ Split(v)
    \/ FinishConstruction

Spec == Init /\ [][Next]_vars

-----------------------------------------------------------------------------
(***************************************************************************)
(* Properties.                                                             *)
(***************************************************************************)

\* Every state is a graph with its interfaces attached to vertices it has, so that
\* remapInterface always finds the vertex of an interface in its map; a finished
\* netlist has no disconnected vertices.
TypeOK ==
    /\ source \in Graphs /\ graph \in Graphs
    /\ unvisited \subseteq GivenVertices /\ built \in BOOLEAN
    /\ lost \subseteq VertexRefs \X VertexRefs
    /\ \A g \in {source, graph} :
          /\ \A i \in Ifaces : g.ifaceMap[i] \in g.vertices
          /\ \A e \in DOMAIN g.edges : g.edges[e] > 0 => e \in g.vertices \X g.vertices
    /\ built => Connected(graph) = graph.vertices

\* Removing oneways and splitting vertices leaves what the netlist computes as it
\* was, latches and clocks included, in every state of the loop, as long as no
\* inverter was lost: eating v3 and clearing v2 are sound under the counts the code
\* tests, whichever inverters removed before them.
BehaviourKept == lost = {} => Behaviour(graph) = Behaviour(source)

\* Feedback neither appears nor disappears while no inverter is lost, so hasCycles
\* of the finished netlist, which decides whether a stateless entity accepts it,
\* speaks of the structure the netlist was made from.
CyclesKept == lost = {} => (HasCycles(graph) <=> HasCycles(source))

\* The constructor never loses an output: in a netlist without feedback the outputs
\* still compute what they did.  It does not hold: when v2 drives two vertices that
\* may be eaten, one is eaten and the other is left without its inverter.
OutputsKept == ~HasCycles(source) => Behaviour(graph) = Behaviour(source)

\* A netlist whose graph has cycles is seen to have cycles when it is finished.  It
\* does not hold: an inverter from v3 to itself is gone once v1 has eaten v3.
CyclesFound == built /\ HasCycles(source) => HasCycles(graph)
=============================================================================
