--------------------------- MODULE StructureNetlist ---------------------------
(***************************************************************************)
(* StructureToNetlist (transformation/structure2netlist.cpp): a vertex for *)
(* every single interface of the structure and a copy of every part's      *)
(* netlist, joined net by net.  Where two nets are both driven and read    *)
(* inside of their parts they are kept apart by a oneway, two inverters.   *)
(*                                                                         *)
(* A netlist is [n, edges, at]: its vertices are 1..n, edges[<<u, v>>]      *)
(* counts inverters and at gives the vertex of every single interface by   *)
(* its path.  The structure is what StructureBuilder!Constructed returns.  *)
(***************************************************************************)
EXTENDS StructureBuilder

\* Interfaces of a finished netlist, by direction and number; MaxIfaces bounds them.
MaxIfaces == 6

\* The graphs of module Netlist.
Graph == INSTANCE Netlist WITH
    GivenVertices <- 1..1, Added <- 0, MaxEdges <- 0,
    InIfaces <- {"in"} \X (1..MaxIfaces), OutIfaces <- {"out"} \X (1..MaxIfaces),
    source <- 0, graph <- 0, unvisited <- 0, built <- 0, lost <- 0

Flat(iface) == {path \in DOMAIN iface : iface[path].subs = 0}
FlatWith(iface, dir) == {path \in Flat(iface) : dir \in iface[path].dir}

Earlier(p, q) ==
    \E i \in 1..Min({Len(p), Len(q)}) :
        p[i] < q[i] /\ SubSeq(p, 1, i - 1) = SubSeq(q, 1, i - 1)

Settled(g) == [g EXCEPT !.edges = Tabulated(@), !.ifaceMap = Tabulated(@)]

\* Paths in order, and ports: rank orders the elements, which is the order of their
\* addresses.
InOrder(paths) ==
    [i \in 1..Cardinality(paths) |->
        CHOOSE p \in paths : Cardinality({q \in paths : Earlier(q, p)}) = i - 1]
PortsInOrder(ports, rank) ==
    LET First(p, q) == rank[p[1]] < rank[q[1]] \/ (p[1] = q[1] /\ Earlier(p[2], q[2]))
    IN  [i \in 1..Cardinality(ports) |->
            CHOOSE p \in ports : Cardinality({q \in ports : First(q, p)}) = i - 1]
Position(seq, x) == CHOOSE i \in DOMAIN seq : seq[i] = x

-----------------------------------------------------------------------------
\* The structure's interfaces first, then the parts one after the other; a spare
\* vertex for the middle of every oneway there may be.
Begun(s, entities) ==
    LET own == InOrder(Flat(s.iface))
        Netlist(k) == entities[s.parts[k]].netlist
        Size(k) == Netlist(k).n
        After(k) == Len(own) + MapThenSumSet(Size, {j \in DOMAIN s.parts : j < k})
        size == Len(own) + MapThenSumSet(Size, DOMAIN s.parts)
        within == UNION {{<<k, u, v>> : u, v \in 1..Size(k)} : k \in DOMAIN s.parts}
        inverters == {<<After(w[1]) + w[2], After(w[1]) + w[3], w>> :
                        w \in {x \in within : Netlist(x[1]).edges[x[2], x[3]] > 0}}
        refs == 1..(size + Cardinality(UNION s.connections))
        Count(u, v) == MapThenSumSet(LAMBDA e : Netlist(e[3][1]).edges[e[3][2], e[3][3]],
                                     {e \in inverters : e[1] = u /\ e[2] = v})
        ports == {<<0, path>> : path \in Flat(s.iface)} \cup
                 UNION {{<<k, path>> : path \in DOMAIN Netlist(k).at} : k \in DOMAIN s.parts}
    IN  [vertices |-> 1..size, asserted |-> FALSE,
         edges |-> Tabulated([e \in refs \X refs |-> Count(e[1], e[2])]),
         ifaceMap |-> [p \in ports |->
            IF p[1] = 0 THEN Position(own, p[2])
            ELSE After(p[1]) + Netlist(p[1]).at[p[2]]]]

IsInternal(g, v) ==
    /\ \E w \in g.vertices : g.edges[v, w] > 0
    /\ \E w \in g.vertices : g.edges[w, v] > 0

\* Mutant of MergeVertex: the interfaces of the vertex stay behind.
MergeVertexOnly(g, persisting, victim) ==
    [Settled(Graph!Eat(g, persisting, victim))
        EXCEPT !.ifaceMap = g.ifaceMap]

MergeVertex(g, persisting, victim) ==
    Settled(Graph!Eat(g, persisting, victim))

CreateOneway(g, from, to) ==
    LET middle == Max(g.vertices) + 1
    IN  [g EXCEPT !.vertices = @ \cup {middle},
                  !.edges[<<from, middle>>] = @ + 1,
                  !.edges[<<middle, to>>] = @ + 1]

\* One connection, its ports in this order: the first one's vertex persists.
JoinNet(g0, ports, outs) ==
    LET persisting == g0.ifaceMap[ports[1]]
        Join(x, p) ==
            LET victim == x.g.ifaceMap[p]
                internal == IsInternal(x.g, victim)
            IN  IF victim = persisting THEN [x EXCEPT !.g.asserted = TRUE]
                ELSE IF internal /\ x.open
                THEN [x EXCEPT !.g = IF p \in outs THEN CreateOneway(x.g, victim, persisting)
                                     ELSE CreateOneway(x.g, persisting, victim)]
                ELSE [g |-> MergeVertex(x.g, persisting, victim), open |-> x.open \/ internal]
    IN  FoldLeft(Join, [g |-> g0, open |-> IsInternal(g0, persisting)], Tail(ports)).g

\* Vertices that are left are numbered anew; an interface whose vertex is gone
\* keeps its old number.
Renumbered(g, kept) ==
    LET New(v) == Cardinality({u \in kept : u <= v})
        left == [i \in 1..Cardinality(kept) |-> CHOOSE v \in kept : New(v) = i]
    IN  [n |-> Len(left),
         edges |-> Tabulated([e \in (DOMAIN left) \X (DOMAIN left) |->
                                g.edges[left[e[1]], left[e[2]]]]),
         at |-> [i \in DOMAIN g.ifaceMap |->
                    IF g.ifaceMap[i] \in kept THEN New(g.ifaceMap[i]) ELSE g.ifaceMap[i]]]

\* Disconnected vertices are removed; those of the parts still carry the interfaces of
\* the parts' entities.
Remaining(g) ==
    LET ofParts == {p \in DOMAIN g.ifaceMap : p[1] # 0}
    IN  {v \in g.vertices :
            \/ \E w \in g.vertices : g.edges[v, w] > 0 \/ g.edges[w, v] > 0
            \/ v \in {g.ifaceMap[p] : p \in ofParts}}

OnOwnInterfaces(netlist, asserted) ==
    LET own == {p \in DOMAIN netlist.at : p[1] = 0}
    IN  [n |-> netlist.n, edges |-> netlist.edges, asserted |-> asserted,
         at |-> Tabulated([path \in {p[2] : p \in own} |-> netlist.at[<<0, path>>]])]

Exported(g) == OnOwnInterfaces(Renumbered(g, Remaining(g)), g.asserted)

\* The ports of a net are sorted by address.
StructureToNetlist(s, entities, rank) ==
    LET outs == {p \in UNION s.connections :
                    IF p[1] = 0 THEN "out" \in s.iface[p[2]].dir
                    ELSE p[2] \in FlatWith(entities[s.parts[p[1]]].iface, "out")}
    IN  Exported(FoldSet(LAMBDA c, g : JoinNet(g, PortsInOrder(c, rank), outs),
                         Begun(s, entities), s.connections))

-----------------------------------------------------------------------------
\* The netlist as its constructor sees it: interfaces are numbered in order.
Attached(netlist, iface) ==
    LET flat == InOrder(Flat(iface))
    IN  [vertices |-> 1..netlist.n, edges |-> netlist.edges,
         ifaceMap |-> [i \in {"in", "out"} \X (1..MaxIfaces) |->
            IF i[2] <= Len(flat) /\ i[1] \in iface[flat[i[2]]].dir
            THEN netlist.at[flat[i[2]]] ELSE 0]]

Detached(netlist, iface) ==
    LET flat == InOrder(Flat(iface))
        Attachment(path) == CHOOSE d \in {"in", "out"} : d \in iface[path].dir
    IN  [n |-> netlist.n, edges |-> netlist.edges,
         at |-> Tabulated([path \in Flat(iface) |->
                            netlist.at[<<Attachment(path), Position(flat, path)>>]])]

\* Netlist's constructor, the vertices in order; of several v3 the first.
Optimized(netlist, iface) ==
    LET FirstV3s(g, v1) ==
            [v2 \in {v \in Graph!EligibleV2(g, v1) : Graph!EligibleV3(g, v1, v) # {}} |->
                Min(Graph!EligibleV3(g, v1, v2))]
        Visited(g, v1) ==
            IF Graph!LoopsBack(g, v1) THEN g
            ELSE Settled(Graph!Cleared(Graph!Eaten(g, v1, FirstV3s(g, v1)), Graph!ClearedV2(g, v1)))
        Kept(g) == Renumbered(g, Graph!Connected(g))
    IN  Detached(Kept(FoldLeft(Visited, Attached(netlist, iface), [v \in 1..netlist.n |-> v])),
                 iface)

HasCycles(netlist) ==
    Graph!HasCycles([vertices |-> 1..netlist.n, edges |-> netlist.edges])
=============================================================================
