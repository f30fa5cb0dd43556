--------------------------- MODULE SynthesisProofs ---------------------------
(***************************************************************************)
(* Theorems about the synthesis of a netlist (Netlist2Tree): its states    *)
(* are what they should be, the tree that createModel makes has exactly     *)
(* the netlist's inverters, and repeaters are never placed without telling. *)
(*                                                                         *)
(* SynthesisOK is inductive.  Its parts follow the stages: ModelOK for      *)
(* createModel (what the tree looks like, which vertices are known, how     *)
(* many inverters are still to be made, what has been followed and what     *)
(* is reached), PlacementOK for computeSpatial, RepairOK for fixBrokenLinks *)
(* and SimulationOK for the drawing and its tests.  Sound and Wider, of     *)
(* channels that have a wire per net and only gain some, are for module     *)
(* LayoutProofs.                                                            *)
(***************************************************************************)
EXTENDS Netlist2Tree, Minima, SequenceTheorems

Vertices == Graph!VertexRefs
GroupRecords == [net: Vertices, parent: Nat, nodes: Seq(Nat)]
NodeRecords == [invert: BOOLEAN, in: Vertices, out: Vertices]
BottomRecords == [net: Vertices, iface: InIfaces \cup {Loose}]
TopRecords == [node: Nat, iface: OutIfaces]

Trees == [layers: Seq(Seq(GroupRecords)), nodes: Seq(NodeRecords),
          channels: Seq(Seq(Vertices)), bottom: Seq(BottomRecords), top: Seq(TopRecords)]

InGroup(t, p, n) == Contains(GroupAt(t, p).nodes, n)

Shaped(t) == t \in Trees /\ Len(t.channels) = Len(t.layers) + 1

\* Every node is in exactly one group.
Homed(t) ==
    /\ \A p \in Places(t) : \A n \in ToSet(GroupAt(t, p).nodes) : n \in 1 .. Len(t.nodes)
    /\ \A n \in 1 .. Len(t.nodes) : \E p \in Places(t) : InGroup(t, p, n)
    /\ \A n \in 1 .. Len(t.nodes) : \A p, q \in Places(t) :
          InGroup(t, p, n) /\ InGroup(t, q, n) => p = q

\* A group's nodes read its net.
Reads(t) ==
    \A n \in 1 .. Len(t.nodes) : \A p \in Places(t) :
        InGroup(t, p, n) => t.nodes[n].in = GroupAt(t, p).net

\* A group's parent is one layer below and drives the net the group reads.
Hung(t) ==
    \A p \in Places(t) : GroupAt(t, p).parent # NoParent =>
        /\ GroupAt(t, p).parent \in 1 .. Len(t.nodes)
        /\ LayerOf(t, GroupAt(t, p).parent) = p[1] - 1
        /\ t.nodes[GroupAt(t, p).parent].out = GroupAt(t, p).net

TreeOK(t) == Shaped(t) /\ Homed(t) /\ Reads(t) /\ Hung(t)

\* The inverters the tree has from one net to another.
Made(t, v, w) == {n \in 1 .. Len(t.nodes) : t.nodes[n].invert
                        /\ t.nodes[n].in = v /\ t.nodes[n].out = w}

Attached(g) ==
    /\ g \in Graph!Graphs /\ g.vertices # {}
    /\ \A i \in Graph!Ifaces : g.ifaceMap[i] \in g.vertices

Closed(g, S) == \A v \in S : Graph!Targets(g, v) \subseteq S

Distinct(s) == \A i, j \in DOMAIN s : s[i] = s[j] => i = j

KnownOK ==
    /\ known = [v \in DOMAIN known |-> known[v]]
    /\ DOMAIN known \subseteq netlist.vertices
    /\ \A v \in DOMAIN known : known[v] \in 0 .. Len(tree.nodes)
    /\ \A v \in DOMAIN known : known[v] # NoParent => tree.nodes[known[v]].out = v

FrontOK ==
    /\ lower \in Seq(DOMAIN known) /\ upper \in Seq(DOMAIN known)
    /\ Distinct(lower) /\ Distinct(upper) /\ ToSet(lower) \cap ToSet(upper) = {}
    /\ \A v \in ToSet(upper) : known[v] # NoParent => LayerOf(tree, known[v]) = Len(tree.layers)
    /\ \A v \in ToSet(lower) : known[v] # NoParent => LayerOf(tree, known[v]) = Len(tree.layers) - 1

EdgesOK ==
    /\ edges = [w \in DOMAIN edges |-> edges[w]]
    /\ DOMAIN edges \subseteq netlist.vertices
    /\ \A w \in DOMAIN edges : edges[w] \in Nat \ {0}
    /\ DOMAIN edges # {} => /\ lower # <<>> /\ stage = "layers"
                            /\ GroupOf(tree, Head(lower)) # {}
                            /\ known[Head(lower)] # NoParent \/ Len(tree.layers) = 1
    /\ lower # <<>> => Len(tree.layers) >= 1

\* How many of the inverters from v to w are still to be made.
Remaining(v, w) ==
    IF v \in ToSet(upper) \/ v \notin DOMAIN known THEN netlist.edges[<<v, w>>]
    ELSE IF v \notin ToSet(lower) THEN 0
    ELSE IF v = Head(lower) /\ DOMAIN edges # {}
    THEN IF w \in DOMAIN edges THEN edges[w] ELSE 0
    ELSE netlist.edges[<<v, w>>]

CountOK ==
    \A v, w \in netlist.vertices :
        Cardinality(Made(tree, v, w)) + Remaining(v, w) = netlist.edges[<<v, w>>]

\* What has been dealt with leads to what is known, or is about to be.
FollowedOK ==
    \A v \in DOMAIN known \ ToSet(upper) :
        IF v \in ToSet(lower)
        THEN v = Head(lower) /\ DOMAIN edges # {} =>
                Graph!Targets(netlist, v) \subseteq DOMAIN known \cup DOMAIN edges
        ELSE Graph!Targets(netlist, v) \subseteq DOMAIN known

ReachedOK ==
    stage # "bottom" =>
        \A S \in SUBSET netlist.vertices :
            DOMAIN known \subseteq S /\ Closed(netlist, S) => S = netlist.vertices

BottomOK ==
    \A b \in 1 .. Len(tree.bottom) :
        LET v == tree.bottom[b].net
        IN  /\ v \in DOMAIN known /\ known[v] = NoParent
            /\ v \notin ToSet(lower) \cup ToSet(upper) => InputToGroup(tree, v, Bottom) # {}

StagesOK ==
    /\ stage \in Stages
    /\ stage = "bottom" => /\ tree.layers = <<>> /\ tree.nodes = <<>> /\ lower = <<>>
                           /\ DOMAIN known = ToSet(upper)
                           /\ DOMAIN known = {tree.bottom[b].net : b \in 1 .. Len(tree.bottom)}
    /\ stage \notin {"bottom", "layers"} => lower = <<>> /\ upper = <<>> /\ Len(tree.layers) >= 1
    /\ stage = "layers" /\ upper = <<>> => Len(tree.layers) >= 1
    /\ ifaces \subseteq IF stage = "bottom" THEN InIfaces ELSE OutIfaces

ModelOK ==
    /\ Attached(netlist) /\ TreeOK(tree)
    /\ KnownOK /\ FrontOK /\ EdgesOK /\ CountOK /\ FollowedOK /\ ReachedOK /\ BottomOK /\ StagesOK

Parent(n) == GroupAt(tree, PlaceOf(tree, n)).parent

PlacementOK ==
    /\ col = [n \in DOMAIN col |-> col[n]] /\ DOMAIN col \subseteq Nodes
    /\ \A n \in DOMAIN col : col[n] \in Nat
    /\ bottom = [b \in DOMAIN bottom |-> bottom[b]]
    /\ \A b \in DOMAIN bottom : bottom[b] \in Nat
    /\ todo \in Seq(Nodes)
    /\ stage \in {"bottom", "layers", "top"} => col = <<>> /\ todo = <<>>
    /\ stage \in {"bottom", "layers", "top", "place"} => bottom = <<>>
    /\ stage = "place" =>
          /\ \A p \in Places(tree) : GroupAt(tree, p).nodes # <<>>
          /\ \A n \in ToSet(todo) : Parent(n) # NoParent => Parent(n) \in DOMAIN col
          /\ NodesOf(1) \subseteq ToSet(todo) \cup DOMAIN col

RepairOK ==
    /\ pending \subseteq DOMAIN known /\ broken \subseteq DOMAIN known
    /\ timing \in {"kept", "broken"}
    /\ route # NoRoute => pending # {}
    /\ stage # "repair" /\ stage # "aborted" => pending = {} /\ broken = {}
    /\ stage \notin {"repair", "blocks", "assess", "done", "aborted"} => repeaters = {}
    /\ timing = "kept" /\ stage \in {"blocks", "assess", "done"} => repeaters = {}

SimulationOK ==
    /\ stage \notin {"assess", "done"} => NotSimulated
    /\ stage = "assess" => tests \in Seq(Inverters \cup InIfaces)
    /\ stage = "done" => sim = Idle
    /\ sim # Idle => sim.source \in Inverters \cup InIfaces
    /\ links \subseteq (Inverters \cup InIfaces) \X (Inverters \cup OutIfaces)
    /\ sim.hit \subseteq DOMAIN blocks
    /\ timing = "kept" => Cells(blocks, "repeater") = {}

SynthesisOK == ModelOK /\ PlacementOK /\ RepairOK /\ SimulationOK

\* The vertices are finitely many numbers.
LEMMA VerticesFinite == IsFiniteSet(Vertices) /\ Vertices \in SUBSET Nat
<1>1. PICK n \in GivenVertices : GivenVertices = 1 .. n /\ n \in Nat
  BY VerticesAssumption
<1>2. Cardinality(GivenVertices) = n
  BY <1>1, FS_Interval
<1>3. Graph!Cardinality(GivenVertices) = Cardinality(GivenVertices)
  BY DEF Graph!Cardinality, Cardinality
<1>4. Vertices = 1 .. (n + Added) /\ n + Added \in Nat
  BY <1>2, <1>1, <1>3, VerticesAssumption DEF Vertices, Graph!VertexRefs
<1>5. QED BY <1>4, FS_Interval

-----------------------------------------------------------------------------
(* Sequences.                                                                *)

\* A function over the first numbers is a sequence.
LEMMA AsSequence ==
    ASSUME NEW n \in Nat, NEW X, NEW f, f = [i \in 1 .. n |-> f[i]], \A i \in 1 .. n : f[i] \in X
    PROVE  f \in Seq(X)
OBVIOUS

\* What is in two sequences is what is in the one that follows the other.
LEMMA ToSetConcat ==
    ASSUME NEW X, NEW s \in Seq(X), NEW t \in Seq(X)
    PROVE  s \o t \in Seq(X) /\ ToSet(s \o t) = ToSet(s) \cup ToSet(t)
<1>1. s \o t \in Seq(X) /\ Len(s \o t) = Len(s) + Len(t) /\ Len(s) \in Nat /\ Len(t) \in Nat
      /\ DOMAIN s = 1 .. Len(s) /\ DOMAIN t = 1 .. Len(t) /\ DOMAIN (s \o t) = 1 .. Len(s) + Len(t)
  OBVIOUS
<1>2. \A i \in 1 .. Len(s) + Len(t) :
        (s \o t)[i] = IF i <= Len(s) THEN s[i] ELSE t[i - Len(s)]
  OBVIOUS
<1>3. ASSUME NEW i \in 1 .. Len(s) + Len(t) PROVE (s \o t)[i] \in ToSet(s) \cup ToSet(t)
  <2>1. CASE i <= Len(s)
    <3>1. i \in DOMAIN s
      BY <1>1, <2>1
    <3>2. QED BY <1>2, <2>1, <3>1 DEF ToSet
  <2>2. CASE ~(i <= Len(s))
    <3>1. i - Len(s) \in DOMAIN t
      BY <1>1, <2>2
    <3>2. QED BY <1>2, <2>2, <3>1 DEF ToSet
  <2>3. QED BY <2>1, <2>2
<1>4. ASSUME NEW i \in 1 .. Len(s) PROVE s[i] \in ToSet(s \o t)
  <2>1. i \in DOMAIN (s \o t) /\ i <= Len(s)
    BY <1>1
  <2>2. (s \o t)[i] = s[i]
    BY <1>1, <1>2, <2>1
  <2>3. QED BY <2>1, <2>2 DEF ToSet
<1>5. ASSUME NEW i \in 1 .. Len(t) PROVE t[i] \in ToSet(s \o t)
  <2>1. Len(s) + i \in DOMAIN (s \o t) /\ ~(Len(s) + i <= Len(s)) /\ (Len(s) + i) - Len(s) = i
    BY <1>1
  <2>2. (s \o t)[Len(s) + i] = t[i]
    BY <1>1, <1>2, <2>1
  <2>3. QED BY <2>1, <2>2 DEF ToSet
<1>6. QED BY <1>1, <1>3, <1>4, <1>5 DEF ToSet

\* A sequence of sequences, flattened, is made of what is in any of them.
LEMMA FlattenFacts ==
    ASSUME NEW X, NEW s, s \in Seq(Seq(X))
    PROVE  /\ FlattenSeq(s) \in Seq(X)
           /\ ToSet(FlattenSeq(s)) = UNION {ToSet(s[i]) : i \in DOMAIN s}
<1>1. PICK n \in Nat : n = Len(s) /\ DOMAIN s = 1 .. n
  OBVIOUS
<1>2. \A i \in 1 .. n : s[i] \in Seq(X)
  BY <1>1
<1>3. CASE n = 0
  <2>1. s = <<>> /\ DOMAIN s = {}
    BY <1>1, <1>3
  <2>2. FlattenSeq(s) = <<>>
    BY <1>1, <1>3, <2>1 DEF FlattenSeq
  <2>3. UNION {ToSet(s[i]) : i \in DOMAIN s} = {}
    BY <2>1
  <2>4. ToSet(<<>>) = {} /\ <<>> \in Seq(X)
    BY DEF ToSet
  <2>5. QED BY <2>2, <2>3, <2>4
<1>4. CASE n # 0
  <2> DEFINE Q == Seq(X)
             Code(f) == [i \in 1 .. n |-> IF i = 1 THEN s[i] ELSE f[i - 1] \o s[i]]
             E == [i \in 1 .. n |-> Q]
             F == Typed(1 .. n, Q, E)
             More == [f \in F |-> Code(f)]
             depth == [i \in 1 .. n |-> i]
  <2>1. F = [1 .. n -> Q]
    BY DEF Typed
  <2>2. ASSUME NEW f \in F PROVE Code(f) \in F
    <3>1. ASSUME NEW i \in 1 .. n PROVE Code(f)[i] \in Q
      <4>1. i # 1 => i - 1 \in 1 .. n
        OBVIOUS
      <4>2. i # 1 => f[i - 1] \in Q
        BY <2>1, <4>1
      <4>3. s[i] \in Q
        BY <1>2
      <4>4. QED BY <4>2, <4>3
    <3>2. QED BY <2>1, <3>1
  <2>3. More \in [F -> F] /\ depth \in [1 .. n -> Nat]
    <3> HIDE DEF F, Code
    <3> QED BY <2>2
  <2>4. ASSUME NEW f \in F, NEW g \in F, NEW i \in 1 .. n,
               \A j \in 1 .. n : depth[j] < depth[i] => f[j] = g[j]
        PROVE  More[f][i] = More[g][i]
    <3>1. More[f] = Code(f) /\ More[g] = Code(g)
      <4> HIDE DEF F, Code
      <4> QED OBVIOUS
    <3>2. i # 1 => f[i - 1] = g[i - 1]
      <4>1. i # 1 => i - 1 \in 1 .. n /\ depth[i - 1] < depth[i]
        BY <1>1
      <4>2. QED BY <2>4, <4>1
    <3>3. Code(f)[i] = Code(g)[i]
      BY <3>2
    <3> HIDE DEF F, Code, More
    <3>4. QED BY <3>1, <3>3
  <2>5. Deepens(More, 1 .. n, F, depth)
    <3> HIDE DEF F, More, depth
    <3> QED BY <2>3, <2>4 DEF Deepens
  <2>6. \E f \in F : f = More[f]
    <3>1. E \in [1 .. n -> SUBSET Q] /\ \A i \in 1 .. n : E[i] # {}
      OBVIOUS
    <3>2. Deepens(More, 1 .. n, Typed(1 .. n, Q, E), depth)
      BY <2>5
    <3> DEFINE S == 1 .. n
    <3>3. E \in [S -> SUBSET Q] /\ \A i \in S : E[i] # {}
      BY <3>1
    <3>4. Deepens(More, S, Typed(S, Q, E), depth)
      BY <3>2
    <3> HIDE DEF S, E, F, Code, More, depth, Q
    <3>5. \E h \in Typed(S, Q, E) : h = More[h]
      BY ONLY <3>3, <3>4, RecursionExists
    <3>6. QED BY <3>5 DEF S, F
  <2>7. PICK it : it = Code(it)
    <3>1. PICK f \in F : f = More[f]
      BY <2>6
    <3>2. f = Code(f)
      <4> HIDE DEF F, Code
      <4> QED BY <3>1
    <3>3. QED BY <3>2
  <2>8. PICK f : f = Code(f) /\ FlattenSeq(s) = f[n]
    <3>1. FlattenSeq(s) = (CHOOSE f : f = Code(f))[n]
      BY <1>1, <1>4 DEF FlattenSeq
    <3> HIDE DEF Code
    <3>2. (CHOOSE f : f = Code(f)) = Code(CHOOSE f : f = Code(f))
      BY <2>7
    <3>3. QED BY <3>1, <3>2
  <2>9. \A i \in 1 .. n : f[i] = IF i = 1 THEN s[i] ELSE f[i - 1] \o s[i]
    BY <2>8
  <2> DEFINE Upto(i) == UNION {ToSet(s[j]) : j \in 1 .. i}
             Wrong == {i \in 1 .. n : ~(f[i] \in Seq(X) /\ ToSet(f[i]) = Upto(i))}
  <2>10. ASSUME NEW i \in Wrong PROVE \E m \in Wrong : m < i
    <3> SUFFICES ASSUME \A m \in Wrong : ~(m < i) PROVE FALSE
      OBVIOUS
    <3>1. CASE i = 1
      <4>1. f[i] = s[i]
        BY <2>9, <3>1
      <4>2. Upto(i) = ToSet(s[i])
        <5>1. 1 .. i = {i}
          BY <3>1
        <5>2. QED BY <5>1
      <4>3. QED BY <1>2, <4>1, <4>2
    <3>2. CASE i # 1
      <4>1. i - 1 \in 1 .. n /\ i - 1 < i
        BY <3>2
      <4>2. f[i - 1] \in Seq(X) /\ ToSet(f[i - 1]) = Upto(i - 1)
        BY <4>1
      <4>3. f[i] = f[i - 1] \o s[i]
        BY <2>9, <3>2
      <4>4. s[i] \in Seq(X)
        BY <1>2
      <4>5. f[i] \in Seq(X) /\ ToSet(f[i]) = ToSet(f[i - 1]) \cup ToSet(s[i])
        BY <4>2, <4>3, <4>4, ToSetConcat
      <4>6. Upto(i) = Upto(i - 1) \cup ToSet(s[i])
        <5>1. 1 .. i = (1 .. i - 1) \cup {i}
          BY <4>1
        <5>2. QED BY <5>1
      <4>7. QED BY <4>2, <4>5, <4>6
    <3>3. QED BY <3>1, <3>2
  <2>11. Wrong = {}
    <3>1. Wrong \in SUBSET Nat
      OBVIOUS
    <3> HIDE DEF Wrong
    <3>2. QED BY <2>10, <3>1, Descent
  <2>12. f[n] \in Seq(X) /\ ToSet(f[n]) = Upto(n)
    BY SMTT(30), <1>4, <2>11
  <2>13. QED BY <1>1, <2>8, <2>12
<1>5. QED BY <1>3, <1>4

\* A sequence with an element inserted.
LEMMA InsertAtFacts ==
    ASSUME NEW X, NEW s \in Seq(X), NEW g \in 1 .. Len(s) + 1, NEW e \in X
    PROVE  /\ InsertAt(s, g, e) \in Seq(X) /\ Len(InsertAt(s, g, e)) = Len(s) + 1
           /\ \A i \in 1 .. Len(s) + 1 :
                 InsertAt(s, g, e)[i] = IF i < g THEN s[i] ELSE IF i = g THEN e ELSE s[i - 1]
<1>1. PICK front : front = SubSeq(s, 1, g - 1)
  OBVIOUS
<1>2. PICK back : back = SubSeq(s, g, Len(s))
  OBVIOUS
<1>3. Len(s) \in Nat /\ g \in Nat /\ g - 1 \in Nat
  OBVIOUS
<1>4. front \in Seq(X) /\ Len(front) = g - 1 /\ \A i \in 1 .. g - 1 : front[i] = s[i]
  BY <1>1, <1>3
<1>5. back \in Seq(X) /\ Len(back) = Len(s) - g + 1 /\ \A i \in 1 .. Len(s) - g + 1 : back[i] = s[i + g - 1]
  BY <1>2, <1>3
<1>6. InsertAt(s, g, e) = front \o <<e>> \o back
  BY <1>1, <1>2 DEF InsertAt
<1>7. PICK a : a = front \o <<e>>
  OBVIOUS
<1>8. a \in Seq(X) /\ Len(a) = g /\ a[g] = e /\ \A i \in 1 .. g - 1 : a[i] = s[i]
  BY <1>3, <1>4, <1>7
<1>9. a \o back \in Seq(X) /\ Len(a \o back) = Len(s) + 1
  BY <1>3, <1>5, <1>8
<1>10. ASSUME NEW i \in 1 .. Len(s) + 1
       PROVE  (a \o back)[i] = IF i < g THEN s[i] ELSE IF i = g THEN e ELSE s[i - 1]
  <2>1. CASE i <= g
    <3>1. (a \o back)[i] = a[i]
      BY <1>3, <1>5, <1>8, <2>1
    <3>2. CASE i = g
      BY <1>3, <1>8, <3>1, <3>2
    <3>3. CASE i # g
      <4>1. i \in 1 .. g - 1 /\ i < g
        BY <1>3, <2>1, <3>3
      <4>2. QED BY <1>8, <3>1, <4>1
    <3>4. QED BY <3>2, <3>3
  <2>2. CASE i > g
    <3>1. i - g \in 1 .. Len(s) - g + 1 /\ (i - g) + g - 1 = i - 1
      BY <1>3, <2>2
    <3>2. (a \o back)[i] = back[i - g]
      BY <1>3, <1>5, <1>8, <2>2
    <3>3. back[i - g] = s[i - 1]
      BY <1>5, <3>1
    <3>4. ~(i < g) /\ i # g
      BY <1>3, <2>2
    <3>5. QED BY <3>2, <3>3, <3>4
  <2>3. i <= g \/ i > g
    BY <1>3
  <2>4. QED BY <2>1, <2>2, <2>3
<1>11. QED BY <1>6, <1>7, <1>9, <1>10

(***************************************************************************)
(* Trees.                                                                   *)
(***************************************************************************)
\* The parts of a tree are what their names say.
LEMMA TreeParts ==
    ASSUME NEW t, t \in Trees
    PROVE  /\ t.layers \in Seq(Seq(GroupRecords)) /\ Len(t.layers) \in Nat
           /\ t.nodes \in Seq(NodeRecords) /\ Len(t.nodes) \in Nat
           /\ t.channels \in Seq(Seq(Vertices)) /\ Len(t.channels) \in Nat
           /\ t.bottom \in Seq(BottomRecords) /\ t.top \in Seq(TopRecords)
           /\ \A n \in 1 .. Len(t.nodes) : t.nodes[n] \in NodeRecords
           /\ \A c \in 1 .. Len(t.channels) : t.channels[c] \in Seq(Vertices)
           /\ \A l \in 1 .. Len(t.layers) : t.layers[l] \in Seq(GroupRecords) /\ Len(t.layers[l]) \in Nat
<1>1. /\ t.layers \in Seq(Seq(GroupRecords)) /\ t.nodes \in Seq(NodeRecords)
      /\ t.channels \in Seq(Seq(Vertices)) /\ t.bottom \in Seq(BottomRecords)
      /\ t.top \in Seq(TopRecords)
  BY DEF Trees
<1>2. \A l \in 1 .. Len(t.layers) : t.layers[l] \in Seq(GroupRecords)
  <2> HIDE DEF GroupRecords
  <2> DEFINE G == Seq(GroupRecords)
  <2>1. t.layers \in Seq(G)
    BY <1>1
  <2> HIDE DEF G
  <2>2. \A l \in 1 .. Len(t.layers) : t.layers[l] \in G
    BY ONLY <2>1
  <2>3. QED BY <2>2 DEF G
<1>3. \A c \in 1 .. Len(t.channels) : t.channels[c] \in Seq(Vertices)
  <2> DEFINE G == Seq(Vertices)
  <2>1. t.channels \in Seq(G)
    BY <1>1
  <2> HIDE DEF G
  <2>2. \A l \in 1 .. Len(t.channels) : t.channels[l] \in G
    BY ONLY <2>1
  <2>3. QED BY <2>2 DEF G
<1>4. QED BY <1>1, <1>2, <1>3

\* Places are pairs of a layer and an index of a group in it.
LEMMA PlaceFacts ==
    ASSUME NEW t, t \in Trees
    PROVE  /\ \A l \in 1 .. Len(t.layers) : \A g \in 1 .. Len(t.layers[l]) : <<l, g>> \in Places(t)
           /\ \A p \in Places(t) : /\ p = <<p[1], p[2]>> /\ p[1] \in 1 .. Len(t.layers)
                                   /\ p[2] \in 1 .. Len(t.layers[p[1]])
                                   /\ p[1] \in Nat /\ p[2] \in Nat
                                   /\ GroupAt(t, p) = t.layers[p[1]][p[2]]
                                   /\ GroupAt(t, p) \in GroupRecords
                                   /\ GroupAt(t, p).net \in Vertices /\ GroupAt(t, p).parent \in Nat
                                   /\ GroupAt(t, p).nodes \in Seq(Nat)
<1>1. /\ Len(t.layers) \in Nat
      /\ \A l \in 1 .. Len(t.layers) : t.layers[l] \in Seq(GroupRecords) /\ Len(t.layers[l]) \in Nat
  BY TreeParts
<1>2. \A l \in 1 .. Len(t.layers) : \A g \in 1 .. Len(t.layers[l]) : <<l, g>> \in Places(t)
  BY DEF Places
<1>3. ASSUME NEW p \in Places(t)
      PROVE  /\ p = <<p[1], p[2]>> /\ p[1] \in 1 .. Len(t.layers)
             /\ p[2] \in 1 .. Len(t.layers[p[1]]) /\ p[1] \in Nat /\ p[2] \in Nat
             /\ GroupAt(t, p) = t.layers[p[1]][p[2]] /\ GroupAt(t, p) \in GroupRecords
  <2>1. PICK l \in 1 .. Len(t.layers) : p \in {l} \X (1 .. Len(t.layers[l]))
    BY DEF Places
  <2>2. p = <<p[1], p[2]>> /\ p[1] = l /\ p[2] \in 1 .. Len(t.layers[l])
    BY <2>1
  <2>3. PICK s : s = t.layers[l]
    OBVIOUS
  <2>4. s \in Seq(GroupRecords) /\ Len(s) \in Nat /\ p[2] \in 1 .. Len(s)
    BY <1>1, <2>2, <2>3
  <2>5. s[p[2]] \in GroupRecords
    BY <2>4
  <2>6. QED BY <1>1, <2>2, <2>3, <2>4, <2>5 DEF GroupAt
<1>4. \A g \in GroupRecords : g.net \in Vertices /\ g.parent \in Nat /\ g.nodes \in Seq(Nat)
  BY DEF GroupRecords
<1>5. QED BY <1>2, <1>3, <1>4

\* What has grown from t: everything is where it was, in a group that may have moved
\* within its layer.
Extends(t, u) ==
    /\ Len(u.layers) = Len(t.layers) /\ Len(u.channels) = Len(t.channels)
    /\ u.bottom = t.bottom /\ u.top = t.top
    /\ Len(t.nodes) <= Len(u.nodes)
    /\ \A n \in 1 .. Len(t.nodes) : u.nodes[n] = t.nodes[n] /\ LayerOf(u, n) = LayerOf(t, n)
    /\ \A p \in Places(t) : \E q \in Places(u) :
          /\ q[1] = p[1] /\ GroupAt(u, q).net = GroupAt(t, p).net
          /\ GroupAt(u, q).parent = GroupAt(t, p).parent

\* An element is contained in a sequence when it is one of its elements.
LEMMA ContainsMeans ==
    ASSUME NEW X, NEW s \in Seq(X), NEW e
    PROVE  Contains(s, e) <=> e \in ToSet(s)
<1>1. DOMAIN s = 1 .. Len(s)
  OBVIOUS
<1>2. QED BY <1>1 DEF Contains, ToSet

\* Where a node is.
LEMMA HomeFacts ==
    ASSUME NEW t, t \in Trees, Homed(t), NEW n \in 1 .. Len(t.nodes)
    PROVE  /\ PlaceOf(t, n) \in Places(t) /\ InGroup(t, PlaceOf(t, n), n)
           /\ LayerOf(t, n) = PlaceOf(t, n)[1] /\ LayerOf(t, n) \in 1 .. Len(t.layers)
           /\ \A p \in Places(t) : InGroup(t, p, n) => p = PlaceOf(t, n)
<1>1. PICK p \in Places(t) : Contains(GroupAt(t, p).nodes, n)
  BY DEF Homed, InGroup
<1>2. PlaceOf(t, n) \in Places(t) /\ Contains(GroupAt(t, PlaceOf(t, n)).nodes, n)
  BY <1>1 DEF PlaceOf
<1>3. PlaceOf(t, n)[1] \in 1 .. Len(t.layers)
  BY <1>2, PlaceFacts
<1>4. QED BY <1>2, <1>3 DEF Homed, InGroup, LayerOf

\* The nodes a group has are nodes of the tree.
LEMMA GroupNodes ==
    ASSUME NEW t, t \in Trees, Homed(t), NEW p \in Places(t), NEW n
    PROVE  /\ InGroup(t, p, n) <=> n \in ToSet(GroupAt(t, p).nodes)
           /\ InGroup(t, p, n) => n \in 1 .. Len(t.nodes)
<1>1. GroupAt(t, p).nodes \in Seq(Nat)
  BY PlaceFacts
<1>2. InGroup(t, p, n) <=> n \in ToSet(GroupAt(t, p).nodes)
  BY <1>1, ContainsMeans DEF InGroup
<1>3. QED BY <1>2 DEF Homed

\* Trees with the same layers have the same places and groups.
LEMMA SameLayers ==
    ASSUME NEW t, NEW u, u.layers = t.layers
    PROVE  /\ Places(u) = Places(t) /\ \A p : GroupAt(u, p) = GroupAt(t, p)
           /\ \A p, n : InGroup(u, p, n) <=> InGroup(t, p, n)
           /\ \A n : PlaceOf(u, n) = PlaceOf(t, n) /\ LayerOf(u, n) = LayerOf(t, n)
<1>1. Places(u) = Places(t) /\ \A p : GroupAt(u, p) = GroupAt(t, p)
  BY DEF Places, GroupAt
<1>2. \A p, n : InGroup(u, p, n) <=> InGroup(t, p, n)
  BY <1>1 DEF InGroup
<1>3. \A n : PlaceOf(u, n) = PlaceOf(t, n)
  BY <1>1 DEF PlaceOf
<1>4. QED BY <1>1, <1>2, <1>3 DEF LayerOf

\* And the same nodes: all that is said of the groups holds.
LEMMA SameLayersOK ==
    ASSUME NEW t, TreeOK(t), NEW u, u \in Trees, u.layers = t.layers, u.nodes = t.nodes,
           Len(u.channels) = Len(t.channels)
    PROVE  TreeOK(u)
<1>1. /\ Places(u) = Places(t) /\ \A p : GroupAt(u, p) = GroupAt(t, p)
      /\ \A p, n : InGroup(u, p, n) <=> InGroup(t, p, n)
      /\ \A n : LayerOf(u, n) = LayerOf(t, n)
  BY SameLayers
<1>2. Shaped(u)
  BY DEF TreeOK, Shaped
<1>3. Homed(u)
  BY <1>1 DEF TreeOK, Homed
<1>4. Reads(u)
  BY <1>1 DEF TreeOK, Reads
<1>5. Hung(u)
  BY <1>1 DEF TreeOK, Hung
<1>6. QED BY <1>2, <1>3, <1>4, <1>5 DEF TreeOK

\* A tree and what is made of it by exchanging some of its parts.
LEMMA TreeIs ==
    ASSUME NEW t, t \in Trees
    PROVE  /\ t = [layers |-> t.layers, nodes |-> t.nodes, channels |-> t.channels,
                   bottom |-> t.bottom, top |-> t.top]
           /\ \A c, s : [t EXCEPT !.channels[c] = s] =
                 [layers |-> t.layers, nodes |-> t.nodes, channels |-> [t.channels EXCEPT ![c] = s],
                  bottom |-> t.bottom, top |-> t.top]
           /\ \A l, s : [t EXCEPT !.layers[l] = s] =
                 [layers |-> [t.layers EXCEPT ![l] = s], nodes |-> t.nodes, channels |-> t.channels,
                  bottom |-> t.bottom, top |-> t.top]
<1>1. t = [layers |-> t.layers, nodes |-> t.nodes, channels |-> t.channels,
           bottom |-> t.bottom, top |-> t.top]
  <2> DEFINE A == Seq(Seq(GroupRecords))
             B == Seq(NodeRecords)
             C == Seq(Seq(Vertices))
             D == Seq(BottomRecords)
             E == Seq(TopRecords)
  <2>1. t \in [layers: A, nodes: B, channels: C, bottom: D, top: E]
    BY DEF Trees
  <2> HIDE DEF A, B, C, D, E
  <2>2. QED BY ONLY <2>1
<1>2. ASSUME NEW a, NEW b, NEW c, NEW d, NEW e, NEW k, NEW s, NEW r,
             r = [layers |-> a, nodes |-> b, channels |-> c, bottom |-> d, top |-> e]
      PROVE  /\ [r EXCEPT !.channels[k] = s] =
                   [layers |-> a, nodes |-> b, channels |-> [c EXCEPT ![k] = s], bottom |-> d, top |-> e]
             /\ [r EXCEPT !.layers[k] = s] =
                   [layers |-> [a EXCEPT ![k] = s], nodes |-> b, channels |-> c, bottom |-> d, top |-> e]
  BY ONLY <1>2
<1>3. QED BY <1>1, <1>2

\* A tree is put together of parts that are what their names say.
LEMMA TreeMade ==
    ASSUME NEW layers, layers \in Seq(Seq(GroupRecords)), NEW nodes, nodes \in Seq(NodeRecords),
           NEW channels, channels \in Seq(Seq(Vertices)), NEW bot, bot \in Seq(BottomRecords),
           NEW top, top \in Seq(TopRecords)
    PROVE  [layers |-> layers, nodes |-> nodes, channels |-> channels, bottom |-> bot, top |-> top]
               \in Trees
BY DEF Trees

\* Everything extends itself, and what extends an extension extends the whole.
LEMMA ExtendsSelf ==
    ASSUME NEW t, t \in Trees
    PROVE  Extends(t, t)
<1>1. Len(t.nodes) \in Nat
  BY TreeParts
<1>2. QED BY <1>1 DEF Extends

\* A tree that extends one that extends another extends that.
LEMMA ExtendsOn ==
    ASSUME NEW t, t \in Trees, NEW u, u \in Trees, NEW w, w \in Trees, Extends(t, u), Extends(u, w)
    PROVE  Extends(t, w)
<1>1. Len(t.nodes) \in Nat /\ Len(u.nodes) \in Nat /\ Len(w.nodes) \in Nat
  BY TreeParts
<1>2. /\ Len(w.layers) = Len(t.layers) /\ Len(w.channels) = Len(t.channels)
      /\ w.bottom = t.bottom /\ w.top = t.top /\ Len(t.nodes) <= Len(w.nodes)
  BY <1>1 DEF Extends
<1>3. ASSUME NEW n \in 1 .. Len(t.nodes)
      PROVE  w.nodes[n] = t.nodes[n] /\ LayerOf(w, n) = LayerOf(t, n)
  <2>1. n \in 1 .. Len(u.nodes)
    BY <1>1 DEF Extends
  <2>2. QED BY <2>1 DEF Extends
<1>4. ASSUME NEW p \in Places(t)
      PROVE  \E q \in Places(w) : /\ q[1] = p[1] /\ GroupAt(w, q).net = GroupAt(t, p).net
                                  /\ GroupAt(w, q).parent = GroupAt(t, p).parent
  <2>1. PICK r \in Places(u) : /\ r[1] = p[1] /\ GroupAt(u, r).net = GroupAt(t, p).net
                               /\ GroupAt(u, r).parent = GroupAt(t, p).parent
    BY DEF Extends
  <2>2. PICK q \in Places(w) : /\ q[1] = r[1] /\ GroupAt(w, q).net = GroupAt(u, r).net
                               /\ GroupAt(w, q).parent = GroupAt(u, r).parent
    BY DEF Extends
  <2>3. QED BY <2>1, <2>2
<1>5. QED BY <1>2, <1>3, <1>4 DEF Extends

\* An element put in the place of one of a sequence of sequences.
LEMMA ReplacedIn ==
    ASSUME NEW X, NEW s, s \in Seq(Seq(X)), NEW k \in 1 .. Len(s), NEW e, e \in Seq(X)
    PROVE  /\ [s EXCEPT ![k] = e] \in Seq(Seq(X)) /\ Len([s EXCEPT ![k] = e]) = Len(s)
           /\ [s EXCEPT ![k] = e][k] = e
           /\ \A i \in 1 .. Len(s) \ {k} : [s EXCEPT ![k] = e][i] = s[i]
<1> DEFINE Y == Seq(X)
<1>1. s \in Seq(Y) /\ e \in Y
  OBVIOUS
<1> HIDE DEF Y
<1>2. k \in DOMAIN s
  BY ONLY <1>1, k \in 1 .. Len(s)
<1>3. [s EXCEPT ![k] = e] \in Seq(Y) /\ Len([s EXCEPT ![k] = e]) = Len(s)
  BY ONLY <1>1, k \in 1 .. Len(s), ExceptSeq
<1>4. [s EXCEPT ![k] = e][k] = e /\ \A i \in 1 .. Len(s) \ {k} : [s EXCEPT ![k] = e][i] = s[i]
  BY ONLY <1>1, <1>2
<1>5. QED BY <1>3, <1>4 DEF Y

\* A sequence with one element more that it did not have.
LEMMA OneMore ==
    ASSUME NEW X, NEW s \in Seq(X), NEW e \in X, e \notin ToSet(s), NEW r, r = Append(s, e)
    PROVE  ToSet(r) = ToSet(s) \cup {e} /\ (Distinct(s) => Distinct(r))
<1>1. /\ Len(s) \in Nat /\ DOMAIN s = 1 .. Len(s) /\ DOMAIN r = 1 .. Len(s) + 1
      /\ r[Len(s) + 1] = e /\ \A i \in 1 .. Len(s) : r[i] = s[i]
  OBVIOUS
<1>2. DOMAIN r = DOMAIN s \cup {Len(s) + 1} /\ Len(s) + 1 \notin DOMAIN s
  BY <1>1
<1>3. ToSet(r) = ToSet(s) \cup {e}
  BY <1>1, <1>2 DEF ToSet
<1>4. \A i \in DOMAIN s : s[i] # e
  BY DEF ToSet
<1>5. Distinct(s) => Distinct(r)
  BY <1>1, <1>2, <1>4 DEF Distinct
<1>6. QED BY <1>3, <1>5

\* The channels of u have the wires those of t have, each at most once if it was so.
Wider(t, u) ==
    /\ Len(u.channels) = Len(t.channels)
    /\ \A c \in 1 .. Len(t.channels) :
          /\ ToSet(t.channels[c]) \subseteq ToSet(u.channels[c])
          /\ Distinct(t.channels[c]) => Distinct(u.channels[c])

\* A net's wire in a channel is found or made.
LEMMA FindOrMakeFacts ==
    ASSUME NEW t, TreeOK(t), NEW c \in 1 .. Len(t.channels), NEW net \in Vertices,
           NEW u, u = FindOrMake(t, c, net)
    PROVE  /\ TreeOK(u) /\ Extends(t, u)
           /\ u.layers = t.layers /\ u.nodes = t.nodes
           /\ Len(u.channels) = Len(t.channels)
           /\ Wider(t, u) /\ net \in ToSet(u.channels[c])
<1>1. t \in Trees
  BY DEF TreeOK, Shaped
<1>2. CASE Contains(t.channels[c], net)
  <2>1. t.channels[c] \in Seq(Vertices)
    BY <1>1, TreeParts
  <2>2. net \in ToSet(t.channels[c])
    BY <1>2, <2>1, ContainsMeans
  <2>3. QED BY <1>1, <1>2, <2>2, ExtendsSelf DEF FindOrMake, Wider
<1>3. CASE ~Contains(t.channels[c], net)
  <2>1. PICK wires : wires = Append(t.channels[c], net)
    OBVIOUS
  <2>2. u = [t EXCEPT !.channels[c] = wires]
    BY <1>3, <2>1 DEF FindOrMake
  <2>3. /\ t.channels \in Seq(Seq(Vertices)) /\ t.channels[c] \in Seq(Vertices)
        /\ t.layers \in Seq(Seq(GroupRecords)) /\ t.nodes \in Seq(NodeRecords)
        /\ t.bottom \in Seq(BottomRecords) /\ t.top \in Seq(TopRecords) /\ Len(t.nodes) \in Nat
    BY <1>1, TreeParts
  <2>4. wires \in Seq(Vertices)
    <3>1. PICK s : s = t.channels[c]
      OBVIOUS
    <3>2. s \in Seq(Vertices) /\ wires = Append(s, net)
      BY <2>1, <2>3, <3>1
    <3>3. QED BY ONLY <3>2, net \in Vertices
  <2>5. PICK channels : channels = [t.channels EXCEPT ![c] = wires]
    OBVIOUS
  <2>6. channels \in Seq(Seq(Vertices)) /\ Len(channels) = Len(t.channels)
    BY <2>3, <2>4, <2>5, ReplacedIn
  <2>7. u = [layers |-> t.layers, nodes |-> t.nodes, channels |-> channels,
             bottom |-> t.bottom, top |-> t.top]
    BY <1>1, <2>2, <2>5, TreeIs
  <2>8. u \in Trees
    BY <2>3, <2>6, <2>7, TreeMade
  <2>9. u.layers = t.layers /\ u.nodes = t.nodes /\ u.bottom = t.bottom /\ u.top = t.top
        /\ u.channels = channels
    BY <2>7
  <2>10. TreeOK(u)
    BY <2>6, <2>8, <2>9, SameLayersOK
  <2>11. Extends(t, u)
    <3>1. /\ Places(u) = Places(t) /\ \A p : GroupAt(u, p) = GroupAt(t, p)
          /\ \A n : LayerOf(u, n) = LayerOf(t, n)
      BY <2>9, SameLayers
    <3>2. Len(u.layers) = Len(t.layers) /\ Len(u.channels) = Len(t.channels)
      BY <2>6, <2>9
    <3>3. Len(t.nodes) <= Len(u.nodes)
      BY <2>3, <2>9
    <3>4. QED BY <2>9, <3>1, <3>2, <3>3 DEF Extends
  <2>12. channels[c] = wires /\ \A k \in 1 .. Len(t.channels) \ {c} : channels[k] = t.channels[k]
    BY <2>3, <2>4, <2>5, ReplacedIn
  <2>13. net \notin ToSet(t.channels[c])
    BY <1>3, <2>3, ContainsMeans
  <2>14. ToSet(wires) = ToSet(t.channels[c]) \cup {net} /\ (Distinct(t.channels[c]) => Distinct(wires))
    <3>1. PICK s : s = t.channels[c]
      OBVIOUS
    <3>2. s \in Seq(Vertices) /\ wires = Append(s, net) /\ net \notin ToSet(s)
      BY <2>1, <2>3, <2>13, <3>1
    <3>3. ToSet(wires) = ToSet(s) \cup {net} /\ (Distinct(s) => Distinct(wires))
      BY ONLY <3>2, net \in Vertices, OneMore
    <3>4. QED BY <3>1, <3>3
  <2>15. Wider(t, u)
    BY <2>6, <2>9, <2>12, <2>14 DEF Wider
  <2>16. QED BY <2>6, <2>9, <2>10, <2>11, <2>12, <2>14, <2>15
<1>4. QED BY <1>2, <1>3

\* Groups that have moved, among them a new one without nodes.
LEMMA MovedGroups ==
    ASSUME NEW t, TreeOK(t), NEW u, u \in Trees, u.nodes = t.nodes, u.bottom = t.bottom, u.top = t.top,
           Len(u.layers) = Len(t.layers), Len(u.channels) = Len(t.channels),
           NEW sh, \A p \in Places(t) : /\ sh[p] \in Places(u) /\ sh[p][1] = p[1]
                                           /\ GroupAt(u, sh[p]) = GroupAt(t, p),
           NEW o, \A q \in Places(u) : q = o \/ \E p \in Places(t) : q = sh[p],
           GroupAt(u, o).nodes = <<>>,
           GroupAt(u, o).parent # NoParent =>
                /\ GroupAt(u, o).parent \in 1 .. Len(t.nodes)
                /\ LayerOf(t, GroupAt(u, o).parent) = o[1] - 1
                /\ t.nodes[GroupAt(u, o).parent].out = GroupAt(u, o).net
    PROVE  TreeOK(u) /\ Extends(t, u)
<1>1. t \in Trees /\ Homed(t) /\ Reads(t) /\ Hung(t) /\ Shaped(t)
  BY DEF TreeOK, Shaped
<1>2. \A n : ~InGroup(u, o, n)
  <2>1. \A n : ~Contains(<<>>, n)
    BY DEF Contains
  <2>2. QED BY <2>1 DEF InGroup
<1>3. \A p \in Places(t) : \A n : InGroup(u, sh[p], n) <=> InGroup(t, p, n)
  BY DEF InGroup
<1>4. ASSUME NEW q \in Places(u), NEW n, InGroup(u, q, n)
      PROVE  \E p \in Places(t) : q = sh[p] /\ InGroup(t, p, n)
  BY <1>2, <1>3, <1>4
<1>5. Homed(u)
  <2>1. ASSUME NEW q \in Places(u), NEW n \in ToSet(GroupAt(u, q).nodes) PROVE n \in 1 .. Len(u.nodes)
    <3>1. InGroup(u, q, n)
      <4>1. GroupAt(u, q).nodes \in Seq(Nat)
        BY PlaceFacts
      <4>2. QED BY <4>1, ContainsMeans DEF InGroup
    <3>2. PICK p \in Places(t) : q = sh[p] /\ InGroup(t, p, n)
      BY <1>4, <3>1
    <3>3. QED BY <1>1, <3>2, GroupNodes
  <2>2. ASSUME NEW n \in 1 .. Len(u.nodes) PROVE \E q \in Places(u) : InGroup(u, q, n)
    <3>1. PICK p \in Places(t) : InGroup(t, p, n)
      BY <1>1 DEF Homed
    <3>2. QED BY <1>3, <3>1
  <2>3. ASSUME NEW n \in 1 .. Len(u.nodes), NEW p \in Places(u), NEW q \in Places(u),
               InGroup(u, p, n), InGroup(u, q, n)
        PROVE  p = q
    <3>1. PICK a \in Places(t) : p = sh[a] /\ InGroup(t, a, n)
      BY <1>4, <2>3
    <3>2. PICK b \in Places(t) : q = sh[b] /\ InGroup(t, b, n)
      BY <1>4, <2>3
    <3>3. a = b
      BY <1>1, <3>1, <3>2 DEF Homed
    <3>4. QED BY <3>1, <3>2, <3>3
  <2>4. QED BY <2>1, <2>2, <2>3 DEF Homed
<1>6. ASSUME NEW n \in 1 .. Len(t.nodes) PROVE LayerOf(u, n) = LayerOf(t, n)
  <2>1. PlaceOf(t, n) \in Places(t) /\ InGroup(t, PlaceOf(t, n), n) /\ LayerOf(t, n) = PlaceOf(t, n)[1]
    BY <1>1, HomeFacts
  <2>2. InGroup(u, sh[PlaceOf(t, n)], n) /\ sh[PlaceOf(t, n)] \in Places(u)
        /\ sh[PlaceOf(t, n)][1] = LayerOf(t, n)
    BY <1>3, <2>1
  <2>3. n \in 1 .. Len(u.nodes)
    OBVIOUS
  <2>4. sh[PlaceOf(t, n)] = PlaceOf(u, n) /\ LayerOf(u, n) = PlaceOf(u, n)[1]
    BY <1>5, <2>2, <2>3, HomeFacts
  <2>5. QED BY <2>2, <2>4
<1>7. Reads(u)
  <2>1. ASSUME NEW n \in 1 .. Len(u.nodes), NEW q \in Places(u), InGroup(u, q, n)
        PROVE  u.nodes[n].in = GroupAt(u, q).net
    <3>1. PICK p \in Places(t) : q = sh[p] /\ InGroup(t, p, n)
      BY <1>4, <2>1
    <3>2. QED BY <1>1, <3>1 DEF Reads
  <2>2. QED BY <2>1 DEF Reads
<1>8. Hung(u)
  <2>1. ASSUME NEW q \in Places(u), GroupAt(u, q).parent # NoParent
        PROVE  /\ GroupAt(u, q).parent \in 1 .. Len(u.nodes)
               /\ LayerOf(u, GroupAt(u, q).parent) = q[1] - 1
               /\ u.nodes[GroupAt(u, q).parent].out = GroupAt(u, q).net
    <3>1. CASE q = o
      BY <1>6, <2>1, <3>1
    <3>2. CASE q # o
      <4>1. PICK p \in Places(t) : q = sh[p]
        BY <3>2
      <4>2. GroupAt(u, q) = GroupAt(t, p) /\ q[1] = p[1]
        BY <4>1
      <4>3. QED BY <1>1, <1>6, <2>1, <4>2 DEF Hung
    <3>3. QED BY <3>1, <3>2
  <2>2. QED BY <2>1 DEF Hung
<1>9. TreeOK(u)
  BY <1>1, <1>5, <1>7, <1>8 DEF TreeOK, Shaped
<1>10. Extends(t, u)
  <2>1. Len(t.nodes) \in Nat
    BY <1>1, TreeParts
  <2>2. \A p \in Places(t) : \E q \in Places(u) :
            /\ q[1] = p[1] /\ GroupAt(u, q).net = GroupAt(t, p).net
            /\ GroupAt(u, q).parent = GroupAt(t, p).parent
    <3>1. ASSUME NEW p \in Places(t)
          PROVE  \E q \in Places(u) : /\ q[1] = p[1] /\ GroupAt(u, q).net = GroupAt(t, p).net
                                      /\ GroupAt(u, q).parent = GroupAt(t, p).parent
      <4>1. sh[p] \in Places(u) /\ sh[p][1] = p[1] /\ GroupAt(u, sh[p]) = GroupAt(t, p)
        OBVIOUS
      <4>2. QED BY <4>1
    <3>2. QED BY <3>1
  <2>3. QED BY <1>6, <2>1, <2>2 DEF Extends
<1>11. QED BY <1>9, <1>10

\* A group of u that t already had in the layer.
GroupFrom(t, u, q) ==
    \E p \in Places(t) : /\ p[1] = q[1] /\ GroupAt(t, p).net = GroupAt(u, q).net
                         /\ GroupAt(t, p).parent = GroupAt(u, q).parent

\* insertNodeGroup: the others keep their order.
LEMMA InsertNodeGroupFacts ==
    ASSUME NEW t, TreeOK(t), NEW l \in 1 .. Len(t.layers), NEW g \in 1 .. Len(t.layers[l]) + 1,
           NEW net \in Vertices, NEW parent \in Nat,
           parent # NoParent => /\ parent \in 1 .. Len(t.nodes)
                                /\ LayerOf(t, parent) = l - 1 /\ t.nodes[parent].out = net,
           NEW u, u = InsertNodeGroup(t, l, g, net, parent)
    PROVE  /\ TreeOK(u) /\ Extends(t, u) /\ u.nodes = t.nodes
           /\ <<l, g>> \in Places(u)
           /\ GroupAt(u, <<l, g>>) = [net |-> net, parent |-> parent, nodes |-> <<>>]
           /\ \A q \in Places(u) : q = <<l, g>> \/ GroupFrom(t, u, q)
           /\ \A q, r \in Places(u) : /\ q # <<l, g>> /\ r # <<l, g>> /\ q # r
                                      /\ GroupAt(u, q).parent = GroupAt(u, r).parent
                    => \E a, b \in Places(t) : /\ a # b
                                              /\ GroupAt(t, a).parent = GroupAt(u, q).parent
                                              /\ GroupAt(t, b).parent = GroupAt(u, q).parent
           /\ Wider(t, u) /\ net \in ToSet(u.channels[l]) /\ u.bottom = t.bottom
<1>1. t \in Trees /\ Len(t.channels) = Len(t.layers) + 1
  BY DEF TreeOK, Shaped
<1>2. PICK f : f = FindOrMake(t, l, net)
  OBVIOUS
<1>3. /\ TreeOK(f) /\ Extends(t, f) /\ f.layers = t.layers /\ f.nodes = t.nodes
      /\ Len(f.channels) = Len(t.channels) /\ f \in Trees
      /\ f.bottom = t.bottom /\ f.top = t.top
      /\ Wider(t, f) /\ net \in ToSet(f.channels[l])
  <2>1. l \in 1 .. Len(t.channels)
    <3>1. Len(t.layers) \in Nat
      BY <1>1, TreeParts
    <3>2. QED BY <1>1, <3>1
  <2>2. TreeOK(f) /\ Extends(t, f) /\ f.layers = t.layers /\ f.nodes = t.nodes
        /\ Len(f.channels) = Len(t.channels)
        /\ Wider(t, f) /\ net \in ToSet(f.channels[l])
    BY <1>2, <2>1, FindOrMakeFacts
  <2>3. QED BY <2>2 DEF TreeOK, Shaped, Extends
<1>4. PICK rec : rec = [net |-> net, parent |-> parent, nodes |-> <<>>]
  OBVIOUS
<1>5. rec \in GroupRecords /\ rec.nodes = <<>> /\ rec.parent = parent /\ rec.net = net
  BY <1>4 DEF GroupRecords
<1>6. PICK s : s = t.layers[l]
  OBVIOUS
<1>7. s \in Seq(GroupRecords) /\ Len(s) \in Nat /\ g \in 1 .. Len(s) + 1
  BY <1>1, <1>6, TreeParts
<1>8. PICK s2 : s2 = InsertAt(s, g, rec)
  OBVIOUS
<1>9. /\ s2 \in Seq(GroupRecords) /\ Len(s2) = Len(s) + 1
      /\ \A i \in 1 .. Len(s) + 1 : s2[i] = IF i < g THEN s[i] ELSE IF i = g THEN rec ELSE s[i - 1]
  <2>1. /\ InsertAt(s, g, rec) \in Seq(GroupRecords) /\ Len(InsertAt(s, g, rec)) = Len(s) + 1
        /\ \A i \in 1 .. Len(s) + 1 :
              InsertAt(s, g, rec)[i] = IF i < g THEN s[i] ELSE IF i = g THEN rec ELSE s[i - 1]
    BY ONLY <1>5, <1>7, InsertAtFacts
  <2>2. QED BY ONLY <1>8, <2>1
<1>10. PICK layers : layers = [t.layers EXCEPT ![l] = s2]
  OBVIOUS
<1>11. /\ layers \in Seq(Seq(GroupRecords)) /\ Len(layers) = Len(t.layers)
       /\ layers[l] = s2 /\ \A k \in 1 .. Len(t.layers) \ {l} : layers[k] = t.layers[k]
  <2>1. t.layers \in Seq(Seq(GroupRecords))
    BY <1>1, TreeParts
  <2>2. QED BY ONLY <1>9, <1>10, <2>1, l \in 1 .. Len(t.layers), ReplacedIn
<1>12. u = [f EXCEPT !.layers[l] = s2]
  BY <1>2, <1>3, <1>4, <1>6, <1>8 DEF InsertNodeGroup
<1>13. u = [layers |-> layers, nodes |-> f.nodes, channels |-> f.channels,
            bottom |-> f.bottom, top |-> f.top]
  <2>1. [f EXCEPT !.layers[l] = s2] =
           [layers |-> [f.layers EXCEPT ![l] = s2], nodes |-> f.nodes, channels |-> f.channels,
            bottom |-> f.bottom, top |-> f.top]
    <3>1. f \in Trees
      BY <1>3
    <3>2. QED BY ONLY <3>1, TreeIs
  <2>2. f.layers = t.layers
    BY <1>3
  <2>3. QED BY ONLY <1>10, <1>12, <2>1, <2>2
<1>14. /\ u.layers = layers /\ u.nodes = t.nodes /\ u.channels = f.channels
       /\ u.bottom = t.bottom /\ u.top = t.top
  BY <1>3, <1>13
<1>15. u \in Trees
  <2>1. /\ f.nodes \in Seq(NodeRecords) /\ f.channels \in Seq(Seq(Vertices))
        /\ f.bottom \in Seq(BottomRecords) /\ f.top \in Seq(TopRecords)
    BY <1>3, TreeParts
  <2>2. QED BY <1>11, <1>13, <2>1, TreeMade
<1> DEFINE sh == [p \in Places(t) |-> IF p[1] = l /\ p[2] >= g THEN <<l, p[2] + 1>> ELSE p]
           o == <<l, g>>
<1>16. ASSUME NEW p \in Places(t)
       PROVE  sh[p] \in Places(u) /\ sh[p][1] = p[1] /\ GroupAt(u, sh[p]) = GroupAt(t, p)
  <2>1. /\ p = <<p[1], p[2]>> /\ p[1] \in 1 .. Len(t.layers) /\ p[2] \in 1 .. Len(t.layers[p[1]])
        /\ GroupAt(t, p) = t.layers[p[1]][p[2]] /\ p[2] \in Nat
    BY <1>1, PlaceFacts
  <2>2. CASE p[1] # l
    <3>1. sh[p] = p /\ layers[p[1]] = t.layers[p[1]]
      BY <1>11, <2>1, <2>2
    <3>2. <<p[1], p[2]>> \in Places(u)
      BY <1>11, <1>14, <1>15, <2>1, <3>1, PlaceFacts
    <3>3. GroupAt(u, p) = layers[p[1]][p[2]]
      BY <1>14 DEF GroupAt
    <3>4. QED BY <2>1, <3>1, <3>2, <3>3
  <2>3. CASE p[1] = l /\ p[2] >= g
    <3>1. sh[p] = <<l, p[2] + 1>> /\ p[2] + 1 \in 1 .. Len(s2) /\ p[2] \in 1 .. Len(s)
      BY SMTT(30), <1>6, <1>7, <1>9, <2>1, <2>3
    <3>2. <<l, p[2] + 1>> \in Places(u)
      BY <1>11, <1>14, <1>15, <3>1, PlaceFacts
    <3>3. GroupAt(u, <<l, p[2] + 1>>) = s2[p[2] + 1]
      BY <1>11, <1>14 DEF GroupAt
    <3>4. s2[p[2] + 1] = s[p[2]]
      <4>1. p[2] + 1 \in 1 .. Len(s) + 1 /\ ~(p[2] + 1 < g) /\ p[2] + 1 # g /\ (p[2] + 1) - 1 = p[2]
        BY <1>7, <1>9, <2>1, <2>3, <3>1
      <4>2. QED BY <1>9, <4>1
    <3>5. QED BY <1>6, <2>1, <2>3, <3>1, <3>2, <3>3, <3>4
  <2>4. CASE p[1] = l /\ ~(p[2] >= g)
    <3>1. sh[p] = p /\ p[2] \in 1 .. Len(s2) /\ p[2] \in 1 .. Len(s)
      BY <1>6, <1>7, <1>9, <2>1, <2>4
    <3>2. <<l, p[2]>> \in Places(u)
      BY <1>11, <1>14, <1>15, <3>1, PlaceFacts
    <3>3. GroupAt(u, <<l, p[2]>>) = s2[p[2]]
      BY <1>11, <1>14 DEF GroupAt
    <3>4. s2[p[2]] = s[p[2]]
      <4>1. p[2] \in 1 .. Len(s) + 1 /\ p[2] < g
        BY <1>7, <1>9, <2>1, <2>4, <3>1
      <4>2. QED BY <1>9, <4>1
    <3>5. QED BY <1>6, <2>1, <2>4, <3>1, <3>2, <3>3, <3>4
  <2>5. QED BY <2>2, <2>3, <2>4
<1>17. o \in Places(u) /\ GroupAt(u, o) = rec
  <2>1. g \in 1 .. Len(s2) /\ s2[g] = rec
    BY <1>7, <1>9
  <2>2. o \in Places(u)
    BY <1>11, <1>14, <1>15, <2>1, PlaceFacts
  <2>3. GroupAt(u, o) = s2[g]
    BY <1>11, <1>14 DEF GroupAt
  <2>4. QED BY <2>1, <2>2, <2>3
<1>18. ASSUME NEW q \in Places(u) PROVE q = o \/ \E p \in Places(t) : q = sh[p]
  <2>1. q = <<q[1], q[2]>> /\ q[1] \in 1 .. Len(layers) /\ q[2] \in 1 .. Len(layers[q[1]])
        /\ q[2] \in Nat
    BY <1>14, <1>15, PlaceFacts
  <2>2. CASE q[1] # l
    <3>1. q[1] \in 1 .. Len(t.layers) /\ q[2] \in 1 .. Len(t.layers[q[1]])
      BY <1>11, <2>1, <2>2
    <3>2. <<q[1], q[2]>> \in Places(t)
      BY <1>1, <3>1, PlaceFacts
    <3>3. q \in Places(t) /\ sh[q] = q
      BY <2>1, <2>2, <3>2
    <3>4. QED BY <3>3
  <2>3. CASE q[1] = l /\ q[2] < g
    <3>1. q[2] \in 1 .. Len(t.layers[l])
      BY <1>6, <1>7, <1>9, <1>11, <2>1, <2>3
    <3>2. <<l, q[2]>> \in Places(t)
      BY <1>1, <3>1, PlaceFacts
    <3>3. q \in Places(t) /\ sh[q] = q
      <4>1. ~(q[2] >= g)
        BY <1>7, <2>1, <2>3
      <4>2. QED BY <2>1, <2>3, <3>2, <4>1
    <3>4. QED BY <3>3
  <2>4. CASE q[1] = l /\ q[2] > g
    <3>1. q[2] - 1 \in 1 .. Len(t.layers[l]) /\ q[2] - 1 >= g /\ (q[2] - 1) + 1 = q[2]
      <4>1. t.layers[l] = s /\ layers[l] = s2 /\ Len(s2) = Len(s) + 1
        BY <1>6, <1>9, <1>11
      <4>2. q[2] \in 1 .. Len(s) + 1 /\ q[2] > g /\ g \in Nat /\ Len(s) \in Nat /\ g >= 1
        BY <1>7, <2>1, <2>4, <4>1
      <4>3. q[2] - 1 \in 1 .. Len(s) /\ q[2] - 1 >= g /\ (q[2] - 1) + 1 = q[2]
        BY ONLY <4>2
      <4>4. QED BY <4>1, <4>3
    <3>2. <<l, q[2] - 1>> \in Places(t)
      BY <1>1, <3>1, PlaceFacts
    <3>3. sh[<<l, q[2] - 1>>] = <<l, q[2]>>
      BY <3>1, <3>2
    <3>4. q = <<l, q[2]>>
      BY <2>1, <2>4
    <3>5. QED BY <3>2, <3>3, <3>4
  <2>5. CASE q[1] = l /\ q[2] = g
    BY <2>1, <2>5
  <2>6. q[2] < g \/ q[2] = g \/ q[2] > g
    BY <1>7, <2>1
  <2>7. QED BY <2>2, <2>3, <2>4, <2>5, <2>6
<1>19. GroupAt(u, o).nodes = <<>>
       /\ (GroupAt(u, o).parent # NoParent =>
                /\ GroupAt(u, o).parent \in 1 .. Len(t.nodes)
                /\ LayerOf(t, GroupAt(u, o).parent) = o[1] - 1
                /\ t.nodes[GroupAt(u, o).parent].out = GroupAt(u, o).net)
  BY <1>5, <1>17
<1> HIDE DEF sh, o
<1>20. TreeOK(u) /\ Extends(t, u)
  <2>1. Len(u.layers) = Len(t.layers) /\ Len(u.channels) = Len(t.channels)
    BY <1>3, <1>11, <1>14
  <2>2. QED BY SMTT(30), <1>14, <1>15, <1>16, <1>18, <1>19, <2>1, MovedGroups
<1>21. Wider(t, u) /\ net \in ToSet(u.channels[l])
  BY <1>3, <1>14 DEF Wider
<1>22. ASSUME NEW q \in Places(u), q # o PROVE GroupFrom(t, u, q)
  <2>1. PICK p \in Places(t) : q = sh[p]
    BY <1>18, <1>22
  <2>2. q[1] = p[1] /\ GroupAt(u, q) = GroupAt(t, p)
    BY <1>16, <2>1
  <2>3. QED BY <2>2 DEF GroupFrom
<1>23. ASSUME NEW q \in Places(u), NEW r \in Places(u), q # o, r # o, q # r,
              GroupAt(u, q).parent = GroupAt(u, r).parent
       PROVE  \E a, b \in Places(t) : /\ a # b
                                      /\ GroupAt(t, a).parent = GroupAt(u, q).parent
                                      /\ GroupAt(t, b).parent = GroupAt(u, q).parent
  <2>1. PICK a \in Places(t) : q = sh[a]
    BY <1>18, <1>23
  <2>2. PICK b \in Places(t) : r = sh[b]
    BY <1>18, <1>23
  <2>3. GroupAt(t, a) = GroupAt(u, q) /\ GroupAt(t, b) = GroupAt(u, r)
    BY <1>16, <2>1, <2>2
  <2>4. a # b
    BY <1>23, <2>1, <2>2
  <2>5. QED BY <1>23, <2>3, <2>4
<1>24. QED BY <1>4, <1>14, <1>17, <1>20, <1>21, <1>22, <1>23 DEF o

\* Nodes apart, the groups are the same.
SameGroups(t, u) ==
    /\ Places(u) = Places(t)
    /\ \A p \in Places(t) : /\ GroupAt(u, p).net = GroupAt(t, p).net
                            /\ GroupAt(u, p).parent = GroupAt(t, p).parent

\* The tree with one more node, in a group that then has the nodes ns.
WithNode(t, p, rec, ns) ==
    [t EXCEPT !.nodes = Append(@, rec), !.layers[p[1]][p[2]].nodes = ns]

\* A node added to a group.
LEMMA AddedNode ==
    ASSUME NEW t, TreeOK(t), NEW p \in Places(t), NEW rec \in NodeRecords,
           rec.in = GroupAt(t, p).net, NEW ns \in Seq(Nat),
           ToSet(ns) = ToSet(GroupAt(t, p).nodes) \cup {Len(t.nodes) + 1},
           NEW u, u = WithNode(t, p, rec, ns)
    PROVE  /\ TreeOK(u) /\ Extends(t, u)
           /\ u.nodes = Append(t.nodes, rec)
           /\ LayerOf(u, Len(t.nodes) + 1) = p[1]
           /\ SameGroups(t, u) /\ u.channels = t.channels /\ u.bottom = t.bottom
<1>1. t \in Trees /\ Homed(t) /\ Reads(t) /\ Hung(t) /\ Len(t.channels) = Len(t.layers) + 1
  BY DEF TreeOK, Shaped
<1>2. /\ p = <<p[1], p[2]>> /\ p[1] \in 1 .. Len(t.layers) /\ p[2] \in 1 .. Len(t.layers[p[1]])
      /\ GroupAt(t, p) = t.layers[p[1]][p[2]] /\ GroupAt(t, p) \in GroupRecords
  BY <1>1, PlaceFacts
<1>3. PICK s : s = t.layers[p[1]]
  OBVIOUS
<1>4. PICK l, g : l = p[1] /\ g = p[2]
  OBVIOUS
<1>5. s \in Seq(GroupRecords) /\ Len(s) \in Nat /\ g \in 1 .. Len(s) /\ s[g] \in GroupRecords
      /\ l \in 1 .. Len(t.layers) /\ s = t.layers[l] /\ s[g] = GroupAt(t, p)
  BY <1>1, <1>2, <1>3, <1>4, TreeParts
<1>6. PICK e : e = [s[g] EXCEPT !.nodes = ns]
  OBVIOUS
<1>7. e \in GroupRecords /\ e.nodes = ns /\ e.net = s[g].net /\ e.parent = s[g].parent
  BY <1>5, <1>6 DEF GroupRecords
<1>8. PICK s2 : s2 = [s EXCEPT ![g] = e]
  OBVIOUS
<1>9. /\ s2 \in Seq(GroupRecords) /\ Len(s2) = Len(s) /\ s2[g] = e
      /\ \A i \in 1 .. Len(s) \ {g} : s2[i] = s[i]
  <2>1. s2 \in Seq(GroupRecords) /\ Len(s2) = Len(s)
        /\ \A j \in 1 .. Len(s) : s2[j] = IF j = g THEN e ELSE s[j]
    BY ONLY <1>5, <1>7, <1>8, ExceptSeq
  <2>2. QED BY <1>5, <2>1
<1>10. PICK layers : layers = [t.layers EXCEPT ![l] = s2]
  OBVIOUS
<1>11. /\ layers \in Seq(Seq(GroupRecords)) /\ Len(layers) = Len(t.layers)
       /\ layers[l] = s2 /\ \A k \in 1 .. Len(t.layers) \ {l} : layers[k] = t.layers[k]
  <2>1. t.layers \in Seq(Seq(GroupRecords))
    BY <1>1, TreeParts
  <2>2. QED BY ONLY <1>5, <1>9, <1>10, <2>1, ReplacedIn
<1>12. PICK nodes : nodes = Append(t.nodes, rec)
  OBVIOUS
<1>13. /\ nodes \in Seq(NodeRecords) /\ Len(nodes) = Len(t.nodes) + 1 /\ Len(t.nodes) \in Nat
       /\ nodes[Len(t.nodes) + 1] = rec /\ \A n \in 1 .. Len(t.nodes) : nodes[n] = t.nodes[n]
  <2>1. t.nodes \in Seq(NodeRecords)
    BY <1>1, TreeParts
  <2>2. QED BY <1>12, <2>1
<1>14. u = [layers |-> layers, nodes |-> nodes, channels |-> t.channels,
            bottom |-> t.bottom, top |-> t.top]
  <2>1. t = [layers |-> t.layers, nodes |-> t.nodes, channels |-> t.channels,
             bottom |-> t.bottom, top |-> t.top]
    BY ONLY <1>1, TreeIs
  <2>2. ASSUME NEW a, NEW b, NEW c, NEW d, NEW f, NEW r, NEW x, NEW b2, NEW a2,
               r = [layers |-> a, nodes |-> b, channels |-> c, bottom |-> d, top |-> f],
               b2 = Append(b, rec), a2 = [a EXCEPT ![l][g].nodes = x]
        PROVE  [r EXCEPT !.nodes = Append(@, rec), !.layers[l][g].nodes = x] =
                   [layers |-> a2, nodes |-> b2, channels |-> c, bottom |-> d, top |-> f]
    <3>1. r = [layers |-> a, nodes |-> b, channels |-> c, bottom |-> d, top |-> f]
      BY ONLY <2>2
    <3>2. PICK r2 : r2 = [r EXCEPT !.nodes = Append(@, rec)]
      OBVIOUS
    <3>3. r2 = [layers |-> a, nodes |-> b2, channels |-> c, bottom |-> d, top |-> f]
      <4>1. r.nodes = b
        BY ONLY <3>1
      <4>2. r2 = [r EXCEPT !.nodes = b2]
        BY ONLY <2>2, <3>2, <4>1
      <4>3. QED BY ONLY <3>1, <4>2
    <3>4. r2.layers = a
      BY ONLY <3>3
    <3>5. [r EXCEPT !.nodes = Append(@, rec), !.layers[l][g].nodes = x] =
             [r2 EXCEPT !.layers[l][g].nodes = x]
      BY ONLY <3>2
    <3>6. [r2 EXCEPT !.layers[l][g].nodes = x] = [r2 EXCEPT !.layers = a2]
      BY ONLY <2>2, <3>4
    <3>7. [r2 EXCEPT !.layers = a2] =
             [layers |-> a2, nodes |-> b2, channels |-> c, bottom |-> d, top |-> f]
      BY ONLY <3>3
    <3>8. QED BY ONLY <3>5, <3>6, <3>7
  <2>3. layers = [t.layers EXCEPT ![l][g].nodes = ns]
    BY ONLY <1>5, <1>6, <1>8, <1>10
  <2>4. u = [t EXCEPT !.nodes = Append(@, rec), !.layers[l][g].nodes = ns]
    BY <1>4 DEF WithNode
  <2>5. QED BY ONLY <1>12, <2>1, <2>2, <2>3, <2>4
<1>15. /\ u.layers = layers /\ u.nodes = nodes /\ u.channels = t.channels
       /\ u.bottom = t.bottom /\ u.top = t.top
  BY ONLY <1>14
<1>16. u \in Trees
  <2>1. t.channels \in Seq(Seq(Vertices)) /\ t.bottom \in Seq(BottomRecords) /\ t.top \in Seq(TopRecords)
    BY <1>1, TreeParts
  <2>2. QED BY <1>11, <1>13, <1>14, <2>1, TreeMade
<1>17. Places(u) = Places(t)
  <2>1. \A k \in 1 .. Len(t.layers) : Len(layers[k]) = Len(t.layers[k])
    BY <1>5, <1>9, <1>11
  <2>2. QED BY <1>11, <1>15, <2>1 DEF Places
<1>18. GroupAt(u, p) = e /\ \A q \in Places(t) \ {p} : GroupAt(u, q) = GroupAt(t, q)
  <2>1. GroupAt(u, p) = e
    BY <1>4, <1>9, <1>11, <1>15 DEF GroupAt
  <2>2. ASSUME NEW q \in Places(t) \ {p} PROVE GroupAt(u, q) = GroupAt(t, q)
    <3>1. q = <<q[1], q[2]>> /\ q[1] \in 1 .. Len(t.layers) /\ q[2] \in 1 .. Len(t.layers[q[1]])
      BY <1>1, PlaceFacts
    <3>2. CASE q[1] # l
      BY <1>11, <1>15, <3>1, <3>2 DEF GroupAt
    <3>3. CASE q[1] = l
      <4>1. q[2] # g /\ q[2] \in 1 .. Len(s) \ {g}
        BY <1>2, <1>4, <1>5, <3>1, <3>3
      <4>2. s2[q[2]] = s[q[2]]
        BY <1>9, <4>1
      <4>3. QED BY <1>5, <1>11, <1>15, <3>3, <4>2 DEF GroupAt
    <3>4. QED BY <3>2, <3>3
  <2>3. QED BY <2>1, <2>2
<1>19. PICK new : new = Len(t.nodes) + 1
  OBVIOUS
<1>20. \A q \in Places(t) : GroupAt(u, q).net = GroupAt(t, q).net /\ GroupAt(u, q).parent = GroupAt(t, q).parent
  BY <1>5, <1>7, <1>18
<1>21. \A q \in Places(t) : \A n : InGroup(u, q, n) <=> InGroup(t, q, n) \/ (q = p /\ n = new)
  <2>1. ASSUME NEW n PROVE InGroup(u, p, n) <=> InGroup(t, p, n) \/ n = new
    <3>1. GroupAt(t, p).nodes \in Seq(Nat)
      BY <1>1, PlaceFacts
    <3>2. Contains(ns, n) <=> n \in ToSet(ns)
      BY ContainsMeans
    <3>3. Contains(GroupAt(t, p).nodes, n) <=> n \in ToSet(GroupAt(t, p).nodes)
      BY <3>1, ContainsMeans
    <3>4. QED BY <1>7, <1>18, <1>19, <3>2, <3>3 DEF InGroup
  <2>2. ASSUME NEW q \in Places(t) \ {p}, NEW n PROVE InGroup(u, q, n) <=> InGroup(t, q, n)
    BY <1>18 DEF InGroup
  <2>3. QED BY <2>1, <2>2
<1>22. \A q \in Places(t) : ~InGroup(t, q, new)
  <2>1. ASSUME NEW q \in Places(t), InGroup(t, q, new) PROVE FALSE
    <3>1. new \in 1 .. Len(t.nodes)
      BY <1>1, <2>1, GroupNodes
    <3>2. QED BY <1>13, <1>19, <3>1
  <2>2. QED BY <2>1
<1>23. 1 .. Len(u.nodes) = (1 .. Len(t.nodes)) \cup {new} /\ new \notin 1 .. Len(t.nodes)
  BY <1>13, <1>15, <1>19
<1>24. Homed(u)
  <2>1. ASSUME NEW q \in Places(u), NEW n \in ToSet(GroupAt(u, q).nodes) PROVE n \in 1 .. Len(u.nodes)
    <3>1. InGroup(u, q, n)
      <4>1. GroupAt(u, q).nodes \in Seq(Nat)
        BY <1>16, PlaceFacts
      <4>2. QED BY <4>1, ContainsMeans DEF InGroup
    <3>2. q \in Places(t) /\ (InGroup(t, q, n) \/ n = new)
      BY <1>17, <1>21, <3>1
    <3>3. QED BY <1>1, <1>23, <3>2, GroupNodes
  <2>2. ASSUME NEW n \in 1 .. Len(u.nodes) PROVE \E q \in Places(u) : InGroup(u, q, n)
    <3>1. CASE n = new
      BY <1>17, <1>21, <3>1
    <3>2. CASE n # new
      <4>1. n \in 1 .. Len(t.nodes)
        BY <1>23, <3>2
      <4>2. PICK q \in Places(t) : InGroup(t, q, n)
        BY <1>1, <4>1 DEF Homed
      <4>3. QED BY <1>17, <1>21, <4>2
    <3>3. QED BY <3>1, <3>2
  <2>3. ASSUME NEW n \in 1 .. Len(u.nodes), NEW q \in Places(u), NEW r \in Places(u),
               InGroup(u, q, n), InGroup(u, r, n)
        PROVE  q = r
    <3>1. CASE n = new
      BY <1>17, <1>21, <1>22, <2>3, <3>1
    <3>2. CASE n # new
      <4>1. n \in 1 .. Len(t.nodes) /\ InGroup(t, q, n) /\ InGroup(t, r, n)
        BY <1>17, <1>21, <1>23, <2>3, <3>2
      <4>2. QED BY <1>1, <1>17, <4>1 DEF Homed
    <3>3. QED BY <3>1, <3>2
  <2>4. QED BY <2>1, <2>2, <2>3 DEF Homed
<1>25. ASSUME NEW n \in 1 .. Len(t.nodes) PROVE LayerOf(u, n) = LayerOf(t, n)
  <2>1. PlaceOf(t, n) \in Places(t) /\ InGroup(t, PlaceOf(t, n), n) /\ LayerOf(t, n) = PlaceOf(t, n)[1]
    BY <1>1, HomeFacts
  <2>2. InGroup(u, PlaceOf(t, n), n) /\ n \in 1 .. Len(u.nodes) /\ PlaceOf(t, n) \in Places(u)
    BY <1>17, <1>21, <1>23, <2>1
  <2>3. PlaceOf(u, n) = PlaceOf(t, n) /\ LayerOf(u, n) = PlaceOf(u, n)[1]
    BY <1>16, <1>24, <2>2, HomeFacts
  <2>4. QED BY <2>1, <2>3
<1>26. LayerOf(u, new) = p[1]
  <2>1. InGroup(u, p, new) /\ new \in 1 .. Len(u.nodes) /\ p \in Places(u)
    BY <1>17, <1>21, <1>23
  <2>2. PlaceOf(u, new) = p /\ LayerOf(u, new) = PlaceOf(u, new)[1]
    BY <1>16, <1>24, <2>1, HomeFacts
  <2>3. QED BY <2>2
<1>27. Reads(u)
  <2>1. ASSUME NEW n \in 1 .. Len(u.nodes), NEW q \in Places(u), InGroup(u, q, n)
        PROVE  u.nodes[n].in = GroupAt(u, q).net
    <3>1. q \in Places(t) /\ (InGroup(t, q, n) \/ (q = p /\ n = new))
      BY <1>17, <1>21, <2>1
    <3>2. CASE n = new
      <4>1. q = p
        BY <1>22, <3>1, <3>2
      <4>2. QED BY <1>13, <1>15, <1>19, <1>20, <3>2, <4>1
    <3>3. CASE n # new
      <4>1. n \in 1 .. Len(t.nodes) /\ InGroup(t, q, n)
        BY <1>23, <3>1, <3>3
      <4>2. t.nodes[n].in = GroupAt(t, q).net
        BY <1>1, <3>1, <4>1 DEF Reads
      <4>3. QED BY <1>13, <1>15, <1>20, <3>1, <4>1, <4>2
    <3>4. QED BY <3>2, <3>3
  <2>2. QED BY <2>1 DEF Reads
<1>28. Hung(u)
  <2>1. ASSUME NEW q \in Places(u), GroupAt(u, q).parent # NoParent
        PROVE  /\ GroupAt(u, q).parent \in 1 .. Len(u.nodes)
               /\ LayerOf(u, GroupAt(u, q).parent) = q[1] - 1
               /\ u.nodes[GroupAt(u, q).parent].out = GroupAt(u, q).net
    <3>1. q \in Places(t) /\ GroupAt(u, q).parent = GroupAt(t, q).parent
          /\ GroupAt(u, q).net = GroupAt(t, q).net
      BY <1>17, <1>20
    <3>2. PICK m : m = GroupAt(t, q).parent
      OBVIOUS
    <3>3. m \in 1 .. Len(t.nodes) /\ LayerOf(t, m) = q[1] - 1 /\ t.nodes[m].out = GroupAt(t, q).net
      BY <1>1, <2>1, <3>1, <3>2 DEF Hung
    <3>4. QED BY <1>13, <1>15, <1>23, <1>25, <3>1, <3>2, <3>3
  <2>2. QED BY <2>1 DEF Hung
<1>29. TreeOK(u)
  BY <1>1, <1>11, <1>15, <1>16, <1>24, <1>27, <1>28 DEF TreeOK, Shaped
<1>30. Extends(t, u)
  <2>1. Len(u.layers) = Len(t.layers) /\ Len(u.channels) = Len(t.channels)
        /\ u.bottom = t.bottom /\ u.top = t.top
    BY <1>11, <1>15
  <2>2. Len(t.nodes) <= Len(u.nodes)
    BY <1>13, <1>15
  <2>3. \A n \in 1 .. Len(t.nodes) : u.nodes[n] = t.nodes[n] /\ LayerOf(u, n) = LayerOf(t, n)
    BY <1>13, <1>15, <1>25
  <2>4. QED BY <1>17, <1>20, <2>1, <2>2, <2>3 DEF Extends
<1>31. SameGroups(t, u)
  BY <1>17, <1>20 DEF SameGroups
<1>32. QED BY <1>12, <1>15, <1>19, <1>26, <1>29, <1>30, <1>31

\* makeInverter: the last node of its group.
LEMMA MakeInverterFacts ==
    ASSUME NEW t, TreeOK(t), NEW p \in Places(t), NEW w \in Vertices,
           NEW u, u = MakeInverter(t, p, w)
    PROVE  /\ TreeOK(u) /\ Extends(t, u)
           /\ u.nodes = Append(t.nodes, [invert |-> TRUE, in |-> GroupAt(t, p).net, out |-> w])
           /\ Len(u.nodes) = Len(t.nodes) + 1 /\ Len(t.nodes) \in Nat
           /\ LayerOf(u, Len(t.nodes) + 1) = p[1]
           /\ SameGroups(t, u) /\ u.channels = t.channels /\ u.bottom = t.bottom
<1>1. t \in Trees /\ Len(t.nodes) \in Nat /\ t.nodes \in Seq(NodeRecords)
  BY TreeParts DEF TreeOK, Shaped
<1>2. GroupAt(t, p).net \in Vertices /\ GroupAt(t, p).nodes \in Seq(Nat)
  BY <1>1, PlaceFacts
<1>3. PICK rec : rec = [invert |-> TRUE, in |-> GroupAt(t, p).net, out |-> w]
  OBVIOUS
<1>4. rec \in NodeRecords /\ rec.in = GroupAt(t, p).net
  BY <1>2, <1>3 DEF NodeRecords
<1>5. PICK old : old = GroupAt(t, p).nodes
  OBVIOUS
<1>6. PICK ns : ns = Append(old, Len(t.nodes) + 1)
  OBVIOUS
<1>7. ns = old \o <<Len(t.nodes) + 1>> /\ old \in Seq(Nat) /\ <<Len(t.nodes) + 1>> \in Seq(Nat)
  BY SMTT(30), <1>1, <1>2, <1>5, <1>6
<1>8. ns \in Seq(Nat) /\ ToSet(ns) = ToSet(old) \cup {Len(t.nodes) + 1}
  <2>1. ToSet(<<Len(t.nodes) + 1>>) = {Len(t.nodes) + 1}
    BY DEF ToSet
  <2>2. ns \in Seq(Nat) /\ ToSet(ns) = ToSet(old) \cup ToSet(<<Len(t.nodes) + 1>>)
    BY ZenonT(30), <1>7, ToSetConcat
  <2>3. QED BY <2>1, <2>2
<1>9. u = WithNode(t, p, rec, ns)
  BY <1>3, <1>5, <1>6 DEF MakeInverter, GroupAt, WithNode
<1>10. /\ TreeOK(u) /\ Extends(t, u) /\ u.nodes = Append(t.nodes, rec)
       /\ LayerOf(u, Len(t.nodes) + 1) = p[1]
       /\ SameGroups(t, u) /\ u.channels = t.channels /\ u.bottom = t.bottom
  BY <1>4, <1>5, <1>8, <1>9, AddedNode
<1>11. QED BY <1>1, <1>3, <1>4, <1>10

\* insertPassThrough: the first node of its group.
LEMMA InsertPassThroughFacts ==
    ASSUME NEW t, TreeOK(t), NEW p \in Places(t),
           NEW u, u = InsertPassThrough(t, p)
    PROVE  /\ TreeOK(u) /\ Extends(t, u)
           /\ u.nodes = Append(t.nodes, [invert |-> FALSE, in |-> GroupAt(t, p).net,
                                         out |-> GroupAt(t, p).net])
           /\ Len(u.nodes) = Len(t.nodes) + 1 /\ Len(t.nodes) \in Nat
           /\ LayerOf(u, Len(t.nodes) + 1) = p[1]
           /\ SameGroups(t, u) /\ u.channels = t.channels /\ u.bottom = t.bottom
<1>1. t \in Trees /\ Len(t.nodes) \in Nat /\ t.nodes \in Seq(NodeRecords)
  BY TreeParts DEF TreeOK, Shaped
<1>2. GroupAt(t, p).net \in Vertices /\ GroupAt(t, p).nodes \in Seq(Nat)
  BY <1>1, PlaceFacts
<1>3. PICK rec : rec = [invert |-> FALSE, in |-> GroupAt(t, p).net, out |-> GroupAt(t, p).net]
  OBVIOUS
<1>4. rec \in NodeRecords /\ rec.in = GroupAt(t, p).net
  BY <1>2, <1>3 DEF NodeRecords
<1>5. PICK old : old = GroupAt(t, p).nodes
  OBVIOUS
<1>6. PICK ns : ns = <<Len(t.nodes) + 1>> \o old
  OBVIOUS
<1>7. old \in Seq(Nat) /\ <<Len(t.nodes) + 1>> \in Seq(Nat)
  BY <1>1, <1>2, <1>5, <1>6
<1>8. ns \in Seq(Nat) /\ ToSet(ns) = ToSet(old) \cup {Len(t.nodes) + 1}
  <2>1. ToSet(<<Len(t.nodes) + 1>>) = {Len(t.nodes) + 1}
    BY DEF ToSet
  <2>2. PICK a : a = <<Len(t.nodes) + 1>>
    OBVIOUS
  <2>3. a \in Seq(Nat) /\ old \in Seq(Nat) /\ ns = a \o old
    BY ONLY <1>6, <1>7, <2>2
  <2>4. ns \in Seq(Nat) /\ ToSet(ns) = ToSet(a) \cup ToSet(old)
    BY ONLY <2>3, ToSetConcat
  <2>5. QED BY <2>1, <2>2, <2>4
<1>9. u = WithNode(t, p, rec, ns)
  BY <1>3, <1>5, <1>6 DEF InsertPassThrough, GroupAt, WithNode
<1>10. /\ TreeOK(u) /\ Extends(t, u) /\ u.nodes = Append(t.nodes, rec)
       /\ LayerOf(u, Len(t.nodes) + 1) = p[1]
       /\ SameGroups(t, u) /\ u.channels = t.channels /\ u.bottom = t.bottom
  BY <1>4, <1>5, <1>8, <1>9, AddedNode
<1>11. QED BY <1>1, <1>3, <1>4, <1>10

\* A new layer has no groups yet: everything stays where it is.
LEMMA NewLayerFacts ==
    ASSUME NEW t, TreeOK(t),
           NEW u, u = [t EXCEPT !.layers = Append(@, <<>>), !.channels = Append(@, <<>>)]
    PROVE  /\ TreeOK(u) /\ Places(u) = Places(t)
           /\ \A p \in Places(t) : GroupAt(u, p) = GroupAt(t, p)
           /\ \A n \in 1 .. Len(t.nodes) : LayerOf(u, n) = LayerOf(t, n)
           /\ u.nodes = t.nodes /\ u.bottom = t.bottom /\ u.top = t.top
           /\ Len(u.layers) = Len(t.layers) + 1 /\ Len(t.layers) \in Nat
           /\ u.channels = Append(t.channels, <<>>)
<1>1. t \in Trees /\ Homed(t) /\ Reads(t) /\ Hung(t) /\ Len(t.channels) = Len(t.layers) + 1
  BY DEF TreeOK, Shaped
<1>2. PICK layers : layers = Append(t.layers, <<>>)
  OBVIOUS
<1>3. PICK channels : channels = Append(t.channels, <<>>)
  OBVIOUS
<1>4. u = [layers |-> layers, nodes |-> t.nodes, channels |-> channels,
           bottom |-> t.bottom, top |-> t.top]
  <2>1. t = [layers |-> t.layers, nodes |-> t.nodes, channels |-> t.channels,
             bottom |-> t.bottom, top |-> t.top]
    BY ONLY <1>1, TreeIs
  <2>2. PICK r : r = [t EXCEPT !.layers = layers]
    OBVIOUS
  <2>3. r = [layers |-> layers, nodes |-> t.nodes, channels |-> t.channels,
             bottom |-> t.bottom, top |-> t.top]
    BY ONLY <2>1, <2>2
  <2>4. [t EXCEPT !.layers = Append(@, <<>>), !.channels = Append(@, <<>>)]
            = [r EXCEPT !.channels = Append(@, <<>>)]
    BY ONLY <1>2, <2>2
  <2>5. [r EXCEPT !.channels = Append(@, <<>>)] = [r EXCEPT !.channels = channels]
    <3>1. r.channels = t.channels
      BY ONLY <2>3
    <3>2. QED BY ONLY <1>3, <3>1
  <2>6. QED BY <2>3, <2>4, <2>5
<1>5. /\ u.layers = layers /\ u.nodes = t.nodes /\ u.channels = channels
      /\ u.bottom = t.bottom /\ u.top = t.top
  BY ONLY <1>4
<1>6. /\ layers \in Seq(Seq(GroupRecords)) /\ Len(layers) = Len(t.layers) + 1 /\ Len(t.layers) \in Nat
      /\ layers[Len(t.layers) + 1] = <<>> /\ \A l \in 1 .. Len(t.layers) : layers[l] = t.layers[l]
  <2> DEFINE G == Seq(GroupRecords)
  <2>1. t.layers \in Seq(G) /\ <<>> \in G
    BY <1>1, TreeParts
  <2> HIDE DEF G
  <2>2. /\ layers \in Seq(G) /\ Len(layers) = Len(t.layers) + 1 /\ Len(t.layers) \in Nat
        /\ layers[Len(t.layers) + 1] = <<>> /\ \A l \in 1 .. Len(t.layers) : layers[l] = t.layers[l]
    BY ONLY <1>2, <2>1
  <2>3. QED BY <2>2 DEF G
<1>7. channels \in Seq(Seq(Vertices)) /\ Len(channels) = Len(t.channels) + 1
  <2> DEFINE G == Seq(Vertices)
  <2>1. t.channels \in Seq(G) /\ <<>> \in G
    BY <1>1, TreeParts
  <2> HIDE DEF G
  <2>2. channels \in Seq(G) /\ Len(channels) = Len(t.channels) + 1
    BY ONLY <1>3, <2>1
  <2>3. QED BY <2>2 DEF G
<1>8. u \in Trees
  <2>1. t.nodes \in Seq(NodeRecords) /\ t.bottom \in Seq(BottomRecords) /\ t.top \in Seq(TopRecords)
    BY <1>1, TreeParts
  <2>2. QED BY ONLY <1>4, <1>6, <1>7, <2>1, TreeMade
<1>9. Places(u) = Places(t)
  <2>1. ASSUME NEW p \in Places(u) PROVE p \in Places(t)
    <3>1. p = <<p[1], p[2]>> /\ p[1] \in 1 .. Len(layers) /\ p[2] \in 1 .. Len(layers[p[1]])
      BY <1>5, <1>8, PlaceFacts
    <3>2. p[1] # Len(t.layers) + 1
      <4>1. ASSUME p[1] = Len(t.layers) + 1 PROVE FALSE
        <5>1. p[2] \in 1 .. Len(<<>>)
          BY <1>6, <3>1, <4>1
        <5>2. QED BY <5>1
      <4>2. QED BY <4>1
    <3>3. p[1] \in 1 .. Len(t.layers) /\ layers[p[1]] = t.layers[p[1]]
      BY SMTT(30), <1>6, <3>1, <3>2
    <3>4. <<p[1], p[2]>> \in Places(t)
      BY <1>1, <3>1, <3>3, PlaceFacts
    <3>5. QED BY <3>1, <3>4
  <2>2. ASSUME NEW p \in Places(t) PROVE p \in Places(u)
    <3>1. p = <<p[1], p[2]>> /\ p[1] \in 1 .. Len(t.layers) /\ p[2] \in 1 .. Len(t.layers[p[1]])
      BY <1>1, PlaceFacts
    <3>2. p[1] \in 1 .. Len(layers) /\ layers[p[1]] = t.layers[p[1]]
      BY <1>6, <3>1
    <3>3. <<p[1], p[2]>> \in Places(u)
      BY <1>5, <1>8, <3>1, <3>2, PlaceFacts
    <3>4. QED BY <3>1, <3>3
  <2>3. QED BY <2>1, <2>2
<1>10. ASSUME NEW p \in Places(t) PROVE GroupAt(u, p) = GroupAt(t, p)
  <2>1. p[1] \in 1 .. Len(t.layers)
    BY <1>1, PlaceFacts
  <2>2. QED BY <1>5, <1>6, <2>1 DEF GroupAt
<1>11. \A p \in Places(t) : \A n : InGroup(u, p, n) <=> InGroup(t, p, n)
  BY <1>10 DEF InGroup
<1>12. Homed(u)
  BY <1>1, <1>5, <1>9, <1>10, <1>11 DEF Homed
<1>13. ASSUME NEW n \in 1 .. Len(t.nodes) PROVE LayerOf(u, n) = LayerOf(t, n)
  <2>1. PlaceOf(t, n) \in Places(t) /\ InGroup(t, PlaceOf(t, n), n) /\ LayerOf(t, n) = PlaceOf(t, n)[1]
    BY <1>1, HomeFacts
  <2>2. PlaceOf(t, n) \in Places(u) /\ InGroup(u, PlaceOf(t, n), n) /\ n \in 1 .. Len(u.nodes)
    BY <1>5, <1>9, <1>11, <2>1
  <2>3. PlaceOf(t, n) = PlaceOf(u, n) /\ LayerOf(u, n) = PlaceOf(u, n)[1]
    BY <1>8, <1>12, <2>2, HomeFacts
  <2>4. QED BY <2>1, <2>3
<1>14. Reads(u)
  BY <1>1, <1>5, <1>9, <1>10, <1>11 DEF Reads
<1>15. Hung(u)
  BY <1>1, <1>5, <1>9, <1>10, <1>13 DEF Hung
<1>16. Shaped(u)
  BY <1>1, <1>5, <1>6, <1>7, <1>8 DEF Shaped
<1>17. QED BY <1>5, <1>6, <1>9, <1>10, <1>12, <1>13, <1>14, <1>15, <1>16 DEF TreeOK

\* Every channel has one wire per net, among them those of the groups above it; a node
\* has at most one child; only the lowest layer's groups may be without a parent.
Sound(t) ==
    /\ \A c \in 1 .. Len(t.channels) : Distinct(t.channels[c])
    /\ \A p \in Places(t) : GroupAt(t, p).net \in ToSet(t.channels[p[1]])
    /\ \A p, q \in Places(t) :
          GroupAt(t, p).parent # NoParent /\ GroupAt(t, p).parent = GroupAt(t, q).parent => p = q
    /\ \A p \in Places(t) : GroupAt(t, p).parent = NoParent => p[1] = 1

\* A child is kept.
LEMMA ChildStays ==
    ASSUME NEW t, NEW u, Extends(t, u), NEW n, Child(t, n) # {}
    PROVE  Child(u, n) # {}
<1>1. PICK p \in Places(t) : n # Bottom /\ GroupAt(t, p).parent = n
  BY DEF Child
<1>2. PICK q \in Places(u) : GroupAt(u, q).parent = GroupAt(t, p).parent
  BY <1>1 DEF Extends
<1>3. QED BY <1>1, <1>2 DEF Child

\* A tree in which only nodes and wires are new is as sound as it was.
LEMMA SoundSame ==
    ASSUME NEW t, TreeOK(t), Sound(t), NEW u, SameGroups(t, u), Wider(t, u)
    PROVE  Sound(u)
<1>1. \A p \in Places(t) : p[1] \in 1 .. Len(t.channels)
  <2>1. t \in Trees /\ Len(t.channels) = Len(t.layers) + 1
    BY DEF TreeOK, Shaped
  <2>2. Len(t.layers) \in Nat
    BY <2>1, TreeParts
  <2>3. \A p \in Places(t) : p[1] \in 1 .. Len(t.layers)
    BY <2>1, PlaceFacts
  <2>4. QED BY <2>1, <2>2, <2>3
<1>2. QED BY <1>1 DEF Sound, SameGroups, Wider

\* The newest node has no child yet, the others have those they had.
LEMMA NewestAlone ==
    ASSUME NEW t, TreeOK(t), NEW u, SameGroups(t, u)
    PROVE  /\ Child(u, Len(t.nodes) + 1) = {}
           /\ \A n : Child(u, n) = Child(t, n)
<1>1. \A n : Child(u, n) = Child(t, n)
  BY DEF Child, SameGroups
<1>2. Len(t.nodes) \in Nat
  BY TreeParts DEF TreeOK, Shaped
<1>3. \A p \in Places(t) : GroupAt(t, p).parent # Len(t.nodes) + 1
  BY <1>2 DEF TreeOK, Hung, NoParent
<1>4. Child(t, Len(t.nodes) + 1) = {}
  BY <1>3 DEF Child
<1>5. QED BY <1>1, <1>4

\* A new group over a node without a child.
LEMMA SoundGroup ==
    ASSUME NEW t, TreeOK(t), Sound(t),
           NEW l \in 1 .. Len(t.layers), NEW g \in 1 .. Len(t.layers[l]) + 1,
           NEW net \in Vertices, NEW parent \in Nat,
           parent # NoParent => /\ parent \in 1 .. Len(t.nodes)
                                /\ LayerOf(t, parent) = l - 1 /\ t.nodes[parent].out = net
                                /\ Child(t, parent) = {},
           parent = NoParent => l = 1,
           NEW u, u = InsertNodeGroup(t, l, g, net, parent)
    PROVE  Sound(u)
<1> DEFINE o == <<l, g>>
<1>1. /\ o \in Places(u)
      /\ GroupAt(u, o) = [net |-> net, parent |-> parent, nodes |-> <<>>]
      /\ \A q \in Places(u) : q = o \/ GroupFrom(t, u, q)
      /\ \A q, r \in Places(u) : /\ q # o /\ r # o /\ q # r
                                 /\ GroupAt(u, q).parent = GroupAt(u, r).parent
               => \E a, b \in Places(t) : /\ a # b
                                         /\ GroupAt(t, a).parent = GroupAt(u, q).parent
                                         /\ GroupAt(t, b).parent = GroupAt(u, q).parent
      /\ Wider(t, u) /\ net \in ToSet(u.channels[l])
  BY InsertNodeGroupFacts
<1>2. o[1] = l
  OBVIOUS
<1> HIDE DEF o
<1>3. \A p \in Places(t) : p[1] \in 1 .. Len(t.channels)
  <2>1. t \in Trees /\ Len(t.channels) = Len(t.layers) + 1
    BY DEF TreeOK, Shaped
  <2>2. Len(t.layers) \in Nat
    BY <2>1, TreeParts
  <2>3. \A p \in Places(t) : p[1] \in 1 .. Len(t.layers)
    BY <2>1, PlaceFacts
  <2>4. QED BY <2>1, <2>2, <2>3
<1>4. GroupAt(u, o).net = net /\ GroupAt(u, o).parent = parent
  BY <1>1
<1>5. \A c \in 1 .. Len(u.channels) : Distinct(u.channels[c])
  BY <1>1 DEF Sound, Wider
<1>6. ASSUME NEW q \in Places(u)
      PROVE  /\ GroupAt(u, q).net \in ToSet(u.channels[q[1]])
             /\ GroupAt(u, q).parent = NoParent => q[1] = 1
             /\ q # o /\ GroupAt(u, q).parent = parent => parent = NoParent
  <2>1. CASE q = o
    BY <1>1, <1>2, <1>4, <2>1
  <2>2. CASE q # o
    <3>1. PICK p \in Places(t) : /\ p[1] = q[1] /\ GroupAt(t, p).net = GroupAt(u, q).net
                                 /\ GroupAt(t, p).parent = GroupAt(u, q).parent
      BY <1>1, <2>2 DEF GroupFrom
    <3>2. GroupAt(u, q).net \in ToSet(u.channels[q[1]])
      BY <1>1, <1>3, <3>1 DEF Sound, Wider
    <3>3. GroupAt(u, q).parent = NoParent => q[1] = 1
      BY <3>1 DEF Sound
    <3>4. GroupAt(u, q).parent = parent => parent = NoParent
      <4>1. ASSUME GroupAt(u, q).parent = parent, parent # NoParent PROVE FALSE
        <5>1. p \in Child(t, parent)
          BY <3>1, <4>1 DEF Child, NoParent, Bottom
        <5>2. QED BY <4>1, <5>1
      <4>2. QED BY <4>1
    <3>5. QED BY <3>2, <3>3, <3>4
  <2>3. QED BY <2>1, <2>2
<1>7. ASSUME NEW q \in Places(u), NEW r \in Places(u),
             GroupAt(u, q).parent # NoParent, GroupAt(u, q).parent = GroupAt(u, r).parent
      PROVE  q = r
  <2>1. CASE q = o \/ r = o
    BY <1>4, <1>6, <1>7, <2>1
  <2>2. CASE q # o /\ r # o
    <3>1. SUFFICES ASSUME q # r PROVE FALSE
      OBVIOUS
    <3>2. PICK a \in Places(t), b \in Places(t) :
              /\ a # b /\ GroupAt(t, a).parent = GroupAt(u, q).parent
              /\ GroupAt(t, b).parent = GroupAt(u, q).parent
      BY <1>1, <1>7, <2>2, <3>1
    <3>3. QED BY <1>7, <3>2 DEF Sound
  <2>3. QED BY <2>1, <2>2
<1>8. QED BY <1>5, <1>6, <1>7 DEF Sound

\* Wires are found or made for the groups there are.
LEMMA SoundWire ==
    ASSUME NEW t, TreeOK(t), Sound(t), NEW c \in 1 .. Len(t.channels), NEW net \in Vertices
    PROVE  Sound(FindOrMake(t, c, net))
<1>1. PICK u : u = FindOrMake(t, c, net)
  OBVIOUS
<1>2. u.layers = t.layers /\ Wider(t, u)
  BY <1>1, FindOrMakeFacts
<1>3. SameGroups(t, u)
  BY <1>2, SameLayers DEF SameGroups
<1>4. QED BY <1>1, <1>2, <1>3, SoundSame

\* Channels that are as they were.
LEMMA WiderSelf ==
    ASSUME NEW t, NEW u, u.channels = t.channels
    PROVE  Wider(t, u)
BY DEF Wider

LEMMA WiderOn ==
    ASSUME NEW t, NEW u, NEW v, Wider(t, u), Wider(u, v)
    PROVE  Wider(t, v)
BY DEF Wider

-----------------------------------------------------------------------------
(* Passing a net up.                                                         *)
PassNode(net) == [invert |-> FALSE, in |-> net, out |-> net]

\* What passing a net up has made of t: the newest node, and every other new one,
\* passes the net through to the next; the output it began with goes on, the newest not yet.
Passed(t, u, net, output) ==
    /\ TreeOK(u) /\ Extends(t, u) /\ Len(t.nodes) < Len(u.nodes)
    /\ \A n \in Len(t.nodes) + 1 .. Len(u.nodes) : u.nodes[n] = PassNode(net)
    /\ Wider(t, u)
    /\ output # Bottom => Child(u, output) # {}
    /\ Child(u, Len(u.nodes)) = {}
    /\ \A n \in Len(t.nodes) + 1 .. Len(u.nodes) - 1 : Child(u, n) # {}
    /\ Sound(t) => Sound(u)

\* chainPassThrough goes one layer up.
LEMMA ChainFacts ==
    ASSUME NEW t, TreeOK(t), NEW node \in 1 .. Len(t.nodes), LayerOf(t, node) # Len(t.layers),
           NEW u, u = ChainPassThrough(t, node)
    PROVE  /\ TreeOK(u) /\ Extends(t, u)
           /\ u.nodes = Append(t.nodes, PassNode(t.nodes[node].out))
           /\ Len(u.nodes) = Len(t.nodes) + 1 /\ Len(t.nodes) \in Nat
           /\ LayerOf(u, Len(t.nodes) + 1) = LayerOf(t, node) + 1
           /\ LayerOf(t, node) + 1 \in 1 .. Len(t.layers)
           /\ Wider(t, u) /\ Child(u, node) # {} /\ Child(u, Len(t.nodes) + 1) = {}
           /\ Sound(t) /\ Child(t, node) = {} => Sound(u)
<1>1. t \in Trees /\ Homed(t)
  BY DEF TreeOK, Shaped
<1>2. Len(t.layers) \in Nat /\ Len(t.nodes) \in Nat /\ t.nodes[node] \in NodeRecords
  BY <1>1, TreeParts
<1>3. LayerOf(t, node) \in 1 .. Len(t.layers)
  BY <1>1, HomeFacts
<1>4. PICK l : l = LayerOf(t, node) + 1
  OBVIOUS
<1>5. l \in 1 .. Len(t.layers) /\ LayerOf(t, node) = l - 1
  BY <1>2, <1>3, <1>4
<1>6. PICK g : g = ChainIndex(t, node)
  OBVIOUS
<1>7. g \in 1 .. Len(t.layers[l]) + 1
  <2>1. Len(t.layers[l]) \in Nat /\ t.layers[l] \in Seq(GroupRecords)
    BY <1>1, <1>5, TreeParts
  <2>2. g = 1 \/ (g = 2 /\ t.layers[l] # <<>>)
    BY <1>4, <1>6 DEF ChainIndex, LayerOf
  <2>3. t.layers[l] # <<>> => Len(t.layers[l]) # 0
    <3>1. PICK s : s = t.layers[l]
      OBVIOUS
    <3>2. s \in Seq(GroupRecords)
      BY <2>1, <3>1
    <3>3. s # <<>> => Len(s) # 0
      BY ONLY <3>2
    <3>4. QED BY <3>1, <3>3
  <2>4. QED BY <2>1, <2>2, <2>3
<1>8. PICK net : net = t.nodes[node].out
  OBVIOUS
<1>9. net \in Vertices /\ node \in Nat /\ node # NoParent
  BY <1>2, <1>8 DEF NodeRecords, NoParent
<1>10. PICK v : v = InsertNodeGroup(t, l, g, net, node)
  OBVIOUS
<1>11. /\ TreeOK(v) /\ Extends(t, v) /\ v.nodes = t.nodes
       /\ <<l, g>> \in Places(v)
       /\ GroupAt(v, <<l, g>>) = [net |-> net, parent |-> node, nodes |-> <<>>]
      /\ Wider(t, v)
  BY <1>5, <1>7, <1>8, <1>9, <1>10, InsertNodeGroupFacts
<1>12. u = InsertPassThrough(v, <<l, g>>)
  BY <1>4, <1>6, <1>8, <1>10 DEF ChainPassThrough
<1>13. GroupAt(v, <<l, g>>).net = net /\ <<l, g>>[1] = l
  BY <1>11
<1>14. /\ TreeOK(u) /\ Extends(v, u)
       /\ u.nodes = Append(v.nodes, [invert |-> FALSE, in |-> net, out |-> net])
       /\ Len(u.nodes) = Len(v.nodes) + 1
       /\ LayerOf(u, Len(v.nodes) + 1) = l
       /\ SameGroups(v, u) /\ u.channels = v.channels
  BY <1>11, <1>12, <1>13, InsertPassThroughFacts
<1>15. Extends(t, u)
  BY <1>1, <1>11, <1>14, ExtendsOn DEF TreeOK, Shaped
<1>16. Wider(v, u) /\ Wider(t, u)
  BY <1>11, <1>14, WiderSelf, WiderOn
<1>17. Child(u, node) # {} /\ Child(u, Len(t.nodes) + 1) = {}
  <2>1. <<l, g>> \in Child(v, node)
    BY <1>9, <1>11 DEF Child, NoParent, Bottom
  <2>2. Child(u, node) = Child(v, node) /\ Child(u, Len(v.nodes) + 1) = {}
    BY ZenonT(30), <1>11, <1>14, NewestAlone
  <2>3. QED BY <1>11, <2>1, <2>2
<1>18. ASSUME Sound(t), Child(t, node) = {} PROVE Sound(u)
  <2>1. Sound(v)
    BY <1>5, <1>7, <1>8, <1>9, <1>10, <1>18, SoundGroup
  <2>2. QED BY <1>11, <1>14, <1>16, <2>1, SoundSame
<1>19. QED BY <1>2, <1>4, <1>5, <1>8, <1>11, <1>14, <1>15, <1>16, <1>17, <1>18 DEF PassNode

\* How passing a net up starts.
LEMMA StartFacts ==
    ASSUME NEW t, TreeOK(t), NEW net \in Vertices, NEW output \in 0 .. Len(t.nodes),
           Len(t.layers) >= 1,
           output # Bottom => t.nodes[output].out = net /\ LayerOf(t, output) # Len(t.layers),
           NEW u, u = StartPassThrough(t, net, output)
    PROVE  /\ Passed(t, u, net, output) /\ LayerOf(u, Len(u.nodes)) \in 1 .. Len(t.layers)
           /\ u.nodes = Append(t.nodes, PassNode(net)) /\ Len(u.nodes) = Len(t.nodes) + 1
<1>1. t \in Trees /\ Hung(t) /\ Len(t.layers) \in Nat /\ Len(t.nodes) \in Nat
  BY TreeParts DEF TreeOK, Shaped
<1>2. SUFFICES /\ TreeOK(u) /\ Extends(t, u) /\ u.nodes = Append(t.nodes, PassNode(net))
               /\ Len(u.nodes) = Len(t.nodes) + 1
               /\ LayerOf(u, Len(t.nodes) + 1) \in 1 .. Len(t.layers)
               /\ Wider(t, u) /\ (output # Bottom => Child(u, output) # {})
               /\ Child(u, Len(t.nodes) + 1) = {} /\ (Sound(t) => Sound(u))
  <2>1. t.nodes \in Seq(NodeRecords)
    BY <1>1, TreeParts
  <2>2. \A n \in Len(t.nodes) + 1 .. Len(u.nodes) : u.nodes[n] = PassNode(net)
    <3>1. ASSUME NEW n \in Len(t.nodes) + 1 .. Len(u.nodes) PROVE u.nodes[n] = PassNode(net)
      <4>1. n = Len(t.nodes) + 1
        BY <1>1, <1>2
      <4>2. Append(t.nodes, PassNode(net))[Len(t.nodes) + 1] = PassNode(net)
        BY <2>1
      <4>3. QED BY <1>2, <4>1, <4>2
    <3>2. QED BY <3>1
  <2>3. Len(t.nodes) < Len(u.nodes)
    BY <1>1, <1>2
  <2>4. Len(t.nodes) + 1 .. Len(u.nodes) - 1 = {}
    BY <1>1, <1>2
  <2>5. QED BY <1>2, <2>2, <2>3, <2>4 DEF Passed
<1>3. CASE InputToGroup(t, net, output) # {}
  <2>1. PICK p : p = CHOOSE q \in InputToGroup(t, net, output) : TRUE
    OBVIOUS
  <2>2. p \in InputToGroup(t, net, output)
    BY <1>3, <2>1
  <2>3. p \in Places(t) /\ GroupAt(t, p).net = net
    <3>1. CASE output # Bottom
      <4>1. p \in Places(t) /\ GroupAt(t, p).parent = output
        BY <2>2, <3>1 DEF InputToGroup, Child
      <4>2. QED BY <1>1, <3>1, <4>1 DEF Hung, NoParent, Bottom
    <3>2. CASE output = Bottom
      BY <2>2, <3>2 DEF InputToGroup
    <3>3. QED BY <3>1, <3>2
  <2>4. u = InsertPassThrough(t, p)
    BY <1>3, <2>1 DEF StartPassThrough
  <2>5. /\ TreeOK(u) /\ Extends(t, u)
        /\ u.nodes = Append(t.nodes, [invert |-> FALSE, in |-> net, out |-> net])
        /\ Len(u.nodes) = Len(t.nodes) + 1 /\ LayerOf(u, Len(t.nodes) + 1) = p[1]
        /\ SameGroups(t, u) /\ u.channels = t.channels
    BY <2>3, <2>4, InsertPassThroughFacts
  <2>6. p[1] \in 1 .. Len(t.layers)
    BY <1>1, <2>3, PlaceFacts
  <2>7. Wider(t, u) /\ Child(u, Len(t.nodes) + 1) = {} /\ Child(u, output) = Child(t, output)
    BY SMTT(30), <2>5, WiderSelf, NewestAlone
  <2>8. output # Bottom => Child(u, output) # {}
    BY <1>3, <2>7 DEF InputToGroup
  <2>9. Sound(t) => Sound(u)
    BY <2>5, <2>7, SoundSame
  <2>10. QED BY <2>5, <2>6, <2>7, <2>8, <2>9 DEF PassNode
<1>4. CASE InputToGroup(t, net, output) = {} /\ output # Bottom
  <2>1. u = ChainPassThrough(t, output)
    BY <1>4 DEF StartPassThrough
  <2>2. output \in 1 .. Len(t.nodes)
    BY <1>1, <1>4 DEF Bottom
  <2>3. Child(t, output) = {}
    BY <1>4 DEF InputToGroup
  <2>4. LayerOf(t, output) # Len(t.layers) /\ t.nodes[output].out = net
    BY <1>4
  <2>5. /\ TreeOK(u) /\ Extends(t, u)
        /\ u.nodes = Append(t.nodes, PassNode(t.nodes[output].out))
        /\ Len(u.nodes) = Len(t.nodes) + 1
        /\ LayerOf(u, Len(t.nodes) + 1) = LayerOf(t, output) + 1
        /\ LayerOf(t, output) + 1 \in 1 .. Len(t.layers)
        /\ Wider(t, u) /\ Child(u, output) # {} /\ Child(u, Len(t.nodes) + 1) = {}
        /\ Sound(t) /\ Child(t, output) = {} => Sound(u)
    BY ONLY TreeOK(t), <2>1, <2>2, <2>4, ChainFacts
  <2>6. QED BY <2>3, <2>4, <2>5
<1>5. CASE InputToGroup(t, net, output) = {} /\ output = Bottom
  <2>1. PICK v : v = InsertNodeGroup(t, 1, 1, net, NoParent)
    OBVIOUS
  <2>2. 1 \in 1 .. Len(t.layers) /\ NoParent \in Nat
    BY <1>1 DEF NoParent
  <2>3. 1 \in 1 .. Len(t.layers[1]) + 1
    <3>1. Len(t.layers[1]) \in Nat
      BY <1>1, <2>2, TreeParts
    <3>2. QED BY <3>1
  <2>4. /\ TreeOK(v) /\ Extends(t, v) /\ v.nodes = t.nodes
        /\ <<1, 1>> \in Places(v)
        /\ GroupAt(v, <<1, 1>>) = [net |-> net, parent |-> NoParent, nodes |-> <<>>]
        /\ Wider(t, v) /\ (Sound(t) => Sound(v))
    BY <2>1, <2>2, <2>3, InsertNodeGroupFacts, SoundGroup
  <2>5. u = InsertPassThrough(v, <<1, 1>>)
    BY <1>5, <2>1 DEF StartPassThrough
  <2>6. GroupAt(v, <<1, 1>>).net = net /\ <<1, 1>>[1] = 1
    BY <2>4
  <2>7. /\ TreeOK(u) /\ Extends(v, u)
        /\ u.nodes = Append(v.nodes, [invert |-> FALSE, in |-> net, out |-> net])
        /\ Len(u.nodes) = Len(v.nodes) + 1
        /\ LayerOf(u, Len(v.nodes) + 1) = 1
        /\ SameGroups(v, u) /\ u.channels = v.channels
    BY <2>4, <2>5, <2>6, InsertPassThroughFacts
  <2>8. Extends(t, u)
    BY <1>1, <2>4, <2>7, ExtendsOn DEF TreeOK, Shaped
  <2>9. Wider(v, u) /\ Wider(t, u) /\ Child(u, Len(v.nodes) + 1) = {}
    BY <2>4, <2>7, WiderSelf, WiderOn, NewestAlone
  <2>10. Sound(t) => Sound(u)
    BY <2>4, <2>7, <2>9, SoundSame
  <2>11. QED BY <1>5, <2>2, <2>4, <2>7, <2>8, <2>9, <2>10 DEF PassNode
<1>6. QED BY <1>3, <1>4, <1>5

\* The layer a net has been passed up to.
Height(r) == LayerOf(r, Len(r.nodes))

\* One layer further up.
Climb(r) == ChainPassThrough(r, Len(r.nodes))

\* One layer further up: what has been passed up so far is kept.
LEMMA ClimbFacts ==
    ASSUME NEW t, t \in Trees, NEW net \in Vertices, NEW output, NEW r,
           Passed(t, r, net, output), Height(r) # Len(t.layers)
    PROVE  Passed(t, Climb(r), net, output) /\ Height(Climb(r)) = Height(r) + 1
           /\ Height(r) + 1 \in 1 .. Len(t.layers)
<1>1. /\ TreeOK(r) /\ Extends(t, r) /\ Len(t.nodes) < Len(r.nodes) /\ r \in Trees
      /\ Len(t.nodes) \in Nat /\ Len(r.nodes) \in Nat /\ Len(r.layers) = Len(t.layers)
      /\ Wider(t, r) /\ (output # Bottom => Child(r, output) # {})
      /\ Child(r, Len(r.nodes)) = {} /\ (Sound(t) => Sound(r))
      /\ \A n \in Len(t.nodes) + 1 .. Len(r.nodes) - 1 : Child(r, n) # {}
  BY TreeParts DEF Passed, TreeOK, Shaped, Extends
<1>2. Len(r.nodes) \in 1 .. Len(r.nodes) /\ r.nodes[Len(r.nodes)] = PassNode(net)
      /\ Len(r.nodes) \in Len(t.nodes) + 1 .. Len(r.nodes)
  <2>1. Len(r.nodes) \in 1 .. Len(r.nodes) /\ Len(r.nodes) \in Len(t.nodes) + 1 .. Len(r.nodes)
    BY <1>1
  <2>2. QED BY <2>1 DEF Passed
<1>3. r.nodes[Len(r.nodes)].out = net
  BY <1>2 DEF PassNode
<1>4. PICK u : u = Climb(r)
  OBVIOUS
<1>5. /\ TreeOK(u) /\ Extends(r, u)
      /\ u.nodes = Append(r.nodes, PassNode(net))
      /\ Len(u.nodes) = Len(r.nodes) + 1
      /\ LayerOf(u, Len(r.nodes) + 1) = Height(r) + 1
      /\ Height(r) + 1 \in 1 .. Len(t.layers)
      /\ Wider(r, u) /\ Child(u, Len(r.nodes)) # {} /\ Child(u, Len(r.nodes) + 1) = {}
      /\ (Sound(r) => Sound(u))
  <2>1. PICK node : node = Len(r.nodes)
    OBVIOUS
  <2>2. /\ u = ChainPassThrough(r, node) /\ node \in 1 .. Len(r.nodes)
        /\ LayerOf(r, node) = Height(r) /\ LayerOf(r, node) # Len(r.layers)
        /\ r.nodes[node].out = net /\ Child(r, node) = {}
    BY <1>1, <1>2, <1>3, <1>4, <2>1 DEF Climb, Height
  <2>3. /\ TreeOK(u) /\ Extends(r, u)
        /\ u.nodes = Append(r.nodes, PassNode(r.nodes[node].out))
        /\ Len(u.nodes) = Len(r.nodes) + 1
        /\ LayerOf(u, Len(r.nodes) + 1) = LayerOf(r, node) + 1
        /\ LayerOf(r, node) + 1 \in 1 .. Len(r.layers)
        /\ Wider(r, u) /\ Child(u, node) # {} /\ Child(u, Len(r.nodes) + 1) = {}
        /\ Sound(r) /\ Child(r, node) = {} => Sound(u)
    <3>1. TreeOK(r)
      BY <1>1
    <3>2. QED BY ONLY <2>2, <3>1, ChainFacts
  <2>4. QED BY ONLY <1>1, <2>1, <2>2, <2>3
<1>6. Extends(t, u)
  BY <1>1, <1>5, ExtendsOn DEF TreeOK, Shaped
<1>7. ASSUME NEW n \in Len(t.nodes) + 1 .. Len(u.nodes) PROVE u.nodes[n] = PassNode(net)
  <2>1. r.nodes \in Seq(NodeRecords)
    BY <1>1, TreeParts
  <2>2. CASE n = Len(r.nodes) + 1
    <3>1. Append(r.nodes, PassNode(net))[Len(r.nodes) + 1] = PassNode(net)
      BY <2>1
    <3>2. QED BY <1>5, <2>2, <3>1
  <2>3. CASE n # Len(r.nodes) + 1
    <3>1. n \in Len(t.nodes) + 1 .. Len(r.nodes) /\ n \in 1 .. Len(r.nodes)
      BY <1>1, <1>5, <2>3
    <3>2. u.nodes[n] = r.nodes[n]
      BY <1>5, <3>1 DEF Extends
    <3>3. QED BY <3>1, <3>2 DEF Passed
  <2>4. QED BY <2>2, <2>3
<1>8. Len(t.nodes) < Len(u.nodes)
  BY <1>1, <1>5
<1>9. Passed(t, u, net, output)
  <2>1. Wider(t, u) /\ (Sound(t) => Sound(u)) /\ Child(u, Len(u.nodes)) = {}
    BY <1>1, <1>5, WiderOn
  <2>2. output # Bottom => Child(u, output) # {}
    BY <1>1, <1>5, ChildStays
  <2>3. ASSUME NEW n \in Len(t.nodes) + 1 .. Len(u.nodes) - 1 PROVE Child(u, n) # {}
    <3>1. CASE n = Len(r.nodes)
      BY <1>5, <3>1
    <3>2. CASE n # Len(r.nodes)
      <4>1. n \in Len(t.nodes) + 1 .. Len(r.nodes) - 1
        BY <1>1, <1>5, <3>2
      <4>2. QED BY <1>1, <1>5, <4>1, ChildStays
    <3>3. QED BY <3>1, <3>2
  <2>4. QED BY <1>5, <1>6, <1>7, <1>8, <2>1, <2>2, <2>3 DEF Passed
<1>10. Height(u) = Height(r) + 1
  BY <1>5 DEF Height
<1>11. QED BY <1>4, <1>5, <1>9, <1>10

\* n layers further up.
Climbed(start, n) ==
    FoldLeft(LAMBDA r, i : ChainPassThrough(r, Len(r.nodes)), start, [i \in 1 .. n |-> i])

\* Passing a net up layer by layer ends in the top layer.
LEMMA ClimbsFacts ==
    ASSUME NEW t, t \in Trees, NEW net \in Vertices, NEW output,
           NEW start, Passed(t, start, net, output),
           Height(start) \in 1 .. Len(t.layers),
           NEW n, n = Len(t.layers) - Height(start),
           NEW u, u = Climbed(start, n)
    PROVE  Passed(t, u, net, output) /\ Height(u) = Len(t.layers)
<1>1. n \in Nat /\ Len(t.layers) \in Nat /\ Height(start) \in Nat
  BY TreeParts
<1> DEFINE D == {r \in Trees : Passed(t, r, net, output)}
           base == start
           May(r) == Passed(t, r, net, output) /\ Height(r) # Len(t.layers)
           Step == [a \in D \X (1 .. n) |-> IF May(a[1]) THEN Climb(a[1]) ELSE a[1]]
           Code(f) == [T \in SUBSET (1 .. n) |-> IF T = {} THEN start ELSE Climb(f[T \ {Max(T)}])]
<1>2. Step \in [D \X (1 .. n) -> D]
  <2>1. ASSUME NEW a \in D \X (1 .. n) PROVE (IF May(a[1]) THEN Climb(a[1]) ELSE a[1]) \in D
    <3>1. a[1] \in D
      OBVIOUS
    <3>2. CASE May(a[1])
      <4>1. Passed(t, Climb(a[1]), net, output)
        BY <3>2, ClimbFacts
      <4>2. QED BY <3>2, <4>1 DEF Passed, TreeOK, Shaped
    <3>3. CASE ~May(a[1])
      BY <3>1, <3>3
    <3>4. QED BY <3>2, <3>3
  <2> HIDE DEF D, May
  <2>2. QED BY <2>1
<1>3. PICK it \in [SUBSET (1 .. n) -> D] : IsLeftFold(it, n, base, Step)
  <2>1. base \in D
    BY DEF Passed, TreeOK, Shaped
  <2> HIDE DEF Step, D, base
  <2>2. \E f \in [SUBSET (1 .. n) -> D] : IsLeftFold(f, n, base, Step)
    BY ONLY <1>1, <1>2, <2>1, LeftFoldExists
  <2>3. QED BY <2>2
<1>4. ASSUME NEW T \in SUBSET (1 .. n)
      PROVE  it[T] = IF T = {} THEN start ELSE
                        IF May(it[T \ {Greatest(T)}]) THEN Climb(it[T \ {Greatest(T)}])
                        ELSE it[T \ {Greatest(T)}]
  <2>1. it[T] = IF T = {} THEN base ELSE Step[<<it[T \ {Greatest(T)}], Greatest(T)>>]
    <3> HIDE DEF Step, D, base
    <3> QED BY <1>3 DEF IsLeftFold
  <2>2. ASSUME T # {}
        PROVE  <<it[T \ {Greatest(T)}], Greatest(T)>> \in D \X (1 .. n)
    <3> HIDE DEF Step, D
    <3>1. Greatest(T) \in 1 .. n /\ T \ {Greatest(T)} \in SUBSET (1 .. n)
      BY <1>1, <2>2, GreatestFacts
    <3>2. QED BY <1>3, <3>1
  <2> HIDE DEF D, May
  <2>3. QED BY <2>1, <2>2
<1>5. ASSUME NEW T \in SUBSET (1 .. n) PROVE IsFiniteSet(T) /\ Cardinality(T) \in 0 .. n
  <2>1. IsFiniteSet(1 .. n) /\ Cardinality(1 .. n) = n
    <3>1. 1 \in Int /\ n \in Int /\ n \in Nat
      BY <1>1
    <3>2. IsFiniteSet(1 .. n) /\ Cardinality(1 .. n) = IF 1 > n THEN 0 ELSE n - 1 + 1
      BY ONLY <3>1, FS_Interval
    <3>3. QED BY ONLY <3>1, <3>2
  <2>2. IsFiniteSet(T) /\ Cardinality(T) <= n
    <3>1. PICK S : S = 1 .. n
      OBVIOUS
    <3>2. T \in SUBSET S /\ IsFiniteSet(S) /\ Cardinality(S) = n
      BY <2>1, <3>1
    <3>3. IsFiniteSet(T) /\ Cardinality(T) <= Cardinality(S)
      BY ONLY <3>2, FS_Subset
    <3>4. QED BY ONLY <3>2, <3>3
  <2>3. QED BY <1>1, <2>2, FS_CardinalityType
<1> DEFINE Good(k) == \A T \in SUBSET (1 .. n) : Cardinality(T) = k => Height(it[T]) = Height(start) + k
           Wrong == {k \in 0 .. n : ~Good(k)}
<1>6. ASSUME NEW T \in SUBSET (1 .. n), T # {}
      PROVE  /\ T \ {Greatest(T)} \in SUBSET (1 .. n)
             /\ Cardinality(T \ {Greatest(T)}) = Cardinality(T) - 1 /\ Cardinality(T) \in 1 .. n
  <2>1. Greatest(T) \in T /\ T \ {Greatest(T)} \in SUBSET (1 .. n)
    BY <1>1, <1>6, GreatestFacts
  <2>2. Cardinality(T \ {Greatest(T)}) = Cardinality(T) - 1
    BY <1>5, <2>1, FS_RemoveElement
  <2>3. Cardinality(T \ {Greatest(T)}) \in 0 .. n /\ Cardinality(T) \in 0 .. n
    BY <1>5, <2>1
  <2>4. QED BY <1>1, <2>1, <2>2, <2>3
<1>7. ASSUME NEW T \in SUBSET (1 .. n), T # {}, Good(Cardinality(T) - 1)
      PROVE  May(it[T \ {Greatest(T)}])
  <2>1. PICK U : U = T \ {Greatest(T)}
    OBVIOUS
  <2>2. U \in SUBSET (1 .. n) /\ Cardinality(U) = Cardinality(T) - 1 /\ Cardinality(T) \in 1 .. n
    BY <1>6, <1>7, <2>1
  <2>3. Height(it[U]) = Height(start) + (Cardinality(T) - 1)
    BY <1>7, <2>2
  <2>4. Height(it[U]) # Len(t.layers)
    BY <1>1, <2>2, <2>3
  <2>5. Passed(t, it[U], net, output)
    BY <1>3, <2>2
  <2>6. QED BY <2>1, <2>4, <2>5
<1>8. Wrong = {}
  <2>1. ASSUME NEW k \in Wrong PROVE \E m \in Wrong : m < k
    <3>1. PICK T \in SUBSET (1 .. n) : Cardinality(T) = k /\ Height(it[T]) # Height(start) + k
      OBVIOUS
    <3>2. T # {}
      <4>1. ASSUME T = {} PROVE FALSE
        <5>1. it[T] = start /\ k = 0
          <6>1. Cardinality({}) = 0
            BY FS_EmptySet
          <6>2. QED BY <1>4, <3>1, <4>1, <6>1
        <5>2. QED BY <1>1, <3>1, <5>1
      <4>2. QED BY <4>1
    <3>3. PICK U : U = T \ {Greatest(T)}
      OBVIOUS
    <3>4. U \in SUBSET (1 .. n) /\ Cardinality(U) = k - 1 /\ k \in 1 .. n
      BY <1>6, <3>1, <3>2, <3>3
    <3>5. SUFFICES ASSUME Good(k - 1) PROVE FALSE
      <4>1. k - 1 \in 0 .. n /\ k - 1 < k
        BY <1>1, <3>4
      <4>2. ~Good(k - 1) => k - 1 \in Wrong
        BY <4>1
      <4> HIDE DEF Good, Wrong
      <4>3. QED BY <4>1, <4>2
    <3>6. May(it[U])
      BY <1>7, <3>1, <3>2, <3>3, <3>5
    <3>7. it[T] = Climb(it[U])
      BY <1>4, <3>2, <3>3, <3>6
    <3>8. Height(it[T]) = Height(it[U]) + 1
      BY <3>6, <3>7, ClimbFacts
    <3>9. Height(it[U]) = Height(start) + (k - 1)
      BY <3>4, <3>5
    <3>10. QED BY <1>1, <3>1, <3>4, <3>8, <3>9
  <2>2. Wrong \in SUBSET Nat
    OBVIOUS
  <2> HIDE DEF Wrong
  <2>3. QED BY <2>1, <2>2, Descent
<1>9. it = Code(it)
  <2>1. ASSUME NEW T \in SUBSET (1 .. n)
        PROVE  it[T] = IF T = {} THEN start ELSE Climb(it[T \ {Greatest(T)}])
    <3>1. T # {} => May(it[T \ {Greatest(T)}])
      <4>1. T # {} => Cardinality(T) - 1 \in 0 .. n
        <5>1. T # {} => Cardinality(T) \in 1 .. n
          BY <1>6
        <5>2. QED BY <1>1, <5>1
      <4>2. T # {} => Good(Cardinality(T) - 1)
        BY <1>8, <4>1
      <4> HIDE DEF Good, May, Wrong
      <4>3. QED BY <1>7, <4>2
    <3> HIDE DEF May
    <3>2. QED BY <1>4, <3>1
  <2>2. it = [T \in SUBSET (1 .. n) |-> it[T]]
    <3> HIDE DEF Step, D
    <3> QED BY <1>3
  <2> HIDE DEF Step, D
  <2>3. it = [T \in SUBSET (1 .. n) |-> IF T = {} THEN start ELSE Climb(it[T \ {Greatest(T)}])]
    BY ONLY <2>1, <2>2
  <2>4. QED BY ONLY <2>3 DEF Greatest, Max
<1>10. PICK iter : u = iter[1 .. n] /\ iter = Code(iter)
  <2>1. u = (CHOOSE f : f = Code(f))[1 .. n]
    <3>1. [i \in 1 .. n |-> i] = [i \in 1 .. n |-> i] /\ DOMAIN [i \in 1 .. n |-> i] = 1 .. n
      OBVIOUS
    <3>2. QED BY <3>1 DEF Climbed, FoldLeft, MapThenFoldSet, Climb
  <2> HIDE DEF Code
  <2>2. (CHOOSE f : f = Code(f)) = Code(CHOOSE f : f = Code(f))
    BY <1>9
  <2>3. QED BY <2>1, <2>2
<1>11. ASSUME NEW T \in SUBSET (1 .. n)
       PROVE  iter[T] = IF T = {} THEN start ELSE Climb(iter[T \ {Greatest(T)}])
  BY <1>10 DEF Greatest, Max
<1> HIDE DEF Code, Step
<1> DEFINE Fine(k) == Passed(t, iter[1 .. k], net, output) /\ Height(iter[1 .. k]) = Height(start) + k
           Off == {k \in 0 .. n : ~Fine(k)}
<1>12. Off = {}
  <2>1. ASSUME NEW k \in Off PROVE \E m \in Off : m < k
    <3>1. k # 0
      <4>1. ASSUME k = 0 PROVE FALSE
        <5>1. 1 .. k = {} /\ {} \in SUBSET (1 .. n)
          BY <4>1
        <5>2. iter[1 .. k] = start
          BY <1>11, <5>1
        <5>3. QED BY <1>1, <4>1, <5>2
      <4>2. QED BY <4>1
    <3>2. k \in 1 .. n /\ k - 1 \in 0 .. n /\ k - 1 < k
      BY <1>1, <3>1
    <3>3. PICK T, U : T = 1 .. k /\ U = 1 .. k - 1
      OBVIOUS
    <3>4. T \in SUBSET (1 .. n) /\ T # {} /\ T \ {Greatest(T)} = U
      <4>1. 1 .. k \in SUBSET (1 .. n) /\ 1 .. k # {} /\ (1 .. k) \ {Greatest(1 .. k)} = 1 .. k - 1
        BY ONLY <1>1, <3>2, FirstPositions
      <4>2. QED BY ONLY <3>3, <4>1
    <3>5. iter[T] = Climb(iter[U])
      BY <1>11, <3>4
    <3>6. SUFFICES ASSUME Fine(k - 1) PROVE FALSE
      <4>1. ~Fine(k - 1) => k - 1 \in Off
        BY <3>2
      <4> HIDE DEF Fine, Off
      <4>2. QED BY <3>2, <4>1
    <3>7. Passed(t, iter[U], net, output) /\ Height(iter[U]) = Height(start) + (k - 1)
      BY <3>3, <3>6
    <3>8. Height(iter[U]) # Len(t.layers)
      BY <1>1, <3>2, <3>7
    <3>9. Passed(t, iter[T], net, output) /\ Height(iter[T]) = Height(iter[U]) + 1
      BY <3>5, <3>7, <3>8, ClimbFacts
    <3>10. Fine(k)
      BY <1>1, <3>2, <3>3, <3>7, <3>9
    <3>11. QED BY <3>10
  <2>2. Off \in SUBSET Nat
    OBVIOUS
  <2> HIDE DEF Off
  <2>3. QED BY <2>1, <2>2, Descent
<1>13. Fine(n)
  <2>1. n \in 0 .. n
    BY <1>1
  <2>2. QED BY <1>12, <2>1
<1>14. QED BY <1>1, <1>10, <1>13

\* passThroughToTop: the net reaches the top layer, through pass-throughs only.
LEMMA PassThroughFacts ==
    ASSUME NEW t, TreeOK(t), NEW net \in Vertices, NEW output \in 0 .. Len(t.nodes),
           Len(t.layers) >= 1, output # Bottom => t.nodes[output].out = net,
           NEW u, u = PassThroughToTop(t, net, output)
    PROVE  /\ TreeOK(u) /\ Extends(t, u)
           /\ \A n \in Len(t.nodes) + 1 .. Len(u.nodes) : ~u.nodes[n].invert
           /\ TopOutput(u, output) \in 1 .. Len(u.nodes)
           /\ IF InTopLayer(t, output) THEN u = t
              ELSE /\ Passed(t, u, net, output) /\ Height(u) = Len(t.layers)
                   /\ TopOutput(u, output) = Len(u.nodes)
           /\ u.nodes[TopOutput(u, output)].out = net
           /\ LayerOf(u, TopOutput(u, output)) = Len(t.layers)
<1>1. t \in Trees /\ Homed(t) /\ Len(t.layers) \in Nat /\ Len(t.nodes) \in Nat
  BY TreeParts DEF TreeOK, Shaped
<1>2. CASE InTopLayer(t, output)
  <2>1. u = t /\ output \in 1 .. Len(t.nodes)
    BY <1>1, <1>2 DEF PassThroughToTop, InTopLayer, Bottom
  <2>2. Len(t.nodes) + 1 .. Len(u.nodes) = {}
    BY <1>1, <2>1
  <2>3. TopOutput(u, output) = output
    BY <1>2, <2>1 DEF TopOutput
  <2>4. u.nodes[output].out = net /\ LayerOf(u, output) = Len(t.layers)
    BY <1>2, <2>1 DEF InTopLayer
  <2>5. QED BY <1>1, <1>2, <2>1, <2>2, <2>3, <2>4, ExtendsSelf
<1>3. CASE ~InTopLayer(t, output)
  <2>1. PICK start : start = StartPassThrough(t, net, output)
    OBVIOUS
  <2>2. output # Bottom => LayerOf(t, output) # Len(t.layers)
    BY <1>3 DEF InTopLayer
  <2>3. Passed(t, start, net, output) /\ Height(start) \in 1 .. Len(t.layers)
    BY <2>1, <2>2, StartFacts DEF Height
  <2>4. PICK n : n = Len(t.layers) - Height(start)
    OBVIOUS
  <2>5. u = Climbed(start, n)
    BY <1>3, <2>1, <2>4 DEF PassThroughToTop, Height, Climbed
  <2>6. Passed(t, u, net, output) /\ Height(u) = Len(t.layers)
    BY <1>1, <2>3, <2>4, <2>5, ClimbsFacts
  <2>7. \A k \in Len(t.nodes) + 1 .. Len(u.nodes) : ~u.nodes[k].invert
    BY <2>6 DEF Passed, PassNode
  <2>8. Len(u.nodes) \in Nat /\ Len(t.nodes) < Len(u.nodes)
    BY <2>6, TreeParts DEF Passed, TreeOK, Shaped
  <2>9. TopOutput(u, output) \in 1 .. Len(u.nodes)
    <3>1. output # Bottom => output \in 1 .. Len(u.nodes)
      BY <1>1, <2>8 DEF Bottom
    <3>2. Len(u.nodes) \in 1 .. Len(u.nodes)
      BY <1>1, <2>8
    <3>3. QED BY <3>1, <3>2 DEF TopOutput, InTopLayer
  <2>10. TopOutput(u, output) = Len(u.nodes)
    <3>1. output # Bottom => LayerOf(u, output) = LayerOf(t, output) /\ Len(u.layers) = Len(t.layers)
      BY <1>1, <2>6 DEF Passed, Extends, Bottom
    <3>2. ~InTopLayer(u, output)
      BY <2>2, <3>1 DEF InTopLayer
    <3>3. QED BY <3>2 DEF TopOutput
  <2>11. u.nodes[Len(u.nodes)].out = net
    <3>1. Len(u.nodes) \in Len(t.nodes) + 1 .. Len(u.nodes)
      BY <1>1, <2>8
    <3>2. u.nodes[Len(u.nodes)] = PassNode(net)
      BY <2>6, <3>1 DEF Passed
    <3>3. QED BY <3>2 DEF PassNode
  <2>12. LayerOf(u, Len(u.nodes)) = Len(t.layers)
    BY <2>6 DEF Height
  <2>13. QED BY <1>3, <2>6, <2>7, <2>9, <2>10, <2>11, <2>12 DEF Passed
<1>4. QED BY <1>2, <1>3

\* The least of some numbers is one of them.
LEMMA MinIn ==
    ASSUME NEW T \in SUBSET Nat, T # {}
    PROVE  Min(T) \in T /\ \A m \in T : Min(T) <= m
<1>1. PICK n \in T : \A m \in T : n <= m
  BY LeastNumber
<1>2. QED BY <1>1 DEF Min

\* A netlist's vertices are finitely many numbers.
LEMMA NetlistFacts ==
    ASSUME Attached(netlist)
    PROVE  /\ netlist.vertices \in SUBSET Vertices /\ IsFiniteSet(netlist.vertices)
           /\ netlist.vertices \in SUBSET Nat /\ netlist.vertices # {}
           /\ netlist.edges \in [Vertices \X Vertices -> Nat]
           /\ \A i \in InIfaces \cup OutIfaces : netlist.ifaceMap[i] \in netlist.vertices
           /\ \A v : Graph!Targets(netlist, v) \in SUBSET netlist.vertices
           /\ \A v : Graph!Sources(netlist, v) \in SUBSET netlist.vertices
           /\ \A v, w : w \in Graph!Targets(netlist, v) <=>
                            w \in netlist.vertices /\ netlist.edges[<<v, w>>] > 0
           /\ \A v, w \in netlist.vertices : w \in Graph!Targets(netlist, v) <=> v \in Graph!Sources(netlist, w)
<1>1. netlist \in [vertices: SUBSET Vertices, edges: [Vertices \X Vertices -> Nat],
                   ifaceMap: [Graph!Ifaces -> Vertices]]
  BY DEF Attached, Graph!Graphs, Vertices
<1>2. netlist.vertices \in SUBSET Vertices /\ netlist.edges \in [Vertices \X Vertices -> Nat]
  BY <1>1
<1>3. IsFiniteSet(netlist.vertices) /\ netlist.vertices \in SUBSET Nat
  <2>1. IsFiniteSet(Vertices) /\ Vertices \in SUBSET Nat
    BY VerticesFinite
  <2>2. QED BY <1>2, <2>1, FS_Subset
<1>4. \A i \in InIfaces \cup OutIfaces : netlist.ifaceMap[i] \in netlist.vertices
  BY DEF Attached, Graph!Ifaces
<1>5. netlist.vertices # {}
  BY DEF Attached
<1>6. \A v, w : w \in Graph!Targets(netlist, v) <=>
                    w \in netlist.vertices /\ netlist.edges[<<v, w>>] > 0
  BY DEF Graph!Targets
<1>7. \A v, w : w \in Graph!Sources(netlist, v) <=>
                    w \in netlist.vertices /\ netlist.edges[<<w, v>>] > 0
  BY DEF Graph!Sources
<1>8. QED BY <1>2, <1>3, <1>4, <1>5, <1>6, <1>7

\* One step further along the inverters.
Follow(R) == R \cup UNION {Graph!Targets(netlist, u) : u \in R}

\* Following the inverters as often as there are vertices comes to what is reached,
\* and no further.
LEMMA ReachableFacts ==
    ASSUME Attached(netlist), NEW from \in SUBSET netlist.vertices
    PROVE  /\ from \subseteq Reachable(from) /\ Reachable(from) \in SUBSET netlist.vertices
           /\ Closed(netlist, Reachable(from))
           /\ \A S \in SUBSET netlist.vertices :
                 from \subseteq S /\ Closed(netlist, S) => Reachable(from) \subseteq S
<1>1. PICK X : X = netlist.vertices
  OBVIOUS
<1>2. IsFiniteSet(X) /\ \A v : Graph!Targets(netlist, v) \in SUBSET X
  BY <1>1, NetlistFacts
<1> DEFINE D == SUBSET X
           Step == [a \in X \X D |-> Follow(a[2])]
           Code(i) == [T \in SUBSET X |-> IF T = {} THEN from
                         ELSE Follow(i[T \ {CHOOSE x \in T : TRUE}])]
<1>3. ASSUME NEW R \in SUBSET X PROVE Follow(R) \in SUBSET X /\ R \subseteq Follow(R)
  BY <1>2 DEF Follow
<1>4. Step \in [X \X D -> D]
  BY <1>3
<1>5. PICK it \in [SUBSET X -> D] : IsFold(it, X, from, Step)
  <2>1. from \in D
    BY <1>1
  <2> HIDE DEF Step, D
  <2> QED BY <1>2, <1>4, <2>1, FoldExists
<1>6. ASSUME NEW T \in SUBSET X, T # {} PROVE AnyOf(T) \in T /\ T \ {AnyOf(T)} \in SUBSET X
  BY <1>6 DEF AnyOf
<1>7. it = Code(it)
  <2>1. ASSUME NEW T \in SUBSET X
        PROVE  it[T] = IF T = {} THEN from ELSE Follow(it[T \ {AnyOf(T)}])
    <3>1. it[T] = IF T = {} THEN from ELSE Step[<<AnyOf(T), it[T \ {AnyOf(T)}]>>]
      <4> HIDE DEF Step, D
      <4> QED BY <1>5 DEF IsFold
    <3>2. ASSUME T # {} PROVE <<AnyOf(T), it[T \ {AnyOf(T)}]>> \in X \X D
      <4> HIDE DEF Step, D
      <4> QED BY <1>5, <1>6, <3>2
    <3>3. ASSUME T # {}
          PROVE  Step[<<AnyOf(T), it[T \ {AnyOf(T)}]>>] = Follow(it[T \ {AnyOf(T)}])
      <4> HIDE DEF D
      <4> QED BY <3>2, <3>3
    <3> HIDE DEF Step
    <3>4. QED BY <3>1, <3>3
  <2>2. it = [T \in SUBSET X |-> it[T]]
    <3> HIDE DEF Step, D
    <3> QED BY <1>5
  <2> HIDE DEF Step, D
  <2>3. it = [T \in SUBSET X |-> IF T = {} THEN from ELSE Follow(it[T \ {AnyOf(T)}])]
    BY ONLY <2>1, <2>2
  <2>4. QED BY ONLY <2>3 DEF AnyOf
<1>8. PICK iter : Reachable(from) = iter[X] /\ iter = Code(iter)
  <2>1. Reachable(from) = (CHOOSE i : i = Code(i))[X]
    BY <1>1 DEF Reachable, FoldSet, MapThenFoldSet, Follow
  <2> HIDE DEF Code
  <2>2. (CHOOSE i : i = Code(i)) = Code(CHOOSE i : i = Code(i))
    BY <1>7
  <2>3. QED BY <2>1, <2>2
<1>9. ASSUME NEW T \in SUBSET X
      PROVE  iter[T] = IF T = {} THEN from ELSE Follow(iter[T \ {AnyOf(T)}])
  BY <1>8 DEF AnyOf
<1> HIDE DEF Code, Step
<1> DEFINE Fine(T) ==
             /\ iter[T] \in SUBSET X /\ from \subseteq iter[T]
             /\ Closed(netlist, iter[T]) \/ Cardinality(T) <= Cardinality(iter[T])
             /\ \A S \in SUBSET X : from \subseteq S /\ Closed(netlist, S) => iter[T] \subseteq S
           Wrong == {n \in 0 .. Cardinality(X) : \E T \in SUBSET X : Cardinality(T) = n /\ ~Fine(T)}
<1>10. ASSUME NEW T \in SUBSET X
       PROVE  IsFiniteSet(T) /\ Cardinality(T) \in Nat /\ Cardinality(T) <= Cardinality(X)
              /\ Cardinality(X) \in Nat
  <2>1. IsFiniteSet(T) /\ Cardinality(T) <= Cardinality(X)
    BY <1>2, FS_Subset
  <2>2. QED BY <1>2, <2>1, FS_CardinalityType
<1>11. ASSUME NEW n \in Wrong PROVE \E m \in Wrong : m < n
  <2>1. PICK T \in SUBSET X : Cardinality(T) = n /\ ~Fine(T)
    BY <1>11
  <2>2. T # {}
    <3>1. ASSUME T = {} PROVE FALSE
      <4>1. iter[T] = from
        BY <1>9, <3>1
      <4>2. Cardinality(T) = 0
        BY <3>1, FS_EmptySet
      <4>3. from \in SUBSET X /\ Cardinality(from) \in Nat
        BY <1>1, <1>10
      <4>4. QED BY <2>1, <4>1, <4>2, <4>3
    <3>2. QED BY <3>1
  <2>3. PICK a, U : a = AnyOf(T) /\ U = T \ {a}
    OBVIOUS
  <2>4. a \in T /\ U \in SUBSET X
    BY <1>6, <2>2, <2>3
  <2>5. iter[T] = Follow(iter[U])
    BY <1>9, <2>2, <2>3
  <2>6. Cardinality(U) = n - 1 /\ Cardinality(U) \in 0 .. Cardinality(X) /\ n \in Nat
    <3>1. IsFiniteSet(T) /\ Cardinality(T) \in Nat /\ Cardinality(U) \in Nat
          /\ Cardinality(U) <= Cardinality(X) /\ Cardinality(X) \in Nat
      BY <1>10, <2>4
    <3>2. Cardinality(U) = Cardinality(T) - 1
      BY <2>3, <2>4, <3>1, FS_RemoveElement
    <3>3. QED BY <2>1, <3>1, <3>2
  <2>7. SUFFICES ASSUME Fine(U) PROVE FALSE
    <3>1. ~Fine(U) => n - 1 \in Wrong
      BY <2>4, <2>6
    <3>2. n - 1 < n
      BY <2>6
    <3> HIDE DEF Fine, Wrong
    <3>3. QED BY <3>1, <3>2
  <2>8. PICK R : R = iter[U]
    OBVIOUS
  <2>9. R \in SUBSET X /\ iter[T] = Follow(R) /\ Follow(R) \in SUBSET X /\ R \subseteq Follow(R)
    BY <1>3, <2>5, <2>7, <2>8
  <2>10. \A S \in SUBSET X : from \subseteq S /\ Closed(netlist, S) => Follow(R) \subseteq S
    <3>1. ASSUME NEW S \in SUBSET X, from \subseteq S, Closed(netlist, S) PROVE Follow(R) \subseteq S
      <4>1. R \subseteq S
        BY <2>7, <2>8, <3>1
      <4>2. QED BY <3>1, <4>1 DEF Follow, Closed
    <3>2. QED BY <3>1
  <2>11. Closed(netlist, Follow(R)) \/ Cardinality(T) <= Cardinality(Follow(R))
    <3>1. CASE Closed(netlist, R)
      <4>1. Follow(R) = R
        BY <3>1 DEF Follow, Closed
      <4>2. QED BY <3>1, <4>1
    <3>2. CASE ~Closed(netlist, R)
      <4>1. Cardinality(U) <= Cardinality(R)
        BY <2>7, <2>8, <3>2
      <4>2. PICK w \in Follow(R) : w \notin R
        BY <3>2 DEF Follow, Closed
      <4>3. R \cup {w} \in SUBSET X /\ R \cup {w} \subseteq Follow(R)
        BY <2>9, <4>2
      <4>4. Cardinality(R \cup {w}) = Cardinality(R) + 1 /\ Cardinality(R) \in Nat
        BY <1>10, <2>9, <4>2, FS_AddElement
      <4>5. Cardinality(R \cup {w}) <= Cardinality(Follow(R)) /\ Cardinality(Follow(R)) \in Nat
        <5>1. IsFiniteSet(Follow(R)) /\ Cardinality(Follow(R)) \in Nat
          BY <1>10, <2>9
        <5>2. R \cup {w} \in SUBSET Follow(R)
          BY <4>3
        <5>3. Cardinality(R \cup {w}) <= Cardinality(Follow(R))
          BY ONLY <5>1, <5>2, FS_Subset
        <5>4. QED BY <5>1, <5>3
      <4>6. QED BY <2>1, <2>6, <4>1, <4>4, <4>5
    <3>3. QED BY <3>1, <3>2
  <2>12. from \subseteq Follow(R)
    BY <2>7, <2>8, <2>9
  <2>13. Fine(T)
    BY <2>9, <2>10, <2>11, <2>12
  <2>14. QED BY <2>1, <2>13
<1>12. Wrong = {}
  <2>1. Wrong \in SUBSET Nat
    OBVIOUS
  <2> HIDE DEF Wrong
  <2>2. QED BY <1>11, <2>1, Descent
<1>13. Fine(X)
  <2>1. Cardinality(X) \in 0 .. Cardinality(X) /\ X \in SUBSET X
    BY <1>10
  <2>2. QED BY <1>12, <2>1
<1>14. Closed(netlist, iter[X])
  <2>1. SUFFICES ASSUME Cardinality(X) <= Cardinality(iter[X]) PROVE Closed(netlist, iter[X])
    BY <1>13
  <2>2. iter[X] = X
    <3>1. iter[X] \in SUBSET X
      BY <1>13
    <3>2. Cardinality(iter[X]) <= Cardinality(X) /\ Cardinality(iter[X]) \in Nat /\ Cardinality(X) \in Nat
      BY <1>10, <3>1
    <3>3. Cardinality(X) = Cardinality(iter[X])
      BY <2>1, <3>2
    <3>4. QED BY ONLY <1>2, <3>1, <3>3, FS_Subset
  <2>3. QED BY <1>2, <2>2 DEF Closed
<1>15. QED BY <1>1, <1>8, <1>13, <1>14

\* One inverter further back.
Back(w) ==
    IF w.at \in w.seen \/ Graph!Sources(netlist, w.at) = {} THEN w
    ELSE [at |-> Min(Graph!Sources(netlist, w.at)), seen |-> w.seen \cup {w.at}]

\* Walking back from a vertex that is not reached never gets to one that is.
LEMMA WalkBackStays ==
    ASSUME Attached(netlist), NEW R \in SUBSET netlist.vertices, Closed(netlist, R),
           NEW v \in netlist.vertices \ R
    PROVE  WalkBack(v) \in netlist.vertices \ R
<1>1. PICK X : X = netlist.vertices
  OBVIOUS
<1>2. IsFiniteSet(X) /\ X \in SUBSET Nat /\ \A u : Graph!Sources(netlist, u) \in SUBSET X
  BY <1>1, NetlistFacts
<1> DEFINE L == X \ R
           D == [at: L, seen: SUBSET L]
           base == [at |-> v, seen |-> {}]
           Step == [a \in X \X D |-> Back(a[2])]
           Code(i) == [T \in SUBSET X |-> IF T = {} THEN base
                         ELSE Back(i[T \ {CHOOSE x \in T : TRUE}])]
<1>3. ASSUME NEW w \in D PROVE Back(w) \in D
  <2>1. w.at \in L /\ w.seen \in SUBSET L
    OBVIOUS
  <2>2. Graph!Sources(netlist, w.at) \in SUBSET L
    <3>1. ASSUME NEW u \in Graph!Sources(netlist, w.at), u \in R PROVE FALSE
      <4>1. w.at \in Graph!Targets(netlist, u)
        BY <1>1, <1>2, <2>1, <3>1, NetlistFacts
      <4>2. QED BY <2>1, <3>1, <4>1 DEF Closed
    <3>2. QED BY <1>2, <3>1
  <2>3. CASE w.at \in w.seen \/ Graph!Sources(netlist, w.at) = {}
    BY <2>3 DEF Back
  <2>4. CASE ~(w.at \in w.seen \/ Graph!Sources(netlist, w.at) = {})
    <3>1. Min(Graph!Sources(netlist, w.at)) \in Graph!Sources(netlist, w.at)
      BY <1>2, <2>4, MinIn
    <3>2. QED BY <2>1, <2>2, <2>4, <3>1 DEF Back
  <2>5. QED BY <2>3, <2>4
<1>4. Step \in [X \X D -> D]
  <2> HIDE DEF D
  <2> QED BY <1>3
<1>5. PICK it \in [SUBSET X -> D] : IsFold(it, X, base, Step)
  <2>1. base \in D
    BY <1>1
  <2> HIDE DEF Step, D, base
  <2> QED BY <1>2, <1>4, <2>1, FoldExists
<1>6. ASSUME NEW T \in SUBSET X, T # {} PROVE AnyOf(T) \in T /\ T \ {AnyOf(T)} \in SUBSET X
  BY <1>6 DEF AnyOf
<1>7. it = Code(it)
  <2>1. ASSUME NEW T \in SUBSET X
        PROVE  it[T] = IF T = {} THEN base ELSE Back(it[T \ {AnyOf(T)}])
    <3>1. it[T] = IF T = {} THEN base ELSE Step[<<AnyOf(T), it[T \ {AnyOf(T)}]>>]
      <4> HIDE DEF Step, D, base
      <4> QED BY <1>5 DEF IsFold
    <3>2. ASSUME T # {} PROVE <<AnyOf(T), it[T \ {AnyOf(T)}]>> \in X \X D
      <4> HIDE DEF Step, D
      <4> QED BY <1>5, <1>6, <3>2
    <3>3. ASSUME T # {}
          PROVE  Step[<<AnyOf(T), it[T \ {AnyOf(T)}]>>] = Back(it[T \ {AnyOf(T)}])
      <4> HIDE DEF D
      <4> QED BY <3>2, <3>3
    <3> HIDE DEF Step, base
    <3>4. QED BY <3>1, <3>3
  <2>2. it = [T \in SUBSET X |-> it[T]]
    <3> HIDE DEF Step, D
    <3> QED BY <1>5
  <2> HIDE DEF Step, D, base
  <2>3. it = [T \in SUBSET X |-> IF T = {} THEN base ELSE Back(it[T \ {AnyOf(T)}])]
    BY ONLY <2>1, <2>2
  <2>4. QED BY ONLY <2>3 DEF AnyOf
<1>8. PICK iter : WalkBack(v) = iter[X].at /\ iter = Code(iter)
  <2>1. WalkBack(v) = (CHOOSE i : i = Code(i))[X].at
    BY <1>1 DEF WalkBack, FoldSet, MapThenFoldSet, Back
  <2> HIDE DEF Code
  <2>2. (CHOOSE i : i = Code(i)) = Code(CHOOSE i : i = Code(i))
    BY <1>7
  <2>3. QED BY <2>1, <2>2
<1>9. ASSUME NEW T \in SUBSET X
      PROVE  iter[T] = IF T = {} THEN base ELSE Back(iter[T \ {AnyOf(T)}])
  BY <1>8 DEF AnyOf
<1> HIDE DEF Code, Step
<1> DEFINE Wrong == {n \in 0 .. Cardinality(X) : \E T \in SUBSET X : Cardinality(T) = n /\ iter[T] \notin D}
<1>10. ASSUME NEW T \in SUBSET X
       PROVE  IsFiniteSet(T) /\ Cardinality(T) \in 0 .. Cardinality(X)
  <2>1. IsFiniteSet(T) /\ Cardinality(T) <= Cardinality(X)
    BY <1>2, FS_Subset
  <2>2. QED BY <1>2, <2>1, FS_CardinalityType
<1>11. base \in D
  BY <1>1
<1> HIDE DEF D, base
<1>12. ASSUME NEW n \in Wrong PROVE \E m \in Wrong : m < n
  <2>1. PICK T \in SUBSET X : Cardinality(T) = n /\ iter[T] \notin D
    BY <1>12
  <2>2. T # {}
    BY <1>9, <1>11, <2>1
  <2>3. PICK a, U : a = AnyOf(T) /\ U = T \ {a}
    OBVIOUS
  <2>4. a \in T /\ U \in SUBSET X
    BY <1>6, <2>2, <2>3
  <2>5. iter[U] \notin D
    <3>1. iter[T] = Back(iter[U])
      BY <1>9, <2>2, <2>3
    <3>2. QED BY <1>3, <2>1, <3>1
  <2>6. Cardinality(U) = n - 1 /\ Cardinality(U) \in 0 .. Cardinality(X) /\ n \in Nat
    <3>1. IsFiniteSet(T) /\ Cardinality(T) \in 0 .. Cardinality(X)
          /\ Cardinality(U) \in 0 .. Cardinality(X)
      BY <1>10, <2>4
    <3>2. Cardinality(U) = Cardinality(T) - 1
      BY <2>3, <2>4, <3>1, FS_RemoveElement
    <3>3. QED BY <2>1, <3>1, <3>2
  <2>7. n - 1 \in Wrong /\ n - 1 < n
    BY <2>4, <2>5, <2>6
  <2> HIDE DEF Wrong
  <2>8. QED BY <2>7
<1>13. Wrong = {}
  <2>1. Wrong \in SUBSET Nat
    OBVIOUS
  <2> HIDE DEF Wrong
  <2>2. QED BY <1>12, <2>1, Descent
<1>14. iter[X] \in D
  <2>1. Cardinality(X) \in 0 .. Cardinality(X)
    BY <1>10
  <2>2. QED BY <1>13, <2>1
<1>15. iter[X].at \in L
  BY <1>14 DEF D
<1>16. QED BY <1>1, <1>8, <1>15

\* A loose vertex, and where walking back from it ends, are not reached.
LEMMA LooseFacts ==
    ASSUME Attached(netlist), NEW from \in SUBSET netlist.vertices,
           netlist.vertices \ Reachable(from) # {},
           NEW v, v = WalkBack(LooseStart(netlist.vertices \ Reachable(from)))
    PROVE  v \in netlist.vertices /\ v \notin from
<1>1. /\ from \subseteq Reachable(from) /\ Reachable(from) \in SUBSET netlist.vertices
      /\ Closed(netlist, Reachable(from))
  BY ReachableFacts
<1>2. PICK loose : loose = netlist.vertices \ Reachable(from)
  OBVIOUS
<1>3. loose \in SUBSET Nat /\ loose # {}
  BY <1>2, NetlistFacts
<1>4. LooseStart(loose) \in loose
  <2>1. PICK O : O = {u \in loose : Graph!IfacesAt(netlist, u, OutIfaces) # {}}
    OBVIOUS
  <2>2. LooseStart(loose) = Min(IF O # {} THEN O ELSE loose)
    BY <2>1 DEF LooseStart
  <2>3. (IF O # {} THEN O ELSE loose) \in SUBSET Nat /\ (IF O # {} THEN O ELSE loose) # {}
        /\ (IF O # {} THEN O ELSE loose) \subseteq loose
    BY <1>3, <2>1
  <2>4. QED BY <2>2, <2>3, MinIn
<1>5. WalkBack(LooseStart(loose)) \in netlist.vertices \ Reachable(from)
  BY <1>1, <1>2, <1>4, WalkBackStays
<1>6. QED BY <1>1, <1>2, <1>5

\* A group that reads a net at an output is still there in what has grown.
LEMMA GroupStays ==
    ASSUME NEW t, NEW u, Extends(t, u), NEW v, NEW k, InputToGroup(t, v, k) # {}
    PROVE  InputToGroup(u, v, k) # {}
<1>1. PICK p \in InputToGroup(t, v, k) : TRUE
  OBVIOUS
<1>2. p \in Places(t)
  BY <1>1 DEF InputToGroup, Child
<1>3. PICK q \in Places(u) : /\ q[1] = p[1] /\ GroupAt(u, q).net = GroupAt(t, p).net
                             /\ GroupAt(u, q).parent = GroupAt(t, p).parent
  BY <1>2 DEF Extends
<1>4. q \in InputToGroup(u, v, k)
  BY <1>1, <1>3 DEF InputToGroup, Child
<1>5. QED BY <1>4

\* The inverters from one net to another are finitely many.
LEMMA MadeFinite ==
    ASSUME NEW t, t \in Trees, NEW v, NEW w
    PROVE  IsFiniteSet(Made(t, v, w)) /\ Cardinality(Made(t, v, w)) \in Nat
           /\ Made(t, v, w) \in SUBSET (1 .. Len(t.nodes)) /\ Len(t.nodes) \in Nat
<1>1. Len(t.nodes) \in Nat
  BY TreeParts
<1>2. PICK S : S = 1 .. Len(t.nodes)
  OBVIOUS
<1>3. IsFiniteSet(S)
  <2>1. 1 \in Int /\ Len(t.nodes) \in Int
    BY <1>1
  <2>2. IsFiniteSet(1 .. Len(t.nodes))
    BY ONLY <2>1, FS_Interval
  <2>3. QED BY <1>2, <2>2
<1>4. Made(t, v, w) \in SUBSET S
  BY <1>2 DEF Made
<1>5. IsFiniteSet(Made(t, v, w))
  BY ONLY <1>3, <1>4, FS_Subset
<1>6. QED BY <1>1, <1>2, <1>4, <1>5, FS_CardinalityType

\* A new inverter counts for the nets it is between, and only for them.
LEMMA MadeOneMore ==
    ASSUME NEW t, t \in Trees, NEW u, u \in Trees, NEW a, NEW b,
           u.nodes = Append(t.nodes, [invert |-> TRUE, in |-> a, out |-> b]), NEW v, NEW w
    PROVE  Cardinality(Made(u, v, w)) = Cardinality(Made(t, v, w)) + IF v = a /\ w = b THEN 1 ELSE 0
<1>1. PICK new : new = Len(t.nodes) + 1
  OBVIOUS
<1>2. t.nodes \in Seq(NodeRecords) /\ Len(t.nodes) \in Nat
  BY TreeParts
<1>3. /\ Len(u.nodes) = new /\ u.nodes[new] = [invert |-> TRUE, in |-> a, out |-> b]
      /\ \A n \in 1 .. Len(t.nodes) : u.nodes[n] = t.nodes[n]
  <2>1. PICK s, e : s = t.nodes /\ e = [invert |-> TRUE, in |-> a, out |-> b]
    OBVIOUS
  <2>2. s \in Seq(NodeRecords) /\ Len(s) \in Nat /\ u.nodes = Append(s, e)
    BY <1>2, <2>1
  <2>3. Len(Append(s, e)) = Len(s) + 1 /\ Append(s, e)[Len(s) + 1] = e
        /\ \A n \in 1 .. Len(s) : Append(s, e)[n] = s[n]
    BY ONLY <2>2
  <2>4. QED BY <1>1, <2>1, <2>2, <2>3
<1>4. 1 .. Len(u.nodes) = (1 .. Len(t.nodes)) \cup {new} /\ new \notin 1 .. Len(t.nodes)
  BY <1>1, <1>2, <1>3
<1>5. IsFiniteSet(Made(t, v, w)) /\ Cardinality(Made(t, v, w)) \in Nat
      /\ Made(t, v, w) \in SUBSET (1 .. Len(t.nodes))
  BY MadeFinite
<1>6. CASE v = a /\ w = b
  <2>1. Made(u, v, w) = Made(t, v, w) \cup {new}
    BY <1>3, <1>4, <1>6 DEF Made
  <2>2. new \notin Made(t, v, w)
    BY <1>4, <1>5
  <2>3. Cardinality(Made(t, v, w) \cup {new}) = Cardinality(Made(t, v, w)) + 1
    BY <1>5, <2>2, FS_AddElement
  <2>4. QED BY <1>6, <2>1, <2>3
<1>7. CASE ~(v = a /\ w = b)
  <2>1. Made(u, v, w) = Made(t, v, w)
    BY <1>3, <1>4, <1>7 DEF Made
  <2>2. QED BY <1>5, <1>7, <2>1
<1>8. QED BY <1>6, <1>7

\* New nodes that are no inverters do not count.
LEMMA MadeNoMore ==
    ASSUME NEW t, t \in Trees, NEW u, u \in Trees, Extends(t, u),
           \A n \in Len(t.nodes) + 1 .. Len(u.nodes) : ~u.nodes[n].invert, NEW v, NEW w
    PROVE  Made(u, v, w) = Made(t, v, w)
<1>1. Len(t.nodes) \in Nat /\ Len(u.nodes) \in Nat /\ Len(t.nodes) <= Len(u.nodes)
  BY TreeParts DEF Extends
<1>2. 1 .. Len(u.nodes) = (1 .. Len(t.nodes)) \cup (Len(t.nodes) + 1 .. Len(u.nodes))
  BY <1>1
<1>3. \A n \in 1 .. Len(t.nodes) : u.nodes[n] = t.nodes[n]
  BY DEF Extends
<1>4. QED BY <1>2, <1>3 DEF Made

\* A sequence without repetitions: with one more element, and without its first.
LEMMA DistinctAppend ==
    ASSUME NEW X, NEW s \in Seq(X), Distinct(s), NEW e \in X
    PROVE  /\ Append(s, e) \in Seq(X) /\ ToSet(Append(s, e)) = ToSet(s) \cup {e}
           /\ Append(s, e) # <<>>
           /\ e \notin ToSet(s) => Distinct(Append(s, e))
<1>1. /\ Len(Append(s, e)) = Len(s) + 1 /\ Len(s) \in Nat /\ Append(s, e) \in Seq(X)
      /\ DOMAIN s = 1 .. Len(s) /\ DOMAIN Append(s, e) = 1 .. Len(s) + 1
      /\ Append(s, e)[Len(s) + 1] = e /\ \A i \in 1 .. Len(s) : Append(s, e)[i] = s[i]
  OBVIOUS
<1>2. PICK a : a = Append(s, e)
  OBVIOUS
<1>3. PICK n : n = Len(s)
  OBVIOUS
<1>4. /\ n \in Nat /\ DOMAIN s = 1 .. n /\ DOMAIN a = 1 .. n + 1
      /\ a[n + 1] = e /\ \A i \in 1 .. n : a[i] = s[i]
  BY <1>1, <1>2, <1>3
<1>5. 1 .. n + 1 = (1 .. n) \cup {n + 1} /\ n + 1 \notin 1 .. n
  BY <1>4
<1>6. ToSet(a) = ToSet(s) \cup {e}
  BY ONLY <1>4, <1>5 DEF ToSet
<1>7. a # <<>>
  <2>1. DOMAIN <<>> = {}
    OBVIOUS
  <2>2. n + 1 \in DOMAIN a
    BY <1>4, <1>5
  <2>3. QED BY <2>1, <2>2
<1>8. ASSUME e \notin ToSet(s) PROVE Distinct(a)
  <2>1. \A i \in 1 .. n : s[i] # e
    BY <1>4, <1>8 DEF ToSet
  <2>2. ASSUME NEW i \in DOMAIN a, NEW j \in DOMAIN a, a[i] = a[j] PROVE i = j
    <3>1. CASE i \in 1 .. n /\ j \in 1 .. n
      BY <1>4, <2>2, <3>1 DEF Distinct
    <3>2. CASE i = n + 1 \/ j = n + 1
      BY <1>4, <1>5, <2>1, <2>2, <3>2
    <3>3. QED BY <1>4, <1>5, <3>1, <3>2
  <2>3. QED BY <2>2 DEF Distinct
<1>9. QED BY <1>1, <1>2, <1>6, <1>7, <1>8

\* Without its first element a sequence that repeats nothing repeats nothing.
LEMMA DistinctTail ==
    ASSUME NEW X, NEW s \in Seq(X), Distinct(s), s # <<>>
    PROVE  /\ Tail(s) \in Seq(X) /\ Distinct(Tail(s))
           /\ Head(s) \in ToSet(s) /\ Head(s) \in X
           /\ ToSet(Tail(s)) = ToSet(s) \ {Head(s)}
           /\ ToSet(s) \in SUBSET X
<1>1. PICK n \in Nat : n = Len(s) /\ n >= 1 /\ DOMAIN s = 1 .. n /\ \A i \in 1 .. n : s[i] \in X
  OBVIOUS
<1>2. PICK a : a = Tail(s)
  OBVIOUS
<1>3. /\ a \in Seq(X) /\ DOMAIN a = 1 .. n - 1 /\ \A i \in 1 .. n - 1 : a[i] = s[i + 1]
      /\ Head(s) = s[1]
  BY <1>1, <1>2
<1>4. Distinct(a)
  <2>1. ASSUME NEW i \in 1 .. n - 1, NEW j \in 1 .. n - 1, a[i] = a[j] PROVE i = j
    <3>1. i + 1 \in DOMAIN s /\ j + 1 \in DOMAIN s /\ s[i + 1] = s[j + 1]
      BY <1>1, <1>3, <2>1
    <3>2. i + 1 = j + 1
      BY <3>1 DEF Distinct
    <3>3. QED BY <1>1, <3>2
  <2>2. QED BY <1>3, <2>1 DEF Distinct
<1>5. 1 \in DOMAIN s /\ Head(s) \in ToSet(s)
  BY <1>1, <1>3 DEF ToSet
<1>6. ASSUME NEW x \in ToSet(a) PROVE x \in ToSet(s) /\ x # Head(s)
  <2>1. PICK i \in 1 .. n - 1 : x = s[i + 1]
    BY <1>3 DEF ToSet
  <2>2. i + 1 \in DOMAIN s /\ i + 1 # 1
    BY <1>1, <2>1
  <2>3. s[i + 1] # s[1]
    BY <1>5, <2>2 DEF Distinct
  <2>4. QED BY <1>3, <2>1, <2>2, <2>3 DEF ToSet
<1>7. ASSUME NEW x \in ToSet(s), x # Head(s) PROVE x \in ToSet(a)
  <2>1. PICK i \in 1 .. n : x = s[i]
    BY <1>1 DEF ToSet
  <2>2. i # 1
    BY <1>3, <1>7, <2>1
  <2>3. i - 1 \in 1 .. n - 1 /\ (i - 1) + 1 = i
    BY <1>1, <2>2
  <2>4. a[i - 1] = x
    BY <1>3, <2>1, <2>3
  <2>5. QED BY <1>3, <2>3, <2>4 DEF ToSet
<1>8. ToSet(s) \in SUBSET X
  BY <1>1 DEF ToSet
<1>9. ToSet(a) = ToSet(s) \ {Head(s)}
  BY <1>6, <1>7
<1>10. QED BY <1>1, <1>2, <1>3, <1>4, <1>5, <1>8, <1>9

\* How many of the current vertex's inverters to w are still to be made.
\* The edges without the next one.
LEMMA WithoutNextFacts ==
    ASSUME EdgesOK, Attached(netlist), DOMAIN edges # {}, NEW rest, rest = WithoutNext
    PROVE  /\ NextTarget \in DOMAIN edges /\ NextTarget \in netlist.vertices
           /\ DOMAIN rest \subseteq DOMAIN edges /\ DOMAIN edges \subseteq DOMAIN rest \cup {NextTarget}
           /\ rest = [w \in DOMAIN rest |-> rest[w]]
           /\ \A w \in DOMAIN rest : rest[w] \in Nat \ {0}
           /\ \A w : (IF w \in DOMAIN rest THEN rest[w] ELSE 0) =
                        (IF w \in DOMAIN edges THEN edges[w] ELSE 0) - (IF w = NextTarget THEN 1 ELSE 0)
<1>1. PICK x : x = NextTarget
  OBVIOUS
<1>2. x \in DOMAIN edges /\ x \in netlist.vertices
  <2>1. DOMAIN edges \in SUBSET Nat /\ DOMAIN edges \subseteq netlist.vertices
    BY NetlistFacts DEF EdgesOK
  <2>2. x \in DOMAIN edges
    BY <1>1, <2>1, MinIn DEF NextTarget
  <2>3. QED BY <2>1, <2>2
<1>3. /\ edges = [w \in DOMAIN edges |-> edges[w]] /\ \A w \in DOMAIN edges : edges[w] \in Nat \ {0}
  BY DEF EdgesOK
<1>4. CASE edges[x] > 1
  <2>1. rest = [edges EXCEPT ![x] = @ - 1]
    BY <1>1, <1>4 DEF WithoutNext
  <2>2. /\ DOMAIN rest = DOMAIN edges /\ rest[x] = edges[x] - 1
        /\ \A w \in DOMAIN edges \ {x} : rest[w] = edges[w]
        /\ rest = [w \in DOMAIN rest |-> rest[w]]
    BY <1>2, <1>3, <2>1
  <2>3. edges[x] - 1 \in Nat \ {0}
    BY <1>2, <1>3, <1>4
  <2>4. \A w : (IF w \in DOMAIN rest THEN rest[w] ELSE 0) =
                (IF w \in DOMAIN edges THEN edges[w] ELSE 0) - (IF w = x THEN 1 ELSE 0)
    BY <1>2, <1>3, <2>2
  <2>5. QED BY <1>1, <1>2, <1>3, <2>2, <2>3, <2>4
<1>5. CASE ~(edges[x] > 1)
  <2>1. rest = [w \in DOMAIN edges \ {x} |-> edges[w]]
    BY <1>1, <1>5 DEF WithoutNext
  <2>2. edges[x] = 1
    BY <1>2, <1>3, <1>5
  <2>3. \A w : (IF w \in DOMAIN rest THEN rest[w] ELSE 0) =
                (IF w \in DOMAIN edges THEN edges[w] ELSE 0) - (IF w = x THEN 1 ELSE 0)
    BY <1>2, <1>3, <2>1, <2>2
  <2>4. QED BY <1>1, <1>2, <1>3, <2>1, <2>3
<1>6. QED BY <1>4, <1>5

(***************************************************************************)
(* createModel keeps the tree what it should be.                            *)
(***************************************************************************)
\* The netlists asked for have their interfaces attached to their vertices.
LEMMA NetlistsAttached ==
    ASSUME NEW g, g \in Netlists
    PROVE  Attached(g)
<1> DEFINE Made1(E, f) ==
        [vertices |-> GivenVertices,
         edges |-> [e \in Graph!VertexRefs \X Graph!VertexRefs |-> IF e \in E THEN 1 ELSE 0],
         ifaceMap |-> f]
       Maps == {f \in [Graph!Ifaces -> GivenVertices] :
                    \A k \in DOMAIN SetToSeq(InIfaces) : f[SetToSeq(InIfaces)[k]] = k}
<1>1. PICK E \in EdgeSets, f \in [Graph!Ifaces -> GivenVertices] : g = Made1(E, f)
  <2>1. Netlists = {h \in {Made1(E, f) : E \in EdgeSets, f \in Maps} :
                        Graph!Connected(h) = GivenVertices /\ Placeable(h)}
    BY DEF Netlists
  <2>2. \A f \in Maps : f \in [Graph!Ifaces -> GivenVertices]
    OBVIOUS
  <2>3. g \in Netlists
    OBVIOUS
  <2> HIDE DEF Made1, Maps
  <2>4. g \in {Made1(E, f) : E \in EdgeSets, f \in Maps}
    BY ONLY <2>1, <2>3
  <2>5. QED BY ONLY <2>2, <2>4
<1>2. PICK n \in GivenVertices : GivenVertices = 1 .. n /\ n \in Nat
  BY VerticesAssumption
<1>3. GivenVertices \subseteq Graph!VertexRefs
  <2>1. Cardinality(GivenVertices) = n
    BY <1>2, FS_Interval
  <2>2. Graph!Cardinality(GivenVertices) = Cardinality(GivenVertices)
    BY DEF Graph!Cardinality, Cardinality
  <2>3. Graph!VertexRefs = 1 .. (n + Added)
    BY <2>1, <2>2 DEF Graph!VertexRefs
  <2>4. QED BY <1>2, <2>3, VerticesAssumption
<1>4. PICK D : D = [e \in Graph!VertexRefs \X Graph!VertexRefs |-> IF e \in E THEN 1 ELSE 0]
  OBVIOUS
<1>5. D \in [Graph!VertexRefs \X Graph!VertexRefs -> Nat]
  BY <1>4
<1>6. f \in [Graph!Ifaces -> Graph!VertexRefs]
  BY <1>3
<1>7. g = [vertices |-> GivenVertices, edges |-> D, ifaceMap |-> f]
  BY <1>1, <1>4
<1>8. g \in Graph!Graphs
  BY <1>3, <1>5, <1>6, <1>7 DEF Graph!Graphs
<1>9. g.vertices = GivenVertices /\ g.ifaceMap = f
  BY <1>7
<1>10. QED BY <1>2, <1>8, <1>9 DEF Attached

\* A tree without nodes and groups.
LEMMA NoNodes ==
    ASSUME NEW t, t \in Trees, t.nodes = <<>>, t.layers = <<>>, Len(t.channels) = 1
    PROVE  TreeOK(t) /\ Places(t) = {} /\ \A v, w : Made(t, v, w) = {}
<1>1. Len(t.nodes) = 0 /\ 1 .. Len(t.nodes) = {} /\ Len(t.layers) = 0 /\ 1 .. Len(t.layers) = {}
  OBVIOUS
<1>2. Places(t) = {}
  BY <1>1 DEF Places
<1>3. \A v, w : Made(t, v, w) = {}
  BY <1>1 DEF Made
<1>4. Shaped(t)
  BY <1>1 DEF Shaped
<1>5. Homed(t) /\ Reads(t) /\ Hung(t)
  BY <1>1, <1>2 DEF Homed, Reads, Hung
<1>6. QED BY <1>2, <1>3, <1>4, <1>5 DEF TreeOK

\* A model that is yet to be made, of a netlist with attached interfaces.
LEMMA NewModelOK ==
    ASSUME Attached(netlist), StartModel
    PROVE  ModelOK
<1>1. EmptyTree \in Trees
  BY DEF EmptyTree, Trees
<1>2. /\ tree.layers = <<>> /\ tree.nodes = <<>> /\ Len(tree.channels) = 1 /\ tree.bottom = <<>>
      /\ tree \in Trees /\ Len(tree.bottom) = 0 /\ Len(tree.layers) = 0
  BY <1>1 DEF StartModel, EmptyTree
<1>3. TreeOK(tree) /\ \A v, w : Made(tree, v, w) = {}
  BY <1>2, NoNodes
<1>4. /\ known = <<>> /\ lower = <<>> /\ upper = <<>> /\ edges = <<>>
      /\ stage = "bottom" /\ ifaces = InIfaces
  BY DEF StartModel
<1>5. /\ \A f : f = <<>> => DOMAIN f = {} /\ f = [x \in {} |-> f[x]] /\ ToSet(f) = {}
  BY DEF ToSet
<1>6. KnownOK
  BY <1>4, <1>5 DEF KnownOK
<1>7. FrontOK
  BY <1>4, <1>5 DEF FrontOK, Distinct
<1>8. EdgesOK
  BY <1>4, <1>5 DEF EdgesOK
<1>9. CountOK
  <2>1. ASSUME NEW v \in netlist.vertices, NEW w \in netlist.vertices
        PROVE  Cardinality(Made(tree, v, w)) + Remaining(v, w) = netlist.edges[<<v, w>>]
    <3>1. Cardinality(Made(tree, v, w)) = 0
      BY <1>3, FS_EmptySet
    <3>2. Remaining(v, w) = netlist.edges[<<v, w>>]
      BY <1>4, <1>5 DEF Remaining
    <3>3. netlist.edges[<<v, w>>] \in Nat
      BY NetlistFacts
    <3>4. QED BY <3>1, <3>2, <3>3
  <2>2. QED BY <2>1 DEF CountOK
<1>10. FollowedOK
  BY <1>4, <1>5 DEF FollowedOK
<1>11. ReachedOK
  BY <1>4 DEF ReachedOK
<1>12. 1 .. Len(tree.bottom) = {}
  BY <1>2
<1>13. BottomOK
  BY <1>12 DEF BottomOK
<1>14. StagesOK
  BY <1>2, <1>4, <1>5, <1>12 DEF StagesOK, Stages
<1>15. QED BY <1>3, <1>6, <1>7, <1>8, <1>9, <1>10, <1>11, <1>13, <1>14 DEF ModelOK

\* Once a model is made nothing changes it.
LEMMA ModelKept ==
    ASSUME ModelOK, UNCHANGED <<netlist, model>>, stage' \in Stages,
           \/ stage' = stage
           \/ {stage, stage'} \cap {"bottom", "layers"} = {}
    PROVE  ModelOK'
<1>1. /\ netlist' = netlist /\ tree' = tree /\ known' = known /\ lower' = lower /\ upper' = upper
      /\ edges' = edges /\ ifaces' = ifaces
  BY DEF model
<1>2. Attached(netlist)' /\ TreeOK(tree)' /\ KnownOK' /\ FrontOK' /\ CountOK' /\ FollowedOK' /\ BottomOK'
  BY <1>1 DEF ModelOK, KnownOK, FrontOK, CountOK, Remaining, FollowedOK, BottomOK
<1>3. EdgesOK' /\ ReachedOK' /\ StagesOK'
  <2>1. CASE stage' = stage
    BY <1>1, <2>1 DEF ModelOK, EdgesOK, ReachedOK, StagesOK, GroupOf
  <2>2. CASE {stage, stage'} \cap {"bottom", "layers"} = {}
    BY <1>1, <2>2 DEF ModelOK, EdgesOK, ReachedOK, StagesOK, GroupOf
  <2>3. QED BY <2>1, <2>2
<1>4. QED BY <1>2, <1>3 DEF ModelOK

\* The bottom layer's wires: one more, for a net without one.
LEMMA BottomWireMade ==
    ASSUME ModelOK, stage = "bottom", NEW v \in netlist.vertices \ DOMAIN known,
           NEW i \in InIfaces \cup {Loose}, NEW c, c \in Seq(Seq(Vertices)), Len(c) = Len(tree.channels),
           tree' = [layers |-> tree.layers, nodes |-> tree.nodes, channels |-> c,
                    bottom |-> Append(tree.bottom, [net |-> v, iface |-> i]), top |-> tree.top],
           known' = Emplace(v, NoParent), upper' = Append(upper, v), ifaces' \subseteq ifaces,
           UNCHANGED <<netlist, stage, lower, edges>>
    PROVE  ModelOK'
<1>1. TreeOK(tree) /\ Attached(netlist) /\ tree \in Trees
  BY DEF ModelOK, TreeOK, Shaped
<1>2. v \in Vertices /\ netlist.vertices \in SUBSET Vertices
  BY <1>1, NetlistFacts
<1>3. PICK r : r = [net |-> v, iface |-> i]
  OBVIOUS
<1>4. r \in BottomRecords /\ r.net = v
  BY <1>2, <1>3 DEF BottomRecords
<1>5. /\ tree'.layers = tree.layers /\ tree'.nodes = tree.nodes /\ tree'.channels = c
      /\ tree'.bottom = Append(tree.bottom, r) /\ tree'.top = tree.top
  BY <1>3
<1>6. /\ tree.bottom \in Seq(BottomRecords) /\ tree.layers \in Seq(Seq(GroupRecords))
      /\ tree.nodes \in Seq(NodeRecords) /\ tree.top \in Seq(TopRecords)
  BY <1>1, TreeParts
<1>7. tree' \in Trees
  <2>1. Append(tree.bottom, r) \in Seq(BottomRecords)
    BY <1>4, <1>6
  <2>2. tree' = [layers |-> tree.layers, nodes |-> tree.nodes, channels |-> c,
                 bottom |-> Append(tree.bottom, r), top |-> tree.top]
    BY <1>3
  <2>3. c \in Seq(Seq(Vertices))
    OBVIOUS
  <2>4. QED BY ONLY <1>6, <2>1, <2>2, <2>3, TreeMade
<1>8. TreeOK(tree')
  BY <1>1, <1>5, <1>7, SameLayersOK
<1>9. /\ tree.layers = <<>> /\ tree.nodes = <<>> /\ lower = <<>> /\ DOMAIN known = ToSet(upper)
      /\ DOMAIN known = {tree.bottom[b].net : b \in 1 .. Len(tree.bottom)}
      /\ Len(tree'.channels) = 1
  <2>1. /\ tree.layers = <<>> /\ tree.nodes = <<>> /\ lower = <<>> /\ DOMAIN known = ToSet(upper)
        /\ DOMAIN known = {tree.bottom[b].net : b \in 1 .. Len(tree.bottom)}
    BY DEF ModelOK, StagesOK
  <2>2. Len(tree.channels) = Len(tree.layers) + 1
    BY <1>1 DEF TreeOK, Shaped
  <2>3. Len(tree.layers) = 0 /\ Len(tree'.channels) = Len(tree.channels)
    BY <1>5, <2>1
  <2>4. QED BY <2>1, <2>2, <2>3
<1>10. \A a, b : Made(tree', a, b) = {} /\ Made(tree, a, b) = {}
  BY <1>5, <1>9 DEF Made
<1>11. /\ DOMAIN known' = DOMAIN known \cup {v} /\ known' = [z \in DOMAIN known' |-> known'[z]]
       /\ \A z \in DOMAIN known : known'[z] = known[z]
       /\ known'[v] = NoParent
  <2>1. PICK f, h : f = known /\ h = known'
    OBVIOUS
  <2>2. h = Over(f, Single(v, NoParent)) /\ v \notin DOMAIN f
    BY <2>1 DEF Emplace
  <2>3. /\ DOMAIN h = DOMAIN f \cup {v} /\ h = [z \in DOMAIN h |-> h[z]]
        /\ \A z \in DOMAIN f : h[z] = f[z]
    BY ONLY <2>2 DEF Over, Single
  <2>4. h[v] = NoParent
    BY ONLY <2>2 DEF Over, Single
  <2>5. QED BY <2>1, <2>3, <2>4
<1>12. /\ lower \in Seq(DOMAIN known) /\ upper \in Seq(DOMAIN known) /\ Distinct(upper)
  BY DEF ModelOK, FrontOK
<1>13. /\ upper' \in Seq(DOMAIN known') /\ ToSet(upper') = DOMAIN known' /\ Distinct(upper')
       /\ lower' = <<>>
  <2>1. upper \in Seq(DOMAIN known') /\ v \in DOMAIN known' /\ v \notin ToSet(upper)
    BY <1>9, <1>11, <1>12
  <2>2. PICK D, s, u : D = DOMAIN known' /\ s = upper /\ u = upper'
    OBVIOUS
  <2>3. s \in Seq(D) /\ Distinct(s) /\ v \in D /\ v \notin ToSet(s) /\ u = Append(s, v)
    BY <1>12, <2>1, <2>2
  <2>4. u \in Seq(D) /\ ToSet(u) = ToSet(s) \cup {v} /\ Distinct(u)
    BY ONLY <2>3, DistinctAppend
  <2>5. QED BY <1>9, <1>11, <2>2, <2>4
<1>14. \A z \in DOMAIN known : known[z] = NoParent
  <2>1. Len(tree.nodes) = 0
    BY <1>9
  <2>2. \A z \in DOMAIN known : known[z] \in 0 .. 0
    BY <2>1 DEF ModelOK, KnownOK
  <2>3. QED BY <2>2 DEF NoParent
<1>15. \A z \in DOMAIN known' : known'[z] = NoParent
  BY <1>11, <1>14
<1>16. KnownOK'
  <2>1. DOMAIN known' \subseteq netlist'.vertices
    BY <1>11 DEF ModelOK, KnownOK
  <2>2. \A z \in DOMAIN known' : known'[z] \in 0 .. Len(tree'.nodes)
    BY <1>5, <1>9, <1>15 DEF NoParent
  <2>3. QED BY <1>11, <1>15, <2>1, <2>2 DEF KnownOK
<1>17. FrontOK'
  <2>1. ToSet(lower') = {} /\ lower' \in Seq(DOMAIN known') /\ Distinct(lower')
    BY <1>13 DEF ToSet, Distinct
  <2>2. QED BY <1>13, <1>15, <2>1 DEF FrontOK
<1>18. DOMAIN edges = {}
  BY DEF ModelOK, EdgesOK
<1>19. EdgesOK'
  BY <1>13, <1>18 DEF ModelOK, EdgesOK
<1>20. CountOK'
  <2>1. ASSUME NEW a \in netlist.vertices, NEW b \in netlist.vertices
        PROVE  Cardinality(Made(tree', a, b)) + Remaining(a, b)' = netlist.edges[<<a, b>>]
    <3>1. Cardinality(Made(tree', a, b)) = 0
      BY <1>10, FS_EmptySet
    <3>2. Remaining(a, b)' = netlist.edges[<<a, b>>]
      BY <1>13 DEF Remaining
    <3>3. netlist.edges[<<a, b>>] \in Nat
      BY <1>1, NetlistFacts
    <3>4. QED BY <3>1, <3>2, <3>3
  <2>2. QED BY <2>1 DEF CountOK
<1>21. FollowedOK'
  BY <1>13 DEF FollowedOK
<1>22. ReachedOK'
  BY DEF ReachedOK
<1>23. /\ Len(tree'.bottom) = Len(tree.bottom) + 1 /\ Len(tree.bottom) \in Nat
       /\ tree'.bottom[Len(tree.bottom) + 1] = r
       /\ \A b \in 1 .. Len(tree.bottom) : tree'.bottom[b] = tree.bottom[b]
  BY <1>4, <1>5, <1>6
<1>24. DOMAIN known' = {tree'.bottom[b].net : b \in 1 .. Len(tree'.bottom)}
  BY SMTT(30), <1>4, <1>9, <1>11, <1>23
<1>25. BottomOK'
  <2>1. \A b \in 1 .. Len(tree'.bottom) : tree'.bottom[b].net \in DOMAIN known'
    BY <1>24
  <2>2. QED BY <1>13, <1>15, <2>1 DEF BottomOK
<1>26. StagesOK'
  BY <1>5, <1>9, <1>13, <1>24 DEF ModelOK, StagesOK
<1>27. QED
  BY <1>1, <1>8, <1>16, <1>17, <1>19, <1>20, <1>21, <1>22, <1>25, <1>26 DEF ModelOK

\* processBottomIFace keeps the model: the net is known and waits to be followed.
LEMMA BottomIFaceOK ==
    ASSUME ModelOK, NEW i \in InIfaces, ProcessBottomIFace(i)
    PROVE  ModelOK'
<1>1. TreeOK(tree) /\ Attached(netlist) /\ tree \in Trees
  BY DEF ModelOK, TreeOK, Shaped
<1>2. PICK v : v = netlist.ifaceMap[i]
  OBVIOUS
<1>3. v \in netlist.vertices /\ v \in Vertices
  BY <1>1, <1>2, NetlistFacts
<1>4. PICK t : t = FindOrMake(tree, 1, v)
  OBVIOUS
<1>5. /\ stage = "bottom" /\ v \notin DOMAIN known
      /\ ifaces' = ifaces \ {i}
      /\ tree' = [t EXCEPT !.bottom = Append(@, [net |-> v, iface |-> i])]
      /\ known' = Emplace(v, NoParent) /\ upper' = Append(upper, v)
      /\ UNCHANGED <<netlist, stage, lower, edges>>
  BY <1>2, <1>4 DEF ProcessBottomIFace
<1>6. 1 \in 1 .. Len(tree.channels)
  <2>1. Len(tree.channels) = Len(tree.layers) + 1 /\ Len(tree.layers) \in Nat
    BY <1>1, TreeParts DEF TreeOK, Shaped
  <2>2. QED BY <2>1
<1>7. /\ TreeOK(t) /\ t.layers = tree.layers /\ t.nodes = tree.nodes
      /\ Len(t.channels) = Len(tree.channels) /\ t.bottom = tree.bottom /\ t.top = tree.top
  BY <1>1, <1>3, <1>4, <1>6, FindOrMakeFacts DEF Extends
<1>8. t \in Trees /\ t.channels \in Seq(Seq(Vertices))
  BY <1>7, TreeParts DEF TreeOK, Shaped
<1>9. t = [layers |-> tree.layers, nodes |-> tree.nodes, channels |-> t.channels,
           bottom |-> tree.bottom, top |-> tree.top]
  BY <1>7, <1>8, TreeIs
<1>10. PICK c : c = t.channels
  OBVIOUS
<1>11. tree' = [layers |-> tree.layers, nodes |-> tree.nodes, channels |-> c,
                bottom |-> Append(tree.bottom, [net |-> v, iface |-> i]), top |-> tree.top]
  <2>1. PICK a, b, d, e : a = tree.layers /\ b = tree.nodes /\ d = tree.bottom /\ e = tree.top
    OBVIOUS
  <2>2. t = [layers |-> a, nodes |-> b, channels |-> c, bottom |-> d, top |-> e]
    BY <1>9, <1>10, <2>1
  <2>3. tree' = [layers |-> a, nodes |-> b, channels |-> c,
                 bottom |-> Append(d, [net |-> v, iface |-> i]), top |-> e]
    BY <1>5, <2>2
  <2>4. QED BY <2>1, <2>3
<1>12. ifaces' \subseteq ifaces /\ v \in netlist.vertices \ DOMAIN known /\ i \in InIfaces \cup {Loose}
       /\ c \in Seq(Seq(Vertices)) /\ Len(c) = Len(tree.channels)
  BY <1>3, <1>5, <1>7, <1>8, <1>10
<1>13. QED BY ONLY <1>5, <1>11, <1>12, ModelOK, BottomWireMade

\* So does processLooseVertices; when nothing is loose, all is reached from what is known.
LEMMA LooseVertexOK ==
    ASSUME ModelOK, ProcessLooseVertex
    PROVE  ModelOK'
<1>1. TreeOK(tree) /\ Attached(netlist) /\ tree \in Trees
  BY DEF ModelOK, TreeOK, Shaped
<1>2. /\ stage = "bottom" /\ ifaces = {} /\ UNCHANGED <<netlist, lower, edges, ifaces>>
  BY DEF ProcessLooseVertex
<1>3. /\ tree.layers = <<>> /\ tree.nodes = <<>> /\ lower = <<>> /\ DOMAIN known = ToSet(upper)
  BY <1>2 DEF ModelOK, StagesOK
<1>4. PICK R : R = Reachable(ToSet(upper))
  OBVIOUS
<1>5. ToSet(upper) \in SUBSET netlist.vertices
  BY <1>3 DEF ModelOK, KnownOK
<1>6. CASE netlist.vertices \ R = {}
  <2>1. stage' = "layers" /\ UNCHANGED <<tree, known, upper>>
    BY <1>4, <1>6 DEF ProcessLooseVertex
  <2>2. \A S \in SUBSET netlist.vertices :
            DOMAIN known \subseteq S /\ Closed(netlist, S) => S = netlist.vertices
    BY <1>1, <1>3, <1>4, <1>5, <1>6, ReachableFacts
  <2>3. ReachedOK'
    BY <1>2, <2>1, <2>2 DEF ReachedOK
  <2>4. upper # <<>>
    <3>1. ASSUME upper = <<>> PROVE FALSE
      <4>1. DOMAIN known = {}
        BY <1>3, <3>1 DEF ToSet
      <4>2. {} = netlist.vertices
        BY <2>2, <4>1 DEF Closed
      <4>3. QED BY <1>1, <4>2 DEF Attached
    <3>2. QED BY <3>1
  <2>5. DOMAIN edges = {}
    BY <1>2 DEF ModelOK, EdgesOK
  <2>6. EdgesOK' /\ StagesOK'
    BY <1>2, <1>3, <2>1, <2>4, <2>5 DEF ModelOK, EdgesOK, StagesOK, Stages
  <2>7. TreeOK(tree)' /\ KnownOK' /\ FrontOK' /\ CountOK' /\ FollowedOK' /\ BottomOK' /\ Attached(netlist)'
    BY <1>2, <2>1 DEF ModelOK, KnownOK, FrontOK, CountOK, Remaining, FollowedOK, BottomOK
  <2>8. QED BY <2>3, <2>6, <2>7 DEF ModelOK
<1>7. CASE netlist.vertices \ R # {}
  <2>1. PICK v : v = WalkBack(LooseStart(netlist.vertices \ R))
    OBVIOUS
  <2>2. /\ tree' = [tree EXCEPT !.bottom = Append(@, [net |-> v, iface |-> Loose])]
        /\ known' = Emplace(v, NoParent) /\ upper' = Append(upper, v) /\ stage' = stage
    BY <1>4, <1>7, <2>1 DEF ProcessLooseVertex
  <2>3. v \in netlist.vertices \ DOMAIN known
    BY <1>1, <1>3, <1>4, <1>5, <1>7, <2>1, LooseFacts
  <2>4. tree = [layers |-> tree.layers, nodes |-> tree.nodes, channels |-> tree.channels,
                bottom |-> tree.bottom, top |-> tree.top]
    BY <1>1, TreeIs
  <2>5. PICK c : c = tree.channels
    OBVIOUS
  <2>6. tree' = [layers |-> tree.layers, nodes |-> tree.nodes, channels |-> c,
                 bottom |-> Append(tree.bottom, [net |-> v, iface |-> Loose]), top |-> tree.top]
    BY <2>2, <2>4, <2>5
  <2>7. /\ c \in Seq(Seq(Vertices)) /\ Len(c) = Len(tree.channels) /\ Loose \in InIfaces \cup {Loose}
        /\ ifaces' \subseteq ifaces /\ UNCHANGED <<netlist, stage, lower, edges>>
    BY <1>1, <1>2, <2>2, <2>5, TreeParts
  <2>8. QED BY ONLY <1>2, <2>2, <2>3, <2>6, <2>7, ModelOK, BottomWireMade
<1>8. QED BY <1>6, <1>7

\* A new layer starts with what the last one left to be followed.
LEMMA NextLayerOK ==
    ASSUME ModelOK, NextLayer
    PROVE  ModelOK'
<1>1. TreeOK(tree) /\ Attached(netlist) /\ tree \in Trees
  BY DEF ModelOK, TreeOK, Shaped
<1>2. /\ stage = "layers" /\ lower = <<>> /\ DOMAIN edges = {} /\ upper # <<>>
      /\ lower' = upper /\ upper' = <<>>
      /\ tree' = [tree EXCEPT !.layers = Append(@, <<>>), !.channels = Append(@, <<>>)]
      /\ netlist' = netlist /\ stage' = stage /\ known' = known /\ edges' = edges /\ ifaces' = ifaces
  BY DEF NextLayer
<1>3. /\ TreeOK(tree') /\ Places(tree') = Places(tree)
      /\ \A p \in Places(tree) : GroupAt(tree', p) = GroupAt(tree, p)
      /\ \A n \in 1 .. Len(tree.nodes) : LayerOf(tree', n) = LayerOf(tree, n)
      /\ tree'.nodes = tree.nodes /\ tree'.bottom = tree.bottom /\ tree'.top = tree.top
      /\ Len(tree'.layers) = Len(tree.layers) + 1 /\ Len(tree.layers) \in Nat
  <2>1. PICK t, u : t = tree /\ u = tree'
    OBVIOUS
  <2>2. TreeOK(t) /\ u = [t EXCEPT !.layers = Append(@, <<>>), !.channels = Append(@, <<>>)]
    BY <1>1, <1>2, <2>1
  <2>3. QED BY ONLY <2>1, <2>2, NewLayerFacts
<1>4. ToSet(lower) = {} /\ ToSet(upper') = {} /\ ToSet(lower') = ToSet(upper)
  BY <1>2 DEF ToSet
<1>5. KnownOK'
  BY <1>2, <1>3 DEF ModelOK, KnownOK
<1>6. FrontOK'
  <2>1. upper' \in Seq(DOMAIN known') /\ Distinct(upper')
    BY <1>2 DEF Distinct
  <2>2. lower' \in Seq(DOMAIN known') /\ Distinct(lower')
    BY <1>2 DEF ModelOK, FrontOK
  <2>3. ASSUME NEW v \in ToSet(lower'), known'[v] # NoParent
        PROVE  LayerOf(tree', known'[v]) = Len(tree'.layers) - 1
    <3>1. v \in ToSet(upper) /\ ToSet(upper) \subseteq DOMAIN known
      BY <1>4, <2>3 DEF ModelOK, FrontOK, ToSet
    <3>2. LayerOf(tree, known[v]) = Len(tree.layers)
      BY <1>2, <2>3, <3>1 DEF ModelOK, FrontOK
    <3>3. known[v] \in 1 .. Len(tree.nodes)
      <4>1. known[v] \in 0 .. Len(tree.nodes) /\ known[v] # 0
        BY <1>2, <2>3, <3>1 DEF ModelOK, KnownOK, NoParent
      <4>2. Len(tree.nodes) \in Nat
        BY <1>1, TreeParts
      <4>3. QED BY <4>1, <4>2
    <3>4. QED BY <1>2, <1>3, <3>2, <3>3
  <2>4. QED BY <1>4, <2>1, <2>2, <2>3 DEF FrontOK
<1>7. EdgesOK'
  BY <1>2, <1>3 DEF ModelOK, EdgesOK
<1>8. \A v, w : Made(tree', v, w) = Made(tree, v, w)
  BY <1>3 DEF Made
<1>9. CountOK'
  <2>1. ASSUME NEW v \in netlist.vertices, NEW w \in netlist.vertices
        PROVE  Cardinality(Made(tree', v, w)) + Remaining(v, w)' = netlist.edges[<<v, w>>]
    <3>1. Remaining(v, w)' = Remaining(v, w)
      BY <1>2, <1>4 DEF Remaining
    <3>2. Cardinality(Made(tree, v, w)) + Remaining(v, w) = netlist.edges[<<v, w>>]
      BY DEF ModelOK, CountOK
    <3>3. QED BY <1>8, <3>1, <3>2
  <2>2. QED BY <1>2, <2>1 DEF CountOK
<1>10. FollowedOK'
  BY <1>2, <1>4 DEF ModelOK, FollowedOK
<1>11. ReachedOK'
  BY <1>2 DEF ModelOK, ReachedOK
<1>12. BottomOK'
  <2>1. \A v : InputToGroup(tree', v, Bottom) = InputToGroup(tree, v, Bottom)
    BY <1>3 DEF InputToGroup
  <2>2. QED BY <1>2, <1>3, <1>4, <2>1 DEF ModelOK, BottomOK
<1>13. StagesOK'
  BY <1>2, <1>3 DEF ModelOK, StagesOK
<1>14. QED
  BY <1>1, <1>2, <1>3, <1>5, <1>6, <1>7, <1>9, <1>10, <1>11, <1>12, <1>13 DEF ModelOK

\* The layers end when nothing is left to be followed.
LEMMA BeginTopOK ==
    ASSUME ModelOK, BeginTopIFaces
    PROVE  ModelOK'
<1>1. /\ stage = "layers" /\ lower = <<>> /\ DOMAIN edges = {} /\ upper = <<>>
      /\ stage' = "top" /\ ifaces' = OutIfaces
      /\ netlist' = netlist /\ tree' = tree /\ known' = known /\ lower' = lower /\ upper' = upper
      /\ edges' = edges
  BY DEF BeginTopIFaces
<1>2. Attached(netlist)' /\ TreeOK(tree)' /\ KnownOK' /\ FrontOK' /\ CountOK' /\ FollowedOK' /\ BottomOK'
  BY <1>1 DEF ModelOK, KnownOK, FrontOK, CountOK, Remaining, FollowedOK, BottomOK
<1>3. EdgesOK' /\ ReachedOK'
  BY <1>1 DEF ModelOK, EdgesOK, ReachedOK
<1>4. StagesOK'
  BY <1>1 DEF ModelOK, StagesOK, Stages
<1>5. QED BY <1>2, <1>3, <1>4 DEF ModelOK

\* The tree grows without new inverters.
LEMMA GrownOK ==
    ASSUME ModelOK, NEW u, Extends(tree, u), TreeOK(tree'),
           tree'.layers = u.layers, tree'.nodes = u.nodes, tree'.bottom = u.bottom,
           \A v, w : Made(u, v, w) = Made(tree, v, w),
           UNCHANGED <<netlist, stage, known, lower, upper, edges>>,
           stage # "bottom", ifaces' \subseteq ifaces
    PROVE  ModelOK'
<1>1. TreeOK(tree) /\ Attached(netlist) /\ tree \in Trees
  BY DEF ModelOK, TreeOK, Shaped
<1>2. /\ Len(tree'.layers) = Len(tree.layers) /\ tree'.bottom = tree.bottom
      /\ Len(tree.nodes) <= Len(tree'.nodes)
      /\ \A n \in 1 .. Len(tree.nodes) :
            tree'.nodes[n] = tree.nodes[n] /\ LayerOf(tree', n) = LayerOf(tree, n)
  BY SameLayers DEF Extends
<1>3. netlist' = netlist /\ stage' = stage /\ known' = known /\ lower' = lower /\ upper' = upper
      /\ edges' = edges
  OBVIOUS
<1>4. Len(tree.nodes) \in Nat /\ Len(tree'.nodes) \in Nat
  <2>1. tree' \in Trees
    BY DEF TreeOK, Shaped
  <2>2. QED BY <1>1, <2>1, TreeParts
<1>5. ASSUME NEW v \in DOMAIN known
      PROVE  /\ known[v] \in 0 .. Len(tree'.nodes)
             /\ known[v] # NoParent => /\ tree'.nodes[known[v]].out = v
                                       /\ known[v] \in 1 .. Len(tree.nodes)
  <2>1. known[v] \in 0 .. Len(tree.nodes) /\ (known[v] # NoParent => tree.nodes[known[v]].out = v)
    BY <1>5 DEF ModelOK, KnownOK
  <2>2. QED BY <1>2, <1>4, <2>1 DEF NoParent
<1>6. KnownOK'
  <2>1. known = [v \in DOMAIN known |-> known[v]] /\ DOMAIN known \subseteq netlist.vertices
    BY DEF ModelOK, KnownOK
  <2>2. QED BY <1>3, <1>5, <2>1 DEF KnownOK
<1>7. FrontOK'
  <2>1. ToSet(upper) \subseteq DOMAIN known /\ ToSet(lower) \subseteq DOMAIN known
    BY DEF ModelOK, FrontOK, ToSet
  <2>2. QED BY <1>2, <1>3, <1>5, <2>1 DEF ModelOK, FrontOK
<1>8. EdgesOK'
  <2>1. ASSUME DOMAIN edges # {} PROVE GroupOf(tree, Head(lower))' # {}
    <3>1. GroupOf(tree, Head(lower)) # {}
      BY <2>1 DEF ModelOK, EdgesOK
    <3>2. InputToGroup(u, Head(lower), known[Head(lower)]) # {}
      BY <3>1, GroupStays DEF GroupOf
    <3>3. InputToGroup(tree', Head(lower), known[Head(lower)]) # {}
      BY <3>2, SameLayers DEF InputToGroup, Child
    <3>4. QED BY <1>3, <3>3 DEF GroupOf
  <2>2. QED BY <1>2, <1>3, <2>1 DEF ModelOK, EdgesOK
<1>9. CountOK'
  <2>1. \A v, w : Made(tree', v, w) = Made(tree, v, w)
    BY DEF Made
  <2>2. QED BY <1>3, <2>1 DEF ModelOK, CountOK, Remaining
<1>10. FollowedOK' /\ ReachedOK'
  BY <1>3 DEF ModelOK, FollowedOK, ReachedOK
<1>11. BottomOK'
  <2>1. ASSUME NEW v, InputToGroup(tree, v, Bottom) # {} PROVE InputToGroup(tree', v, Bottom) # {}
    <3>1. InputToGroup(u, v, Bottom) # {}
      BY <2>1, GroupStays
    <3>2. QED BY <3>1, SameLayers DEF InputToGroup
  <2>2. QED BY <1>2, <1>3, <2>1 DEF ModelOK, BottomOK
<1>12. StagesOK'
  BY <1>2, <1>3 DEF ModelOK, StagesOK
<1>13. QED
  BY <1>1, <1>3, <1>6, <1>7, <1>8, <1>9, <1>10, <1>11, <1>12 DEF ModelOK

\* A tree with one more wire at its top.
LEMMA TopFacts ==
    ASSUME NEW t, TreeOK(t), NEW r \in TopRecords, NEW u, u = [t EXCEPT !.top = Append(@, r)]
    PROVE  /\ TreeOK(u) /\ u.layers = t.layers /\ u.nodes = t.nodes /\ u.bottom = t.bottom
           /\ u.channels = t.channels /\ u.top = Append(t.top, r)
<1>1. t \in Trees
  BY DEF TreeOK, Shaped
<1>2. u = [layers |-> t.layers, nodes |-> t.nodes, channels |-> t.channels, bottom |-> t.bottom,
           top |-> Append(t.top, r)]
  <2>1. PICK a, b, c, d, e : a = t.layers /\ b = t.nodes /\ c = t.channels /\ d = t.bottom /\ e = t.top
    OBVIOUS
  <2>2. t = [layers |-> a, nodes |-> b, channels |-> c, bottom |-> d, top |-> e]
    BY <1>1, <2>1, TreeIs
  <2>3. QED BY <2>1, <2>2
<1>3. Append(t.top, r) \in Seq(TopRecords)
  BY <1>1, TreeParts
<1>4. u \in Trees
  BY ONLY <1>1, <1>2, <1>3, TreeParts, TreeMade
<1>5. /\ u.layers = t.layers /\ u.nodes = t.nodes /\ u.bottom = t.bottom /\ u.channels = t.channels
      /\ u.top = Append(t.top, r)
  BY <1>2
<1>6. QED BY <1>4, <1>5, SameLayersOK

\* An output is passed up through pass-throughs: no inverter is made.
LEMMA TopIFaceOK ==
    ASSUME ModelOK, NEW i \in OutIfaces, NEW output \in 0 .. Len(tree.nodes), ProcessTopIFace(i, output)
    PROVE  ModelOK'
<1>1. TreeOK(tree) /\ Attached(netlist) /\ tree \in Trees
  BY DEF ModelOK, TreeOK, Shaped
<1>2. PICK v : v = netlist.ifaceMap[i]
  OBVIOUS
<1>3. PICK t : t = PassThroughToTop(tree, v, output)
  OBVIOUS
<1>4. PICK u : u = FindOrMake(t, Len(tree.layers) + 1, v)
  OBVIOUS
<1>5. PICK n : n = TopOutput(t, output)
  OBVIOUS
<1>6. /\ stage = "top" /\ output \in NearestOutputs(tree, v)
      /\ tree' = [u EXCEPT !.top = Append(@, [node |-> n, iface |-> i])]
      /\ ifaces' = ifaces \ {i}
      /\ UNCHANGED <<netlist, stage, known, lower, upper, edges>>
  BY <1>2, <1>3, <1>4, <1>5 DEF ProcessTopIFace
<1>7. v \in Vertices
  BY <1>1, <1>2, NetlistFacts
<1>8. output # Bottom => tree.nodes[output].out = v
  BY <1>6 DEF NearestOutputs, Bottom
<1>9. Len(tree.layers) >= 1 /\ Len(tree.layers) \in Nat
  BY <1>1, <1>6, TreeParts DEF ModelOK, StagesOK
<1>10. /\ TreeOK(t) /\ Extends(tree, t)
       /\ \A m \in Len(tree.nodes) + 1 .. Len(t.nodes) : ~t.nodes[m].invert
       /\ n \in 1 .. Len(t.nodes)
  BY <1>1, <1>3, <1>5, <1>7, <1>8, <1>9, PassThroughFacts
<1>11. t \in Trees /\ Len(tree.layers) + 1 \in 1 .. Len(t.channels)
  <2>1. t \in Trees /\ Len(t.channels) = Len(t.layers) + 1 /\ Len(t.layers) = Len(tree.layers)
    BY <1>10 DEF TreeOK, Shaped, Extends
  <2>2. QED BY <1>9, <2>1
<1>12. TreeOK(u) /\ Extends(t, u) /\ u.nodes = t.nodes
  BY <1>4, <1>7, <1>10, <1>11, FindOrMakeFacts
<1>13. u \in Trees
  BY <1>12 DEF TreeOK, Shaped
<1>14. Extends(tree, u)
  BY <1>1, <1>10, <1>11, <1>12, <1>13, ExtendsOn
<1>15. [node |-> n, iface |-> i] \in TopRecords
  <2>1. n \in Nat
    BY <1>10, <1>11, TreeParts
  <2>2. QED BY <2>1 DEF TopRecords
<1>16. TreeOK(tree') /\ tree'.layers = u.layers /\ tree'.nodes = u.nodes /\ tree'.bottom = u.bottom
  BY <1>6, <1>12, <1>15, TopFacts
<1>17. \A a, b : Made(u, a, b) = Made(tree, a, b)
  BY <1>1, <1>10, <1>12, <1>13, <1>14, MadeNoMore
<1>18. stage # "bottom" /\ ifaces' \subseteq ifaces
  BY <1>6
<1>19. QED BY ONLY <1>6, <1>14, <1>16, <1>17, <1>18, ModelOK, GrownOK

\* Where the nodes met so far are in a tree that has grown.
LEMMA KnownStays ==
    ASSUME ModelOK, NEW u, u \in Trees, Extends(tree, u)
    PROVE  /\ Len(u.layers) = Len(tree.layers) /\ u.bottom = tree.bottom
           /\ Len(tree.nodes) \in Nat /\ Len(u.nodes) \in Nat /\ Len(tree.nodes) <= Len(u.nodes)
           /\ \A v \in DOMAIN known :
                 /\ known[v] \in 0 .. Len(u.nodes)
                 /\ known[v] # NoParent => /\ u.nodes[known[v]].out = v
                                           /\ LayerOf(u, known[v]) = LayerOf(tree, known[v])
                                           /\ known[v] \in 1 .. Len(tree.nodes)
                                           /\ tree.nodes[known[v]].out = v
<1>1. tree \in Trees
  BY DEF ModelOK, TreeOK, Shaped
<1>2. /\ Len(u.layers) = Len(tree.layers) /\ u.bottom = tree.bottom
      /\ Len(tree.nodes) <= Len(u.nodes)
      /\ \A n \in 1 .. Len(tree.nodes) :
            u.nodes[n] = tree.nodes[n] /\ LayerOf(u, n) = LayerOf(tree, n)
  BY DEF Extends
<1>3. Len(tree.nodes) \in Nat /\ Len(u.nodes) \in Nat
  BY <1>1, TreeParts
<1>4. ASSUME NEW v \in DOMAIN known
      PROVE  /\ known[v] \in 0 .. Len(u.nodes)
             /\ known[v] # NoParent => /\ u.nodes[known[v]].out = v
                                       /\ LayerOf(u, known[v]) = LayerOf(tree, known[v])
                                       /\ known[v] \in 1 .. Len(tree.nodes)
                                       /\ tree.nodes[known[v]].out = v
  <2>1. known[v] \in 0 .. Len(tree.nodes) /\ (known[v] # NoParent => tree.nodes[known[v]].out = v)
    BY <1>4 DEF ModelOK, KnownOK
  <2>2. QED BY <1>2, <1>3, <2>1 DEF NoParent
<1>5. QED BY <1>2, <1>3, <1>4

\* The inverters out of a vertex, when they are to be processed.
LEMMA OutEdgesFacts ==
    ASSUME Attached(netlist), NEW v, v \in netlist.vertices, NEW f, f = OutEdges(v)
    PROVE  /\ DOMAIN f = Graph!Targets(netlist, v) /\ f = [w \in DOMAIN f |-> f[w]]
           /\ DOMAIN f \subseteq netlist.vertices
           /\ \A w \in DOMAIN f : f[w] \in Nat \ {0} /\ f[w] = netlist.edges[<<v, w>>]
           /\ \A w \in netlist.vertices \ DOMAIN f : netlist.edges[<<v, w>>] = 0
<1>1. /\ netlist.vertices \in SUBSET Vertices
      /\ netlist.edges \in [Vertices \X Vertices -> Nat]
      /\ \A w : w \in Graph!Targets(netlist, v) <=>
                      w \in netlist.vertices /\ netlist.edges[<<v, w>>] > 0
  BY NetlistFacts
<1>2. \A w \in netlist.vertices : netlist.edges[<<v, w>>] \in Nat
  BY <1>1
<1>3. DOMAIN f = Graph!Targets(netlist, v) /\ f = [w \in DOMAIN f |-> f[w]]
      /\ \A w \in DOMAIN f : f[w] = netlist.edges[<<v, w>>]
  BY DEF OutEdges
<1>4. \A w \in netlist.vertices : netlist.edges[<<v, w>>] > 0 <=> w \in DOMAIN f
  BY <1>1, <1>3
<1>5. \A w \in DOMAIN f : w \in netlist.vertices /\ f[w] \in Nat \ {0}
  <2>1. ASSUME NEW w \in DOMAIN f PROVE w \in netlist.vertices /\ f[w] \in Nat \ {0}
    <3>1. w \in netlist.vertices /\ netlist.edges[<<v, w>>] > 0
      BY <1>1, <1>3, <2>1
    <3>2. QED BY <1>2, <1>3, <2>1, <3>1
  <2>2. QED BY <2>1
<1>6. \A w \in netlist.vertices \ DOMAIN f : netlist.edges[<<v, w>>] = 0
  <2>1. ASSUME NEW w \in netlist.vertices \ DOMAIN f PROVE netlist.edges[<<v, w>>] = 0
    <3>1. netlist.edges[<<v, w>>] \in Nat /\ ~(netlist.edges[<<v, w>>] > 0)
      BY <1>2, <1>4, <2>1
    <3>2. QED BY <3>1
  <2>2. QED BY <2>1
<1>7. QED BY <1>3, <1>5, <1>6

\* processVertex counts the inverters that are to be made from its net.
LEMMA VertexOK ==
    ASSUME ModelOK, ProcessVertex
    PROVE  ModelOK'
<1>1. TreeOK(tree) /\ Attached(netlist) /\ tree \in Trees
  BY DEF ModelOK, TreeOK, Shaped
<1>2. PICK v, l, f : v = Head(lower) /\ l = Len(tree.layers) /\ f = OutEdges(v)
  OBVIOUS
<1>3. /\ stage = "layers" /\ lower # <<>> /\ DOMAIN edges = {}
      /\ known[v] # NoParent \/ l = 1
      /\ tree' = IF GroupOf(tree, v) # {} THEN tree
                 ELSE InsertNodeGroup(tree, l, Len(tree.layers[l]) + 1, v, known[v])
      /\ edges' = f
      /\ lower' = IF DOMAIN f = {} THEN Tail(lower) ELSE lower
      /\ netlist' = netlist /\ stage' = stage /\ known' = known /\ upper' = upper /\ ifaces' = ifaces
  BY <1>2 DEF ProcessVertex
<1>4. PICK D : D = DOMAIN known
  OBVIOUS
<1>5. /\ lower \in Seq(D) /\ upper \in Seq(D) /\ Distinct(lower) /\ Distinct(upper)
      /\ ToSet(lower) \cap ToSet(upper) = {} /\ D \subseteq netlist.vertices
  BY <1>4 DEF ModelOK, FrontOK, KnownOK
<1>6. /\ Tail(lower) \in Seq(D) /\ Distinct(Tail(lower)) /\ v \in ToSet(lower) /\ v \in D
      /\ ToSet(Tail(lower)) = ToSet(lower) \ {v}
  BY <1>2, <1>3, <1>5, DistinctTail
<1>7. v \in netlist.vertices /\ v \in Vertices
  BY <1>1, <1>5, <1>6, NetlistFacts
<1>8. l \in Nat /\ l >= 1 /\ l \in 1 .. Len(tree.layers) /\ Len(tree.layers[l]) \in Nat
      /\ Len(tree.layers[l]) + 1 \in 1 .. Len(tree.layers[l]) + 1
  <2>1. l \in Nat /\ l >= 1
    BY <1>1, <1>2, <1>3, TreeParts DEF ModelOK, EdgesOK
  <2>2. l \in 1 .. Len(tree.layers)
    BY <1>2, <2>1
  <2>3. Len(tree.layers[l]) \in Nat
    BY <1>1, <2>2, TreeParts
  <2>4. QED BY <2>1, <2>2, <2>3
<1>9. known[v] # NoParent =>
        /\ known[v] \in 1 .. Len(tree.nodes) /\ LayerOf(tree, known[v]) = l - 1
        /\ tree.nodes[known[v]].out = v
  <2>1. Extends(tree, tree)
    BY <1>1, ExtendsSelf
  <2>2. known[v] # NoParent => known[v] \in 1 .. Len(tree.nodes) /\ tree.nodes[known[v]].out = v
    BY <1>1, <1>4, <1>6, <2>1, KnownStays
  <2>3. known[v] # NoParent => LayerOf(tree, known[v]) = l - 1
    BY <1>2, <1>6 DEF ModelOK, FrontOK
  <2>4. QED BY <2>2, <2>3
<1>10. known[v] \in Nat
  <2>1. known[v] \in 0 .. Len(tree.nodes)
    BY <1>4, <1>6 DEF ModelOK, KnownOK
  <2>2. QED BY <2>1
<1>11. TreeOK(tree') /\ Extends(tree, tree') /\ tree'.nodes = tree.nodes
       /\ InputToGroup(tree', v, known[v]) # {}
  <2>1. CASE GroupOf(tree, v) # {}
    <3>1. tree' = tree
      BY <1>3, <2>1
    <3>2. QED BY <1>1, <2>1, <3>1, ExtendsSelf DEF GroupOf
  <2>2. CASE GroupOf(tree, v) = {}
    <3>1. PICK g, p, u : g = Len(tree.layers[l]) + 1 /\ p = known[v] /\ u = tree'
      OBVIOUS
    <3>2. u = InsertNodeGroup(tree, l, g, v, p) /\ g \in 1 .. Len(tree.layers[l]) + 1 /\ p \in Nat
      BY <1>3, <1>8, <1>10, <2>2, <3>1
    <3>3. /\ TreeOK(u) /\ Extends(tree, u) /\ u.nodes = tree.nodes
          /\ <<l, g>> \in Places(u)
          /\ GroupAt(u, <<l, g>>) = [net |-> v, parent |-> p, nodes |-> <<>>]
      BY SMTT(30), <1>1, <1>7, <1>8, <1>9, <3>1, <3>2, InsertNodeGroupFacts
    <3>4. GroupAt(u, <<l, g>>).net = v /\ GroupAt(u, <<l, g>>).parent = p /\ <<l, g>>[1] = l
      BY <3>3
    <3>5. CASE p # NoParent
      BY <3>1, <3>3, <3>4, <3>5 DEF InputToGroup, Child, Bottom, NoParent
    <3>6. CASE p = NoParent
      <4>1. l = 1
        BY <1>3, <3>1, <3>6
      <4>2. QED BY <3>1, <3>3, <3>4, <3>6, <4>1 DEF InputToGroup, Bottom, NoParent
    <3>7. QED BY <3>1, <3>3, <3>5, <3>6
  <2>3. QED BY <2>1, <2>2
<1>12. tree' \in Trees
  BY <1>11 DEF TreeOK, Shaped
<1>13. /\ Len(tree'.layers) = l /\ tree'.bottom = tree.bottom
       /\ \A w \in D :
             /\ known[w] \in 0 .. Len(tree'.nodes)
             /\ known[w] # NoParent => /\ tree'.nodes[known[w]].out = w
                                       /\ LayerOf(tree', known[w]) = LayerOf(tree, known[w])
  BY <1>2, <1>4, <1>11, <1>12, KnownStays
<1>14. /\ DOMAIN f = Graph!Targets(netlist, v) /\ f = [w \in DOMAIN f |-> f[w]]
       /\ DOMAIN f \subseteq netlist.vertices
       /\ \A w \in DOMAIN f : f[w] \in Nat \ {0} /\ f[w] = netlist.edges[<<v, w>>]
       /\ \A w \in netlist.vertices \ DOMAIN f : netlist.edges[<<v, w>>] = 0
  BY <1>1, <1>2, <1>7, OutEdgesFacts
<1>15. ToSet(lower') = IF DOMAIN f = {} THEN ToSet(lower) \ {v} ELSE ToSet(lower)
  BY <1>3, <1>6
<1>16. KnownOK'
  BY <1>3, <1>4, <1>13 DEF ModelOK, KnownOK
<1>17. FrontOK'
  <2>1. lower' \in Seq(D) /\ Distinct(lower') /\ ToSet(lower') \subseteq ToSet(lower)
    BY <1>3, <1>5, <1>6, <1>15
  <2>2. ToSet(lower) \subseteq D /\ ToSet(upper) \subseteq D
    BY <1>5 DEF ToSet
  <2>3. \A w \in ToSet(upper) : known[w] # NoParent => LayerOf(tree', known[w]) = l
    BY <1>2, <1>13, <2>2 DEF ModelOK, FrontOK
  <2>4. \A w \in ToSet(lower) : known[w] # NoParent => LayerOf(tree', known[w]) = l - 1
    BY <1>2, <1>13, <2>2 DEF ModelOK, FrontOK
  <2>5. QED BY <1>3, <1>4, <1>5, <1>13, <2>1, <2>3, <2>4 DEF FrontOK
<1>18. EdgesOK'
  <2>1. DOMAIN f # {} => lower' = lower
    BY <1>3
  <2>2. QED BY ZenonT(30), <1>2, <1>3, <1>8, <1>11, <1>13, <1>14, <2>1 DEF EdgesOK, GroupOf
<1>19. CountOK'
  <2>1. ASSUME NEW a \in netlist.vertices, NEW b \in netlist.vertices
        PROVE  Remaining(a, b)' = Remaining(a, b)
    <3>1. CASE a \in ToSet(upper) \/ a \notin D
      BY <1>3, <1>4, <3>1 DEF Remaining
    <3>2. CASE a \notin ToSet(upper) /\ a \in D /\ a # v
      <4>1. a \in ToSet(lower') <=> a \in ToSet(lower)
        BY <1>15, <3>2
      <4>2. Remaining(a, b) = IF a \notin ToSet(lower) THEN 0 ELSE netlist.edges[<<a, b>>]
        BY <1>3, <1>4, <3>2 DEF Remaining
      <4>3. a = Head(lower') => DOMAIN f = {}
        BY <1>2, <1>3, <3>2
      <4>4. Remaining(a, b)' = IF a \notin ToSet(lower') THEN 0 ELSE netlist.edges[<<a, b>>]
        BY <1>3, <1>4, <3>2, <4>3 DEF Remaining
      <4>5. QED BY <4>1, <4>2, <4>4
    <3>3. CASE a = v
      <4>1. v \notin ToSet(upper)
        BY <1>5, <1>6
      <4>2. Remaining(a, b) = netlist.edges[<<v, b>>]
        BY <1>3, <1>4, <1>6, <3>3, <4>1 DEF Remaining
      <4>3. CASE DOMAIN f = {}
        <5>1. v \notin ToSet(lower') /\ netlist.edges[<<v, b>>] = 0
          BY <1>14, <1>15, <4>3
        <5>2. Remaining(a, b)' = 0
          BY <1>3, <1>4, <1>6, <3>3, <4>1, <5>1 DEF Remaining
        <5>3. QED BY <4>2, <5>1, <5>2
      <4>4. CASE DOMAIN f # {}
        <5>1. v \in ToSet(lower') /\ v = Head(lower') /\ DOMAIN edges' # {}
          BY <1>2, <1>3, <1>6, <1>15, <4>4
        <5>2. Remaining(a, b)' = IF b \in DOMAIN f THEN f[b] ELSE 0
          BY <1>3, <1>4, <1>6, <3>3, <4>1, <5>1 DEF Remaining
        <5>3. QED BY <1>14, <4>2, <5>2
      <4>5. QED BY <4>3, <4>4
    <3>4. QED BY <3>1, <3>2, <3>3
  <2>2. \A a, b : Made(tree', a, b) = Made(tree, a, b)
    BY <1>11 DEF Made
  <2>3. ASSUME NEW a \in netlist.vertices, NEW b \in netlist.vertices
        PROVE  Cardinality(Made(tree', a, b)) + Remaining(a, b)' = netlist.edges[<<a, b>>]
    <3>1. Cardinality(Made(tree, a, b)) + Remaining(a, b) = netlist.edges[<<a, b>>]
      BY DEF ModelOK, CountOK
    <3>2. QED BY <2>1, <2>2, <3>1
  <2>4. QED BY <1>3, <2>3 DEF CountOK
<1>20. FollowedOK'
  <2>1. ASSUME NEW a \in D \ ToSet(upper)
        PROVE  IF a \in ToSet(lower')
               THEN a = Head(lower') /\ DOMAIN f # {} => Graph!Targets(netlist, a) \subseteq D \cup DOMAIN f
               ELSE Graph!Targets(netlist, a) \subseteq D
    <3>1. CASE a = v
      <4>1. Graph!Targets(netlist, a) = DOMAIN f
        BY <1>14, <3>1
      <4>2. a \in ToSet(lower') <=> DOMAIN f # {}
        BY <1>6, <1>15, <3>1
      <4>3. QED BY <4>1, <4>2
    <3>2. CASE a # v
      <4>1. a = Head(lower') => DOMAIN f = {}
        BY <1>2, <1>3, <3>2
      <4>2. a \in ToSet(lower') <=> a \in ToSet(lower)
        BY <1>15, <3>2
      <4>3. a \notin ToSet(lower) => Graph!Targets(netlist, a) \subseteq D
        BY <1>4 DEF ModelOK, FollowedOK
      <4>4. QED BY <4>1, <4>2, <4>3
    <3>3. QED BY <3>1, <3>2
  <2>2. QED BY <1>3, <1>4, <2>1 DEF FollowedOK
<1>21. ReachedOK'
  BY <1>3 DEF ModelOK, ReachedOK
<1>22. BottomOK'
  <2>1. ASSUME NEW b \in 1 .. Len(tree.bottom)
        PROVE  LET w == tree.bottom[b].net
               IN  /\ w \in D /\ known[w] = NoParent
                   /\ w \notin ToSet(lower') \cup ToSet(upper) => InputToGroup(tree', w, Bottom) # {}
    <3>1. PICK w : w = tree.bottom[b].net
      OBVIOUS
    <3>2. /\ w \in D /\ known[w] = NoParent
          /\ w \notin ToSet(lower) \cup ToSet(upper) => InputToGroup(tree, w, Bottom) # {}
      BY <1>4, <3>1 DEF ModelOK, BottomOK
    <3>3. CASE w = v
      BY <1>11, <3>1, <3>2, <3>3 DEF NoParent, Bottom
    <3>4. CASE w # v
      <4>1. w \in ToSet(lower') <=> w \in ToSet(lower)
        BY <1>15, <3>4
      <4>2. QED BY <1>11, <3>1, <3>2, <4>1, GroupStays
    <3>5. QED BY <3>3, <3>4
  <2>2. QED BY <1>3, <1>4, <1>13, <2>1 DEF BottomOK
<1>23. StagesOK'
  BY <1>2, <1>3, <1>8, <1>13 DEF ModelOK, StagesOK
<1>24. QED
  BY <1>1, <1>3, <1>11, <1>16, <1>17, <1>18, <1>19, <1>20, <1>21, <1>22, <1>23 DEF ModelOK

\* One more inverter of the current vertex is made, whatever else it takes.
LEMMA EdgeMade ==
    ASSUME ModelOK, stage = "layers", DOMAIN edges # {}, AfterEdge,
           TreeOK(tree'), Extends(tree, tree'),
           \A a, b : Cardinality(Made(tree', a, b)) =
                        Cardinality(Made(tree, a, b)) + IF a = Head(lower) /\ b = NextTarget THEN 1 ELSE 0,
           NEW k, k \in 0 .. Len(tree'.nodes),
           \/ NextTarget \in DOMAIN known /\ UNCHANGED <<known, upper>>
           \/ /\ NextTarget \notin DOMAIN known
              /\ known' = Emplace(NextTarget, k)
              /\ k # NoParent => /\ tree'.nodes[k].out = NextTarget
                                 /\ LayerOf(tree', k) = Len(tree.layers)
              /\ upper' = IF Graph!Targets(netlist, NextTarget) # {} THEN Append(upper, NextTarget)
                          ELSE upper
    PROVE  ModelOK'
<1>1. TreeOK(tree) /\ Attached(netlist) /\ tree \in Trees /\ tree' \in Trees
  BY DEF ModelOK, TreeOK, Shaped
<1>2. PICK v, w, r, l, D, E : /\ v = Head(lower) /\ w = NextTarget /\ r = WithoutNext
                              /\ l = Len(tree.layers) /\ D = DOMAIN known /\ E = DOMAIN known'
  OBVIOUS
<1>3. /\ edges' = r /\ lower' = IF DOMAIN r = {} THEN Tail(lower) ELSE lower
      /\ netlist' = netlist /\ stage' = stage /\ ifaces' = ifaces
  BY <1>2 DEF AfterEdge
<1>4. /\ lower \in Seq(D) /\ upper \in Seq(D) /\ Distinct(lower) /\ Distinct(upper)
      /\ ToSet(lower) \cap ToSet(upper) = {} /\ D \subseteq netlist.vertices
      /\ lower # <<>> /\ GroupOf(tree, v) # {} /\ l >= 1
  BY <1>2 DEF ModelOK, FrontOK, KnownOK, EdgesOK
<1>5. /\ Tail(lower) \in Seq(D) /\ Distinct(Tail(lower)) /\ v \in ToSet(lower) /\ v \in D
      /\ ToSet(Tail(lower)) = ToSet(lower) \ {v} /\ ToSet(lower) \subseteq D
  BY <1>2, <1>4, DistinctTail
<1>6. v \notin ToSet(upper) /\ ToSet(upper) \subseteq D
  <2>1. \A i \in DOMAIN upper : upper[i] \in D
    BY ONLY <1>4
  <2>2. ToSet(upper) \subseteq D
    BY ONLY <2>1 DEF ToSet
  <2>3. v \notin ToSet(upper)
    BY ONLY <1>4, <1>5
  <2>4. QED BY ONLY <2>2, <2>3
<1>7. ToSet(lower') = IF DOMAIN r = {} THEN ToSet(lower) \ {v} ELSE ToSet(lower)
  BY <1>3, <1>5
<1>8. /\ w \in DOMAIN edges /\ w \in netlist.vertices
      /\ DOMAIN r \subseteq DOMAIN edges /\ DOMAIN edges \subseteq DOMAIN r \cup {w}
      /\ r = [b \in DOMAIN r |-> r[b]]
      /\ \A b \in DOMAIN r : r[b] \in Nat \ {0}
      /\ \A b : (IF b \in DOMAIN r THEN r[b] ELSE 0) =
                   (IF b \in DOMAIN edges THEN edges[b] ELSE 0) - (IF b = w THEN 1 ELSE 0)
  BY <1>1, <1>2, WithoutNextFacts DEF ModelOK
<1>9. /\ Len(tree'.layers) = l /\ tree'.bottom = tree.bottom
      /\ \A a \in D :
            /\ known[a] \in 0 .. Len(tree'.nodes)
            /\ known[a] # NoParent => /\ tree'.nodes[known[a]].out = a
                                      /\ LayerOf(tree', known[a]) = LayerOf(tree, known[a])
  BY <1>1, <1>2, KnownStays
<1>10. /\ E = D \cup {w} /\ \A a \in D : known'[a] = known[a]
       /\ known' = [a \in E |-> known'[a]]
       /\ E = D \/ /\ w \notin D /\ known'[w] = k
                   /\ k # NoParent => tree'.nodes[k].out = w /\ LayerOf(tree', k) = l
  <2>1. CASE w \in D /\ known' = known
    BY <1>2, <2>1 DEF ModelOK, KnownOK
  <2>2. CASE w \notin D /\ known' = Emplace(w, k)
    <3>1. PICK f, h : f = known /\ h = known'
      OBVIOUS
    <3>2. h = Over(f, Single(w, k)) /\ w \notin DOMAIN f
      BY <1>2, <2>2, <3>1 DEF Emplace
    <3>3. /\ DOMAIN h = DOMAIN f \cup {w} /\ h = [z \in DOMAIN h |-> h[z]]
          /\ \A z \in DOMAIN f : h[z] = f[z]
      BY ONLY <3>2 DEF Over, Single
    <3>4. h[w] = k
      BY ONLY <3>2 DEF Over, Single
    <3>5. k # NoParent => tree'.nodes[k].out = w /\ LayerOf(tree', k) = l
      BY <1>2, <2>2
    <3>6. QED BY <1>2, <2>2, <3>1, <3>3, <3>4, <3>5
  <2>3. QED BY <1>2, <2>1, <2>2
<1>11. upper' = upper \/ (upper' = Append(upper, w) /\ w \notin D)
  BY <1>2
<1>12. upper' # upper \/ w \in D \/ Graph!Targets(netlist, w) = {}
  BY <1>2
<1>13. /\ upper' \in Seq(E) /\ Distinct(upper')
       /\ ToSet(upper') = IF upper' = upper THEN ToSet(upper) ELSE ToSet(upper) \cup {w}
       /\ lower' \in Seq(E) /\ Distinct(lower') /\ ToSet(lower') \subseteq ToSet(lower)
  <2>1. upper \in Seq(E) /\ lower \in Seq(E) /\ Tail(lower) \in Seq(E) /\ w \in E
    BY <1>4, <1>5, <1>10
  <2>2. /\ lower' \in Seq(E) /\ Distinct(lower') /\ ToSet(lower') \subseteq ToSet(lower)
    BY <1>3, <1>4, <1>5, <1>7, <2>1
  <2>3. CASE upper' = upper
    BY <1>4, <2>1, <2>2, <2>3
  <2>4. CASE upper' # upper
    <3>1. upper' = Append(upper, w) /\ w \notin ToSet(upper)
      BY <1>6, <1>11, <2>4
    <3>2. PICK s, t : s = upper /\ t = upper'
      OBVIOUS
    <3>3. s \in Seq(E) /\ Distinct(s) /\ w \in E /\ w \notin ToSet(s) /\ t = Append(s, w)
      BY <1>4, <2>1, <3>1, <3>2
    <3>4. t \in Seq(E) /\ ToSet(t) = ToSet(s) \cup {w} /\ Distinct(t)
      BY ONLY <3>3, DistinctAppend
    <3>5. QED BY <2>2, <2>4, <3>2, <3>4
  <2>5. QED BY <2>3, <2>4
<1>14. \A a \in D : a \in ToSet(upper') <=> a \in ToSet(upper)
  BY <1>6, <1>11, <1>13
<1>15. KnownOK'
  <2>1. E \subseteq netlist.vertices
    BY <1>4, <1>8, <1>10
  <2>2. ASSUME NEW a \in E
        PROVE  known'[a] \in 0 .. Len(tree'.nodes) /\ (known'[a] # NoParent => tree'.nodes[known'[a]].out = a)
    <3>1. CASE a \in D
      BY <1>9, <1>10, <3>1
    <3>2. CASE a \notin D
      BY <1>10, <3>2
    <3>3. QED BY <3>1, <3>2
  <2>3. QED BY <1>2, <1>3, <1>10, <2>1, <2>2 DEF KnownOK
<1>16. FrontOK'
  <2>1. ASSUME NEW a \in ToSet(upper'), known'[a] # NoParent PROVE LayerOf(tree', known'[a]) = l
    <3>1. CASE a \in D
      <4>1. a \in ToSet(upper)
        BY <1>14, <2>1, <3>1
      <4>2. known[a] # NoParent => LayerOf(tree, known[a]) = l
        BY <1>2, <4>1 DEF ModelOK, FrontOK
      <4>3. QED BY <1>9, <1>10, <2>1, <3>1, <4>2
    <3>2. CASE a \notin D
      <4>1. a = w /\ E # D
        BY <1>6, <1>10, <1>13, <2>1, <3>2
      <4>2. QED BY <1>10, <2>1, <4>1
    <3>3. QED BY <3>1, <3>2
  <2>2. ASSUME NEW a \in ToSet(lower'), known'[a] # NoParent PROVE LayerOf(tree', known'[a]) = l - 1
    <3>1. a \in ToSet(lower) /\ a \in D
      BY <1>5, <1>13, <2>2
    <3>2. known[a] # NoParent => LayerOf(tree, known[a]) = l - 1
      BY <1>2, <3>1 DEF ModelOK, FrontOK
    <3>3. QED BY <1>9, <1>10, <2>2, <3>1, <3>2
  <2>3. ToSet(lower') \cap ToSet(upper') = {}
    BY <1>4, <1>5, <1>13, <1>14
  <2>4. QED BY <1>2, <1>9, <1>13, <2>1, <2>2, <2>3 DEF FrontOK
<1>17. ASSUME NEW a, NEW n, InputToGroup(tree, a, n) # {} PROVE InputToGroup(tree', a, n) # {}
  BY <1>17, GroupStays
<1>18. EdgesOK'
  <2>1. DOMAIN r # {} => lower' = lower
    BY <1>3
  <2>2. InputToGroup(tree', v, known'[v]) # {}
    BY <1>4, <1>5, <1>10, <1>17 DEF GroupOf
  <2>3. DOMAIN r \subseteq netlist.vertices
    BY <1>8 DEF ModelOK, EdgesOK
  <2>4. stage' = "layers" /\ Len(tree'.layers) >= 1
    BY <1>3, <1>4, <1>9
  <2>5. DOMAIN r # {} => lower' # <<>> /\ Head(lower') = v
    BY <1>2, <1>4, <2>1
  <2>6. known'[v] # NoParent \/ Len(tree'.layers) = 1
    BY <1>2, <1>5, <1>9, <1>10 DEF ModelOK, EdgesOK
  <2>7. QED BY ZenonT(30), <1>3, <1>8, <2>2, <2>3, <2>4, <2>5, <2>6 DEF EdgesOK, GroupOf
<1>19. CountOK'
  <2>1. ASSUME NEW a \in netlist.vertices, NEW b \in netlist.vertices
        PROVE  Remaining(a, b)' = Remaining(a, b) - IF a = v /\ b = w THEN 1 ELSE 0
    <3>1. netlist.edges[<<a, b>>] \in Nat /\ (b \notin Graph!Targets(netlist, a) => ~(netlist.edges[<<a, b>>] > 0))
      <4>1. netlist.vertices \in SUBSET Vertices /\ netlist.edges \in [Vertices \X Vertices -> Nat]
            /\ (b \in Graph!Targets(netlist, a) <=> b \in netlist.vertices /\ netlist.edges[<<a, b>>] > 0)
        BY <1>1, NetlistFacts
      <4>2. QED BY <4>1
    <3>2. CASE a \in ToSet(upper) \/ a \notin E
      <4>1. a \in ToSet(upper') \/ a \notin E
        BY <1>13, <3>2
      <4>2. a \in ToSet(upper) \/ a \notin D
        BY <1>10, <3>2
      <4>3. Remaining(a, b)' = netlist.edges[<<a, b>>]
        BY <1>2, <1>3, <4>1 DEF Remaining
      <4>4. Remaining(a, b) = netlist.edges[<<a, b>>]
        BY <1>2, <4>2 DEF Remaining
      <4>5. a # v
        BY <1>5, <1>6, <4>2
      <4>6. QED BY <3>1, <4>3, <4>4, <4>5
    <3>3. CASE a \in E \ D
      <4>1. a = w /\ w \notin D /\ a # v /\ a \notin ToSet(lower') /\ a \notin ToSet(upper)
        BY <1>5, <1>6, <1>10, <1>13, <3>3
      <4>2. Remaining(a, b) = netlist.edges[<<a, b>>]
        BY <1>2, <4>1 DEF Remaining
      <4>3. CASE upper' # upper
        <5>1. Remaining(a, b)' = netlist.edges[<<a, b>>]
          BY <1>2, <1>3, <1>13, <4>1, <4>3 DEF Remaining
        <5>2. QED BY <3>1, <4>1, <4>2, <5>1
      <4>4. CASE upper' = upper
        <5>1. Graph!Targets(netlist, w) = {}
          BY <1>12, <4>1, <4>4
        <5>2. netlist.edges[<<a, b>>] = 0
          BY <3>1, <4>1, <5>1
        <5>3. Remaining(a, b)' = 0
          BY <1>2, <1>3, <3>3, <4>1, <4>4 DEF Remaining
        <5>4. Remaining(a, b) = 0 /\ ~(a = v /\ b = w)
          BY <4>1, <4>2, <5>2
        <5>5. PICK d : d = IF a = v /\ b = w THEN 1 ELSE 0
          OBVIOUS
        <5>6. d = 0 /\ 0 - 0 = 0
          BY ONLY <5>4, <5>5
        <5>7. Remaining(a, b)' = Remaining(a, b) - d
          BY ONLY <5>3, <5>4, <5>6
        <5>8. QED BY ONLY <5>5, <5>7
      <4>5. QED BY <4>3, <4>4
    <3>4. CASE a \in D \ ToSet(upper) /\ a # v
      <4>1. a \in ToSet(lower') <=> a \in ToSet(lower)
        BY <1>7, <3>4
      <4>2. Remaining(a, b) = IF a \notin ToSet(lower) THEN 0 ELSE netlist.edges[<<a, b>>]
        BY <1>2, <3>4 DEF Remaining
      <4>3. a = Head(lower') => DOMAIN r = {}
        BY <1>2, <1>3, <3>4
      <4>4. a \in E /\ a \notin ToSet(upper')
        BY <1>10, <1>14, <3>4
      <4>5. Remaining(a, b)' = IF a \notin ToSet(lower') THEN 0 ELSE netlist.edges[<<a, b>>]
        BY <1>2, <1>3, <4>3, <4>4 DEF Remaining
      <4>6. QED BY <3>1, <3>4, <4>1, <4>2, <4>5
    <3>5. CASE a = v
      <4>1. Remaining(a, b) = IF b \in DOMAIN edges THEN edges[b] ELSE 0
        BY <1>2, <1>5, <1>6, <3>5 DEF Remaining
      <4>2. v \in E /\ v \notin ToSet(upper')
        BY <1>5, <1>6, <1>10, <1>14
      <4>3. Remaining(a, b)' = IF b \in DOMAIN r THEN r[b] ELSE 0
        <5>1. CASE DOMAIN r = {}
          <6>1. v \notin ToSet(lower')
            BY <1>7, <5>1
          <6>2. QED BY <1>2, <1>3, <3>5, <4>2, <5>1, <6>1 DEF Remaining
        <5>2. CASE DOMAIN r # {}
          <6>1. v \in ToSet(lower') /\ v = Head(lower')
            BY <1>2, <1>3, <1>5, <1>7, <5>2
          <6>2. QED BY <1>2, <1>3, <3>5, <4>2, <5>2, <6>1 DEF Remaining
        <5>3. QED BY <5>1, <5>2
      <4>4. QED BY <1>8, <3>5, <4>1, <4>3
    <3>6. QED BY <3>2, <3>3, <3>4, <3>5
  <2>2. ASSUME NEW a \in netlist.vertices, NEW b \in netlist.vertices
        PROVE  Cardinality(Made(tree', a, b)) + Remaining(a, b)' = netlist.edges[<<a, b>>]
    <3>1. Cardinality(Made(tree, a, b)) + Remaining(a, b) = netlist.edges[<<a, b>>]
      BY DEF ModelOK, CountOK
    <3>2. Cardinality(Made(tree', a, b)) = Cardinality(Made(tree, a, b)) + IF a = v /\ b = w THEN 1 ELSE 0
      BY <1>2
    <3>3. Cardinality(Made(tree, a, b)) \in Nat
      BY <1>1, MadeFinite
    <3>4. Remaining(a, b) \in Int
      <4>1. netlist.vertices \in SUBSET Vertices /\ netlist.edges \in [Vertices \X Vertices -> Nat]
        BY <1>1, NetlistFacts
      <4>2. netlist.edges[<<a, b>>] \in Nat
        BY <4>1
      <4>3. b \in DOMAIN edges => edges[b] \in Nat
        BY DEF ModelOK, EdgesOK
      <4>4. QED BY <4>2, <4>3 DEF Remaining
    <3>5. QED BY <2>1, <3>1, <3>2, <3>3, <3>4
  <2>3. QED BY <1>3, <2>2 DEF CountOK
<1>20. FollowedOK'
  <2>1. ASSUME NEW a \in E \ ToSet(upper')
        PROVE  IF a \in ToSet(lower')
               THEN a = Head(lower') /\ DOMAIN r # {} => Graph!Targets(netlist, a) \subseteq E \cup DOMAIN r
               ELSE Graph!Targets(netlist, a) \subseteq E
    <3>1. CASE a = v
      <4>1. Graph!Targets(netlist, v) \subseteq D \cup DOMAIN edges
        BY <1>2, <1>5, <1>6 DEF ModelOK, FollowedOK
      <4>2. Graph!Targets(netlist, v) \subseteq E \cup DOMAIN r
        BY <1>8, <1>10, <4>1
      <4>3. a \notin ToSet(lower') => DOMAIN r = {}
        BY <1>5, <1>7, <3>1
      <4>4. QED BY <3>1, <4>2, <4>3
    <3>2. CASE a \in D /\ a # v
      <4>1. a = Head(lower') => DOMAIN r = {}
        BY <1>2, <1>3, <3>2
      <4>2. a \in ToSet(lower') <=> a \in ToSet(lower)
        BY <1>7, <3>2
      <4>3. a \notin ToSet(upper)
        BY <1>14, <2>1, <3>2
      <4>4. a \notin ToSet(lower) => Graph!Targets(netlist, a) \subseteq D
        BY <1>2, <3>2, <4>3 DEF ModelOK, FollowedOK
      <4>5. QED BY <1>10, <4>1, <4>2, <4>4
    <3>3. CASE a \notin D
      <4>1. a = w /\ w \notin D /\ upper' = upper
        BY <1>10, <1>13, <2>1, <3>3
      <4>2. Graph!Targets(netlist, a) = {}
        BY <1>12, <4>1
      <4>3. QED BY <4>2
    <3>4. QED BY <3>1, <3>2, <3>3
  <2>2. QED BY <1>2, <1>3, <2>1 DEF FollowedOK
<1>21. ReachedOK'
  <2>1. \A S \in SUBSET netlist.vertices : E \subseteq S /\ Closed(netlist, S) => S = netlist.vertices
    <3>1. \A S \in SUBSET netlist.vertices : D \subseteq S /\ Closed(netlist, S) => S = netlist.vertices
      BY <1>2 DEF ModelOK, ReachedOK
    <3>2. QED BY <1>10, <3>1
  <2>2. QED BY <1>2, <1>3, <2>1 DEF ReachedOK
<1>22. BottomOK'
  <2>1. ASSUME NEW b \in 1 .. Len(tree.bottom)
        PROVE  LET c == tree.bottom[b].net
               IN  /\ c \in E /\ known'[c] = NoParent
                   /\ c \notin ToSet(lower') \cup ToSet(upper') => InputToGroup(tree', c, Bottom) # {}
    <3>1. PICK c : c = tree.bottom[b].net
      OBVIOUS
    <3>2. /\ c \in D /\ known[c] = NoParent
          /\ c \notin ToSet(lower) \cup ToSet(upper) => InputToGroup(tree, c, Bottom) # {}
      BY <1>2, <3>1 DEF ModelOK, BottomOK
    <3>3. c \in E /\ known'[c] = NoParent
      BY <1>10, <3>2
    <3>4. CASE c = v
      <4>1. InputToGroup(tree, v, Bottom) # {}
        BY <1>4, <3>2, <3>4 DEF GroupOf, NoParent, Bottom
      <4>2. QED BY <1>17, <3>1, <3>3, <3>4, <4>1
    <3>5. CASE c # v
      <4>1. c \in ToSet(lower') <=> c \in ToSet(lower)
        BY <1>7, <3>5
      <4>2. QED BY <1>14, <1>17, <3>1, <3>2, <3>3, <4>1
    <3>6. QED BY <3>4, <3>5
  <2>2. QED BY <1>2, <1>9, <2>1 DEF BottomOK
<1>23. StagesOK'
  <2>1. Len(tree'.layers) >= 1
    BY <1>4, <1>9
  <2>2. QED BY <1>3, <2>1 DEF ModelOK, StagesOK
<1>24. QED
  BY <1>1, <1>3, <1>15, <1>16, <1>18, <1>19, <1>20, <1>21, <1>22, <1>23 DEF ModelOK

\* The group the current vertex's inverters are put in.
LEMMA CurrentGroup ==
    ASSUME ModelOK, DOMAIN edges # {}, NEW v, v = Head(lower),
           NEW p, p = CHOOSE q \in GroupOf(tree, v) : TRUE
    PROVE  /\ p \in Places(tree) /\ GroupAt(tree, p).net = v /\ p[1] = Len(tree.layers)
           /\ Len(tree.layers) >= 1 /\ Len(tree.layers) \in Nat /\ v \in DOMAIN known
<1>1. TreeOK(tree) /\ tree \in Trees
  BY DEF ModelOK, TreeOK, Shaped
<1>2. /\ lower # <<>> /\ stage = "layers" /\ GroupOf(tree, v) # {} /\ Len(tree.layers) >= 1
      /\ known[v] # NoParent \/ Len(tree.layers) = 1
  BY DEF ModelOK, EdgesOK
<1>3. p \in InputToGroup(tree, v, known[v])
  BY <1>2 DEF GroupOf
<1>4. v \in ToSet(lower) /\ v \in DOMAIN known
  <2>1. PICK D : D = DOMAIN known
    OBVIOUS
  <2>2. lower \in Seq(D) /\ Distinct(lower)
    BY <2>1 DEF ModelOK, FrontOK
  <2>3. QED BY <1>2, <2>1, <2>2, DistinctTail
<1>5. Len(tree.layers) \in Nat
  BY <1>1, TreeParts
<1>6. CASE known[v] = NoParent
  <2>1. p \in Places(tree) /\ p[1] = 1 /\ GroupAt(tree, p).net = v
    <3>1. p \in InputToGroup(tree, v, Bottom)
      BY <1>3, <1>6 DEF NoParent, Bottom
    <3>2. InputToGroup(tree, v, Bottom) =
            {q \in Places(tree) : q[1] = 1 /\ GroupAt(tree, q).net = v}
      BY DEF InputToGroup
    <3> HIDE DEF Bottom
    <3>3. QED BY ONLY <3>1, <3>2
  <2>2. QED BY <1>2, <1>4, <1>5, <1>6, <2>1
<1>7. CASE known[v] # NoParent
  <2>1. p \in Places(tree) /\ GroupAt(tree, p).parent = known[v]
    BY <1>3, <1>7 DEF InputToGroup, Child, NoParent, Bottom
  <2>2. LayerOf(tree, known[v]) = p[1] - 1 /\ tree.nodes[known[v]].out = GroupAt(tree, p).net
    BY <1>1, <1>7, <2>1 DEF TreeOK, Hung
  <2>3. tree.nodes[known[v]].out = v
    BY <1>4, <1>7 DEF ModelOK, KnownOK
  <2>4. LayerOf(tree, known[v]) = Len(tree.layers) - 1
    BY <1>4, <1>7 DEF ModelOK, FrontOK
  <2>5. p[1] \in Nat
    BY <1>1, <2>1, PlaceFacts
  <2>6. p[1] = Len(tree.layers)
    BY <1>5, <2>2, <2>4, <2>5
  <2>7. QED BY <1>2, <1>4, <1>5, <2>1, <2>2, <2>3, <2>6
<1>8. QED BY <1>6, <1>7

\* processEdge makes one of them; its net is known from then on.
LEMMA EdgeOK ==
    ASSUME ModelOK, ProcessEdge
    PROVE  ModelOK'
<1>1. TreeOK(tree) /\ Attached(netlist) /\ tree \in Trees
  BY DEF ModelOK, TreeOK, Shaped
<1>2. PICK v, w, p, m : /\ v = Head(lower) /\ w = NextTarget /\ m = Len(tree.nodes) + 1
                        /\ p = CHOOSE q \in GroupOf(tree, v) : TRUE
  OBVIOUS
<1>3. PICK k : k = IF Graph!Targets(netlist, w) # {} THEN m ELSE NoParent
  OBVIOUS
<1>4. /\ stage = "layers" /\ DOMAIN edges # {} /\ w \notin DOMAIN known
      /\ tree' = MakeInverter(tree, p, w)
      /\ known' = Emplace(w, k)
      /\ upper' = IF Graph!Targets(netlist, w) # {} THEN Append(upper, w) ELSE upper
      /\ AfterEdge
  BY <1>2, <1>3 DEF ProcessEdge
<1>5. p \in Places(tree) /\ GroupAt(tree, p).net = v /\ p[1] = Len(tree.layers)
  BY <1>2, <1>4, CurrentGroup
<1>6. w \in Vertices
  <2>1. w \in netlist.vertices
    BY <1>1, <1>2, <1>4, WithoutNextFacts DEF ModelOK
  <2>2. QED BY <1>1, <2>1, NetlistFacts
<1>7. PICK u : u = tree'
  OBVIOUS
<1>8. /\ TreeOK(u) /\ Extends(tree, u)
      /\ u.nodes = Append(tree.nodes, [invert |-> TRUE, in |-> GroupAt(tree, p).net, out |-> w])
      /\ Len(u.nodes) = Len(tree.nodes) + 1 /\ Len(tree.nodes) \in Nat
      /\ LayerOf(u, Len(tree.nodes) + 1) = p[1]
  BY <1>1, <1>4, <1>5, <1>6, <1>7, MakeInverterFacts
<1>9. u \in Trees
  BY <1>8 DEF TreeOK, Shaped
<1>10. u.nodes = Append(tree.nodes, [invert |-> TRUE, in |-> v, out |-> w])
  BY <1>5, <1>8
<1>11. \A a, b : Cardinality(Made(u, a, b)) =
                    Cardinality(Made(tree, a, b)) + IF a = v /\ b = w THEN 1 ELSE 0
  BY <1>1, <1>9, <1>10, MadeOneMore
<1>12. u.nodes[m].out = w
  <2>1. PICK s, r : s = tree.nodes /\ r = [invert |-> TRUE, in |-> v, out |-> w]
    OBVIOUS
  <2>2. s \in Seq(NodeRecords)
    BY <1>1, <2>1, TreeParts
  <2>3. u.nodes[m] = r
    BY <1>2, <1>10, <2>1, <2>2
  <2>4. QED BY <2>1, <2>3
<1>13. k \in 0 .. Len(u.nodes) /\ (k # NoParent => u.nodes[k].out = w /\ LayerOf(u, k) = Len(tree.layers))
  BY <1>2, <1>3, <1>5, <1>8, <1>12 DEF NoParent
<1>14. /\ stage = "layers" /\ DOMAIN edges # {} /\ AfterEdge /\ TreeOK(tree') /\ Extends(tree, tree')
       /\ \A a, b : Cardinality(Made(tree', a, b)) =
                        Cardinality(Made(tree, a, b)) + IF a = Head(lower) /\ b = NextTarget THEN 1 ELSE 0
       /\ k \in 0 .. Len(tree'.nodes)
       /\ NextTarget \notin DOMAIN known
       /\ known' = Emplace(NextTarget, k)
       /\ k # NoParent => /\ tree'.nodes[k].out = NextTarget
                          /\ LayerOf(tree', k) = Len(tree.layers)
       /\ upper' = IF Graph!Targets(netlist, NextTarget) # {} THEN Append(upper, NextTarget)
                   ELSE upper
  BY ONLY <1>2, <1>4, <1>7, <1>8, <1>11, <1>13
<1>15. QED BY ONLY <1>14, ModelOK, EdgeMade

\* processLeaf makes one of them; passing the net up makes no other.
LEMMA LeafOK ==
    ASSUME ModelOK, NEW output \in 0 .. Len(tree.nodes), ProcessLeaf(output)
    PROVE  ModelOK'
<1>1. TreeOK(tree) /\ Attached(netlist) /\ tree \in Trees
  BY DEF ModelOK, TreeOK, Shaped
<1>2. PICK v, w, p : /\ v = Head(lower) /\ w = NextTarget
                     /\ p = CHOOSE q \in GroupOf(tree, v) : TRUE
  OBVIOUS
<1>3. PICK t : t = MakeInverter(tree, p, w)
  OBVIOUS
<1>4. PICK u : u = PassThroughToTop(t, w, output)
  OBVIOUS
<1>5. /\ stage = "layers" /\ DOMAIN edges # {} /\ w \in DOMAIN known
      /\ output \in NearestOutputs(tree, w)
      /\ tree' = FindOrMake(u, Len(tree.layers) + 1, w)
      /\ UNCHANGED <<known, upper>>
      /\ AfterEdge
  BY <1>2, <1>3, <1>4 DEF ProcessLeaf
<1>6. /\ p \in Places(tree) /\ GroupAt(tree, p).net = v
      /\ Len(tree.layers) >= 1 /\ Len(tree.layers) \in Nat
  BY <1>2, <1>5, CurrentGroup
<1>7. w \in Vertices
  <2>1. w \in netlist.vertices
    BY <1>1, <1>2, <1>5, WithoutNextFacts DEF ModelOK
  <2>2. QED BY <1>1, <2>1, NetlistFacts
<1>8. /\ TreeOK(t) /\ Extends(tree, t)
      /\ t.nodes = Append(tree.nodes, [invert |-> TRUE, in |-> v, out |-> w])
      /\ Len(t.nodes) = Len(tree.nodes) + 1 /\ Len(tree.nodes) \in Nat
  BY <1>1, <1>3, <1>6, <1>7, MakeInverterFacts
<1>9. t \in Trees /\ Len(t.layers) = Len(tree.layers)
  BY <1>8 DEF TreeOK, Shaped, Extends
<1>10. output # Bottom => t.nodes[output].out = w
  <2>1. ASSUME output # Bottom PROVE t.nodes[output].out = w
    <3>1. output \in 1 .. Len(tree.nodes) /\ tree.nodes[output].out = w
      BY <1>5, <1>8, <2>1 DEF NearestOutputs, Bottom
    <3>2. t.nodes[output] = tree.nodes[output]
      BY <1>8, <3>1 DEF Extends
    <3>3. QED BY <3>1, <3>2
  <2>2. QED BY <2>1
<1>11. output \in 0 .. Len(t.nodes) /\ Len(t.layers) >= 1
  BY <1>6, <1>8, <1>9
<1>12. /\ TreeOK(u) /\ Extends(t, u)
       /\ \A n \in Len(t.nodes) + 1 .. Len(u.nodes) : ~u.nodes[n].invert
  BY <1>4, <1>7, <1>8, <1>10, <1>11, PassThroughFacts
<1>13. u \in Trees /\ Len(tree.layers) + 1 \in 1 .. Len(u.channels)
  <2>1. u \in Trees /\ Len(u.channels) = Len(u.layers) + 1 /\ Len(u.layers) = Len(t.layers)
    BY <1>12 DEF TreeOK, Shaped, Extends
  <2>2. QED BY <1>6, <1>9, <2>1
<1>14. PICK x : x = tree'
  OBVIOUS
<1>15. TreeOK(x) /\ Extends(u, x) /\ x.nodes = u.nodes
  BY <1>5, <1>7, <1>12, <1>13, <1>14, FindOrMakeFacts
<1>16. x \in Trees
  BY <1>15 DEF TreeOK, Shaped
<1>17. Extends(t, x) /\ Extends(tree, x)
  <2>1. Extends(t, x)
    BY <1>9, <1>12, <1>13, <1>15, <1>16, ExtendsOn
  <2>2. QED BY <1>1, <1>8, <1>9, <1>16, <2>1, ExtendsOn
<1>18. \A a, b : Cardinality(Made(x, a, b)) =
                    Cardinality(Made(tree, a, b)) + IF a = v /\ b = w THEN 1 ELSE 0
  <2>1. \A n \in Len(t.nodes) + 1 .. Len(x.nodes) : ~x.nodes[n].invert
    BY <1>12, <1>15
  <2>2. \A a, b : Made(x, a, b) = Made(t, a, b)
    BY <1>9, <1>16, <1>17, <2>1, MadeNoMore
  <2>3. \A a, b : Cardinality(Made(t, a, b)) =
                    Cardinality(Made(tree, a, b)) + IF a = v /\ b = w THEN 1 ELSE 0
    BY <1>1, <1>8, <1>9, MadeOneMore
  <2>4. QED BY <2>2, <2>3
<1>19. PICK k : k = 0
  OBVIOUS
<1>20. k \in 0 .. Len(x.nodes)
  <2>1. Len(x.nodes) \in Nat
    BY <1>16, TreeParts
  <2>2. QED BY <1>19, <2>1
<1>21. /\ stage = "layers" /\ DOMAIN edges # {} /\ AfterEdge /\ TreeOK(tree') /\ Extends(tree, tree')
       /\ \A a, b : Cardinality(Made(tree', a, b)) =
                        Cardinality(Made(tree, a, b)) + IF a = Head(lower) /\ b = NextTarget THEN 1 ELSE 0
       /\ k \in 0 .. Len(tree'.nodes)
       /\ NextTarget \in DOMAIN known /\ UNCHANGED <<known, upper>>
  BY ONLY <1>2, <1>5, <1>14, <1>15, <1>17, <1>18, <1>20
<1>22. QED BY ONLY <1>21, ModelOK, EdgeMade

\* createModel keeps what a model is.
LEMMA CreateModelOK ==
    ASSUME ModelOK, ModelNext
    PROVE  ModelOK'
<1>1. ASSUME NEW i \in InIfaces, ProcessBottomIFace(i) PROVE ModelOK'
  BY <1>1, BottomIFaceOK
<1>2. ASSUME NEW n \in 0 .. Len(tree.nodes), ProcessLeaf(n) PROVE ModelOK'
  BY <1>2, LeafOK
<1>3. ASSUME NEW i \in OutIfaces, NEW n \in 0 .. Len(tree.nodes), ProcessTopIFace(i, n) PROVE ModelOK'
  BY <1>3, TopIFaceOK
<1>4. QED BY <1>1, <1>2, <1>3, LooseVertexOK, NextLayerOK, VertexOK, EdgeOK, BeginTopOK DEF ModelNext

(***************************************************************************)
(* Splitting.                                                               *)
(***************************************************************************)
Free(h) == Vertices \ h.vertices
SplitOne(v, h) ==
    Graph!VerticalSplitVertex(h, v, Min(Free(h)), Min(Free(h) \ {Min(Free(h))}))

\* Splitting one vertex takes two that are free.
LEMMA SplitOneFacts ==
    ASSUME NEW h, Attached(h), NEW v \in Vertices, Cardinality(Free(h)) >= 2,
           NEW g, g = SplitOne(v, h)
    PROVE  Attached(g) /\ Cardinality(Free(g)) = Cardinality(Free(h)) - 2
           /\ Cardinality(Free(h)) \in Nat
<1>1. PICK F : F = Free(h)
  OBVIOUS
<1>2. IsFiniteSet(F) /\ Cardinality(F) \in Nat /\ F \in SUBSET Vertices /\ F \in SUBSET Nat
  <2>1. PICK V : V = Vertices
    OBVIOUS
  <2>2. IsFiniteSet(V) /\ V \in SUBSET Nat /\ F \in SUBSET V
    BY <1>1, <2>1, VerticesFinite DEF Free
  <2>3. IsFiniteSet(F)
    BY ONLY <2>2, FS_Subset
  <2>4. QED BY <2>1, <2>2, <2>3, FS_CardinalityType
<1>3. F # {}
  BY <1>1, FS_EmptySet
<1>4. PICK m : m = Min(F)
  OBVIOUS
<1>5. m \in F
  BY <1>2, <1>3, <1>4, MinIn
<1>6. PICK E : E = F \ {m}
  OBVIOUS
<1>7. IsFiniteSet(E) /\ Cardinality(E) = Cardinality(F) - 1 /\ E \in SUBSET Nat
  BY <1>2, <1>5, <1>6, FS_RemoveElement
<1>8. E # {}
  BY <1>1, <1>2, <1>7, FS_EmptySet
<1>9. PICK o : o = Min(E)
  OBVIOUS
<1>10. o \in E
  BY <1>7, <1>8, <1>9, MinIn
<1>11. Cardinality(E \ {o}) = Cardinality(F) - 2
  <2>1. Cardinality(E \ {o}) = Cardinality(E) - 1
    BY <1>7, <1>10, FS_RemoveElement
  <2>2. QED BY <1>2, <1>7, <2>1
<1>12. /\ h \in Graph!Graphs /\ h.vertices # {} /\ h.vertices \in SUBSET Vertices
       /\ h.edges \in [Vertices \X Vertices -> Nat]
       /\ h.ifaceMap \in [Graph!Ifaces -> Vertices]
       /\ \A i \in Graph!Ifaces : h.ifaceMap[i] \in h.vertices
  BY DEF Attached, Graph!Graphs, Vertices
<1>13. PICK S, D, M : /\ S = h.vertices \cup {m, o}
                      /\ D = [e \in DOMAIN h.edges |->
                                IF e \in {<<v, m>>, <<m, o>>} THEN 1
                                ELSE IF e[1] = v THEN 0
                                ELSE h.edges[IF e[1] = o THEN <<v, e[2]>> ELSE e]]
                      /\ M = [i \in Graph!Ifaces |->
                                IF i \in Graph!IfacesAt(h, v, OutIfaces) THEN o ELSE h.ifaceMap[i]]
  OBVIOUS
<1>14. g = [vertices |-> S, edges |-> D, ifaceMap |-> M]
  <2>1. g = Graph!VerticalSplitVertex(h, v, m, o)
    BY <1>1, <1>4, <1>6, <1>9 DEF SplitOne
  <2>2. QED BY <1>13, <2>1 DEF Graph!VerticalSplitVertex
<1>15. m \in Vertices /\ o \in Vertices /\ S \in SUBSET Vertices /\ S # {}
  BY <1>2, <1>5, <1>6, <1>10, <1>12, <1>13
<1>16. D \in [Vertices \X Vertices -> Nat]
  <2>1. ASSUME NEW e \in Vertices \X Vertices
        PROVE  /\ h.edges[e] \in Nat /\ <<v, e[2]>> \in Vertices \X Vertices
               /\ h.edges[<<v, e[2]>>] \in Nat
    BY <1>12
  <2>2. DOMAIN h.edges = Vertices \X Vertices
    BY <1>12
  <2>3. QED BY <1>13, <2>1, <2>2
<1>17. M \in [Graph!Ifaces -> Vertices] /\ \A i \in Graph!Ifaces : M[i] \in S
  BY <1>12, <1>13, <1>15
<1>18. g \in Graph!Graphs /\ g.vertices = S /\ g.ifaceMap = M
  BY <1>14, <1>15, <1>16, <1>17 DEF Graph!Graphs, Vertices
<1>19. Attached(g)
  BY <1>15, <1>17, <1>18 DEF Attached
<1>20. Free(g) = E \ {o}
  BY <1>1, <1>6, <1>13, <1>18 DEF Free
<1>21. QED BY <1>1, <1>2, <1>11, <1>19, <1>20

\* While there are vertices enough, every vertex is split.
LEMMA SplitIterates ==
    ASSUME Attached(netlist), NEW X, X \in SUBSET Vertices, IsFiniteSet(X),
           2 * Cardinality(X) <= Cardinality(Free(netlist)),
           NEW it, it[{}] = netlist,
           \A T \in SUBSET X : T # {} /\ Attached(it[T \ {AnyOf(T)}])
                /\ Cardinality(Free(it[T \ {AnyOf(T)}])) >= 2 =>
                    it[T] = SplitOne(AnyOf(T), it[T \ {AnyOf(T)}])
    PROVE  \A T \in SUBSET X :
              /\ Attached(it[T])
              /\ Cardinality(Free(it[T])) = Cardinality(Free(netlist)) - 2 * Cardinality(T)
<1> DEFINE Fine(T) == /\ Attached(it[T])
                      /\ Cardinality(Free(it[T])) = Cardinality(Free(netlist)) - 2 * Cardinality(T)
           Wrong == {n \in 0 .. Cardinality(X) : \E T \in SUBSET X : Cardinality(T) = n /\ ~Fine(T)}
<1>1. PICK C : C = Cardinality(Free(netlist))
  OBVIOUS
<1>2. C \in Nat
  <2>1. PICK V, F : V = Vertices /\ F = Free(netlist)
    OBVIOUS
  <2>2. IsFiniteSet(V) /\ F \in SUBSET V
    BY <2>1, VerticesFinite DEF Free
  <2>3. IsFiniteSet(F)
    BY ONLY <2>2, FS_Subset
  <2>4. QED BY <1>1, <2>1, <2>3, FS_CardinalityType
<1>3. ASSUME NEW T \in SUBSET X
      PROVE  IsFiniteSet(T) /\ Cardinality(T) \in 0 .. Cardinality(X) /\ Cardinality(X) \in Nat
  <2>1. IsFiniteSet(T) /\ Cardinality(T) <= Cardinality(X)
    BY FS_Subset
  <2>2. QED BY <2>1, FS_CardinalityType
<1>4. ASSUME NEW n \in Wrong PROVE \E m \in Wrong : m < n
  <2>1. PICK T \in SUBSET X : Cardinality(T) = n /\ ~Fine(T)
    BY <1>4
  <2>2. T # {}
    <3>1. ASSUME T = {} PROVE Fine(T)
      <4>1. Cardinality(T) = 0 /\ it[T] = netlist
        BY <3>1, FS_EmptySet
      <4>2. QED BY <1>1, <1>2, <4>1
    <3> HIDE DEF Fine
    <3>2. QED BY <2>1, <3>1
  <2>3. PICK a, U : a = AnyOf(T) /\ U = T \ {a}
    OBVIOUS
  <2>4. a \in T /\ U \in SUBSET X /\ a \in Vertices
    BY <2>2, <2>3 DEF AnyOf
  <2>5. Cardinality(U) = n - 1 /\ Cardinality(U) \in 0 .. Cardinality(X) /\ n \in Nat
        /\ n <= Cardinality(X) /\ Cardinality(X) \in Nat
    <3>1. IsFiniteSet(T) /\ Cardinality(T) \in 0 .. Cardinality(X) /\ Cardinality(X) \in Nat
          /\ Cardinality(U) \in 0 .. Cardinality(X)
      BY <1>3, <2>4
    <3>2. Cardinality(U) = Cardinality(T) - 1
      BY <2>3, <2>4, <3>1, FS_RemoveElement
    <3>3. QED BY <2>1, <3>1, <3>2
  <2>6. SUFFICES ASSUME Fine(U) PROVE FALSE
    <3>1. ~Fine(U) => n - 1 \in Wrong
      BY <2>4, <2>5
    <3>2. n - 1 < n
      BY <2>5
    <3> HIDE DEF Fine, Wrong
    <3>3. QED BY <3>1, <3>2
  <2>7. PICK h : h = it[U]
    OBVIOUS
  <2>8. Attached(h) /\ Cardinality(Free(h)) = C - 2 * (n - 1)
    BY <1>1, <2>5, <2>6, <2>7
  <2>9. Cardinality(Free(h)) >= 2
    <3>1. 2 * Cardinality(X) <= C
      BY <1>1
    <3>2. PICK x : x = Cardinality(X)
      OBVIOUS
    <3>3. x \in Nat /\ n <= x /\ 2 * x <= C /\ n \in Nat
      BY <2>5, <3>1, <3>2
    <3>4. C - 2 * (n - 1) >= 2
      BY ONLY <1>2, <3>3
    <3>5. QED BY <2>8, <3>4
  <2>10. it[T] = SplitOne(a, h)
    BY <2>2, <2>3, <2>7, <2>8, <2>9
  <2>11. Attached(it[T]) /\ Cardinality(Free(it[T])) = Cardinality(Free(h)) - 2
    BY <2>4, <2>8, <2>9, <2>10, SplitOneFacts
  <2>12. Cardinality(Free(it[T])) = C - 2 * n
    <3>1. (C - 2 * (n - 1)) - 2 = C - 2 * n
      BY <1>2, <2>5
    <3>2. QED BY <2>8, <2>11, <3>1
  <2>13. QED BY <1>1, <2>1, <2>11, <2>12
<1>5. Wrong = {}
  <2>1. Wrong \in SUBSET Nat
    OBVIOUS
  <2> HIDE DEF Wrong
  <2>2. QED BY <1>4, <2>1, Descent
<1>6. \A T \in SUBSET X : Fine(T)
  BY <1>3, <1>5
<1>7. QED BY <1>6

\* The split netlist's interfaces are attached.
LEMMA SplitAllFacts ==
    ASSUME Attached(netlist), NEW X, X \in SUBSET netlist.vertices, MayAdd(2 * Cardinality(X))
    PROVE  Attached(SplitAll(netlist, X))
<1> DEFINE D == {h \in Graph!Graphs : Attached(h)}
           Guarded(v, h) == IF Cardinality(Free(h)) >= 2 THEN SplitOne(v, h) ELSE h
           Step == [a \in X \X D |-> Guarded(a[1], a[2])]
           Code(i) == [T \in SUBSET X |-> IF T = {} THEN netlist
                         ELSE SplitOne(CHOOSE x \in T : TRUE, i[T \ {CHOOSE x \in T : TRUE}])]
<1>1. X \in SUBSET Vertices /\ IsFiniteSet(X)
  <2>1. PICK V : V = netlist.vertices
    OBVIOUS
  <2>2. V \in SUBSET Vertices /\ IsFiniteSet(V) /\ X \in SUBSET V
    BY <2>1, NetlistFacts
  <2>3. IsFiniteSet(X)
    BY ONLY <2>2, FS_Subset
  <2>4. QED BY <2>2, <2>3
<1>2. 2 * Cardinality(X) <= Cardinality(Free(netlist))
  BY DEF MayAdd, Free, Vertices
<1>3. ASSUME NEW h \in D, NEW v \in X PROVE Guarded(v, h) \in D
  <2>1. CASE Cardinality(Free(h)) >= 2
    <3>1. Attached(SplitOne(v, h))
      BY <1>1, <2>1, SplitOneFacts
    <3>2. QED BY <2>1, <3>1 DEF Attached
  <2>2. CASE ~(Cardinality(Free(h)) >= 2)
    BY <2>2
  <2>3. QED BY <2>1, <2>2
<1>4. Step \in [X \X D -> D]
  <2> HIDE DEF D, Guarded
  <2> QED BY <1>3
<1>5. PICK it \in [SUBSET X -> D] : IsFold(it, X, netlist, Step)
  <2>1. netlist \in D
    BY DEF Attached
  <2> HIDE DEF Step, D
  <2> QED BY <1>1, <1>4, <2>1, FoldExists
<1>6. ASSUME NEW T \in SUBSET X, T # {} PROVE AnyOf(T) \in T /\ T \ {AnyOf(T)} \in SUBSET X
  BY <1>6 DEF AnyOf
<1>7. ASSUME NEW T \in SUBSET X
      PROVE  it[T] = IF T = {} THEN netlist ELSE Guarded(AnyOf(T), it[T \ {AnyOf(T)}])
  <2>1. it[T] = IF T = {} THEN netlist ELSE Step[<<AnyOf(T), it[T \ {AnyOf(T)}]>>]
    <3> HIDE DEF Step, D
    <3> QED BY <1>5 DEF IsFold
  <2>2. ASSUME T # {} PROVE <<AnyOf(T), it[T \ {AnyOf(T)}]>> \in X \X D
    <3> HIDE DEF Step, D
    <3> QED BY <1>5, <1>6, <2>2
  <2>3. ASSUME T # {}
        PROVE  Step[<<AnyOf(T), it[T \ {AnyOf(T)}]>>] = Guarded(AnyOf(T), it[T \ {AnyOf(T)}])
    <3> HIDE DEF D, Guarded
    <3> QED BY <2>2, <2>3
  <2> HIDE DEF Step, Guarded
  <2>4. QED BY <2>1, <2>3
<1>8. \A T \in SUBSET X :
          /\ Attached(it[T])
          /\ Cardinality(Free(it[T])) = Cardinality(Free(netlist)) - 2 * Cardinality(T)
  <2>1. {} \in SUBSET X /\ it[{}] = netlist
    BY <1>7
  <2>2. \A T \in SUBSET X : T # {} /\ Attached(it[T \ {AnyOf(T)}])
              /\ Cardinality(Free(it[T \ {AnyOf(T)}])) >= 2 =>
                  it[T] = SplitOne(AnyOf(T), it[T \ {AnyOf(T)}])
    BY <1>7
  <2> HIDE DEF D
  <2>3. QED BY ONLY Attached(netlist), <1>1, <1>2, <2>1, <2>2, SplitIterates
<1>9. it = Code(it)
  <2>1. ASSUME NEW T \in SUBSET X
        PROVE  it[T] = IF T = {} THEN netlist ELSE SplitOne(AnyOf(T), it[T \ {AnyOf(T)}])
    <3>1. SUFFICES ASSUME T # {} PROVE Cardinality(Free(it[T \ {AnyOf(T)}])) >= 2
      BY <1>7
    <3>2. PICK a, U : a = AnyOf(T) /\ U = T \ {a}
      OBVIOUS
    <3>3. a \in T /\ U \in SUBSET X
      BY <1>6, <3>1, <3>2
    <3>4. PICK x, n, u, c : /\ x = Cardinality(X) /\ n = Cardinality(T) /\ u = Cardinality(U)
                            /\ c = Cardinality(Free(netlist))
      OBVIOUS
    <3>5. x \in Nat /\ n \in Nat /\ n <= x /\ u = n - 1
      <4>1. IsFiniteSet(T) /\ Cardinality(T) <= Cardinality(X)
        BY <1>1, FS_Subset
      <4>2. Cardinality(T) \in Nat /\ Cardinality(X) \in Nat
        BY <1>1, <4>1, FS_CardinalityType
      <4>3. Cardinality(U) = Cardinality(T) - 1
        BY <3>2, <3>3, <4>1, FS_RemoveElement
      <4>4. QED BY <3>4, <4>1, <4>2, <4>3
    <3>6. c \in Nat /\ 2 * x <= c
      <4>1. PICK V, F : V = Vertices /\ F = Free(netlist)
        OBVIOUS
      <4>2. IsFiniteSet(V) /\ F \in SUBSET V
        BY <4>1, VerticesFinite DEF Free
      <4>3. IsFiniteSet(F)
        BY ONLY <4>2, FS_Subset
      <4>4. Cardinality(F) \in Nat
        BY <4>3, FS_CardinalityType
      <4>5. QED BY <1>2, <3>4, <4>1, <4>4
    <3>7. Cardinality(Free(it[U])) = c - 2 * u
      BY <1>8, <3>3, <3>4
    <3>8. c - 2 * u >= 2
      BY ONLY <3>5, <3>6
    <3>9. QED BY <3>2, <3>7, <3>8
  <2>2. it = [T \in SUBSET X |-> it[T]]
    <3> HIDE DEF Step, D
    <3> QED BY <1>5
  <2> HIDE DEF Step, D
  <2>3. it = [T \in SUBSET X |-> IF T = {} THEN netlist ELSE SplitOne(AnyOf(T), it[T \ {AnyOf(T)}])]
    BY ONLY <2>1, <2>2
  <2>4. QED BY ONLY <2>3 DEF AnyOf
<1>10. PICK iter : SplitAll(netlist, X) = iter[X] /\ iter = Code(iter)
  <2>1. SplitAll(netlist, X) = (CHOOSE i : i = Code(i))[X]
    BY DEF SplitAll, FoldSet, MapThenFoldSet, SplitOne, Free, Vertices
  <2> HIDE DEF Code
  <2>2. (CHOOSE i : i = Code(i)) = Code(CHOOSE i : i = Code(i))
    BY <1>9
  <2>3. QED BY <2>1, <2>2
<1>11. \A T \in SUBSET X : iter[T] = IF T = {} THEN netlist
                                     ELSE SplitOne(AnyOf(T), iter[T \ {AnyOf(T)}])
  <2>1. iter = Code(iter)
    BY <1>10
  <2>2. iter = [T \in SUBSET X |-> IF T = {} THEN netlist ELSE SplitOne(AnyOf(T), iter[T \ {AnyOf(T)}])]
    BY ONLY <2>1 DEF AnyOf
  <2> HIDE DEF Code
  <2>3. QED BY ONLY <2>2
<1>12. iter[{}] = netlist
  BY <1>11
<1>13. \A T \in SUBSET X : Attached(iter[T])
  <2>1. \A T \in SUBSET X : T # {} /\ Attached(iter[T \ {AnyOf(T)}])
              /\ Cardinality(Free(iter[T \ {AnyOf(T)}])) >= 2 =>
                  iter[T] = SplitOne(AnyOf(T), iter[T \ {AnyOf(T)}])
    BY <1>11
  <2> HIDE DEF D, Code
  <2>2. QED BY ONLY Attached(netlist), <1>1, <1>2, <1>12, <2>1, SplitIterates
<1>14. QED BY <1>10, <1>13

\* The model of a netlist that was split is made anew.
LEMMA NewModelKeeps == Attached(netlist)' /\ NewModel => ModelOK'
<1>1. Attached(netlist) /\ StartModel => ModelOK
  BY NewModelOK
<1>2. Attached(netlist)' /\ StartModel' => ModelOK'
  BY <1>1, PTL
<1>3. NewModel => StartModel'
  BY DEF NewModel, StartModel
<1>4. QED BY <1>2, <1>3

(***************************************************************************)
(* computeSpatial.                                                          *)
(***************************************************************************)
\* Nothing is placed while the model is being made.
LEMMA NothingPlaced ==
    col = <<>> /\ bottom = <<>> /\ todo = <<>> /\ stage \in {"bottom", "layers", "top"} => PlacementOK
<1>1. \A f : f = <<>> => DOMAIN f = {} /\ f = [x \in {} |-> f[x]] /\ f \in Seq(Nodes)
  OBVIOUS
<1>2. QED BY <1>1 DEF PlacementOK

\* The same of the state after a step.
LEMMA NothingPlacedYet ==
    (col = <<>> /\ bottom = <<>> /\ todo = <<>> /\ stage \in {"bottom", "layers", "top"})' => PlacementOK'
<1>1. col = <<>> /\ bottom = <<>> /\ todo = <<>> /\ stage \in {"bottom", "layers", "top"} => PlacementOK
  BY NothingPlaced
<1>2. QED BY <1>1, PTL

\* What is placed stays where it is when the model does.
LEMMA PlacementKept ==
    ASSUME PlacementOK, UNCHANGED <<tree, col, bottom, todo>>,
           \/ stage' = stage
           \/ {stage, stage'} \cap {"bottom", "layers", "top", "place"} = {}
    PROVE  PlacementOK'
BY ZenonT(30) DEF PlacementOK, Nodes, NodesOf, Parent

\* The nodes of a layer, from left to right.
LEMMA NodeSeqFacts ==
    ASSUME TreeOK(tree), NEW l \in 1 .. Len(tree.layers)
    PROVE  /\ NodeSeq(l) \in Seq(Nodes) /\ ToSet(NodeSeq(l)) = NodesOf(l)
           /\ NodesOf(l) \subseteq Nodes
           /\ \A n \in NodesOf(l) : LayerOf(tree, n) = l
<1>1. tree \in Trees /\ Homed(tree)
  BY DEF TreeOK, Shaped
<1>2. tree.layers[l] \in Seq(GroupRecords) /\ Len(tree.layers[l]) \in Nat
  BY <1>1, TreeParts
<1>3. PICK s : s = [g \in 1 .. Len(tree.layers[l]) |-> tree.layers[l][g].nodes]
  OBVIOUS
<1>4. ASSUME NEW g \in 1 .. Len(tree.layers[l])
      PROVE  /\ s[g] = GroupAt(tree, <<l, g>>).nodes /\ <<l, g>> \in Places(tree)
             /\ s[g] \in Seq(Nodes) /\ ToSet(s[g]) \subseteq Nodes
             /\ \A n \in ToSet(s[g]) : LayerOf(tree, n) = l
  <2>1. s[g] = GroupAt(tree, <<l, g>>).nodes
    BY <1>3 DEF GroupAt
  <2>2. <<l, g>> \in Places(tree)
    BY <1>1, PlaceFacts
  <2>3. s[g] \in Seq(Nat)
    BY <1>1, <2>1, <2>2, PlaceFacts
  <2>4. ToSet(s[g]) \subseteq Nodes
    BY <1>1, <2>1, <2>2 DEF Homed, Nodes
  <2>5. s[g] \in Seq(Nodes)
    <3>1. PICK r : r = s[g]
      OBVIOUS
    <3>2. \A i \in 1 .. Len(r) : r[i] \in Nodes
      BY ONLY <2>3, <2>4, <3>1 DEF ToSet
    <3>3. Len(r) \in Nat /\ r = [i \in 1 .. Len(r) |-> r[i]]
      BY ONLY <2>3, <3>1
    <3>4. r \in Seq(Nodes)
      BY ONLY <3>2, <3>3, AsSequence
    <3>5. QED BY ONLY <3>1, <3>4
  <2>6. ASSUME NEW n \in ToSet(s[g]) PROVE LayerOf(tree, n) = l
    <3>1. InGroup(tree, <<l, g>>, n) /\ n \in 1 .. Len(tree.nodes)
      BY <1>1, <2>1, <2>2, <2>6, GroupNodes
    <3>2. PlaceOf(tree, n) = <<l, g>>
      BY <1>1, <2>2, <3>1, HomeFacts
    <3>3. QED BY <3>2 DEF LayerOf
  <2>7. QED BY <2>1, <2>2, <2>4, <2>5, <2>6
<1>5. DOMAIN s = 1 .. Len(tree.layers[l]) /\ s \in Seq(Seq(Nodes))
  <2>1. s \in [1 .. Len(tree.layers[l]) -> Seq(Nodes)]
    BY <1>3, <1>4
  <2>2. QED BY <1>2, <2>1
<1>6. NodeSeq(l) = FlattenSeq(s)
  BY <1>3 DEF NodeSeq
<1>7. NodeSeq(l) \in Seq(Nodes) /\ ToSet(NodeSeq(l)) = UNION {ToSet(s[i]) : i \in DOMAIN s}
  BY <1>5, <1>6, FlattenFacts
<1>8. NodesOf(l) = UNION {ToSet(s[i]) : i \in DOMAIN s}
  BY <1>3, <1>5 DEF NodesOf
<1>9. QED BY <1>4, <1>5, <1>7, <1>8

\* What placeNodes starts with: the lowest layer, whose groups have no parent.
LEMMA PreComputeOK ==
    ASSUME ModelOK, PlacementOK, PreComputeSpatial
    PROVE  PlacementOK'
<1>1. TreeOK(tree) /\ tree \in Trees
  BY DEF ModelOK, TreeOK, Shaped
<1>2. /\ stage = "top" /\ stage' = "place" /\ todo' = NodeSeq(1)
      /\ \A p \in Places(tree) : GroupAt(tree, p).nodes # <<>>
      /\ tree' = tree /\ col' = col /\ bottom' = bottom
  BY DEF PreComputeSpatial, model
<1>3. 1 \in 1 .. Len(tree.layers)
  <2>1. Len(tree.layers) >= 1 /\ Len(tree.layers) \in Nat
    BY <1>1, <1>2, TreeParts DEF ModelOK, StagesOK
  <2>2. QED BY <2>1
<1>4. /\ NodeSeq(1) \in Seq(Nodes) /\ ToSet(NodeSeq(1)) = NodesOf(1)
      /\ NodesOf(1) \subseteq Nodes
      /\ \A n \in NodesOf(1) : LayerOf(tree, n) = 1
  BY <1>1, <1>3, NodeSeqFacts
<1>5. ASSUME NEW n \in NodesOf(1) PROVE Parent(n) = NoParent
  <2>1. n \in 1 .. Len(tree.nodes)
    BY <1>4, <1>5 DEF Nodes
  <2>2. PlaceOf(tree, n) \in Places(tree) /\ PlaceOf(tree, n)[1] = 1
    BY <1>1, <1>4, <1>5, <2>1, HomeFacts DEF TreeOK
  <2>3. SUFFICES ASSUME Parent(n) # NoParent PROVE FALSE
    OBVIOUS
  <2>4. Parent(n) \in 1 .. Len(tree.nodes) /\ LayerOf(tree, Parent(n)) = 1 - 1
    BY <1>1, <2>2, <2>3 DEF TreeOK, Hung, Parent
  <2>5. LayerOf(tree, Parent(n)) \in 1 .. Len(tree.layers)
    BY <1>1, <2>4, HomeFacts DEF TreeOK
  <2>6. QED BY <2>4, <2>5
<1>6. bottom = <<>> /\ col = <<>>
  BY <1>2 DEF PlacementOK
<1>7. QED BY <1>2, <1>4, <1>5, <1>6 DEF PlacementOK, Nodes, NodesOf, Parent

\* A layer's next column is a number.
LEMMA StartPosFacts ==
    ASSUME TreeOK(tree), PlacementOK, NEW l \in 1 .. Len(tree.layers)
    PROVE  StartPos(l) \in Nat
<1>1. PICK S, P : S = NodesOf(l) \cap DOMAIN col /\ P = {col[n] : n \in S}
  OBVIOUS
<1>2. P \in SUBSET Nat
  BY <1>1 DEF PlacementOK
<1>3. IsFiniteSet(P)
  <2>1. Len(tree.nodes) \in Nat
    BY TreeParts DEF TreeOK, Shaped
  <2>2. PICK N : N = Nodes
    OBVIOUS
  <2>3. IsFiniteSet(N)
    BY <2>1, <2>2, FS_Interval DEF Nodes
  <2>4. S \in SUBSET N
    BY <1>1, <2>2 DEF PlacementOK
  <2>5. IsFiniteSet(S)
    BY ONLY <2>3, <2>4, FS_Subset
  <2>6. PICK f : f = [n \in S |-> col[n]]
    OBVIOUS
  <2>7. f \in Surjection(S, P)
    BY <1>1, <2>6 DEF Surjection
  <2>8. QED BY ONLY <2>5, <2>7, FS_Surjection
<1>4. StartPos(l) = IF P = {} THEN 0 ELSE Max(P) + 2
  BY <1>1 DEF StartPos
<1>5. ASSUME P # {} PROVE Max(P) \in Nat
  <2>1. PICK n \in P : \A m \in P : m <= n
    BY <1>2, <1>3, <1>5, GreatestNumber
  <2>2. \A m \in P : n >= m
    BY <1>2, <2>1
  <2>3. Max(P) = CHOOSE x \in P : \A y \in P : x >= y
    BY DEF Max
  <2>4. Max(P) \in P
    BY <2>1, <2>2, <2>3
  <2>5. QED BY <1>2, <2>4
<1>6. QED BY <1>4, <1>5

\* Before the bottom wires are placed, every column taken is that of a node.
LEMMA ColumnsTaken ==
    ASSUME bottom = <<>>, NEW c, NEW below \in BOOLEAN, NEW net, NEW x, ~MayCross(c, below, net, x)
    PROVE  \E m \in DOMAIN col : col[m] = x
<1>1. DOMAIN bottom = {}
  OBVIOUS
<1>2. ASSUME NEW p \in FromBelow(c) PROVE \E m \in DOMAIN col : p[1] = col[m]
  <2>1. c # 1
    BY <1>1, <1>2 DEF FromBelow
  <2>2. PICK m \in NodesOf(c - 1) \cap DOMAIN col : p = <<col[m], tree.nodes[m].out>>
    BY <1>2, <2>1 DEF FromBelow
  <2>3. QED BY <2>2
<1>3. ASSUME NEW p \in FromAbove(c) PROVE \E m \in DOMAIN col : p[1] = col[m]
  <2>1. ~(c > Len(tree.layers))
    BY <1>3 DEF FromAbove
  <2>2. PICK m \in NodesOf(c) \cap DOMAIN col : p = <<col[m], tree.nodes[m].in>>
    BY <1>3, <2>1 DEF FromAbove
  <2>3. QED BY <2>2
<1>4. \E p \in FromBelow(c) \cup FromAbove(c) : p[1] = x
  BY DEF MayCross
<1>5. QED BY <1>2, <1>3, <1>4

\* There always is a column left.
LEMMA FirstColumnFacts ==
    ASSUME TreeOK(tree), PlacementOK, stage = "place", NEW n, NEW x \in Nat
    PROVE  FirstColumn(x, n) \in Nat
<1>1. PICK N, B, K : N = Len(tree.nodes) /\ B = Len(tree.bottom) /\ K = 2 * (N + B) + 2
  OBVIOUS
<1>2. N \in Nat /\ B \in Nat /\ K \in Nat /\ N < K + 1
  <2>1. N \in Nat
    BY <1>1, TreeParts DEF TreeOK, Shaped
  <2>2. tree.bottom \in Seq(BottomRecords)
    BY TreeParts DEF TreeOK, Shaped
  <2>3. B \in Nat
    BY <1>1, <2>2
  <2>4. K = 2 * (N + B) + 2
    BY <1>1
  <2>5. QED BY ONLY <2>1, <2>3, <2>4
<1>3. PICK tried, free : /\ tried = {x + 2 * k : k \in 0 .. K}
                         /\ free = {y \in tried : InputPlaceableAt(n, y) /\ OutputPlaceableAt(n, y)}
  OBVIOUS
<1>4. FirstColumn(x, n) = Min(free)
  BY <1>1, <1>3 DEF FirstColumn
<1>5. free \in SUBSET Nat
  BY <1>2, <1>3
<1>6. free # {}
  <2>1. SUFFICES ASSUME free = {} PROVE FALSE
    OBVIOUS
  <2>2. bottom = <<>>
    BY DEF PlacementOK
  <2>3. ASSUME NEW k \in 0 .. K PROVE \E m \in DOMAIN col : col[m] = x + 2 * k
    <3>1. ~(InputPlaceableAt(n, x + 2 * k) /\ OutputPlaceableAt(n, x + 2 * k))
      BY <1>3, <2>1
    <3>2. QED BY <2>2, <3>1, ColumnsTaken DEF InputPlaceableAt, OutputPlaceableAt
  <2>4. PICK S, T : S = 0 .. K /\ T = Nodes
    OBVIOUS
  <2>5. IsFiniteSet(S) /\ Cardinality(S) = K + 1
    <3>1. 0 \in Int /\ K \in Int
      BY <1>2
    <3>2. IsFiniteSet(0 .. K) /\ Cardinality(0 .. K) = IF 0 > K THEN 0 ELSE K - 0 + 1
      BY ONLY <3>1, FS_Interval
    <3>3. QED BY <1>2, <2>4, <3>2
  <2>6. IsFiniteSet(T) /\ Cardinality(T) = N
    <3>1. 1 \in Int /\ N \in Int
      BY <1>2
    <3>2. IsFiniteSet(1 .. N) /\ Cardinality(1 .. N) = IF 1 > N THEN 0 ELSE N - 1 + 1
      BY ONLY <3>1, FS_Interval
    <3>3. QED BY <1>1, <1>2, <2>4, <3>2 DEF Nodes
  <2>7. PICK f : f = [k \in S |-> CHOOSE m \in DOMAIN col : col[m] = x + 2 * k]
    OBVIOUS
  <2>8. \A k \in S : f[k] \in DOMAIN col /\ col[f[k]] = x + 2 * k
    BY <2>3, <2>4, <2>7
  <2>9. f \in [S -> T]
    <3>1. DOMAIN col \subseteq T
      BY <2>4 DEF PlacementOK
    <3>2. f = [k \in S |-> f[k]]
      BY <2>7
    <3>3. QED BY <2>8, <3>1, <3>2
  <2>10. PICK k \in S, j \in S : k # j /\ f[k] = f[j]
    <3>1. Cardinality(T) < Cardinality(S)
      BY <1>2, <2>5, <2>6
    <3>2. QED BY ONLY <2>5, <2>6, <2>9, <3>1, FS_PigeonHole
  <2>11. x + 2 * k = x + 2 * j /\ k \in Nat /\ j \in Nat
    BY <2>4, <2>8, <2>10
  <2>12. QED BY <2>10, <2>11
<1>7. QED BY <1>4, <1>5, <1>6, MinIn

\* A node is placed after its parent; its child's nodes come next.
LEMMA PlaceNodeOK ==
    ASSUME ModelOK, PlacementOK, PlaceNode
    PROVE  PlacementOK'
<1>1. TreeOK(tree) /\ tree \in Trees /\ Homed(tree)
  BY DEF ModelOK, TreeOK, Shaped
<1>2. PICK n, below : n = Head(todo) /\ below = Child(tree, n)
  OBVIOUS
<1>3. PICK first : first = IF below = {} THEN <<>> ELSE GroupAt(tree, CHOOSE p \in below : TRUE).nodes
  OBVIOUS
<1>4. PICK x \in PositionOf(n) : col' = Over(col, Single(n, x))
  BY <1>2 DEF PlaceNode
<1>5. /\ stage = "place" /\ todo # <<>> /\ todo' = first \o Tail(todo)
      /\ stage' = stage /\ tree' = tree /\ bottom' = bottom
  BY <1>2, <1>3 DEF PlaceNode, model
<1>6. /\ todo \in Seq(Nodes) /\ DOMAIN col \subseteq Nodes /\ \A m \in DOMAIN col : col[m] \in Nat
      /\ bottom = <<>>
  BY <1>5 DEF PlacementOK
<1>7. /\ n \in Nodes /\ n \in ToSet(todo) /\ Tail(todo) \in Seq(Nodes)
      /\ ToSet(todo) = {n} \cup ToSet(Tail(todo))
  <2>1. PICK N, s : N = Nodes /\ s = todo
    OBVIOUS
  <2>2. s \in Seq(N) /\ s # <<>>
    BY <1>5, <1>6, <2>1
  <2>3. Head(s) \in N /\ Tail(s) \in Seq(N) /\ s = <<Head(s)>> \o Tail(s) /\ <<Head(s)>> \in Seq(N)
    BY <2>2
  <2>4. ToSet(<<Head(s)>> \o Tail(s)) = ToSet(<<Head(s)>>) \cup ToSet(Tail(s))
    BY <2>3, ToSetConcat
  <2>5. ToSet(<<Head(s)>>) = {Head(s)}
    BY DEF ToSet
  <2>6. ToSet(s) = {Head(s)} \cup ToSet(Tail(s))
    BY <2>3, <2>4, <2>5
  <2>7. QED BY <1>2, <2>1, <2>3, <2>6
<1>8. LayerOf(tree, n) \in 1 .. Len(tree.layers)
  BY <1>1, <1>7, HomeFacts DEF Nodes
<1>9. StartPos(LayerOf(tree, n)) \in Nat
  BY <1>1, <1>8, StartPosFacts
<1>10. x \in Nat
  <2>1. CASE AboveParent(n) # {}
    <3>1. x \in AboveParent(n)
      BY <1>4, <2>1 DEF PositionOf
    <3>2. Parent(n) # NoParent /\ x = col[Parent(n)]
      BY <3>1 DEF AboveParent, Parent
    <3>3. Parent(n) \in DOMAIN col
      BY <1>5, <1>7, <3>2 DEF PlacementOK
    <3>4. QED BY <1>6, <3>2, <3>3
  <2>2. CASE AboveParent(n) = {} /\ SkipPos(n) # {}
    <3>1. x = StartPos(LayerOf(tree, n)) + 2
      BY <1>4, <2>2 DEF PositionOf, SkipPos
    <3>2. QED BY <1>9, <3>1
  <2>3. CASE AboveParent(n) = {} /\ SkipPos(n) = {}
    <3>1. x = FirstColumn(StartPos(LayerOf(tree, n)), n)
      BY <1>4, <2>3 DEF PositionOf
    <3>2. QED BY <1>1, <1>5, <1>9, <3>1, FirstColumnFacts
  <2>4. QED BY <2>1, <2>2, <2>3
<1>11. /\ DOMAIN col' = DOMAIN col \cup {n} /\ col' = [m \in DOMAIN col' |-> col'[m]]
       /\ \A m \in DOMAIN col' : col'[m] \in Nat
  <2>1. PICK f, h : f = col /\ h = col'
    OBVIOUS
  <2>2. h = Over(f, Single(n, x)) /\ \A m \in DOMAIN f : f[m] \in Nat
    BY <1>4, <1>6, <2>1
  <2>3. /\ DOMAIN h = DOMAIN f \cup {n} /\ h = [z \in DOMAIN h |-> h[z]]
        /\ \A m \in DOMAIN h : h[m] \in Nat
    BY ONLY <1>10, <2>2 DEF Over, Single
  <2>4. QED BY <2>1, <2>3
<1>12. first \in Seq(Nodes) /\ \A m \in ToSet(first) : Parent(m) = n
  <2>1. CASE below = {}
    <3>1. first = <<>>
      BY <1>3, <2>1
    <3>2. QED BY <3>1 DEF ToSet
  <2>2. CASE below # {}
    <3>1. PICK p : p \in below /\ first = GroupAt(tree, p).nodes
      BY <1>3, <2>2
    <3>2. p \in Places(tree) /\ GroupAt(tree, p).parent = n
      BY <1>2, <3>1 DEF Child
    <3>3. first \in Seq(Nat)
      BY <1>1, <3>1, <3>2, PlaceFacts
    <3>4. ASSUME NEW m \in ToSet(first) PROVE m \in Nodes /\ Parent(m) = n
      <4>1. InGroup(tree, p, m) /\ m \in 1 .. Len(tree.nodes)
        BY <1>1, <3>1, <3>2, <3>4, GroupNodes
      <4>2. PlaceOf(tree, m) = p
        BY <1>1, <3>2, <4>1, HomeFacts
      <4>3. QED BY <3>2, <4>1, <4>2 DEF Parent, Nodes
    <3>5. \A i \in 1 .. Len(first) : first[i] \in Nodes
      BY <3>3, <3>4 DEF ToSet
    <3>6. QED BY <3>3, <3>4, <3>5
  <2>3. QED BY <2>1, <2>2
<1>13. todo' \in Seq(Nodes) /\ ToSet(todo') = ToSet(first) \cup ToSet(Tail(todo))
  <2>1. PICK N, s, t : N = Nodes /\ s = first /\ t = Tail(todo)
    OBVIOUS
  <2>2. s \in Seq(N) /\ t \in Seq(N)
    BY <1>7, <1>12, <2>1
  <2>3. s \o t \in Seq(N) /\ ToSet(s \o t) = ToSet(s) \cup ToSet(t)
    BY ONLY <2>2, ToSetConcat
  <2>4. QED BY <1>5, <2>1, <2>3
<1>14. ASSUME NEW m \in ToSet(todo'), Parent(m) # NoParent PROVE Parent(m) \in DOMAIN col'
  <2>1. CASE m \in ToSet(first)
    BY <1>11, <1>12, <2>1
  <2>2. CASE m \in ToSet(Tail(todo))
    <3>1. Parent(m) \in DOMAIN col
      BY <1>5, <1>7, <1>14, <2>2 DEF PlacementOK
    <3>2. QED BY <1>11, <3>1
  <2>3. QED BY <1>13, <1>14, <2>1, <2>2
<1>15. NodesOf(1) \subseteq ToSet(todo') \cup DOMAIN col'
  <2>1. NodesOf(1) \subseteq ToSet(todo) \cup DOMAIN col
    BY <1>5 DEF PlacementOK
  <2>2. QED BY <1>7, <1>11, <1>13, <2>1
<1>16. \A p \in Places(tree) : GroupAt(tree, p).nodes # <<>>
  BY <1>5 DEF PlacementOK
<1>17. DOMAIN col' \subseteq Nodes
  BY <1>6, <1>7, <1>11
<1>18. DOMAIN bottom = {} /\ bottom = [b \in DOMAIN bottom |-> bottom[b]]
  BY <1>6
<1>19. QED
  BY <1>5, <1>6, <1>11, <1>13, <1>14, <1>15, <1>16, <1>17, <1>18 DEF PlacementOK, Nodes, NodesOf, Parent

\* Every wire of the bottom finds a group above it whose first node is placed.
LEMMA PlaceBottomOK ==
    ASSUME ModelOK, PlacementOK, PlaceBottomWires
    PROVE  PlacementOK'
<1>1. TreeOK(tree) /\ tree \in Trees /\ Homed(tree)
  BY DEF ModelOK, TreeOK, Shaped
<1>2. /\ stage = "place" /\ todo = <<>> /\ stage' = "vertical"
      /\ bottom' = [b \in 1 .. Len(tree.bottom) |-> ColumnUnderGroup(b)]
      /\ tree' = tree /\ col' = col /\ todo' = todo
  BY DEF PlaceBottomWires, model
<1>3. lower = <<>> /\ upper = <<>> /\ ToSet(lower) = {} /\ ToSet(upper) = {} /\ ToSet(todo) = {}
  <2>1. lower = <<>> /\ upper = <<>>
    BY <1>2 DEF ModelOK, StagesOK
  <2>2. QED BY <1>2, <2>1 DEF ToSet
<1>4. ASSUME NEW b \in 1 .. Len(tree.bottom) PROVE ColumnUnderGroup(b) \in Nat
  <2>1. PICK G : G = InputToGroup(tree, tree.bottom[b].net, Bottom)
    OBVIOUS
  <2>2. G # {}
    BY <1>3, <2>1 DEF ModelOK, BottomOK
  <2>3. PICK p : p \in G /\ ColumnUnderGroup(b) = col[GroupAt(tree, p).nodes[1]]
    BY <2>1, <2>2 DEF ColumnUnderGroup
  <2>4. p \in Places(tree) /\ p[1] = 1
    BY <2>1, <2>3 DEF InputToGroup
  <2>5. PICK s : s = GroupAt(tree, p).nodes
    OBVIOUS
  <2>6. s # <<>> /\ s \in Seq(Nat)
    BY <1>1, <1>2, <2>4, <2>5, PlaceFacts DEF PlacementOK
  <2>7. s[1] \in ToSet(s)
    <3>1. 1 \in DOMAIN s
      BY <2>6
    <3>2. QED BY <3>1 DEF ToSet
  <2>8. s[1] \in NodesOf(1)
    <3>1. p[2] \in 1 .. Len(tree.layers[1]) /\ s = tree.layers[1][p[2]].nodes
      BY <1>1, <2>4, <2>5, PlaceFacts
    <3>2. QED BY <2>7, <3>1 DEF NodesOf
  <2>9. s[1] \in DOMAIN col
    BY <1>2, <1>3, <2>8 DEF PlacementOK
  <2>10. QED BY <2>3, <2>5, <2>9 DEF PlacementOK
<1>5. /\ DOMAIN bottom' = 1 .. Len(tree.bottom) /\ bottom' = [b \in DOMAIN bottom' |-> bottom'[b]]
      /\ \A b \in DOMAIN bottom' : bottom'[b] \in Nat
  BY <1>2, <1>4
<1>6. QED BY <1>2, <1>5 DEF PlacementOK, Nodes

(***************************************************************************)
(* Repairs.                                                                 *)
(***************************************************************************)
\* The connection that is taken next is one of those pending.
LEMMA NextPending ==
    ASSUME ModelOK, RepairOK, pending # {}
    PROVE  Min(pending) \in pending
<1>1. netlist.vertices \in SUBSET Nat
  BY NetlistFacts DEF ModelOK
<1>2. pending \in SUBSET Nat
  BY <1>1 DEF ModelOK, KnownOK, RepairOK
<1>3. QED BY <1>2, MinIn

\* Repairs stay what they are as long as no one touches them.
LEMMA RepairKept ==
    ASSUME RepairOK, UNCHANGED repair,
           stage # "repair", stage' # "repair", stage' # "aborted", stage # "aborted",
           stage \in {"blocks", "assess", "done"} <=> stage' \in {"blocks", "assess", "done"}
    PROVE  RepairOK'
BY DEF RepairOK, repair

\* What FixBrokenLinks does to the connections it has to take.
LEMMA FixRepairOK ==
    ASSUME ModelOK, RepairOK, FixBrokenLinks
    PROVE  RepairOK'
<1>1. CASE CreateSegments
  BY <1>1 DEF RepairOK, CreateSegments, model
<1>2. CASE BeginConnection
  <2>1. Min(pending) \in pending
    BY <1>2, NextPending DEF BeginConnection
  <2>2. /\ stage = "repair" /\ stage' = stage /\ known' = known
        /\ pending' \subseteq pending /\ (route' # NoRoute => pending' # {})
        /\ repeaters' = repeaters /\ broken' = broken /\ timing' = timing
    <3>1. PICK found : /\ {ps \in found : Cardinality(ps) # 1} = {}
                       /\ IF Unfixed(UNION found, {}) = {}
                          THEN pending' = pending \ {Min(pending)} /\ UNCHANGED route
                          ELSE /\ route' = [paths |-> UNION found, spots |-> SpotsOf(UNION found)]
                               /\ UNCHANGED pending
      BY <1>2 DEF BeginConnection
    <3>2. pending # {} /\ route = NoRoute
      BY <1>2 DEF BeginConnection
    <3>3. QED BY <1>2, <3>1, <3>2 DEF BeginConnection, model
  <2>3. QED BY <2>2 DEF RepairOK
<1>3. ASSUME NEW evaluated, PlaceRepeater(evaluated) PROVE RepairOK'
  <2>1. /\ stage = "repair" /\ stage' = stage /\ known' = known /\ route # NoRoute
        /\ pending' \subseteq pending /\ (route' # NoRoute => route' = route /\ pending' = pending)
        /\ broken' = broken /\ timing' = timing
    BY <1>3 DEF PlaceRepeater, model
  <2>2. QED BY <2>1 DEF RepairOK
<1>4. ASSUME NEW evaluated, GiveUpConnection(evaluated) PROVE RepairOK'
  <2>1. pending # {}
    BY <1>4 DEF GiveUpConnection, RepairOK
  <2>2. Min(pending) \in pending
    BY <2>1, NextPending
  <2>3. QED BY <1>4, <2>2 DEF GiveUpConnection, RepairOK, model
<1>5. ASSUME NEW evaluated, Abort(evaluated) PROVE RepairOK'
  BY <1>5 DEF Abort, RepairOK, model, repair
<1>6. CASE FinishRepair
  BY <1>6 DEF FinishRepair, RepairOK, model
<1>7. CASE SplitBroken
  BY <1>7 DEF SplitBroken, NewModel, RepairOK
<1>8. QED
  BY <1>1, <1>2, <1>3, <1>4, <1>5, <1>6, <1>7 DEF FixBrokenLinks, FixConnection

(***************************************************************************)
(* Blocks.                                                                  *)
(***************************************************************************)
\* Redstone is joined to what is there.
LEMMA JoinedThere ==
    ASSUME NEW s, NEW cell, NEW dir
    PROVE  Joined(s, cell, dir) \subseteq DOMAIN s
<1>1. PICK side, top, low : side = Side(cell, dir) /\ top = Above(side) /\ low = Below(side)
  OBVIOUS
<1>2. \A c, k : k # "unset" /\ KindAt(s, c) = k => c \in DOMAIN s
  BY DEF KindAt
<1>3. Joined(s, cell, dir) \subseteq {c \in {side, top, low} :
        KindAt(s, c) = "repeater" \/ KindAt(s, c) = "redstone"}
  BY <1>1 DEF Joined
<1>4. QED BY <1>2, <1>3

\* What a block powers is there.
LEMMA NextThere ==
    ASSUME NEW s, NEW cell
    PROVE  /\ NextOfRedstone(s, cell) \subseteq DOMAIN s
           /\ NextOfOpaque(s, cell) \subseteq DOMAIN s
           /\ NextOfTorch(s, cell) \subseteq DOMAIN s
           /\ NextOfRepeater(s, cell) \subseteq DOMAIN s
<1>1. \A c, k : k # "unset" /\ KindAt(s, c) = k => c \in DOMAIN s
  BY DEF KindAt
<1>2. NextOfRedstone(s, cell) \subseteq DOMAIN s
  <2>1. PointedAt(s, cell) \subseteq DOMAIN s
    BY <1>1 DEF PointedAt
  <2>2. UNION {Joined(s, cell, dir) : dir \in Directions} \subseteq DOMAIN s
    BY JoinedThere
  <2>3. {c \in {Below(cell)} : KindAt(s, c) = "opaque"} \subseteq DOMAIN s
    BY <1>1
  <2> DEFINE A == {c \in {Below(cell)} : KindAt(s, c) = "opaque"}
             B == UNION {Joined(s, cell, dir) : dir \in Directions}
             C == PointedAt(s, cell)
  <2>4. NextOfRedstone(s, cell) = A \cup C \cup B
    BY ONLY DEF NextOfRedstone
  <2>5. A \subseteq DOMAIN s /\ B \subseteq DOMAIN s /\ C \subseteq DOMAIN s
    BY <2>1, <2>2, <2>3
  <2> HIDE DEF A, B, C
  <2>6. QED BY ONLY <2>4, <2>5
<1>3. NextOfOpaque(s, cell) \subseteq DOMAIN s
  BY <1>1 DEF NextOfOpaque, Facing
<1>4. NextOfTorch(s, cell) \subseteq DOMAIN s
  BY <1>1 DEF NextOfTorch, Facing
<1>5. NextOfRepeater(s, cell) \subseteq DOMAIN s
  BY <1>1 DEF NextOfRepeater, Facing
<1>6. QED BY <1>2, <1>3, <1>4, <1>5

\* Power only reaches what is there.
LEMMA HitThere ==
    ASSUME NEW s, NEW on, NEW set
    PROVE  Propagate(s, on, set).hit \subseteq DOMAIN s
<1> DEFINE fromOn == UNION {IF s[c].kind = "torch" THEN NextOfTorch(s, c)
                            ELSE NextOfRepeater(s, c) : c \in on}
           strong == {c \in fromOn : s[c].kind = "opaque"}
           fromStrong == UNION {NextOfOpaque(s, c) : c \in strong}
           lit == Lit(s, set \cup {c \in fromOn \cup fromStrong : s[c].kind = "redstone"})
           fromLit == UNION {NextOfRedstone(s, c) : c \in lit}
           weak == {c \in fromLit : s[c].kind = "opaque"}
           fromWeak == UNION {NextOfOpaque(s, c) : c \in weak}
<1>1. fromOn \subseteq DOMAIN s
  BY NextThere
<1>2. fromStrong \subseteq DOMAIN s
  <2> HIDE DEF strong
  <2> QED BY NextThere
<1>3. fromLit \subseteq DOMAIN s
  <2> HIDE DEF lit
  <2> QED BY NextThere
<1>4. fromWeak \subseteq DOMAIN s
  <2> HIDE DEF weak
  <2> QED BY NextThere
<1>5. Propagate(s, on, set).hit = {c \in fromOn \cup fromStrong \cup fromLit \cup fromWeak :
                    s[c].kind \in {"torch", "repeater"}}
  BY DEF Propagate
<1> HIDE DEF fromOn, fromStrong, fromLit, fromWeak
<1>6. QED BY <1>1, <1>2, <1>3, <1>4, <1>5

\* A sequence lists a finite set.
LEMMA ListFacts ==
    ASSUME NEW X, IsFiniteSet(X)
    PROVE  SetToSeq(X) \in Seq(X)
<1>1. PICK n \in Nat : n = Cardinality(X) /\ ExistsBijection(1 .. n, X)
  BY FS_CardinalityType
<1>2. PICK f : f \in Bijection(1 .. n, X)
  BY <1>1 DEF ExistsBijection
<1>3. f \in [1 .. n -> X] /\ IsInjective(f)
  BY <1>2 DEF Bijection, Injection, Surjection, IsInjective
<1>4. SetToSeq(X) \in [1 .. n -> X]
  BY <1>1, <1>3 DEF SetToSeq
<1>5. QED BY <1>1, <1>4

\* What a fold from the left computes stays where its steps lead.
LEMMA LeftFoldStays ==
    ASSUME NEW n \in Nat, NEW D, NEW start \in D, NEW Step \in [D \X (1 .. n) -> D],
           NEW f, f[{}] = start,
           \A T \in SUBSET (1 .. n) : T # {} /\ f[T \ {Greatest(T)}] \in D =>
                f[T] = Step[<<f[T \ {Greatest(T)}], Greatest(T)>>]
    PROVE  f[1 .. n] \in D
<1> DEFINE Off == {k \in 0 .. n : f[1 .. k] \notin D}
<1>1. Off = {}
  <2>1. ASSUME NEW k \in Off PROVE \E m \in Off : m < k
    <3>1. k # 0
      <4>1. ASSUME k = 0 PROVE FALSE
        <5>1. 1 .. k = {}
          BY <4>1
        <5>2. QED BY <5>1
      <4>2. QED BY <4>1
    <3>2. k \in 1 .. n /\ k - 1 \in 0 .. n /\ k - 1 < k
      BY <3>1
    <3>3. PICK T, U : T = 1 .. k /\ U = 1 .. k - 1
      OBVIOUS
    <3>4. T \in SUBSET (1 .. n) /\ T # {} /\ T \ {Greatest(T)} = U /\ Greatest(T) \in 1 .. n
      <4>1. /\ 1 .. k \in SUBSET (1 .. n) /\ 1 .. k # {} /\ (1 .. k) \ {Greatest(1 .. k)} = 1 .. k - 1
            /\ Greatest(1 .. k) = k
        BY ONLY n \in Nat, <3>2, FirstPositions
      <4>2. QED BY ONLY <3>2, <3>3, <4>1
    <3>5. SUFFICES ASSUME f[U] \in D PROVE FALSE
      BY <3>2, <3>3
    <3>6. f[T] = Step[<<f[U], Greatest(T)>>]
      BY <3>4, <3>5
    <3>7. f[T] \in D
      BY <3>4, <3>5, <3>6
    <3>8. QED BY <3>3, <3>7
  <2>2. Off \in SUBSET Nat
    OBVIOUS
  <2> HIDE DEF Off
  <2>3. QED BY <2>1, <2>2, Descent
<1>2. n \in 0 .. n
  OBVIOUS
<1>3. QED BY <1>1, <1>2

(***************************************************************************)
(* A drawing without repeaters.                                             *)
(***************************************************************************)
PlainBlocks == [kind : {"opaque", "redstone", "torch", "unset"}, dir : 0 .. 3]
Plain(f) == f \in [DOMAIN f -> PlainBlocks]

\* What is drawn over a space without repeaters, without one, leaves none.
LEMMA PlainOver ==
    ASSUME NEW f, Plain(f), NEW g, Plain(g)
    PROVE  Plain(Over(f, g)) /\ DOMAIN Over(f, g) = (DOMAIN f) \cup (DOMAIN g)
BY DEF Plain, Over

\* A block that is no repeater.
LEMMA PlainSingle ==
    ASSUME NEW x, NEW y \in PlainBlocks
    PROVE  Plain(Single(x, y))
BY DEF Plain, Single

\* No inverter is drawn with a repeater.
LEMMA PlainInverter ==
    ASSUME NEW n
    PROVE  Plain(InverterBlocks(n))
<1>1. PICK a, b, c, d, e : InverterBlocks(n) =
        Over(Single(a, Oriented("torch", Forward)), Over(Single(b, Block("opaque")),
        Over(Single(c, Block("unset")), Over(Single(d, Block("redstone")), Single(e, Block("opaque"))))))
  BY DEF InverterBlocks
<1>2. /\ Oriented("torch", Forward) \in PlainBlocks /\ Block("opaque") \in PlainBlocks
      /\ Block("unset") \in PlainBlocks /\ Block("redstone") \in PlainBlocks
  BY DEF PlainBlocks, Oriented, Block, Right, Forward
<1>3. /\ Plain(Single(a, Oriented("torch", Forward))) /\ Plain(Single(b, Block("opaque")))
      /\ Plain(Single(c, Block("unset"))) /\ Plain(Single(d, Block("redstone")))
      /\ Plain(Single(e, Block("opaque")))
  BY <1>2, PlainSingle
<1>4. QED BY <1>1, <1>3, PlainOver

\* Nor is a wire, when there are none.
LEMMA PlainWire ==
    ASSUME repeaters = {}, NEW w
    PROVE  /\ Plain(WireBlocks(w)) /\ Plain(PlacedRepeaters(w)) /\ DOMAIN PlacedRepeaters(w) = {}
<1>1. PICK S, T : WireBlocks(w) = Over([c \in S |-> Block("opaque")], [c \in T |-> Block("redstone")])
  BY DEF WireBlocks
<1>2. Block("opaque") \in PlainBlocks /\ Block("redstone") \in PlainBlocks
  BY DEF PlainBlocks, Block, Right
<1>3. Plain([c \in S |-> Block("opaque")]) /\ Plain([c \in T |-> Block("redstone")])
  BY <1>2 DEF Plain
<1>4. Plain(WireBlocks(w))
  BY <1>1, <1>3, PlainOver
<1>5. RepeatersOn(w) = {}
  BY DEF RepeatersOn
<1>6. DOMAIN PlacedRepeaters(w) = {}
  BY <1>5 DEF PlacedRepeaters
<1>7. PlacedRepeaters(w) = [c \in DOMAIN PlacedRepeaters(w) |-> PlacedRepeaters(w)[c]]
  BY DEF PlacedRepeaters
<1>8. QED BY <1>4, <1>6, <1>7 DEF Plain

(***************************************************************************)
(* The order of drawing.                                                    *)
(***************************************************************************)
\* Every inverter is a node of the order in which they are drawn.
LEMMA NodeOrderFacts ==
    ASSUME TreeOK(tree)
    PROVE  NodeOrder \in Seq(Nodes)
<1>1. PICK s : s = [l \in Layers |-> NodeSeq(l)]
  OBVIOUS
<1>2. Len(tree.layers) \in Nat
  BY TreeParts DEF TreeOK, Shaped
<1>3. \A l \in 1 .. Len(tree.layers) : s[l] \in Seq(Nodes)
  BY <1>1, NodeSeqFacts DEF Layers
<1>4. s \in Seq(Seq(Nodes))
  <2>1. PICK N : N = Seq(Nodes)
    OBVIOUS
  <2>2. s = [l \in 1 .. Len(tree.layers) |-> s[l]]
    BY <1>1 DEF Layers
  <2>3. s \in Seq(N)
    BY ONLY <1>2, <1>3, <2>1, <2>2, AsSequence
  <2>4. QED BY <2>1, <2>3
<1>5. FlattenSeq(s) \in Seq(Nodes)
  BY <1>4, FlattenFacts
<1>6. QED BY <1>1, <1>5 DEF NodeOrder

\* The inverters are tested in the order they have in the tree.
LEMMA InverterOrderFacts ==
    ASSUME TreeOK(tree)
    PROVE  InverterOrder \in Seq(Inverters)
<1>1. PICK o : o = NodeOrder /\ o \in Seq(Nodes) /\ Len(o) \in Nat
  BY NodeOrderFacts
<1> DEFINE s == [k \in 1 .. Len(o) |-> IF tree.nodes[o[k]].invert THEN <<o[k]>> ELSE <<>>]
<1>2. ASSUME NEW k \in 1 .. Len(o) PROVE s[k] \in Seq(Inverters)
  <2>1. o[k] \in Nodes
    BY <1>1
  <2>2. tree.nodes[o[k]].invert => o[k] \in Inverters
    BY <2>1 DEF Inverters
  <2>3. QED BY <2>2
<1>3. s \in Seq(Seq(Inverters))
  BY <1>1, <1>2
<1>4. InverterOrder = FlattenSeq(s)
  BY <1>1 DEF InverterOrder
<1> HIDE DEF s
<1>5. QED BY <1>3, <1>4, FlattenFacts

\* What may be drawn as a wire.
MayBeDrawn ==
    {BottomWire(b) : b \in 1 .. Len(tree.bottom)}
    \cup {Horizontal(p[1], p[2]) : p \in {q \in (1 .. Len(tree.channels)) \X Vertices :
                q[2] \in ToSet(tree.channels[q[1]]) /\ ~Anchor(q[1], q[2])}}
    \cup {InputWire(n) : n \in Nodes} \cup {OutputWire(n) : n \in Nodes}
    \cup {PassThrough(n) : n \in {m \in Nodes : ~tree.nodes[m].invert}}

\* A channel's wires are drawn as horizontal ones.
LEMMA ChannelWiresFacts ==
    ASSUME TreeOK(tree), NEW c \in 1 .. Len(tree.channels)
    PROVE  ChannelWires(c) \in Seq(MayBeDrawn)
<1>1. PICK r : r = tree.channels[c] /\ r \in Seq(Vertices) /\ Len(r) \in Nat
  <2>1. tree.channels \in Seq(Seq(Vertices))
    BY DEF TreeOK, Shaped, Trees
  <2>2. QED BY <2>1
<1>2. PICK X : X = MayBeDrawn
  OBVIOUS
<1> DEFINE s == [k \in 1 .. Len(r) |-> IF Anchor(c, r[k]) THEN <<>> ELSE <<Horizontal(c, r[k])>>]
<1>3. ASSUME NEW k \in 1 .. Len(r) PROVE s[k] \in Seq(X)
  <2>1. CASE ~Anchor(c, r[k])
    <3>1. PICK p : p = <<c, r[k]>>
      OBVIOUS
    <3>p. p[1] = c /\ p[2] = r[k]
      BY ONLY <3>1
    <3>2. r[k] \in Vertices /\ r[k] \in ToSet(r)
      BY <1>1 DEF ToSet
    <3>3. Horizontal(c, r[k]) \in X
      BY <1>1, <1>2, <2>1, <3>1, <3>p, <3>2 DEF MayBeDrawn
    <3>4. QED BY <2>1, <3>3
  <2>2. QED BY <2>1
<1>4. s \in Seq(Seq(X))
  <2>1. PICK Y : Y = Seq(X)
    OBVIOUS
  <2>2. s = [k \in 1 .. Len(r) |-> s[k]]
    OBVIOUS
  <2> HIDE DEF s
  <2>3. s \in Seq(Y)
    BY <1>1, <1>3, <2>1, <2>2, AsSequence
  <2>4. QED BY <2>1, <2>3
<1>5. ChannelWires(c) = FlattenSeq(s)
  BY <1>1 DEF ChannelWires
<1> HIDE DEF s
<1>6. QED BY <1>2, <1>4, <1>5, FlattenFacts

\* The wires are drawn in an order.
LEMMA DrawnWiresFacts ==
    ASSUME TreeOK(tree)
    PROVE  DrawnWires \in Seq(MayBeDrawn)
<1>1. PICK X : X = MayBeDrawn
  OBVIOUS
<1>2. /\ Len(tree.layers) \in Nat /\ Len(tree.bottom) \in Nat
      /\ Len(tree.channels) = Len(tree.layers) + 1
  BY TreeParts DEF TreeOK, Shaped, Trees
<1>3. PICK a : a = [b \in 1 .. Len(tree.bottom) |-> BottomWire(b)]
  OBVIOUS
<1>4. a \in Seq(X)
  <2>1. \A b \in 1 .. Len(tree.bottom) : a[b] \in X
    BY <1>1, <1>3 DEF MayBeDrawn
  <2>2. QED BY <1>2, <1>3, <2>1
<1>5. PICK d : d = ChannelWires(1)
  OBVIOUS
<1>6. d \in Seq(X)
  <2>1. 1 \in 1 .. Len(tree.channels)
    BY <1>2
  <2>2. QED BY <1>1, <1>5, <2>1, ChannelWiresFacts
<1> DEFINE Layer(l) == ChannelWires(l + 1) \o
                FlattenSeq([k \in 1 .. Len(NodeSeq(l)) |-> NodeWires(NodeSeq(l)[k])])
           e == [l \in Layers |-> Layer(l)]
<1>7. ASSUME NEW l \in 1 .. Len(tree.layers) PROVE Layer(l) \in Seq(X)
  <2>1. PICK o : o = NodeSeq(l) /\ o \in Seq(Nodes) /\ Len(o) \in Nat
    BY NodeSeqFacts
  <2>2. PICK w : w = [k \in 1 .. Len(o) |-> NodeWires(o[k])]
    OBVIOUS
  <2>3. ASSUME NEW k \in 1 .. Len(o) PROVE w[k] \in Seq(X)
    <3>1. PICK n \in Nodes : n = o[k]
      BY <2>1
    <3>2. /\ InputWire(n) \in X /\ OutputWire(n) \in X
          /\ ~tree.nodes[n].invert => PassThrough(n) \in X
      BY <1>1 DEF MayBeDrawn
    <3>3. /\ <<InputWire(n), OutputWire(n)>> \in Seq(X)
          /\ ~tree.nodes[n].invert => <<PassThrough(n)>> \in Seq(X)
      BY <3>2
    <3>4. NodeWires(n) \in Seq(X)
      BY <3>3 DEF NodeWires
    <3>5. QED BY <2>2, <3>1, <3>4
  <2>4. w \in Seq(Seq(X))
    <3>1. PICK Y : Y = Seq(X)
      OBVIOUS
    <3>2. w \in Seq(Y)
      BY <2>1, <2>2, <2>3, <3>1, AsSequence
    <3>3. QED BY <3>1, <3>2
  <2>5. FlattenSeq(w) \in Seq(X)
    BY <2>4, FlattenFacts
  <2>6. l + 1 \in 1 .. Len(tree.channels)
    BY <1>2
  <2>7. ChannelWires(l + 1) \in Seq(X)
    BY <1>1, <2>6, ChannelWiresFacts
  <2>8. Layer(l) = ChannelWires(l + 1) \o FlattenSeq(w)
    BY <2>1, <2>2
  <2> HIDE DEF Layer
  <2>9. QED BY <2>5, <2>7, <2>8
<1>8. e \in Seq(Seq(X))
  <2>1. PICK Y : Y = Seq(X)
    OBVIOUS
  <2>2. \A l \in 1 .. Len(tree.layers) : e[l] \in Y
    BY <1>7, <2>1 DEF Layers
  <2>3. e = [l \in 1 .. Len(tree.layers) |-> e[l]]
    BY DEF Layers
  <2> HIDE DEF e
  <2>4. e \in Seq(Y)
    BY <1>2, <2>2, <2>3, AsSequence
  <2>5. QED BY <2>1, <2>4
<1>9. DrawnWires = a \o d \o FlattenSeq(e)
  BY <1>3, <1>5 DEF DrawnWires
<1> HIDE DEF e
<1>10. FlattenSeq(e) \in Seq(X)
  BY <1>8, FlattenFacts
<1>11. a \o d \o FlattenSeq(e) \in Seq(X)
  BY <1>4, <1>6, <1>10
<1>12. QED BY <1>1, <1>9, <1>11

\* The spaces without repeaters that have blocks in some cells only.
PlainSpaces(U) == UNION {[Y -> PlainBlocks] : Y \in SUBSET U}

\* They are the functions without repeaters on those cells.
LEMMA PlainSpacesFacts ==
    ASSUME NEW U
    PROVE  /\ \A f : Plain(f) /\ DOMAIN f \subseteq U => f \in PlainSpaces(U)
           /\ \A f \in PlainSpaces(U) : Plain(f) /\ DOMAIN f \subseteq U
<1>1. ASSUME NEW f, Plain(f), DOMAIN f \subseteq U PROVE f \in PlainSpaces(U)
  <2>1. PICK Y : Y = DOMAIN f
    OBVIOUS
  <2>2. f \in [Y -> PlainBlocks] /\ Y \in SUBSET U
    BY <1>1, <2>1 DEF Plain
  <2>3. QED BY ONLY <2>2 DEF PlainSpaces
<1>2. ASSUME NEW f \in PlainSpaces(U) PROVE Plain(f) /\ DOMAIN f \subseteq U
  <2>1. PICK Y : Y \in SUBSET U /\ f \in [Y -> PlainBlocks]
    BY <1>2 DEF PlainSpaces
  <2>2. QED BY <2>1 DEF Plain
<1>3. QED BY <1>1, <1>2

DrawWires == FoldLeft(LAMBDA space, w : DrawnWire(space, w), <<>>, DrawnWires)
DrawNodes(start) == FoldLeft(LAMBDA space, n : DrawnNode(space, n), start, NodeOrder)

\* Without repeaters the wires are drawn without repeaters.
LEMMA WiresDrawn ==
    ASSUME TreeOK(tree), repeaters = {}
    PROVE  Plain(DrawWires)
<1>1. PICK s, n, X : /\ s = DrawnWires /\ n = Len(s) /\ X = MayBeDrawn /\ s \in Seq(X)
                     /\ n \in Nat /\ DOMAIN s = 1 .. n
  BY DrawnWiresFacts
<1>2. PICK U : U = UNION {DOMAIN WireBlocks(w) : w \in X}
  OBVIOUS
<1>3. PICK D : D = PlainSpaces(U)
  OBVIOUS
<1>4. <<>> \in D
  <2>1. \A f : f = <<>> => DOMAIN f = {} /\ f = [x \in {} |-> f[x]]
    OBVIOUS
  <2>2. Plain(<<>>) /\ DOMAIN <<>> = {}
    BY <2>1 DEF Plain
  <2>3. QED BY <1>3, <2>2, PlainSpacesFacts
<1> DEFINE Step == [a \in D \X (1 .. n) |-> DrawnWire(a[1], s[a[2]])]
           Code(f) == [T \in SUBSET (1 .. n) |-> IF T = {} THEN <<>>
                                                 ELSE DrawnWire(f[T \ {Max(T)}], s[Max(T)])]
<1>5. ASSUME NEW space \in D, NEW w \in X PROVE DrawnWire(space, w) \in D
  <2>1. Plain(space) /\ DOMAIN space \subseteq U
    BY <1>3, PlainSpacesFacts
  <2>2. DOMAIN WireBlocks(w) \subseteq U
    BY <1>2
  <2>3. Plain(WireBlocks(w)) /\ Plain(PlacedRepeaters(w)) /\ DOMAIN PlacedRepeaters(w) = {}
    BY PlainWire
  <2>4. PICK f, g : f = PlacedRepeaters(w) /\ g = Over(WireBlocks(w), space)
    OBVIOUS
  <2>5. Plain(g) /\ DOMAIN g \subseteq U
    BY <2>1, <2>2, <2>3, <2>4, PlainOver
  <2>6. Plain(Over(f, g)) /\ DOMAIN Over(f, g) \subseteq U
    BY <2>3, <2>4, <2>5, PlainOver
  <2>7. DrawnWire(space, w) = Over(f, g)
    BY <2>4 DEF DrawnWire
  <2>8. QED BY <1>3, <2>6, <2>7, PlainSpacesFacts
<1>6. Step \in [D \X (1 .. n) -> D]
  <2>1. ASSUME NEW a \in D \X (1 .. n) PROVE DrawnWire(a[1], s[a[2]]) \in D
    <3>1. a[1] \in D /\ s[a[2]] \in X
      BY <1>1
    <3>2. QED BY <1>5, <3>1
  <2>2. QED BY <2>1
<1>7. PICK it \in [SUBSET (1 .. n) -> D] : IsLeftFold(it, n, <<>>, Step)
  <2> HIDE DEF Step
  <2>1. \E f \in [SUBSET (1 .. n) -> D] : IsLeftFold(f, n, <<>>, Step)
    BY ONLY <1>1, <1>4, <1>6, LeftFoldExists
  <2>2. QED BY <2>1
<1>8. it = Code(it)
  <2>1. ASSUME NEW T \in SUBSET (1 .. n)
        PROVE  it[T] = IF T = {} THEN <<>> ELSE DrawnWire(it[T \ {Greatest(T)}], s[Greatest(T)])
    <3>1. it[T] = IF T = {} THEN <<>> ELSE Step[<<it[T \ {Greatest(T)}], Greatest(T)>>]
      <4> HIDE DEF Step
      <4> QED BY <1>7 DEF IsLeftFold
    <3>2. ASSUME T # {} PROVE <<it[T \ {Greatest(T)}], Greatest(T)>> \in D \X (1 .. n)
      <4>1. Greatest(T) \in 1 .. n /\ T \ {Greatest(T)} \in SUBSET (1 .. n)
        BY <1>1, <3>2, GreatestFacts
      <4>2. QED BY <1>7, <4>1
    <3>3. QED BY <3>1, <3>2
  <2>2. it = [T \in SUBSET (1 .. n) |-> it[T]]
    <3> HIDE DEF Step
    <3> QED BY <1>7
  <2> HIDE DEF Step
  <2>3. it = [T \in SUBSET (1 .. n) |-> IF T = {} THEN <<>>
                                        ELSE DrawnWire(it[T \ {Greatest(T)}], s[Greatest(T)])]
    BY ONLY <2>1, <2>2
  <2>4. QED BY ONLY <2>3 DEF Greatest, Max
<1>9. PICK f : DrawWires = f[1 .. n] /\ f = Code(f)
  <2>1. DrawWires = (CHOOSE f : f = Code(f))[1 .. n]
    BY <1>1 DEF DrawWires, FoldLeft, MapThenFoldSet
  <2> HIDE DEF Code
  <2>2. (CHOOSE f : f = Code(f)) = Code(CHOOSE f : f = Code(f))
    BY <1>8
  <2>3. QED BY <2>1, <2>2
<1>10. ASSUME NEW T \in SUBSET (1 .. n)
       PROVE  f[T] = IF T = {} THEN <<>> ELSE DrawnWire(f[T \ {Greatest(T)}], s[Greatest(T)])
  BY <1>9 DEF Greatest, Max
<1> HIDE DEF Code
<1>11. ASSUME NEW T \in SUBSET (1 .. n), T # {}, f[T \ {Greatest(T)}] \in D
       PROVE  f[T] = Step[<<f[T \ {Greatest(T)}], Greatest(T)>>]
  <2>1. Greatest(T) \in 1 .. n
    BY <1>1, <1>11, GreatestFacts
  <2>2. f[T] = DrawnWire(f[T \ {Greatest(T)}], s[Greatest(T)])
    BY <1>10, <1>11
  <2>3. QED BY <1>11, <2>1, <2>2
<1>12. f[{}] = <<>>
  BY <1>10
<1> HIDE DEF Step
<1>13. f[1 .. n] \in D
  <2>1. \A T \in SUBSET (1 .. n) : T # {} /\ f[T \ {Greatest(T)}] \in D =>
            f[T] = Step[<<f[T \ {Greatest(T)}], Greatest(T)>>]
    BY ONLY <1>11
  <2>2. n \in Nat
    BY ONLY <1>1
  <2>3. f[{}] \in D
    BY ONLY <1>4, <1>12
  <2>4. QED BY ONLY ZenonT(30), <1>6, <2>1, <2>2, <2>3, LeftFoldStays
<1>14. QED BY <1>3, <1>9, <1>13, PlainSpacesFacts

\* Nor do the inverters add any.
LEMMA NodesDrawn ==
    ASSUME TreeOK(tree), NEW start, Plain(start)
    PROVE  Plain(DrawNodes(start))
<1>1. PICK s, n, X : /\ s = NodeOrder /\ n = Len(s) /\ X = Nodes /\ s \in Seq(X)
                     /\ n \in Nat /\ DOMAIN s = 1 .. n
  BY NodeOrderFacts
<1>2. PICK U : U = (DOMAIN start) \cup UNION {DOMAIN InverterBlocks(m) : m \in X}
  OBVIOUS
<1>3. PICK D : D = PlainSpaces(U)
  OBVIOUS
<1>4. start \in D
  BY <1>2, <1>3, PlainSpacesFacts
<1> DEFINE Step == [a \in D \X (1 .. n) |-> DrawnNode(a[1], s[a[2]])]
           Code(f) == [T \in SUBSET (1 .. n) |-> IF T = {} THEN start
                                                 ELSE DrawnNode(f[T \ {Max(T)}], s[Max(T)])]
<1>5. ASSUME NEW space \in D, NEW m \in X PROVE DrawnNode(space, m) \in D
  <2>1. Plain(space) /\ DOMAIN space \subseteq U
    BY <1>3, PlainSpacesFacts
  <2>2. PICK g : g = InverterBlocks(m) /\ Plain(g) /\ DOMAIN g \subseteq U
    BY <1>2, PlainInverter
  <2>3. Plain(Over(g, space)) /\ DOMAIN Over(g, space) \subseteq U
    BY <2>1, <2>2, PlainOver
  <2>4. Over(g, space) \in D
    BY <1>3, <2>3, PlainSpacesFacts
  <2>5. QED BY <2>2, <2>4 DEF DrawnNode
<1>6. Step \in [D \X (1 .. n) -> D]
  <2>1. ASSUME NEW a \in D \X (1 .. n) PROVE DrawnNode(a[1], s[a[2]]) \in D
    <3>1. a[1] \in D /\ s[a[2]] \in X
      BY <1>1
    <3>2. QED BY <1>5, <3>1
  <2>2. QED BY <2>1
<1>7. PICK it \in [SUBSET (1 .. n) -> D] : IsLeftFold(it, n, start, Step)
  <2> HIDE DEF Step
  <2>1. \E f \in [SUBSET (1 .. n) -> D] : IsLeftFold(f, n, start, Step)
    BY ONLY <1>1, <1>4, <1>6, LeftFoldExists
  <2>2. QED BY <2>1
<1>8. it = Code(it)
  <2>1. ASSUME NEW T \in SUBSET (1 .. n)
        PROVE  it[T] = IF T = {} THEN start ELSE DrawnNode(it[T \ {Greatest(T)}], s[Greatest(T)])
    <3>1. it[T] = IF T = {} THEN start ELSE Step[<<it[T \ {Greatest(T)}], Greatest(T)>>]
      <4> HIDE DEF Step
      <4> QED BY <1>7 DEF IsLeftFold
    <3>2. ASSUME T # {} PROVE <<it[T \ {Greatest(T)}], Greatest(T)>> \in D \X (1 .. n)
      <4>1. Greatest(T) \in 1 .. n /\ T \ {Greatest(T)} \in SUBSET (1 .. n)
        BY <1>1, <3>2, GreatestFacts
      <4>2. QED BY <1>7, <4>1
    <3>3. QED BY <3>1, <3>2
  <2>2. it = [T \in SUBSET (1 .. n) |-> it[T]]
    <3> HIDE DEF Step
    <3> QED BY <1>7
  <2> HIDE DEF Step
  <2>3. it = [T \in SUBSET (1 .. n) |-> IF T = {} THEN start
                                        ELSE DrawnNode(it[T \ {Greatest(T)}], s[Greatest(T)])]
    BY ONLY <2>1, <2>2
  <2>4. QED BY ONLY <2>3 DEF Greatest, Max
<1>9. PICK f : DrawNodes(start) = f[1 .. n] /\ f = Code(f)
  <2>1. DrawNodes(start) = (CHOOSE f : f = Code(f))[1 .. n]
    BY <1>1 DEF DrawNodes, FoldLeft, MapThenFoldSet
  <2> HIDE DEF Code
  <2>2. (CHOOSE f : f = Code(f)) = Code(CHOOSE f : f = Code(f))
    BY <1>8
  <2>3. QED BY <2>1, <2>2
<1>10. ASSUME NEW T \in SUBSET (1 .. n)
       PROVE  f[T] = IF T = {} THEN start ELSE DrawnNode(f[T \ {Greatest(T)}], s[Greatest(T)])
  BY <1>9 DEF Greatest, Max
<1> HIDE DEF Code
<1>11. ASSUME NEW T \in SUBSET (1 .. n), T # {}, f[T \ {Greatest(T)}] \in D
       PROVE  f[T] = Step[<<f[T \ {Greatest(T)}], Greatest(T)>>]
  <2>1. Greatest(T) \in 1 .. n
    BY <1>1, <1>11, GreatestFacts
  <2>2. f[T] = DrawnNode(f[T \ {Greatest(T)}], s[Greatest(T)])
    BY <1>10, <1>11
  <2>3. QED BY <1>11, <2>1, <2>2
<1>12. f[{}] = start
  BY <1>10
<1> HIDE DEF Step
<1>13. f[1 .. n] \in D
  <2>1. \A T \in SUBSET (1 .. n) : T # {} /\ f[T \ {Greatest(T)}] \in D =>
            f[T] = Step[<<f[T \ {Greatest(T)}], Greatest(T)>>]
    BY ONLY <1>11
  <2>2. n \in Nat
    BY ONLY <1>1
  <2>3. QED BY ONLY ZenonT(30), <1>4, <1>6, <1>12, <2>1, <2>2, LeftFoldStays
<1>14. QED BY <1>3, <1>9, <1>13, PlainSpacesFacts

\* A model without repeaters is drawn without repeaters.
LEMMA DrawingFacts ==
    ASSUME TreeOK(tree), repeaters = {}
    PROVE  Cells(Drawing, "repeater") = {}
<1>1. Drawing = DrawNodes(DrawWires)
  BY DEF Drawing, DrawNodes, DrawWires
<1>2. Plain(Drawing)
  BY <1>1, WiresDrawn, NodesDrawn
<1>3. QED BY <1>2 DEF Plain, PlainBlocks, Cells

(***************************************************************************)
(* Simulation.                                                              *)
(***************************************************************************)
\* What a source reaches is a destination.
LEMMA ReachedFacts == \A r : Reached(r) \subseteq Inverters \cup OutIfaces
BY DEF Reached

\* The simulation stays what it is as long as no one touches it.
LEMMA SimulationKept ==
    ASSUME SimulationOK, UNCHANGED <<simulation, tree>>,
           \/ stage' = stage /\ timing' = timing
           \/ stage' # "assess" /\ stage \notin {"assess", "done"} /\ stage' # "done"
    PROVE  SimulationOK'
<1>1. blocks' = blocks /\ tests' = tests /\ sim' = sim /\ links' = links /\ tree' = tree
  BY DEF simulation
<1>2. Inverters' = Inverters
  BY <1>1 DEF Inverters, Nodes
<1>3. CASE stage' = stage /\ timing' = timing
  BY <1>1, <1>2, <1>3 DEF SimulationOK, NotSimulated, Idle, Cells
<1>4. CASE stage' # "assess" /\ stage \notin {"assess", "done"} /\ stage' # "done"
  <2>1. NotSimulated
    BY <1>4 DEF SimulationOK
  <2>2. NotSimulated'
    BY <1>1, <2>1 DEF NotSimulated, Idle
  <2>3. sim' = Idle' /\ links' = {} /\ sim'.hit = {} /\ blocks' = <<>>
    BY <2>2 DEF NotSimulated, Idle
  <2>4. Cells(blocks, "repeater")' = {}
    BY <2>3 DEF Cells
  <2>5. QED BY <1>4, <2>2, <2>3, <2>4 DEF SimulationOK
<1>5. QED BY <1>3, <1>4

\* Nothing is simulated before anything is drawn, whatever becomes of the model.
LEMMA NotSimulatedYet ==
    ASSUME SimulationOK, UNCHANGED simulation, stage \notin {"assess", "done"},
           stage' \notin {"assess", "done"}
    PROVE  SimulationOK'
<1>1. blocks' = blocks /\ tests' = tests /\ sim' = sim /\ links' = links
  BY DEF simulation
<1>2. NotSimulated
  BY DEF SimulationOK
<1>3. NotSimulated'
  BY <1>1, <1>2 DEF NotSimulated, Idle
<1>4. sim' = Idle' /\ links' = {} /\ sim'.hit = {} /\ blocks' = <<>>
  BY <1>3 DEF NotSimulated, Idle
<1>5. Cells(blocks, "repeater")' = {}
  BY <1>4 DEF Cells
<1>6. QED BY <1>3, <1>4, <1>5 DEF SimulationOK

\* toBlocks draws repeaters only where the model has some.
LEMMA ToBlocksOK ==
    ASSUME ModelOK, RepairOK, SimulationOK, ToBlocks
    PROVE  SimulationOK'
<1>1. /\ stage = "blocks" /\ stage' = "assess" /\ blocks' = Drawing
      /\ tests' = InverterOrder \o SetToSeq(InIfaces)
      /\ tree' = tree /\ timing' = timing /\ sim' = sim /\ links' = links
  BY DEF ToBlocks, model, repair
<1>2. sim = Idle /\ links = {} /\ sim.hit = {}
  BY <1>1 DEF SimulationOK, NotSimulated, Idle
<1>3. PICK I : I = Inverters \cup InIfaces
  OBVIOUS
<1>4. tests' \in Seq(I)
  <2>1. PICK s, t : s = InverterOrder /\ t = SetToSeq(InIfaces) /\ s \in Seq(Inverters) /\ t \in Seq(InIfaces)
    BY InverterOrderFacts, ListFacts, InterfacesAssumption DEF ModelOK
  <2>2. s \in Seq(I) /\ t \in Seq(I)
    BY <1>3, <2>1
  <2>3. s \o t \in Seq(I)
    BY <2>2
  <2>4. QED BY <1>1, <2>1, <2>3
<1>5. Inverters' = Inverters
  BY <1>1 DEF Inverters, Nodes
<1>6. timing' = "kept" => Cells(blocks, "repeater")' = {}
  <2>1. ASSUME timing = "kept" PROVE Cells(Drawing, "repeater") = {}
    <3>1. repeaters = {}
      BY <1>1, <2>1 DEF RepairOK
    <3>2. QED BY <3>1, DrawingFacts DEF ModelOK
  <2>2. QED BY <1>1, <2>1 DEF Cells
<1>7. sim' = Idle' /\ links' = {} /\ sim'.hit = {}
  BY <1>1, <1>2 DEF Idle
<1>8. tests' \in Seq(Inverters' \cup InIfaces)
  BY <1>3, <1>4, <1>5
<1>9. QED BY <1>1, <1>6, <1>7, <1>8 DEF SimulationOK

\* What is reached is there, whichever blocks are on.
LEMMA RunFacts ==
    ASSUME NEW s, NEW r, NEW on, NEW set, r = Propagate(blocks, on, set)
    PROVE  Run(s, r).source = s /\ Run(s, r).hit \subseteq DOMAIN blocks
BY HitThere DEF Run

\* A test reaches blocks that are there, and links its source.
LEMMA TestOK ==
    ASSUME SimulationOK, Test
    PROVE  SimulationOK'
<1>1. PICK s, r : /\ s = Head(tests) /\ sim' = Run(s, r)
                  /\ links' = links \cup {<<s, d>> : d \in Reached(r)}
                  /\ r = Propagate(blocks, {}, {IfaceCell(s)}) \/ r = Propagate(blocks, {TorchCell(s)}, {})
  BY DEF Test
<1>2. /\ stage = "assess" /\ stage' = stage /\ tests # <<>> /\ tests' = Tail(tests)
      /\ tree' = tree /\ timing' = timing /\ blocks' = blocks
  BY DEF Test, model, repair
<1>3. sim'.source = s /\ sim'.hit \subseteq DOMAIN blocks
  BY <1>1, RunFacts
<1>4. PICK I : I = Inverters \cup InIfaces
  OBVIOUS
<1>5. tests \in Seq(I)
  BY <1>2, <1>4 DEF SimulationOK
<1>6. s \in I /\ tests' \in Seq(I)
  BY <1>1, <1>2, <1>5
<1>7. Inverters' = Inverters
  BY <1>2 DEF Inverters, Nodes
<1>8. links' \subseteq I \X (Inverters \cup OutIfaces)
  <2>1. {<<s, d>> : d \in Reached(r)} \subseteq I \X (Inverters \cup OutIfaces)
    BY <1>6, ReachedFacts
  <2>2. QED BY <1>1, <1>4, <2>1 DEF SimulationOK
<1>9. timing' = "kept" => Cells(blocks, "repeater")' = {}
  BY <1>2 DEF SimulationOK, Cells
<1>10. QED BY <1>2, <1>3, <1>4, <1>6, <1>7, <1>8, <1>9 DEF SimulationOK

\* So does every round of it.
LEMMA ExtendTestOK ==
    ASSUME SimulationOK, ExtendTest
    PROVE  SimulationOK'
<1>1. PICK r : /\ sim' = Run(sim.source, r)
               /\ links' = links \cup {<<sim.source, d>> : d \in Reached(r)}
               /\ r = Propagate(blocks, RepeatersHit, {})
  BY DEF ExtendTest
<1>2. /\ sim # Idle /\ stage' = stage /\ tests' = tests
      /\ tree' = tree /\ timing' = timing /\ blocks' = blocks
  BY DEF ExtendTest, model, repair
<1>3. sim'.source = sim.source /\ sim'.hit \subseteq DOMAIN blocks
  BY <1>1, RunFacts
<1>4. PICK I : I = Inverters \cup InIfaces
  OBVIOUS
<1>5. sim.source \in I /\ stage = "assess"
  BY <1>2, <1>4 DEF SimulationOK, NotSimulated
<1>6. Inverters' = Inverters
  BY <1>2 DEF Inverters, Nodes
<1>7. links' \subseteq I \X (Inverters \cup OutIfaces)
  <2>1. PICK a : a = sim.source
    OBVIOUS
  <2>2. {<<a, d>> : d \in Reached(r)} \subseteq I \X (Inverters \cup OutIfaces)
    BY <1>5, <2>1, ReachedFacts
  <2>3. QED BY <1>1, <1>4, <2>1, <2>2 DEF SimulationOK
<1>8. timing' = "kept" => Cells(blocks, "repeater")' = {}
  BY <1>2 DEF SimulationOK, Cells
<1>9. tests' \in Seq(I)
  BY <1>2, <1>4, <1>5 DEF SimulationOK
<1>10. QED BY <1>2, <1>3, <1>4, <1>5, <1>6, <1>7, <1>8, <1>9 DEF SimulationOK

\* A test ends with nothing reached.
LEMMA FinishTestOK ==
    ASSUME SimulationOK, FinishTest
    PROVE  SimulationOK'
<1>1. /\ sim # Idle /\ sim' = Idle /\ stage' = stage /\ tests' = tests /\ links' = links
      /\ tree' = tree /\ timing' = timing /\ blocks' = blocks
  BY DEF FinishTest, model, repair
<1>2. stage = "assess"
  BY <1>1 DEF SimulationOK, NotSimulated
<1>3. sim' = Idle' /\ sim'.hit = {}
  BY <1>1 DEF Idle
<1>4. Inverters' = Inverters /\ Cells(blocks, "repeater")' = Cells(blocks, "repeater")
  BY <1>1 DEF Inverters, Nodes, Cells
<1>5. QED BY <1>1, <1>2, <1>3, <1>4 DEF SimulationOK

\* So does testing.
LEMMA FinishBlocksOK ==
    ASSUME SimulationOK, FinishBlocks
    PROVE  SimulationOK'
<1>1. /\ stage = "assess" /\ stage' = "done" /\ sim = Idle /\ sim' = sim /\ tests' = tests
      /\ links' = links /\ tree' = tree /\ timing' = timing /\ blocks' = blocks
  BY DEF FinishBlocks, model, repair, simulation
<1>2. sim' = Idle' /\ sim'.hit = {}
  BY <1>1 DEF Idle
<1>3. Inverters' = Inverters /\ Cells(blocks, "repeater")' = Cells(blocks, "repeater")
  BY <1>1 DEF Inverters, Nodes, Cells
<1>4. QED BY <1>1, <1>2, <1>3 DEF SimulationOK

(***************************************************************************)
(* Every step keeps what the synthesis is.                                  *)
(***************************************************************************)
\* createModel works before anything is placed.
LEMMA ModelStages ==
    ASSUME ModelNext
    PROVE  {stage, stage'} \subseteq {"bottom", "layers", "top"}
<1>1. ASSUME NEW i \in InIfaces, ProcessBottomIFace(i) PROVE {stage, stage'} \subseteq {"bottom", "layers", "top"}
  BY <1>1 DEF ProcessBottomIFace
<1>2. CASE ProcessLooseVertex
  BY <1>2 DEF ProcessLooseVertex
<1>3. CASE NextLayer
  BY <1>3 DEF NextLayer
<1>4. CASE ProcessVertex
  BY <1>4 DEF ProcessVertex
<1>5. CASE ProcessEdge
  BY <1>5 DEF ProcessEdge, AfterEdge
<1>6. ASSUME NEW n, ProcessLeaf(n) PROVE {stage, stage'} \subseteq {"bottom", "layers", "top"}
  BY <1>6 DEF ProcessLeaf, AfterEdge
<1>7. CASE BeginTopIFaces
  BY <1>7 DEF BeginTopIFaces
<1>8. ASSUME NEW i \in OutIfaces, NEW n, ProcessTopIFace(i, n)
      PROVE  {stage, stage'} \subseteq {"bottom", "layers", "top"}
  BY <1>8 DEF ProcessTopIFace
<1>9. QED BY <1>1, <1>2, <1>3, <1>4, <1>5, <1>6, <1>7, <1>8 DEF ModelNext

\* Every step of createModel keeps the invariant.
LEMMA CreateStep ==
    ASSUME SynthesisOK, CreateModel
    PROVE  SynthesisOK'
<1>1. ModelOK /\ PlacementOK /\ RepairOK /\ SimulationOK
  BY DEF SynthesisOK
<1>2. ModelNext /\ UNCHANGED placement /\ UNCHANGED repair /\ UNCHANGED simulation
  BY DEF CreateModel
<1>3. {stage, stage'} \subseteq {"bottom", "layers", "top"}
  BY <1>2, ModelStages
<1>4. ModelOK'
  BY <1>1, <1>2, CreateModelOK
<1>5. PlacementOK'
  <2>1. col = <<>> /\ todo = <<>> /\ bottom = <<>>
    BY <1>1, <1>3 DEF PlacementOK
  <2>2. (col = <<>> /\ bottom = <<>> /\ todo = <<>> /\ stage \in {"bottom", "layers", "top"})'
    BY <1>2, <1>3, <2>1 DEF placement
  <2>3. QED BY <2>2, NothingPlacedYet
<1>6. RepairOK'
  BY <1>1, <1>2, <1>3, RepairKept
<1>7. SimulationOK'
  BY <1>1, <1>2, <1>3, NotSimulatedYet
<1>8. QED BY <1>4, <1>5, <1>6, <1>7 DEF SynthesisOK

\* Every step of computeSpatial keeps the invariant.
LEMMA SpatialStep ==
    ASSUME SynthesisOK, ComputeSpatial
    PROVE  SynthesisOK'
<1>1. ModelOK /\ PlacementOK /\ RepairOK /\ SimulationOK
  BY DEF SynthesisOK
<1>2. UNCHANGED repair /\ UNCHANGED simulation
  BY DEF ComputeSpatial
<1>3. /\ UNCHANGED <<netlist, model>> /\ stage \in {"top", "place", "vertical"}
      /\ stage' \in {"place", "vertical", "segments"}
  <2>1. CASE PreComputeSpatial
    BY <2>1 DEF PreComputeSpatial
  <2>2. CASE PlaceNode
    BY <2>2 DEF PlaceNode
  <2>3. CASE PlaceBottomWires
    BY <2>3 DEF PlaceBottomWires
  <2>4. CASE ComputeVertical
    BY <2>4 DEF ComputeVertical
  <2>5. QED BY <2>1, <2>2, <2>3, <2>4 DEF ComputeSpatial
<1>4. ModelOK'
  <2>1. stage' \in Stages /\ {stage, stage'} \cap {"bottom", "layers"} = {}
    BY <1>3 DEF Stages
  <2>2. QED BY <1>1, <1>3, <2>1, ModelKept
<1>5. PlacementOK'
  <2>1. CASE PreComputeSpatial
    BY <1>1, <2>1, PreComputeOK
  <2>2. CASE PlaceNode
    BY <1>1, <2>2, PlaceNodeOK
  <2>3. CASE PlaceBottomWires
    BY <1>1, <2>3, PlaceBottomOK
  <2>4. CASE ComputeVertical
    <3>1. /\ UNCHANGED <<tree, col, bottom, todo>>
          /\ {stage, stage'} \cap {"bottom", "layers", "top", "place"} = {}
      BY <2>4 DEF ComputeVertical, model
    <3>2. QED BY <1>1, <3>1, PlacementKept
  <2>5. QED BY <2>1, <2>2, <2>3, <2>4 DEF ComputeSpatial
<1>6. RepairOK'
  BY <1>1, <1>2, <1>3, RepairKept
<1>7. SimulationOK'
  BY <1>1, <1>2, <1>3, NotSimulatedYet
<1>8. QED BY <1>4, <1>5, <1>6, <1>7 DEF SynthesisOK

\* Every step of fixBrokenLinks keeps it, and splitting starts it anew.
LEMMA FixStep ==
    ASSUME SynthesisOK, FixBrokenLinks
    PROVE  SynthesisOK'
<1>1. ModelOK /\ PlacementOK /\ RepairOK /\ SimulationOK
  BY DEF SynthesisOK
<1>2. UNCHANGED simulation /\ RepairOK'
  BY <1>1, FixRepairOK DEF FixBrokenLinks
<1>3. CASE SplitBroken
  <2>1. /\ stage = "repair" /\ stage' = "bottom" /\ NewModel
        /\ netlist' = SplitAll(netlist, broken) /\ MayAdd(2 * Cardinality(broken))
        /\ col' = <<>> /\ bottom' = <<>> /\ todo' = <<>>
    BY <1>3 DEF SplitBroken, NewModel
  <2>2. Attached(netlist) /\ broken \in SUBSET netlist.vertices
    BY <1>1 DEF ModelOK, KnownOK, RepairOK
  <2>3. Attached(SplitAll(netlist, broken))
    BY <2>1, <2>2, SplitAllFacts
  <2>4. Attached(netlist)'
    <3>1. Attached(netlist')
      BY <2>1, <2>3
    <3>2. QED BY <3>1 DEF Attached, Graph!Graphs, Graph!VertexRefs, Graph!Ifaces
  <2>5. ModelOK'
    BY <2>1, <2>4, NewModelKeeps
  <2>6. PlacementOK'
    BY <2>1, NothingPlacedYet
  <2>7. SimulationOK'
    BY <1>1, <1>2, <2>1, NotSimulatedYet
  <2>8. QED BY <1>2, <2>5, <2>6, <2>7 DEF SynthesisOK
<1>4. CASE ~SplitBroken
  <2> DEFINE Repairing ==
        /\ UNCHANGED <<netlist, model, placement>> /\ stage \in {"segments", "repair"}
        /\ stage' \in {"repair", "blocks", "aborted"}
  <2>1. Repairing
    <3>1. CASE CreateSegments
      BY <3>1 DEF CreateSegments
    <3>2. CASE BeginConnection
      BY <3>2 DEF BeginConnection
    <3>3. ASSUME NEW evaluated, PlaceRepeater(evaluated) PROVE Repairing
      BY <3>3 DEF PlaceRepeater
    <3>4. ASSUME NEW evaluated, GiveUpConnection(evaluated) PROVE Repairing
      BY <3>4 DEF GiveUpConnection
    <3>5. ASSUME NEW evaluated, Abort(evaluated) PROVE Repairing
      BY <3>5 DEF Abort
    <3>6. CASE FinishRepair
      BY <3>6 DEF FinishRepair
    <3>7. QED
      BY <1>4, <3>1, <3>2, <3>3, <3>4, <3>5, <3>6 DEF FixBrokenLinks, FixConnection
  <2>2. ModelOK'
    <3>1. stage' \in Stages /\ {stage, stage'} \cap {"bottom", "layers"} = {}
      BY <2>1 DEF Stages
    <3>2. QED BY <1>1, <2>1, <3>1, ModelKept
  <2>3. PlacementOK'
    <3>1. /\ UNCHANGED <<tree, col, bottom, todo>>
          /\ {stage, stage'} \cap {"bottom", "layers", "top", "place"} = {}
      BY <2>1 DEF model, placement
    <3>2. QED BY <1>1, <3>1, PlacementKept
  <2>4. SimulationOK'
    BY <1>1, <1>2, <2>1, NotSimulatedYet
  <2>5. QED BY <1>2, <2>2, <2>3, <2>4 DEF SynthesisOK
<1>5. QED BY <1>3, <1>4

\* Every step of drawing and testing keeps the invariant.
LEMMA BlocksStep ==
    ASSUME SynthesisOK, BGTree
    PROVE  SynthesisOK'
<1>1. ModelOK /\ PlacementOK /\ RepairOK /\ SimulationOK
  BY DEF SynthesisOK
<1>2. /\ UNCHANGED <<netlist, model, placement, repair>>
      /\ stage \in {"blocks", "assess"} /\ stage' \in {"assess", "done"}
  <2>1. CASE ToBlocks
    BY <2>1 DEF ToBlocks
  <2>2. CASE Test
    BY <2>2 DEF Test
  <2>3. sim # Idle => stage = "assess"
    BY <1>1 DEF SimulationOK, NotSimulated
  <2>4. CASE ExtendTest
    <3>1. sim # Idle /\ UNCHANGED <<netlist, stage, model, placement, repair>>
      BY <2>4 DEF ExtendTest
    <3>2. QED BY <2>3, <3>1
  <2>5. CASE FinishTest
    <3>1. sim # Idle /\ UNCHANGED <<netlist, stage, model, placement, repair>>
      BY <2>5 DEF FinishTest
    <3>2. QED BY <2>3, <3>1
  <2>6. CASE FinishBlocks
    BY <2>6 DEF FinishBlocks
  <2>7. QED BY <2>1, <2>2, <2>4, <2>5, <2>6 DEF BGTree
<1>3. ModelOK'
  <2>1. stage' \in Stages /\ {stage, stage'} \cap {"bottom", "layers"} = {}
    BY <1>2 DEF Stages
  <2>2. QED BY <1>1, <1>2, <2>1, ModelKept
<1>4. PlacementOK'
  <2>1. /\ UNCHANGED <<tree, col, bottom, todo>>
        /\ {stage, stage'} \cap {"bottom", "layers", "top", "place"} = {}
    BY <1>2 DEF model, placement
  <2>2. QED BY <1>1, <2>1, PlacementKept
<1>5. RepairOK'
  BY <1>1, <1>2, RepairKept
<1>6. SimulationOK'
  BY <1>1, ToBlocksOK, TestOK, ExtendTestOK, FinishTestOK, FinishBlocksOK DEF BGTree
<1>7. QED BY <1>3, <1>4, <1>5, <1>6 DEF SynthesisOK

\* Nothing happens: nothing is lost.
LEMMA StutterStep ==
    ASSUME SynthesisOK, UNCHANGED vars
    PROVE  SynthesisOK'
<1>1. ModelOK /\ PlacementOK /\ RepairOK /\ SimulationOK
  BY DEF SynthesisOK
<1>2. UNCHANGED <<netlist, model, placement, repair, simulation, stage>>
  BY DEF vars
<1>3. ModelOK'
  <2>1. stage \in Stages
    BY <1>1 DEF ModelOK, StagesOK
  <2>2. stage' \in Stages
    BY <1>2, <2>1
  <2>3. QED BY <1>1, <1>2, <2>2, ModelKept
<1>4. PlacementOK'
  BY <1>1, <1>2, PlacementKept DEF model, placement
<1>5. RepairOK'
  BY <1>1, <1>2 DEF RepairOK, repair, model, NoRoute
<1>6. SimulationOK'
  BY <1>1, <1>2, SimulationKept DEF model, repair
<1>7. QED BY <1>3, <1>4, <1>5, <1>6 DEF SynthesisOK

\* The netlists the transformation is asked for are attached, and nothing is made.
LEMMA InitSynthesis ==
    ASSUME Init
    PROVE  SynthesisOK
<1>1. Attached(netlist) /\ StartModel /\ NotPlaced /\ NotRepaired /\ NotSimulated
  BY NetlistsAttached DEF Init
<1>2. ModelOK
  BY <1>1, NewModelOK
<1>3. stage = "bottom"
  BY <1>1 DEF StartModel
<1>4. PlacementOK
  BY <1>1, <1>3, NothingPlaced DEF NotPlaced
<1>5. RepairOK
  BY <1>1, <1>3 DEF RepairOK, NotRepaired
<1>6. SimulationOK
  <2>1. sim = Idle /\ links = {} /\ blocks = <<>> /\ sim.hit = {}
    BY <1>1 DEF NotSimulated, Idle
  <2>2. Cells(blocks, "repeater") = {}
    BY <2>1 DEF Cells
  <2>3. QED BY <1>1, <1>3, <2>1, <2>2 DEF SimulationOK
<1>7. QED BY <1>2, <1>4, <1>5, <1>6 DEF SynthesisOK

\* Every state of the synthesis is one the four parts describe.
THEOREM SynthesisInvariant == Spec => []SynthesisOK
<1>1. Init => SynthesisOK
  BY InitSynthesis
<1>2. SynthesisOK /\ [Next]_vars => SynthesisOK'
  <2>1. SynthesisOK /\ Next => SynthesisOK'
    BY CreateStep, SpatialStep, FixStep, BlocksStep, StutterStep DEF Next, Done
  <2>2. QED BY <2>1, StutterStep
<1>3. QED BY <1>1, <1>2, PTL DEF Spec

(***************************************************************************)
(* What follows.                                                            *)
(***************************************************************************)
\* Every variable of the synthesis keeps its type.  The type of a tree says more
\* than which values there are: every node is in one group, and a group's parent is
\* one layer below it (MutableLayer, NodeGroup).
THEOREM SynthesisTypeOK == Spec => []TypeOK
<1>1. SynthesisOK => TypeOK
  <2>1. SUFFICES ASSUME SynthesisOK PROVE TypeOK
    OBVIOUS
  <2>2. ModelOK /\ PlacementOK /\ RepairOK /\ SimulationOK
    BY <2>1 DEF SynthesisOK
  <2>3. stage \in Stages /\ netlist.vertices \subseteq Graph!VertexRefs
    BY <2>2, NetlistFacts DEF ModelOK, StagesOK, Vertices
  <2>4. ASSUME NEW n \in Nodes
        PROVE  Cardinality({p \in Places(tree) : Contains(GroupAt(tree, p).nodes, n)}) = 1
    <3>1. PICK p \in Places(tree) : /\ InGroup(tree, p, n)
                                    /\ \A q \in Places(tree) : InGroup(tree, q, n) => q = p
      BY <2>2 DEF ModelOK, TreeOK, Homed, Nodes
    <3>2. {q \in Places(tree) : Contains(GroupAt(tree, q).nodes, n)} = {p}
      BY <3>1 DEF InGroup
    <3>3. QED BY <3>2, FS_Singleton
  <2>5. \A p \in Places(tree) : GroupAt(tree, p).parent # NoParent =>
            LayerOf(tree, GroupAt(tree, p).parent) = p[1] - 1
    BY <2>2 DEF ModelOK, TreeOK, Hung
  <2>6. DOMAIN known \subseteq netlist.vertices /\ ToSet(lower) \cup ToSet(upper) \subseteq DOMAIN known
    BY <2>2 DEF ModelOK, KnownOK, FrontOK, ToSet
  <2>7. DOMAIN col \subseteq Nodes /\ Range(col) \subseteq Nat /\ Range(bottom) \subseteq Nat
    BY <2>2 DEF PlacementOK, Range
  <2>8. pending \cup broken \subseteq netlist.vertices /\ timing \in {"kept", "broken"}
    BY <2>2, <2>6 DEF RepairOK
  <2>9. links \subseteq (Nodes \cup InIfaces) \X (Nodes \cup OutIfaces)
    BY <2>2 DEF SimulationOK, Inverters
  <2>10. QED BY <2>3, <2>4, <2>5, <2>6, <2>7, <2>8, <2>9 DEF TypeOK
<1>2. QED BY <1>1, SynthesisInvariant, PTL

\* When the tree is finished it has an inverter for each of the netlist's, whatever
\* order its vertices were met in and however often it was split (createModel).
THEOREM TreeIsComplete == Spec => []TreeHoldsNetlist
<1>1. SynthesisOK => TreeHoldsNetlist
  <2>1. SUFFICES ASSUME SynthesisOK, stage = "place",
                        NEW v \in netlist.vertices, NEW w \in netlist.vertices
                 PROVE  netlist.edges[<<v, w>>] = Cardinality({n \in Nodes : tree.nodes[n].invert
                                    /\ <<tree.nodes[n].in, tree.nodes[n].out>> = <<v, w>>})
    BY DEF TreeHoldsNetlist
  <2>2. ModelOK
    BY <2>1 DEF SynthesisOK
  <2>3. lower = <<>> /\ upper = <<>> /\ ToSet(lower) = {} /\ ToSet(upper) = {}
    <3>1. lower = <<>> /\ upper = <<>>
      BY <2>1, <2>2 DEF ModelOK, StagesOK
    <3>2. QED BY <3>1 DEF ToSet
  <2>4. DOMAIN known = netlist.vertices
    <3>1. DOMAIN known \in SUBSET netlist.vertices
      BY <2>2 DEF ModelOK, KnownOK
    <3>2. Closed(netlist, DOMAIN known)
      BY <2>2, <2>3 DEF ModelOK, FollowedOK, Closed
    <3>3. QED BY <2>1, <2>2, <3>1, <3>2 DEF ModelOK, ReachedOK
  <2>5. Remaining(v, w) = 0
    BY <2>3, <2>4 DEF Remaining
  <2>6. Cardinality(Made(tree, v, w)) + Remaining(v, w) = netlist.edges[<<v, w>>]
    BY <2>2 DEF ModelOK, CountOK
  <2>7. Cardinality(Made(tree, v, w)) \in Nat
    BY <2>2, MadeFinite DEF ModelOK, TreeOK, Shaped
  <2>8. Made(tree, v, w) = {n \in Nodes : tree.nodes[n].invert
                                /\ <<tree.nodes[n].in, tree.nodes[n].out>> = <<v, w>>}
    BY DEF Made, Nodes
  <2>9. QED BY <2>5, <2>6, <2>7, <2>8
<1>2. QED BY <1>1, SynthesisInvariant, PTL

\* As long as nobody called breakTiming there is no repeater, neither placed nor
\* drawn nor reached: a slower model is always told (fixBrokenLinks, breakTiming).
THEOREM TimingIsTold == Spec => []TimingTold
<1>1. SynthesisOK => TimingTold
  <2>1. SUFFICES ASSUME SynthesisOK, timing = "kept" PROVE RepeatersHit = {}
    BY DEF TimingTold
  <2>2. sim.hit \subseteq DOMAIN blocks /\ Cells(blocks, "repeater") = {}
    BY <2>1 DEF SynthesisOK, SimulationOK
  <2>3. QED BY <2>2 DEF RepeatersHit, Cells
<1>2. QED BY <1>1, SynthesisInvariant, PTL
=============================================================================
