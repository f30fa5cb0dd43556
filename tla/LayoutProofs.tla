----------------------------- MODULE LayoutProofs -----------------------------
(***************************************************************************)
(* The wires that a synthesis draws are apart: WiresApart, for every        *)
(* netlist and every tree.                                                  *)
(*                                                                         *)
(* The invariant has a part for each step of the layout.  StructureOK is    *)
(* createModel's: channels have one wire per net, and whatever a node       *)
(* drives goes on, to a reader above, another output beside it, or an       *)
(* interface.  ColumnsOK is placeNodes': nodes of a layer are in different  *)
(* columns, and the router's columns leave an order of the nets that meet,  *)
(* so that less_ is one.  GeometryOK is computeVertical's: taking the wires *)
(* in that order and dropping each as far as it goes leaves those apart     *)
(* that share a row, and the layers are stacked above their channels.       *)
(***************************************************************************)
EXTENDS SynthesisProofs

-----------------------------------------------------------------------------
(***************************************************************************)
(* The tree: channels have a wire per net, and what a node drives goes on.  *)
(***************************************************************************)

\* The layers are still being made.
Building == stage \in {"bottom", "layers"}

\* Another output of the net in the same layer.
Sibling(t, n) ==
    \E m \in 1 .. Len(t.nodes) :
        m # n /\ LayerOf(t, m) = LayerOf(t, n) /\ t.nodes[m].out = t.nodes[n].out

\* The net has a wire in the channel above.
Wired(t, n) == t.nodes[n].out \in ToSet(t.channels[LayerOf(t, n) + 1])

\* A node's output goes on: up, or beside it to another output of its net.
Onward(t, n) == Child(t, n) # {} \/ (Wired(t, n) /\ Sibling(t, n))

\* In the highest layer it goes on to the outside.
AtTop(t, n) == Wired(t, n) /\ LayerOf(t, n) = Len(t.layers)

\* Which layer is the highest shows when all are made.
Goes(n) == Onward(tree, n) \/ (~Building /\ AtTop(tree, n))

\* Or it will, when its net is processed or handed to the interface it belongs to.
Queued(n) ==
    /\ tree.nodes[n].out \in ToSet(lower) \cup ToSet(upper)
    /\ known[tree.nodes[n].out] = n

\* It is its net's only output, and an interface still to be processed takes the net.
Offered(n) ==
    /\ \A m \in 1 .. Len(tree.nodes) : tree.nodes[m].out = tree.nodes[n].out => m = n
    /\ \E i \in OutIfaces : /\ netlist.ifaceMap[i] = tree.nodes[n].out
                            /\ ~Building => i \in ifaces

\* A pass-through reads what it drives.
Through(t) == \A n \in 1 .. Len(t.nodes) : ~t.nodes[n].invert => t.nodes[n].in = t.nodes[n].out

\* Every output goes on, or will.
EndsOK == \A n \in 1 .. Len(tree.nodes) : Goes(n) \/ Queued(n) \/ Offered(n)

\* What a node drives is known while the layers are made.
MetOK == Building => \A n \in 1 .. Len(tree.nodes) : tree.nodes[n].out \in DOMAIN known

\* Interfaces are attached to nodes of the highest layer, all of them in the end.
TopOK ==
    /\ \A k \in 1 .. Len(tree.top) : /\ tree.top[k].node \in 1 .. Len(tree.nodes)
                                     /\ LayerOf(tree, tree.top[k].node) = Len(tree.layers)
    /\ Building => tree.top = <<>>
    /\ stage \notin {"bottom", "layers", "top"} => ifaces = {}

\* What the layout relies on in a tree.
StructureOK == Sound(tree) /\ Through(tree) /\ EndsOK /\ MetOK /\ TopOK

\* What goes on in a tree does so when the tree has grown.
LEMMA OnwardStays ==
    ASSUME NEW t, TreeOK(t), NEW u, TreeOK(u), Extends(t, u), Wider(t, u), NEW n \in 1 .. Len(t.nodes)
    PROVE  /\ Wired(t, n) => Wired(u, n)
           /\ Onward(t, n) => Onward(u, n)
           /\ AtTop(t, n) => AtTop(u, n)
<1>1. /\ t \in Trees /\ Homed(t) /\ Len(t.channels) = Len(t.layers) + 1
      /\ Len(t.layers) \in Nat /\ Len(t.nodes) \in Nat
  BY TreeParts DEF TreeOK, Shaped
<1>2. LayerOf(t, n) \in 1 .. Len(t.layers)
  BY <1>1, HomeFacts
<1>3. LayerOf(t, n) + 1 \in 1 .. Len(t.channels)
  BY <1>1, <1>2
<1>4. /\ \A m \in 1 .. Len(t.nodes) : u.nodes[m] = t.nodes[m] /\ LayerOf(u, m) = LayerOf(t, m)
      /\ Len(t.nodes) <= Len(u.nodes) /\ Len(u.layers) = Len(t.layers)
  BY DEF Extends
<1>5. Wired(t, n) => Wired(u, n)
  BY <1>3, <1>4 DEF Wired, Wider
<1>6. Sibling(t, n) => Sibling(u, n)
  <2>1. ASSUME NEW m \in 1 .. Len(t.nodes), m # n, LayerOf(t, m) = LayerOf(t, n),
               t.nodes[m].out = t.nodes[n].out
        PROVE  Sibling(u, n)
    <3>1. m \in 1 .. Len(u.nodes)
      <4>1. Len(u.nodes) \in Nat
        BY TreeParts DEF TreeOK, Shaped
      <4>2. QED BY <1>1, <1>4, <4>1
    <3>2. QED BY <1>4, <2>1, <3>1 DEF Sibling
  <2>2. QED BY <2>1 DEF Sibling
<1>7. Child(t, n) # {} => Child(u, n) # {}
  BY ChildStays
<1>8. QED BY <1>4, <1>5, <1>6, <1>7 DEF Onward, AtTop

\* Wires below and interfaces do not matter to it.
LEMMA OnwardSame ==
    ASSUME NEW t, NEW u, u.layers = t.layers, u.nodes = t.nodes, u.channels = t.channels
    PROVE  /\ Sound(t) => Sound(u)
           /\ Through(t) => Through(u)
           /\ \A n : (Onward(t, n) => Onward(u, n)) /\ (AtTop(t, n) => AtTop(u, n))
<1>1. /\ Places(u) = Places(t) /\ \A p : GroupAt(u, p) = GroupAt(t, p)
      /\ \A n : LayerOf(u, n) = LayerOf(t, n)
  BY SameLayers
<1>2. Sound(t) => Sound(u)
  BY <1>1 DEF Sound
<1>3. \A n : Child(u, n) = Child(t, n)
  BY <1>1 DEF Child
<1>4. \A n : (Onward(t, n) => Onward(u, n)) /\ (AtTop(t, n) => AtTop(u, n))
  BY <1>1, <1>3 DEF Onward, AtTop, Wired, Sibling
<1>5. QED BY <1>2, <1>4 DEF Through

\* A new layer.
LEMMA NewLayerSound ==
    ASSUME NEW t, TreeOK(t), Sound(t),
           NEW u, u = [t EXCEPT !.layers = Append(@, <<>>), !.channels = Append(@, <<>>)]
    PROVE  /\ Sound(u)
           /\ \A n \in 1 .. Len(t.nodes) : Onward(t, n) => Onward(u, n)
<1>1. /\ TreeOK(u) /\ Places(u) = Places(t)
      /\ \A p \in Places(t) : GroupAt(u, p) = GroupAt(t, p)
      /\ \A n \in 1 .. Len(t.nodes) : LayerOf(u, n) = LayerOf(t, n)
      /\ u.nodes = t.nodes
      /\ u.channels = Append(t.channels, <<>>)
  BY NewLayerFacts
<1>2. /\ t \in Trees /\ Homed(t) /\ Len(t.channels) = Len(t.layers) + 1
      /\ Len(t.layers) \in Nat /\ t.channels \in Seq(Seq(Vertices))
  BY TreeParts DEF TreeOK, Shaped
<1>3. /\ Len(u.channels) = Len(t.channels) + 1
      /\ u.channels[Len(t.channels) + 1] = <<>>
      /\ \A c \in 1 .. Len(t.channels) : u.channels[c] = t.channels[c]
  <2>1. PICK s : s = t.channels
    OBVIOUS
  <2>2. s \in Seq(Seq(Vertices)) /\ u.channels = Append(s, <<>>)
    BY <1>1, <1>2, <2>1
  <2>3. PICK X : X = Seq(Vertices) \cup {<<>>}
    OBVIOUS
  <2>4. s \in Seq(X) /\ <<>> \in X
    BY <2>2, <2>3
  <2>5. QED BY ONLY <2>1, <2>2, <2>4
<1>4. \A c \in 1 .. Len(u.channels) : Distinct(u.channels[c])
  <2>1. Distinct(<<>>)
    BY DEF Distinct
  <2>2. \A c \in 1 .. Len(u.channels) : c \in 1 .. Len(t.channels) \/ c = Len(t.channels) + 1
    BY <1>2, <1>3
  <2>3. QED BY <1>3, <2>1, <2>2 DEF Sound
<1>5. \A p \in Places(t) : p[1] \in 1 .. Len(t.channels)
  <2>1. \A p \in Places(t) : p[1] \in 1 .. Len(t.layers)
    BY <1>2, PlaceFacts
  <2>2. QED BY <1>2, <2>1
<1>6. Sound(u)
  BY <1>1, <1>3, <1>4, <1>5 DEF Sound
<1>7. ASSUME NEW n \in 1 .. Len(t.nodes), Onward(t, n) PROVE Onward(u, n)
  <2>1. Child(u, n) = Child(t, n)
    BY <1>1 DEF Child
  <2>2. LayerOf(t, n) + 1 \in 1 .. Len(t.channels)
    <3>1. LayerOf(t, n) \in 1 .. Len(t.layers)
      BY <1>2, HomeFacts
    <3>2. QED BY <1>2, <3>1
  <2>3. Wired(t, n) => Wired(u, n)
    BY <1>1, <1>3, <2>2 DEF Wired
  <2>4. Sibling(t, n) => Sibling(u, n)
    BY <1>1 DEF Sibling
  <2>5. QED BY <1>7, <2>1, <2>3, <2>4 DEF Onward
<1>8. QED BY <1>6, <1>7

\* There is nothing in the tree yet.
LEMMA NothingBuilt ==
    /\ Building /\ tree.nodes = <<>> /\ tree.layers = <<>> /\ tree.top = <<>>
    /\ \A c \in 1 .. Len(tree.channels) : Distinct(tree.channels[c])
    => StructureOK
<1>1. SUFFICES ASSUME Building, tree.nodes = <<>>, tree.layers = <<>>, tree.top = <<>>,
                      \A c \in 1 .. Len(tree.channels) : Distinct(tree.channels[c])
               PROVE  StructureOK
  OBVIOUS
<1>2. 1 .. Len(tree.nodes) = {} /\ 1 .. Len(tree.layers) = {} /\ 1 .. Len(tree.top) = {}
  BY <1>1
<1>3. Places(tree) = {}
  BY <1>2 DEF Places
<1>4. Sound(tree)
  BY <1>1, <1>3 DEF Sound
<1>5. TopOK
  BY <1>1, <1>2 DEF TopOK, Building
<1>6. QED BY <1>1, <1>2, <1>4, <1>5 DEF StructureOK, Through, EndsOK, MetOK

\* So it is after a step that leaves nothing in the tree.
LEMMA NothingBuiltYet ==
    (/\ Building /\ tree.nodes = <<>> /\ tree.layers = <<>> /\ tree.top = <<>>
     /\ \A c \in 1 .. Len(tree.channels) : Distinct(tree.channels[c]))'
    => StructureOK'
<1>1. /\ Building /\ tree.nodes = <<>> /\ tree.layers = <<>> /\ tree.top = <<>>
      /\ \A c \in 1 .. Len(tree.channels) : Distinct(tree.channels[c])
      => StructureOK
  BY NothingBuilt
<1>2. QED BY <1>1, PTL

\* A model begins with nothing built.
LEMMA StartBuilt == StartModel => StructureOK
<1>1. SUFFICES ASSUME StartModel PROVE StructureOK
  OBVIOUS
<1>2. /\ stage = "bottom" /\ tree.nodes = <<>> /\ tree.layers = <<>> /\ tree.top = <<>>
      /\ tree.channels = << <<>> >>
  BY <1>1 DEF StartModel, EmptyTree
<1>3. \A c \in 1 .. Len(tree.channels) : Distinct(tree.channels[c])
  BY <1>2 DEF Distinct
<1>4. QED BY <1>2, <1>3, NothingBuilt DEF Building

\* So does a model that is made anew.
LEMMA NewModelBuilt == NewModel => StructureOK'
<1>1. StartModel => StructureOK
  BY StartBuilt
<1>2. StartModel' => StructureOK'
  BY <1>1, PTL
<1>3. NewModel => StartModel'
  BY DEF NewModel, StartModel
<1>4. QED BY <1>2, <1>3

\* Once a model is made nothing changes it.
LEMMA StructureKept ==
    ASSUME StructureOK, UNCHANGED <<netlist, model>>,
           Building' <=> Building,
           stage' \in {"bottom", "layers", "top"} \/ ifaces = {}
    PROVE  StructureOK'
<1>1. /\ netlist' = netlist /\ tree' = tree /\ known' = known /\ lower' = lower /\ upper' = upper
      /\ ifaces' = ifaces
  BY DEF model
<1>2. Sound(tree)' /\ Through(tree)'
  BY <1>1 DEF StructureOK
<1>3. EndsOK'
  BY <1>1 DEF StructureOK, EndsOK, Goes, Queued, Offered
<1>4. MetOK' /\ TopOK'
  BY <1>1 DEF StructureOK, MetOK, TopOK
<1>5. QED BY <1>2, <1>3, <1>4 DEF StructureOK

\* The bottom layer's wires are made before any node.
LEMMA BottomIFaceBuilt ==
    ASSUME ModelOK, StructureOK, NEW i \in InIfaces, ProcessBottomIFace(i)
    PROVE  StructureOK'
<1>1. TreeOK(tree) /\ Attached(netlist) /\ tree \in Trees
  BY DEF ModelOK, TreeOK, Shaped
<1>2. PICK v : v = netlist.ifaceMap[i]
  OBVIOUS
<1>3. v \in Vertices
  BY <1>1, <1>2, NetlistFacts
<1>4. PICK t : t = FindOrMake(tree, 1, v)
  OBVIOUS
<1>5. /\ stage = "bottom" /\ stage' = stage
      /\ tree' = [t EXCEPT !.bottom = Append(@, [net |-> v, iface |-> i])]
  BY <1>2, <1>4 DEF ProcessBottomIFace
<1>6. 1 \in 1 .. Len(tree.channels)
  <2>1. Len(tree.channels) = Len(tree.layers) + 1 /\ Len(tree.layers) \in Nat
    BY <1>1, TreeParts DEF TreeOK, Shaped
  <2>2. QED BY <2>1
<1>7. /\ TreeOK(t) /\ t.layers = tree.layers /\ t.nodes = tree.nodes
      /\ Wider(tree, t) /\ t.top = tree.top
  BY <1>1, <1>3, <1>4, <1>6, FindOrMakeFacts DEF Extends
<1>8. t \in Trees
  BY <1>7 DEF TreeOK, Shaped
<1>9. tree'.layers = t.layers /\ tree'.nodes = t.nodes /\ tree'.channels = t.channels /\ tree'.top = t.top
  <2>1. PICK a, b, c, d, e : a = t.layers /\ b = t.nodes /\ c = t.channels /\ d = t.bottom /\ e = t.top
    OBVIOUS
  <2>2. t = [layers |-> a, nodes |-> b, channels |-> c, bottom |-> d, top |-> e]
    BY <1>8, <2>1, TreeIs
  <2>3. QED BY <1>5, <2>1, <2>2
<1>10. tree.layers = <<>> /\ tree.nodes = <<>> /\ tree.top = <<>>
  BY <1>5 DEF ModelOK, StagesOK, StructureOK, TopOK, Building
<1>11. \A c \in 1 .. Len(t.channels) : Distinct(t.channels[c])
  BY <1>7 DEF StructureOK, Sound, Wider
<1>12. QED BY <1>5, <1>7, <1>9, <1>10, <1>11, NothingBuiltYet DEF Building

\* Loose vertices, too, get their wires before any node is made.
LEMMA LooseVertexBuilt ==
    ASSUME ModelOK, StructureOK, ProcessLooseVertex
    PROVE  StructureOK'
<1>1. tree \in Trees
  BY DEF ModelOK, TreeOK, Shaped
<1>2. stage = "bottom" /\ stage' \in {"bottom", "layers"}
  BY DEF ProcessLooseVertex
<1>3. PICK r : tree' = tree \/ tree' = [tree EXCEPT !.bottom = Append(@, r)]
  BY DEF ProcessLooseVertex
<1>4. tree'.layers = tree.layers /\ tree'.nodes = tree.nodes /\ tree'.channels = tree.channels
      /\ tree'.top = tree.top
  <2>1. PICK a, b, c, d, e : a = tree.layers /\ b = tree.nodes /\ c = tree.channels /\ d = tree.bottom
                             /\ e = tree.top
    OBVIOUS
  <2>2. tree = [layers |-> a, nodes |-> b, channels |-> c, bottom |-> d, top |-> e]
    BY <1>1, <2>1, TreeIs
  <2>3. QED BY <1>3, <2>1, <2>2
<1>5. tree.layers = <<>> /\ tree.nodes = <<>> /\ tree.top = <<>>
  BY <1>2 DEF ModelOK, StagesOK, StructureOK, TopOK, Building
<1>6. \A c \in 1 .. Len(tree.channels) : Distinct(tree.channels[c])
  BY DEF StructureOK, Sound
<1>7. QED BY <1>2, <1>4, <1>5, <1>6, NothingBuiltYet DEF Building

\* What is to be followed becomes what is followed.
LEMMA NextLayerBuilt ==
    ASSUME ModelOK, StructureOK, NextLayer
    PROVE  StructureOK'
<1>1. TreeOK(tree)
  BY DEF ModelOK
<1>2. /\ stage = "layers" /\ lower = <<>> /\ lower' = upper /\ upper' = <<>>
      /\ tree' = [tree EXCEPT !.layers = Append(@, <<>>), !.channels = Append(@, <<>>)]
      /\ netlist' = netlist /\ stage' = stage /\ known' = known
  BY DEF NextLayer
<1>3. PICK u : u = tree'
  OBVIOUS
<1>4. /\ u.nodes = tree.nodes /\ u.top = tree.top /\ Sound(u)
      /\ \A n \in 1 .. Len(tree.nodes) : Onward(tree, n) => Onward(u, n)
  <2>1. PICK t : t = tree
    OBVIOUS
  <2>2. TreeOK(t) /\ Sound(t) /\ u = [t EXCEPT !.layers = Append(@, <<>>), !.channels = Append(@, <<>>)]
    BY <1>1, <1>2, <1>3, <2>1 DEF StructureOK
  <2>3. QED BY ONLY <2>1, <2>2, NewLayerFacts, NewLayerSound
<1>5. Building /\ Building' /\ tree.top = <<>> /\ 1 .. Len(tree.top) = {}
  <2>1. Building /\ tree.top = <<>>
    BY <1>2 DEF StructureOK, TopOK, Building
  <2>2. QED BY <1>2, <2>1 DEF Building
<1>6. ToSet(lower) \cup ToSet(upper) = ToSet(lower') \cup ToSet(upper')
  BY <1>2 DEF ToSet
<1>7. EndsOK'
  <2>1. ASSUME NEW n \in 1 .. Len(u.nodes) PROVE (Goes(n) \/ Queued(n) \/ Offered(n))'
    <3>1. CASE Goes(n)
      BY <1>3, <1>4, <1>5, <3>1 DEF Goes
    <3>2. CASE Queued(n)
      BY <1>2, <1>3, <1>4, <1>6, <3>2 DEF Queued
    <3>3. CASE Offered(n)
      BY <1>2, <1>3, <1>4, <1>5, <3>3 DEF Offered
    <3>4. QED BY <1>4, <3>1, <3>2, <3>3 DEF StructureOK, EndsOK
  <2>2. QED BY <1>3, <2>1 DEF EndsOK
<1>8. Sound(tree)' /\ Through(tree)' /\ MetOK' /\ TopOK'
  BY <1>2, <1>3, <1>4, <1>5 DEF StructureOK, Through, MetOK, TopOK, Building
<1>9. QED BY <1>7, <1>8 DEF StructureOK

\* When the layers are made what is not driven on waits for its interface.
LEMMA BeginTopBuilt ==
    ASSUME ModelOK, StructureOK, BeginTopIFaces
    PROVE  StructureOK'
<1>1. /\ stage = "layers" /\ lower = <<>> /\ upper = <<>> /\ stage' = "top" /\ ifaces' = OutIfaces
      /\ netlist' = netlist /\ tree' = tree
  BY DEF BeginTopIFaces
<1>2. ToSet(lower) \cup ToSet(upper) = {}
  BY <1>1 DEF ToSet
<1>3. EndsOK'
  <2>1. ASSUME NEW n \in 1 .. Len(tree.nodes) PROVE (Goes(n) \/ Offered(n))'
    <3>1. Goes(n) \/ Offered(n)
      BY <1>2 DEF StructureOK, EndsOK, Queued
    <3>2. Goes(n) => Goes(n)'
      BY <1>1 DEF Goes, Building
    <3>3. Offered(n) => Offered(n)'
      BY <1>1 DEF Offered
    <3>4. QED BY <3>1, <3>2, <3>3
  <2>2. QED BY <1>1, <2>1 DEF EndsOK
<1>4. Sound(tree)' /\ Through(tree)' /\ MetOK' /\ TopOK'
  BY <1>1 DEF StructureOK, MetOK, TopOK, Building
<1>5. QED BY <1>3, <1>4 DEF StructureOK

\* Any new node passes its net through.
LEMMA ThroughStays ==
    ASSUME NEW t, TreeOK(t), NEW u, TreeOK(u), Extends(t, u), Through(t),
           \A n \in Len(t.nodes) + 1 .. Len(u.nodes) : u.nodes[n].invert \/ u.nodes[n].in = u.nodes[n].out
    PROVE  Through(u)
<1>1. Len(t.nodes) \in Nat /\ Len(u.nodes) \in Nat
  BY TreeParts DEF TreeOK, Shaped
<1>2. \A n \in 1 .. Len(u.nodes) : n \in 1 .. Len(t.nodes) \/ n \in Len(t.nodes) + 1 .. Len(u.nodes)
  BY <1>1
<1>3. \A n \in 1 .. Len(t.nodes) : u.nodes[n] = t.nodes[n]
  BY DEF Extends
<1>4. QED BY <1>2, <1>3 DEF Through

\* processVertex hangs the group on the node that waited for it.
LEMMA VertexBuilt ==
    ASSUME ModelOK, StructureOK, ProcessVertex
    PROVE  StructureOK'
<1>1. TreeOK(tree) /\ Attached(netlist) /\ tree \in Trees
  BY DEF ModelOK, TreeOK, Shaped
<1>2. PICK v, l : v = Head(lower) /\ l = Len(tree.layers)
  OBVIOUS
<1>3. /\ stage = "layers" /\ lower # <<>>
      /\ known[v] # NoParent \/ l = 1
      /\ tree' = IF GroupOf(tree, v) # {} THEN tree
                 ELSE InsertNodeGroup(tree, l, Len(tree.layers[l]) + 1, v, known[v])
      /\ lower' = Tail(lower) \/ lower' = lower
      /\ netlist' = netlist /\ stage' = stage /\ known' = known /\ upper' = upper
  BY <1>2 DEF ProcessVertex
<1>4. PICK D : D = DOMAIN known
  OBVIOUS
<1>5. lower \in Seq(D) /\ Distinct(lower) /\ D \subseteq netlist.vertices
  BY <1>4 DEF ModelOK, FrontOK, KnownOK
<1>6. v \in ToSet(lower) /\ v \in D /\ ToSet(Tail(lower)) = ToSet(lower) \ {v}
  BY <1>2, <1>3, <1>5, DistinctTail
<1>7. v \in Vertices
  BY <1>1, <1>5, <1>6, NetlistFacts
<1>8. /\ l \in 1 .. Len(tree.layers) /\ Len(tree.layers[l]) + 1 \in 1 .. Len(tree.layers[l]) + 1
  <2>1. l \in Nat /\ l >= 1
    BY <1>1, <1>2, <1>3, TreeParts DEF ModelOK, EdgesOK
  <2>2. l \in 1 .. Len(tree.layers)
    BY <1>2, <2>1
  <2>3. Len(tree.layers[l]) \in Nat
    BY <1>1, <2>2, TreeParts
  <2>4. QED BY <2>2, <2>3
<1>9. known[v] # NoParent =>
        /\ known[v] \in 1 .. Len(tree.nodes) /\ LayerOf(tree, known[v]) = l - 1
        /\ tree.nodes[known[v]].out = v
  <2>1. Extends(tree, tree)
    BY <1>1, ExtendsSelf
  <2>2. known[v] # NoParent => known[v] \in 1 .. Len(tree.nodes) /\ tree.nodes[known[v]].out = v
    BY <1>1, <1>4, <1>6, <2>1, KnownStays
  <2>3. known[v] # NoParent => LayerOf(tree, known[v]) = l - 1
    BY <1>2, <1>6 DEF ModelOK, FrontOK
  <2>4. QED BY <2>2, <2>3
<1>10. PICK k : k = known[v]
  OBVIOUS
<1>11. k \in Nat
  <2>1. known[v] \in 0 .. Len(tree.nodes)
    BY <1>4, <1>6 DEF ModelOK, KnownOK
  <2>2. QED BY <1>10, <2>1
<1>12. PICK u : u = tree'
  OBVIOUS
<1>13. /\ TreeOK(u) /\ Extends(tree, u) /\ Wider(tree, u) /\ u.nodes = tree.nodes /\ Sound(u)
       /\ k # NoParent => Child(u, k) # {}
  <2>1. CASE GroupOf(tree, v) # {}
    <3>1. k # NoParent => Child(tree, k) # {}
      BY <1>10, <2>1 DEF GroupOf, InputToGroup, NoParent, Bottom
    <3>2. u = tree
      BY <1>3, <1>12, <2>1
    <3>3. QED BY <1>1, <3>1, <3>2, ExtendsSelf, WiderSelf DEF StructureOK
  <2>2. CASE GroupOf(tree, v) = {}
    <3>1. u = InsertNodeGroup(tree, l, Len(tree.layers[l]) + 1, v, k)
      BY <1>3, <1>10, <1>12, <2>2
    <3>2. PICK t, g : t = tree /\ g = Len(t.layers[l]) + 1
      OBVIOUS
    <3>3. /\ TreeOK(t) /\ Sound(t) /\ l \in 1 .. Len(t.layers) /\ g \in 1 .. Len(t.layers[l]) + 1
          /\ u = InsertNodeGroup(t, l, g, v, k)
      BY <1>1, <1>8, <3>1, <3>2 DEF StructureOK
    <3>4. k # NoParent => /\ k \in 1 .. Len(t.nodes) /\ LayerOf(t, k) = l - 1 /\ t.nodes[k].out = v
                          /\ Child(t, k) = {}
      BY <1>9, <1>10, <2>2, <3>2 DEF GroupOf, InputToGroup, NoParent, Bottom
    <3>5. k = NoParent => l = 1
      BY <1>3, <1>10
    <3>6. Sound(u)
      BY ONLY <1>7, <1>11, <3>3, <3>4, <3>5, SoundGroup
    <3>7. /\ TreeOK(u) /\ Extends(t, u) /\ u.nodes = t.nodes /\ Wider(t, u)
          /\ <<l, g>> \in Places(u)
          /\ GroupAt(u, <<l, g>>) = [net |-> v, parent |-> k, nodes |-> <<>>]
      BY ONLY <1>7, <1>11, <3>3, <3>4, InsertNodeGroupFacts
    <3>8. k # NoParent => <<l, g>> \in Child(u, k)
      BY <3>7 DEF Child, NoParent, Bottom
    <3>9. QED BY <3>2, <3>6, <3>7, <3>8
  <2>3. QED BY <2>1, <2>2
<1>14. Building /\ Building' /\ tree.top = <<>> /\ 1 .. Len(tree.top) = {}
  <2>1. Building /\ tree.top = <<>>
    BY <1>3 DEF StructureOK, TopOK, Building
  <2>2. QED BY <1>3, <2>1 DEF Building
<1>15. u.top = <<>> /\ 1 .. Len(u.top) = {}
  BY <1>13, <1>14 DEF Extends
<1>16. EndsOK'
  <2>1. ASSUME NEW n \in 1 .. Len(u.nodes) PROVE (Goes(n) \/ Queued(n) \/ Offered(n))'
    <3>1. CASE Goes(n)
      <4>1. Onward(tree, n)
        BY <1>14, <3>1 DEF Goes
      <4>2. Onward(u, n)
        BY <1>1, <1>13, <2>1, <4>1, OnwardStays
      <4>3. QED BY <1>12, <4>2 DEF Goes
    <3>2. CASE Queued(n) /\ tree.nodes[n].out = v
      <4>1. k = n /\ k # NoParent
        BY <1>10, <2>1, <3>2 DEF Queued, NoParent
      <4>2. Onward(u, n)
        BY <1>13, <4>1 DEF Onward
      <4>3. QED BY <1>12, <4>2 DEF Goes
    <3>3. CASE Queued(n) /\ tree.nodes[n].out # v
      <4>1. u.nodes[n].out \in ToSet(lower') \cup ToSet(upper')
        BY <1>3, <1>6, <1>13, <3>3 DEF Queued
      <4>2. known'[u.nodes[n].out] = n
        BY <1>3, <1>13, <3>3 DEF Queued
      <4>3. QED BY <1>12, <4>1, <4>2 DEF Queued
    <3>4. CASE Offered(n)
      BY <1>3, <1>12, <1>13, <1>14, <3>4 DEF Offered
    <3>5. QED BY <1>13, <3>1, <3>2, <3>3, <3>4 DEF StructureOK, EndsOK
  <2>2. QED BY <1>12, <2>1 DEF EndsOK
<1>17. Sound(tree)' /\ Through(tree)' /\ MetOK' /\ TopOK'
  BY <1>3, <1>12, <1>13, <1>15 DEF StructureOK, Through, MetOK, TopOK, Building
<1>18. QED BY <1>16, <1>17 DEF StructureOK

\* What lower_vertices loses after an edge is the net whose edges are done.
LEMMA AfterEdgeLower ==
    ASSUME ModelOK, DOMAIN edges # {}, AfterEdge
    PROVE  ToSet(lower) \ {Head(lower)} \subseteq ToSet(lower')
<1>1. lower # <<>>
  BY DEF ModelOK, EdgesOK
<1>2. PICK D : D = DOMAIN known
  OBVIOUS
<1>3. lower \in Seq(D) /\ Distinct(lower)
  BY <1>2 DEF ModelOK, FrontOK
<1>4. ToSet(Tail(lower)) = ToSet(lower) \ {Head(lower)}
  BY <1>1, <1>3, DistinctTail
<1>5. QED BY <1>4 DEF AfterEdge

\* The node that waited for the current vertex has its child.
LEMMA CurrentGoesOn ==
    ASSUME ModelOK, StructureOK, DOMAIN edges # {}, NEW n \in 1 .. Len(tree.nodes),
           tree.nodes[n].out = Head(lower), known[Head(lower)] = n
    PROVE  Child(tree, n) # {}
<1>1. GroupOf(tree, Head(lower)) # {}
  BY DEF ModelOK, EdgesOK
<1>2. n # Bottom
  BY DEF Bottom
<1>3. QED BY <1>1, <1>2 DEF GroupOf, InputToGroup

\* processEdge: the new inverter's net is queued or an output's.
LEMMA EdgeBuilt ==
    ASSUME ModelOK, StructureOK, ProcessEdge
    PROVE  StructureOK'
<1>1. TreeOK(tree) /\ Attached(netlist) /\ tree \in Trees
  BY DEF ModelOK, TreeOK, Shaped
<1>2. PICK v, w, p, m : /\ v = Head(lower) /\ w = NextTarget /\ m = Len(tree.nodes) + 1
                        /\ p = CHOOSE q \in GroupOf(tree, v) : TRUE
  OBVIOUS
<1>3. /\ stage = "layers" /\ stage' = stage /\ DOMAIN edges # {} /\ w \notin DOMAIN known
      /\ Graph!Targets(netlist, w) # {} \/ Graph!IfacesAt(netlist, w, OutIfaces) # {}
      /\ tree' = MakeInverter(tree, p, w)
      /\ known' = Emplace(w, IF Graph!Targets(netlist, w) # {} THEN m ELSE NoParent)
      /\ upper' = IF Graph!Targets(netlist, w) # {} THEN Append(upper, w) ELSE upper
      /\ netlist' = netlist
      /\ AfterEdge
  BY <1>2 DEF ProcessEdge, AfterEdge
<1>4. p \in Places(tree)
  BY <1>2, <1>3, CurrentGroup
<1>5. w \in Vertices
  <2>1. w \in netlist.vertices
    BY <1>1, <1>2, <1>3, WithoutNextFacts DEF ModelOK
  <2>2. QED BY <1>1, <2>1, NetlistFacts
<1>6. PICK u : u = tree'
  OBVIOUS
<1>7. /\ TreeOK(u) /\ Extends(tree, u)
      /\ u.nodes = Append(tree.nodes, [invert |-> TRUE, in |-> GroupAt(tree, p).net, out |-> w])
      /\ Len(u.nodes) = Len(tree.nodes) + 1 /\ Len(tree.nodes) \in Nat
      /\ SameGroups(tree, u) /\ u.channels = tree.channels
  BY <1>1, <1>3, <1>4, <1>5, <1>6, MakeInverterFacts
<1>8. u.nodes[m].out = w /\ u.nodes[m].invert
  <2>1. PICK s, r : s = tree.nodes /\ r = [invert |-> TRUE, in |-> GroupAt(tree, p).net, out |-> w]
    OBVIOUS
  <2>2. s \in Seq(NodeRecords)
    BY <1>1, <2>1, TreeParts
  <2>3. u.nodes[m] = r
    BY <1>2, <1>7, <2>1, <2>2
  <2>4. QED BY <2>1, <2>3
<1>9. \A n \in 1 .. Len(u.nodes) : n = m \/ n \in 1 .. Len(tree.nodes)
  BY <1>2, <1>7
<1>10. \A n \in 1 .. Len(tree.nodes) : u.nodes[n] = tree.nodes[n] /\ n # m
  BY <1>2, <1>7 DEF Extends
<1>11. Wider(tree, u) /\ Sound(u)
  BY <1>1, <1>7, WiderSelf, SoundSame DEF StructureOK
<1>12. Through(u)
  <2>1. Len(tree.nodes) + 1 .. Len(u.nodes) = {m}
    BY <1>2, <1>7
  <2>2. QED BY <1>1, <1>7, <1>8, <2>1, ThroughStays DEF StructureOK
<1>13. Building /\ Building' /\ tree.top = <<>>
  <2>1. Building /\ tree.top = <<>>
    BY <1>3 DEF StructureOK, TopOK, Building
  <2>2. QED BY <1>3, <2>1 DEF Building
<1>14. u.top = <<>> /\ 1 .. Len(u.top) = {}
  BY <1>7, <1>13 DEF Extends
<1>15. /\ DOMAIN known' = DOMAIN known \cup {w}
       /\ \A z \in DOMAIN known : known'[z] = known[z]
       /\ Graph!Targets(netlist, w) # {} => known'[w] = m
  <2>1. PICK f, h, k : f = known /\ h = known' /\ k = (IF Graph!Targets(netlist, w) # {} THEN m ELSE NoParent)
    OBVIOUS
  <2>2. h = Over(f, Single(w, k)) /\ w \notin DOMAIN f
    BY <1>3, <2>1 DEF Emplace
  <2>3. /\ DOMAIN h = DOMAIN f \cup {w} /\ \A z \in DOMAIN f : h[z] = f[z]
    BY ONLY <2>2 DEF Over, Single
  <2>4. h[w] = k
    BY ONLY <2>2 DEF Over, Single
  <2>5. QED BY <2>1, <2>3, <2>4
<1>16. \A n \in 1 .. Len(tree.nodes) : tree.nodes[n].out \in DOMAIN known
  BY <1>13 DEF StructureOK, MetOK
<1>17. ToSet(upper) \subseteq ToSet(upper') /\ (Graph!Targets(netlist, w) # {} => w \in ToSet(upper'))
  <2>1. PICK D : D = DOMAIN known \cup {w}
    OBVIOUS
  <2>2. upper \in Seq(D) /\ w \in D /\ Distinct(upper) /\ w \notin ToSet(upper)
    <3>1. upper \in Seq(DOMAIN known) /\ Distinct(upper)
      BY DEF ModelOK, FrontOK
    <3>2. \A e \in ToSet(upper) : e \in DOMAIN known
      BY <3>1 DEF ToSet
    <3>3. QED BY <1>3, <2>1, <3>1, <3>2
  <2>3. PICK s : s = upper
    OBVIOUS
  <2>4. ToSet(Append(s, w)) = ToSet(s) \cup {w}
    BY ONLY <2>2, <2>3, DistinctAppend
  <2>5. QED BY <1>3, <2>3, <2>4
<1>18. ToSet(lower) \ {v} \subseteq ToSet(lower')
  BY <1>2, <1>3, AfterEdgeLower
<1>19. EndsOK'
  <2>1. ASSUME NEW n \in 1 .. Len(tree.nodes) PROVE (Goes(n) \/ Queued(n) \/ Offered(n))'
    <3>1. CASE Goes(n)
      <4>1. Onward(tree, n)
        BY <1>13, <3>1 DEF Goes
      <4>2. Onward(u, n)
        BY <1>1, <1>7, <1>11, <2>1, <4>1, OnwardStays
      <4>3. QED BY <1>6, <4>2 DEF Goes
    <3>2. CASE Queued(n) /\ tree.nodes[n].out = v
      <4>1. Child(tree, n) # {}
        BY <1>2, <1>3, <2>1, <3>2, CurrentGoesOn DEF Queued
      <4>2. Onward(u, n)
        BY <1>7, <4>1, ChildStays DEF Onward
      <4>3. QED BY <1>6, <4>2 DEF Goes
    <3>3. CASE Queued(n) /\ tree.nodes[n].out # v
      BY <1>6, <1>10, <1>15, <1>16, <1>17, <1>18, <3>3 DEF Queued
    <3>4. CASE Offered(n)
      <4>1. tree.nodes[n].out # w
        BY <1>3, <1>16
      <4>2. \A x \in 1 .. Len(u.nodes) : u.nodes[x].out = u.nodes[n].out => x = n
        BY <1>8, <1>9, <1>10, <3>4, <4>1 DEF Offered
      <4>3. QED BY <1>3, <1>6, <1>10, <1>13, <3>4, <4>2 DEF Offered
    <3>5. QED BY <3>1, <3>2, <3>3, <3>4 DEF StructureOK, EndsOK
  <2>2. (Queued(m) \/ Offered(m))'
    <3>1. CASE Graph!Targets(netlist, w) # {}
      BY <1>6, <1>8, <1>15, <1>17, <3>1 DEF Queued
    <3>2. CASE Graph!IfacesAt(netlist, w, OutIfaces) # {}
      <4>1. PICK i \in OutIfaces : netlist.ifaceMap[i] = w
        BY <3>2 DEF Graph!IfacesAt
      <4>2. \A x \in 1 .. Len(u.nodes) : u.nodes[x].out = u.nodes[m].out => x = m
        BY <1>3, <1>8, <1>9, <1>10, <1>16
      <4>3. QED BY <1>3, <1>6, <1>8, <1>13, <4>1, <4>2 DEF Offered
    <3>3. QED BY <1>3, <3>1, <3>2
  <2>3. QED BY <1>6, <1>9, <2>1, <2>2 DEF EndsOK
<1>20. MetOK'
  BY <1>6, <1>8, <1>9, <1>10, <1>15, <1>16 DEF MetOK
<1>21. Sound(tree)' /\ Through(tree)' /\ TopOK'
  BY <1>3, <1>6, <1>11, <1>12, <1>14 DEF TopOK, Building
<1>22. QED BY <1>19, <1>20, <1>21 DEF StructureOK

\* passThroughToTop and the wire at the top: nothing new ends below the top layer, and
\* what the net was passed up from goes on as well.
LEMMA PassedUp ==
    ASSUME NEW t, TreeOK(t), Sound(t), Through(t), NEW net \in Vertices,
           NEW output \in 0 .. Len(t.nodes), Len(t.layers) >= 1,
           output # Bottom => t.nodes[output].out = net,
           NEW r, r = PassThroughToTop(t, net, output),
           NEW n, n = TopOutput(r, output),
           NEW u, u = FindOrMake(r, Len(t.layers) + 1, net)
    PROVE  /\ TreeOK(u) /\ Extends(t, u) /\ Wider(t, u) /\ Sound(u) /\ Through(u)
           /\ u.nodes = r.nodes
           /\ n \in 1 .. Len(u.nodes) /\ u.nodes[n].out = net /\ LayerOf(u, n) = Len(t.layers)
           /\ Wired(u, n)
           /\ \A k \in Len(t.nodes) + 1 .. Len(u.nodes) :
                  u.nodes[k].out = net /\ (k = n \/ Child(u, k) # {})
           /\ output # Bottom => output = n \/ Child(u, output) # {}
           /\ n = output \/ n \in Len(t.nodes) + 1 .. Len(u.nodes)
<1>1. /\ TreeOK(r) /\ Extends(t, r) /\ n \in 1 .. Len(r.nodes)
      /\ IF InTopLayer(t, output) THEN r = t
         ELSE /\ Passed(t, r, net, output) /\ Height(r) = Len(t.layers)
              /\ n = Len(r.nodes)
      /\ r.nodes[n].out = net /\ LayerOf(r, n) = Len(t.layers)
  BY PassThroughFacts
<1>2. /\ r \in Trees /\ t \in Trees /\ Len(r.nodes) \in Nat /\ Len(t.nodes) \in Nat
      /\ Len(r.channels) = Len(r.layers) + 1 /\ Len(r.layers) = Len(t.layers) /\ Len(t.layers) \in Nat
  BY <1>1, TreeParts DEF TreeOK, Shaped, Extends
<1>3. Len(t.layers) + 1 \in 1 .. Len(r.channels)
  BY <1>2
<1>4. /\ TreeOK(u) /\ Extends(r, u) /\ u.layers = r.layers /\ u.nodes = r.nodes
      /\ Wider(r, u) /\ net \in ToSet(u.channels[Len(t.layers) + 1])
  BY <1>1, <1>3, FindOrMakeFacts
<1>5. u \in Trees /\ (\A k : Child(u, k) = Child(r, k) /\ LayerOf(u, k) = LayerOf(r, k)) /\ SameGroups(r, u)
  BY <1>4, SameLayers DEF TreeOK, Shaped, Child, SameGroups
<1>6. Extends(t, u)
  BY <1>1, <1>2, <1>4, <1>5, ExtendsOn
<1>7. /\ Wider(t, r) /\ Sound(r)
      /\ n = output \/ n \in Len(t.nodes) + 1 .. Len(r.nodes)
      /\ output # Bottom => output = n \/ Child(r, output) # {}
      /\ \A k \in Len(t.nodes) + 1 .. Len(r.nodes) :
             r.nodes[k] = PassNode(net) /\ (k = n \/ Child(r, k) # {})
  <2>1. CASE InTopLayer(t, output)
    <3>1. r = t /\ n = output
      BY <1>1, <2>1 DEF TopOutput
    <3>2. Len(t.nodes) + 1 .. Len(r.nodes) = {}
      BY <1>2, <3>1
    <3>3. QED BY <3>1, <3>2, WiderSelf
  <2>2. CASE ~InTopLayer(t, output)
    <3>1. Passed(t, r, net, output) /\ n = Len(r.nodes)
      BY <1>1, <2>2
    <3>2. /\ Len(t.nodes) < Len(r.nodes) /\ Wider(t, r) /\ Sound(r)
          /\ output # Bottom => Child(r, output) # {}
          /\ \A k \in Len(t.nodes) + 1 .. Len(r.nodes) : r.nodes[k] = PassNode(net)
          /\ \A k \in Len(t.nodes) + 1 .. Len(r.nodes) - 1 : Child(r, k) # {}
      BY <3>1 DEF Passed
    <3>3. \A k \in Len(t.nodes) + 1 .. Len(r.nodes) : k = n \/ k \in Len(t.nodes) + 1 .. Len(r.nodes) - 1
      BY <1>2, <3>1
    <3>4. n \in Len(t.nodes) + 1 .. Len(r.nodes)
      BY <1>2, <3>1, <3>2
    <3>5. QED BY <3>2, <3>3, <3>4
  <2>3. QED BY <2>1, <2>2
<1>8. Wider(t, u) /\ Sound(u)
  BY <1>1, <1>4, <1>5, <1>7, WiderOn, SoundSame
<1>9. \A k \in Len(t.nodes) + 1 .. Len(u.nodes) :
          /\ u.nodes[k].out = net /\ (k = n \/ Child(u, k) # {})
          /\ u.nodes[k].in = u.nodes[k].out
  BY <1>4, <1>5, <1>7 DEF PassNode
<1>10. Through(u)
  BY <1>4, <1>6, <1>9, ThroughStays
<1>11. Wired(u, n)
  BY <1>1, <1>4, <1>5 DEF Wired
<1>12. QED BY <1>1, <1>4, <1>5, <1>6, <1>7, <1>8, <1>9, <1>10, <1>11

\* processLeaf: the leaf is joined to its net in the channel above.
LEMMA LeafBuilt ==
    ASSUME ModelOK, StructureOK, NEW output \in 0 .. Len(tree.nodes), ProcessLeaf(output)
    PROVE  StructureOK'
<1>1. TreeOK(tree) /\ Attached(netlist) /\ tree \in Trees
  BY DEF ModelOK, TreeOK, Shaped
<1>2. PICK v, w, p, m : /\ v = Head(lower) /\ w = NextTarget /\ m = Len(tree.nodes) + 1
                        /\ p = CHOOSE q \in GroupOf(tree, v) : TRUE
  OBVIOUS
<1>3. PICK t : t = MakeInverter(tree, p, w)
  OBVIOUS
<1>4. PICK r : r = PassThroughToTop(t, w, output)
  OBVIOUS
<1>5. /\ stage = "layers" /\ stage' = stage /\ DOMAIN edges # {} /\ w \in DOMAIN known
      /\ output \in NearestOutputs(tree, w)
      /\ tree' = FindOrMake(r, Len(tree.layers) + 1, w)
      /\ UNCHANGED <<known, upper, netlist>>
      /\ AfterEdge
  BY <1>2, <1>3, <1>4 DEF ProcessLeaf, AfterEdge
<1>6. /\ p \in Places(tree) /\ p[1] = Len(tree.layers)
      /\ Len(tree.layers) >= 1 /\ Len(tree.layers) \in Nat
  BY <1>2, <1>5, CurrentGroup
<1>7. w \in Vertices
  <2>1. w \in netlist.vertices
    BY <1>1, <1>2, <1>5, WithoutNextFacts DEF ModelOK
  <2>2. QED BY <1>1, <2>1, NetlistFacts
<1>8. /\ TreeOK(t) /\ Extends(tree, t)
      /\ t.nodes = Append(tree.nodes, [invert |-> TRUE, in |-> GroupAt(tree, p).net, out |-> w])
      /\ Len(t.nodes) = m /\ Len(tree.nodes) \in Nat
      /\ LayerOf(t, m) = Len(tree.layers)
      /\ SameGroups(tree, t) /\ t.channels = tree.channels
  <2>1. PICK a : a = tree
    OBVIOUS
  <2>2. TreeOK(a) /\ p \in Places(a) /\ w \in Vertices /\ t = MakeInverter(a, p, w)
    BY <1>1, <1>3, <1>6, <1>7, <2>1
  <2>3. /\ TreeOK(t) /\ Extends(a, t)
        /\ t.nodes = Append(a.nodes, [invert |-> TRUE, in |-> GroupAt(a, p).net, out |-> w])
        /\ Len(t.nodes) = Len(a.nodes) + 1 /\ Len(a.nodes) \in Nat
        /\ LayerOf(t, Len(a.nodes) + 1) = p[1]
        /\ SameGroups(a, t) /\ t.channels = a.channels
    BY ONLY <2>2, MakeInverterFacts
  <2>4. m = Len(a.nodes) + 1
    BY <1>2, <2>1
  <2>5. QED BY ONLY <1>6, <2>1, <2>3, <2>4
<1>9. t \in Trees /\ Len(t.layers) = Len(tree.layers)
  BY <1>8 DEF TreeOK, Shaped, Extends
<1>10. t.nodes[m].out = w /\ t.nodes[m].invert
  <2>1. PICK s, e : s = tree.nodes /\ e = [invert |-> TRUE, in |-> GroupAt(tree, p).net, out |-> w]
    OBVIOUS
  <2>2. s \in Seq(NodeRecords)
    BY <1>1, <2>1, TreeParts
  <2>3. t.nodes[m] = e
    BY <1>2, <1>8, <2>1, <2>2
  <2>4. QED BY <2>1, <2>3
<1>11. Wider(tree, t) /\ Sound(t)
  BY <1>1, <1>8, WiderSelf, SoundSame DEF StructureOK
<1>12. Through(t)
  <2>1. Len(tree.nodes) + 1 .. Len(t.nodes) = {m}
    BY <1>2, <1>8
  <2>2. QED BY <1>1, <1>8, <1>10, <2>1, ThroughStays DEF StructureOK
<1>13. output # Bottom => /\ output \in 1 .. Len(tree.nodes)
                          /\ tree.nodes[output].out = w /\ t.nodes[output].out = w
  <2>1. ASSUME output # Bottom
        PROVE  output \in 1 .. Len(tree.nodes) /\ tree.nodes[output].out = w /\ t.nodes[output].out = w
    <3>1. output \in 1 .. Len(tree.nodes) /\ tree.nodes[output].out = w
      BY <1>5, <1>8, <2>1 DEF NearestOutputs, Bottom
    <3>2. t.nodes[output] = tree.nodes[output]
      BY <1>8, <3>1 DEF Extends
    <3>3. QED BY <3>1, <3>2
  <2>2. QED BY <2>1
<1>14. output \in 0 .. Len(t.nodes) /\ Len(t.layers) >= 1
  BY <1>2, <1>6, <1>8, <1>9
<1>15. PICK n : n = TopOutput(r, output)
  OBVIOUS
<1>16. PICK u : u = tree'
  OBVIOUS
<1>17. u = FindOrMake(r, Len(t.layers) + 1, w)
  BY <1>5, <1>9, <1>16
<1>18. /\ TreeOK(u) /\ Extends(t, u) /\ Wider(t, u) /\ Sound(u) /\ Through(u)
       /\ n \in 1 .. Len(u.nodes) /\ u.nodes[n].out = w /\ LayerOf(u, n) = Len(t.layers)
       /\ Wired(u, n)
       /\ \A k \in Len(t.nodes) + 1 .. Len(u.nodes) :
              u.nodes[k].out = w /\ (k = n \/ Child(u, k) # {})
       /\ output # Bottom => output = n \/ Child(u, output) # {}
       /\ n = output \/ n \in Len(t.nodes) + 1 .. Len(u.nodes)
  <2>1. /\ TreeOK(t) /\ Sound(t) /\ Through(t) /\ w \in Vertices
        /\ output \in 0 .. Len(t.nodes) /\ Len(t.layers) >= 1
        /\ (output # Bottom => t.nodes[output].out = w)
        /\ r = PassThroughToTop(t, w, output) /\ n = TopOutput(r, output)
        /\ u = FindOrMake(r, Len(t.layers) + 1, w)
    BY <1>4, <1>7, <1>8, <1>11, <1>12, <1>13, <1>14, <1>15, <1>17
  <2>2. QED BY ONLY SMTT(30), <2>1, PassedUp
<1>19. u \in Trees /\ Len(u.nodes) \in Nat /\ Extends(tree, u) /\ Wider(tree, u)
  <2>1. u \in Trees /\ Len(u.nodes) \in Nat
    BY <1>18, TreeParts DEF TreeOK, Shaped
  <2>2. QED BY <1>1, <1>8, <1>9, <1>11, <1>18, <2>1, ExtendsOn, WiderOn
<1>20. /\ m \in 1 .. Len(t.nodes) /\ u.nodes[m].out = w /\ LayerOf(u, m) = Len(tree.layers) /\ m # n
       /\ m \in 1 .. Len(u.nodes)
  <2>1. m \in 1 .. Len(t.nodes)
    BY <1>2, <1>8
  <2>2. u.nodes[m].out = w /\ LayerOf(u, m) = Len(tree.layers)
    BY <1>8, <1>10, <1>18, <2>1 DEF Extends
  <2>3. m # n
    <3>1. CASE n = output
      <4>1. output # m
        BY <1>2, <1>8
      <4>2. QED BY <3>1, <4>1
    <3>2. CASE n \in Len(t.nodes) + 1 .. Len(u.nodes)
      BY <1>2, <1>8, <3>2
    <3>3. QED BY <1>18, <3>1, <3>2
  <2>4. Len(t.nodes) <= Len(u.nodes)
    BY <1>18 DEF Extends
  <2>5. QED BY <1>2, <1>8, <1>19, <2>1, <2>2, <2>3, <2>4
<1>21. Onward(u, n) /\ Onward(u, m)
  <2>1. Sibling(u, n) /\ Sibling(u, m)
    BY <1>9, <1>18, <1>20 DEF Sibling
  <2>2. Wired(u, m)
    BY <1>9, <1>18, <1>20 DEF Wired
  <2>3. QED BY <1>18, <2>1, <2>2 DEF Onward
<1>22. \A k \in 1 .. Len(u.nodes) :
           \/ k \in 1 .. Len(tree.nodes)
           \/ k = m
           \/ k \in Len(t.nodes) + 1 .. Len(u.nodes)
  BY <1>2, <1>8, <1>19
<1>23. \A k \in 1 .. Len(tree.nodes) : u.nodes[k] = tree.nodes[k]
  BY <1>19 DEF Extends
<1>24. \A k \in 1 .. Len(u.nodes) : k \in 1 .. Len(tree.nodes) \/ (Onward(u, k) /\ u.nodes[k].out = w)
  <2>1. \A k \in Len(t.nodes) + 1 .. Len(u.nodes) : Onward(u, k)
    BY <1>18, <1>21 DEF Onward
  <2>2. QED BY <1>18, <1>20, <1>21, <1>22, <2>1
<1>25. Building /\ Building' /\ tree.top = <<>>
  <2>1. Building /\ tree.top = <<>>
    BY <1>5 DEF StructureOK, TopOK, Building
  <2>2. QED BY <1>5, <2>1 DEF Building
<1>26. u.top = <<>> /\ 1 .. Len(u.top) = {}
  BY <1>19, <1>25 DEF Extends
<1>27. ToSet(lower) \ {v} \subseteq ToSet(lower')
  BY <1>2, <1>5, AfterEdgeLower
<1>28. EndsOK'
  <2>1. ASSUME NEW k \in 1 .. Len(tree.nodes) PROVE (Goes(k) \/ Queued(k) \/ Offered(k))'
    <3>1. CASE Goes(k)
      <4>1. Onward(tree, k)
        BY <1>25, <3>1 DEF Goes
      <4>2. Onward(u, k)
        BY <1>1, <1>18, <1>19, <2>1, <4>1, OnwardStays
      <4>3. QED BY <1>16, <4>2 DEF Goes
    <3>2. CASE Queued(k) /\ tree.nodes[k].out = v
      <4>1. Child(tree, k) # {}
        BY <1>2, <1>5, <2>1, <3>2, CurrentGoesOn DEF Queued
      <4>2. Onward(u, k)
        BY <1>19, <4>1, ChildStays DEF Onward
      <4>3. QED BY <1>16, <4>2 DEF Goes
    <3>3. CASE Queued(k) /\ tree.nodes[k].out # v
      BY <1>5, <1>16, <1>23, <1>27, <3>3 DEF Queued
    <3>4. CASE Offered(k) /\ tree.nodes[k].out = w
      <4>1. output = k
        <5>1. {x \in 1 .. Len(tree.nodes) : tree.nodes[x].out = w} = {k}
          BY <2>1, <3>4 DEF Offered
        <5>2. output # Bottom
          BY <1>5, <5>1 DEF NearestOutputs, Bottom
        <5>3. QED BY <1>13, <5>1, <5>2
      <4>2. k # Bottom
        BY <2>1 DEF Bottom
      <4>3. Onward(u, k)
        BY <1>18, <1>21, <4>1, <4>2 DEF Onward
      <4>4. QED BY <1>16, <4>3 DEF Goes
    <3>5. CASE Offered(k) /\ tree.nodes[k].out # w
      <4>1. \A x \in 1 .. Len(u.nodes) : u.nodes[x].out = u.nodes[k].out => x = k
        BY <1>23, <1>24, <3>5 DEF Offered
      <4>2. QED BY <1>5, <1>16, <1>23, <1>25, <3>5, <4>1 DEF Offered
    <3>6. QED BY <3>1, <3>2, <3>3, <3>4, <3>5 DEF StructureOK, EndsOK
  <2>2. \A k \in 1 .. Len(u.nodes) : k \in 1 .. Len(tree.nodes) \/ Goes(k)'
    BY <1>16, <1>24 DEF Goes
  <2>3. QED BY <1>16, <2>1, <2>2 DEF EndsOK
<1>29. MetOK'
  <2>1. \A k \in 1 .. Len(tree.nodes) : tree.nodes[k].out \in DOMAIN known
    BY <1>25 DEF StructureOK, MetOK
  <2>2. \A k \in 1 .. Len(u.nodes) : u.nodes[k].out \in DOMAIN known
    BY <1>5, <1>23, <1>24, <2>1
  <2>3. QED BY <1>5, <1>16, <2>2 DEF MetOK
<1>30. Sound(tree)' /\ Through(tree)' /\ TopOK'
  BY <1>5, <1>16, <1>18, <1>26 DEF TopOK, Building
<1>31. QED BY <1>28, <1>29, <1>30 DEF StructureOK

\* processTopIFace: the interface's net ends in the top layer.
LEMMA TopIFaceBuilt ==
    ASSUME ModelOK, StructureOK, NEW i \in OutIfaces, NEW output \in 0 .. Len(tree.nodes),
           ProcessTopIFace(i, output)
    PROVE  StructureOK'
<1>1. TreeOK(tree) /\ Attached(netlist) /\ tree \in Trees
  BY DEF ModelOK, TreeOK, Shaped
<1>2. PICK v : v = netlist.ifaceMap[i]
  OBVIOUS
<1>3. PICK r : r = PassThroughToTop(tree, v, output)
  OBVIOUS
<1>4. PICK x : x = FindOrMake(r, Len(tree.layers) + 1, v)
  OBVIOUS
<1>5. PICK n : n = TopOutput(r, output)
  OBVIOUS
<1>6. /\ stage = "top" /\ stage' = stage /\ output \in NearestOutputs(tree, v)
      /\ tree' = [x EXCEPT !.top = Append(@, [node |-> n, iface |-> i])]
      /\ ifaces' = ifaces \ {i}
      /\ UNCHANGED <<netlist, known, lower, upper>>
  BY <1>2, <1>3, <1>4, <1>5 DEF ProcessTopIFace
<1>7. v \in Vertices
  BY <1>1, <1>2, NetlistFacts
<1>8. /\ Len(tree.nodes) \in Nat /\ Len(tree.layers) \in Nat /\ Len(tree.layers) >= 1
      /\ tree.top \in Seq(TopRecords)
  BY <1>1, <1>6, TreeParts DEF ModelOK, StagesOK
<1>9. output # Bottom => output \in 1 .. Len(tree.nodes) /\ tree.nodes[output].out = v
  BY <1>6, <1>8 DEF NearestOutputs, Bottom
<1>10. /\ TreeOK(x) /\ Extends(tree, x) /\ Wider(tree, x) /\ Sound(x) /\ Through(x)
       /\ n \in 1 .. Len(x.nodes) /\ x.nodes[n].out = v /\ LayerOf(x, n) = Len(tree.layers)
       /\ Wired(x, n)
       /\ \A k \in Len(tree.nodes) + 1 .. Len(x.nodes) :
              x.nodes[k].out = v /\ (k = n \/ Child(x, k) # {})
       /\ output # Bottom => output = n \/ Child(x, output) # {}
       /\ n = output \/ n \in Len(tree.nodes) + 1 .. Len(x.nodes)
  <2>1. PICK t : t = tree
    OBVIOUS
  <2>2. /\ TreeOK(t) /\ Sound(t) /\ Through(t) /\ output \in 0 .. Len(t.nodes) /\ Len(t.layers) >= 1
        /\ r = PassThroughToTop(t, v, output) /\ x = FindOrMake(r, Len(t.layers) + 1, v)
        /\ output # Bottom => t.nodes[output].out = v
    BY <1>1, <1>3, <1>4, <1>8, <1>9, <2>1 DEF StructureOK
  <2>3. QED BY ONLY SMTT(30), <1>5, <1>7, <2>1, <2>2, PassedUp
<1>11. x \in Trees /\ Len(x.nodes) \in Nat /\ Len(x.layers) = Len(tree.layers) /\ x.top = tree.top
  BY <1>10, TreeParts DEF TreeOK, Shaped, Extends
<1>12. PICK u : u = tree'
  OBVIOUS
<1>13. PICK e : e = [node |-> n, iface |-> i]
  OBVIOUS
<1>14. e \in TopRecords /\ e.node = n
  <2>1. n \in Nat
    BY <1>10, <1>11
  <2>2. QED BY <1>13, <2>1 DEF TopRecords
<1>15. /\ u.layers = x.layers /\ u.nodes = x.nodes /\ u.channels = x.channels
       /\ u.top = Append(tree.top, e)
  BY <1>6, <1>10, <1>11, <1>12, <1>13, <1>14, TopFacts
<1>16. /\ Sound(u) /\ Through(u) /\ \A k : LayerOf(u, k) = LayerOf(x, k)
       /\ \A k : (Onward(x, k) => Onward(u, k)) /\ (AtTop(x, k) => AtTop(u, k))
  BY <1>10, <1>15, OnwardSame, SameLayers
<1>17. AtTop(u, n)
  BY <1>10, <1>11, <1>16 DEF AtTop
<1>18. ~Building /\ ~Building'
  BY <1>6 DEF Building
<1>19. \A k \in 1 .. Len(tree.nodes) : u.nodes[k] = tree.nodes[k] /\ LayerOf(u, k) = LayerOf(tree, k)
  BY <1>10, <1>15, <1>16 DEF Extends
<1>20. \A k \in 1 .. Len(u.nodes) : k \in 1 .. Len(tree.nodes) \/ k \in Len(tree.nodes) + 1 .. Len(x.nodes)
  BY <1>8, <1>11, <1>15
<1>21. \A k \in Len(tree.nodes) + 1 .. Len(x.nodes) :
           u.nodes[k].out = v /\ (k = n \/ Onward(u, k))
  BY <1>10, <1>15, <1>16 DEF Onward
<1>22. ToSet(lower) \cup ToSet(upper) = {}
  <2>1. lower = <<>> /\ upper = <<>>
    BY <1>6 DEF ModelOK, StagesOK
  <2>2. QED BY <2>1 DEF ToSet
<1>23. EndsOK'
  <2>1. ASSUME NEW k \in 1 .. Len(tree.nodes) PROVE (Goes(k) \/ Offered(k))'
    <3>1. CASE Onward(tree, k)
      <4>1. Onward(x, k)
        BY <1>1, <1>10, <2>1, <3>1, OnwardStays
      <4>2. QED BY <1>12, <1>16, <4>1 DEF Goes
    <3>2. CASE AtTop(tree, k)
      <4>1. AtTop(x, k)
        BY <1>1, <1>10, <2>1, <3>2, OnwardStays
      <4>2. QED BY <1>12, <1>16, <1>18, <4>1 DEF Goes
    <3>3. CASE Offered(k) /\ tree.nodes[k].out = v
      <4>1. output = k
        <5>1. {y \in 1 .. Len(tree.nodes) : tree.nodes[y].out = v} = {k}
          BY <2>1, <3>3 DEF Offered
        <5>2. output # Bottom
          BY <1>6, <5>1 DEF NearestOutputs, Bottom
        <5>3. QED BY <1>9, <5>1, <5>2
      <4>2. k # Bottom
        BY <2>1 DEF Bottom
      <4>3. Onward(x, k) \/ k = n
        BY <1>10, <4>1, <4>2 DEF Onward
      <4>4. QED BY <1>12, <1>16, <1>17, <1>18, <4>3 DEF Goes
    <3>4. CASE Offered(k) /\ tree.nodes[k].out # v
      <4>1. \A y \in 1 .. Len(u.nodes) : u.nodes[y].out = u.nodes[k].out => y = k
        BY <1>19, <1>20, <1>21, <3>4 DEF Offered
      <4>2. PICK j \in OutIfaces : netlist.ifaceMap[j] = tree.nodes[k].out /\ j \in ifaces
        BY <1>18, <3>4 DEF Offered
      <4>3. j \in ifaces'
        BY <1>2, <1>6, <3>4, <4>2
      <4>4. QED BY <1>6, <1>12, <1>19, <4>1, <4>2, <4>3 DEF Offered
    <3>5. QED BY <1>22, <3>1, <3>2, <3>3, <3>4 DEF StructureOK, EndsOK, Goes, Queued
  <2>2. \A k \in Len(tree.nodes) + 1 .. Len(x.nodes) : Goes(k)'
    BY <1>12, <1>17, <1>18, <1>21 DEF Goes
  <2>3. QED BY <1>12, <1>20, <2>1, <2>2 DEF EndsOK
<1>24. TopOK'
  <2>1. PICK s : s = tree.top
    OBVIOUS
  <2>2. s \in Seq(TopRecords) /\ u.top = Append(s, e)
    BY <1>8, <1>15, <2>1
  <2>3. \A k \in 1 .. Len(u.top) : u.top[k] = e \/ (k \in 1 .. Len(s) /\ u.top[k] = s[k])
    BY ONLY <1>14, <2>2
  <2>4. ASSUME NEW k \in 1 .. Len(u.top)
        PROVE  u.top[k].node \in 1 .. Len(u.nodes) /\ LayerOf(u, u.top[k].node) = Len(u.layers)
    <3>1. CASE u.top[k] = e
      BY <1>10, <1>11, <1>14, <1>15, <1>16, <3>1
    <3>2. CASE k \in 1 .. Len(s) /\ u.top[k] = s[k]
      <4>1. s[k].node \in 1 .. Len(tree.nodes) /\ LayerOf(tree, s[k].node) = Len(tree.layers)
        BY <2>1, <3>2 DEF StructureOK, TopOK
      <4>2. Len(tree.nodes) <= Len(u.nodes)
        BY <1>10, <1>15 DEF Extends
      <4>3. s[k].node \in 1 .. Len(u.nodes)
        BY <1>8, <1>11, <1>15, <4>1, <4>2
      <4>4. QED BY <1>11, <1>15, <1>19, <3>2, <4>1, <4>3
    <3>3. QED BY <2>3, <3>1, <3>2
  <2>5. QED BY <1>6, <1>12, <1>18, <2>4 DEF TopOK
<1>25. Sound(tree)' /\ Through(tree)' /\ MetOK'
  BY <1>12, <1>16, <1>18 DEF MetOK
<1>26. QED BY <1>23, <1>24, <1>25 DEF StructureOK

\* createModel keeps what a tree is made of.
LEMMA CreateBuilt ==
    ASSUME ModelOK, StructureOK, ModelNext
    PROVE  StructureOK'
<1>1. ASSUME NEW i \in InIfaces, ProcessBottomIFace(i) PROVE StructureOK'
  BY <1>1, BottomIFaceBuilt
<1>2. ASSUME NEW n \in 0 .. Len(tree.nodes), ProcessLeaf(n) PROVE StructureOK'
  BY <1>2, LeafBuilt
<1>3. ASSUME NEW i \in OutIfaces, NEW n \in 0 .. Len(tree.nodes), ProcessTopIFace(i, n) PROVE StructureOK'
  BY <1>3, TopIFaceBuilt
<1>4. QED BY <1>1, <1>2, <1>3, LooseVertexBuilt, NextLayerBuilt, VertexBuilt, EdgeBuilt, BeginTopBuilt
          DEF ModelNext

\* Every step of the transformation keeps what the tree is like.
LEMMA StructureStep ==
    ASSUME SynthesisOK, StructureOK, [Next]_vars
    PROVE  StructureOK'
<1>1. ModelOK /\ PlacementOK /\ RepairOK /\ SimulationOK
  BY DEF SynthesisOK
<1>2. CASE CreateModel
  <2>1. ModelNext
    BY <1>2 DEF CreateModel
  <2>2. QED BY <1>1, <2>1, CreateBuilt
<1>3. ASSUME UNCHANGED <<netlist, model>>, Building' <=> Building,
             stage' \in {"bottom", "layers", "top"} \/ ifaces = {}
      PROVE  StructureOK'
  BY <1>3, StructureKept
<1>4. stage \notin {"bottom", "layers", "top"} => ifaces = {}
  BY DEF StructureOK, TopOK
<1>5. CASE ComputeSpatial
  <2>1. CASE PreComputeSpatial
    BY <1>3, <2>1 DEF PreComputeSpatial, Building
  <2>2. CASE PlaceNode
    BY <1>3, <1>4, <2>2 DEF PlaceNode, Building
  <2>3. CASE PlaceBottomWires
    BY <1>3, <1>4, <2>3 DEF PlaceBottomWires, Building
  <2>4. CASE ComputeVertical
    BY <1>3, <1>4, <2>4 DEF ComputeVertical, Building
  <2>5. QED BY <1>5, <2>1, <2>2, <2>3, <2>4 DEF ComputeSpatial
<1>6. CASE FixBrokenLinks
  <2>1. CASE SplitBroken
    BY <2>1, NewModelBuilt DEF SplitBroken
  <2>2. CASE CreateSegments
    BY <1>3, <1>4, <2>2 DEF CreateSegments, Building
  <2>3. CASE BeginConnection
    BY <1>3, <1>4, <2>3 DEF BeginConnection, Building
  <2>4. ASSUME NEW evaluated, PlaceRepeater(evaluated) PROVE StructureOK'
    BY <1>3, <1>4, <2>4 DEF PlaceRepeater, Building
  <2>5. ASSUME NEW evaluated, GiveUpConnection(evaluated) PROVE StructureOK'
    BY <1>3, <1>4, <2>5 DEF GiveUpConnection, Building
  <2>6. ASSUME NEW evaluated, Abort(evaluated) PROVE StructureOK'
    BY <1>3, <1>4, <2>6 DEF Abort, Building
  <2>7. CASE FinishRepair
    BY <1>3, <1>4, <2>7 DEF FinishRepair, Building
  <2>8. QED
    BY <1>6, <2>1, <2>2, <2>3, <2>4, <2>5, <2>6, <2>7 DEF FixBrokenLinks, FixConnection
<1>7. CASE BGTree
  <2>1. CASE ToBlocks
    BY <1>3, <1>4, <2>1 DEF ToBlocks, Building
  <2>2. CASE Test
    BY <1>3, <1>4, <2>2 DEF Test, Building
  <2>3. CASE ExtendTest
    <3>1. UNCHANGED <<netlist, stage, model>>
      BY <2>3 DEF ExtendTest
    <3>2. QED BY <1>3, <1>4, <3>1 DEF Building
  <2>4. CASE FinishTest
    <3>1. UNCHANGED <<netlist, stage, model>>
      BY <2>4 DEF FinishTest
    <3>2. QED BY <1>3, <1>4, <3>1 DEF Building
  <2>5. CASE FinishBlocks
    BY <1>3, <1>4, <2>5 DEF FinishBlocks, Building
  <2>6. QED BY <1>7, <2>1, <2>2, <2>3, <2>4, <2>5 DEF BGTree
<1>8. CASE UNCHANGED vars
  <2>1. UNCHANGED <<netlist, stage, model>>
    BY <1>8 DEF vars
  <2>2. QED BY <1>3, <1>4, <2>1 DEF Building
<1>9. QED BY <1>2, <1>5, <1>6, <1>7, <1>8 DEF Next, Done

-----------------------------------------------------------------------------
(***************************************************************************)
(* Orders: what less_ is.                                                   *)
(***************************************************************************)

\* Relations as sets of pairs.
Transitive(R) == \A a, b, c : <<a, b>> \in R /\ <<b, c>> \in R => <<a, c>> \in R
Irreflexive(R) == \A a : <<a, a>> \notin R

\* What joining the pairs of M through the members of K, one after the other, makes.
Closure(M, K) == FoldSet(LAMBDA k, R : JoinedThrough(R, k), M, K)

\* Joining adds the pairs that two pairs make through k.
LEMMA JoinFacts ==
    ASSUME NEW X, NEW R \in SUBSET (X \X X), NEW k
    PROVE  /\ JoinedThrough(R, k) \in SUBSET (X \X X)
           /\ \A a, b : <<a, b>> \in JoinedThrough(R, k)
                           <=> <<a, b>> \in R \/ (<<a, k>> \in R /\ <<k, b>> \in R)
<1>1. ASSUME NEW p \in JoinedThrough(R, k)
      PROVE  \/ p \in R
             \/ \E a, b \in X : p = <<a, b>> /\ <<a, k>> \in R /\ <<k, b>> \in R
  <2>1. SUFFICES ASSUME p \notin R
                 PROVE  \E a, b \in X : p = <<a, b>> /\ <<a, k>> \in R /\ <<k, b>> \in R
    OBVIOUS
  <2>2. PICK q \in R \X R : q[1][2] = k /\ q[2][1] = k /\ p = <<q[1][1], q[2][2]>>
    BY <1>1, <2>1 DEF JoinedThrough
  <2>3. PICK r, s : r = q[1] /\ s = q[2] /\ r \in R /\ s \in R
    BY <2>2
  <2>4. r = <<r[1], r[2]>> /\ s = <<s[1], s[2]>> /\ r[1] \in X /\ s[2] \in X
    BY <2>3
  <2>5. r[2] = k /\ s[1] = k /\ p = <<r[1], s[2]>>
    BY <2>2, <2>3
  <2>6. <<r[1], k>> \in R /\ <<k, s[2]>> \in R
    BY <2>3, <2>4, <2>5
  <2>7. QED BY <2>4, <2>5, <2>6
<1>2. JoinedThrough(R, k) \in SUBSET (X \X X)
  <2>1. \A p \in JoinedThrough(R, k) : p \in X \X X
    <3>1. \A p \in R : p \in X \X X
      OBVIOUS
    <3>2. \A a, b \in X : <<a, b>> \in X \X X
      OBVIOUS
    <3>3. ASSUME NEW p \in JoinedThrough(R, k) PROVE p \in X \X X
      <4>1. CASE p \in R
        BY <4>1
      <4>2. CASE \E a, b \in X : p = <<a, b>> /\ <<a, k>> \in R /\ <<k, b>> \in R
        BY <4>2
      <4>3. QED BY <1>1, <4>1, <4>2
    <3>4. QED BY <3>3
  <2>2. QED BY <2>1
<1>3. ASSUME NEW a, NEW b, <<a, b>> \in JoinedThrough(R, k)
      PROVE  <<a, b>> \in R \/ (<<a, k>> \in R /\ <<k, b>> \in R)
  <2>1. SUFFICES ASSUME <<a, b>> \notin R PROVE <<a, k>> \in R /\ <<k, b>> \in R
    OBVIOUS
  <2>2. PICK x, y \in X : <<a, b>> = <<x, y>> /\ <<x, k>> \in R /\ <<k, y>> \in R
    BY <1>1, <1>3, <2>1
  <2>3. a = x /\ b = y
    BY <2>2
  <2>4. QED BY <2>2, <2>3
<1>4. ASSUME NEW a, NEW b, <<a, k>> \in R, <<k, b>> \in R PROVE <<a, b>> \in JoinedThrough(R, k)
  <2>1. PICK q : q = << <<a, k>>, <<k, b>> >>
    OBVIOUS
  <2>2. q \in R \X R /\ q[1] = <<a, k>> /\ q[2] = <<k, b>>
    BY <1>4, <2>1
  <2>3. q[1][2] = k /\ q[2][1] = k /\ q[1][1] = a /\ q[2][2] = b
    BY <2>2
  <2>4. QED BY <2>2, <2>3 DEF JoinedThrough
<1>5. R \subseteq JoinedThrough(R, k)
  BY DEF JoinedThrough
<1>6. QED BY <1>2, <1>3, <1>4, <1>5

\* It is the transitive closure if all that can be joined through is in K.
LEMMA ClosureFacts ==
    ASSUME NEW X, NEW K, IsFiniteSet(K), NEW M \in SUBSET (X \X X),
           \A a, b, c : <<a, b>> \in M /\ <<b, c>> \in M => b \in K
    PROVE  /\ Closure(M, K) \in SUBSET (X \X X) /\ M \subseteq Closure(M, K)
           /\ Transitive(Closure(M, K))
           /\ \A Q : M \subseteq Q /\ Transitive(Q) => Closure(M, K) \subseteq Q
<1> DEFINE D == SUBSET (X \X X)
           Step == [a \in K \X D |-> JoinedThrough(a[2], a[1])]
           Code(i) == [T \in SUBSET K |-> IF T = {} THEN M
                         ELSE JoinedThrough(i[T \ {CHOOSE x \in T : TRUE}], CHOOSE x \in T : TRUE)]
<1>1. Step \in [K \X D -> D]
  BY JoinFacts
<1>2. PICK it \in [SUBSET K -> D] : IsFold(it, K, M, Step)
  <2>1. M \in D
    OBVIOUS
  <2> HIDE DEF Step, D
  <2> QED BY <1>1, <2>1, FoldExists
<1>3. ASSUME NEW T \in SUBSET K, T # {} PROVE AnyOf(T) \in T /\ T \ {AnyOf(T)} \in SUBSET K
  BY <1>3 DEF AnyOf
<1>4. it = Code(it)
  <2>1. ASSUME NEW T \in SUBSET K
        PROVE  it[T] = IF T = {} THEN M ELSE JoinedThrough(it[T \ {AnyOf(T)}], AnyOf(T))
    <3>1. it[T] = IF T = {} THEN M ELSE Step[<<AnyOf(T), it[T \ {AnyOf(T)}]>>]
      <4> HIDE DEF Step, D
      <4> QED BY <1>2 DEF IsFold
    <3>2. ASSUME T # {} PROVE <<AnyOf(T), it[T \ {AnyOf(T)}]>> \in K \X D
      <4> HIDE DEF Step, D
      <4> QED BY <1>2, <1>3, <3>2
    <3>3. ASSUME T # {}
          PROVE  Step[<<AnyOf(T), it[T \ {AnyOf(T)}]>>] = JoinedThrough(it[T \ {AnyOf(T)}], AnyOf(T))
      <4> HIDE DEF D
      <4> QED BY <3>2, <3>3
    <3> HIDE DEF Step
    <3>4. QED BY <3>1, <3>3
  <2>2. it = [T \in SUBSET K |-> it[T]]
    <3> HIDE DEF Step, D
    <3> QED BY <1>2
  <2> HIDE DEF Step, D
  <2>3. it = [T \in SUBSET K |-> IF T = {} THEN M ELSE JoinedThrough(it[T \ {AnyOf(T)}], AnyOf(T))]
    BY ONLY <2>1, <2>2
  <2>4. QED BY ONLY <2>3 DEF AnyOf
<1>5. PICK iter : Closure(M, K) = iter[K] /\ iter = Code(iter)
  <2>1. Closure(M, K) = (CHOOSE i : i = Code(i))[K]
    BY DEF Closure, FoldSet, MapThenFoldSet
  <2> HIDE DEF Code
  <2>2. (CHOOSE i : i = Code(i)) = Code(CHOOSE i : i = Code(i))
    BY <1>4
  <2>3. QED BY <2>1, <2>2
<1>6. ASSUME NEW T \in SUBSET K
      PROVE  iter[T] = IF T = {} THEN M ELSE JoinedThrough(iter[T \ {AnyOf(T)}], AnyOf(T))
  BY <1>5 DEF AnyOf
<1> HIDE DEF Code, Step
<1> DEFINE Begins(R) == \A a, b : <<a, b>> \in R => (\E x : <<a, x>> \in M) /\ (\E y : <<y, b>> \in M)
           Joins(R, T) == \A k \in T : \A a, b : <<a, k>> \in R /\ <<k, b>> \in R => <<a, b>> \in R
           Least(R) == \A Q : M \subseteq Q /\ Transitive(Q) => R \subseteq Q
           Fine(T) == /\ iter[T] \in D /\ M \subseteq iter[T]
                      /\ Begins(iter[T]) /\ Joins(iter[T], T) /\ Least(iter[T])
           Wrong == {T \in SUBSET K : ~Fine(T)}
<1>7. Fine({})
  <2>1. iter[{}] = M
    BY <1>6
  <2>2. QED BY <2>1
<1>8. ASSUME NEW T \in SUBSET K, T # {}, Fine(T \ {AnyOf(T)}) PROVE Fine(T)
  <2>1. PICK k, U, R, N : k = AnyOf(T) /\ U = T \ {k} /\ R = iter[U] /\ N = iter[T]
    OBVIOUS
  <2>2. k \in T /\ T = U \cup {k} /\ N = JoinedThrough(R, k)
    BY <1>3, <1>6, <1>8, <2>1
  <2>3. R \in D /\ M \subseteq R /\ Begins(R) /\ Joins(R, U) /\ Least(R)
    BY <1>8, <2>1
  <2>4. /\ N \in D
        /\ \A a, b : <<a, b>> \in N <=> <<a, b>> \in R \/ (<<a, k>> \in R /\ <<k, b>> \in R)
    BY <2>2, <2>3, JoinFacts
  <2>5. \A p \in N : p = <<p[1], p[2]>>
    BY <2>4
  <2>6. M \subseteq N
    <3>1. ASSUME NEW p \in M PROVE p \in N
      <4>1. PICK a, b : p = <<a, b>>
        OBVIOUS
      <4>2. <<a, b>> \in R
        BY <2>3, <4>1
      <4>3. QED BY <2>4, <4>1, <4>2
    <3>2. QED BY <3>1
  <2>7. Begins(N)
    BY <2>3, <2>4
  <2>8. Joins(N, T)
    <3>1. SUFFICES ASSUME NEW j \in T, NEW a, NEW b, <<a, j>> \in N, <<j, b>> \in N
                   PROVE  <<a, b>> \in N
      OBVIOUS
    <3>2. CASE j = k
      BY <2>4, <3>1, <3>2
    <3>3. CASE j \in U
      BY <2>3, <2>4, <3>1, <3>3
    <3>4. QED BY <2>2, <3>2, <3>3
  <2>9. Least(N)
    <3>1. SUFFICES ASSUME NEW Q, M \subseteq Q, Transitive(Q) PROVE N \subseteq Q
      OBVIOUS
    <3>2. R \subseteq Q
      BY <2>3, <3>1
    <3>3. \A a, b : <<a, b>> \in N => <<a, b>> \in Q
      BY ZenonT(30), <2>4, <3>1, <3>2 DEF Transitive
    <3>4. QED BY <2>5, <3>3
  <2>10. QED BY <2>1, <2>4, <2>6, <2>7, <2>8, <2>9
<1>9. Wrong = {}
  <2>1. SUFFICES ASSUME Wrong # {} PROVE FALSE
    OBVIOUS
  <2>2. \A T \in Wrong : IsFiniteSet(T)
    <3>1. \A T \in Wrong : T \in SUBSET K
      OBVIOUS
    <3> HIDE DEF Wrong
    <3>2. QED BY <3>1, FS_Subset
  <2>3. PICK T \in Wrong : \A U \in Wrong : U \subseteq T => U = T
    <3> HIDE DEF Wrong
    <3>1. QED BY <2>1, <2>2, SmallestSet
  <2>4. T \in SUBSET K /\ ~Fine(T)
    OBVIOUS
  <2>5. T # {}
    <3> HIDE DEF Fine
    <3>1. QED BY <1>7, <2>4
  <2>6. PICK U : U = T \ {AnyOf(T)}
    OBVIOUS
  <2>7. U \in SUBSET K /\ U \subseteq T /\ U # T
    BY <1>3, <2>4, <2>5, <2>6
  <2>8. U \notin Wrong
    <3> HIDE DEF Wrong
    <3>1. QED BY <2>3, <2>7
  <2>9. Fine(U)
    <3> HIDE DEF Fine
    <3>1. QED BY <2>7, <2>8
  <2> HIDE DEF Fine, Wrong
  <2>10. QED BY <1>8, <2>4, <2>5, <2>6, <2>9
<1>10. Fine(K)
  <2> HIDE DEF Fine
  <2>1. QED BY <1>9
<1>11. PICK R : R = iter[K] /\ R = Closure(M, K)
  BY <1>5
<1>12. R \in D /\ M \subseteq R /\ Begins(R) /\ Joins(R, K) /\ Least(R)
  BY <1>10, <1>11
<1>13. Transitive(R)
  <2>1. SUFFICES ASSUME NEW a, NEW b, NEW c, <<a, b>> \in R, <<b, c>> \in R PROVE <<a, c>> \in R
    BY DEF Transitive
  <2>2. (\E y : <<y, b>> \in M) /\ (\E x : <<b, x>> \in M)
    BY <1>12, <2>1
  <2>3. b \in K
    BY <2>2
  <2>4. QED BY <1>12, <2>1, <2>3
<1>14. QED BY <1>11, <1>12, <1>13

\* New pairs, from B to A, that the order R does not contradict.
Agree(R, B, A) == \A b \in B : \A a \in A : a # b /\ <<a, b>> \notin R
Within(M, R, B, A) == \A p \in M : p = <<p[1], p[2]>> /\ (p \in R \/ (p[1] \in B /\ p[2] \in A))

\* They leave it without cycles.
LEMMA NoCycle ==
    ASSUME NEW R, Transitive(R), Irreflexive(R), NEW B, NEW A, Agree(R, B, A),
           NEW M, Within(M, R, B, A)
    PROVE  \E Q : M \subseteq Q /\ Transitive(Q) /\ Irreflexive(Q)
<1> DEFINE Under(x) == \E b \in B : x = b \/ <<x, b>> \in R
           Past(y) == \E a \in A : y = a \/ <<a, y>> \in R
           Field == {p[1] : p \in M} \cup {p[2] : p \in M} \cup {p[1] : p \in R} \cup {p[2] : p \in R}
           Q == R \cup {p \in Field \X Field : Under(p[1]) /\ Past(p[2])}
<1>1. ASSUME NEW z, Under(z), Past(z) PROVE FALSE
  BY <1>1 DEF Transitive, Agree
<1>2. \A x, y : <<x, y>> \in Q <=> <<x, y>> \in R \/ (x \in Field /\ y \in Field /\ Under(x) /\ Past(y))
  <2> HIDE DEF Under, Past, Field
  <2>1. QED OBVIOUS
<1>3. \A x, y : <<x, y>> \in R => x \in Field /\ y \in Field
  <2>1. ASSUME NEW x, NEW y, <<x, y>> \in R PROVE x \in Field /\ y \in Field
    <3>1. PICK p : p = <<x, y>>
      OBVIOUS
    <3>2. p \in R /\ p[1] = x /\ p[2] = y
      BY <2>1, <3>1
    <3>3. QED BY <3>2
  <2> HIDE DEF Field
  <2>2. QED BY <2>1
<1>4. \A x, y : <<x, y>> \in R /\ Under(y) => Under(x)
  BY DEF Transitive
<1>5. \A x, y : <<x, y>> \in R /\ Past(x) => Past(y)
  BY DEF Transitive
<1>6. Transitive(Q)
  <2> HIDE DEF Under, Past, Field, Q
  <2>1. SUFFICES ASSUME NEW x, NEW y, NEW z, <<x, y>> \in Q, <<y, z>> \in Q PROVE <<x, z>> \in Q
    BY DEF Transitive
  <2>2. CASE <<x, y>> \in R /\ <<y, z>> \in R
    BY <1>2, <2>2 DEF Transitive
  <2>3. CASE <<x, y>> \in R /\ Under(y) /\ Past(z) /\ z \in Field
    BY <1>2, <1>3, <1>4, <2>3
  <2>4. CASE <<y, z>> \in R /\ Under(x) /\ Past(y) /\ x \in Field
    BY <1>2, <1>3, <1>5, <2>4
  <2>5. CASE Under(y) /\ Past(y)
    BY <1>1, <2>5
  <2>6. QED BY <1>2, <2>1, <2>2, <2>3, <2>4, <2>5
<1>7. Irreflexive(Q)
  <2> HIDE DEF Under, Past, Field, Q
  <2>1. QED BY <1>1, <1>2 DEF Irreflexive
<1>8. M \subseteq Q
  <2>1. ASSUME NEW p \in M PROVE p \in Q
    <3>1. p = <<p[1], p[2]>> /\ p[1] \in Field /\ p[2] \in Field
      BY DEF Within
    <3>2. p \in R \/ (Under(p[1]) /\ Past(p[2]))
      BY DEF Within
    <3> HIDE DEF Under, Past, Field
    <3>3. QED BY <3>1, <3>2
  <2> HIDE DEF Q
  <2>2. QED BY <2>1
<1>9. QED
  <2> HIDE DEF Q
  <2>1. QED BY <1>6, <1>7, <1>8

\* The nets that cross a channel can be ordered as the columns demand.
Ordered(c) == \E Q : Meeting(c) \subseteq Q /\ Transitive(Q) /\ Irreflexive(Q)

\* The nodes of a layer.
LEMMA InLayer ==
    TreeOK(tree) => \A l \in Layers : NodesOf(l) = {n \in Nodes : LayerOf(tree, n) = l}
<1>1. SUFFICES ASSUME TreeOK(tree), NEW l \in Layers
               PROVE  NodesOf(l) = {n \in Nodes : LayerOf(tree, n) = l}
  OBVIOUS
<1>2. l \in 1 .. Len(tree.layers) /\ tree \in Trees /\ Homed(tree)
  BY <1>1 DEF Layers, TreeOK, Shaped
<1>3. NodesOf(l) \subseteq {n \in Nodes : LayerOf(tree, n) = l}
  BY <1>1, <1>2, NodeSeqFacts
<1>4. ASSUME NEW n \in Nodes, LayerOf(tree, n) = l PROVE n \in NodesOf(l)
  <2>1. PICK p : p = PlaceOf(tree, n) /\ p \in Places(tree) /\ InGroup(tree, p, n) /\ p[1] = l
    BY <1>2, <1>4, HomeFacts DEF Nodes
  <2>2. n \in ToSet(GroupAt(tree, p).nodes)
    BY <1>2, <2>1, GroupNodes
  <2>3. p[2] \in 1 .. Len(tree.layers[l]) /\ GroupAt(tree, p) = tree.layers[l][p[2]]
    BY <1>2, <2>1, PlaceFacts
  <2>4. QED BY <2>2, <2>3 DEF NodesOf
<1>5. QED BY <1>3, <1>4

\* What crosses a channel, by column and net, and what meets in it.
CrossersOf(c) ==
    /\ \A p \in FromBelow(c) \cup FromAbove(c) : p = <<p[1], p[2]>>
    /\ \A x, v : <<x, v>> \in FromAbove(c) <=>
          \E n \in Nodes : /\ n \in DOMAIN col /\ LayerOf(tree, n) = c
                           /\ x = col[n] /\ v = tree.nodes[n].in
    /\ c # 1 => \A x, v : <<x, v>> \in FromBelow(c) <=>
          \E n \in Nodes : /\ n \in DOMAIN col /\ LayerOf(tree, n) = c - 1
                           /\ x = col[n] /\ v = tree.nodes[n].out
    /\ c = 1 => \A x, v : <<x, v>> \in FromBelow(c) <=>
          \E b \in DOMAIN bottom : x = bottom[b] /\ v = tree.bottom[b].net

MeetingOf(c) ==
    /\ \A p \in Meeting(c) : p = <<p[1], p[2]>>
    /\ \A v, w : <<v, w>> \in Meeting(c) <=>
          v # w /\ \E x : <<x, v>> \in FromBelow(c) /\ <<x, w>> \in FromAbove(c)

\* It is so in every channel.
Crossed == \A c \in Channels : CrossersOf(c) /\ MeetingOf(c)

\* The crossers are the outputs of the layer below and the inputs of the one above.
LEMMA CrossersAre ==
    ASSUME TreeOK(tree), NEW c \in Channels
    PROVE  CrossersOf(c)
<1>1. TreeOK(tree) /\ c \in Channels
  OBVIOUS
<1>2. /\ c \in Nat /\ c >= 1 /\ c <= Len(tree.layers) + 1 /\ Len(tree.layers) \in Nat
      /\ tree \in Trees /\ Homed(tree)
  <2>1. /\ Len(tree.channels) = Len(tree.layers) + 1 /\ Len(tree.layers) \in Nat
        /\ tree \in Trees /\ Homed(tree)
    BY <1>1, TreeParts DEF TreeOK, Shaped
  <2>2. QED BY <1>1, <2>1 DEF Channels
<1>3. \A l \in 1 .. Len(tree.layers) : NodesOf(l) = {n \in Nodes : LayerOf(tree, n) = l}
  BY <1>1, InLayer DEF Layers
<1>4. \A n \in Nodes : LayerOf(tree, n) \in 1 .. Len(tree.layers)
  BY <1>2, HomeFacts DEF Nodes
<1>5. FromAbove(c) = {<<col[n], tree.nodes[n].in>> : n \in
                          {m \in Nodes : m \in DOMAIN col /\ LayerOf(tree, m) = c}}
  <2>1. CASE c > Len(tree.layers)
    <3>1. \A m \in Nodes : LayerOf(tree, m) # c
      BY <1>2, <1>4, <2>1
    <3>2. QED BY <2>1, <3>1 DEF FromAbove
  <2>2. CASE c <= Len(tree.layers)
    <3>1. NodesOf(c) \cap DOMAIN col = {m \in Nodes : m \in DOMAIN col /\ LayerOf(tree, m) = c}
      BY <1>2, <1>3, <2>2
    <3>2. ~(c > Len(tree.layers))
      BY <1>2, <2>2
    <3>3. QED BY <3>1, <3>2 DEF FromAbove
  <2>3. QED BY <1>2, <2>1, <2>2
<1>6. c # 1 => FromBelow(c) =
          {<<col[n], tree.nodes[n].out>> : n \in {m \in Nodes : m \in DOMAIN col /\ LayerOf(tree, m) = c - 1}}
  <2>1. ASSUME c # 1
        PROVE  NodesOf(c - 1) \cap DOMAIN col = {m \in Nodes : m \in DOMAIN col /\ LayerOf(tree, m) = c - 1}
    <3>1. c - 1 \in 1 .. Len(tree.layers)
      BY <1>2, <2>1
    <3>2. QED BY <1>3, <3>1
  <2>2. QED BY <2>1 DEF FromBelow
<1>7. c = 1 => FromBelow(c) = {<<bottom[b], tree.bottom[b].net>> : b \in DOMAIN bottom}
  BY DEF FromBelow
<1>8. \A p \in FromBelow(c) \cup FromAbove(c) : p = <<p[1], p[2]>>
  BY <1>5, <1>6, <1>7
<1>9. \A x, v : <<x, v>> \in FromAbove(c) <=>
          \E n \in Nodes : /\ n \in DOMAIN col /\ LayerOf(tree, n) = c
                           /\ x = col[n] /\ v = tree.nodes[n].in
  BY <1>5
<1>10. c # 1 => \A x, v : <<x, v>> \in FromBelow(c) <=>
          \E n \in Nodes : /\ n \in DOMAIN col /\ LayerOf(tree, n) = c - 1
                           /\ x = col[n] /\ v = tree.nodes[n].out
  BY <1>6
<1>11. c = 1 => \A x, v : <<x, v>> \in FromBelow(c) <=>
          \E b \in DOMAIN bottom : x = bottom[b] /\ v = tree.bottom[b].net
  BY <1>7
<1>12. QED BY <1>8, <1>9, <1>10, <1>11 DEF CrossersOf

\* The pairs that meet are pairs of nets in one column.
LEMMA MeetingIs ==
    ASSUME NEW c, CrossersOf(c)
    PROVE  MeetingOf(c)
<1>1. \A p \in FromBelow(c) \cup FromAbove(c) : p = <<p[1], p[2]>>
  BY DEF CrossersOf
<1>2. PICK B, A : B = FromBelow(c) /\ A = FromAbove(c)
  OBVIOUS
<1>3. Meeting(c) = {<<p[1][2], p[2][2]>> : p \in {q \in B \X A : q[1][1] = q[2][1] /\ q[1][2] # q[2][2]}}
  BY <1>2 DEF Meeting
<1>4. \A p \in B \cup A : p = <<p[1], p[2]>>
  BY <1>1, <1>2
<1>5. ASSUME NEW v, NEW w, <<v, w>> \in Meeting(c)
      PROVE  v # w /\ \E x : <<x, v>> \in B /\ <<x, w>> \in A
  <2>1. PICK q \in B \X A : q[1][1] = q[2][1] /\ q[1][2] # q[2][2] /\ <<v, w>> = <<q[1][2], q[2][2]>>
    BY <1>3, <1>5
  <2>2. PICK b, a : b = q[1] /\ a = q[2] /\ b \in B /\ a \in A
    BY <2>1
  <2>3. b = <<b[1], v>> /\ a = <<b[1], w>> /\ v # w
    BY <1>4, <2>1, <2>2
  <2>4. QED BY <2>2, <2>3
<1>6. ASSUME NEW v, NEW w, NEW x, v # w, <<x, v>> \in B, <<x, w>> \in A PROVE <<v, w>> \in Meeting(c)
  <2>1. PICK q : q = << <<x, v>>, <<x, w>> >>
    OBVIOUS
  <2>2. q \in B \X A /\ q[1] = <<x, v>> /\ q[2] = <<x, w>>
    BY <1>6, <2>1
  <2>3. q[1][1] = q[2][1] /\ q[1][2] # q[2][2] /\ <<v, w>> = <<q[1][2], q[2][2]>>
    BY <1>6, <2>2
  <2>4. QED BY <1>3, <2>2, <2>3
<1>7. \A p \in Meeting(c) : p = <<p[1], p[2]>>
  BY <1>3
<1>8. QED BY <1>2, <1>5, <1>6, <1>7 DEF MeetingOf

\* So every channel is crossed as its layers demand.
LEMMA CrossedIs == TreeOK(tree) => Crossed
  BY CrossersAre, MeetingIs DEF Crossed

\* And it still is when the tree has changed.
LEMMA CrossedYet == TreeOK(tree)' => Crossed'
  BY CrossedIs, PTL

\* What less_ is: an order if there is one.
LEMMA LessFacts ==
    ASSUME TreeOK(tree), Sound(tree), NEW c \in Channels
    PROVE  /\ Meeting(c) \subseteq Less(c) /\ Transitive(Less(c))
           /\ Ordered(c) => Irreflexive(Less(c))
<1>1. /\ \A p \in Meeting(c) : p = <<p[1], p[2]>>
      /\ \A v, w : <<v, w>> \in Meeting(c) <=>
            v # w /\ \E x : <<x, v>> \in FromBelow(c) /\ <<x, w>> \in FromAbove(c)
  BY CrossedIs DEF Crossed, MeetingOf
<1>2. PICK M, X, K : /\ M = Meeting(c) /\ X = {p[1] : p \in M} \cup {p[2] : p \in M}
                     /\ K = ToSet(tree.channels[c])
  OBVIOUS
<1>3. M \in SUBSET (X \X X)
  BY <1>1, <1>2
<1>4. IsFiniteSet(K)
  <2>1. tree.channels[c] \in Seq(Vertices)
    BY TreeParts DEF TreeOK, Shaped, Channels
  <2>2. K \in SUBSET Vertices
    BY <1>2, <2>1 DEF ToSet
  <2>3. QED BY <2>2, VerticesFinite, FS_Subset
<1>5. ASSUME NEW u, NEW v, NEW w, <<u, v>> \in M, <<v, w>> \in M PROVE v \in K
  <2>1. PICK x : <<x, v>> \in FromAbove(c)
    BY <1>1, <1>2, <1>5
  <2>2. PICK n \in Nodes : LayerOf(tree, n) = c /\ v = tree.nodes[n].in
    BY <2>1, CrossersAre DEF CrossersOf
  <2>3. PICK p : p = PlaceOf(tree, n) /\ p \in Places(tree) /\ InGroup(tree, p, n) /\ p[1] = c
    BY <2>2, HomeFacts DEF Nodes, TreeOK, Shaped
  <2>4. GroupAt(tree, p).net = v
    BY <2>2, <2>3 DEF Nodes, TreeOK, Reads
  <2>5. QED BY <1>2, <2>3, <2>4 DEF Sound
<1>6. Less(c) = Closure(M, K)
  BY <1>2 DEF Less, Closure
<1>7. /\ M \subseteq Closure(M, K) /\ Transitive(Closure(M, K))
      /\ \A Q : M \subseteq Q /\ Transitive(Q) => Closure(M, K) \subseteq Q
  BY ONLY <1>3, <1>4, <1>5, ClosureFacts
<1>8. QED BY <1>2, <1>6, <1>7 DEF Ordered, Irreflexive

-----------------------------------------------------------------------------
(***************************************************************************)
(* Columns: nodes of a layer are apart, nets that meet can be ordered.       *)
(***************************************************************************)

\* Nodes of one layer are in different columns.
Spread ==
    \A n, m \in DOMAIN col : LayerOf(tree, n) = LayerOf(tree, m) /\ col[n] = col[m] => n = m

\* A bottom wire is under a node that reads its net.
UnderReader(b) ==
    \E n \in Nodes : /\ LayerOf(tree, n) = 1 /\ col[n] = bottom[b]
                     /\ tree.nodes[n].in = tree.bottom[b].net

\* What is not placed waits for its turn or for its parent.
Waiting ==
    \A n \in Nodes \ DOMAIN col :
        n \in ToSet(todo) \/ (Parent(n) # NoParent /\ Parent(n) \notin DOMAIN col)

\* What is right about the columns, from preComputeSpatial on.
ColumnsOK ==
    /\ stage \in {"place", "vertical", "segments"} =>
          /\ Spread
          /\ \A c \in Channels : Ordered(c)
          /\ \A p \in Places(tree) : GroupAt(tree, p).nodes # <<>>
    /\ stage = "place" => Waiting
    /\ stage \in {"vertical", "segments"} =>
          /\ DOMAIN col = Nodes /\ DOMAIN bottom = 1 .. Len(tree.bottom)
          /\ \A b \in DOMAIN bottom : UnderReader(b)

\* The columns decide what meets.
LEMMA MeetingStays ==
    ASSUME UNCHANGED <<tree, col, bottom>>
    PROVE  /\ Spread' <=> Spread
           /\ \A c : Ordered(c)' <=> Ordered(c)
           /\ \A b : UnderReader(b)' <=> UnderReader(b)
           /\ Channels' = Channels
<1>1. \A c : FromBelow(c)' = FromBelow(c) /\ FromAbove(c)' = FromAbove(c)
  BY DEF FromBelow, FromAbove, NodesOf
<1>2. \A c : Meeting(c)' = Meeting(c)
  BY <1>1 DEF Meeting
<1>3. \A c : Ordered(c)' <=> Ordered(c)
  BY <1>2 DEF Ordered
<1>4. QED BY <1>3 DEF Spread, UnderReader, Nodes, Channels

\* Where no wire is placed nothing meets.
LEMMA NothingMeets ==
    col = <<>> /\ bottom = <<>> => Spread /\ \A c \in Channels : Ordered(c)
<1>1. SUFFICES ASSUME col = <<>>, bottom = <<>>, NEW c \in Channels PROVE Spread /\ Ordered(c)
  BY DEF Spread
<1>2. DOMAIN col = {} /\ DOMAIN bottom = {}
  BY <1>1
<1>3. FromAbove(c) = {}
  BY <1>2 DEF FromAbove
<1>4. Meeting(c) = {}
  <2>1. \A S : S \X {} = {}
    OBVIOUS
  <2>2. QED BY <1>3, <2>1 DEF Meeting
<1>5. Ordered(c)
  BY <1>4 DEF Ordered, Transitive, Irreflexive
<1>6. QED BY <1>2, <1>5 DEF Spread

\* preComputeSpatial: the lowest layer is what there is to be placed.
LEMMA PreComputeColumns ==
    ASSUME ModelOK, PlacementOK, StructureOK, PreComputeSpatial
    PROVE  ColumnsOK'
<1>1. TreeOK(tree) /\ tree \in Trees /\ Homed(tree)
  BY DEF ModelOK, TreeOK, Shaped
<1>2. /\ stage = "top" /\ stage' = "place" /\ todo' = NodeSeq(1)
      /\ \A p \in Places(tree) : GroupAt(tree, p).nodes # <<>>
      /\ tree' = tree /\ col' = col /\ bottom' = bottom
  BY DEF PreComputeSpatial, model
<1>3. bottom = <<>> /\ col = <<>> /\ DOMAIN col = {}
  BY <1>2 DEF PlacementOK
<1>4. (Spread /\ \A c \in Channels : Ordered(c))'
  <2>1. Spread /\ \A c \in Channels : Ordered(c)
    BY <1>3, NothingMeets
  <2>2. QED BY <1>2, <2>1, MeetingStays
<1>5. 1 \in 1 .. Len(tree.layers) /\ 1 \in Layers
  <2>1. Len(tree.layers) >= 1 /\ Len(tree.layers) \in Nat
    BY <1>1, <1>2, TreeParts DEF ModelOK, StagesOK
  <2>2. QED BY <2>1 DEF Layers
<1>6. ToSet(NodeSeq(1)) = {n \in Nodes : LayerOf(tree, n) = 1}
  BY <1>1, <1>5, NodeSeqFacts, InLayer
<1>7. ASSUME NEW n \in Nodes PROVE n \in ToSet(NodeSeq(1)) \/ Parent(n) # NoParent
  <2>1. PICK p : p = PlaceOf(tree, n) /\ p \in Places(tree) /\ LayerOf(tree, n) = p[1]
    BY <1>1, HomeFacts DEF Nodes
  <2>2. GroupAt(tree, p).parent = NoParent => p[1] = 1
    BY <2>1 DEF StructureOK, Sound
  <2>3. QED BY <1>6, <2>1, <2>2 DEF Parent
<1>8. Waiting'
  BY <1>2, <1>3, <1>7 DEF Waiting, Nodes, Parent
<1>9. QED BY <1>2, <1>4, <1>8 DEF ColumnsOK

\* One node more: what its wires meet does not contradict the order there is.
LEMMA NodePlaced ==
    ASSUME TreeOK(tree), Sound(tree), tree' = tree, bottom' = bottom, DOMAIN bottom = {},
           Spread, \A c \in Channels : Ordered(c),
           DOMAIN col \subseteq Nodes, col = [m \in DOMAIN col |-> col[m]],
           NEW n \in Nodes, NEW x, col' = Over(col, Single(n, x)),
           InputPlaceableAt(n, x), OutputPlaceableAt(n, x)
    PROVE  Spread' /\ (\A c \in Channels : Ordered(c))'
<1>1. CASE n \in DOMAIN col
  <2>1. col' = [m \in DOMAIN col |-> col[m]]
    <3>1. DOMAIN Single(n, x) = {n}
      BY DEF Single
    <3>2. (DOMAIN col) \cup (DOMAIN Single(n, x)) = DOMAIN col
      BY <1>1, <3>1
    <3>3. QED BY <3>2 DEF Over
  <2>2. col' = col
    BY <2>1
  <2>3. QED BY <2>2, MeetingStays
<1>2. CASE n \notin DOMAIN col
  <2>1. DOMAIN col' = DOMAIN col \cup {n} /\ col'[n] = x /\ \A m \in DOMAIN col : col'[m] = col[m]
    BY <1>2 DEF Over, Single
  <2>2. Crossed /\ Crossed'
    BY CrossedIs, CrossedYet
  <2>3. PICK l : l = LayerOf(tree, n) /\ l \in 1 .. Len(tree.layers)
    BY HomeFacts DEF TreeOK, Shaped, Nodes
  <2>4. Len(tree.channels) = Len(tree.layers) + 1 /\ Len(tree.layers) \in Nat
    BY TreeParts DEF TreeOK, Shaped
  <2>5. l \in Channels /\ l + 1 \in Channels /\ Channels' = Channels /\ l \in Nat /\ l + 1 # 1
    BY <2>3, <2>4 DEF Channels
  <2>6. \A m \in DOMAIN col : LayerOf(tree, m) = l => col[m] # x
    <3>1. ASSUME NEW m \in DOMAIN col, LayerOf(tree, m) = l PROVE col[m] # x
      <4>1. <<col[m], tree.nodes[m].in>> \in FromAbove(l)
        BY <2>2, <2>5, <3>1 DEF Crossed, CrossersOf
      <4>2. MayCross(l, FALSE, tree.nodes[n].in, x)
        BY <2>3 DEF InputPlaceableAt
      <4>3. \A p \in FromAbove(l) : p[1] # x
        BY <4>2 DEF MayCross
      <4>4. QED BY <4>1, <4>3
    <3>2. QED BY <3>1
  <2>7. Spread'
    BY <2>1, <2>3, <2>6 DEF Spread
  <2>8. ASSUME NEW c \in Channels PROVE Ordered(c)'
    <3>1. PICK R : R = Less(c) /\ Meeting(c) \subseteq R /\ Transitive(R) /\ Irreflexive(R)
      BY LessFacts
    <3>2. PICK B, A : /\ B = IF c = l + 1 THEN {tree.nodes[n].out}
                              ELSE IF c = l
                              THEN {v : v \in {q[2] : q \in {p \in FromBelow(c) :
                                                p[1] = x /\ p[2] # tree.nodes[n].in}}}
                              ELSE {}
                      /\ A = IF c = l THEN {tree.nodes[n].in}
                              ELSE IF c = l + 1
                              THEN {v : v \in {q[2] : q \in {p \in FromAbove(c) :
                                                p[1] = x /\ p[2] # tree.nodes[n].out}}}
                              ELSE {}
      OBVIOUS
    <3>3. ASSUME NEW b \in B, NEW a \in A PROVE a # b /\ <<a, b>> \notin R
      <4>1. CASE c = l
        <5>1. MayCross(l, FALSE, tree.nodes[n].in, x)
          BY <2>3 DEF InputPlaceableAt
        <5>2. PICK p \in FromBelow(l) : p[1] = x /\ p[2] # tree.nodes[n].in /\ b = p[2]
          BY <2>5, <3>2, <3>3, <4>1
        <5>3. a = tree.nodes[n].in
          BY <3>2, <3>3, <4>1
        <5>4. <<a, p[2]>> \notin Less(l)
          BY <5>1, <5>2, <5>3 DEF MayCross
        <5>5. QED BY <3>1, <4>1, <5>2, <5>3, <5>4
      <4>2. CASE c = l + 1
        <5>1. MayCross(l + 1, TRUE, tree.nodes[n].out, x)
          BY <2>3 DEF OutputPlaceableAt
        <5>2. PICK p \in FromAbove(l + 1) : p[1] = x /\ p[2] # tree.nodes[n].out /\ a = p[2]
          BY <2>5, <3>2, <3>3, <4>2
        <5>3. b = tree.nodes[n].out
          BY <3>2, <3>3, <4>2
        <5>4. <<p[2], b>> \notin Less(l + 1)
          BY <5>1, <5>2, <5>3 DEF MayCross
        <5>5. QED BY <3>1, <4>2, <5>2, <5>3, <5>4
      <4>3. QED BY <3>2, <3>3, <4>1, <4>2
    <3>4. \A y, v : <<y, v>> \in FromAbove(c)' <=>
              <<y, v>> \in FromAbove(c) \/ (c = l /\ y = x /\ v = tree.nodes[n].in)
      <4>1. /\ \A y, v : <<y, v>> \in FromAbove(c) <=>
                  \E m \in Nodes : /\ m \in DOMAIN col /\ LayerOf(tree, m) = c
                                   /\ y = col[m] /\ v = tree.nodes[m].in
            /\ \A y, v : <<y, v>> \in FromAbove(c)' <=>
                  \E m \in Nodes : /\ m \in DOMAIN col' /\ LayerOf(tree, m) = c
                                   /\ y = col'[m] /\ v = tree.nodes[m].in
        BY <2>2, <2>5 DEF Crossed, CrossersOf, Nodes
      <4>2. ASSUME NEW y, NEW v, <<y, v>> \in FromAbove(c)
            PROVE  <<y, v>> \in FromAbove(c)'
        BY <2>1, <4>1, <4>2
      <4>3. ASSUME c = l PROVE <<x, tree.nodes[n].in>> \in FromAbove(c)'
        BY <2>1, <2>3, <4>1, <4>3
      <4>4. ASSUME NEW y, NEW v, <<y, v>> \in FromAbove(c)'
            PROVE  <<y, v>> \in FromAbove(c) \/ (c = l /\ y = x /\ v = tree.nodes[n].in)
        <5>1. PICK m \in Nodes : /\ m \in DOMAIN col' /\ LayerOf(tree, m) = c
                                 /\ y = col'[m] /\ v = tree.nodes[m].in
          BY <4>1, <4>4
        <5>2. QED BY <2>1, <2>3, <4>1, <5>1
      <4>5. QED BY <4>2, <4>3, <4>4
    <3>5. \A y, v : <<y, v>> \in FromBelow(c)' <=>
              <<y, v>> \in FromBelow(c) \/ (c = l + 1 /\ y = x /\ v = tree.nodes[n].out)
      <4>1. CASE c = 1
        <5>1. \A y, v : <<y, v>> \notin FromBelow(c) /\ <<y, v>> \notin FromBelow(c)'
          BY <2>2, <2>5, <4>1 DEF Crossed, CrossersOf
        <5>2. c # l + 1
          BY <2>5, <4>1
        <5>3. QED BY <5>1, <5>2
      <4>2. CASE c # 1
        <5>1. /\ \A y, v : <<y, v>> \in FromBelow(c) <=>
                    \E m \in Nodes : /\ m \in DOMAIN col /\ LayerOf(tree, m) = c - 1
                                     /\ y = col[m] /\ v = tree.nodes[m].out
              /\ \A y, v : <<y, v>> \in FromBelow(c)' <=>
                    \E m \in Nodes : /\ m \in DOMAIN col' /\ LayerOf(tree, m) = c - 1
                                     /\ y = col'[m] /\ v = tree.nodes[m].out
          BY <2>2, <2>5, <4>2 DEF Crossed, CrossersOf, Nodes
        <5>2. c - 1 = l <=> c = l + 1
          BY <2>5 DEF Channels
        <5>3. ASSUME NEW y, NEW v, <<y, v>> \in FromBelow(c)
              PROVE  <<y, v>> \in FromBelow(c)'
          BY <2>1, <5>1, <5>3
        <5>4. ASSUME c = l + 1 PROVE <<x, tree.nodes[n].out>> \in FromBelow(c)'
          BY <2>1, <2>3, <5>1, <5>2, <5>4
        <5>5. ASSUME NEW y, NEW v, <<y, v>> \in FromBelow(c)'
              PROVE  <<y, v>> \in FromBelow(c) \/ (c = l + 1 /\ y = x /\ v = tree.nodes[n].out)
          <6>1. PICK m \in Nodes : /\ m \in DOMAIN col' /\ LayerOf(tree, m) = c - 1
                                   /\ y = col'[m] /\ v = tree.nodes[m].out
            BY <5>1, <5>5
          <6>2. QED BY <2>1, <2>3, <5>1, <5>2, <6>1
        <5>6. QED BY <5>3, <5>4, <5>5
      <4>3. QED BY <4>1, <4>2
    <3>6. PICK M : M = Meeting(c)'
      OBVIOUS
    <3>7. ASSUME NEW p \in M PROVE p = <<p[1], p[2]>> /\ (p \in R \/ (p[1] \in B /\ p[2] \in A))
      <4>1. /\ p = <<p[1], p[2]>>
            /\ \A v, w : <<v, w>> \in M <=>
                    v # w /\ \E y : <<y, v>> \in FromBelow(c)' /\ <<y, w>> \in FromAbove(c)'
        BY <2>2, <2>5, <3>6, <3>7 DEF Crossed, MeetingOf
      <4>2. PICK v, w : p = <<v, w>>
        BY <4>1
      <4>3. PICK y : v # w /\ <<y, v>> \in FromBelow(c)' /\ <<y, w>> \in FromAbove(c)'
        BY <3>7, <4>1, <4>2
      <4>4. CASE <<y, v>> \in FromBelow(c) /\ <<y, w>> \in FromAbove(c)
        <5>1. <<v, w>> \in Meeting(c)
          BY <2>2, <4>3, <4>4 DEF Crossed, MeetingOf
        <5>2. QED BY <3>1, <4>1, <4>2, <5>1
      <4>5. CASE c = l /\ y = x /\ w = tree.nodes[n].in
        <5>1. c # l + 1
          BY <2>5, <4>5
        <5>2. <<x, v>> \in FromBelow(c)
          BY <3>5, <4>3, <4>5, <5>1
        <5>3. PICK q : q = <<x, v>>
          OBVIOUS
        <5>4. q \in FromBelow(c) /\ q[1] = x /\ q[2] = v
          BY <5>2, <5>3
        <5>5. v \in B /\ w \in A
          BY <3>2, <4>3, <4>5, <5>1, <5>4
        <5>6. QED BY <4>1, <4>2, <5>5
      <4>6. CASE c = l + 1 /\ y = x /\ v = tree.nodes[n].out
        <5>1. c # l
          BY <2>5, <4>6
        <5>2. <<x, w>> \in FromAbove(c)
          BY <3>4, <4>3, <4>6, <5>1
        <5>3. PICK q : q = <<x, w>>
          OBVIOUS
        <5>4. q \in FromAbove(c) /\ q[1] = x /\ q[2] = w
          BY <5>2, <5>3
        <5>5. v \in B /\ w \in A
          BY <3>2, <4>3, <4>6, <5>1, <5>4
        <5>6. QED BY <4>1, <4>2, <5>5
      <4>7. QED BY <3>4, <3>5, <4>3, <4>4, <4>5, <4>6
    <3>8. \E Q : M \subseteq Q /\ Transitive(Q) /\ Irreflexive(Q)
      <4>1. Transitive(R) /\ Irreflexive(R)
        BY <3>1
      <4>2. Agree(R, B, A)
        BY <3>3 DEF Agree
      <4>3. Within(M, R, B, A)
        BY <3>7 DEF Within
      <4>4. QED BY ONLY <4>1, <4>2, <4>3, NoCycle
    <3>9. QED BY <3>6, <3>8 DEF Ordered
  <2>9. QED BY <2>5, <2>7, <2>8
<1>3. QED BY <1>1, <1>2

\* A node is placed in a column that is left; its child's nodes come next.
LEMMA PlaceNodeColumns ==
    ASSUME ModelOK, PlacementOK, StructureOK, ColumnsOK, PlaceNode
    PROVE  ColumnsOK'
<1>1. TreeOK(tree) /\ tree \in Trees /\ Homed(tree) /\ Sound(tree)
  BY DEF ModelOK, TreeOK, Shaped, StructureOK
<1>2. PICK n, below : n = Head(todo) /\ below = Child(tree, n)
  OBVIOUS
<1>3. PICK first : first = IF below = {} THEN <<>> ELSE GroupAt(tree, CHOOSE p \in below : TRUE).nodes
  OBVIOUS
<1>4. PICK x : /\ col' = Over(col, Single(n, x))
               /\ InputPlaceableAt(n, x) /\ OutputPlaceableAt(n, x)
  BY <1>2 DEF PlaceNode
<1>5. /\ stage = "place" /\ todo # <<>> /\ todo' = first \o Tail(todo)
      /\ stage' = stage /\ tree' = tree /\ bottom' = bottom
  BY <1>2, <1>3 DEF PlaceNode, model
<1>6. /\ todo \in Seq(Nodes) /\ DOMAIN col \subseteq Nodes /\ col = [m \in DOMAIN col |-> col[m]]
      /\ bottom = <<>> /\ DOMAIN bottom = {}
  BY <1>5 DEF PlacementOK
<1>7. /\ n \in Nodes /\ Tail(todo) \in Seq(Nodes) /\ ToSet(todo) = {n} \cup ToSet(Tail(todo))
  <2>1. PICK N, s : N = Nodes /\ s = todo
    OBVIOUS
  <2>2. s \in Seq(N) /\ s # <<>>
    BY <1>5, <1>6, <2>1
  <2>3. Head(s) \in N /\ Tail(s) \in Seq(N) /\ s = <<Head(s)>> \o Tail(s) /\ <<Head(s)>> \in Seq(N)
    BY <2>2
  <2>4. ToSet(<<Head(s)>> \o Tail(s)) = ToSet(<<Head(s)>>) \cup ToSet(Tail(s))
    BY ZenonT(30), <2>3, ToSetConcat
  <2>5. ToSet(<<Head(s)>>) = {Head(s)}
    BY DEF ToSet
  <2>6. ToSet(s) = {Head(s)} \cup ToSet(Tail(s))
    BY <2>3, <2>4, <2>5
  <2>7. QED BY <1>2, <2>1, <2>3, <2>6
<1>8. /\ Spread /\ \A c \in Channels : Ordered(c)
      /\ \A p \in Places(tree) : GroupAt(tree, p).nodes # <<>>
      /\ Waiting
  BY <1>5 DEF ColumnsOK
<1>9. Spread' /\ (\A c \in Channels : Ordered(c))'
  BY <1>1, <1>4, <1>5, <1>6, <1>7, <1>8, NodePlaced
<1>10. DOMAIN col' = DOMAIN col \cup {n}
  BY <1>4 DEF Over, Single
<1>11. first \in Seq(Nat) /\ \A m \in Nodes : Parent(m) = n /\ n # NoParent => m \in ToSet(first)
  <2>1. CASE below = {}
    <3>1. \A m \in Nodes : Parent(m) # n \/ n = NoParent
      <4>1. ASSUME NEW m \in Nodes, Parent(m) = n, n # NoParent PROVE FALSE
        <5>1. PlaceOf(tree, m) \in Places(tree)
          BY <1>1, HomeFacts DEF Nodes
        <5>2. PlaceOf(tree, m) \in below
          BY <1>2, <4>1, <5>1 DEF Child, Parent, NoParent, Bottom
        <5>3. QED BY <2>1, <5>2
      <4>2. QED BY <4>1
    <3>2. first = <<>>
      BY <1>3, <2>1
    <3>3. QED BY <3>1, <3>2
  <2>2. CASE below # {}
    <3>1. PICK p : p \in below /\ first = GroupAt(tree, p).nodes
      BY <1>3, <2>2
    <3>2. p \in Places(tree) /\ GroupAt(tree, p).parent = n
      BY <1>2, <3>1 DEF Child
    <3>3. ASSUME NEW m \in Nodes, Parent(m) = n, n # NoParent PROVE m \in ToSet(first)
      <4>1. PICK q : q = PlaceOf(tree, m) /\ q \in Places(tree) /\ InGroup(tree, q, m)
        BY <1>1, HomeFacts DEF Nodes
      <4>2. q = p
        BY <1>1, <3>2, <3>3, <4>1 DEF Sound, Parent
      <4>3. QED BY <1>1, <3>1, <4>1, <4>2, GroupNodes
    <3>4. QED BY <1>1, <3>1, <3>2, <3>3, PlaceFacts
  <2>3. QED BY <2>1, <2>2
<1>12. ToSet(todo') = ToSet(first) \cup ToSet(Tail(todo))
  <2>1. PICK N, s, t : N = Nodes \cup Nat /\ s = first /\ t = Tail(todo)
    OBVIOUS
  <2>2. s \in Seq(N) /\ t \in Seq(N)
    BY <1>7, <1>11, <2>1
  <2>3. ToSet(s \o t) = ToSet(s) \cup ToSet(t)
    BY ONLY <2>2, ToSetConcat
  <2>4. QED BY <1>5, <2>1, <2>3
<1>13. ASSUME NEW m \in Nodes \ DOMAIN col'
       PROVE  m \in ToSet(todo') \/ (Parent(m) # NoParent /\ Parent(m) \notin DOMAIN col')
  <2>1. m \in Nodes \ DOMAIN col /\ m # n
    BY <1>10, <1>13
  <2>2. CASE m \in ToSet(todo)
    BY <1>7, <1>12, <2>1, <2>2
  <2>3. CASE Parent(m) # NoParent /\ Parent(m) \notin DOMAIN col
    BY <1>10, <1>11, <1>12, <2>1, <2>3
  <2>4. QED BY <1>8, <2>1, <2>2, <2>3 DEF Waiting
<1>14. Waiting'
  BY <1>5, <1>13 DEF Waiting, Nodes, Parent
<1>15. QED BY <1>5, <1>8, <1>9, <1>14 DEF ColumnsOK

\* When nothing is left to be placed, everything is.
LEMMA AllPlaced ==
    ASSUME TreeOK(tree), Waiting, todo = <<>>, DOMAIN col \subseteq Nodes
    PROVE  DOMAIN col = Nodes
<1> DEFINE Low == {LayerOf(tree, n) : n \in Nodes \ DOMAIN col}
<1>1. tree \in Trees /\ Homed(tree) /\ Hung(tree) /\ Len(tree.layers) \in Nat
  BY TreeParts DEF TreeOK, Shaped
<1>2. \A n \in Nodes : LayerOf(tree, n) \in 1 .. Len(tree.layers)
  BY <1>1, HomeFacts DEF Nodes
<1>3. ASSUME NEW l \in Low PROVE \E k \in Low : k < l
  <2>1. PICK n \in Nodes \ DOMAIN col : l = LayerOf(tree, n)
    OBVIOUS
  <2>2. ToSet(todo) = {}
    BY DEF ToSet
  <2>3. Parent(n) # NoParent /\ Parent(n) \notin DOMAIN col
    BY <2>1, <2>2 DEF Waiting
  <2>4. PICK p : p = PlaceOf(tree, n) /\ p \in Places(tree) /\ p[1] = l
    BY <1>1, <2>1, HomeFacts DEF Nodes
  <2>5. Parent(n) \in Nodes /\ LayerOf(tree, Parent(n)) = l - 1
    BY <1>1, <2>3, <2>4 DEF Hung, Parent, Nodes
  <2>6. LayerOf(tree, Parent(n)) \in Low
    BY <2>3, <2>5
  <2>7. l \in 1 .. Len(tree.layers)
    BY <1>2, <2>1
  <2>8. l - 1 < l
    BY <1>1, <2>7
  <2> HIDE DEF Low
  <2>9. QED BY <2>5, <2>6, <2>8
<1>4. Low \in SUBSET Nat
  BY <1>1, <1>2
<1>5. Low = {}
  <2> HIDE DEF Low
  <2>1. QED BY <1>3, <1>4, Descent
<1>6. QED BY <1>5

\* Every bottom wire comes to stand under a node that reads its net, and meets no
\* other.
LEMMA PlaceBottomColumns ==
    ASSUME ModelOK, PlacementOK, StructureOK, ColumnsOK, PlaceBottomWires
    PROVE  ColumnsOK'
<1>1. TreeOK(tree) /\ tree \in Trees /\ Homed(tree)
  BY DEF ModelOK, TreeOK, Shaped
<1>2. /\ stage = "place" /\ todo = <<>> /\ stage' = "vertical"
      /\ bottom' = [b \in 1 .. Len(tree.bottom) |-> ColumnUnderGroup(b)]
      /\ tree' = tree /\ col' = col
  BY DEF PlaceBottomWires, model
<1>3. /\ Spread /\ \A c \in Channels : Ordered(c)
      /\ \A p \in Places(tree) : GroupAt(tree, p).nodes # <<>>
      /\ Waiting
  BY <1>2 DEF ColumnsOK
<1>4. DOMAIN col = Nodes
  BY <1>1, <1>2, <1>3, AllPlaced DEF PlacementOK
<1>5. ToSet(lower) = {} /\ ToSet(upper) = {}
  <2>1. lower = <<>> /\ upper = <<>>
    BY <1>2 DEF ModelOK, StagesOK
  <2>2. QED BY <2>1 DEF ToSet
<1>6. ASSUME NEW b \in 1 .. Len(tree.bottom)
      PROVE  \E n \in Nodes : /\ LayerOf(tree, n) = 1 /\ col[n] = ColumnUnderGroup(b)
                              /\ tree.nodes[n].in = tree.bottom[b].net
  <2>1. PICK G : G = InputToGroup(tree, tree.bottom[b].net, Bottom)
    OBVIOUS
  <2>2. G # {}
    BY <1>5, <2>1 DEF ModelOK, BottomOK
  <2>3. PICK p : p \in G /\ ColumnUnderGroup(b) = col[GroupAt(tree, p).nodes[1]]
    BY <2>1, <2>2 DEF ColumnUnderGroup
  <2>4. p \in Places(tree) /\ p[1] = 1 /\ GroupAt(tree, p).net = tree.bottom[b].net
    BY <2>1, <2>3 DEF InputToGroup
  <2>5. PICK s : s = GroupAt(tree, p).nodes
    OBVIOUS
  <2>6. s # <<>> /\ s \in Seq(Nat)
    BY <1>1, <1>3, <2>4, <2>5, PlaceFacts
  <2>7. s[1] \in ToSet(s)
    <3>1. 1 \in DOMAIN s
      BY <2>6
    <3>2. QED BY <3>1 DEF ToSet
  <2>8. InGroup(tree, p, s[1]) /\ s[1] \in 1 .. Len(tree.nodes)
    BY <1>1, <2>4, <2>5, <2>7, GroupNodes
  <2>9. LayerOf(tree, s[1]) = 1
    BY <1>1, <2>4, <2>8, HomeFacts
  <2>10. tree.nodes[s[1]].in = tree.bottom[b].net
    BY <1>1, <2>4, <2>8 DEF TreeOK, Reads
  <2>11. QED BY <2>3, <2>5, <2>8, <2>9, <2>10 DEF Nodes
<1>7. DOMAIN bottom' = 1 .. Len(tree.bottom)
  BY <1>2
<1>8. ASSUME NEW b \in DOMAIN bottom' PROVE UnderReader(b)'
  BY <1>2, <1>6, <1>7 DEF UnderReader, Nodes
<1>9. Crossed'
  BY <1>1, <1>2, CrossedYet
<1>10. ASSUME NEW c \in Channels PROVE Ordered(c)'
  <2>1. c \in Channels'
    BY <1>2 DEF Channels
  <2>2. CASE c # 1
    <3>1. FromBelow(c)' = FromBelow(c) /\ FromAbove(c)' = FromAbove(c)
      BY <1>2, <2>2 DEF FromBelow, FromAbove, NodesOf
    <3>2. Meeting(c)' = Meeting(c)
      BY <3>1 DEF Meeting
    <3>3. QED BY <1>3, <3>2 DEF Ordered
  <2>3. CASE c = 1
    <3>1. ASSUME NEW v, NEW w, <<v, w>> \in Meeting(c)' PROVE FALSE
      <4>1. PICK x : v # w /\ <<x, v>> \in FromBelow(c)' /\ <<x, w>> \in FromAbove(c)'
        BY <1>9, <2>1, <3>1 DEF Crossed, MeetingOf
      <4>2. PICK b \in DOMAIN bottom' : x = bottom'[b] /\ v = tree.bottom[b].net
        <5>1. CrossersOf(c)'
          BY <1>9, <2>1 DEF Crossed
        <5>2. c = 1 => \A y, u : <<y, u>> \in FromBelow(c)' <=>
                  \E b \in DOMAIN bottom' : y = bottom'[b] /\ u = tree'.bottom[b].net
          BY <5>1 DEF CrossersOf
        <5>3. PICK b \in DOMAIN bottom' : x = bottom'[b] /\ v = tree'.bottom[b].net
          BY ONLY <2>3, <4>1, <5>2
        <5>4. v = tree.bottom[b].net
          BY <1>2, <5>3
        <5>5. QED BY <5>3, <5>4
      <4>3. PICK n \in Nodes : LayerOf(tree, n) = 1 /\ x = col[n] /\ w = tree.nodes[n].in
        BY <1>2, <1>9, <2>1, <2>3, <4>1 DEF Crossed, CrossersOf, Nodes
      <4>4. PICK m \in Nodes : LayerOf(tree, m) = 1 /\ col[m] = x /\ tree.nodes[m].in = v
        BY <1>2, <1>6, <1>7, <4>2
      <4>5. n = m
        BY <1>3, <1>4, <4>3, <4>4 DEF Spread
      <4>6. QED BY <4>1, <4>3, <4>4, <4>5
    <3>2. Meeting(c)' = {}
      <4>1. \A p \in Meeting(c)' : p = <<p[1], p[2]>>
        BY <1>9, <2>1 DEF Crossed, MeetingOf
      <4>2. QED BY <3>1, <4>1
    <3>3. QED BY <3>2 DEF Ordered, Transitive, Irreflexive
  <2>4. QED BY <2>2, <2>3
<1>11. Spread' /\ Channels' = Channels
  BY <1>2, <1>3 DEF Spread, Channels
<1>12. DOMAIN col' = Nodes'
  BY <1>2, <1>4 DEF Nodes
<1>13. (stage \in {"place", "vertical", "segments"} =>
          /\ Spread
          /\ \A c \in Channels : Ordered(c)
          /\ \A p \in Places(tree) : GroupAt(tree, p).nodes # <<>>)'
  BY <1>2, <1>3, <1>10, <1>11
<1>14. (stage \in {"vertical", "segments"} =>
          /\ DOMAIN col = Nodes /\ DOMAIN bottom = 1 .. Len(tree.bottom)
          /\ \A b \in DOMAIN bottom : UnderReader(b))'
  BY <1>2, <1>7, <1>8, <1>12
<1>15. QED BY <1>2, <1>13, <1>14 DEF ColumnsOK

\* Later steps do not move anything.
LEMMA ColumnsKept ==
    ASSUME ColumnsOK, UNCHANGED <<tree, col, bottom, todo>>,
           stage' = stage \/ stage' \notin {"place", "vertical", "segments"}
           \/ (stage = "vertical" /\ stage' = "segments")
    PROVE  ColumnsOK'
<1>1. /\ Spread' <=> Spread
      /\ \A c : Ordered(c)' <=> Ordered(c)
      /\ \A b : UnderReader(b)' <=> UnderReader(b)
      /\ Channels' = Channels
  BY MeetingStays
<1>2. Waiting' <=> Waiting
  BY DEF Waiting, Nodes, Parent
<1>3. QED BY <1>1, <1>2 DEF ColumnsOK, Nodes

\* Every step of the transformation keeps the columns apart.
LEMMA ColumnsStep ==
    ASSUME SynthesisOK, StructureOK, ColumnsOK, [Next]_vars
    PROVE  ColumnsOK'
<1>1. ModelOK /\ PlacementOK
  BY DEF SynthesisOK
<1>2. ASSUME stage' \notin {"place", "vertical", "segments"} PROVE ColumnsOK'
  BY <1>2 DEF ColumnsOK
<1>3. ASSUME UNCHANGED <<model, placement>>,
             stage' = stage \/ stage' \notin {"place", "vertical", "segments"}
      PROVE  ColumnsOK'
  BY <1>3, ColumnsKept DEF model, placement
<1>4. CASE CreateModel
  <2>1. ModelNext
    BY <1>4 DEF CreateModel
  <2>2. {stage, stage'} \subseteq {"bottom", "layers", "top"}
    BY <2>1, ModelStages
  <2>3. QED BY <1>2, <2>2
<1>5. CASE ComputeSpatial
  <2>1. CASE PreComputeSpatial
    BY <1>1, <2>1, PreComputeColumns
  <2>2. CASE PlaceNode
    BY <1>1, <2>2, PlaceNodeColumns
  <2>3. CASE PlaceBottomWires
    BY <1>1, <2>3, PlaceBottomColumns
  <2>4. CASE ComputeVertical
    <3>1. UNCHANGED <<tree, col, bottom, todo>> /\ stage = "vertical" /\ stage' = "segments"
      BY <2>4 DEF ComputeVertical, model
    <3>2. QED BY <3>1, ColumnsKept
  <2>5. QED BY <1>5, <2>1, <2>2, <2>3, <2>4 DEF ComputeSpatial
<1>6. CASE FixBrokenLinks
  <2>1. CASE SplitBroken
    <3>1. stage' = "bottom"
      BY <2>1 DEF SplitBroken, NewModel
    <3>2. QED BY <1>2, <3>1
  <2>2. CASE CreateSegments
    BY <1>2, <2>2 DEF CreateSegments
  <2>3. CASE BeginConnection
    BY <1>3, <2>3 DEF BeginConnection
  <2>4. ASSUME NEW evaluated, PlaceRepeater(evaluated) PROVE ColumnsOK'
    BY <1>3, <2>4 DEF PlaceRepeater
  <2>5. ASSUME NEW evaluated, GiveUpConnection(evaluated) PROVE ColumnsOK'
    BY <1>3, <2>5 DEF GiveUpConnection
  <2>6. ASSUME NEW evaluated, Abort(evaluated) PROVE ColumnsOK'
    BY <1>2, <2>6 DEF Abort
  <2>7. CASE FinishRepair
    BY <1>2, <2>7 DEF FinishRepair
  <2>8. QED
    BY <1>6, <2>1, <2>2, <2>3, <2>4, <2>5, <2>6, <2>7 DEF FixBrokenLinks, FixConnection
<1>7. CASE BGTree
  <2>1. CASE ToBlocks
    BY <1>2, <2>1 DEF ToBlocks
  <2>2. CASE Test
    BY <1>3, <2>2 DEF Test
  <2>3. CASE ExtendTest
    <3>1. UNCHANGED <<stage, model, placement>>
      BY <2>3 DEF ExtendTest
    <3>2. QED BY <1>3, <3>1
  <2>4. CASE FinishTest
    <3>1. UNCHANGED <<stage, model, placement>>
      BY <2>4 DEF FinishTest
    <3>2. QED BY <1>3, <3>1
  <2>5. CASE FinishBlocks
    BY <1>2, <2>5 DEF FinishBlocks
  <2>6. QED BY <1>7, <2>1, <2>2, <2>3, <2>4, <2>5 DEF BGTree
<1>8. CASE UNCHANGED vars
  <2>1. UNCHANGED <<stage, model, placement>>
    BY <1>8 DEF vars
  <2>2. QED BY <1>3, <2>1
<1>9. QED BY <1>4, <1>5, <1>6, <1>7, <1>8 DEF Next, Done

-----------------------------------------------------------------------------
(***************************************************************************)
(* Rows: the order of a channel's wires, and what dropping them keeps.      *)
(***************************************************************************)

\* Steps that lead from each of some sets to the next one, and what computes by them.
Leads(Step, E, n) == \A k \in 1 .. n : \A d \in E[k - 1] : Step[<<d, k>>] \in E[k]
Folds(f, Step, D, n) ==
    \A T \in SUBSET (1 .. n) : T # {} /\ f[T \ {Greatest(T)}] \in D =>
        f[T] = Step[<<f[T \ {Greatest(T)}], Greatest(T)>>]

\* What a fold from the left computes is led on by its steps.
LEMMA LeftFoldLeads ==
    ASSUME NEW n \in Nat, NEW D, NEW E \in [0 .. n -> SUBSET D], NEW Step, Leads(Step, E, n),
           NEW f, f[{}] \in E[0], Folds(f, Step, D, n)
    PROVE  f[1 .. n] \in E[n]
<1> DEFINE Off == {k \in 0 .. n : f[1 .. k] \notin E[k]}
<1>1. Off = {}
  <2>1. ASSUME NEW k \in Off PROVE \E m \in Off : m < k
    <3>1. k # 0
      <4>1. ASSUME k = 0 PROVE FALSE
        <5>1. 1 .. k = {}
          BY <4>1
        <5>2. QED BY <4>1, <5>1
      <4>2. QED BY <4>1
    <3>2. k \in 1 .. n /\ k - 1 \in 0 .. n /\ k - 1 < k
      BY <3>1
    <3>3. PICK T, U : T = 1 .. k /\ U = 1 .. k - 1
      OBVIOUS
    <3>4. T \in SUBSET (1 .. n) /\ T # {} /\ T \ {Greatest(T)} = U /\ Greatest(T) = k
      <4>1. /\ 1 .. k \in SUBSET (1 .. n) /\ 1 .. k # {} /\ (1 .. k) \ {Greatest(1 .. k)} = 1 .. k - 1
            /\ Greatest(1 .. k) = k
        BY ONLY n \in Nat, <3>2, FirstPositions
      <4>2. QED BY ONLY <3>2, <3>3, <4>1
    <3>5. SUFFICES ASSUME f[U] \in E[k - 1] PROVE FALSE
      BY <3>2, <3>3
    <3>6. f[U] \in D
      BY <3>2, <3>5
    <3>7. f[T] = Step[<<f[U], k>>]
      BY <3>4, <3>6 DEF Folds
    <3>8. f[T] \in E[k]
      BY <3>2, <3>5, <3>7 DEF Leads
    <3>9. QED BY <3>3, <3>8
  <2>2. Off \in SUBSET Nat
    OBVIOUS
  <2> HIDE DEF Off
  <2>3. QED BY <2>1, <2>2, Descent
<1>2. n \in 0 .. n
  OBVIOUS
<1>3. QED BY <1>1, <1>2

\* As many values at most as arguments.
LEMMA ImageFinite ==
    ASSUME NEW S, IsFiniteSet(S), NEW f
    PROVE  IsFiniteSet({f[x] : x \in S})
<1>1. PICK g, T : g = [x \in S |-> f[x]] /\ T = {f[x] : x \in S}
  OBVIOUS
<1>2. g \in Surjection(S, T)
  BY <1>1 DEF Surjection
<1>3. QED BY <1>1, <1>2, FS_Surjection

\* Finitely many nodes and wires cross a channel.
LEMMA CrossersFinite ==
    ASSUME TreeOK(tree), PlacementOK, NEW c
    PROVE  /\ IsFiniteSet(DOMAIN bottom) => IsFiniteSet(FromBelow(c))
           /\ IsFiniteSet(FromAbove(c)) /\ IsFiniteSet(UpperLayerInputs(c))
<1>1. Len(tree.nodes) \in Nat /\ Len(tree.top) \in Nat
  BY TreeParts DEF TreeOK, Shaped
<1>2. IsFiniteSet(Nodes)
  <2>1. 1 \in Int /\ Len(tree.nodes) \in Int
    BY <1>1
  <2>2. QED BY <2>1, FS_Interval DEF Nodes
<1>3. DOMAIN col \subseteq Nodes
  BY DEF PlacementOK
<1>4. \A l : IsFiniteSet(NodesOf(l) \cap DOMAIN col)
  BY <1>2, <1>3, FS_Subset
<1> DEFINE ins == [n \in DOMAIN col |-> <<col[n], tree.nodes[n].in>>]
           outs == [n \in DOMAIN col |-> <<col[n], tree.nodes[n].out>>]
           ups == [n \in {tree.top[k].node : k \in 1 .. Len(tree.top)} |-> <<col[n], tree.nodes[n].out>>]
           tops == [k \in 1 .. Len(tree.top) |-> tree.top[k].node]
           unders == [b \in DOMAIN bottom |-> <<bottom[b], tree.bottom[b].net>>]
<1>5. IsFiniteSet(FromAbove(c))
  <2>1. CASE c > Len(tree.layers)
    BY <2>1, FS_EmptySet DEF FromAbove
  <2>2. CASE ~(c > Len(tree.layers))
    <3>1. PICK S : S = NodesOf(c) \cap DOMAIN col
      OBVIOUS
    <3>2. FromAbove(c) = {ins[n] : n \in S}
      BY <2>2, <3>1 DEF FromAbove
    <3> HIDE DEF ins
    <3>3. QED BY <1>4, <3>1, <3>2, ImageFinite
  <2>3. QED BY <2>1, <2>2
<1>6. IsFiniteSet({<<col[n], tree.nodes[n].out>> : n \in {tree.top[k].node : k \in 1 .. Len(tree.top)}})
  <2>1. IsFiniteSet(1 .. Len(tree.top))
    <3>1. 1 \in Int /\ Len(tree.top) \in Int
      BY <1>1
    <3>2. QED BY <3>1, FS_Interval
  <2>2. PICK S : S = {tops[k] : k \in 1 .. Len(tree.top)}
    OBVIOUS
  <2>3. IsFiniteSet(S)
    <3> HIDE DEF tops
    <3>1. QED BY <2>1, <2>2, ImageFinite
  <2>4. S = {tree.top[k].node : k \in 1 .. Len(tree.top)}
    BY <2>2
  <2>5. IsFiniteSet({ups[n] : n \in S})
    <3> HIDE DEF ups
    <3>1. QED BY <2>3, ImageFinite
  <2>6. {ups[n] : n \in S} = {<<col[n], tree.nodes[n].out>> : n \in S}
    BY <2>4
  <2>7. QED BY <2>4, <2>5, <2>6
<1>7. IsFiniteSet(UpperLayerInputs(c))
  BY <1>5, <1>6 DEF UpperLayerInputs
<1>8. CASE c = 1
  <2>1. FromBelow(c) = {unders[b] : b \in DOMAIN bottom}
    BY <1>8 DEF FromBelow
  <2> HIDE DEF unders
  <2>2. QED BY <1>5, <1>7, <1>8, <2>1, ImageFinite
<1>9. CASE c # 1
  <2>1. PICK S : S = NodesOf(c - 1) \cap DOMAIN col
    OBVIOUS
  <2>2. FromBelow(c) = {outs[n] : n \in S}
    BY <1>9, <2>1 DEF FromBelow
  <2> HIDE DEF outs
  <2>3. QED BY <1>4, <1>5, <1>7, <2>1, <2>2, ImageFinite
<1>10. QED BY <1>8, <1>9

\* The wires a channel still has to order, those that nothing remaining must be above,
\* and the one of them that comes first.
Unordered(c, order) == DOMAIN tree.channels[c] \ ToSet(order)
Highest(c, order) ==
    {i \in Unordered(c, order) :
        \A j \in Unordered(c, order) : <<tree.channels[c][i], tree.channels[c][j]>> \notin Less(c)}
Foremost(c, S) == CHOOSE i \in S : \A j \in S \ {i} : Comes(c, i, j)

\* Among some wires one comes first.
LEMMA ForemostFacts ==
    ASSUME TreeOK(tree), PlacementOK, NEW c, NEW n \in Nat, NEW S \in SUBSET (1 .. n), S # {}
    PROVE  Foremost(c, S) \in S
<1> DEFINE isolated(k) == NumIsolatedUpperInputCrossings(c, tree.channels[c][k])
           Counts == {isolated(k) : k \in S}
<1>1. ASSUME NEW k PROVE isolated(k) \in Nat
  <2>1. PICK net, U, V : /\ net = tree.channels[c][k] /\ U = UpperLayerInputs(c)
                         /\ V = {p \in U : p[2] # net /\ Spans(c, net, p[1])}
    OBVIOUS
  <2>2. IsFiniteSet(U)
    BY <2>1, CrossersFinite
  <2>3. V \in SUBSET U
    BY <2>1
  <2>4. IsFiniteSet(V)
    BY <2>2, <2>3, FS_Subset
  <2>5. Cardinality(V) \in Nat
    BY <2>4, FS_CardinalityType
  <2>6. isolated(k) = IF Anchor(c, net) THEN 0 ELSE Cardinality(V)
    BY <2>1 DEF NumIsolatedUpperInputCrossings
  <2> HIDE DEF isolated
  <2>7. QED BY <2>5, <2>6
<1>2. Counts \in SUBSET Nat /\ Counts # {}
  <2> HIDE DEF isolated
  <2>1. QED BY <1>1
<1>3. PICK m \in Counts : \A k \in Counts : m <= k
  <2> HIDE DEF Counts
  <2>1. QED BY <1>2, LeastNumber
<1> DEFINE Least == {k \in S : isolated(k) = m}
<1>4. Least \in SUBSET (1 .. n) /\ Least # {}
  <2> HIDE DEF isolated
  <2>1. QED BY <1>3
<1>5. PICK i \in Least : \A k \in Least : k <= i
  <2>1. 1 \in Int /\ n \in Int
    OBVIOUS
  <2>2. IsFiniteSet(1 .. n)
    BY <2>1, FS_Interval
  <2>3. IsFiniteSet(Least)
    <3> HIDE DEF Least
    <3>1. QED BY <1>4, <2>2, FS_Subset
  <2>4. Least \in SUBSET Nat
    BY <1>4
  <2> HIDE DEF Least
  <2>5. QED BY <1>4, <2>3, <2>4, GreatestNumber
<1>6. i \in S /\ isolated(i) = m
  OBVIOUS
<1>7. ASSUME NEW j \in S \ {i} PROVE Comes(c, i, j)
  <2>1. isolated(j) \in Counts
    OBVIOUS
  <2>2. m <= isolated(j) /\ isolated(j) \in Nat /\ m \in Nat
    <3> HIDE DEF isolated, Counts
    <3>1. QED BY <1>1, <1>2, <1>3, <2>1
  <2>3. isolated(j) = m => j <= i /\ j # i
    <3> HIDE DEF isolated
    <3>1. QED BY <1>5
  <2>4. i \in 1 .. n /\ j \in 1 .. n
    BY <1>6
  <2>5. isolated(i) < isolated(j) \/ (isolated(i) = isolated(j) /\ i > j)
    <3> HIDE DEF isolated
    <3>1. QED BY <1>6, <2>2, <2>3, <2>4
  <2>6. QED BY <2>5 DEF Comes
<1>8. QED BY <1>6, <1>7 DEF Foremost

\* In an order some wire need not be below any other.
LEMMA HighestFacts ==
    ASSUME NEW c, NEW order, Transitive(Less(c)), Irreflexive(Less(c)),
           IsFiniteSet(Unordered(c, order)), Unordered(c, order) # {}
    PROVE  Highest(c, order) # {} /\ Highest(c, order) \subseteq Unordered(c, order)
<1>1. PICK S, R, w : S = Unordered(c, order) /\ R = Less(c) /\ w = tree.channels[c]
  OBVIOUS
<1>2. S # {} /\ IsFiniteSet(S) /\ Transitive(R) /\ Irreflexive(R)
  BY <1>1
<1> DEFINE Past(i) == {j \in S : <<w[i], w[j]>> \in R}
           F == {Past(i) : i \in S}
<1>3. PICK T \in F : \A U \in F : U \subseteq T => U = T
  <2>1. F # {}
    BY <1>2
  <2>2. \A T \in F : IsFiniteSet(T)
    <3>1. \A T \in F : T \in SUBSET S
      OBVIOUS
    <3> HIDE DEF F
    <3>2. QED BY <1>2, <3>1, FS_Subset
  <2> HIDE DEF F
  <2>3. QED BY <2>1, <2>2, SmallestSet
<1>4. PICK i \in S : T = Past(i)
  OBVIOUS
<1>5. T = {}
  <2>1. SUFFICES ASSUME NEW j \in T PROVE FALSE
    OBVIOUS
  <2>2. j \in S /\ <<w[i], w[j]>> \in R
    BY <1>4
  <2>3. Past(j) \subseteq Past(i)
    BY <1>2, <2>2 DEF Transitive
  <2>4. j \notin Past(j)
    BY <1>2 DEF Irreflexive
  <2>5. Past(j) \in F
    BY <2>2
  <2> HIDE DEF F, Past
  <2>6. QED BY <1>3, <1>4, <2>1, <2>3, <2>4, <2>5
<1>6. \A j \in S : <<w[i], w[j]>> \notin R
  BY <1>4, <1>5
<1>7. i \in Highest(c, order)
  BY <1>1, <1>6 DEF Highest
<1>8. QED BY <1>7 DEF Highest

\* The wires of a channel in ascending order: all of them, and none after one that must
\* be above it.
AscendingAre(c, n, o) ==
    /\ o \in Seq(1 .. n)
    /\ \A i \in 1 .. n : i \in ToSet(o)
    /\ \A a, b \in 1 .. Len(o) : a < b =>
          <<tree.channels[c][o[b]], tree.channels[c][o[a]]>> \notin Less(c)

\* The order in which the code takes them is one.
LEMMA AscendingOrderFacts ==
    ASSUME TreeOK(tree), PlacementOK, NEW c, Transitive(Less(c)), Irreflexive(Less(c)),
           NEW n \in Nat, NEW w, w = tree.channels[c], DOMAIN w = 1 .. n
    PROVE  AscendingAre(c, n, AscendingOrder(c))
<1>1. PICK R : R = Less(c)
  OBVIOUS
<1> DEFINE Next1(o) == Foremost(c, Highest(c, o))
           V == {Foremost(c, S) : S \in SUBSET (1 .. n)}
           D == Seq(V)
           Step == [a \in D \X (1 .. n) |-> <<Next1(a[1])>> \o a[1]]
           Code(f) == [T \in SUBSET (1 .. n) |-> IF T = {} THEN <<>>
                          ELSE <<Next1(f[T \ {Max(T)}])>> \o f[T \ {Max(T)}]]
           E == [k \in 0 .. n |->
                    {o \in D : /\ o \in Seq(1 .. n) /\ Len(o) = k
                               /\ Cardinality((1 .. n) \ ToSet(o)) = n - k
                               /\ \A b \in 1 .. Len(o) : \A j \in (1 .. n) \ ToSet(o) :
                                     <<w[o[b]], w[j]>> \notin R
                               /\ \A a, b \in 1 .. Len(o) : a < b => <<w[o[b]], w[o[a]]>> \notin R}]
<1>2. \A o : Next1(o) \in V
  <2>1. \A o : Highest(c, o) \in SUBSET (1 .. n)
    BY DEF Highest, Unordered
  <2>2. QED BY <2>1
<1>3. Step \in [D \X (1 .. n) -> D]
  <2>1. ASSUME NEW o \in D PROVE <<Next1(o)>> \o o \in D
    <3>1. PICK x : x = Next1(o) /\ x \in V
      BY <1>2
    <3> HIDE DEF V, Next1
    <3>2. QED BY <3>1
  <2> HIDE DEF D, Next1
  <2>2. QED BY <2>1
<1>4. <<>> \in D
  <2> HIDE DEF V
  <2>1. QED OBVIOUS
<1>5. PICK it \in [SUBSET (1 .. n) -> D] : IsLeftFold(it, n, <<>>, Step)
  <2> HIDE DEF Step, D
  <2>1. \E f \in [SUBSET (1 .. n) -> D] : IsLeftFold(f, n, <<>>, Step)
    BY ONLY n \in Nat, <1>3, <1>4, LeftFoldExists
  <2>2. QED BY <2>1
<1>6. it = Code(it)
  <2> HIDE DEF D
  <2>1. ASSUME NEW T \in SUBSET (1 .. n)
        PROVE  it[T] = IF T = {} THEN <<>>
                       ELSE <<Next1(it[T \ {Greatest(T)}])>> \o it[T \ {Greatest(T)}]
    <3>1. it[T] = IF T = {} THEN <<>> ELSE Step[<<it[T \ {Greatest(T)}], Greatest(T)>>]
      <4> HIDE DEF Step
      <4> QED BY <1>5 DEF IsLeftFold
    <3>2. ASSUME T # {} PROVE <<it[T \ {Greatest(T)}], Greatest(T)>> \in D \X (1 .. n)
      <4>1. Greatest(T) \in 1 .. n /\ T \ {Greatest(T)} \in SUBSET (1 .. n)
        BY <3>2, GreatestFacts
      <4>2. QED BY <1>5, <4>1
    <3> HIDE DEF Next1
    <3>3. QED BY <3>1, <3>2
  <2>2. it = [T \in SUBSET (1 .. n) |-> it[T]]
    <3> HIDE DEF Step
    <3> QED BY <1>5
  <2> HIDE DEF Step, Next1
  <2>3. it = [T \in SUBSET (1 .. n) |-> IF T = {} THEN <<>>
                       ELSE <<Next1(it[T \ {Greatest(T)}])>> \o it[T \ {Greatest(T)}]]
    BY ONLY <2>1, <2>2
  <2>4. QED BY ONLY <2>3 DEF Greatest, Max
<1>7. PICK f : AscendingOrder(c) = f[1 .. n] /\ f = Code(f)
  <2>1. AscendingOrder(c) = (CHOOSE f : f = Code(f))[1 .. n]
    BY DEF AscendingOrder, FoldLeft, MapThenFoldSet, Foremost, Highest, Unordered
  <2> HIDE DEF Code
  <2>2. (CHOOSE f : f = Code(f)) = Code(CHOOSE f : f = Code(f))
    BY <1>6
  <2>3. QED BY <2>1, <2>2
<1>8. ASSUME NEW T \in SUBSET (1 .. n)
      PROVE  f[T] = IF T = {} THEN <<>>
                    ELSE <<Next1(f[T \ {Greatest(T)}])>> \o f[T \ {Greatest(T)}]
  BY <1>7 DEF Greatest, Max
<1> HIDE DEF Code
<1>9. ASSUME NEW T \in SUBSET (1 .. n), T # {}, f[T \ {Greatest(T)}] \in D
      PROVE  f[T] = Step[<<f[T \ {Greatest(T)}], Greatest(T)>>]
  <2>1. Greatest(T) \in 1 .. n
    BY <1>9, GreatestFacts
  <2> HIDE DEF D, Next1
  <2>2. f[T] = <<Next1(f[T \ {Greatest(T)}])>> \o f[T \ {Greatest(T)}]
    BY <1>8, <1>9
  <2>3. QED BY <1>9, <2>1, <2>2
<1>10. f[{}] = <<>>
  <2> HIDE DEF Next1
  <2>1. QED BY <1>8
<1>11. <<>> \in E[0]
  <2>1. PICK e : e = <<>>
    OBVIOUS
  <2>2. e \in D /\ e \in Seq(1 .. n) /\ Len(e) = 0 /\ ToSet(e) = {}
    BY <1>4, <2>1 DEF ToSet
  <2>3. Cardinality((1 .. n) \ ToSet(e)) = n - 0
    <3>1. 1 \in Int /\ n \in Int
      OBVIOUS
    <3>2. Cardinality(1 .. n) = n
      <4>1. Cardinality(1 .. n) = IF 1 > n THEN 0 ELSE n - 1 + 1
        BY <3>1, FS_Interval
      <4>2. QED BY <4>1
    <3>3. (1 .. n) \ ToSet(e) = 1 .. n
      BY <2>2
    <3>4. Cardinality((1 .. n) \ ToSet(e)) = Cardinality(1 .. n)
      BY ONLY <3>3
    <3>5. QED BY <3>2, <3>4
  <2> HIDE DEF D
  <2>4. QED BY <2>1, <2>2, <2>3
<1>12. ASSUME NEW k \in 1 .. n, NEW o \in E[k - 1] PROVE Step[<<o, k>>] \in E[k]
  <2>1. /\ k - 1 \in 0 .. n /\ o \in D /\ o \in Seq(1 .. n) /\ Len(o) = k - 1
        /\ Cardinality((1 .. n) \ ToSet(o)) = n - (k - 1)
        /\ \A b \in 1 .. Len(o) : \A j \in (1 .. n) \ ToSet(o) : <<w[o[b]], w[j]>> \notin R
        /\ \A a, b \in 1 .. Len(o) : a < b => <<w[o[b]], w[o[a]]>> \notin R
    <3> HIDE DEF D
    <3>1. k - 1 \in 0 .. n
      OBVIOUS
    <3>2. PICK m \in 0 .. n : m = k - 1
      BY <3>1
    <3>3. o \in E[m]
      BY <1>12, <3>2
    <3>4. /\ o \in D /\ o \in Seq(1 .. n) /\ Len(o) = m
          /\ Cardinality((1 .. n) \ ToSet(o)) = n - m
          /\ \A b \in 1 .. Len(o) : \A j \in (1 .. n) \ ToSet(o) : <<w[o[b]], w[j]>> \notin R
          /\ \A a, b \in 1 .. Len(o) : a < b => <<w[o[b]], w[o[a]]>> \notin R
      BY <3>3
    <3> HIDE DEF E
    <3>5. QED BY <3>1, <3>2, <3>4
  <2>2. PICK S : S = Unordered(c, o) /\ S = (1 .. n) \ ToSet(o)
    BY DEF Unordered
  <2>3. IsFiniteSet(S) /\ Cardinality(S) = n - (k - 1)
    <3>1. 1 \in Int /\ n \in Int
      OBVIOUS
    <3>2. IsFiniteSet(1 .. n)
      BY <3>1, FS_Interval
    <3>3. S \in SUBSET (1 .. n)
      BY <2>2
    <3>4. QED BY <2>1, <2>2, <3>2, <3>3, FS_Subset
  <2>4. S # {}
    <3>1. Cardinality(S) # 0
      BY <2>3
    <3>2. QED BY <3>1, FS_EmptySet
  <2>5. Highest(c, o) # {} /\ Highest(c, o) \subseteq S
    BY <2>2, <2>3, <2>4, HighestFacts
  <2>6. PICK i : i = Next1(o)
    OBVIOUS
  <2>7. i \in Highest(c, o)
    <3>1. Highest(c, o) \in SUBSET (1 .. n)
      BY <2>2, <2>5
    <3>2. QED BY <2>5, <2>6, <3>1, ForemostFacts
  <2>8. i \in S /\ i \in 1 .. n /\ \A j \in S : <<w[i], w[j]>> \notin R
    <3>1. i \in S
      BY <2>5, <2>7
    <3>2. \A j \in Unordered(c, o) : <<tree.channels[c][i], tree.channels[c][j]>> \notin Less(c)
      BY <2>7 DEF Highest
    <3>3. QED BY <1>1, <2>2, <3>1, <3>2
  <2>9. PICK u : u = <<i>> \o o
    OBVIOUS
  <2>10. Step[<<o, k>>] = u /\ u \in D
    <3>1. <<o, k>> \in D \X (1 .. n)
      BY <2>1
    <3>2. Step[<<o, k>>] = <<Next1(o)>> \o o
      <4> HIDE DEF D, Next1
      <4>1. QED BY <3>1
    <3>3. Step[<<o, k>>] \in D
      <4> HIDE DEF D, Step
      <4>1. QED BY <1>3, <3>1
    <3> HIDE DEF Step, D, Next1
    <3>4. QED BY <2>6, <2>9, <3>2, <3>3
  <2>11. u \in Seq(1 .. n) /\ Len(u) = k /\ u[1] = i /\ \A a \in 2 .. k : u[a] = o[a - 1]
    <3>1. <<i>> \in Seq(1 .. n) /\ Len(<<i>>) = 1
      BY <2>8
    <3>2. QED BY ONLY n \in Nat, k \in 1 .. n, <2>1, <2>8, <2>9, <3>1
  <2>12. ToSet(u) = {i} \cup ToSet(o)
    <3>1. <<i>> \in Seq(1 .. n)
      BY <2>8
    <3>2. ToSet(<<i>> \o o) = ToSet(<<i>>) \cup ToSet(o)
      <4>1. PICK N, s : N = 1 .. n /\ s = <<i>>
        OBVIOUS
      <4>2. s \in Seq(N) /\ o \in Seq(N)
        BY <2>1, <3>1, <4>1
      <4>3. ToSet(s \o o) = ToSet(s) \cup ToSet(o)
        BY ONLY <4>2, ToSetConcat
      <4>4. QED BY ONLY <4>1, <4>3
    <3>3. ToSet(<<i>>) = {i}
      BY DEF ToSet
    <3>4. QED BY <2>9, <3>2, <3>3
  <2>13. Cardinality((1 .. n) \ ToSet(u)) = n - k
    <3>1. (1 .. n) \ ToSet(u) = S \ {i}
      BY <2>2, <2>12
    <3>2. Cardinality(S \ {i}) = Cardinality(S) - 1
      BY <2>3, <2>8, FS_RemoveElement
    <3>3. Cardinality((1 .. n) \ ToSet(u)) = Cardinality(S) - 1
      BY ONLY <3>1, <3>2
    <3>4. QED BY <2>3, <3>3
  <2>14. ASSUME NEW a \in 1 .. Len(u), NEW b \in 1 .. Len(u), a < b
         PROVE  <<w[u[b]], w[u[a]]>> \notin R
    <3>1. b \in 2 .. k /\ b - 1 \in 1 .. Len(o) /\ u[b] = o[b - 1]
      BY SMTT(30), <2>1, <2>11, <2>14
    <3>2. CASE a = 1
      <4>2. w[u[a]] = w[i] /\ u[b] = o[b - 1]
        BY <2>11, <3>1, <3>2
      <4>3. <<w[o[b - 1]], w[i]>> \notin R
        BY <2>1, <2>2, <2>8, <3>1
      <4>4. QED BY <4>2, <4>3
    <3>3. CASE a # 1
      <4>1. a \in 2 .. k /\ a - 1 \in 1 .. Len(o) /\ u[a] = o[a - 1] /\ a - 1 < b - 1
        BY <2>1, <2>11, <2>14, <3>1, <3>3
      <4>2. QED BY <2>1, <3>1, <4>1
    <3>4. QED BY <3>2, <3>3
  <2>15. ASSUME NEW b \in 1 .. Len(u), NEW j \in (1 .. n) \ ToSet(u)
         PROVE  <<w[u[b]], w[j]>> \notin R
    <3>1. j \in S /\ j \in (1 .. n) \ ToSet(o)
      BY <2>2, <2>12
    <3>2. CASE b = 1
      BY <2>8, <2>11, <3>1, <3>2
    <3>3. CASE b # 1
      <4>1. b \in 2 .. k /\ b - 1 \in 1 .. Len(o) /\ u[b] = o[b - 1]
        BY <2>1, <2>11, <2>15, <3>3
      <4>2. QED BY <2>1, <3>1, <4>1
    <3>4. QED BY <3>2, <3>3
  <2> HIDE DEF D
  <2>16. k \in 0 .. n
    OBVIOUS
  <2>17. u \in E[k]
    <3>1. u \in D /\ u \in Seq(1 .. n) /\ Len(u) = k
      BY <2>10, <2>11
    <3>2. \A b \in 1 .. Len(u) : \A j \in (1 .. n) \ ToSet(u) : <<w[u[b]], w[j]>> \notin R
      BY <2>15
    <3>3. \A a, b \in 1 .. Len(u) : a < b => <<w[u[b]], w[u[a]]>> \notin R
      BY <2>14
    <3>4. QED BY <2>13, <2>16, <3>1, <3>2, <3>3
  <2> HIDE DEF Step, E
  <2>18. QED BY <2>10, <2>17
<1>13. E \in [0 .. n -> SUBSET D]
  <2> HIDE DEF D
  <2>1. QED OBVIOUS
<1>14. f[1 .. n] \in E[n]
  <2> HIDE DEF D, E, Step
  <2>1. Folds(f, Step, D, n)
    BY ONLY <1>9 DEF Folds
  <2>2. Leads(Step, E, n)
    BY ONLY <1>12 DEF Leads
  <2>3. f[{}] \in E[0]
    BY ONLY <1>10, <1>11
  <2>4. n \in Nat /\ E \in [0 .. n -> SUBSET D]
    BY ONLY n \in Nat, <1>13
  <2>5. QED BY ONLY <2>1, <2>2, <2>3, <2>4, LeftFoldLeads
<1>15. PICK o : o = AscendingOrder(c) /\ o \in E[n]
  <2> HIDE DEF E
  <2>1. QED BY <1>7, <1>14
<1>16. /\ o \in Seq(1 .. n) /\ Cardinality((1 .. n) \ ToSet(o)) = 0
       /\ \A a, b \in 1 .. Len(o) : a < b => <<w[o[b]], w[o[a]]>> \notin R
  <2> HIDE DEF D
  <2>1. n \in 0 .. n
    OBVIOUS
  <2>2. /\ o \in Seq(1 .. n) /\ Cardinality((1 .. n) \ ToSet(o)) = n - n
        /\ \A a, b \in 1 .. Len(o) : a < b => <<w[o[b]], w[o[a]]>> \notin R
    BY <1>15, <2>1
  <2> HIDE DEF E
  <2>3. QED BY <2>2
<1>17. (1 .. n) \ ToSet(o) = {}
  <2>1. 1 \in Int /\ n \in Int
    OBVIOUS
  <2>2. IsFiniteSet(1 .. n)
    BY <2>1, FS_Interval
  <2>3. PICK S : S = (1 .. n) \ ToSet(o)
    OBVIOUS
  <2>4. IsFiniteSet(S)
    BY <2>2, <2>3, FS_Subset
  <2>5. QED BY <1>16, <2>3, <2>4, FS_EmptySet
<1>18. QED BY <1>1, <1>15, <1>16, <1>17 DEF AscendingAre

\* A wire drops to a lower row only where it collides with no other.
LEMMA DropFacts ==
    ASSUME NEW c, NEW less, NEW T, NEW row \in [T -> Nat], NEW net \in T
    PROVE  \E at \in Nat :
              /\ Drop(c, less, row, net) = [row EXCEPT ![net] = at]
              /\ Anchor(c, net) => at = 0
              /\ ~Anchor(c, net) => at <= row[net]
              /\ ~Anchor(c, net) /\ at # row[net] => \A other \in T :
                    ~Anchor(c, other) => ~DropCollision(c, less, row, net, at, other)
<1> DEFINE nonAnchors == {w \in DOMAIN row : ~Anchor(c, w)}
           free == {at \in 0 .. row[net] : at % 2 = 0 /\ \A other \in nonAnchors :
                                             ~DropCollision(c, less, row, net, at, other)}
           S == free \cup {row[net]}
<1>1. row[net] \in Nat /\ DOMAIN row = T
  OBVIOUS
<1>2. S \in SUBSET Nat /\ S # {} /\ \A x \in S : x <= row[net]
  BY <1>1
<1>3. Min(S) \in S /\ Min(S) \in Nat /\ Min(S) <= row[net]
  <2> HIDE DEF S
  <2>1. QED BY <1>2, MinIn
<1>4. PICK at : at = IF Anchor(c, net) THEN 0 ELSE Min(S)
  OBVIOUS
<1>5. Drop(c, less, row, net) = [row EXCEPT ![net] = at]
  BY <1>4 DEF Drop
<1>6. Min(S) # row[net] => \A other \in T :
          ~Anchor(c, other) => ~DropCollision(c, less, row, net, Min(S), other)
  <2>1. ASSUME NEW x \in S, x # row[net], NEW other \in T, ~Anchor(c, other)
        PROVE  ~DropCollision(c, less, row, net, x, other)
    BY <1>1, <2>1
  <2> HIDE DEF S
  <2>2. QED BY <1>3, <2>1
<1>7. at \in Nat
  <2> HIDE DEF S
  <2>1. QED BY <1>3, <1>4
<1>8. QED
  <2> HIDE DEF S
  <2>1. QED BY <1>3, <1>4, <1>5, <1>6, <1>7

\* Rows in which wires that share one are apart, and those that must be below others are.
Clear(c, T, row) ==
    /\ row \in [T -> Nat]
    /\ \A v, w \in T : ~Anchor(c, v) /\ ~Anchor(c, w) /\ v # w /\ row[v] = row[w]
                            => DisjointExtents(c, v, w)
    /\ \A v, w \in T : ~Anchor(c, v) /\ ~Anchor(c, w) /\ <<v, w>> \in Less(c)
                            => row[v] < row[w]

\* So are the rows of a channel, with the anchors in the lowest.
RowsAre(c, T, row) ==
    Clear(c, T, row) /\ \A v \in T : Anchor(c, v) => row[v] = 0

\* Dropping a wire leaves the rows so.
LEMMA DropClear ==
    ASSUME NEW c, Irreflexive(Less(c)), NEW T, NEW row, Clear(c, T, row), NEW net \in T
    PROVE  /\ Clear(c, T, Drop(c, Less(c), row, net))
           /\ Anchor(c, net) => Drop(c, Less(c), row, net)[net] = 0
           /\ \A v \in T : v # net => Drop(c, Less(c), row, net)[v] = row[v]
<1>1. row \in [T -> Nat]
  BY DEF Clear
<1>2. PICK at \in Nat :
         /\ Drop(c, Less(c), row, net) = [row EXCEPT ![net] = at]
         /\ Anchor(c, net) => at = 0
         /\ ~Anchor(c, net) => at <= row[net]
         /\ ~Anchor(c, net) /\ at # row[net] => \A other \in T :
               ~Anchor(c, other) => ~DropCollision(c, Less(c), row, net, at, other)
  BY <1>1, DropFacts
<1>3. PICK new : /\ new = Drop(c, Less(c), row, net) /\ new \in [T -> Nat] /\ new[net] = at
                 /\ \A v \in T : v # net => new[v] = row[v]
  BY <1>1, <1>2
<1>4. ASSUME at # row[net], ~Anchor(c, net), NEW w \in T, ~Anchor(c, w)
      PROVE  /\ row[w] = at => DisjointExtents(c, net, w)
             /\ <<w, net>> \in Less(c) => row[w] < at
  <2>1. ~DropCollision(c, Less(c), row, net, at, w)
    BY <1>2, <1>4
  <2>2. row[w] \in Nat
    BY <1>1
  <2>3. ~(at <= row[w] /\ <<w, net>> \in Less(c)) /\ ~(row[w] = at /\ ~DisjointExtents(c, net, w))
    BY <2>1 DEF DropCollision
  <2>4. QED BY <2>2, <2>3
<1>5. \A v, w : DisjointExtents(c, v, w) <=> DisjointExtents(c, w, v)
  BY DEF DisjointExtents
<1>6. ASSUME NEW v \in T, NEW w \in T, ~Anchor(c, v), ~Anchor(c, w), v # w, new[v] = new[w]
      PROVE  DisjointExtents(c, v, w)
  <2>1. CASE v # net /\ w # net
    BY <1>3, <1>6, <2>1 DEF Clear
  <2>2. CASE at = row[net]
    <3>1. new[v] = row[v] /\ new[w] = row[w]
      BY <1>3, <2>2
    <3>2. QED BY <1>6, <3>1 DEF Clear
  <2>3. CASE v = net /\ at # row[net]
    <3>1. row[w] = at
      BY <1>3, <1>6, <2>3
    <3>2. QED BY <1>4, <1>6, <2>3, <3>1
  <2>4. CASE w = net /\ at # row[net]
    <3>1. row[v] = at
      BY <1>3, <1>6, <2>4
    <3>2. DisjointExtents(c, w, v)
      BY <1>4, <1>6, <2>4, <3>1
    <3>3. QED BY <1>5, <3>2
  <2>5. QED BY <2>1, <2>2, <2>3, <2>4
<1>7. ASSUME NEW v \in T, NEW w \in T, ~Anchor(c, v), ~Anchor(c, w), <<v, w>> \in Less(c)
      PROVE  new[v] < new[w]
  <2>1. row[v] < row[w] /\ row[v] \in Nat /\ row[w] \in Nat
    BY <1>1, <1>7 DEF Clear
  <2>2. v # w
    BY <1>7 DEF Irreflexive
  <2>3. CASE v # net /\ w # net
    BY <1>3, <2>1, <2>3
  <2>4. CASE v = net
    <3>1. new[w] = row[w] /\ new[v] = at /\ at <= row[v]
      BY <1>2, <1>3, <1>7, <2>2, <2>4
    <3>2. QED BY <2>1, <3>1
  <2>5. CASE w = net
    <3>1. new[v] = row[v] /\ new[w] = at
      BY <1>3, <2>2, <2>5
    <3>2. CASE at = row[net]
      BY <2>1, <2>5, <3>1, <3>2
    <3>3. CASE at # row[net]
      BY <1>4, <1>7, <2>5, <3>1, <3>3
    <3>4. QED BY <3>2, <3>3
  <2>6. QED BY <2>3, <2>4, <2>5
<1>8. Clear(c, T, new)
  BY <1>3, <1>6, <1>7 DEF Clear
<1>9. QED BY <1>2, <1>3, <1>8

\* The code counts positions from the first one that fits.
Position(s, e) == SelectInSeq(s, LAMBDA u : u = e)

\* Where an element of a sequence first is.
LEMMA PositionFacts ==
    ASSUME NEW X, NEW s \in Seq(X), NEW e \in ToSet(s)
    PROVE  Position(s, e) \in 1 .. Len(s) /\ s[Position(s, e)] = e
<1>1. PICK I : I = {i \in 1 .. Len(s) : s[i] = e}
  OBVIOUS
<1>2. I \in SUBSET Nat /\ I # {}
  <2>1. DOMAIN s = 1 .. Len(s)
    OBVIOUS
  <2>2. QED BY <1>1, <2>1 DEF ToSet
<1>3. Min(I) \in I
  BY <1>2, MinIn
<1>4. Position(s, e) = Min(I)
  BY <1>1, <1>2 DEF Position, SelectInSeq
<1>5. QED BY <1>1, <1>3, <1>4

\* A wire in each row, in ascending order.
InitialRows(order) == [net \in ToSet(order) |-> 2 * (Position(order, net) - 1)]

\* There nothing collides yet.
LEMMA InitialClear ==
    ASSUME NEW c, Irreflexive(Less(c)), NEW n \in Nat, NEW w, w = tree.channels[c],
           DOMAIN w = 1 .. n, NEW o, AscendingAre(c, n, o),
           NEW order, order = [k \in DOMAIN o |-> w[o[k]]]
    PROVE  /\ order \in Seq(ToSet(w)) /\ ToSet(order) = ToSet(w)
           /\ Clear(c, ToSet(w), InitialRows(order))
<1>1. /\ o \in Seq(1 .. n) /\ Len(o) \in Nat /\ DOMAIN o = 1 .. Len(o)
      /\ \A i \in 1 .. n : i \in ToSet(o)
      /\ \A a, b \in 1 .. Len(o) : a < b => <<w[o[b]], w[o[a]]>> \notin Less(c)
      /\ \A k \in 1 .. Len(o) : o[k] \in 1 .. n
  BY DEF AscendingAre
<1>2. PICK T : T = ToSet(w)
  OBVIOUS
<1>3. \A i \in 1 .. n : w[i] \in T
  BY <1>2 DEF ToSet
<1>4. PICK m : m = Len(o) /\ m \in Nat
  BY <1>1
<1>5. order = [k \in 1 .. m |-> w[o[k]]] /\ \A k \in 1 .. m : order[k] \in T
  BY <1>1, <1>3, <1>4
<1>6. order \in Seq(T) /\ Len(order) = m
  <2>1. order = [k \in 1 .. m |-> order[k]] /\ \A k \in 1 .. m : order[k] \in T
    BY <1>5
  <2>2. order \in Seq(T)
    BY ONLY <1>4, <2>1, AsSequence
  <2>3. DOMAIN order = 1 .. m
    BY ONLY <2>1
  <2>4. QED BY ONLY <1>4, <2>2, <2>3
<1>7. ToSet(order) = T
  <2>1. \A v \in T : v \in ToSet(order)
    <3>1. ASSUME NEW v \in T PROVE v \in ToSet(order)
      <4>1. PICK i \in 1 .. n : v = w[i]
        BY <1>2 DEF ToSet
      <4>2. PICK k \in 1 .. m : o[k] = i
        BY <1>1, <1>4 DEF ToSet
      <4>3. k \in DOMAIN order /\ order[k] = v
        BY <1>5, <4>1, <4>2
      <4>4. QED BY <4>3 DEF ToSet
    <3>2. QED BY <3>1
  <2>2. \A v \in ToSet(order) : v \in T
    BY <1>5 DEF ToSet
  <2>3. QED BY <2>1, <2>2
<1>8. PICK row : row = InitialRows(order)
  OBVIOUS
<1>9. ASSUME NEW v \in T
      PROVE  /\ Position(order, v) \in 1 .. m /\ order[Position(order, v)] = v
             /\ row[v] = 2 * (Position(order, v) - 1)
  BY <1>6, <1>7, <1>8, PositionFacts DEF InitialRows
<1>10. row \in [T -> Nat]
  <2>1. \A v \in T : row[v] \in Nat
    <3>1. ASSUME NEW v \in T PROVE row[v] \in Nat
      <4>1. PICK p \in 1 .. m : p = Position(order, v) /\ row[v] = 2 * (p - 1)
        BY <1>9
      <4>2. QED BY <1>4, <4>1
    <3>2. QED BY <3>1
  <2>2. row = [v \in T |-> row[v]]
    BY <1>7, <1>8 DEF InitialRows
  <2>3. QED BY <2>1, <2>2
<1>11. ASSUME NEW v \in T, NEW u \in T, row[v] = row[u] PROVE v = u
  <2>1. Position(order, v) = Position(order, u)
    <3>1. PICK p \in 1 .. m : p = Position(order, v) /\ row[v] = 2 * (p - 1)
      BY <1>9
    <3>2. PICK q \in 1 .. m : q = Position(order, u) /\ row[u] = 2 * (q - 1)
      BY <1>9
    <3>3. 2 * (p - 1) = 2 * (q - 1)
      BY <1>11, <3>1, <3>2
    <3>4. p = q
      BY <1>4, <3>3
    <3>5. QED BY <3>1, <3>2, <3>4
  <2>2. QED BY <1>9, <2>1
<1>12. ASSUME NEW v \in T, NEW u \in T, <<v, u>> \in Less(c) PROVE row[v] < row[u]
  <2>1. PICK a, b \in 1 .. m : a = Position(order, v) /\ b = Position(order, u)
                              /\ v = order[a] /\ u = order[b]
    BY <1>9
  <2>2. a # b
    BY <1>12, <2>1 DEF Irreflexive
  <2>3. ~(b < a)
    <3>1. v = w[o[a]] /\ u = w[o[b]]
      BY <1>5, <2>1
    <3>2. QED BY <1>1, <1>4, <1>12, <3>1
  <2>4. row[v] = 2 * (a - 1) /\ row[u] = 2 * (b - 1)
    BY <1>9, <2>1
  <2>5. QED BY <1>4, <2>2, <2>3, <2>4
<1>13. Clear(c, T, row)
  BY <1>10, <1>11, <1>12 DEF Clear
<1>14. QED BY <1>2, <1>6, <1>7, <1>8, <1>13

\* The rows that computePositions gives a channel's wires.
LEMMA RowsFacts ==
    ASSUME TreeOK(tree), PlacementOK, Sound(tree), NEW c \in Channels, Ordered(c)
    PROVE  RowsAre(c, ToSet(tree.channels[c]), Rows(c))
<1>1. PICK w, n, T : /\ w = tree.channels[c] /\ n = Len(w) /\ n \in Nat /\ DOMAIN w = 1 .. n
                     /\ T = ToSet(w)
  <2>1. tree.channels[c] \in Seq(Vertices)
    BY TreeParts DEF TreeOK, Shaped, Channels
  <2>2. PICK w : w = tree.channels[c]
    OBVIOUS
  <2>3. w \in Seq(Vertices)
    BY <2>1, <2>2
  <2>4. Len(w) \in Nat /\ DOMAIN w = 1 .. Len(w)
    BY ONLY <2>3
  <2>5. QED BY <2>2, <2>4
<1>2. Transitive(Less(c)) /\ Irreflexive(Less(c))
  BY LessFacts
<1>3. PICK less, asc : less = Less(c) /\ asc = AscendingOrder(c)
  OBVIOUS
<1>4. AscendingAre(c, n, asc)
  BY <1>1, <1>2, <1>3, AscendingOrderFacts
<1>5. PICK order : order = [k \in DOMAIN asc |-> w[asc[k]]]
  OBVIOUS
<1>6. order \in Seq(T) /\ ToSet(order) = T /\ Clear(c, T, InitialRows(order))
  BY <1>1, <1>2, <1>4, <1>5, InitialClear
<1>7. PICK m, base : /\ m = Len(order) /\ m \in Nat /\ DOMAIN order = 1 .. m
                     /\ base = InitialRows(order) /\ base \in [T -> Nat]
                     /\ \A k \in 1 .. m : order[k] \in T
  BY <1>6 DEF Clear
<1> DEFINE D == [T -> Nat]
           Step == [a \in D \X (1 .. m) |-> Drop(c, less, a[1], order[a[2]])]
           Code(f) == [P \in SUBSET (1 .. m) |-> IF P = {} THEN base
                          ELSE Drop(c, less, f[P \ {Max(P)}], order[Max(P)])]
           E == [k \in 0 .. m |->
                    {row \in D : /\ Clear(c, T, row)
                                 /\ \A j \in 1 .. k : Anchor(c, order[j]) => row[order[j]] = 0}]
<1>8. Step \in [D \X (1 .. m) -> D]
  <2>1. ASSUME NEW row \in D, NEW k \in 1 .. m PROVE Drop(c, less, row, order[k]) \in D
    <3>1. PICK net : net = order[k] /\ net \in T
      BY <1>7
    <3>2. PICK at \in Nat : Drop(c, less, row, net) = [row EXCEPT ![net] = at]
      BY <3>1, DropFacts
    <3>3. QED BY <3>1, <3>2
  <2> HIDE DEF D
  <2>2. QED BY <2>1
<1>9. base \in D
  BY <1>7
<1>10. PICK it \in [SUBSET (1 .. m) -> D] : IsLeftFold(it, m, base, Step)
  <2> HIDE DEF Step, D
  <2>1. \E f \in [SUBSET (1 .. m) -> D] : IsLeftFold(f, m, base, Step)
    BY ONLY <1>7, <1>8, <1>9, LeftFoldExists
  <2>2. QED BY <2>1
<1>11. it = Code(it)
  <2> HIDE DEF D
  <2>1. ASSUME NEW P \in SUBSET (1 .. m)
        PROVE  it[P] = IF P = {} THEN base
                       ELSE Drop(c, less, it[P \ {Greatest(P)}], order[Greatest(P)])
    <3>1. it[P] = IF P = {} THEN base ELSE Step[<<it[P \ {Greatest(P)}], Greatest(P)>>]
      <4> HIDE DEF Step
      <4> QED BY <1>10 DEF IsLeftFold
    <3>2. ASSUME P # {} PROVE <<it[P \ {Greatest(P)}], Greatest(P)>> \in D \X (1 .. m)
      <4>1. Greatest(P) \in 1 .. m /\ P \ {Greatest(P)} \in SUBSET (1 .. m)
        BY <1>7, <3>2, GreatestFacts
      <4>2. QED BY <1>10, <4>1
    <3>3. QED BY <3>1, <3>2
  <2>2. it = [P \in SUBSET (1 .. m) |-> it[P]]
    <3> HIDE DEF Step
    <3> QED BY <1>10
  <2> HIDE DEF Step
  <2>3. it = [P \in SUBSET (1 .. m) |-> IF P = {} THEN base
                       ELSE Drop(c, less, it[P \ {Greatest(P)}], order[Greatest(P)])]
    BY ONLY <2>1, <2>2
  <2>4. QED BY ONLY <2>3 DEF Greatest, Max
<1>12. PICK f : Rows(c) = f[1 .. m] /\ f = Code(f)
  <2>1. Rows(c) = (CHOOSE f : f = Code(f))[1 .. m]
    BY SMTT(60), <1>1, <1>3, <1>5, <1>7 DEF Rows, FoldLeft, MapThenFoldSet, InitialRows, Position
  <2> HIDE DEF Code
  <2>2. (CHOOSE f : f = Code(f)) = Code(CHOOSE f : f = Code(f))
    BY <1>11
  <2>3. QED BY <2>1, <2>2
<1>13. ASSUME NEW P \in SUBSET (1 .. m)
       PROVE  f[P] = IF P = {} THEN base
                     ELSE Drop(c, less, f[P \ {Greatest(P)}], order[Greatest(P)])
  BY <1>12 DEF Greatest, Max
<1> HIDE DEF Code
<1>14. ASSUME NEW P \in SUBSET (1 .. m), P # {}, f[P \ {Greatest(P)}] \in D
       PROVE  f[P] = Step[<<f[P \ {Greatest(P)}], Greatest(P)>>]
  <2>1. Greatest(P) \in 1 .. m
    BY <1>7, <1>14, GreatestFacts
  <2>2. f[P] = Drop(c, less, f[P \ {Greatest(P)}], order[Greatest(P)])
    BY <1>13, <1>14
  <2> HIDE DEF D
  <2>3. QED BY <1>14, <2>1, <2>2
<1>15. f[{}] = base
  BY <1>13
<1>16. base \in E[0]
  <2>1. 0 \in 0 .. m /\ \A j \in 1 .. 0 : FALSE
    BY <1>7
  <2>2. Clear(c, T, base)
    BY <1>6, <1>7
  <2> HIDE DEF D
  <2>3. QED BY <1>9, <2>1, <2>2
<1>17. ASSUME NEW k \in 1 .. m, NEW row \in E[k - 1] PROVE Step[<<row, k>>] \in E[k]
  <2>1. k - 1 \in 0 .. m /\ k \in 0 .. m
    BY <1>7
  <2>2. /\ row \in D /\ Clear(c, T, row)
        /\ \A j \in 1 .. k - 1 : Anchor(c, order[j]) => row[order[j]] = 0
    <3> HIDE DEF D
    <3>1. PICK i \in 0 .. m : i = k - 1
      BY <2>1
    <3>2. row \in E[i]
      BY <1>17, <3>1
    <3>3. /\ row \in D /\ Clear(c, T, row)
          /\ \A j \in 1 .. i : Anchor(c, order[j]) => row[order[j]] = 0
      BY <3>2
    <3> HIDE DEF E
    <3>4. QED BY <3>1, <3>3
  <2>3. PICK net, new : net = order[k] /\ net \in T /\ new = Drop(c, less, row, net)
    BY <1>7
  <2>4. /\ Clear(c, T, new)
        /\ Anchor(c, net) => new[net] = 0
        /\ \A v \in T : v # net => new[v] = row[v]
    BY <1>2, <1>3, <2>2, <2>3, DropClear
  <2>5. Step[<<row, k>>] = new
    <3> HIDE DEF D
    <3>1. QED BY <2>2, <2>3
  <2>6. ASSUME NEW j \in 1 .. k, Anchor(c, order[j]) PROVE new[order[j]] = 0
    <3>1. j \in 1 .. m /\ order[j] \in T
      BY <1>7
    <3>2. CASE order[j] = net
      <4>1. Anchor(c, net)
        BY ONLY <2>6, <3>2
      <4>2. new[net] = 0
        BY <2>4, <4>1
      <4>3. QED BY ONLY <3>2, <4>2
    <3>3. CASE order[j] # net
      <4>1. j \in 1 .. k - 1
        BY <1>7, <2>3, <3>3
      <4>2. QED BY <2>2, <2>4, <2>6, <3>1, <3>3, <4>1
    <3>4. QED BY <3>2, <3>3
  <2>7. new \in D
    <3>1. Clear(c, T, new)
      BY <2>4
    <3>2. QED BY ONLY <3>1 DEF Clear
  <2> HIDE DEF D
  <2>8. new \in E[k]
    <3>1. Clear(c, T, new) /\ \A j \in 1 .. k : Anchor(c, order[j]) => new[order[j]] = 0
      BY <2>4, <2>6
    <3>2. k \in 0 .. m
      BY <2>1
    <3>3. QED BY ONLY <2>7, <3>1, <3>2
  <2> HIDE DEF Step, E
  <2>9. QED BY <2>5, <2>8
<1>18. E \in [0 .. m -> SUBSET D]
  <2> HIDE DEF D
  <2>1. QED OBVIOUS
<1>19. f[1 .. m] \in E[m]
  <2> HIDE DEF D, E, Step
  <2>1. Folds(f, Step, D, m)
    BY ONLY <1>14 DEF Folds
  <2>2. Leads(Step, E, m)
    BY ONLY <1>17 DEF Leads
  <2>3. f[{}] \in E[0]
    BY ONLY <1>15, <1>16
  <2>4. m \in Nat
    BY <1>7
  <2>5. QED BY ONLY <1>18, <2>1, <2>2, <2>3, <2>4, LeftFoldLeads
<1>20. PICK row : row = Rows(c) /\ row \in E[m]
  <2> HIDE DEF E
  <2>1. QED BY <1>12, <1>19
<1>21. Clear(c, T, row) /\ \A j \in 1 .. m : Anchor(c, order[j]) => row[order[j]] = 0
  <2> HIDE DEF D
  <2>1. m \in 0 .. m
    BY <1>7
  <2>2. QED BY <1>20, <2>1
<1>22. ASSUME NEW v \in T, Anchor(c, v) PROVE row[v] = 0
  <2>1. v \in ToSet(order)
    BY <1>6, <1>22
  <2>2. PICK j \in 1 .. m : v = order[j]
    BY <1>7, <2>1 DEF ToSet
  <2>3. QED BY <1>21, <1>22, <2>2
<1>23. QED BY <1>1, <1>20, <1>21, <1>22 DEF RowsAre

-----------------------------------------------------------------------------
(***************************************************************************)
(* Stacking: the layers and channels above each other.                      *)
(***************************************************************************)

\* The highest row in use.
LEMMA MaxRowFacts ==
    ASSUME NEW T, IsFiniteSet(T), NEW row \in [T -> Nat]
    PROVE  /\ MaxRow(row) \in Nat /\ \A v \in T : row[v] <= MaxRow(row)
           /\ (\A v \in T : row[v] = 0) => MaxRow(row) = 0
<1>1. PICK S : S = {row[v] : v \in T} \cup {0}
  OBVIOUS
<1>2. S \in SUBSET Nat /\ S # {} /\ 0 \in S /\ \A v \in T : row[v] \in S
  BY <1>1
<1>3. IsFiniteSet(S)
  <2>1. IsFiniteSet({row[v] : v \in T})
    BY ImageFinite
  <2>2. IsFiniteSet({row[v] : v \in T} \cup {0})
    BY <2>1, FS_AddElement
  <2>3. QED BY <1>1, <2>2
<1>4. PICK m \in S : \A k \in S : k <= m
  BY <1>2, <1>3, GreatestNumber
<1>5. Max(S) \in S /\ \A k \in S : k <= Max(S)
  <2>1. \A k \in S : m >= k
    BY <1>2, <1>4
  <2>2. Max(S) \in S /\ \A k \in S : Max(S) >= k
    BY <2>1 DEF Max
  <2>3. QED BY <1>2, <2>2
<1>6. MaxRow(row) = Max(S)
  <2>1. DOMAIN row = T
    OBVIOUS
  <2>2. QED BY <1>1, <2>1 DEF MaxRow, Range
<1>7. (\A v \in T : row[v] = 0) => S = {0}
  BY <1>1
<1>8. QED BY <1>2, <1>5, <1>6, <1>7

\* k layers that are stacked: the layers and the rows of the channels between them keep
\* their distances.
Stacks == [height : Nat, at : Seq(Nat), ypos : Seq(Nat), low : SUBSET Nodes]
Stacked(rows, k, s) ==
    /\ s \in Stacks /\ Len(s.ypos) = k /\ Len(s.at) = k + 1 /\ s.at[1] = 0
    /\ \A l \in 1 .. k :
          /\ s.at[l] + MaxRow(rows[l]) <= s.ypos[l]
          /\ l # 1 \/ NonAnchors(l) # {} => s.at[l] + MaxRow(rows[l]) < s.ypos[l]
          /\ s.ypos[l] + 2 <= s.at[l + 1]
          /\ NonAnchors(l + 1) # {} => s.ypos[l] + 3 <= s.at[l + 1]
    /\ s.at[k + 1] + MaxRow(rows[k + 1]) <= s.height
    /\ k # 0 \/ NonAnchors(1) # {} => s.at[k + 1] + MaxRow(rows[k + 1]) < s.height

\* Nothing but the lowest channel.
StackStart(rows) ==
    [height |-> IF NonAnchors(1) = {} THEN 0 ELSE MaxRow(rows[1]) + 1,
     at |-> <<0>>, ypos |-> <<>>, low |-> {}]

\* One layer more.
LEMMA StackMore ==
    ASSUME NEW rows, NEW k \in Nat, k # 0, NEW s, Stacked(rows, k - 1, s), NodesOf(k) \subseteq Nodes,
           \A c \in {k, k + 1} : MaxRow(rows[c]) \in Nat /\ (NonAnchors(c) = {} => MaxRow(rows[c]) = 0)
    PROVE  Stacked(rows, k, Stack(s, k, rows))
<1>1. PICK j \in Nat : j = k - 1 /\ k = j + 1
  OBVIOUS
<1>2. /\ s \in Stacks /\ Len(s.ypos) = j /\ Len(s.at) = k /\ s.at[1] = 0
      /\ \A l \in 1 .. j :
            /\ s.at[l] + MaxRow(rows[l]) <= s.ypos[l]
            /\ l # 1 \/ NonAnchors(l) # {} => s.at[l] + MaxRow(rows[l]) < s.ypos[l]
            /\ s.ypos[l] + 2 <= s.at[l + 1]
            /\ NonAnchors(l + 1) # {} => s.ypos[l] + 3 <= s.at[l + 1]
      /\ s.at[k] + MaxRow(rows[k]) <= s.height
      /\ j # 0 \/ NonAnchors(1) # {} => s.at[k] + MaxRow(rows[k]) < s.height
  BY <1>1 DEF Stacked
<1>3. PICK h, at, ypos, low : /\ h = s.height /\ at = s.at /\ ypos = s.ypos /\ low = s.low
                              /\ h \in Nat /\ at \in Seq(Nat) /\ ypos \in Seq(Nat)
                              /\ low \in SUBSET Nodes
  BY <1>2 DEF Stacks
<1>4. PICK y, a : /\ y = IF LowInvertersPossible(k, rows) THEN h ELSE h + 1
                  /\ a = IF NonAnchors(k + 1) = {} THEN y + 2 ELSE y + 3
  OBVIOUS
<1>5. y \in Nat /\ h <= y /\ a \in Nat /\ y + 2 <= a /\ (NonAnchors(k + 1) # {} => a = y + 3)
      /\ (NonAnchors(k + 1) = {} => a = y + 2)
  <2>1. y = h \/ y = h + 1
    BY <1>4
  <2>2. y \in Nat /\ h <= y
    BY <1>3, <2>1
  <2>3. CASE NonAnchors(k + 1) = {}
    <3>1. a = y + 2
      BY <1>4, <2>3
    <3>2. QED BY <2>2, <2>3, <3>1
  <2>4. CASE NonAnchors(k + 1) # {}
    <3>1. a = y + 3
      BY <1>4, <2>4
    <3>2. QED BY <2>2, <2>4, <3>1
  <2>5. QED BY <2>3, <2>4
<1>6. PICK t : t = Stack(s, k, rows)
  OBVIOUS
<1>7. PICK M, N : M = MaxRow(rows[k]) /\ N = MaxRow(rows[k + 1]) /\ M \in Nat /\ N \in Nat
                  /\ (NonAnchors(k + 1) = {} => N = 0)
  OBVIOUS
<1>8. PICK h1, low1 : /\ h1 = IF NonAnchors(k + 1) = {} THEN y + 3 ELSE y + 4 + N
                      /\ low1 = low \cup IF LowInvertersPossible(k, rows)
                                         THEN DisconnectedNodes(k, rows) ELSE {}
  OBVIOUS
<1>9. t = [height |-> h1, at |-> Append(at, a), ypos |-> Append(ypos, y), low |-> low1]
  BY <1>3, <1>4, <1>6, <1>7, <1>8 DEF Stack
<1>10. h1 \in Nat /\ a + N < h1
  BY <1>5, <1>7, <1>8
<1>11. low1 \in SUBSET Nodes
  <2>1. DisconnectedNodes(k, rows) \subseteq Nodes
    BY DEF DisconnectedNodes
  <2>2. QED BY <1>3, <1>8, <2>1
<1>12. PICK at1, ypos1 : /\ at1 = Append(at, a) /\ ypos1 = Append(ypos, y)
                         /\ at1 \in Seq(Nat) /\ ypos1 \in Seq(Nat)
                         /\ Len(at1) = k + 1 /\ Len(ypos1) = k /\ at1[k + 1] = a /\ ypos1[k] = y
                         /\ \A l \in 1 .. k : at1[l] = at[l]
                         /\ \A l \in 1 .. j : ypos1[l] = ypos[l]
  <2>1. Len(at) = k /\ Len(ypos) = j
    BY <1>2, <1>3
  <2>2. PICK at1 : at1 = Append(at, a)
    OBVIOUS
  <2>3. /\ at1 \in Seq(Nat) /\ Len(at1) = k + 1 /\ at1[k + 1] = a
        /\ \A l \in 1 .. k : at1[l] = at[l]
    BY ONLY k \in Nat, <1>3, <1>5, <2>1, <2>2
  <2>4. PICK ypos1 : ypos1 = Append(ypos, y)
    OBVIOUS
  <2>5. /\ ypos1 \in Seq(Nat) /\ Len(ypos1) = k /\ ypos1[k] = y
        /\ \A l \in 1 .. j : ypos1[l] = ypos[l]
    BY ONLY <1>1, <1>3, <1>5, <2>1, <2>4
  <2>6. QED BY <2>2, <2>3, <2>4, <2>5
<1>13. t.height = h1 /\ t.at = at1 /\ t.ypos = ypos1 /\ t \in Stacks
  BY <1>9, <1>10, <1>11, <1>12 DEF Stacks
<1>14. ASSUME NEW l \in 1 .. k
       PROVE  /\ at1[l] + MaxRow(rows[l]) <= ypos1[l]
              /\ l # 1 \/ NonAnchors(l) # {} => at1[l] + MaxRow(rows[l]) < ypos1[l]
              /\ ypos1[l] + 2 <= at1[l + 1]
              /\ NonAnchors(l + 1) # {} => ypos1[l] + 3 <= at1[l + 1]
  <2>1. CASE l \in 1 .. j
    <3>1. at1[l] = at[l] /\ ypos1[l] = ypos[l] /\ at1[l + 1] = at[l + 1]
      <4>1. l \in 1 .. k /\ l + 1 \in 1 .. k
        BY <1>1, <2>1
      <4>2. QED BY <1>12, <2>1, <4>1
    <3>2. QED BY <1>2, <1>3, <2>1, <3>1
  <2>2. CASE l = k
    <3>1. at1[l] = at[k] /\ ypos1[l] = y /\ at1[l + 1] = a
      BY <1>12, <2>2
    <3>2. at[k] \in Nat /\ MaxRow(rows[l]) = M
      <4>1. k \in 1 .. Len(at)
        BY <1>2, <1>3
      <4>2. QED BY <1>3, <1>7, <2>2, <4>1
    <3>3. at[k] + M <= h
      BY <1>2, <1>3, <1>7
    <3>4. l # 1 \/ NonAnchors(l) # {} => at[k] + M < h
      <4>1. l = 1 => j = 0
        BY <1>1, <2>2
      <4>2. l # 1 => j # 0
        BY <1>1, <2>2
      <4>3. QED BY <1>2, <1>3, <1>7, <2>2, <4>2
    <3>5. PICK x : x = at[k] /\ x \in Nat
      BY <3>2
    <3>y. M \in Nat /\ h \in Nat /\ y \in Nat /\ h <= y
      BY ONLY <1>3, <1>5, <1>7
    <3>x. x \in Nat /\ x + M <= h
      BY ONLY <3>3, <3>5
    <3>6. x + M <= y
      BY ONLY <3>x, <3>y
    <3>7. l # 1 \/ NonAnchors(l) # {} => x + M < y
      <4>1. x + M < h => x + M < y
        BY ONLY <3>x, <3>y
      <4>2. QED BY <3>4, <3>5, <4>1
    <3>8. NonAnchors(l + 1) # {} => y + 3 <= a
      <4>1. y + 3 = a => y + 3 <= a
        BY <1>5
      <4>2. QED BY <1>5, <2>2, <4>1
    <3>9. at1[l] + MaxRow(rows[l]) = x + M
      BY <3>1, <3>2, <3>5
    <3>10. QED BY <1>5, <3>1, <3>6, <3>7, <3>8, <3>9
  <2>3. l \in 1 .. j \/ l = k
    BY <1>1
  <2>4. QED BY <2>1, <2>2, <2>3
<1>15. at1[1] = 0
  BY <1>2, <1>3, <1>12
<1>16. at1[k + 1] + MaxRow(rows[k + 1]) <= h1 /\ at1[k + 1] + MaxRow(rows[k + 1]) < h1
  BY <1>5, <1>7, <1>10, <1>12
<1>17. Stacked(rows, k, t)
  BY <1>12, <1>13, <1>14, <1>15, <1>16 DEF Stacked
<1>18. QED BY <1>6, <1>17

\* What is stacked on a stack is one.
LEMMA StackTyped ==
    ASSUME NEW rows, NEW k \in Nat, NEW s \in Stacks, NodesOf(k) \subseteq Nodes,
           MaxRow(rows[k + 1]) \in Nat
    PROVE  Stack(s, k, rows) \in Stacks
<1>1. PICK h, at, ypos, low : /\ h = s.height /\ at = s.at /\ ypos = s.ypos /\ low = s.low
                              /\ h \in Nat /\ at \in Seq(Nat) /\ ypos \in Seq(Nat)
                              /\ low \in SUBSET Nodes
  BY DEF Stacks
<1>2. PICK y : y = IF LowInvertersPossible(k, rows) THEN h ELSE h + 1
  OBVIOUS
<1>3. y \in Nat
  BY <1>1, <1>2
<1>4. PICK a, h1, low1 :
         /\ a = IF NonAnchors(k + 1) = {} THEN y + 2 ELSE y + 3
         /\ h1 = IF NonAnchors(k + 1) = {} THEN y + 3 ELSE y + 4 + MaxRow(rows[k + 1])
         /\ low1 = low \cup IF LowInvertersPossible(k, rows)
                            THEN DisconnectedNodes(k, rows) ELSE {}
  OBVIOUS
<1>5. a \in Nat
  BY <1>3, <1>4
<1>6. h1 \in Nat
  BY <1>3, <1>4
<1>7. low1 \in SUBSET Nodes
  <2>1. DisconnectedNodes(k, rows) \subseteq Nodes
    BY DEF DisconnectedNodes
  <2>2. QED BY <1>1, <1>4, <2>1
<1>8. Append(at, a) \in Seq(Nat) /\ Append(ypos, y) \in Seq(Nat)
  BY <1>1, <1>3, <1>5
<1>9. Stack(s, k, rows) = [height |-> h1, at |-> Append(at, a), ypos |-> Append(ypos, y), low |-> low1]
  BY <1>1, <1>2, <1>4 DEF Stack
<1>10. QED BY <1>6, <1>7, <1>8, <1>9 DEF Stacks

\* All layers, as computeVertical's loop puts them.
StackAll(rows) ==
    FoldLeft(LAMBDA s, l : Stack(s, l, rows), StackStart(rows), [l \in Layers |-> l])

\* Rows that have a highest one, the lowest if all wires are anchors.
Measured(rows) ==
    \A c \in Channels : MaxRow(rows[c]) \in Nat /\ (NonAnchors(c) = {} => MaxRow(rows[c]) = 0)

\* computeVertical stacks all layers.
LEMMA StackFacts ==
    ASSUME TreeOK(tree), NEW rows, Measured(rows)
    PROVE  Stacked(rows, Len(tree.layers), StackAll(rows))
<1>1. PICK m : /\ m = Len(tree.layers) /\ m \in Nat /\ Layers = 1 .. m
               /\ Channels = 1 .. m + 1 /\ \A l \in 1 .. m : NodesOf(l) \subseteq Nodes
  <2>1. Len(tree.layers) \in Nat /\ Len(tree.channels) = Len(tree.layers) + 1
    BY TreeParts DEF TreeOK, Shaped
  <2>2. \A l \in Layers : NodesOf(l) \subseteq Nodes
    BY InLayer
  <2>3. QED BY <2>1, <2>2 DEF Layers, Channels
<1>2. \A c \in 1 .. m + 1 : MaxRow(rows[c]) \in Nat /\ (NonAnchors(c) = {} => MaxRow(rows[c]) = 0)
  BY <1>1 DEF Measured
<1>3. PICK base, order : base = StackStart(rows) /\ order = [l \in 1 .. m |-> l]
  OBVIOUS
<1> DEFINE Step == [a \in Stacks \X (1 .. m) |-> Stack(a[1], a[2], rows)]
           Code(f) == [P \in SUBSET (1 .. m) |-> IF P = {} THEN base
                          ELSE Stack(f[P \ {Max(P)}], order[Max(P)], rows)]
           E == [k \in 0 .. m |-> {s \in Stacks : Stacked(rows, k, s)}]
<1>4. ASSUME NEW s \in Stacks, NEW k \in 1 .. m PROVE Stack(s, k, rows) \in Stacks
  <2>1. k \in Nat /\ k + 1 \in 1 .. m + 1
    BY <1>1
  <2>2. QED BY <1>1, <1>2, <2>1, StackTyped
<1>5. Step \in [Stacks \X (1 .. m) -> Stacks]
  BY <1>4
<1>6. base \in Stacks /\ Stacked(rows, 0, base)
  <2>1. PICK h, M : h = base.height /\ M = MaxRow(rows[1]) /\ M \in Nat
                    /\ h = (IF NonAnchors(1) = {} THEN 0 ELSE M + 1)
                    /\ (NonAnchors(1) = {} => M = 0)
    <3>1. 1 \in 1 .. m + 1
      BY <1>1
    <3>2. QED BY <1>2, <1>3, <3>1 DEF StackStart
  <2>2. h \in Nat /\ 0 + M <= h /\ (NonAnchors(1) # {} => 0 + M < h)
    <3>1. CASE NonAnchors(1) = {}
      <4>1. h = 0 /\ M = 0
        BY <2>1, <3>1
      <4>2. QED BY <3>1, <4>1
    <3>2. CASE NonAnchors(1) # {}
      <4>1. h = M + 1
        BY <2>1, <3>2
      <4>2. QED BY <2>1, <4>1
    <3>3. QED BY <3>1, <3>2
  <2>3. base = [height |-> h, at |-> <<0>>, ypos |-> <<>>, low |-> {}]
    BY <1>3, <2>1 DEF StackStart
  <2>4. /\ base \in Stacks /\ Len(base.ypos) = 0 /\ Len(base.at) = 0 + 1 /\ base.at[1] = 0
        /\ base.at[0 + 1] = 0 /\ base.height = h
    BY <2>2, <2>3 DEF Stacks
  <2>5. MaxRow(rows[0 + 1]) = M
    BY <2>1
  <2>6. QED BY <2>2, <2>4, <2>5 DEF Stacked
<1>7. PICK it \in [SUBSET (1 .. m) -> Stacks] : IsLeftFold(it, m, base, Step)
  <2> HIDE DEF Step
  <2>1. m \in Nat /\ base \in Stacks
    BY <1>1, <1>6
  <2>2. \E f \in [SUBSET (1 .. m) -> Stacks] : IsLeftFold(f, m, base, Step)
    BY ONLY <1>5, <2>1, LeftFoldExists
  <2>3. QED BY <2>2
<1>8. it = Code(it)
  <2>1. ASSUME NEW P \in SUBSET (1 .. m)
        PROVE  it[P] = IF P = {} THEN base
                       ELSE Stack(it[P \ {Greatest(P)}], order[Greatest(P)], rows)
    <3>1. it[P] = IF P = {} THEN base ELSE Step[<<it[P \ {Greatest(P)}], Greatest(P)>>]
      <4> HIDE DEF Step
      <4> QED BY <1>7 DEF IsLeftFold
    <3>2. ASSUME P # {}
          PROVE  /\ <<it[P \ {Greatest(P)}], Greatest(P)>> \in Stacks \X (1 .. m)
                 /\ order[Greatest(P)] = Greatest(P)
      <4>1. Greatest(P) \in 1 .. m /\ P \ {Greatest(P)} \in SUBSET (1 .. m)
        BY <1>1, <3>2, GreatestFacts
      <4>2. QED BY <1>3, <1>7, <4>1
    <3>3. QED BY <3>1, <3>2
  <2>2. it = [P \in SUBSET (1 .. m) |-> it[P]]
    <3> HIDE DEF Step
    <3> QED BY <1>7
  <2> HIDE DEF Step
  <2>3. it = [P \in SUBSET (1 .. m) |-> IF P = {} THEN base
                       ELSE Stack(it[P \ {Greatest(P)}], order[Greatest(P)], rows)]
    BY ONLY <2>1, <2>2
  <2>4. QED BY ONLY <2>3 DEF Greatest, Max
<1>9. PICK f : StackAll(rows) = f[1 .. m] /\ f = Code(f)
  <2>1. DOMAIN order = 1 .. m
    BY <1>3
  <2>2. StackAll(rows) = (CHOOSE f : f = Code(f))[1 .. m]
    BY <1>1, <1>3, <2>1 DEF StackAll, FoldLeft, MapThenFoldSet
  <2> HIDE DEF Code
  <2>3. (CHOOSE f : f = Code(f)) = Code(CHOOSE f : f = Code(f))
    BY <1>8
  <2>4. QED BY <2>2, <2>3
<1>10. ASSUME NEW P \in SUBSET (1 .. m)
       PROVE  f[P] = IF P = {} THEN base
                     ELSE Stack(f[P \ {Greatest(P)}], order[Greatest(P)], rows)
  BY <1>9 DEF Greatest, Max
<1> HIDE DEF Code
<1>11. ASSUME NEW P \in SUBSET (1 .. m), P # {}, f[P \ {Greatest(P)}] \in Stacks
       PROVE  f[P] = Step[<<f[P \ {Greatest(P)}], Greatest(P)>>]
  <2>1. Greatest(P) \in 1 .. m
    BY <1>1, <1>11, GreatestFacts
  <2>2. f[P] = Stack(f[P \ {Greatest(P)}], Greatest(P), rows)
    BY <1>3, <1>10, <1>11, <2>1
  <2>3. QED BY <1>11, <2>1, <2>2
<1>12. f[{}] = base
  BY <1>10
<1>13. base \in E[0]
  <2>1. 0 \in 0 .. m
    BY <1>1
  <2>2. QED BY <1>6, <2>1
<1>14. ASSUME NEW k \in 1 .. m, NEW s \in E[k - 1] PROVE Step[<<s, k>>] \in E[k]
  <2>1. k - 1 \in 0 .. m /\ k \in 0 .. m /\ k \in Nat /\ k # 0 /\ k \in 1 .. m + 1 /\ k + 1 \in 1 .. m + 1
    BY <1>1
  <2>2. s \in Stacks /\ Stacked(rows, k - 1, s)
    <3>1. PICK i \in 0 .. m : i = k - 1
      BY <2>1
    <3>2. s \in E[i]
      BY <1>14, <3>1
    <3>3. s \in Stacks /\ Stacked(rows, i, s)
      BY <3>2
    <3>4. QED BY <3>1, <3>3
  <2>3. PICK new : new = Stack(s, k, rows)
    OBVIOUS
  <2>4. Stacked(rows, k, new)
    <3>1. \A c \in {k, k + 1} : MaxRow(rows[c]) \in Nat /\ (NonAnchors(c) = {} => MaxRow(rows[c]) = 0)
      BY <1>2, <2>1
    <3>2. NodesOf(k) \subseteq Nodes
      BY <1>1
    <3>3. QED BY <2>1, <2>2, <2>3, <3>1, <3>2, StackMore
  <2>5. new \in Stacks
    BY <2>4 DEF Stacked
  <2>6. Step[<<s, k>>] = new
    BY <2>2, <2>3
  <2>7. new \in E[k]
    BY <2>1, <2>4, <2>5
  <2> HIDE DEF Step, E
  <2>8. QED BY <2>6, <2>7
<1>15. E \in [0 .. m -> SUBSET Stacks]
  OBVIOUS
<1>16. f[1 .. m] \in E[m]
  <2> HIDE DEF E, Step
  <2>1. Folds(f, Step, Stacks, m)
    BY ONLY <1>11 DEF Folds
  <2>2. Leads(Step, E, m)
    BY ONLY <1>14 DEF Leads
  <2>3. f[{}] \in E[0]
    BY ONLY <1>12, <1>13
  <2>4. m \in Nat
    BY <1>1
  <2>5. QED BY ONLY <1>15, <2>1, <2>2, <2>3, <2>4, LeftFoldLeads
<1>17. m \in 0 .. m
  BY <1>1
<1>18. QED BY <1>1, <1>9, <1>16, <1>17

\* Layers that are stacked are above each other, with the channels between them.
LEMMA StackedApart ==
    ASSUME NEW rows, NEW m \in Nat, NEW s, Stacked(rows, m, s),
           \A c \in 1 .. m + 1 : MaxRow(rows[c]) \in Nat
    PROVE  /\ \A l \in 1 .. m : s.ypos[l] \in Nat
           /\ \A c \in 1 .. m + 1 : s.at[c] \in Nat
           /\ \A l \in 1 .. m : \A d \in 1 .. m + 1 : l < d => s.ypos[l] + 2 <= s.at[d]
           /\ \A l \in 1 .. m : \A c \in 1 .. m + 1 : c <= l =>
                  /\ s.at[c] + MaxRow(rows[c]) <= s.ypos[l]
                  /\ l # 1 => s.at[c] + MaxRow(rows[c]) < s.ypos[l]
           /\ m # 0 => s.at[m + 1] + MaxRow(rows[m + 1]) < s.height
           /\ s.height \in Nat
<1>1. PICK at, ypos : at = s.at /\ ypos = s.ypos
  OBVIOUS
<1>2. /\ at \in Seq(Nat) /\ ypos \in Seq(Nat) /\ Len(ypos) = m /\ Len(at) = m + 1
      /\ \A l \in 1 .. m :
            /\ at[l] + MaxRow(rows[l]) <= ypos[l]
            /\ l # 1 \/ NonAnchors(l) # {} => at[l] + MaxRow(rows[l]) < ypos[l]
            /\ ypos[l] + 2 <= at[l + 1]
      /\ m # 0 => at[m + 1] + MaxRow(rows[m + 1]) < s.height
      /\ s.height \in Nat
  BY <1>1 DEF Stacked, Stacks
<1>3. (\A l \in 1 .. m : ypos[l] \in Nat) /\ (\A c \in 1 .. m + 1 : at[c] \in Nat)
  <2>1. ypos \in Seq(Nat) /\ Len(ypos) = m
    BY <1>2
  <2>2. \A l \in 1 .. m : ypos[l] \in Nat
    BY ONLY <2>1
  <2>3. at \in Seq(Nat) /\ Len(at) = m + 1
    BY <1>2
  <2>4. \A c \in 1 .. m + 1 : at[c] \in Nat
    BY ONLY <2>3
  <2>5. QED BY <2>2, <2>4
<1> DEFINE Bad == {d \in 1 .. m + 1 : \E l \in 1 .. m : l < d /\ ~(ypos[l] + 2 <= at[d])}
<1>4. Bad = {}
  <2>1. ASSUME NEW d \in Bad PROVE \E k \in Bad : k < d
    <3>1. PICK l \in 1 .. m : l < d /\ ~(ypos[l] + 2 <= at[d])
      OBVIOUS
    <3>2. d # l + 1
      BY <1>2, <3>1
    <3>3. PICK k : k = d - 1 /\ k \in 1 .. m /\ d = k + 1 /\ l < k /\ k \in 1 .. m + 1
      BY <3>1, <3>2
    <3>4. at[k] + MaxRow(rows[k]) <= ypos[k] /\ ypos[k] + 2 <= at[d]
      BY <1>2, <3>3
    <3>5. at[k] \in Nat /\ ypos[k] \in Nat /\ at[d] \in Nat /\ ypos[l] \in Nat /\ MaxRow(rows[k]) \in Nat
      BY <1>3, <3>3
    <3>6. ~(ypos[l] + 2 <= at[k])
      BY <3>1, <3>4, <3>5
    <3>7. k \in Bad /\ k < d
      BY <3>1, <3>3, <3>6
    <3> HIDE DEF Bad
    <3>8. QED BY <3>7
  <2>2. Bad \in SUBSET Nat
    OBVIOUS
  <2> HIDE DEF Bad
  <2>3. QED BY <2>1, <2>2, Descent
<1>5. ASSUME NEW l \in 1 .. m, NEW c \in 1 .. m + 1, c <= l
      PROVE  /\ at[c] + MaxRow(rows[c]) <= ypos[l]
             /\ l # 1 => at[c] + MaxRow(rows[c]) < ypos[l]
  <2>1. CASE c = l
    BY <1>2, <2>1
  <2>2. CASE c # l
    <3>1. c \in 1 .. m /\ l # 1 /\ c < l /\ l \in 1 .. m + 1
      BY <1>5, <2>2
    <3>2. at[c] + MaxRow(rows[c]) <= ypos[c] /\ at[l] + MaxRow(rows[l]) < ypos[l]
      BY <1>2, <3>1
    <3>3. ypos[c] + 2 <= at[l]
      BY <1>4, <3>1
    <3>4. /\ at[c] \in Nat /\ ypos[c] \in Nat /\ at[l] \in Nat /\ ypos[l] \in Nat
          /\ MaxRow(rows[c]) \in Nat /\ MaxRow(rows[l]) \in Nat
      BY <1>3, <3>1
    <3>5. QED BY <3>2, <3>3, <3>4
  <2>3. QED BY <2>1, <2>2
<1>6. \A l \in 1 .. m : \A d \in 1 .. m + 1 : l < d => ypos[l] + 2 <= at[d]
  BY <1>4
<1>7. QED BY <1>1, <1>2, <1>3, <1>5, <1>6

\* The wires of a channel are apart.
RowsApart(c) ==
    \A v, w \in ToSet(tree.channels[c]) :
        /\ geometry.y[c][v] \in Nat
        /\ v # w /\ ~Anchor(c, v) /\ ~Anchor(c, w) /\ geometry.y[c][v] = geometry.y[c][w]
              => DisjointExtents(c, v, w)
        /\ ~Anchor(c, v) /\ ~Anchor(c, w) /\ <<v, w>> \in Meeting(c)
              => geometry.y[c][v] < geometry.y[c][w]

\* The layers are above each other, with the channels between them.
LayersApart ==
    /\ geometry.height \in Nat
    /\ \A l \in Layers :
          /\ geometry.ypos[l] \in Nat
          /\ \A k \in Layers : l < k => geometry.ypos[l] + 2 < geometry.ypos[k]
          /\ geometry.ypos[l] + 2 < geometry.height
    /\ \A c \in Channels : \A v \in ToSet(tree.channels[c]) : \A l \in Layers :
          /\ c <= l => geometry.y[c][v] <= geometry.ypos[l]
          /\ c <= l /\ l # 1 => geometry.y[c][v] < geometry.ypos[l]
          /\ l < c => geometry.ypos[l] + 2 <= geometry.y[c][v]

\* What is right about rows and layers once they are computed.
GeometryOK == stage = "segments" => (\A c \in Channels : RowsApart(c)) /\ LayersApart

\* computeVertical puts rows and layers apart.
LEMMA ComputeVerticalApart ==
    ASSUME ModelOK, PlacementOK, StructureOK, ColumnsOK, ComputeVertical
    PROVE  GeometryOK'
<1>1. TreeOK(tree) /\ Sound(tree) /\ stage = "vertical"
  BY DEF ModelOK, StructureOK, ComputeVertical
<1>2. PICK rows, m : /\ rows = [c \in Channels |-> Rows(c)] /\ m = Len(tree.layers) /\ m \in Nat
                     /\ Layers = 1 .. m /\ Channels = 1 .. m + 1
  <2>1. Len(tree.layers) \in Nat /\ Len(tree.channels) = Len(tree.layers) + 1
    BY <1>1, TreeParts DEF TreeOK, Shaped
  <2>2. QED BY <2>1 DEF Layers, Channels
<1>3. ASSUME NEW c \in Channels
      PROVE  /\ RowsAre(c, ToSet(tree.channels[c]), rows[c])
             /\ rows[c] \in [ToSet(tree.channels[c]) -> Nat]
             /\ MaxRow(rows[c]) \in Nat
             /\ \A v \in ToSet(tree.channels[c]) : rows[c][v] \in Nat /\ rows[c][v] <= MaxRow(rows[c])
             /\ NonAnchors(c) = {} => MaxRow(rows[c]) = 0
  <2>1. Ordered(c)
    BY <1>1 DEF ColumnsOK
  <2>2. PICK T, row : T = ToSet(tree.channels[c]) /\ row = Rows(c) /\ row = rows[c]
    BY <1>2
  <2>3. RowsAre(c, T, row)
    BY <1>1, <2>1, <2>2, RowsFacts
  <2>4. row \in [T -> Nat] /\ \A v \in T : Anchor(c, v) => row[v] = 0
    BY <2>3 DEF RowsAre, Clear
  <2>5. IsFiniteSet(T)
    <3>1. tree.channels[c] \in Seq(Vertices)
      BY <1>1, TreeParts DEF TreeOK, Shaped, Channels
    <3>2. T \in SUBSET Vertices
      BY <2>2, <3>1 DEF ToSet
    <3>3. QED BY <3>2, VerticesFinite, FS_Subset
  <2>6. /\ MaxRow(row) \in Nat /\ \A v \in T : row[v] <= MaxRow(row)
        /\ (\A v \in T : row[v] = 0) => MaxRow(row) = 0
    BY <2>4, <2>5, MaxRowFacts
  <2>7. NonAnchors(c) = {} => \A v \in T : Anchor(c, v)
    BY <2>2 DEF NonAnchors
  <2>8. \A v \in T : row[v] \in Nat
    BY <2>4
  <2>9. QED BY <2>2, <2>3, <2>4, <2>6, <2>7, <2>8
<1>4. Measured(rows)
  BY <1>3 DEF Measured
<1>5. PICK s : s = StackAll(rows) /\ Stacked(rows, m, s)
  BY <1>1, <1>2, <1>4, StackFacts
<1>6. geometry' = [height |-> s.height, ypos |-> s.ypos, low |-> s.low,
                   y |-> [c \in Channels |-> [net \in DOMAIN rows[c] |-> s.at[c] + rows[c][net]]]]
  <2>1. PICK r \in {[c \in Channels |-> Rows(c)]} :
           geometry' = [height |-> StackAll(r).height, ypos |-> StackAll(r).ypos, low |-> StackAll(r).low,
                        y |-> [c \in Channels |-> [net \in DOMAIN r[c] |-> StackAll(r).at[c] + r[c][net]]]]
    BY DEF ComputeVertical, StackAll, StackStart
  <2>2. r = rows
    BY <1>2
  <2>3. QED BY <1>5, <2>1, <2>2
<1>7. /\ geometry'.height = s.height /\ geometry'.ypos = s.ypos
      /\ \A c \in Channels : \A v \in ToSet(tree.channels[c]) :
            geometry'.y[c][v] = s.at[c] + rows[c][v]
  <2>1. \A c \in Channels : DOMAIN rows[c] = ToSet(tree.channels[c])
    BY <1>3
  <2>2. QED BY <1>6, <2>1
<1>8. /\ \A l \in Layers : s.ypos[l] \in Nat
      /\ \A c \in Channels : s.at[c] \in Nat
      /\ \A l \in Layers : \A d \in Channels : l < d => s.ypos[l] + 2 <= s.at[d]
      /\ \A l \in Layers : \A c \in Channels : c <= l =>
             /\ s.at[c] + MaxRow(rows[c]) <= s.ypos[l]
             /\ l # 1 => s.at[c] + MaxRow(rows[c]) < s.ypos[l]
      /\ m # 0 => s.at[m + 1] + MaxRow(rows[m + 1]) < s.height
      /\ s.height \in Nat
  <2>1. \A c \in 1 .. m + 1 : MaxRow(rows[c]) \in Nat
    BY <1>2, <1>3
  <2>2. QED BY ZenonT(30), <1>2, <1>5, <2>1, StackedApart
<1>9. /\ \A c, v : Anchor(c, v)' = Anchor(c, v)
      /\ \A c : Meeting(c)' = Meeting(c)
      /\ \A c, v, w : DisjointExtents(c, v, w)' = DisjointExtents(c, v, w)
      /\ tree' = tree /\ Channels' = Channels /\ Layers' = Layers
  <2>1. tree' = tree /\ col' = col /\ bottom' = bottom
    BY DEF ComputeVertical, model
  <2>2. \A c : FromBelow(c)' = FromBelow(c) /\ FromAbove(c)' = FromAbove(c)
    BY <2>1 DEF FromBelow, FromAbove, NodesOf
  <2>3. \A c, v : ColumnsOf(c, v)' = ColumnsOf(c, v)
    BY <2>2 DEF ColumnsOf
  <2>4. QED BY <2>1, <2>2, <2>3 DEF Anchor, Meeting, DisjointExtents, Channels, Layers
<1>10. ASSUME NEW c \in Channels PROVE RowsApart(c)'
  <2>1. PICK T, row, y, a : /\ T = ToSet(tree.channels[c]) /\ row = rows[c] /\ y = geometry'.y[c]
                            /\ a = s.at[c] /\ a \in Nat
    BY <1>8
  <2>2. \A v \in T : y[v] = a + row[v] /\ row[v] \in Nat
    BY <1>3, <1>7, <2>1
  <2>3. /\ \A v, w \in T : ~Anchor(c, v) /\ ~Anchor(c, w) /\ v # w /\ row[v] = row[w]
                            => DisjointExtents(c, v, w)
        /\ \A v, w \in T : ~Anchor(c, v) /\ ~Anchor(c, w) /\ <<v, w>> \in Less(c)
                            => row[v] < row[w]
    BY <1>3, <2>1 DEF RowsAre, Clear
  <2>4. Meeting(c) \subseteq Less(c)
    BY <1>1, LessFacts
  <2>5. ASSUME NEW v \in T, NEW w \in T
        PROVE  /\ y[v] \in Nat
               /\ v # w /\ ~Anchor(c, v) /\ ~Anchor(c, w) /\ y[v] = y[w] => DisjointExtents(c, v, w)
               /\ ~Anchor(c, v) /\ ~Anchor(c, w) /\ <<v, w>> \in Meeting(c) => y[v] < y[w]
    <3>1. PICK i, j \in Nat : i = row[v] /\ j = row[w] /\ y[v] = a + i /\ y[w] = a + j
      BY <2>2
    <3>2. y[v] \in Nat /\ (y[v] = y[w] => i = j) /\ (i < j => y[v] < y[w])
      <4>1. a \in Nat
        BY <2>1
      <4>2. QED BY ONLY <3>1, <4>1
    <3>3. QED BY <2>3, <2>4, <3>1, <3>2
  <2>6. ToSet(tree'.channels[c]) = T
    BY <1>9, <2>1
  <2>7. QED BY <1>9, <2>1, <2>5, <2>6 DEF RowsApart
<1>11. LayersApart'
  <2>1. ASSUME NEW l \in Layers
        PROVE  /\ geometry'.ypos[l] \in Nat
               /\ \A k \in Layers : l < k => geometry'.ypos[l] + 2 < geometry'.ypos[k]
               /\ geometry'.ypos[l] + 2 < geometry'.height
    <3>1. geometry'.ypos[l] = s.ypos[l] /\ s.ypos[l] \in Nat
      BY <1>7, <1>8
    <3>2. ASSUME NEW k \in Layers, l < k PROVE s.ypos[l] + 2 < s.ypos[k]
      <4>1. k \in Channels /\ k # 1 /\ k <= k
        BY <1>2, <3>2
      <4>2. s.ypos[l] + 2 <= s.at[k] /\ s.at[k] + MaxRow(rows[k]) < s.ypos[k]
        BY <1>8, <3>2, <4>1
      <4>3. s.at[k] \in Nat /\ s.ypos[k] \in Nat /\ MaxRow(rows[k]) \in Nat
        BY <1>3, <1>8, <4>1
      <4>4. QED BY <3>1, <4>2, <4>3
    <3>3. s.ypos[l] + 2 < s.height
      <4>1. m + 1 \in Channels /\ l < m + 1 /\ m # 0
        BY <1>2
      <4>2. s.ypos[l] + 2 <= s.at[m + 1] /\ s.at[m + 1] + MaxRow(rows[m + 1]) < s.height
        BY <1>8, <4>1
      <4>3. s.at[m + 1] \in Nat /\ MaxRow(rows[m + 1]) \in Nat /\ s.height \in Nat
        BY <1>3, <1>8, <4>1
      <4>4. QED BY <3>1, <4>2, <4>3
    <3>4. QED BY <1>7, <3>1, <3>2, <3>3
  <2>2. ASSUME NEW c \in Channels, NEW v \in ToSet(tree.channels[c]), NEW l \in Layers
        PROVE  /\ c <= l => geometry'.y[c][v] <= geometry'.ypos[l]
               /\ c <= l /\ l # 1 => geometry'.y[c][v] < geometry'.ypos[l]
               /\ l < c => geometry'.ypos[l] + 2 <= geometry'.y[c][v]
    <3>1. PICK a, r, M, p \in Nat : /\ a = s.at[c] /\ r = rows[c][v] /\ M = MaxRow(rows[c])
                                    /\ p = s.ypos[l] /\ r <= M
      BY <1>3, <1>8
    <3>2. geometry'.y[c][v] = a + r /\ geometry'.ypos[l] = p
      BY <1>7, <3>1
    <3>3. /\ c <= l => a + M <= p
          /\ c <= l /\ l # 1 => a + M < p
          /\ l < c => p + 2 <= a
      BY <1>8, <3>1
    <3>4. QED BY <3>1, <3>2, <3>3
  <2>3. geometry'.height \in Nat
    BY <1>7, <1>8
  <2>4. QED BY <1>9, <2>1, <2>2, <2>3 DEF LayersApart
<1>12. QED BY <1>9, <1>10, <1>11 DEF GeometryOK

\* Where nothing changes wires stay apart.
LEMMA GeometryKept ==
    ASSUME GeometryOK, UNCHANGED <<stage, tree, col, bottom, geometry>>
    PROVE  GeometryOK'
<1>1. \A c : FromBelow(c)' = FromBelow(c) /\ FromAbove(c)' = FromAbove(c)
  BY DEF FromBelow, FromAbove, NodesOf
<1>2. \A c, v : ColumnsOf(c, v)' = ColumnsOf(c, v)
  BY <1>1 DEF ColumnsOf
<1>3. /\ \A c, v : Anchor(c, v)' = Anchor(c, v)
      /\ \A c : Meeting(c)' = Meeting(c)
      /\ \A c, v, w : DisjointExtents(c, v, w)' = DisjointExtents(c, v, w)
  BY <1>1, <1>2 DEF Anchor, Meeting, DisjointExtents
<1>4. \A c : RowsApart(c)' <=> RowsApart(c)
  BY <1>3 DEF RowsApart
<1>5. LayersApart' <=> LayersApart
  BY DEF LayersApart, Layers, Channels
<1>6. QED BY <1>4, <1>5 DEF GeometryOK, Channels

\* Every step of the transformation keeps the rows and layers apart.
LEMMA GeometryStep ==
    ASSUME SynthesisOK, StructureOK, ColumnsOK, GeometryOK, [Next]_vars
    PROVE  GeometryOK'
<1>1. ModelOK /\ PlacementOK
  BY DEF SynthesisOK
<1>2. ASSUME stage' # "segments" PROVE GeometryOK'
  BY <1>2 DEF GeometryOK
<1>3. CASE CreateModel
  <2>1. ModelNext
    BY <1>3 DEF CreateModel
  <2>2. {stage, stage'} \subseteq {"bottom", "layers", "top"}
    BY <2>1, ModelStages
  <2>3. QED BY <1>2, <2>2
<1>4. CASE ComputeSpatial
  <2>1. CASE PreComputeSpatial
    BY <1>2, <2>1 DEF PreComputeSpatial
  <2>2. CASE PlaceNode
    BY <1>2, <2>2 DEF PlaceNode
  <2>3. CASE PlaceBottomWires
    BY <1>2, <2>3 DEF PlaceBottomWires
  <2>4. CASE ComputeVertical
    BY <1>1, <2>4, ComputeVerticalApart
  <2>5. QED BY <1>4, <2>1, <2>2, <2>3, <2>4 DEF ComputeSpatial
<1>5. CASE FixBrokenLinks
  <2>1. CASE SplitBroken
    BY <1>2, <2>1 DEF SplitBroken, NewModel
  <2>2. CASE CreateSegments
    BY <1>2, <2>2 DEF CreateSegments
  <2>3. CASE BeginConnection
    BY <1>2, <2>3 DEF BeginConnection
  <2>4. ASSUME NEW evaluated, PlaceRepeater(evaluated) PROVE GeometryOK'
    BY <1>2, <2>4 DEF PlaceRepeater
  <2>5. ASSUME NEW evaluated, GiveUpConnection(evaluated) PROVE GeometryOK'
    BY <1>2, <2>5 DEF GiveUpConnection
  <2>6. ASSUME NEW evaluated, Abort(evaluated) PROVE GeometryOK'
    BY <1>2, <2>6 DEF Abort
  <2>7. CASE FinishRepair
    BY <1>2, <2>7 DEF FinishRepair
  <2>8. QED
    BY <1>5, <2>1, <2>2, <2>3, <2>4, <2>5, <2>6, <2>7 DEF FixBrokenLinks, FixConnection
<1>6. CASE BGTree
  <2>1. CASE ToBlocks
    BY <1>2, <2>1 DEF ToBlocks
  <2>2. CASE Test
    BY <1>2, <2>2 DEF Test
  <2>3. CASE ExtendTest
    <3>1. UNCHANGED <<stage, tree, col, bottom, geometry>>
      BY <2>3 DEF ExtendTest, model, placement
    <3>2. QED BY <3>1, GeometryKept
  <2>4. CASE FinishTest
    <3>1. UNCHANGED <<stage, tree, col, bottom, geometry>>
      BY <2>4 DEF FinishTest, model, placement
    <3>2. QED BY <3>1, GeometryKept
  <2>5. CASE FinishBlocks
    BY <1>2, <2>5 DEF FinishBlocks
  <2>6. QED BY <1>6, <2>1, <2>2, <2>3, <2>4, <2>5 DEF BGTree
<1>7. CASE UNCHANGED vars
  <2>1. UNCHANGED <<stage, tree, col, bottom, geometry>>
    BY <1>7 DEF vars, model, placement
  <2>2. QED BY <2>1, GeometryKept
<1>8. QED BY <1>3, <1>4, <1>5, <1>6, <1>7 DEF Next, Done

-----------------------------------------------------------------------------
(***************************************************************************)
(* The wires: where they are once everything has been computed.             *)
(***************************************************************************)

\* What holds once columns, rows and layers have been computed.
Settled == SynthesisOK /\ StructureOK /\ ColumnsOK /\ GeometryOK /\ stage = "segments"

\* A node has its layer, and its nets have wires in the channels below and above.
Standing(n) ==
    /\ n \in DOMAIN col /\ col[n] \in Nat
    /\ LayerOf(tree, n) \in Layers /\ LayerOf(tree, n) \in Channels
    /\ LayerOf(tree, n) + 1 \in Channels
    /\ tree.nodes[n].in \in ToSet(tree.channels[LayerOf(tree, n)])
    /\ tree.nodes[n].out \in ToSet(tree.channels[LayerOf(tree, n) + 1])
    /\ ~tree.nodes[n].invert => tree.nodes[n].in = tree.nodes[n].out

\* What reads a node's net above it, or drives it beside it.
LEMMA GoesOn ==
    ASSUME Settled, NEW n \in Nodes
    PROVE  /\ Standing(n)
           /\ \/ \E k \in Nodes : /\ LayerOf(tree, k) = LayerOf(tree, n) + 1
                                  /\ tree.nodes[k].in = tree.nodes[n].out
              \/ \E k \in Nodes : /\ LayerOf(tree, k) = LayerOf(tree, n) /\ k # n
                                  /\ tree.nodes[k].out = tree.nodes[n].out
              \/ LayerOf(tree, n) = Len(tree.layers)
<1>1. /\ TreeOK(tree) /\ tree \in Trees /\ Homed(tree) /\ Reads(tree) /\ Hung(tree)
      /\ Sound(tree) /\ Through(tree) /\ Len(tree.channels) = Len(tree.layers) + 1
      /\ Len(tree.layers) \in Nat /\ n \in 1 .. Len(tree.nodes)
      /\ DOMAIN col = Nodes
      /\ \A p \in Places(tree) : GroupAt(tree, p).nodes # <<>>
  <2>1. TreeOK(tree) /\ Sound(tree) /\ Through(tree)
    BY DEF Settled, SynthesisOK, ModelOK, StructureOK
  <2>2. tree \in Trees
    BY <2>1 DEF TreeOK, Shaped
  <2>3. Len(tree.layers) \in Nat
    BY <2>2, TreeParts
  <2>4. DOMAIN col = Nodes /\ \A p \in Places(tree) : GroupAt(tree, p).nodes # <<>>
    BY DEF Settled, ColumnsOK
  <2>5. QED BY <2>1, <2>2, <2>3, <2>4 DEF TreeOK, Shaped, Nodes
<1>2. PICK l, p : l = LayerOf(tree, n) /\ p = PlaceOf(tree, n)
  OBVIOUS
<1>3. p \in Places(tree) /\ InGroup(tree, p, n) /\ l = p[1] /\ l \in 1 .. Len(tree.layers)
  BY <1>1, <1>2, HomeFacts
<1>4. /\ l \in Layers /\ l \in Channels /\ l + 1 \in Channels
  BY <1>1, <1>3 DEF Layers, Channels
<1>5. tree.nodes[n].in \in ToSet(tree.channels[l])
  <2>1. tree.nodes[n].in = GroupAt(tree, p).net
    BY <1>1, <1>3 DEF Reads
  <2>2. QED BY <1>1, <1>3, <2>1 DEF Sound
<1>6. Goes(n)
  <2>1. lower = <<>> /\ upper = <<>>
    BY DEF Settled, SynthesisOK, ModelOK, StagesOK
  <2>2. ToSet(lower) \cup ToSet(upper) = {}
    BY <2>1 DEF ToSet
  <2>3. ~Queued(n)
    BY <2>2 DEF Queued
  <2>4. ifaces = {} /\ ~Building
    BY DEF Settled, StructureOK, TopOK, Building
  <2>5. ~Offered(n)
    BY <2>4 DEF Offered
  <2>6. QED BY <1>1, <2>3, <2>5 DEF Settled, StructureOK, EndsOK
<1>7. /\ tree.nodes[n].out \in ToSet(tree.channels[l + 1])
      /\ \/ \E k \in Nodes : LayerOf(tree, k) = l + 1 /\ tree.nodes[k].in = tree.nodes[n].out
         \/ \E k \in Nodes : LayerOf(tree, k) = l /\ k # n /\ tree.nodes[k].out = tree.nodes[n].out
         \/ l = Len(tree.layers)
  <2>1. CASE Child(tree, n) # {}
    <3>1. PICK q \in Places(tree) : n # Bottom /\ GroupAt(tree, q).parent = n
      BY <2>1 DEF Child
    <3>2. l = q[1] - 1 /\ tree.nodes[n].out = GroupAt(tree, q).net
      BY <1>1, <1>2, <3>1 DEF Hung, NoParent, Bottom
    <3>3. q[1] \in Nat /\ GroupAt(tree, q).nodes \in Seq(Nat)
      BY <1>1, PlaceFacts
    <3>4. q[1] = l + 1
      BY <3>2, <3>3
    <3>5. GroupAt(tree, q).net \in ToSet(tree.channels[q[1]])
      BY <1>1 DEF Sound
    <3>6. PICK k : k = GroupAt(tree, q).nodes[1] /\ k \in ToSet(GroupAt(tree, q).nodes)
      <4>1. PICK s \in Seq(Nat) : s = GroupAt(tree, q).nodes /\ s # <<>>
        BY <1>1, <3>3
      <4>2. 1 \in DOMAIN s
        BY <4>1
      <4>3. QED BY <4>1, <4>2 DEF ToSet
    <3>7. InGroup(tree, q, k) /\ k \in 1 .. Len(tree.nodes)
      BY <1>1, <3>6, GroupNodes
    <3>8. LayerOf(tree, k) = q[1]
      BY <1>1, <3>7, HomeFacts
    <3>9. tree.nodes[k].in = GroupAt(tree, q).net
      BY <1>1, <3>7 DEF Reads
    <3>10. QED BY <3>2, <3>4, <3>5, <3>7, <3>8, <3>9 DEF Nodes
  <2>2. CASE Wired(tree, n) /\ (Sibling(tree, n) \/ l = Len(tree.layers))
    BY <1>2, <2>2 DEF Wired, Sibling, Nodes
  <2>3. QED BY <1>2, <1>6, <2>1, <2>2 DEF Goes, Onward, AtTop
<1>8. ~tree.nodes[n].invert => tree.nodes[n].in = tree.nodes[n].out
  BY <1>1 DEF Through
<1>9. n \in DOMAIN col /\ col[n] \in Nat
  BY <1>1 DEF Settled, SynthesisOK, PlacementOK
<1>10. QED BY <1>2, <1>4, <1>5, <1>7, <1>8, <1>9 DEF Standing

\* A bottom wire's net has a wire above it.
LEMMA BottomStands ==
    ASSUME Settled, NEW b \in 1 .. Len(tree.bottom)
    PROVE  /\ b \in DOMAIN bottom /\ bottom[b] \in Nat /\ 1 \in Channels /\ 1 \in Layers
           /\ tree.bottom[b].net \in ToSet(tree.channels[1])
           /\ UnderReader(b)
<1>1. b \in DOMAIN bottom /\ UnderReader(b)
  BY DEF Settled, ColumnsOK
<1>2. bottom[b] \in Nat
  BY <1>1 DEF Settled, SynthesisOK, PlacementOK
<1>3. PICK n \in Nodes : LayerOf(tree, n) = 1 /\ tree.nodes[n].in = tree.bottom[b].net
  BY <1>1 DEF UnderReader
<1>4. Standing(n)
  BY GoesOn
<1>5. QED BY <1>1, <1>2, <1>3, <1>4 DEF Standing

\* The columns in which a net crosses a channel are finitely many.
LEMMA ColumnsFinite ==
    ASSUME Settled, NEW c \in Channels, NEW v
    PROVE  IsFiniteSet(ColumnsOf(c, v))
<1>1. TreeOK(tree) /\ PlacementOK
  BY DEF Settled, SynthesisOK, ModelOK
<1>2. Len(tree.bottom) \in Nat /\ DOMAIN bottom = 1 .. Len(tree.bottom)
  <2>1. Len(tree.bottom) \in Nat
    BY <1>1, TreeParts DEF TreeOK, Shaped
  <2>2. QED BY <2>1 DEF Settled, ColumnsOK
<1>3. IsFiniteSet(DOMAIN bottom)
  BY <1>2, FS_Interval
<1>4. PICK S : S = FromBelow(c) \cup FromAbove(c) /\ IsFiniteSet(S)
  BY <1>1, <1>3, CrossersFinite, FS_Union
<1>5. PICK T : T = {q \in S : q[2] = v} /\ IsFiniteSet(T)
  <2>1. {q \in S : q[2] = v} \subseteq S
    OBVIOUS
  <2>2. QED BY <1>4, <2>1, FS_Subset
<1>6. PICK f : f = [p \in T |-> p[1]]
  OBVIOUS
<1>7. IsFiniteSet({f[p] : p \in T})
  BY ONLY <1>5, ImageFinite
<1>8. ColumnsOf(c, v) = {f[p] : p \in T}
  BY <1>4, <1>5, <1>6 DEF ColumnsOf
<1>9. QED BY <1>7, <1>8

\* Two crossers of a net in different columns: it needs a wire.
LEMMA TwoColumns ==
    ASSUME Settled, NEW c \in Channels, NEW v,
           NEW x \in ColumnsOf(c, v), NEW y \in ColumnsOf(c, v), x # y
    PROVE  ~Anchor(c, v)
<1>1. IsFiniteSet(ColumnsOf(c, v))
  BY ColumnsFinite
<1>2. {x, y} \subseteq ColumnsOf(c, v)
  OBVIOUS
<1>3. IsFiniteSet({x, y}) /\ Cardinality({x, y}) = 2
  <2>1. Cardinality({x}) = 1 /\ IsFiniteSet({x})
    BY FS_Singleton
  <2>2. PICK S, T : S = {x} /\ T = S \cup {y} /\ T = {x, y} /\ y \notin S
    <3>1. {x, y} = {x} \cup {y} /\ y \notin {x}
      OBVIOUS
    <3>2. QED BY <3>1
  <2>3. IsFiniteSet(S) /\ Cardinality(S) = 1
    BY <2>1, <2>2
  <2>4. IsFiniteSet(T) /\ Cardinality(T) = 2
    BY ONLY <2>2, <2>3, FS_AddElement
  <2>5. QED BY <2>2, <2>4
<1>4. Cardinality({x, y}) <= Cardinality(ColumnsOf(c, v)) /\ Cardinality(ColumnsOf(c, v)) \in Nat
  BY <1>1, <1>2, FS_Subset, FS_CardinalityType
<1>5. QED BY <1>3, <1>4 DEF Anchor

\* What crosses the channels below and above a node in its column.
LEMMA NodeCrosses ==
    ASSUME Settled, NEW n \in Nodes
    PROVE  /\ <<col[n], tree.nodes[n].in>> \in FromAbove(LayerOf(tree, n))
           /\ <<col[n], tree.nodes[n].out>> \in FromBelow(LayerOf(tree, n) + 1)
           /\ col[n] \in ColumnsOf(LayerOf(tree, n), tree.nodes[n].in)
           /\ col[n] \in ColumnsOf(LayerOf(tree, n) + 1, tree.nodes[n].out)
<1>1. Crossed /\ Standing(n)
  BY CrossedIs, GoesOn DEF Settled, SynthesisOK, ModelOK
<1>2. PICK l, d : /\ l = LayerOf(tree, n) /\ l \in Channels /\ d = l + 1 /\ d \in Channels
                  /\ l \in Nat /\ d - 1 = l /\ d # 1
  BY <1>1 DEF Standing, Layers
<1>3. <<col[n], tree.nodes[n].in>> \in FromAbove(l)
  BY <1>1, <1>2 DEF Crossed, CrossersOf, Standing
<1>4. <<col[n], tree.nodes[n].out>> \in FromBelow(d)
  BY <1>1, <1>2 DEF Crossed, CrossersOf, Standing
<1>5. ASSUME NEW c, NEW x, NEW v, <<x, v>> \in FromBelow(c) \cup FromAbove(c) PROVE x \in ColumnsOf(c, v)
  <2>1. PICK p \in FromBelow(c) \cup FromAbove(c) : p = <<x, v>>
    BY <1>5
  <2>2. p[1] = x /\ p[2] = v
    BY <2>1
  <2>3. QED BY <2>1, <2>2 DEF ColumnsOf
<1>6. col[n] \in ColumnsOf(l, tree.nodes[n].in) /\ col[n] \in ColumnsOf(d, tree.nodes[n].out)
  BY <1>3, <1>4, <1>5
<1>7. QED BY <1>2, <1>3, <1>4, <1>6

\* What crosses the lowest channel.
LEMMA BottomCrosses ==
    ASSUME Settled, NEW b \in 1 .. Len(tree.bottom)
    PROVE  bottom[b] \in ColumnsOf(1, tree.bottom[b].net)
<1>1. Crossed /\ 1 \in Channels /\ b \in DOMAIN bottom
  BY CrossedIs, BottomStands DEF Settled, SynthesisOK, ModelOK
<1>2. PICK p : p = <<bottom[b], tree.bottom[b].net>>
  OBVIOUS
<1>3. p \in FromBelow(1)
  BY <1>1, <1>2 DEF Crossed, CrossersOf
<1>4. p[1] = bottom[b] /\ p[2] = tree.bottom[b].net
  BY <1>2
<1>5. QED BY <1>3, <1>4 DEF ColumnsOf

\* Where a net crosses a channel, one of its vertical wires ends.
LEMMA CrossedBy ==
    ASSUME Settled, NEW c \in Channels, NEW v, NEW x \in ColumnsOf(c, v)
    PROVE  \/ \E n \in Nodes : LayerOf(tree, n) = c /\ col[n] = x /\ tree.nodes[n].in = v
           \/ \E n \in Nodes : LayerOf(tree, n) + 1 = c /\ col[n] = x /\ tree.nodes[n].out = v
           \/ c = 1 /\ \E b \in 1 .. Len(tree.bottom) : bottom[b] = x /\ tree.bottom[b].net = v
<1>1. CrossersOf(c)
  BY CrossedIs DEF Settled, SynthesisOK, ModelOK, Crossed
<1>2. PICK p \in FromBelow(c) \cup FromAbove(c) : p[1] = x /\ p[2] = v
  BY DEF ColumnsOf
<1>3. p = <<x, v>>
  BY <1>1, <1>2 DEF CrossersOf
<1>4. CASE <<x, v>> \in FromAbove(c)
  BY <1>1, <1>4 DEF CrossersOf
<1>5. CASE <<x, v>> \in FromBelow(c) /\ c # 1
  <2>1. PICK n \in Nodes : LayerOf(tree, n) = c - 1 /\ x = col[n] /\ v = tree.nodes[n].out
    BY <1>1, <1>5 DEF CrossersOf
  <2>2. LayerOf(tree, n) + 1 = c
    BY <2>1 DEF Channels
  <2>3. QED BY <2>1, <2>2
<1>6. CASE <<x, v>> \in FromBelow(c) /\ c = 1
  <2>1. DOMAIN bottom = 1 .. Len(tree.bottom)
    BY DEF Settled, ColumnsOK
  <2>2. QED BY <1>1, <1>6, <2>1 DEF CrossersOf
<1>7. QED BY <1>2, <1>3, <1>4, <1>5, <1>6

\* Where the output of a node and the input of another above it meet in a column, the
\* wire of the former is the lower one.
LEMMA Ascends ==
    ASSUME Settled, NEW n \in Nodes, NEW m \in Nodes, LayerOf(tree, m) = LayerOf(tree, n) + 1,
           col[n] = col[m], tree.nodes[n].out # tree.nodes[m].in
    PROVE  geometry.y[LayerOf(tree, m)][tree.nodes[n].out] < geometry.y[LayerOf(tree, m)][tree.nodes[m].in]
<1>1. PICK l, c, x, v, w : /\ l = LayerOf(tree, n) /\ c = LayerOf(tree, m) /\ x = col[n]
                           /\ v = tree.nodes[n].out /\ w = tree.nodes[m].in
  OBVIOUS
<1>2. /\ c = l + 1 /\ col[m] = x /\ v # w /\ Standing(n) /\ Standing(m)
      /\ l \in 1 .. Len(tree.layers) /\ c \in 1 .. Len(tree.layers) /\ c \in Channels
      /\ v \in ToSet(tree.channels[c]) /\ w \in ToSet(tree.channels[c])
  <2>1. Standing(n) /\ Standing(m)
    BY GoesOn
  <2>2. QED BY <1>1, <2>1 DEF Standing, Layers
<1>3. Spread /\ DOMAIN col = Nodes
  BY DEF Settled, ColumnsOK
<1>4. x \in ColumnsOf(c, v) /\ x \in ColumnsOf(c, w) /\ <<v, w>> \in Meeting(c)
  <2>1. <<x, w>> \in FromAbove(c) /\ <<x, v>> \in FromBelow(c)
        /\ x \in ColumnsOf(c, v) /\ x \in ColumnsOf(c, w)
    BY <1>1, <1>2, NodeCrosses
  <2>2. MeetingOf(c)
    BY <1>2, CrossedIs DEF Settled, SynthesisOK, ModelOK, Crossed
  <2>3. QED BY <1>2, <2>1, <2>2 DEF MeetingOf
<1>5. ~Anchor(c, v)
  <2>1. CASE \E k \in Nodes : LayerOf(tree, k) = l + 1 /\ tree.nodes[k].in = v
    <3>1. PICK k \in Nodes : LayerOf(tree, k) = c /\ tree.nodes[k].in = v
      BY <1>2, <2>1
    <3>2. col[k] \in ColumnsOf(c, v)
      BY <3>1, NodeCrosses
    <3>3. col[k] # x
      BY <1>1, <1>2, <1>3, <3>1 DEF Spread
    <3>4. QED BY <1>2, <1>4, <3>2, <3>3, TwoColumns
  <2>2. CASE \E k \in Nodes : LayerOf(tree, k) = l /\ k # n /\ tree.nodes[k].out = v
    <3>1. PICK k \in Nodes : LayerOf(tree, k) = l /\ k # n /\ tree.nodes[k].out = v
      BY <2>2
    <3>2. col[k] \in ColumnsOf(c, v)
      BY <1>2, <3>1, NodeCrosses
    <3>3. col[k] # x
      BY <1>1, <1>3, <3>1 DEF Spread
    <3>4. QED BY <1>2, <1>4, <3>2, <3>3, TwoColumns
  <2>3. l # Len(tree.layers)
    BY <1>2
  <2>4. QED BY <1>1, <2>1, <2>2, <2>3, GoesOn
<1>6. ~Anchor(c, w)
  <2>1. PICK p : p = PlaceOf(tree, m)
    OBVIOUS
  <2>2. /\ tree \in Trees /\ Homed(tree) /\ Reads(tree) /\ Hung(tree) /\ Sound(tree)
    BY DEF Settled, SynthesisOK, ModelOK, StructureOK, TreeOK, Shaped
  <2>3. p \in Places(tree) /\ InGroup(tree, p, m) /\ p[1] = c
    BY <1>1, <2>1, <2>2, HomeFacts DEF Nodes
  <2>4. GroupAt(tree, p).net = w
    BY <1>1, <2>2, <2>3 DEF Reads, Nodes
  <2>5. GroupAt(tree, p).parent # NoParent
    <3>1. c # 1
      BY <1>2
    <3>2. QED BY <2>2, <2>3, <3>1 DEF Sound
  <2>6. PICK k \in Nodes : LayerOf(tree, k) = c - 1 /\ tree.nodes[k].out = w
    BY <2>2, <2>3, <2>4, <2>5 DEF Hung, Nodes
  <2>7. LayerOf(tree, k) = l /\ k # n
    BY <1>1, <1>2, <2>6
  <2>8. col[k] \in ColumnsOf(c, w)
    BY <1>2, <2>6, <2>7, NodeCrosses
  <2>9. col[k] # x
    BY <1>1, <1>3, <2>7 DEF Spread
  <2>10. QED BY <1>2, <1>4, <2>8, <2>9, TwoColumns
<1>7. RowsApart(c)
  BY <1>2 DEF Settled, GeometryOK
<1>8. geometry.y[c][v] < geometry.y[c][w]
  BY <1>2, <1>4, <1>5, <1>6, <1>7 DEF RowsApart
<1>9. QED BY <1>1, <1>8

\* The blocks of a wire are between its stops.
LEMMA SpanFacts ==
    ASSUME NEW w, w.stops \in SUBSET Nat, IsFiniteSet(w.stops), w.stops # {}
    PROVE  /\ Span(w) \subseteq Nat /\ w.stops \subseteq Span(w)
           /\ \A a \in Nat : (\A s \in w.stops : a <= s) => \A s \in Span(w) : a <= s
           /\ \A a \in Nat : (\A s \in w.stops : s <= a) => \A s \in Span(w) : s <= a
<1>1. PICK S : S = w.stops
  OBVIOUS
<1>2. PICK lo : lo = Min(S) /\ lo \in S /\ \A s \in S : lo <= s
  BY <1>1, MinIn
<1>3. PICK hi : hi = Max(S) /\ hi \in S /\ \A s \in S : s <= hi
  <2>1. PICK n \in S : \A m \in S : m <= n
    BY <1>1, GreatestNumber
  <2>2. QED BY <2>1 DEF Max
<1>4. S \subseteq Nat /\ lo \in Nat /\ hi \in Nat /\ Span(w) = lo .. hi
  BY <1>1, <1>2, <1>3 DEF Span
<1>5. QED BY <1>1, <1>2, <1>3, <1>4

\* Where a wire of a node is: in its column, from the wire below that the node reads
\* to the one above that it drives.
NodeWire(w, n) ==
    LET l == LayerOf(tree, n)
        in == tree.nodes[n].in
        out == tree.nodes[n].out
    IN  /\ w.vertical /\ w.at = col[n] /\ Span(w) \subseteq Nat
        /\ \A s \in Span(w) : /\ geometry.y[l][in] <= s
                              /\ l # Len(tree.layers) => s <= geometry.y[l + 1][out]
        /\ \/ w.net = in /\ w.net = out
           \/ w.net = in /\ \A s \in Span(w) : s <= geometry.ypos[l]
           \/ w.net = out /\ \A s \in Span(w) : geometry.ypos[l] + 2 <= s

\* The numbers the wires of a node come from.
LEMMA NodeHeights ==
    ASSUME Settled, NEW n \in Nodes, NEW l, l = LayerOf(tree, n)
    PROVE  /\ geometry.y[l][tree.nodes[n].in] \in Nat /\ geometry.y[l + 1][tree.nodes[n].out] \in Nat
           /\ geometry.ypos[l] \in Nat
           /\ geometry.y[l][tree.nodes[n].in] <= geometry.ypos[l]
           /\ geometry.ypos[l] + 2 <= geometry.y[l + 1][tree.nodes[n].out]
           /\ geometry.ypos[l] + 2 < geometry.height /\ geometry.height \in Nat
<1>1. Standing(n)
  BY GoesOn
<1>2. PICK d : d = l + 1 /\ l \in Layers /\ l \in Channels /\ d \in Channels /\ l < d /\ l <= l
  BY <1>1 DEF Standing, Layers
<1>3. RowsApart(l) /\ RowsApart(d) /\ LayersApart
  BY <1>2 DEF Settled, GeometryOK
<1>4. PICK v, w : /\ v = tree.nodes[n].in /\ w = tree.nodes[n].out
                  /\ v \in ToSet(tree.channels[l]) /\ w \in ToSet(tree.channels[d])
  BY <1>1, <1>2 DEF Standing
<1>5. geometry.y[l][v] \in Nat /\ geometry.y[d][w] \in Nat
  BY <1>3, <1>4 DEF RowsApart
<1>6. /\ geometry.ypos[l] \in Nat /\ geometry.y[l][v] <= geometry.ypos[l]
      /\ geometry.ypos[l] + 2 <= geometry.y[d][w] /\ geometry.ypos[l] + 2 < geometry.height
      /\ geometry.height \in Nat
  BY <1>2, <1>3, <1>4 DEF LayersApart
<1>7. QED BY <1>2, <1>4, <1>5, <1>6

\* A wire that stops in two or three places.
LEMMA FewStops ==
    ASSUME NEW a \in Nat, NEW b \in Nat
    PROVE  /\ IsFiniteSet({a}) /\ IsFiniteSet({a, b})
           /\ \A S : S = {a, b} \/ (\E c : S = {a, b} \cup {c}) => IsFiniteSet(S)
<1>1. IsFiniteSet({a}) /\ IsFiniteSet({b}) /\ IsFiniteSet({}) /\ \A c : IsFiniteSet({c})
  BY FS_Singleton, FS_EmptySet
<1>2. {a, b} = {a} \cup {b}
  OBVIOUS
<1>3. IsFiniteSet({a} \cup {b})
  BY <1>1, FS_Union
<1>4. IsFiniteSet({a, b})
  BY <1>2, <1>3
<1>5. ASSUME NEW S, NEW c, S = {a, b} \cup {c} PROVE IsFiniteSet(S)
  <2>1. IsFiniteSet({a, b} \cup {c})
    BY <1>1, <1>4, FS_Union
  <2>2. QED BY <1>5, <2>1
<1>6. QED BY <1>1, <1>4, <1>5

\* The wires of a node are such wires: that of its input,
LEMMA InputWireIs ==
    ASSUME Settled, NEW n \in Nodes
    PROVE  /\ NodeWire(InputWire(n), n) /\ InputWire(n).stops \subseteq Span(InputWire(n))
<1>1. PICK w, l, v, u, y, z, p : /\ w = InputWire(n) /\ l = LayerOf(tree, n) /\ v = tree.nodes[n].in
                                 /\ u = tree.nodes[n].out /\ y = geometry.y[l][v]
                                 /\ z = geometry.y[l + 1][u] /\ p = geometry.ypos[l]
  OBVIOUS
<1>2. y \in Nat /\ z \in Nat /\ p \in Nat /\ y <= p /\ p + 2 <= z
  BY <1>1, NodeHeights
<1>3. w.vertical /\ w.at = col[n] /\ w.net = v /\ w.stops = {y, p}
  BY <1>1 DEF InputWire
<1>4. w.stops \in SUBSET Nat /\ IsFiniteSet(w.stops) /\ w.stops # {}
  <2>1. IsFiniteSet({y, p})
    BY <1>2, FewStops
  <2>2. QED BY <1>2, <1>3, <2>1
<1>5. /\ \A s \in w.stops : y <= s /\ s <= p
      /\ Span(w) \subseteq Nat /\ w.stops \subseteq Span(w)
      /\ \A a \in Nat : (\A s \in w.stops : a <= s) => \A s \in Span(w) : a <= s
      /\ \A a \in Nat : (\A s \in w.stops : s <= a) => \A s \in Span(w) : s <= a
  <2>1. \A s \in w.stops : y <= s /\ s <= p
    BY <1>2, <1>3
  <2>2. QED BY <1>4, <2>1, SpanFacts
<1>6. \A s \in Span(w) : y <= s /\ s <= p /\ s \in Nat
  BY <1>2, <1>5
<1>7. \A s \in Span(w) : s <= z
  BY <1>2, <1>6
<1>8. QED BY <1>1, <1>3, <1>5, <1>6, <1>7 DEF NodeWire

\* the one through a node that does not invert,
LEMMA PassThroughIs ==
    ASSUME Settled, NEW n \in Nodes, ~tree.nodes[n].invert
    PROVE  NodeWire(PassThrough(n), n)
<1>1. PICK w, l, v, u, y, z, p : /\ w = PassThrough(n) /\ l = LayerOf(tree, n) /\ v = tree.nodes[n].in
                                 /\ u = tree.nodes[n].out /\ y = geometry.y[l][v]
                                 /\ z = geometry.y[l + 1][u] /\ p = geometry.ypos[l]
  OBVIOUS
<1>2. y \in Nat /\ z \in Nat /\ p \in Nat /\ y <= p /\ p + 2 <= z /\ v = u
  <2>1. v = u
    BY <1>1, GoesOn DEF Standing
  <2>2. QED BY <1>1, <2>1, NodeHeights
<1>3. w.vertical /\ w.at = col[n] /\ w.net = v /\ w.stops = {p, p + 2}
  BY <1>1 DEF PassThrough
<1>4. w.stops \in SUBSET Nat /\ IsFiniteSet(w.stops) /\ w.stops # {}
  <2>1. p + 2 \in Nat
    BY <1>2
  <2>2. IsFiniteSet({p, p + 2})
    BY <1>2, <2>1, FewStops
  <2>3. QED BY <1>2, <1>3, <2>1, <2>2
<1>5. /\ \A s \in w.stops : y <= s /\ s <= z
      /\ Span(w) \subseteq Nat
      /\ \A a \in Nat : (\A s \in w.stops : a <= s) => \A s \in Span(w) : a <= s
      /\ \A a \in Nat : (\A s \in w.stops : s <= a) => \A s \in Span(w) : s <= a
  <2>1. \A s \in w.stops : y <= s /\ s <= z
    BY <1>2, <1>3
  <2>2. QED BY <1>4, <2>1, SpanFacts
<1>6. \A s \in Span(w) : y <= s /\ s <= z
  BY <1>2, <1>5
<1>7. QED BY <1>1, <1>2, <1>3, <1>5, <1>6 DEF NodeWire

\* and that of its output.
LEMMA OutputWireIs ==
    ASSUME Settled, NEW n \in Nodes
    PROVE  /\ NodeWire(OutputWire(n), n) /\ OutputWire(n).stops \subseteq Span(OutputWire(n))
<1>1. PICK w, l, v, u, y, z, p : /\ w = OutputWire(n) /\ l = LayerOf(tree, n) /\ v = tree.nodes[n].in
                                 /\ u = tree.nodes[n].out /\ y = geometry.y[l][v]
                                 /\ z = geometry.y[l + 1][u] /\ p = geometry.ypos[l]
  OBVIOUS
<1>2. PICK h \in Nat : /\ h = geometry.height - 1 /\ y \in Nat /\ z \in Nat /\ p \in Nat /\ y <= p
                       /\ p + 2 <= z /\ p + 2 <= h
  BY <1>1, NodeHeights
<1>3. TopAnchor(n) = {} \/ (TopAnchor(n) = {h} /\ l = Len(tree.layers))
  <2>1. CASE \E k \in 1 .. Len(tree.top) : tree.top[k].node = n
    BY <1>1, <1>2, <2>1 DEF TopAnchor, Settled, StructureOK, TopOK
  <2>2. CASE ~\E k \in 1 .. Len(tree.top) : tree.top[k].node = n
    BY <2>2 DEF TopAnchor
  <2>3. QED BY <2>1, <2>2
<1>4. w.vertical /\ w.at = col[n] /\ w.net = u /\ w.stops = {p + 2, z} \cup TopAnchor(n)
  BY <1>1 DEF OutputWire
<1>5. PICK q \in Nat : q = p + 2 /\ y <= q /\ q <= z /\ q <= h
  BY <1>2
<1>6. /\ w.stops = {q, z} \/ (l = Len(tree.layers) /\ w.stops = {q, z} \cup {h})
      /\ w.stops \in SUBSET Nat /\ w.stops # {}
      /\ \A s \in w.stops : q <= s /\ (l # Len(tree.layers) => s <= z)
  <2>1. w.stops = {q, z} \/ (l = Len(tree.layers) /\ w.stops = {q, z} \cup {h})
    BY <1>3, <1>4, <1>5
  <2>2. q \in Nat /\ z \in Nat /\ h \in Nat /\ q <= z /\ q <= h
    BY <1>2, <1>5
  <2>3. CASE w.stops = {q, z}
    BY ONLY <2>2, <2>3
  <2>4. CASE l = Len(tree.layers) /\ w.stops = {q, z} \cup {h}
    BY ONLY <2>2, <2>4
  <2>5. QED BY <2>1, <2>3, <2>4
<1>7. IsFiniteSet(w.stops)
  BY <1>2, <1>5, <1>6, FewStops
<1>8. /\ Span(w) \subseteq Nat /\ w.stops \subseteq Span(w)
      /\ \A a \in Nat : (\A s \in w.stops : a <= s) => \A s \in Span(w) : a <= s
      /\ \A a \in Nat : (\A s \in w.stops : s <= a) => \A s \in Span(w) : s <= a
  BY <1>6, <1>7, SpanFacts
<1>9. \A s \in Span(w) : q <= s /\ y <= s /\ (l # Len(tree.layers) => s <= z)
  <2>1. \A s \in Span(w) : q <= s /\ s \in Nat
    BY <1>6, <1>8
  <2>2. l # Len(tree.layers) => \A s \in Span(w) : s <= z
    BY <1>2, <1>6, <1>8
  <2>3. QED BY <1>2, <1>5, <2>1, <2>2
<1>10. QED BY <1>1, <1>4, <1>5, <1>8, <1>9 DEF NodeWire

\* Where a bottom wire is: below the wire of its net.
LowestWire(w, b) ==
    /\ w.vertical /\ w.at = bottom[b] /\ Span(w) \subseteq Nat
    /\ w.net = tree.bottom[b].net
    /\ \A s \in Span(w) : s <= geometry.y[1][tree.bottom[b].net]

\* The bottom wires are such wires.
LEMMA BottomWireIs ==
    ASSUME Settled, NEW b \in 1 .. Len(tree.bottom)
    PROVE  /\ LowestWire(BottomWire(b), b)
           /\ geometry.y[1][tree.bottom[b].net] \in Span(BottomWire(b))
<1>1. PICK w, v, y : w = BottomWire(b) /\ v = tree.bottom[b].net /\ y = geometry.y[1][v]
  OBVIOUS
<1>2. v \in ToSet(tree.channels[1]) /\ 1 \in Channels
  BY <1>1, BottomStands
<1>3. y \in Nat
  <2>1. RowsApart(1)
    BY <1>2 DEF Settled, GeometryOK
  <2>2. QED BY <1>1, <1>2, <2>1 DEF RowsApart
<1>4. w.vertical /\ w.at = bottom[b] /\ w.net = v /\ (w.stops = {y} \cup {} \/ w.stops = {y} \cup {0})
  BY <1>1 DEF BottomWire
<1>5. w.stops = {y} \/ w.stops = {y, 0}
  BY <1>4
<1>6. IsFiniteSet({y}) /\ IsFiniteSet({y, 0})
  BY <1>3, FewStops
<1>7. w.stops \in SUBSET Nat /\ IsFiniteSet(w.stops) /\ y \in w.stops /\ \A s \in w.stops : s <= y
  <2>1. CASE w.stops = {y}
    BY <1>3, <1>6, <2>1
  <2>2. CASE w.stops = {y, 0}
    BY <1>3, <1>6, <2>2
  <2>3. QED BY <1>5, <2>1, <2>2
<1>8. /\ Span(w) \subseteq Nat /\ w.stops \subseteq Span(w)
      /\ \A a \in Nat : (\A s \in w.stops : s <= a) => \A s \in Span(w) : s <= a
  BY <1>7, SpanFacts
<1>9. QED BY <1>1, <1>3, <1>4, <1>7, <1>8 DEF LowestWire

\* The wires of a node are below those of a node in a higher layer of its column.
LEMMA LayersOfNodesApart ==
    ASSUME Settled, NEW n \in Nodes, NEW m \in Nodes, LayerOf(tree, n) < LayerOf(tree, m),
           NEW v, NodeWire(v, n), NEW w, NodeWire(w, m), v.at = w.at, v.net # w.net
    PROVE  Span(v) \cap Span(w) = {}
<1>1. PICK k, l, a, b, c, d :
          /\ k = LayerOf(tree, n) /\ l = LayerOf(tree, m)
          /\ a = tree.nodes[n].in /\ b = tree.nodes[n].out
          /\ c = tree.nodes[m].in /\ d = tree.nodes[m].out
  OBVIOUS
<1>2. /\ k \in Layers /\ l \in Layers /\ k < l /\ k # Len(tree.layers) /\ col[n] = col[m]
      /\ k + 1 \in Channels /\ l \in Channels /\ k \in Nat /\ l \in Nat
      /\ b \in ToSet(tree.channels[k + 1]) /\ c \in ToSet(tree.channels[l])
  <2>1. Standing(n) /\ Standing(m)
    BY GoesOn
  <2>2. k \in Layers /\ l \in Layers
    BY <1>1, <2>1 DEF Standing
  <2>3. Len(tree.layers) \in Nat
    BY TreeParts DEF Settled, SynthesisOK, ModelOK, TreeOK, Shaped
  <2>4. k # Len(tree.layers) /\ k \in Nat /\ l \in Nat
    BY <1>1, <2>2, <2>3 DEF Layers
  <2>5. QED BY <1>1, <2>1, <2>2, <2>4 DEF Standing, NodeWire
<1>p. PICK p, z : p = geometry.ypos[k] /\ z = geometry.y[k + 1][b]
  OBVIOUS
<1>q. PICK q, y : q = geometry.ypos[l] /\ y = geometry.y[l][c]
  OBVIOUS
<1>z. p \in Nat /\ z \in Nat /\ p + 2 <= z
  BY <1>1, <1>p, NodeHeights
<1>y. q \in Nat /\ y \in Nat /\ y <= q
  BY <1>1, <1>q, NodeHeights
<1>3. /\ p \in Nat /\ q \in Nat /\ z \in Nat /\ y \in Nat
      /\ p = geometry.ypos[k] /\ q = geometry.ypos[l]
      /\ z = geometry.y[k + 1][b] /\ y = geometry.y[l][c]
      /\ p + 2 <= z /\ y <= q
  BY ONLY <1>p, <1>q, <1>z, <1>y
<1>4. p + 2 <= y
  BY <1>2, <1>3 DEF Settled, GeometryOK, LayersApart
<1>5. /\ Span(v) \subseteq Nat /\ \A s \in Span(v) : s <= z
      /\ \/ v.net = a /\ v.net = b
         \/ v.net = a /\ \A s \in Span(v) : s <= p
         \/ v.net = b /\ \A s \in Span(v) : p + 2 <= s
  BY <1>1, <1>2, <1>3 DEF NodeWire
<1>6. /\ Span(w) \subseteq Nat /\ \A s \in Span(w) : y <= s
      /\ \/ w.net = c /\ w.net = d
         \/ w.net = c /\ \A s \in Span(w) : s <= q
         \/ w.net = d /\ \A s \in Span(w) : q + 2 <= s
  BY <1>1, <1>2, <1>3 DEF NodeWire
<1>7. CASE z < y
  BY <1>3, <1>5, <1>6, <1>7
<1>8. CASE k + 1 = l /\ b = c
  <2>1. z = y
    BY <1>3, <1>8
  <2>2. (\A s \in Span(v) : s <= p) \/ (\A s \in Span(w) : q + 2 <= s)
    BY <1>5, <1>6, <1>8
  <2>3. QED BY <1>3, <1>4, <1>5, <1>6, <2>1, <2>2
<1>9. CASE k + 1 = l /\ b # c
  <2>1. z < y
    BY <1>1, <1>2, <1>3, <1>9, Ascends
  <2>2. QED BY <1>7, <2>1
<1>10. CASE k + 1 # l
  <2>1. PICK e : e = k + 1 /\ e \in Layers /\ e \in Channels /\ e < l /\ e <= e
    <3>1. k + 1 < l /\ k + 1 >= 1
      BY <1>2, <1>10
    <3>2. l <= Len(tree.layers) /\ Len(tree.layers) \in Nat
      <4>1. Len(tree.layers) \in Nat
        BY TreeParts DEF Settled, SynthesisOK, ModelOK, TreeOK, Shaped
      <4>2. QED BY <1>2, <4>1 DEF Layers
    <3>3. QED BY <1>2, <3>1, <3>2 DEF Layers
  <2>2. PICK r : r = geometry.ypos[e] /\ r \in Nat /\ z <= r /\ r + 2 <= y
    BY <1>2, <1>3, <2>1 DEF Settled, GeometryOK, LayersApart
  <2>3. z < y
    BY <1>3, <2>2
  <2>4. QED BY <1>7, <2>3
<1>11. QED BY <1>8, <1>9, <1>10

\* The wires of two nodes are apart.
LEMMA NodesApart ==
    ASSUME Settled, NEW n \in Nodes, NEW m \in Nodes,
           NEW v, NodeWire(v, n), NEW w, NodeWire(w, m), v.at = w.at, v.net # w.net
    PROVE  Span(v) \cap Span(w) = {}
<1>1. LayerOf(tree, n) \in Nat /\ LayerOf(tree, m) \in Nat
  BY GoesOn DEF Standing, Layers
<1>2. CASE LayerOf(tree, n) < LayerOf(tree, m)
  BY <1>2, LayersOfNodesApart
<1>3. CASE LayerOf(tree, m) < LayerOf(tree, n)
  <2>1. Span(w) \cap Span(v) = {}
    BY <1>3, LayersOfNodesApart
  <2>2. QED BY <2>1
<1>4. CASE LayerOf(tree, n) = LayerOf(tree, m)
  <2>1. n = m
    BY <1>4 DEF Settled, ColumnsOK, Spread, NodeWire
  <2>2. PICK l, a, b, p : /\ l = LayerOf(tree, n) /\ a = tree.nodes[n].in /\ b = tree.nodes[n].out
                          /\ p = geometry.ypos[l] /\ p \in Nat
    BY NodeHeights
  <2>3. /\ Span(v) \subseteq Nat
        /\ \/ v.net = a /\ v.net = b
           \/ v.net = a /\ \A s \in Span(v) : s <= p
           \/ v.net = b /\ \A s \in Span(v) : p + 2 <= s
    BY <2>2 DEF NodeWire
  <2>4. /\ Span(w) \subseteq Nat
        /\ \/ w.net = a /\ w.net = b
           \/ w.net = a /\ \A s \in Span(w) : s <= p
           \/ w.net = b /\ \A s \in Span(w) : p + 2 <= s
    BY <2>1, <2>2 DEF NodeWire
  <2>5. QED BY <2>2, <2>3, <2>4
<1>5. QED BY <1>1, <1>2, <1>3, <1>4

\* A bottom wire is apart from the wires of the nodes above it.
LEMMA BottomApart ==
    ASSUME Settled, NEW b \in 1 .. Len(tree.bottom), NEW m \in Nodes,
           NEW v, LowestWire(v, b), NEW w, NodeWire(w, m), v.at = w.at, v.net # w.net
    PROVE  Span(v) \cap Span(w) = {}
<1>1. PICK k, a, c, d : /\ k = LayerOf(tree, m) /\ a = tree.bottom[b].net
                        /\ c = tree.nodes[m].in /\ d = tree.nodes[m].out
  OBVIOUS
<1>2. Standing(m) /\ UnderReader(b) /\ 1 \in Channels /\ 1 \in Layers /\ a \in ToSet(tree.channels[1])
  BY <1>1, GoesOn, BottomStands
<1>3. PICK q, y \in Nat : q = geometry.ypos[k] /\ y = geometry.y[k][c] /\ y <= q
  BY <1>1, NodeHeights
<1>4. PICK p, z \in Nat : p = geometry.ypos[1] /\ z = geometry.y[1][a] /\ z <= p
  <2>1. RowsApart(1) /\ LayersApart
    BY <1>2 DEF Settled, GeometryOK
  <2>2. geometry.y[1][a] \in Nat
    BY <1>2, <2>1 DEF RowsApart
  <2>3. geometry.ypos[1] \in Nat /\ geometry.y[1][a] <= geometry.ypos[1]
    <3>1. 1 <= 1
      OBVIOUS
    <3>2. QED BY <1>2, <2>1, <3>1 DEF LayersApart
  <2>4. QED BY <2>2, <2>3
<1>5. Span(v) \subseteq Nat /\ v.net = a /\ (\A s \in Span(v) : s <= z)
  BY <1>1, <1>4 DEF LowestWire
<1>6. /\ Span(w) \subseteq Nat /\ \A s \in Span(w) : y <= s
      /\ \/ w.net = c /\ w.net = d
         \/ w.net = c /\ \A s \in Span(w) : s <= q
         \/ w.net = d /\ \A s \in Span(w) : q + 2 <= s
  BY <1>1, <1>3 DEF NodeWire
<1>7. CASE k = 1
  <2>1. PICK n \in Nodes : LayerOf(tree, n) = 1 /\ col[n] = bottom[b] /\ tree.nodes[n].in = a
    BY <1>1, <1>2 DEF UnderReader
  <2>2. n = m
    <3>1. col[n] = col[m]
      BY <2>1 DEF LowestWire, NodeWire
    <3>2. DOMAIN col = Nodes /\ Spread
      BY DEF Settled, ColumnsOK
    <3>3. QED BY <1>1, <1>7, <2>1, <3>1, <3>2 DEF Spread
  <2>3. \A s \in Span(w) : q + 2 <= s
    BY <1>1, <1>5, <1>6, <2>1, <2>2
  <2>4. z <= q
    BY <1>3, <1>4, <1>7
  <2>5. QED BY <1>3, <1>4, <1>5, <1>6, <2>3, <2>4
<1>8. CASE k # 1
  <2>1. p + 2 <= y
    <3>1. k \in Layers /\ k \in Channels /\ 1 < k /\ c \in ToSet(tree.channels[k])
      BY <1>1, <1>2, <1>8 DEF Standing, Layers
    <3>2. QED BY <1>2, <1>3, <1>4, <3>1 DEF Settled, GeometryOK, LayersApart
  <2>2. QED BY SMTT(30), <1>3, <1>4, <1>5, <1>6, <2>1
<1>9. QED BY <1>7, <1>8

\* A vertical wire is a bottom wire or one of a node.
Upright(w) ==
    \/ \E n \in Nodes : NodeWire(w, n)
    \/ \E b \in 1 .. Len(tree.bottom) : LowestWire(w, b)

\* Vertical wires of different nets are apart.
LEMMA UprightApart ==
    ASSUME Settled, NEW v, Upright(v), NEW w, Upright(w), v.at = w.at, v.net # w.net
    PROVE  Span(v) \cap Span(w) = {}
<1>1. CASE (\E n \in Nodes : NodeWire(v, n)) /\ (\E n \in Nodes : NodeWire(w, n))
  BY <1>1, NodesApart
<1>2. CASE (\E b \in 1 .. Len(tree.bottom) : LowestWire(v, b)) /\ (\E n \in Nodes : NodeWire(w, n))
  BY <1>2, BottomApart
<1>3. CASE (\E n \in Nodes : NodeWire(v, n)) /\ (\E b \in 1 .. Len(tree.bottom) : LowestWire(w, b))
  <2>1. Span(w) \cap Span(v) = {}
    BY <1>3, BottomApart
  <2>2. QED BY <2>1
<1>4. ASSUME NEW a \in 1 .. Len(tree.bottom), NEW b \in 1 .. Len(tree.bottom),
             LowestWire(v, a), LowestWire(w, b)
      PROVE  FALSE
  <2>1. PICK n, m \in Nodes : /\ LayerOf(tree, n) = 1 /\ col[n] = bottom[a]
                              /\ tree.nodes[n].in = tree.bottom[a].net
                              /\ LayerOf(tree, m) = 1 /\ col[m] = bottom[b]
                              /\ tree.nodes[m].in = tree.bottom[b].net
    BY BottomStands DEF UnderReader
  <2>2. col[n] = col[m] /\ tree.nodes[n].in # tree.nodes[m].in
    BY <1>4, <2>1 DEF LowestWire
  <2>3. QED BY <2>1, <2>2 DEF Settled, ColumnsOK, Spread
<1>5. QED BY <1>1, <1>2, <1>3, <1>4 DEF Upright

\* The columns in which a net crosses a channel are between the first and the last.
LEMMA ColumnsFacts ==
    ASSUME Settled, NEW c \in Channels, NEW v, NEW x \in ColumnsOf(c, v)
    PROVE  /\ ColumnsOf(c, v) \subseteq Nat /\ IsFiniteSet(ColumnsOf(c, v))
           /\ x \in Min(ColumnsOf(c, v)) .. Max(ColumnsOf(c, v))
           /\ Min(ColumnsOf(c, v)) \in Nat /\ Max(ColumnsOf(c, v)) \in Nat
<1>1. PICK C : C = ColumnsOf(c, v)
  OBVIOUS
<1>2. C \subseteq Nat
  <2>1. ASSUME NEW y \in C PROVE y \in Nat
    <3>1. (\A n \in Nodes : col[n] \in Nat) /\ \A b \in 1 .. Len(tree.bottom) : bottom[b] \in Nat
      BY GoesOn, BottomStands DEF Standing
    <3>2. QED BY <1>1, <2>1, <3>1, CrossedBy
  <2>2. QED BY <2>1
<1>3. IsFiniteSet(C)
  BY <1>1, ColumnsFinite
<1>4. PICK lo : lo = Min(C) /\ lo \in C /\ \A s \in C : lo <= s
  BY <1>1, <1>2, MinIn
<1>5. PICK hi : hi = Max(C) /\ hi \in C /\ \A s \in C : s <= hi
  <2>1. PICK n \in C : \A m \in C : m <= n
    BY <1>1, <1>2, <1>3, GreatestNumber
  <2>2. QED BY <2>1 DEF Max
<1>6. x \in Nat /\ lo \in Nat /\ hi \in Nat /\ lo <= x /\ x <= hi
  BY <1>1, <1>2, <1>4, <1>5
<1>7. QED BY <1>1, <1>2, <1>3, <1>4, <1>5, <1>6

\* A net that has a wire in a channel crosses it.
LEMMA WireCrossed ==
    ASSUME Settled, NEW c \in Channels, NEW v, ~Anchor(c, v)
    PROVE  ColumnsOf(c, v) # {}
<1>1. ASSUME ColumnsOf(c, v) = {} PROVE FALSE
  <2>1. Cardinality(ColumnsOf(c, v)) = 0
    BY <1>1, FS_EmptySet
  <2>2. QED BY <2>1 DEF Anchor
<1>2. QED BY <1>1

\* A channel's horizontal wires.
Level(w, c, v) ==
    /\ c \in Channels /\ v \in ToSet(tree.channels[c]) /\ ~Anchor(c, v)
    /\ w = Horizontal(c, v)

\* What such a wire is made of.
LEMMA LevelIs ==
    ASSUME Settled, NEW c, NEW v, NEW w, Level(w, c, v)
    PROVE  /\ ~w.vertical /\ w.net = v /\ w.at = geometry.y[c][v] /\ w.at \in Nat
           /\ w.joints = ColumnsOf(c, v)
           /\ Span(w) = Min(ColumnsOf(c, v)) .. Max(ColumnsOf(c, v))
<1>1. w = Horizontal(c, v) /\ c \in Channels /\ v \in ToSet(tree.channels[c])
  BY DEF Level
<1>2. /\ ~w.vertical /\ w.net = v /\ w.at = geometry.y[c][v]
      /\ w.stops = ColumnsOf(c, v) /\ w.joints = ColumnsOf(c, v)
  BY <1>1 DEF Horizontal
<1>3. RowsApart(c)
  BY <1>1 DEF Settled, GeometryOK
<1>4. QED BY <1>1, <1>2, <1>3 DEF Span, RowsApart

\* Wires in the same row are in the same channel.
LEMMA SameRow ==
    ASSUME Settled, NEW c \in Channels, NEW d \in Channels,
           NEW v \in ToSet(tree.channels[c]), NEW w \in ToSet(tree.channels[d]),
           geometry.y[c][v] = geometry.y[d][w]
    PROVE  c = d
<1>1. ASSUME NEW e \in Channels, NEW f \in Channels, e < f,
             NEW a \in ToSet(tree.channels[e]), NEW b \in ToSet(tree.channels[f])
      PROVE  geometry.y[e][a] # geometry.y[f][b]
  <2>1. e \in Layers /\ e <= e
    <3>1. Len(tree.layers) \in Nat /\ Len(tree.channels) = Len(tree.layers) + 1
      BY TreeParts DEF Settled, SynthesisOK, ModelOK, TreeOK, Shaped
    <3>2. QED BY <1>1, <3>1 DEF Layers, Channels
  <2>2. PICK p, y, z \in Nat : p = geometry.ypos[e] /\ y = geometry.y[e][a] /\ z = geometry.y[f][b]
    <3>1. RowsApart(e) /\ RowsApart(f) /\ LayersApart
      BY DEF Settled, GeometryOK
    <3>2. geometry.y[e][a] \in Nat /\ geometry.y[f][b] \in Nat
      BY <3>1 DEF RowsApart
    <3>3. geometry.ypos[e] \in Nat
      BY <2>1, <3>1 DEF LayersApart
    <3>4. QED BY <3>2, <3>3
  <2>3. y <= p /\ p + 2 <= z
    BY <1>1, <2>1, <2>2 DEF Settled, GeometryOK, LayersApart
  <2>4. QED BY <2>2, <2>3
<1>2. c \in Nat /\ d \in Nat
  BY DEF Channels
<1>3. QED BY <1>1, <1>2

\* Horizontal wires of different nets are apart.
LEMMA LevelApart ==
    ASSUME Settled, NEW c, NEW d, NEW a, NEW b, NEW v, Level(v, c, a), NEW w, Level(w, d, b),
           v.at = w.at, v.net # w.net
    PROVE  Span(v) \cap Span(w) = {}
<1>1. /\ v.net = a /\ w.net = b /\ v.at = geometry.y[c][a] /\ w.at = geometry.y[d][b]
      /\ Span(v) = Min(ColumnsOf(c, a)) .. Max(ColumnsOf(c, a))
      /\ Span(w) = Min(ColumnsOf(d, b)) .. Max(ColumnsOf(d, b))
  BY LevelIs
<1>2. /\ c \in Channels /\ d \in Channels /\ ~Anchor(c, a) /\ ~Anchor(d, b)
      /\ a \in ToSet(tree.channels[c]) /\ b \in ToSet(tree.channels[d])
  BY DEF Level
<1>3. c = d
  BY <1>1, <1>2, SameRow
<1>4. DisjointExtents(c, a, b)
  <2>1. RowsApart(c)
    BY <1>2 DEF Settled, GeometryOK
  <2>2. QED BY <1>1, <1>2, <1>3, <2>1 DEF RowsApart
<1>5. /\ Min(ColumnsOf(c, a)) \in Nat /\ Max(ColumnsOf(c, a)) \in Nat
      /\ Min(ColumnsOf(c, b)) \in Nat /\ Max(ColumnsOf(c, b)) \in Nat
  BY <1>2, <1>3, ColumnsFacts, WireCrossed
<1>6. QED BY <1>1, <1>3, <1>4, <1>5 DEF DisjointExtents

\* A vertical wire is joined where it crosses the wire of its net in a channel.
Connected(w) ==
    \/ w.joints = {}
    \/ \E d \in Channels : /\ w.net \in ToSet(tree.channels[d])
                           /\ w.joints = Joint(d, w.net) /\ w.at \in ColumnsOf(d, w.net)

\* A wire that crosses another one where that is connected is one of its net.
LEMMA JointsApart ==
    ASSUME Settled, NEW v, Upright(v), Connected(v), NEW c, NEW b, NEW w, Level(w, c, b),
           v.net # w.net, w.at \in Span(v), v.at \in Span(w)
    PROVE  w.at \notin v.joints /\ v.at \notin w.joints
<1>1. PICK a, x, y : a = v.net /\ x = v.at /\ y = w.at
  OBVIOUS
<1>2. /\ w.net = b /\ y = geometry.y[c][b] /\ w.joints = ColumnsOf(c, b)
      /\ Span(w) = Min(ColumnsOf(c, b)) .. Max(ColumnsOf(c, b)) /\ a # b
  BY <1>1, LevelIs
<1>3. c \in Channels /\ ~Anchor(c, b) /\ b \in ToSet(tree.channels[c])
  BY DEF Level
<1>4. ASSUME y \in v.joints PROVE FALSE
  <2>1. PICK d \in Channels : /\ a \in ToSet(tree.channels[d])
                              /\ y \in Joint(d, a) /\ x \in ColumnsOf(d, a)
    BY <1>1, <1>4 DEF Connected
  <2>2. y = geometry.y[d][a] /\ ~Anchor(d, a)
    BY <2>1 DEF Joint
  <2>3. c = d
    BY <1>2, <1>3, <2>1, <2>2, SameRow
  <2>4. DisjointExtents(c, a, b)
    <3>1. RowsApart(c)
      BY <1>3 DEF Settled, GeometryOK
    <3>2. QED BY <1>2, <1>3, <2>1, <2>2, <2>3, <3>1 DEF RowsApart
  <2>5. /\ x \in Min(ColumnsOf(c, a)) .. Max(ColumnsOf(c, a))
        /\ Min(ColumnsOf(c, a)) \in Nat /\ Max(ColumnsOf(c, a)) \in Nat
        /\ Min(ColumnsOf(c, b)) \in Nat /\ Max(ColumnsOf(c, b)) \in Nat
    BY <1>3, <2>1, <2>3, ColumnsFacts, WireCrossed
  <2>6. x \in Min(ColumnsOf(c, b)) .. Max(ColumnsOf(c, b))
    BY <1>1, <1>2
  <2>7. QED BY <2>4, <2>5, <2>6 DEF DisjointExtents
<1>5. ASSUME x \in ColumnsOf(c, b) PROVE FALSE
  <2>1. ASSUME NEW u, Upright(u), u.at = x, u.net = b, y \in Span(u) PROVE FALSE
    <3>1. Span(v) \cap Span(u) = {}
      BY <1>1, <1>2, <2>1, UprightApart
    <3>2. QED BY <1>1, <2>1, <3>1
  <2>2. CASE \E n \in Nodes : LayerOf(tree, n) = c /\ col[n] = x /\ tree.nodes[n].in = b
    <3>1. PICK n \in Nodes : LayerOf(tree, n) = c /\ col[n] = x /\ tree.nodes[n].in = b
      BY <2>2
    <3>2. PICK u : u = InputWire(n)
      OBVIOUS
    <3>3. NodeWire(u, n) /\ u.stops \subseteq Span(u)
      BY <3>2, InputWireIs
    <3>4. u.at = x /\ u.net = b /\ y \in u.stops
      BY <1>2, <3>1, <3>2 DEF InputWire
    <3>5. QED BY <2>1, <3>3, <3>4 DEF Upright
  <2>3. CASE \E n \in Nodes : LayerOf(tree, n) + 1 = c /\ col[n] = x /\ tree.nodes[n].out = b
    <3>1. PICK n \in Nodes : LayerOf(tree, n) + 1 = c /\ col[n] = x /\ tree.nodes[n].out = b
      BY <2>3
    <3>2. PICK u : u = OutputWire(n)
      OBVIOUS
    <3>3. NodeWire(u, n) /\ u.stops \subseteq Span(u)
      BY <3>2, OutputWireIs
    <3>4. u.at = x /\ u.net = b /\ y \in u.stops
      BY <1>2, <3>1, <3>2 DEF OutputWire
    <3>5. QED BY <2>1, <3>3, <3>4 DEF Upright
  <2>4. CASE c = 1 /\ \E e \in 1 .. Len(tree.bottom) : bottom[e] = x /\ tree.bottom[e].net = b
    <3>1. PICK e \in 1 .. Len(tree.bottom) : bottom[e] = x /\ tree.bottom[e].net = b
      BY <2>4
    <3>2. PICK u : u = BottomWire(e)
      OBVIOUS
    <3>3. LowestWire(u, e) /\ geometry.y[1][tree.bottom[e].net] \in Span(u)
      BY <3>2, BottomWireIs
    <3>4. u.at = x /\ u.net = b /\ y \in Span(u)
      BY <1>2, <2>4, <3>1, <3>3 DEF LowestWire
    <3>5. QED BY <2>1, <3>3, <3>4 DEF Upright
  <2>5. QED BY <1>3, <1>5, <2>2, <2>3, <2>4, CrossedBy
<1>6. QED BY <1>1, <1>2, <1>4, <1>5

\* What is drawn is a vertical wire or the wire of a net in a channel.
Drawn(w) == (Upright(w) /\ w.vertical = TRUE /\ Connected(w)) \/ \E c, b : Level(w, c, b)

\* Nothing else is drawn.
LEMMA AllDrawn ==
    ASSUME Settled, NEW w \in ToSet(DrawnWires)
    PROVE  Drawn(w)
<1>1. TreeOK(tree)
  BY DEF Settled, SynthesisOK, ModelOK
<1>2. w \in MayBeDrawn
  <2>1. PICK X, s : X = MayBeDrawn /\ s = DrawnWires /\ s \in Seq(X)
    BY <1>1, DrawnWiresFacts
  <2>2. QED BY <2>1 DEF ToSet
<1>3. ASSUME NEW b \in 1 .. Len(tree.bottom), w = BottomWire(b) PROVE Drawn(w)
  <2>1. LowestWire(w, b)
    BY <1>3, BottomWireIs
  <2>2. bottom[b] \in ColumnsOf(1, tree.bottom[b].net)
    BY BottomCrosses
  <2>3. 1 \in Channels /\ tree.bottom[b].net \in ToSet(tree.channels[1])
    BY BottomStands
  <2>4. w.net = tree.bottom[b].net /\ w.joints = Joint(1, w.net) /\ w.at = bottom[b]
        /\ w.vertical = TRUE
    BY <1>3 DEF BottomWire
  <2>5. QED BY <2>1, <2>2, <2>3, <2>4 DEF Drawn, Connected, Upright
<1>4. ASSUME NEW n \in Nodes, w = InputWire(n) PROVE Drawn(w)
  <2>1. NodeWire(w, n)
    BY <1>4, InputWireIs
  <2>2. PICK d : /\ d = LayerOf(tree, n) /\ d \in Channels /\ col[n] \in ColumnsOf(d, tree.nodes[n].in)
                 /\ tree.nodes[n].in \in ToSet(tree.channels[d])
    BY NodeCrosses, GoesOn DEF Standing
  <2>3. w.net = tree.nodes[n].in /\ w.joints = Joint(d, w.net) /\ w.at = col[n]
    BY <1>4, <2>2 DEF InputWire
  <2>4. w.vertical = TRUE
    BY <1>4 DEF InputWire
  <2>5. QED BY <2>1, <2>2, <2>3, <2>4 DEF Drawn, Connected, Upright
<1>5. ASSUME NEW n \in Nodes, w = OutputWire(n) PROVE Drawn(w)
  <2>1. NodeWire(w, n)
    BY <1>5, OutputWireIs
  <2>2. PICK d : /\ d = LayerOf(tree, n) + 1 /\ d \in Channels
                 /\ col[n] \in ColumnsOf(d, tree.nodes[n].out)
                 /\ tree.nodes[n].out \in ToSet(tree.channels[d])
    BY NodeCrosses, GoesOn DEF Standing
  <2>3. w.net = tree.nodes[n].out /\ w.joints = Joint(d, w.net) /\ w.at = col[n]
    BY <1>5, <2>2 DEF OutputWire
  <2>4. w.vertical = TRUE
    BY <1>5 DEF OutputWire
  <2>5. QED BY <2>1, <2>2, <2>3, <2>4 DEF Drawn, Connected, Upright
<1>6. ASSUME NEW n \in Nodes, ~tree.nodes[n].invert, w = PassThrough(n) PROVE Drawn(w)
  <2>1. NodeWire(w, n)
    BY <1>6, PassThroughIs
  <2>2. w.joints = {} /\ w.vertical = TRUE
    BY <1>6 DEF PassThrough
  <2>3. QED BY <2>1, <2>2 DEF Drawn, Connected, Upright
<1>7. ASSUME NEW c \in 1 .. Len(tree.channels), NEW b \in Vertices, b \in ToSet(tree.channels[c]),
             ~Anchor(c, b), w = Horizontal(c, b)
      PROVE  Drawn(w)
  BY <1>7 DEF Drawn, Level, Channels
<1>8. ASSUME w \in {Horizontal(p[1], p[2]) : p \in {q \in (1 .. Len(tree.channels)) \X Vertices :
                            q[2] \in ToSet(tree.channels[q[1]]) /\ ~Anchor(q[1], q[2])}}
      PROVE  Drawn(w)
  BY <1>7, <1>8
<1>9. QED BY <1>2, <1>3, <1>4, <1>5, <1>6, <1>8 DEF MayBeDrawn

\* Wires of different nets are apart where everything has been computed.
LEMMA SettledApart ==
    ASSUME Settled
    PROVE  WiresApart
<1>1. ASSUME NEW v, Drawn(v), NEW w, Drawn(w), v.net # w.net,
             v.vertical = TRUE, w.vertical = TRUE, v.at = w.at
      PROVE  Span(v) \cap Span(w) = {}
  <2>1. Upright(v) /\ Upright(w)
    BY <1>1, LevelIs DEF Drawn
  <2>2. QED BY <1>1, <2>1, UprightApart
<1>2. ASSUME NEW v, Drawn(v), NEW w, Drawn(w), v.net # w.net,
             v.vertical = FALSE, w.vertical = FALSE, v.at = w.at
      PROVE  Span(v) \cap Span(w) = {}
  BY <1>2, LevelApart DEF Drawn
<1>3. ASSUME NEW v, Drawn(v), NEW w, Drawn(w), v.net # w.net, v.vertical = TRUE, w.vertical = FALSE,
             w.at \in Span(v), v.at \in Span(w)
      PROVE  w.at \notin v.joints /\ v.at \notin w.joints
  <2>1. Upright(v) /\ Connected(v)
    BY <1>3, LevelIs DEF Drawn
  <2>2. PICK c, b : Level(w, c, b)
    BY <1>3 DEF Drawn
  <2>3. QED BY <1>3, <2>1, <2>2, JointsApart
<1>4. ASSUME NEW v \in ToSet(DrawnWires), NEW w \in ToSet(DrawnWires), v.net # w.net
      PROVE  IF v.vertical = w.vertical
             THEN v.at = w.at => Span(v) \cap Span(w) = {}
             ELSE w.at \in Span(v) /\ v.at \in Span(w) =>
                     w.at \notin v.joints /\ v.at \notin w.joints
  <2>1. Drawn(v) /\ Drawn(w)
    BY AllDrawn
  <2>2. ASSUME NEW u, Drawn(u) PROVE u.vertical = TRUE \/ u.vertical = FALSE
    <3>1. CASE \E c, b : u = Horizontal(c, b)
      BY <3>1 DEF Horizontal
    <3>2. QED BY <2>2, <3>1 DEF Drawn, Level
  <2>3. CASE v.vertical = TRUE /\ w.vertical = TRUE
    BY <1>1, <1>4, <2>1, <2>3
  <2>4. CASE v.vertical = FALSE /\ w.vertical = FALSE
    BY <1>2, <1>4, <2>1, <2>4
  <2>5. CASE v.vertical = TRUE /\ w.vertical = FALSE
    BY <1>3, <1>4, <2>1, <2>5
  <2>6. CASE v.vertical = FALSE /\ w.vertical = TRUE
    BY <1>3, <1>4, <2>1, <2>6
  <2>7. QED BY <2>1, <2>2, <2>3, <2>4, <2>5, <2>6
<1>5. QED BY <1>4 DEF WiresApart

-----------------------------------------------------------------------------
(***************************************************************************)
(* The theorems.                                                            *)
(***************************************************************************)

\* What keeps the wires apart: the tree's structure, the nodes' columns, and the rows
\* and layers that are computed from them.
LayoutOK == SynthesisOK /\ StructureOK /\ ColumnsOK /\ GeometryOK

\* Through createModel, computeSpatial and computeVertical: whatever a node drives goes
\* on above or beside it, the columns leave the nets of each channel an order, and rows
\* and layers are computed such that no wire is in another's way.
THEOREM LayoutInvariant == Spec => []LayoutOK
<1>1. Init => LayoutOK
  <2>1. SUFFICES ASSUME Init PROVE LayoutOK
    OBVIOUS
  <2>2. SynthesisOK
    BY <2>1, InitSynthesis
  <2>3. stage = "bottom" /\ StructureOK
    BY <2>1, StartBuilt DEF Init, StartModel
  <2>4. ColumnsOK /\ GeometryOK
    BY <2>3 DEF ColumnsOK, GeometryOK
  <2>5. QED BY <2>2, <2>3, <2>4 DEF LayoutOK
<1>2. LayoutOK /\ SynthesisOK' /\ [Next]_vars => LayoutOK'
  BY StructureStep, ColumnsStep, GeometryStep DEF LayoutOK
<1>3. Spec => []SynthesisOK
  BY SynthesisInvariant
<1>4. QED BY <1>1, <1>2, <1>3, PTL DEF Spec

\* Wires of different nets never share a block, and none crosses another where that is
\* connected, whatever the tree and its nets are.
THEOREM WiresStayApart == Spec => []WiresApart
<1>1. LayoutOK => WiresApart
  <2>1. CASE stage = "segments"
    BY <2>1, SettledApart DEF LayoutOK, Settled
  <2>2. CASE stage # "segments"
    BY <2>2 DEF WiresApart
  <2>3. QED BY <2>1, <2>2
<1>2. QED BY <1>1, LayoutInvariant, PTL
===============================================================================
