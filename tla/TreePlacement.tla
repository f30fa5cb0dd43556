--------------------------- MODULE TreePlacement ---------------------------
(***************************************************************************)
(* TreeModel::computeSpatial: every node of the tree gets a column, depth   *)
(* first, each layer from left to right; every wire below the lowest layer  *)
(* gets one; the channels' rows are computed; then the layers are stacked.  *)
(* A node's wires cross the channel above (its output) and the one below    *)
(* (its input): a column is taken only if the router of both channels lets  *)
(* it.  The router is the module DivisiveWires, whose less_ is shown there  *)
(* to be the closure of the pairs of nets that meet in a column.            *)
(***************************************************************************)
EXTENDS TreeModel

VARIABLES
    col,      \* position() of the nodes placed so far
    bottom,   \* position() of the bottom wires placed so far, by index
    todo,     \* the nodes placeNodes will reach without going into a child
    geometry  \* rows, layers' positions and low inverters, once computed

placement == <<col, bottom, todo, geometry>>

-----------------------------------------------------------------------------
(***************************************************************************)
(* A channel while it is being crossed.                                     *)
(***************************************************************************)
Layers == 1..Len(tree.layers)
Channels == 1..Len(tree.channels)
Nodes == 1..Len(tree.nodes)
NodesOf(l) == UNION {ToSet(tree.layers[l][g].nodes) : g \in 1..Len(tree.layers[l])}

\* The crossers placed so far, as pairs of a column and a net.
FromBelow(c) ==
    IF c = 1 THEN {<<bottom[b], tree.bottom[b].net>> : b \in DOMAIN bottom}
    ELSE {<<col[n], tree.nodes[n].out>> : n \in NodesOf(c - 1) \cap DOMAIN col}

FromAbove(c) ==
    IF c > Len(tree.layers) THEN {}
    ELSE {<<col[n], tree.nodes[n].in>> : n \in NodesOf(c) \cap DOMAIN col}

\* The columns in which one net comes from below and another one from above.
Meeting(c) ==
    {<<p[1][2], p[2][2]>> : p \in {q \in FromBelow(c) \X FromAbove(c) :
                                    q[1][1] = q[2][1] /\ q[1][2] # q[2][2]}}

\* The pairs of a relation, and those that it makes of two of its pairs through k.
JoinedThrough(R, k) ==
    R \cup {<<p[1][1], p[2][2]>> : p \in {q \in R \X R : q[1][2] = k /\ q[2][1] = k}}

\* less_
Less(c) == FoldSet(LAMBDA k, R : JoinedThrough(R, k), Meeting(c), ToSet(tree.channels[c]))

\* DivisiveWires::mayBeCrossed for a crosser of the net from below or from above.
MayCross(c, below, net, x) ==
    /\ \A p \in IF below THEN FromBelow(c) ELSE FromAbove(c) : p[1] # x
    /\ \A p \in IF below THEN FromAbove(c) ELSE FromBelow(c) :
          \/ p[1] # x \/ p[2] = net
          \/ (IF below THEN <<p[2], net>> ELSE <<net, p[2]>>) \notin Less(c)

InputPlaceableAt(n, x) == MayCross(LayerOf(tree, n), FALSE, tree.nodes[n].in, x)
OutputPlaceableAt(n, x) == MayCross(LayerOf(tree, n) + 1, TRUE, tree.nodes[n].out, x)

\* The first column from x on, in steps of two, where both ends of the node may go.
FirstColumn(x, n) ==
    LET tried == {x + 2 * k : k \in 0..(2 * (Len(tree.nodes) + Len(tree.bottom)) + 2)}
    IN  Min({y \in tried : InputPlaceableAt(n, y) /\ OutputPlaceableAt(n, y)})

-----------------------------------------------------------------------------
(***************************************************************************)
(* placeNodes and placeBottomWires.                                         *)
(***************************************************************************)
NodeSeq(l) == FlattenSeq([g \in 1..Len(tree.layers[l]) |-> tree.layers[l][g].nodes])

NotPlaced == /\ col = <<>> /\ bottom = <<>> /\ todo = <<>>
             /\ geometry = <<>>

\* preComputeSpatial, once the model is complete.
PreComputeSpatial ==
    /\ stage = "top" /\ ifaces = {}
    /\ \A p \in Places(tree) : GroupAt(tree, p).nodes # <<>>
    /\ stage' = "place" /\ todo' = NodeSeq(1)
    /\ UNCHANGED <<netlist, model, col, bottom, geometry>>

\* The next column of a layer: its width_ + 1.
StartPos(l) ==
    LET placed == {col[n] : n \in NodesOf(l) \cap DOMAIN col}
    IN  IF placed = {} THEN 0 ELSE Max(placed) + 2

\* NodeGroup::placeNode: an only child goes above its parent if it can.
AboveParent(n) ==
    LET group == GroupAt(tree, PlaceOf(tree, n))
    IN  IF group.parent = NoParent \/ Len(group.nodes) # 1 THEN {}
        ELSE {x \in {col[group.parent]} :
                x >= StartPos(LayerOf(tree, n)) /\ OutputPlaceableAt(n, x)}

\* Node::place: one column is skipped when the child then comes to stand above.
SkipPos(n) ==
    {x \in {StartPos(LayerOf(tree, n)) + 2} :
        Child(tree, n) # {} /\ StartPos(LayerOf(tree, n) + 1) = x}

PositionOf(n) ==
    IF AboveParent(n) # {} THEN AboveParent(n)
    ELSE IF SkipPos(n) # {} THEN SkipPos(n)
    ELSE {FirstColumn(StartPos(LayerOf(tree, n)), n)}

\* The assertions of place and of tryInsertCrosser let nothing else be placed.
PlaceNode ==
    LET n == Head(todo)
        below == Child(tree, n)
    IN  /\ stage = "place" /\ todo # <<>>
        /\ \E x \in {y \in PositionOf(n) : InputPlaceableAt(n, y) /\ OutputPlaceableAt(n, y)} :
              col' = Over(col, Single(n, x))
        /\ todo' = (IF below = {} THEN <<>>
                    ELSE GroupAt(tree, CHOOSE p \in below : TRUE).nodes) \o Tail(todo)
        /\ UNCHANGED <<netlist, stage, model, bottom, geometry>>

\* Every bottom wire comes to stand under the group that reads its net.  Every net
\* with a bottom wire has such a group and one such wire, so that nothing is left to
\* the loop over loose_inputs.
ColumnUnderGroup(b) ==
    LET p == CHOOSE p \in InputToGroup(tree, tree.bottom[b].net, Bottom) : TRUE
    IN  col[GroupAt(tree, p).nodes[1]]

PlaceBottomWires ==
    /\ stage = "place" /\ todo = <<>>
    /\ {b \in 1..Len(tree.bottom) :
            ~MayCross(1, TRUE, tree.bottom[b].net, ColumnUnderGroup(b))} = {}
    /\ bottom' = [b \in 1..Len(tree.bottom) |-> ColumnUnderGroup(b)]
    /\ stage' = "vertical"
    /\ UNCHANGED <<netlist, model, col, todo, geometry>>

-----------------------------------------------------------------------------
(***************************************************************************)
(* Rows of a channel: computePositions.                                     *)
(***************************************************************************)
ColumnsOf(c, net) == {p[1] : p \in {q \in FromBelow(c) \cup FromAbove(c) : q[2] = net}}
Spans(c, net, x) == x \in Min(ColumnsOf(c, net))..Max(ColumnsOf(c, net))
Anchor(c, net) == Cardinality(ColumnsOf(c, net)) <= 1

\* upperLayerInputs, as pairs of a column and a net.
UpperLayerInputs(c) ==
    IF c <= Len(tree.layers) THEN FromAbove(c)
    ELSE {<<col[n], tree.nodes[n].out>> : n \in {tree.top[k].node : k \in 1..Len(tree.top)}}

NumIsolatedUpperInputCrossings(c, net) ==
    IF Anchor(c, net) THEN 0
    ELSE Cardinality({p \in UpperLayerInputs(c) : p[2] # net /\ Spans(c, net, p[1])})

\* SecondaryComparator, on indices of wires.
Comes(c, i, j) ==
    LET isolated(k) == NumIsolatedUpperInputCrossings(c, tree.channels[c][k])
    IN  isolated(i) < isolated(j) \/ (isolated(i) = isolated(j) /\ i > j)

\* The wires' indices from the lowest to the highest, which is taken first.
AscendingOrder(c) ==
    LET wires == tree.channels[c]
        less == Less(c)
        Ready(order) == {i \in DOMAIN wires \ ToSet(order) :
            \A j \in DOMAIN wires \ ToSet(order) : <<wires[i], wires[j]>> \notin less}
        First(S) == CHOOSE i \in S : \A j \in S \ {i} : Comes(c, i, j)
    IN  FoldLeft(LAMBDA order, w : <<First(Ready(order))>> \o order, <<>>, wires)

DisjointExtents(c, v, w) ==
    \/ Max(ColumnsOf(c, v)) < Min(ColumnsOf(c, w))
    \/ Max(ColumnsOf(c, w)) < Min(ColumnsOf(c, v))

\* Mutant of DropCollision: the order is not kept while wires drop.
DropCollisionExtentsOnly(c, less, row, net, at, other) ==
    row[other] = at /\ ~DisjointExtents(c, net, other)

DropCollision(c, less, row, net, at, other) ==
    \/ at <= row[other] /\ <<other, net>> \in less
    \/ row[other] = at /\ ~DisjointExtents(c, net, other)

\* dropHorizontalCollected: the lowest row that does not collide.
Drop(c, less, row, net) ==
    LET nonAnchors == {w \in DOMAIN row : ~Anchor(c, w)}
        free == {at \in 0..row[net] : at % 2 = 0 /\ \A other \in nonAnchors :
                    ~DropCollision(c, less, row, net, at, other)}
    IN  [row EXCEPT ![net] = IF Anchor(c, net) THEN 0 ELSE Min(free \cup {@})]

\* relativePosition_ of the channel's wires.
Rows(c) ==
    LET less == Less(c)
        ascending == AscendingOrder(c)
        order == [k \in DOMAIN ascending |-> tree.channels[c][ascending[k]]]
        initial == [net \in ToSet(order) |-> 2 * (SelectInSeq(order, LAMBDA w : w = net) - 1)]
    IN  FoldLeft(LAMBDA row, net : Drop(c, less, row, net), initial, order)

-----------------------------------------------------------------------------
(***************************************************************************)
(* Stacking: computeVertical.  geometry keeps, per channel, the rows, the   *)
(* bottom row's y (at) and, per layer, its y and the low inverters.         *)
(***************************************************************************)
NonAnchors(c) == {net \in ToSet(tree.channels[c]) : ~Anchor(c, net)}
MaxRow(rows) == Max(Range(rows) \cup {0})

\* needsExtraBlockAtBottom: inverters over a wire of another net that runs right
\* under the layer need a block more, or can be built low if nothing joins their
\* output right above it.
DisconnectedNodes(l, rows) ==
    {n \in NodesOf(l) : tree.nodes[n].invert /\ \E w \in NonAnchors(l) \ {tree.nodes[n].in} :
        rows[l][w] = MaxRow(rows[l]) /\ Spans(l, w, col[n])}

CanHaveLowInverter(n, l, rows) ==
    tree.nodes[n].out \notin NonAnchors(l + 1) \/ rows[l + 1][tree.nodes[n].out] # 0

LowInvertersPossible(l, rows) ==
    \A n \in DisconnectedNodes(l, rows) : CanHaveLowInverter(n, l, rows)


\* One layer on top of what is stacked so far; s.height is computeVertical's pos.
Stack(s, l, rows) ==
    LET y == IF LowInvertersPossible(l, rows) THEN s.height ELSE s.height + 1
        noNonAnchors == NonAnchors(l + 1) = {}
    IN  [height |-> IF noNonAnchors THEN y + 3 ELSE y + 4 + MaxRow(rows[l + 1]),
         at |-> Append(s.at, IF noNonAnchors THEN y + 2 ELSE y + 3),
         ypos |-> Append(s.ypos, y),
         low |-> s.low \cup IF LowInvertersPossible(l, rows)
                            THEN DisconnectedNodes(l, rows) ELSE {}]

ComputeVertical ==
    /\ stage = "vertical"
    /\ \E rows \in {[c \in Channels |-> Rows(c)]} :
        LET start == [height |-> IF NonAnchors(1) = {} THEN 0 ELSE MaxRow(rows[1]) + 1,
                      at |-> <<0>>, ypos |-> <<>>, low |-> {}]
            stack == FoldLeft(LAMBDA s, l : Stack(s, l, rows), start, [l \in Layers |-> l])
        IN  geometry' = [height |-> stack.height, ypos |-> stack.ypos, low |-> stack.low,
                         y |-> [c \in Channels |-> [net \in DOMAIN rows[c] |->
                                    stack.at[c] + rows[c][net]]]]
    /\ stage' = "segments"
    /\ UNCHANGED <<netlist, model, col, bottom, todo>>

-----------------------------------------------------------------------------
(***************************************************************************)
(* The wires that come out: at a column (vertical) or in a row, with the    *)
(* places where they are connected.  joints are the ones among them where a *)
(* wire runs across; an anchor is a connection without a wire.              *)
(***************************************************************************)
Joint(c, net) == IF Anchor(c, net) THEN {} ELSE {geometry.y[c][net]}

InputWire(n) ==
    LET l == LayerOf(tree, n)
        net == tree.nodes[n].in
    IN  [net |-> net, vertical |-> TRUE, at |-> col[n], end |-> IF tree.nodes[n].invert
                                                             THEN "input" ELSE "none",
         stops |-> {geometry.y[l][net], geometry.ypos[l]}, joints |-> Joint(l, net)]

TopAnchor(n) ==
    IF \E k \in 1..Len(tree.top) : tree.top[k].node = n THEN {geometry.height - 1} ELSE {}

OutputWire(n) ==
    LET l == LayerOf(tree, n)
        net == tree.nodes[n].out
    IN  [net |-> net, vertical |-> TRUE, at |-> col[n], end |-> IF tree.nodes[n].invert
                                                             THEN "output" ELSE "none",
         stops |-> {geometry.ypos[l] + 2, geometry.y[l + 1][net]} \cup TopAnchor(n),
         joints |-> Joint(l + 1, net)]

PassThrough(n) ==
    [net |-> tree.nodes[n].in, vertical |-> TRUE, at |-> col[n], end |-> "none",
     stops |-> LET y == geometry.ypos[LayerOf(tree, n)] IN {y, y + 2}, joints |-> {}]

BottomWire(b) ==
    LET net == tree.bottom[b].net
    IN  [net |-> net, vertical |-> TRUE, at |-> bottom[b], end |-> "none",
         stops |-> {geometry.y[1][net]} \cup IF tree.bottom[b].iface = Loose THEN {} ELSE {0},
         joints |-> Joint(1, net)]

Horizontal(c, net) ==
    [net |-> net, vertical |-> FALSE, at |-> geometry.y[c][net], end |-> "none",
     stops |-> ColumnsOf(c, net), joints |-> ColumnsOf(c, net)]

\* applyToWires, in its order: the order in which blocks are written.
ChannelWires(c) ==
    LET Wires(net) == IF Anchor(c, net) THEN <<>> ELSE <<Horizontal(c, net)>>
    IN  FlattenSeq([k \in 1..Len(tree.channels[c]) |-> Wires(tree.channels[c][k])])

NodeWires(n) ==
    <<InputWire(n), OutputWire(n)>> \o
        IF tree.nodes[n].invert THEN <<>> ELSE <<PassThrough(n)>>

DrawnWires ==
    [b \in 1..Len(tree.bottom) |-> BottomWire(b)] \o ChannelWires(1) \o
    FlattenSeq([l \in Layers |-> ChannelWires(l + 1) \o
        FlattenSeq([k \in 1..Len(NodeSeq(l)) |-> NodeWires(NodeSeq(l)[k])])])
=============================================================================
