----------------------------- MODULE BlockLayout -----------------------------
(***************************************************************************)
(* BGTree's drawing: TreeModel::toBlocks writes the wires and then the      *)
(* inverters into a space of blocks four high.  A vertical wire lies on the *)
(* ground, a horizontal one crosses it two blocks higher, and where the two *)
(* are connected both step to the height between.  What is written later    *)
(* replaces what was there, so the order of the wires matters.  A space is  *)
(* the function from the cells written, <<height, x, y>>, to their blocks.  *)
(***************************************************************************)
EXTENDS Repeaters

Right == 0
Forward == 1
Left == 2
Backward == 3

Block(kind) == [kind |-> kind, dir |-> Right]
Oriented(kind, dir) == [kind |-> kind, dir |-> dir]

KindAt(space, cell) == IF cell \in DOMAIN space THEN space[cell].kind ELSE "unset"

-----------------------------------------------------------------------------
(***************************************************************************)
(* Wires and the repeaters on them.                                         *)
(***************************************************************************)
Cell(w, height, at) == IF w.vertical THEN <<height, w.at, at>> ELSE <<height, at, w.at>>

Ground(w, at) == IF at \in w.joints THEN 1 ELSE IF w.vertical THEN 0 ELSE 2

\* Wire::toBlocks without the repeaters.
WireBlocks(w) ==
    LET span == Min(w.stops)..Max(w.stops)
    IN  Over([c \in {Cell(w, Ground(w, at), at) : at \in span} |-> Block("opaque")],
             [c \in {Cell(w, Ground(w, at) + 1, at) : at \in span} |-> Block("redstone")])

RepeaterAt(r) == IF r.backwards THEN r.seg.to - r.offset ELSE r.seg.from + r.offset

\* The repeaters on a segment that is, or is part of, one of the wire's.
RepeatersOn(w) ==
    {r \in repeaters :
        /\ r.seg.vertical = w.vertical /\ r.seg.at = w.at
        /\ \E s \in WireSegments(w) : /\ r.seg.from <= s.from /\ s.to <= r.seg.to
                                      /\ RepeaterAt(r) \in s.from..s.to}

OrientationOf(r) ==
    IF r.seg.vertical THEN IF r.backwards THEN Backward ELSE Forward
    ELSE IF r.backwards THEN Left ELSE Right

\* Wire::placeRepeaters.
PlacedRepeaters(w) ==
    LET height == IF w.vertical THEN 1 ELSE 3
        on == RepeatersOn(w)
    IN  [c \in {Cell(w, height, RepeaterAt(r)) : r \in on} |->
            Oriented("repeater", OrientationOf(
                CHOOSE r \in on : Cell(w, height, RepeaterAt(r)) = c))]

-----------------------------------------------------------------------------
(***************************************************************************)
(* Node::mkInverter: redstone, the opaque block it powers and the torch.    *)
(***************************************************************************)
Baseline(n) == IF n \in geometry.low THEN 1 ELSE 2
YPos(n) == geometry.ypos[LayerOf(tree, n)]

TorchCell(n) == <<Baseline(n), col[n], YPos(n) + 2>>

InverterBlocks(n) ==
    LET At(height, y) == <<height, col[n], YPos(n) + y>>
    IN  Over(Single(At(Baseline(n), 2), Oriented("torch", Forward)),
        Over(Single(At(Baseline(n), 1), Block("opaque")),
        Over(Single(At(Baseline(n) + 1, 0), Block("unset")),
        Over(Single(At(Baseline(n), 0), Block("redstone")),
             Single(At(Baseline(n) - 1, 0), Block("opaque"))))))

DrawnWire(space, w) == Over(PlacedRepeaters(w), Over(WireBlocks(w), space))

DrawnNode(space, n) ==
    IF tree.nodes[n].invert THEN Over(InverterBlocks(n), space) ELSE space

NodeOrder == FlattenSeq([l \in Layers |-> NodeSeq(l)])

\* TreeModel::toBlocks.
Drawing ==
    FoldLeft(LAMBDA space, n : DrawnNode(space, n),
             FoldLeft(LAMBDA space, w : DrawnWire(space, w), <<>>, DrawnWires), NodeOrder)

\* toInterface: where an interface's wire ends, on the joint if it ends in one.
WireOfIface(i) ==
    IF i \in InIfaces
    THEN BottomWire(CHOOSE b \in DOMAIN bottom : tree.bottom[b].iface = i)
    ELSE OutputWire(tree.top[CHOOSE k \in DOMAIN tree.top : tree.top[k].iface = i].node)

IfaceCell(i) ==
    LET w == WireOfIface(i)
        y == IF i \in InIfaces THEN 0 ELSE geometry.height - 1
        onNode == i \in InIfaces /\ geometry.ypos[1] = 0
    IN  <<IF onNode \/ y \in w.joints THEN 2 ELSE 1, w.at, y>>
=============================================================================
