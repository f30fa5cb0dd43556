------------------------------ MODULE BlocksSim ------------------------------
(***************************************************************************)
(* BGTree::execute tests what it has drawn: BlocksSim (blockssim.cpp and    *)
(* blocks/) turns on one source at a time, the torch of an inverter or an   *)
(* input interface, and lets redstone carry the power; as long as it        *)
(* reaches repeaters these are switched on and everything else off, until   *)
(* no repeater is reached any more.  TreeModel::assessLinks collects which  *)
(* torches and output interfaces the source has reached.                    *)
(*                                                                         *)
(* A block hands its power on to the blocks next to it that init_internal   *)
(* found.  The queue empties when no power can grow, which leaves the same  *)
(* powers whatever its order: they are computed from the highest down.      *)
(***************************************************************************)
EXTENDS BlockLayout

VARIABLES
    blocks,  \* the space drawn
    tests,   \* the sources still to be tested
    sim,     \* the source under test, what is reached now and has been so far
    links    \* pairs of a source and a destination it has reached

simulation == <<blocks, tests, sim, links>>

-----------------------------------------------------------------------------
(***************************************************************************)
(* next_: what a block powers.                                              *)
(***************************************************************************)
Directions == {Right, Forward, Left, Backward}

Side(cell, dir) ==
    <<cell[1], cell[2] + (CASE dir = Right -> 1 [] dir = Left -> -1 [] OTHER -> 0),
      cell[3] + (CASE dir = Forward -> 1 [] dir = Backward -> -1 [] OTHER -> 0)>>

Above(cell) == <<cell[1] + 1, cell[2], cell[3]>>
Below(cell) == <<cell[1] - 1, cell[2], cell[3]>>

Facing(s, cell, kind, dir) ==
    KindAt(s, cell) = kind /\ s[cell].dir = dir

\* The redstone, or the repeater, that redstone is connected to on one side.
Joined(s, cell, dir) ==
    LET side == Side(cell, dir)
    IN  IF KindAt(s, side) = "repeater"
        THEN {c \in {side} : s[c].dir = dir}
        ELSE IF KindAt(s, Above(cell)) # "opaque" /\ KindAt(s, Above(side)) = "redstone"
        THEN {Above(side)}
        ELSE IF KindAt(s, side) = "redstone" THEN {side}
        ELSE {c \in {Below(side)} : KindAt(s, c) = "redstone" /\ KindAt(s, side) # "opaque"}

\* Redstone points at an opaque block beside it unless it turns off before it.
PointedAt(s, cell) ==
    {Side(cell, dir) : dir \in {d \in Directions :
        /\ KindAt(s, Side(cell, d)) = "opaque"
        /\ Joined(s, cell, (d + 1) % 4) = {} /\ Joined(s, cell, (d + 3) % 4) = {}}}

NextOfRedstone(s, cell) ==
    {c \in {Below(cell)} : KindAt(s, c) = "opaque"}
    \cup PointedAt(s, cell) \cup UNION {Joined(s, cell, dir) : dir \in Directions}

NextOfOpaque(s, cell) ==
    {c \in {Above(cell)} : KindAt(s, c) \in {"redstone", "torch"}}
    \cup {Side(cell, dir) : dir \in {d \in Directions :
            \/ KindAt(s, Side(cell, d)) = "redstone"
            \/ Facing(s, Side(cell, d), "repeater", d)
            \/ Facing(s, Side(cell, d), "torch", d)}}

NextOfTorch(s, cell) ==
    {c \in {Above(cell)} : KindAt(s, c) = "opaque"}
    \cup {c \in {Below(cell)} : KindAt(s, c) = "redstone"}
    \cup {Side(cell, dir) : dir \in {d \in Directions :
            \/ KindAt(s, Side(cell, d)) = "redstone"
            \/ Facing(s, Side(cell, d), "repeater", d)}}

NextOfRepeater(s, cell) ==
    LET front == Side(cell, s[cell].dir)
    IN  {c \in {front} : \/ KindAt(s, c) \in {"opaque", "redstone"}
                         \/ Facing(s, c, "repeater", s[cell].dir)}

Cells(s, kind) == {c \in DOMAIN s : s[c].kind = kind}

\* BSRepeater::init_internal asserts what a repeater faces, unless nothing is there.
RepeaterFaces(s, cell) ==
    LET front == Side(cell, s[cell].dir)
    IN  \/ front[3] \notin 0..(geometry.height - 1)
        \/ KindAt(s, front) \in {"redstone", "repeater", "opaque"}

-----------------------------------------------------------------------------
(***************************************************************************)
(* propagate, from delay blocks that are on and redstone that is set.       *)
(***************************************************************************)
\* The redstone that gets power: one block less at each step.
Lit(s, first) ==
    FoldLeft(LAMBDA lit, k :
                [all |-> lit.all \cup lit.edge,
                 edge |-> {c \in UNION {NextOfRedstone(s, d) : d \in lit.edge} :
                                s[c].kind = "redstone"} \ (lit.all \cup lit.edge)],
             [all |-> {}, edge |-> first], [k \in 1..MaxWireLength |-> k]).all

Propagate(s, on, set) ==
    LET fromOn == UNION {IF s[c].kind = "torch" THEN NextOfTorch(s, c)
                         ELSE NextOfRepeater(s, c) : c \in on}
        strong == {c \in fromOn : s[c].kind = "opaque"}
        fromStrong == UNION {NextOfOpaque(s, c) : c \in strong}
        lit == Lit(s, set \cup {c \in fromOn \cup fromStrong : s[c].kind = "redstone"})
        fromLit == UNION {NextOfRedstone(s, c) : c \in lit}
        weak == {c \in fromLit : s[c].kind = "opaque"}
        fromWeak == UNION {NextOfOpaque(s, c) : c \in weak}
    IN  [on |-> on, lit |-> lit,
         hit |-> {c \in fromOn \cup fromStrong \cup fromLit \cup fromWeak :
                    s[c].kind \in {"torch", "repeater"}}]

-----------------------------------------------------------------------------
(***************************************************************************)
(* assessLinks.                                                             *)
(***************************************************************************)
Idle == [source |-> 0, on |-> {}, lit |-> {}, hit |-> {}]
Inverters == {n \in Nodes : tree.nodes[n].invert}

NetOfSource(s) == IF s \in InIfaces THEN netlist.ifaceMap[s] ELSE tree.nodes[s].out
NetOfDestination(d) == IF d \in OutIfaces THEN netlist.ifaceMap[d] ELSE tree.nodes[d].in

Reached(r) ==
    {n \in Inverters : TorchCell(n) \in r.hit} \cup
    {i \in OutIfaces : IfaceCell(i) \in r.lit \cup r.on}

NotSimulated == blocks = <<>> /\ tests = <<>> /\ sim = Idle /\ links = {}

Run(source, r) == [source |-> source, on |-> r.on, lit |-> r.lit, hit |-> r.hit]

\* The order in which assessLinks tests the inverters.
InverterOrder ==
    LET Torch(n) == IF tree.nodes[n].invert THEN <<n>> ELSE <<>>
    IN  FlattenSeq([k \in 1..Len(NodeOrder) |-> Torch(NodeOrder[k])])

\* BGTree::execute up to assessLinks: the constructor of BlocksSim finds an interface
\* on a block it simulates.
ToBlocks ==
    /\ stage = "blocks"
    /\ \E space \in {Drawing} :
          /\ {c \in Cells(space, "repeater") : ~RepeaterFaces(space, c)} = {}
          /\ {i \in InIfaces \cup OutIfaces : KindAt(space, IfaceCell(i)) = "unset"} = {}
          /\ blocks' = space
    /\ stage' = "assess"
    /\ tests' = InverterOrder \o SetToSeq(InIfaces)
    /\ UNCHANGED <<netlist, model, placement, repair, sim, links>>

\* test: the torch of the source alone is on, or the interface's redstone is set.
Test ==
    LET s == Head(tests)
        start == IF s \in InIfaces THEN Propagate(blocks, {}, {IfaceCell(s)})
                 ELSE Propagate(blocks, {TorchCell(s)}, {})
    IN  /\ stage = "assess" /\ sim = Idle /\ tests # <<>>
        /\ \E r \in {start} : /\ sim' = Run(s, r)
                              /\ links' = links \cup {<<s, d>> : d \in Reached(r)}
        /\ tests' = Tail(tests)
        /\ UNCHANGED <<netlist, stage, model, placement, repair, blocks>>

RepeatersHit == {c \in sim.hit : blocks[c].kind = "repeater"}

\* extendTest: the repeaters reached are on, the torches stay off.
ExtendTest ==
    /\ sim # Idle /\ RepeatersHit # {}
    /\ \E r \in {Propagate(blocks, RepeatersHit, {})} :
          /\ sim' = Run(sim.source, r)
          /\ links' = links \cup {<<sim.source, d>> : d \in Reached(r)}
    /\ UNCHANGED <<netlist, stage, model, placement, repair, blocks, tests>>

FinishTest ==
    /\ sim # Idle /\ RepeatersHit = {}
    /\ sim' = Idle
    /\ UNCHANGED <<netlist, stage, model, placement, repair, blocks, tests, links>>

\* hasBrokenLinks is asserted to be false.
BrokenLinks ==
    {p \in (Inverters \cup InIfaces) \X (Inverters \cup OutIfaces) :
        NetOfSource(p[1]) = NetOfDestination(p[2])} \ links

FinishBlocks ==
    /\ stage = "assess" /\ sim = Idle /\ tests = <<>>
    /\ BrokenLinks = {}
    /\ stage' = "done"
    /\ UNCHANGED <<netlist, model, placement, repair, simulation>>
=============================================================================
