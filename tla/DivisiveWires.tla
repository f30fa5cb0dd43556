--------------------------- MODULE DivisiveWires ---------------------------
(***************************************************************************)
(* The channel router of the spatial tree model.  A DivisiveWires object   *)
(* is the channel between two layers: its CollectedWires are horizontal    *)
(* wires, one per net, and vertical wires ("crossers") reach it from the   *)
(* layer above and from the layer below.  While the layers' nodes are      *)
(* being placed, tryInsertCrosser puts one crosser after the other at a    *)
(* column; a crosser from above and one from below that meet in a column   *)
(* force the wire of the lower one below the wire of the upper one.  The   *)
(* relation less_ accumulates these constraints and mayBeCrossed refuses   *)
(* a column that would contradict it.  Afterwards computePositions sorts   *)
(* the wires topologically, gives each a row of its own and drops every    *)
(* wire as far as the other wires allow.                                   *)
(*                                                                         *)
(* Wires are named by their index_, crossers by model values.  The order   *)
(* in which crossers arrive is the placement algorithm's; here it is       *)
(* arbitrary.  release() is not an action: its only caller is              *)
(* MutableLayer::createShortcuts, whose call is commented out              *)
(* (treemodel.cpp:387).                                                    *)
(***************************************************************************)
EXTENDS Integers, FiniteSets, Sequences

CONSTANTS
    NumWires,   \* nextIndex_: the number of CollectedWires of the channel
    Crossers,   \* the vertical wires that will be placed across the channel
    Liaison,    \* Liaison[c]: the CollectedWire of c's net, find(*c.connection_)
    FromBelow,  \* the crossers of the layer that owns the channel
    Columns,    \* the x positions the placement may try
    NoColumn    \* a crosser without a position: !hasPosition()

Wires == 0 .. NumWires - 1

ASSUME NumWiresAssumption == NumWires \in Nat
ASSUME CrossersAssumption == /\ Liaison \in [Crossers -> Wires]
                             /\ FromBelow \subseteq Crossers
                             /\ IsFiniteSet(Crossers)
ASSUME ColumnsAssumption  == /\ Columns \subseteq Nat
                             /\ IsFiniteSet(Columns)
                             /\ NoColumn \notin Columns

FromAbove == Crossers \ FromBelow

VARIABLES
    pos,            \* the crossers' positions; they key both SortedCrossers
    less,           \* less_, as the set of pairs <<lesser, greater>>
    predecessors,   \* predecessors_: lists whose entries are tagged by their column
    numSuccessors,  \* numSuccessors_
    phase,          \* "place", then computePositions: "order", "drop", "done"
    remainingSucc,  \* the local copy of numSuccessors_ in ascendingOrder
    order,          \* the forward_list ascendingOrder builds, front first
    relpos,         \* relativePosition_ of every CollectedWire
    next            \* the place in order of the wire to be dropped next

vars == <<pos, less, predecessors, numSuccessors, phase, remainingSucc, order, relpos, next>>
placed == <<pos, less, predecessors, numSuccessors>>

-----------------------------------------------------------------------------
(* Crossers and the wires they are connected to                            *)

SameSide(c, d) == c \in FromBelow <=> d \in FromBelow

\* The crossers that cross at a column, per side: a lookup in crossersFromBelow_
\* or crossersFromAbove_, which are std::sets ordered by position.
CrosserAt(side, col) == {c \in side : pos[c] = col}

OppositeSide(c) == IF c \in FromBelow THEN FromAbove ELSE FromBelow
OwnSide(c)      == IF c \in FromBelow THEN FromBelow ELSE FromAbove

\* connected(pos, below): the wires connected to the crosser at a column.
Connected(side, col) == {Liaison[c] : c \in CrosserAt(side, col)}

\* The columns at which crossers of the wire's own net arrive: the keys of its
\* sorted_crossers_, since tryInsertCrosser hands a crosser to its liaison only.
ColumnsOf(w) == {pos[c] : c \in {d \in Crossers : Liaison[d] = w /\ pos[d] # NoColumn}}

\* compare(counterpart, liaison, newFromAbove): does the relation order the
\* counterpart on the wrong side of the liaison?
Contradicts(c, counterpart) ==
    IF c \in FromBelow THEN <<counterpart, Liaison[c]>> \in less
                       ELSE <<Liaison[c], counterpart>> \in less

\* Mutants of MayBeCrossed: no look at the order, and the comparison reversed.
MayBeCrossedIgnoringOrder(c, col) == CrosserAt(OwnSide(c), col) = {}

MayBeCrossedReversed(c, col) ==
    /\ CrosserAt(OwnSide(c), col) = {}
    /\ \A counterpart \in Connected(OppositeSide(c), col) :
          \/ counterpart = Liaison[c]
          \/ IF c \in FromBelow THEN <<Liaison[c], counterpart>> \notin less
                                ELSE <<counterpart, Liaison[c]>> \notin less

\* mayBeCrossed: the column is free on the crosser's side, and either the wire
\* itself is already connected there from the other side, or the wire connected
\* there may be ordered as the two crossers require.
MayBeCrossed(c, col) ==
    /\ CrosserAt(OwnSide(c), col) = {}
    /\ \A counterpart \in Connected(OppositeSide(c), col) :
          counterpart = Liaison[c] \/ ~Contradicts(c, counterpart)

-----------------------------------------------------------------------------
(* makeLess keeps less_ transitively closed                                *)

\* The first loop: the column of gr and the row of le.
Borders(rel, le, gr) ==
    LET direct == rel \cup {<<le, gr>>}
    IN  direct \cup {<<i, gr>> : i \in {x \in Wires : <<x, le>> \in direct}}
               \cup {<<le, i>> : i \in {x \in Wires : <<gr, x>> \in direct}}

\* less_[le][gr] = true and both loops of makeLess.  Neither loop reads an entry
\* that it has changed, so the passes over the matrix are unions of sets.
ExtendClosure(rel, le, gr) ==
    LET borders == Borders(rel, le, gr)
    IN  borders \cup {e \in Wires \X Wires : <<e[1], le>> \in borders /\ <<gr, e[2]>> \in borders}

MakeLess(le, gr, col) ==
    /\ less' = ExtendClosure(less, le, gr)
    /\ predecessors' = [predecessors EXCEPT ![gr] = @ \cup {<<le, col>>}]
    /\ numSuccessors' = [numSuccessors EXCEPT ![le] = @ + 1]

\* Mutant of ExtendRelation: only a crosser from below orders its liaison.
ExtendRelationFromBelow(c, col) ==
    LET counterparts == Connected(OppositeSide(c), col) \ {Liaison[c]}
    IN  \/ /\ counterparts = {} \/ c \notin FromBelow
           /\ UNCHANGED <<less, predecessors, numSuccessors>>
        \/ \E counterpart \in counterparts :
              c \in FromBelow /\ MakeLess(Liaison[c], counterpart, col)

\* extendRelation: nothing to order unless another wire is connected at the
\* column from the other side.
ExtendRelation(c, col) ==
    LET counterparts == Connected(OppositeSide(c), col) \ {Liaison[c]}
    IN  \/ /\ counterparts = {}
           /\ UNCHANGED <<less, predecessors, numSuccessors>>
        \/ \E counterpart \in counterparts :
              IF c \in FromBelow THEN MakeLess(Liaison[c], counterpart, col)
                                 ELSE MakeLess(counterpart, Liaison[c], col)

-----------------------------------------------------------------------------
Init ==
    /\ pos = [c \in Crossers |-> NoColumn]
    /\ less = {}
    /\ predecessors = [w \in Wires |-> {}]
    /\ numSuccessors = [w \in Wires |-> 0]
    /\ phase = "place"
    /\ remainingSucc = [w \in Wires |-> 0]
    /\ order = <<>>
    /\ relpos = [w \in Wires |-> 2 * w]
    /\ next = 1

\* A placement loop (Node::clearSpace, NodeGroup::placeNode, placeBottomWires)
\* found a column that mayCross accepts and set the crosser's position, which
\* inserts the crosser with tryInsertCrosser.
TryInsertCrosser(c, col) ==
    /\ phase = "place"
    /\ pos[c] = NoColumn
    /\ MayBeCrossed(c, col)
    /\ pos' = [pos EXCEPT ![c] = col]
    /\ ExtendRelation(c, col)
    /\ UNCHANGED <<phase, remainingSucc, order, relpos, next>>

\* computePositions is called once everything is placed; ascendingOrder starts
\* by copying the successor counts.
ComputePositions ==
    /\ phase = "place"
    /\ \A c \in Crossers : pos[c] # NoColumn
    /\ phase' = "order"
    /\ remainingSucc' = numSuccessors
    /\ UNCHANGED <<placed, order, relpos, next>>

Ordered == {order[i] : i \in 1 .. Len(order)}

\* primaryEquals: the wires not yet taken whose greater wires all have been.
PrimaryEquals == {w \in Wires \ Ordered : remainingSucc[w] = 0}

\* Mutant of ReleasePredecessors: a list without duplicates.
ReleasePredecessorsOnce(w) ==
    [p \in Wires |-> IF \E e \in predecessors[w] : e[1] = p
                     THEN remainingSucc[p] - 1 ELSE remainingSucc[p]]

\* The counts after the entries of wire w's predecessor list have been released.
ReleasePredecessors(w) ==
    [p \in Wires |-> remainingSucc[p] - Cardinality({e \in predecessors[w] : e[1] = p})]

\* One round of ascendingOrder's loop.  SecondaryComparator breaks ties by the
\* number of isolated upper inputs; any ready wire may be taken here.
TakeGreatest(w) ==
    /\ phase = "order"
    /\ w \in PrimaryEquals
    /\ order' = <<w>> \o order
    /\ remainingSucc' = ReleasePredecessors(w)
    /\ UNCHANGED <<placed, phase, relpos, next>>

\* Mutant of RowsInOrder: counting the front of the list as the row below 0.
RowsOneOff ==
    [w \in Wires |-> IF w \in Ordered
                     THEN 2 * ((CHOOSE i \in 1 .. Len(order) : order[i] = w) - 2)
                     ELSE relpos[w]]

\* computePositions' first loop: rows 0, 2, 4, ... in ascending order.
RowsInOrder ==
    [w \in Wires |-> IF w \in Ordered
                     THEN 2 * ((CHOOSE i \in 1 .. Len(order) : order[i] = w) - 1)
                     ELSE relpos[w]]

AssignRows ==
    /\ phase = "order"
    /\ PrimaryEquals = {}
    /\ relpos' = RowsInOrder
    /\ phase' = "drop"
    /\ UNCHANGED <<placed, remainingSucc, order, next>>

-----------------------------------------------------------------------------
(* Dropping                                                                 *)

\* computeExtents: from the first to one past the last connected crosser.
Start(w) == CHOOSE s \in ColumnsOf(w) : \A t \in ColumnsOf(w) : s <= t
End(w)   == 1 + (CHOOSE s \in ColumnsOf(w) : \A t \in ColumnsOf(w) : t <= s)

\* tryBecomeAnchor: a wire with a single crossing is no wire at all.  A wire
\* nothing crosses, at which computeExtents asserts, counts as one.
Anchor(w) == Cardinality(ColumnsOf(w)) <= 1

DisjointExtents(v, w) == End(w) < Start(v) \/ Start(w) > End(v)

\* Mutants of DropCollision: one of its two tests alone.
DropCollisionExtentsOnly(w, row, other) ==
    relpos[other] = row /\ ~DisjointExtents(w, other)

DropCollisionOrderOnly(w, row, other) ==
    row <= relpos[other] /\ <<other, w>> \in less

\* DivisiveWires::dropCollision, then Wires::dropCollision.
DropCollision(w, row, other) ==
    \/ row <= relpos[other] /\ <<other, w>> \in less
    \/ relpos[other] = row /\ ~DisjointExtents(w, other)

Blocked(w, row) == \E other \in Wires : ~Anchor(other) /\ DropCollision(w, row, other)

EvenRows(bound) == {row \in 0 .. bound : row % 2 = 0}

\* Mutants of LandingRow: stop at the first collision on the way down, and rely
\* on the wire's collision with itself instead of the bound of the loop.
LandingRowFromAbove(w) ==
    IF Anchor(w) THEN {0}
    ELSE {row \in EvenRows(relpos[w]) :
             /\ \A q \in EvenRows(relpos[w]) : row <= q /\ q < relpos[w] => ~Blocked(w, q)
             /\ row = 0 \/ Blocked(w, row - 2)}

LandingRowUnbounded(w) ==
    IF Anchor(w) THEN {0}
    ELSE {row \in EvenRows(relpos[w]) :
             /\ ~Blocked(w, row)
             /\ \A lower \in EvenRows(row) : lower = row \/ Blocked(w, lower)}

\* dropHorizontalCollected: row 0 for an anchor, else the first row from the
\* bottom that does not collide, at most the present one.
LandingRow(w) ==
    IF Anchor(w) THEN {0}
    ELSE {row \in EvenRows(relpos[w]) :
             /\ row = relpos[w] \/ ~Blocked(w, row)
             /\ \A lower \in EvenRows(row) : lower = row \/ Blocked(w, lower)}

\* computePositions' second loop drops the wires in ascending order.
DropNext ==
    /\ phase = "drop"
    /\ next <= Len(order)
    /\ \E row \in LandingRow(order[next]) : relpos' = [relpos EXCEPT ![order[next]] = row]
    /\ next' = next + 1
    /\ UNCHANGED <<placed, phase, remainingSucc, order>>

Finish ==
    /\ phase = "drop"
    /\ next > Len(order)
    /\ phase' = "done"
    /\ UNCHANGED <<placed, remainingSucc, order, relpos, next>>

Terminated == phase = "done" /\ UNCHANGED vars

Next ==
    \/ \E c \in Crossers, col \in Columns : TryInsertCrosser(c, col)
    \/ ComputePositions
    \/ \E w \in Wires : TakeGreatest(w)
    \/ AssignRows
    \/ DropNext
    \/ Finish
    \/ Terminated

\* One thread runs the algorithm to its end.
Spec == Init /\ [][Next]_vars /\ WF_vars(Next)
-----------------------------------------------------------------------------
(* Properties                                                               *)

\* Types of the router's state; pos is typed by the columns tried.
TypeOK ==
    /\ pos \in [Crossers -> Columns \cup {NoColumn}]
    /\ less \subseteq Wires \X Wires
    /\ predecessors \in [Wires -> SUBSET (Wires \X Columns)]
    /\ numSuccessors \in [Wires -> Nat]
    /\ phase \in {"place", "order", "drop", "done"}
    /\ remainingSucc \in [Wires -> Int]
    /\ order \in Seq(Wires)
    /\ relpos \in [Wires -> Nat]
    /\ next \in Nat \ {0}

\* What the columns require: <<b, a>> when wire b is connected from below in a
\* column in which another wire a is connected from above.
ColumnPairs ==
    {e \in Wires \X Wires :
        \E b \in FromBelow, a \in FromAbove :
            /\ pos[b] # NoColumn
            /\ pos[b] = pos[a]
            /\ Liaison[b] # Liaison[a]
            /\ e = <<Liaison[b], Liaison[a]>>}

\* Each column's constraint is in less_, whichever of its two crossers came
\* second: a collision that extendRelation overlooked would make two vertical
\* wires overlap.
ColumnsOrdered == ColumnPairs \subseteq less

\* No two crossers of the same layer ever share a column.
ColumnsExclusive ==
    \A c, d \in Crossers :
        c # d /\ SameSide(c, d) /\ pos[c] # NoColumn => pos[c] # pos[d]

\* less_ stays a strict partial order.  The code asserts only that no two
\* different wires are each less than the other (checkStrictPartialOrdering);
\* a sequence of crossings closing a longer cycle, or a wire below itself, would
\* make ascendingOrder lose wires.
StrictPartialOrder ==
    /\ \A w \in Wires : <<w, w>> \notin less
    /\ \A u, v, w \in Wires : <<u, v>> \in less /\ <<v, w>> \in less => <<u, w>> \in less

\* The incremental update of makeLess computes the transitive closure of the
\* columns' constraints, no more: an entry too few lets a cycle in later, an
\* entry too many refuses columns for no reason.
LessIsColumnClosure ==
    LET pairs == ColumnPairs
        Longer(c) ==
            c \cup {<<x[1][1], x[2][2]>> : x \in {y \in c \X c : y[1][2] = y[2][1]}}
        chains[n \in 0 .. NumWires] == IF n = 0 THEN pairs ELSE Longer(chains[n - 1])
    IN  less = chains[NumWires]

\* ascendingOrder's counters reach zero for every wire: the order is complete
\* and no count was left over or wrapped below zero.
OrderComplete ==
    phase \in {"drop", "done"} =>
        /\ Ordered = Wires
        /\ Len(order) = NumWires
        /\ \A w \in Wires : remainingSucc[w] = 0

\* Once rows are assigned, and at every moment while wires are dropping, a wire
\* that must be below another is in a lower row: dropCollision's assertion.
RowsRespectOrder ==
    phase \in {"drop", "done"} =>
        \A v, w \in Wires :
            <<v, w>> \in less /\ ~Anchor(v) /\ ~Anchor(w) => relpos[v] < relpos[w]

\* The routed channel has no short circuit between two horizontal wires: wires
\* that share a row keep a free block between their extents.
RowsSeparated ==
    phase \in {"drop", "done"} =>
        \A v, w \in Wires :
            v # w /\ ~Anchor(v) /\ ~Anchor(w) /\ relpos[v] = relpos[w] =>
                DisjointExtents(v, w)

\* The routed channel is tight: no wire could be dropped any further, although
\* every wire was dropped only once, in ascending order.
RowsTight ==
    phase = "done" =>
        \A w \in Wires : ~Anchor(w) =>
            \A row \in EvenRows(relpos[w]) : row = relpos[w] \/ Blocked(w, row)

\* Every crosser finds a column and the channel is routed.
Routed == <>(phase = "done")

-----------------------------------------------------------------------------
(* Implementation of the abstract channel                                  *)

Channel == INSTANCE ChannelRouting WITH
    Nets     <- Wires,
    NetOf    <- Liaison,
    Rows     <- EvenRows(2 * NumWires),
    Unrouted <- <<>>,
    rows     <- IF phase = "done" THEN relpos ELSE <<>>

\* The router implements the abstract channel: no sequence of accepted columns
\* makes the channel unroutable, and the rows it ends with connect no two nets.
ImplementsChannel == Channel!Spec

\* mayBeCrossed is exact: it refuses a column only if the column is taken or the
\* channel could not be routed with the crosser there.
RefusesOnlyUnroutable ==
    phase = "place" =>
        \A c \in Crossers, col \in Columns :
            pos[c] = NoColumn /\ ~MayBeCrossed(c, col) /\ Channel!ColumnFree(c, col)
            => ~Channel!Routable([pos EXCEPT ![c] = col])
=============================================================================
