-------------------------- MODULE ChannelRouting --------------------------
(***************************************************************************)
(* What a channel router promises, without saying how: vertical wires take *)
(* columns one at a time, in any order, such that the channel can still be *)
(* routed, and in the end every net's horizontal wire has a row such that  *)
(* no two nets touch.  DivisiveWires implements it.                        *)
(***************************************************************************)
EXTENDS Integers, FiniteSets

CONSTANTS Nets, Crossers, NetOf, FromBelow, Columns, NoColumn, Rows, Unrouted

VARIABLES pos, rows

channel == <<pos, rows>>

\* The net from below and the net from above that meet in a column of layout p.
Meet(p, below, above) ==
    \E b \in FromBelow, a \in Crossers \ FromBelow :
        /\ p[b] = p[a]
        /\ p[b] # NoColumn
        /\ NetOf[b] = below
        /\ NetOf[a] = above

\* Rows could be given to the nets such that every column is respected.
Routable(p) ==
    \E height \in [Nets -> 1 .. Cardinality(Nets)] :
        \A below, above \in Nets :
            below # above /\ Meet(p, below, above) => height[below] < height[above]

ColumnFree(c, col) ==
    \A d \in Crossers : (d \in FromBelow <=> c \in FromBelow) => pos[d] # col

Touched(n) == {pos[c] : c \in {d \in Crossers : NetOf[d] = n}}

\* Nets that only pass the channel in one column need no horizontal wire.
Horizontal == {n \in Nets : \E x, y \in Touched(n) : x # y}

\* A free column is left between two extents: a net that ends at column x may
\* have a neighbour that starts beyond x + 1.
Apart(m, n) ==
    \/ \A x \in Touched(m), y \in Touched(n) : x + 1 < y
    \/ \A x \in Touched(m), y \in Touched(n) : y + 1 < x

NoContact(r) ==
    /\ \A below, above \in Horizontal :
          below # above /\ Meet(pos, below, above) => r[below] < r[above]
    /\ \A m, n \in Horizontal : m # n /\ r[m] = r[n] => Apart(m, n)

Init == pos = [c \in Crossers |-> NoColumn] /\ rows = Unrouted

Place(c, col) ==
    /\ rows = Unrouted
    /\ pos[c] = NoColumn
    /\ ColumnFree(c, col)
    /\ pos' = [pos EXCEPT ![c] = col]
    /\ Routable(pos')
    /\ UNCHANGED rows

Route ==
    /\ rows = Unrouted
    /\ \A c \in Crossers : pos[c] # NoColumn
    /\ rows' \in [Nets -> Rows]
    /\ NoContact(rows')
    /\ UNCHANGED pos

Next ==
    \/ \E c \in Crossers, col \in Columns : Place(c, col)
    \/ Route

Spec == Init /\ [][Next]_channel
=============================================================================
