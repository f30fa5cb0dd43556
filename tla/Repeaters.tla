------------------------------ MODULE Repeaters ------------------------------
(***************************************************************************)
(* TreeModel::fixBrokenLinks (fixoverlongwires_impl.cpp): in every          *)
(* connection the paths from each inverter output or input interface to     *)
(* each inverter input or output interface are followed along the wires,    *)
(* and repeaters are placed, the best position first, until no path has a   *)
(* stretch longer than redstone carries.  Where no position is left the     *)
(* connection's vertex is split and Netlist2Tree starts over.               *)
(*                                                                         *)
(* The paths of two connections share no wire, so the order in which the    *)
(* code takes connections, that of their addresses, makes no difference:    *)
(* they are taken by vertex.                                                *)
(***************************************************************************)
EXTENDS TreePlacement

CONSTANT MaxPower  \* the power of a source: 16, and each block takes one

ASSUME MaxPowerAssumption == MaxPower \in Nat \ {0}

VARIABLES
    pending,    \* the connections fixBrokenLinks has yet to take
    route,      \* paths and positions of the one it works on, or NoRoute
    repeaters,  \* the repeaters placed
    broken,     \* the vertices it will return
    timing      \* "kept" or "broken": breakTiming was called

repair == <<pending, route, repeaters, broken, timing>>

NoRoute == [paths |-> {}, spots |-> {}]
MaxWireLength == MaxPower - 1
InvertersNeededCutoff == 10

-----------------------------------------------------------------------------
(***************************************************************************)
(* Segments: a wire between two of its stops, and chains of those that go   *)
(* straight on (SuperSegment).  A connector is a point.                     *)
(***************************************************************************)
PointOf(s, at) == IF s.vertical THEN <<s.at, at>> ELSE <<at, s.at>>
FrontOf(s) == PointOf(s, s.from)
BackOf(s) == PointOf(s, s.to)

WireSegments(w) ==
    {[vertical |-> w.vertical, at |-> w.at, from |-> p[1], to |-> p[2],
      output |-> w.end = "output", input |-> w.end = "input"] :
        p \in {q \in w.stops \X w.stops :
                q[1] < q[2] /\ \A s \in w.stops : s <= q[1] \/ s >= q[2]}}

AtomicSegments(net) ==
    UNION {WireSegments(w) : w \in {v \in ToSet(DrawnWires) : v.net = net}}

ConnectedAt(S, point) == {s \in S : point \in {FrontOf(s), BackOf(s)}}
Terminal(S, point) == Cardinality(ConnectedAt(S, point)) <= 1

\* straightPartner: two segments meet there and nothing runs across.
Straight(S, point) ==
    /\ Cardinality(ConnectedAt(S, point)) = 2
    /\ \A s, t \in ConnectedAt(S, point) : s.vertical = t.vertical

\* The segment first begins.  A SuperSegment's noBackCrossConnections asks the front.
Super(S, first) ==
    LET last == CHOOSE s \in S :
            /\ s.vertical = first.vertical /\ s.at = first.at /\ s.from >= first.from
            /\ ~Straight(S, BackOf(s))
            /\ \A t \in S : t.vertical = first.vertical /\ t.at = first.at
                    /\ t.from >= first.from /\ t.from < s.from => Straight(S, BackOf(t))
        asked == IF last = first THEN BackOf(last) ELSE FrontOf(first)
    IN  [vertical |-> first.vertical, at |-> first.at, from |-> first.from, to |-> last.to,
         output |-> first.output, input |-> last.input,
         noFront |-> Terminal(S, FrontOf(first)), noBack |-> Terminal(S, asked)]

SegmentsOf(S) == {Super(S, s) : s \in {t \in S : ~Straight(S, FrontOf(t))}}

\* Where on a segment no repeater may be, counted from its front and from its back.
FirstRepeaterOffset(s) ==
    IF ~s.vertical THEN 2 ELSE IF ~s.noFront \/ s.output THEN 1 ELSE 0

LastRepeaterOffset(s) ==
    IF ~s.vertical THEN 2 ELSE IF ~s.noBack \/ s.input THEN 1 ELSE 0

Distance(s) == s.to - s.from

\* The positions for repeaters, counted in the direction of the current.
Offsets(s, backwards) ==
    IF backwards THEN LastRepeaterOffset(s)..(Distance(s) - FirstRepeaterOffset(s))
    ELSE FirstRepeaterOffset(s)..(Distance(s) - LastRepeaterOffset(s))

-----------------------------------------------------------------------------
(***************************************************************************)
(* Links and paths.                                                         *)
(***************************************************************************)
FrontOfWire(w) == PointOf(w, Min(w.stops))
BackOfWire(w) == PointOf(w, Max(w.stops))

SourcesOf(net) ==
    {FrontOfWire(OutputWire(n)) : n \in {m \in Nodes : tree.nodes[m].invert
                                                  /\ tree.nodes[m].out = net}}
    \cup {FrontOfWire(BottomWire(b)) : b \in {d \in DOMAIN bottom :
                        tree.bottom[d].net = net /\ tree.bottom[d].iface # Loose}}

DestinationsOf(net) ==
    {BackOfWire(InputWire(n)) : n \in {m \in Nodes : tree.nodes[m].invert
                                                /\ tree.nodes[m].in = net}}
    \cup {BackOfWire(OutputWire(n)) : n \in {tree.top[k].node : k \in
                        {j \in DOMAIN tree.top : tree.nodes[tree.top[j].node].out = net}}}

\* One element more for a path that ends at point: pos is where it starts in the path.
Extensions(S, path, point, length) ==
    {[path |-> Append(path, [seg |-> s, rev |-> BackOf(s) = point, pos |-> length]),
      head |-> IF BackOf(s) = point THEN FrontOf(s) ELSE BackOf(s),
      length |-> length + Distance(s)] :
        s \in {t \in ConnectedAt(S, point) : \A k \in DOMAIN path : path[k].seg # t}}

\* findPaths, one segment further per round.
FindPaths(S, start, end) ==
    LET Extend(r) ==
            LET next == UNION {Extensions(S, b.path, b.head, b.length) : b \in r.open}
            IN  [open |-> {b \in next : b.head # end},
                 found |-> r.found \cup {b \in next : b.head = end}]
    IN  IF start = end THEN {[path |-> <<>>, head |-> end, length |-> 0]}
        ELSE FoldSet(LAMBDA s, r : Extend(r),
                [open |-> {[path |-> <<>>, head |-> start, length |-> 0]}, found |-> {}],
                S).found

\* The only path of each link: Undetermined links fail the assertion.
LinkPaths(net) ==
    LET S == SegmentsOf(AtomicSegments(net))
    IN  {FindPaths(S, l[1], l[2]) : l \in SourcesOf(net) \X DestinationsOf(net)}

\* A segment that is used in one direction only has positions for repeaters.
SpotsOf(paths) ==
    LET used == UNION {{[seg |-> p.path[k].seg, rev |-> p.path[k].rev] : k \in DOMAIN p.path} :
                        p \in paths}
        oneway == {u \in used : [u EXCEPT !.rev = ~@] \notin used}
    IN  UNION {{[seg |-> u.seg, backwards |-> u.rev, offset |-> k] :
                    k \in Offsets(u.seg, u.rev)} : u \in oneway}

-----------------------------------------------------------------------------
(***************************************************************************)
(* Placing repeaters.                                                       *)
(***************************************************************************)
PositionsOn(p, spots) ==
    {p.path[q[1]].pos + q[2].offset : q \in
        {e \in (DOMAIN p.path) \X spots : p.path[e[1]].seg = e[2].seg}}

\* The stretches of a path between its repeaters rs.
Stretches(p, rs) ==
    LET ends == {-1, p.length + 1} \cup PositionsOn(p, rs)
    IN  {[from |-> s + 1, length |-> Min({t \in ends : t > s}) - s - 1] :
            s \in ends \ {p.length + 1}}

\* Mutant of Fixed: a repeater more than the wire carries is let through.
FixedOffByOne(p, rs) == \A s \in Stretches(p, rs) : s.length <= MaxWireLength + 1

Fixed(p, rs) == \A s \in Stretches(p, rs) : s.length <= MaxWireLength

-----------------------------------------------------------------------------
(***************************************************************************)
(* Path::evaluatePositions goes along a path from repeater to repeater and  *)
(* rates the positions of the stretches that are too long.  It is handed    *)
(* what it knows as it goes: the element it is at, where the stretch        *)
(* starts, and on the way along a stretch where it takes an element to      *)
(* start, which is not where the element does start once it has passed a    *)
(* position at the very end of another.                                     *)
(***************************************************************************)
End(e) == e.pos + Distance(e.seg)
Near(e) == IF e.rev THEN LastRepeaterOffset(e.seg) ELSE FirstRepeaterOffset(e.seg)
Far(e) == IF e.rev THEN FirstRepeaterOffset(e.seg) ELSE LastRepeaterOffset(e.seg)

\* What Path::nextRepeater looks for from start on: a repeater at the end of an
\* element is not seen from there.
RepeatersFrom(p, rs, start) ==
    {[el |-> q[1], at |-> p.path[q[1]].pos + q[2].offset] :
        q \in {t \in (DOMAIN p.path) \X rs :
                /\ p.path[t[1]].seg = t[2].seg /\ End(p.path[t[1]]) > start
                /\ p.path[t[1]].pos + t[2].offset >= start}}

First(seen) ==
    CHOOSE q \in seen : \A r \in seen : q.at < r.at \/ (q.at = r.at /\ q.el <= r.el)

Overriding(new, old) == new \cup {r \in old : \A n \in new : n.spot # r.spot}

\* The loop over the elements of a stretch [from, stop), the lengths on both sides of
\* every position, and where it breaks off, if it does.
RateStretch(p, spots, first, from, stop) ==
    LET RateElement(r, k) ==
            LET e == p.path[k]
                here == {m \in spots : m.seg = e.seg}
                reached == {m \in here : r.at + m.offset \in from..(stop - 1)}
                at == Min({r.at + Distance(e.seg), stop + Far(e) - 1})
            IN  IF r.broke THEN r
                ELSE IF here = {} THEN [r EXCEPT !.at = End(e)]
                ELSE [at |-> at, el |-> k,
                      broke |-> r.at + Near(e) >= stop \/ at >= stop,
                      rated |-> Overriding(
                        {[spot |-> m, halves |-> <<r.at + m.offset - from,
                                                   stop - 1 - (r.at + m.offset)>>] : m \in reached},
                        r.rated)]
    IN  FoldLeft(RateElement,
            [at |-> p.path[first].pos, el |-> first, broke |-> FALSE, rated |-> {}],
            [k \in 1..(Len(p.path) - first + 1) |-> first + k - 1])

\* ok: no assertion fails, be it of find (lines 23, 30), of the loop over the stretches
\* that are short enough (lines 102, 107) or of that over the elements (line 139).
Evaluation(p, rs, spots) ==
    LET Asserted == [path |-> p, ok |-> FALSE, rated |-> {}]
        Result(stretch) == [path |-> p, ok |-> TRUE, rated |-> stretch.rated]
        From[el \in Nat, start \in Nat] ==
            LET seen == RepeatersFrom(p, rs, start)
                next == First(seen)
                past == next.at + 1
                stop == IF seen = {} THEN p.length + 1 ELSE next.at
                long == stop - start > MaxWireLength
                stretch == RateStretch(p, spots, el, start, stop)
                rest == From[stretch.el, stop + 1]
            IN  IF \/ p.path[el].pos > start \/ start > p.length
                   \/ long /\ End(p.path[el]) < start
                THEN Asserted
                ELSE IF long /\ seen # {} /\ stretch.broke
                THEN [rest EXCEPT !.rated = Overriding(@, stretch.rated)]
                ELSE IF long THEN Result(stretch)
                ELSE IF seen = {} THEN Result([rated |-> {}])
                ELSE IF past > End(p.path[next.el]) THEN Asserted
                ELSE IF past = p.length
                THEN Result(RateStretch(p, spots, next.el, past, past + 1))
                ELSE From[IF past = End(p.path[next.el]) THEN next.el + 1 ELSE next.el, past]
    IN  From[1, 0]

\* rate: what is lost behind the last full stretch, by the stretches needed.
Rate(length) ==
    (length \div MaxPower) * MaxPower + MaxWireLength - (length % MaxPower)

\* How often what is rated leaves each number of stretches needed and blocks lost.
Rating(rated) ==
    LET halves == {h \in rated \X {1, 2} :
                    h[1].halves[h[2]] \div MaxPower < InvertersNeededCutoff}
        RateOf(h) == Rate(h[1].halves[h[2]])
    IN  [key \in {RateOf(h) : h \in halves} |->
            Cardinality({h \in halves : RateOf(h) = key})]

Times(rating, key) == IF key \in DOMAIN rating THEN rating[key] ELSE 0

\* Lexicographically greater as vectors of counts.
Better(r, s) ==
    \E key \in DOMAIN r :
        /\ r[key] > Times(s, key)
        /\ \A k \in (DOMAIN r) \cup (DOMAIN s) : k < key => Times(r, k) = Times(s, k)

\* findBestPlacement: segments come in any order, positions in that of the current.
BestPlacements(evaluated) ==
    LET all == UNION {{[path |-> v.path, spot |-> r.spot, halves |-> r.halves] :
                        r \in v.rated} : v \in evaluated}
        rated == {<<s, Rating({r \in all : r.spot = s})>> : s \in {r.spot : r \in all}}
        best == FoldSet(LAMBDA r, b : IF Better(r[2], b) THEN r[2] ELSE b, <<>>, rated)
        top == {r[1] : r \in {q \in rated : q[2] = best}}
    IN  IF best = <<>> THEN {}
        ELSE {s \in top : \A t \in top : t.seg = s.seg => t.offset >= s.offset}

Unfixed(paths, rs) == {p \in paths : ~Fixed(p, rs)}

NotRepaired ==
    /\ pending = {} /\ route = NoRoute /\ repeaters = {} /\ broken = {}
    /\ timing = "kept"

\* createSegments, and fixBrokenLinks up to its loop.
CreateSegments ==
    /\ stage = "segments"
    /\ stage' = "repair" /\ pending' = DOMAIN known
    /\ UNCHANGED <<netlist, model, placement, route, repeaters, broken, timing>>

\* fixConnection up to its loop.
BeginConnection ==
    LET net == Min(pending)
    IN  /\ stage = "repair" /\ pending # {} /\ route = NoRoute
        /\ \E found \in {LinkPaths(net)} :
            /\ {ps \in found : Cardinality(ps) # 1} = {}
            /\ IF Unfixed(UNION found, {}) = {}
               THEN pending' = pending \ {net} /\ UNCHANGED route
               ELSE /\ route' = [paths |-> UNION found, spots |-> SpotsOf(UNION found)]
                    /\ UNCHANGED pending
        /\ UNCHANGED <<netlist, stage, model, placement, repeaters, broken, timing>>

Placed == {r \in repeaters : r \in route.spots}

\* findBestPlacement finds a position, and the repeater is placed.
PlaceRepeater(evaluated) ==
    /\ stage = "repair" /\ route # NoRoute /\ \A v \in evaluated : v.ok
    /\ \E spot \in BestPlacements(evaluated) :
        /\ repeaters' = repeaters \cup {spot}
        /\ IF Unfixed(route.paths, Placed \cup {spot}) = {}
           THEN pending' = pending \ {Min(pending)} /\ route' = NoRoute
           ELSE UNCHANGED <<pending, route>>
    /\ UNCHANGED <<netlist, stage, model, placement, broken, timing>>

\* Mutant of GiveUpConnection: the vertex of another connection is returned.
GiveUpLastConnection(evaluated) ==
    /\ stage = "repair" /\ route # NoRoute /\ \A v \in evaluated : v.ok
    /\ BestPlacements(evaluated) = {}
    /\ broken' = broken \cup {Max(pending)}
    /\ pending' = pending \ {Min(pending)} /\ route' = NoRoute
    /\ UNCHANGED <<netlist, stage, model, placement, repeaters, timing>>

\* It finds none: the connection is broken.
GiveUpConnection(evaluated) ==
    /\ stage = "repair" /\ route # NoRoute /\ \A v \in evaluated : v.ok
    /\ BestPlacements(evaluated) = {}
    /\ broken' = broken \cup {Min(pending)}
    /\ pending' = pending \ {Min(pending)} /\ route' = NoRoute
    /\ UNCHANGED <<netlist, stage, model, placement, repeaters, timing>>

\* An assertion of evaluatePositions stops the program.
Abort(evaluated) ==
    /\ stage = "repair" /\ route # NoRoute /\ \E v \in evaluated : ~v.ok
    /\ stage' = "aborted"
    /\ UNCHANGED <<netlist, model, placement, repair>>

\* One round of the loop of fixConnection.
FixConnection ==
    \E evaluated \in {{Evaluation(p, Placed, route.spots) : p \in Unfixed(route.paths, Placed)}} :
        PlaceRepeater(evaluated) \/ GiveUpConnection(evaluated) \/ Abort(evaluated)

\* Mutant of FinishRepair: repeaters do not count.
FinishRepairInTime ==
    /\ stage = "repair" /\ pending = {} /\ broken = {}
    /\ stage' = "blocks"
    /\ UNCHANGED <<netlist, model, placement, repair>>

\* Nothing is broken: the model is the result, slower than its netlist if it has
\* repeaters.
FinishRepair ==
    /\ stage = "repair" /\ pending = {} /\ broken = {}
    /\ stage' = "blocks"
    /\ timing' = IF repeaters = {} THEN timing ELSE "broken"
    /\ UNCHANGED <<netlist, model, placement, pending, route, repeaters, broken>>

-----------------------------------------------------------------------------
(***************************************************************************)
(* The loop of Netlist2Tree::execute: Netlist's constructor splits the      *)
(* vertices, breaks the timing, and the model is made anew.                 *)
(***************************************************************************)
\* Mutant of SplitAll: one inverter is put where two are needed.
SplitAllSingle(g, vertices) ==
    FoldSet(LAMBDA v, h :
                LET fresh == Min(Graph!VertexRefs \ h.vertices)
                IN  [vertices |-> h.vertices \cup {fresh},
                     edges |-> [e \in DOMAIN h.edges |->
                        IF e[1] = fresh THEN h.edges[v, e[2]]
                        ELSE IF e[1] = v THEN (IF e[2] = fresh THEN 1 ELSE 0) ELSE h.edges[e]],
                     ifaceMap |-> [i \in Graph!Ifaces |->
                        IF i \in Graph!IfacesAt(h, v, OutIfaces) THEN fresh ELSE h.ifaceMap[i]]],
            g, vertices)

SplitAll(g, vertices) ==
    FoldSet(LAMBDA v, h :
                LET fresh == Graph!VertexRefs \ h.vertices
                IN  Graph!VerticalSplitVertex(h, v, Min(fresh), Min(fresh \ {Min(fresh)})),
            g, vertices)

MayAdd(n) == n <= Cardinality(Graph!VertexRefs \ netlist.vertices)

SplitBroken ==
    /\ stage = "repair" /\ pending = {} /\ broken # {}
    /\ MayAdd(2 * Cardinality(broken))
    /\ netlist' = SplitAll(netlist, broken)
    /\ NewModel
    /\ col' = <<>> /\ bottom' = <<>> /\ todo' = <<>> /\ geometry' = <<>>
    /\ repeaters' = {} /\ broken' = {} /\ timing' = "broken"
    /\ UNCHANGED <<pending, route>>
=============================================================================
