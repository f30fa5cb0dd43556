--------------------------- MODULE StructureBuilder ---------------------------
(***************************************************************************)
(* A structure under construction, as a value and what is done to it       *)
(* (representation/structural/builder/).  The structure has a complete     *)
(* builder, number 0; a component made on its own has a partial builder of *)
(* its own, which is absorbed when the component is connected.  Every real *)
(* port is in a connection: single ports in a net, composite ports in a    *)
(* connection whose children are the connections of their components (both *)
(* directions of that relation are kept).  A connection is named by the    *)
(* port it was made for.                                                   *)
(***************************************************************************)
EXTENDS Ports, TLC

\* An entity as its parts see it: whether it is stateless, and its interface, a
\* function from paths to ports.
Stateless(entity) == entity.stateless
Interface(entity) == entity.iface

-----------------------------------------------------------------------------
(* Ports and connections come and go.                                       *)

\* f once its values are worked out, so that folds do not work them out again.
Tabulated(f) == f @@ <<>>

\* f, and g where f says nothing.
Over(f, g) == [x \in (DOMAIN f) \cup (DOMAIN g) |-> IF x \in DOMAIN f THEN f[x] ELSE g[x]]

\* The ports T below root, each in a connection of its own.
WithPorts(b, root, T) ==
    LET new == {<<root[1], root[2] \o path>> : path \in DOMAIN T}
        At(p) == T[From(root, p)]
        inner == new \ {root}
    IN  [b EXCEPT
            !.ports = Over([p \in new |-> At(p)], @),
            !.net = Over([p \in new |-> p], @),
            !.children = @ \cup {<<Enclosing(p), p>> : p \in inner},
            !.parents = @ \cup {<<p, Enclosing(p)>> : p \in inner}]

Live(b) == Range(b.net)
Children(b, c) == {e[2] : e \in {x \in b.children : x[1] = c}}

\* Mutant of Joined: the children of the absorbed connection keep it as their parent.
JoinedAlone(b, survivor, victim) ==
    LET Now(c) == IF c = victim THEN survivor ELSE c
    IN  [b EXCEPT
            !.net = [p \in DOMAIN @ |-> IF @[p] = victim THEN survivor ELSE @[p]],
            !.children = {<<Now(e[1]), Now(e[2])>> : e \in @},
            !.parents = {<<Now(e[1]), e[2]>> : e \in @}]

\* Mutant of Joined: only the port the connection was made for goes over.
JoinedOne(b, survivor, victim) ==
    LET Now(c) == IF c = victim THEN survivor ELSE c
    IN  [b EXCEPT
            !.net[victim] = survivor,
            !.children = {<<Now(e[1]), Now(e[2])>> : e \in @},
            !.parents = {<<Now(e[1]), Now(e[2])>> : e \in @}]

\* The ports of one connection go over to another, which takes its place among its
\* relatives.
Joined(b, survivor, victim) ==
    LET Now(c) == IF c = victim THEN survivor ELSE c
    IN  [b EXCEPT
            !.net = [p \in DOMAIN @ |-> IF @[p] = victim THEN survivor ELSE @[p]],
            !.children = {<<Now(e[1]), Now(e[2])>> : e \in @},
            !.parents = {<<Now(e[1]), Now(e[2])>> : e \in @}]

-----------------------------------------------------------------------------
(* The structure and its parts.                                             *)

EmptyBuild(stateless) ==
    [stateless |-> stateless, parts |-> <<>>, builderOf |-> <<>>, partial |-> <<>>,
     ports |-> <<>>, net |-> <<>>, children |-> {}, parents |-> {}]

NewEntity(stateless) ==
    [EmptyBuild(stateless) EXCEPT !.ports = [top \in {<<0, <<>>>>} |-> Port("top", {}, 0, FALSE)]]

ExistingEntity(entity) ==
    WithPorts(EmptyBuild(Stateless(entity)), <<0, <<>>>>, Interface(entity))

WithPart(b, name, entity, builder) ==
    WithPorts([b EXCEPT !.parts = Append(@, name), !.builderOf = Append(@, builder)],
              <<Len(b.parts) + 1, <<>>>>, Interface(entity))

MayAdd(b, entity) == b.stateless => Stateless(entity)

\* rhdl_component: the part is the structure's from the start.
PartAdded(b, name, entity) == WithPart(b, name, entity, 0)

\* makeComponent: the part has a partial builder of its own.
MadeAlone(b, name, entity) ==
    WithPart([b EXCEPT !.partial = Append(@, Stateless(entity))], name, entity, Len(b.partial) + 1)

\* Selecting an interface of the new entity that it does not have yet makes one.
EncloseNew(b, p, name) ==
    LET new == Sub(p, b.ports[p].subs + 1)
    IN  [b EXCEPT !.ports = Over([q \in {new} |-> Port(name, {}, 0, FALSE)],
                                 [b.ports EXCEPT ![p].subs = @ + 1])]

BuilderOf(b, p) == IF p[1] = 0 THEN 0 ELSE b.builderOf[p[1]]

\* Mutant of Combined: a partial builder forgets that the parts it takes over from
\* another are stateful.
CombinedForgetting(b, from, to) ==
    LET b1 == BuilderOf(b, from)
        b2 == BuilderOf(b, to)
        survivor == IF b1 = 0 THEN 0 ELSE b2
        victim == IF b1 = 0 THEN b2 ELSE b1
    IN  [b EXCEPT !.builderOf = [k \in DOMAIN @ |-> IF @[k] = victim THEN survivor ELSE @[k]]]

\* combineBuilders: the builder of the second absorbs that of the first, and the
\* structure's absorbs any other.
Combined(b, from, to) ==
    LET b1 == BuilderOf(b, from)
        b2 == BuilderOf(b, to)
        survivor == IF b1 = 0 THEN 0 ELSE b2
        victim == IF b1 = 0 THEN b2 ELSE b1
    IN  IF b1 = b2 THEN b
        ELSE [b EXCEPT
                !.builderOf = [k \in DOMAIN @ |-> IF @[k] = victim THEN survivor ELSE @[k]],
                !.partial = [k \in DOMAIN @ |-> @[k] /\ (k = survivor => @[victim])]]

MayCombine(b, from, to) ==
    LET joined == {BuilderOf(b, from), BuilderOf(b, to)}
    IN  b.stateless /\ 0 \in joined => \A k \in joined \ {0} : b.partial[k]

-----------------------------------------------------------------------------
(* Connecting.                                                              *)

\* A BuilderPort is replaced by a copy of its peer's interface under its own name;
\* the ports around it learn of its directions.
Realized(b, p, peer) ==
    IF b.ports[p].real THEN b
    ELSE LET copy == [path \in {From(peer, q) : q \in Below(b.ports, peer)} |->
                         LET original == b.ports[<<peer[1], peer[2] \o path>>]
                         IN  IF path = <<>> THEN [original EXCEPT !.name = b.ports[p].name]
                             ELSE original]
             dir == b.ports[peer].dir
             Around(q) == q[1] = 0 /\ q # p /\ IsPrefix(q[2], p[2])
             Told(port) == [port EXCEPT !.dir = @ \cup dir]
         IN  [WithPorts(b, p, copy) EXCEPT
                !.ports = [q \in DOMAIN @ |-> IF Around(q) THEN Told(@[q]) ELSE @[q]]]

\* ExistingPort::connectCompat: the connections to join, and the pairs of components
\* componentWise visits.  It looks both components up in `to', the second one by the
\* name it has in `from': of ports whose components have the same names, each
\* component is connected to itself.  No pair stands for a name `to' does not have.
Joins(P, x0) ==
    LET joins[x \in (DOMAIN P) \X (DOMAIN P)] ==
            LET from == x[1]
                to == x[2]
                Component(i) ==
                    LET j == Named(P, to, P[Sub(from, i)].name)
                    IN  IF j = 0 THEN << <<>> >>
                        ELSE IF j = i THEN <<>>
                        ELSE joins[<<Sub(to, i), Sub(to, j)>>]
            IN  <<x>> \o FlattenSeq([i \in 1..P[to].subs |-> Component(i)])
    IN  joins[x0]

\* The connection of the second port absorbs that of the first.
JoinedAll(b, joins) ==
    FoldLeft(LAMBDA c, x : Joined(c, c.net[x[2]], c.net[x[1]]), b, joins)

Made(b, enclosed) == FoldSet(LAMBDA e, c : EncloseNew(c, e[1], e[2]), b, enclosed)

Outcome(build, result, pair) == [build |-> build, result |-> result, pair |-> pair]

\* Two ports that fit are connected.
ConnectedPair(b, l, r) ==
    LET realized == Realized(Realized(Combined(b, l, r), l, r), r, l)
        joins == Joins(realized.ports, <<l, r>>)
        top == <<0, <<>>>>
    IN  IF ~MayCombine(b, l, r) THEN Outcome(b, "refused", <<>>)
        ELSE IF (top \in {l, r} /\ ~b.ports[top].real) \/ <<>> \in ToSet(joins)
        THEN Outcome(b, "ended", <<>>)
        ELSE Outcome(JoinedAll(realized, joins), "ok", <<l, r>>)

\* Port::connect: the outcome is "ok", "refused" with an error code, "unexpected"
\* with E_MEMBER_EXISTS, which rhdl_connect does not expect, or "ended" when an
\* assertion or undefined behaviour ended the program.  Ports enclosed by the search
\* stay when the connection is refused.
Concluded(b, meant) ==
    CASE meant.tag \in {"none", "incompatible", "multiple"} ->
                Outcome(Made(b, meant.made), "refused", <<>>)
      [] meant.tag = "exists" -> Outcome(Made(b, meant.made), "unexpected", <<>>)
      [] meant.tag = "undefined" -> Outcome(b, "ended", <<>>)
      [] OTHER -> ConnectedPair(Made(b, meant.made), meant.pair[1], meant.pair[2])

Connected(b, from, to, directional) == Concluded(b, Meant(b.ports, from, to, directional))

-----------------------------------------------------------------------------
(* Finishing.                                                               *)

\* The ports of the new entity that come to enclose a single port.
Realizable(P) == {p \in DOMAIN P : p[1] = 0 /\ SinglesBelow(P, p) # {}}

\* A port of the new entity that encloses both real ports and one that is not.
Mixed(P, p) ==
    LET realizable == Realizable(P)
    IN  /\ ~P[p].real /\ p \in realizable
        /\ \E i \in 1..P[p].subs : Sub(p, i) \notin realizable

\* BuilderPort::realization: what was selected from becomes composite.
Composed(b) ==
    LET new == {p \in Realizable(b.ports) : ~b.ports[p].real}
        net == Over([p \in new |-> p], b.net)
        inside == UNION {{<<p, net[q]>> : q \in Range(Subs(b.ports, p))} : p \in new}
    IN  [b EXCEPT
            !.ports = [p \in DOMAIN @ |-> IF p \in new THEN [@[p] EXCEPT !.real = TRUE] ELSE @[p]],
            !.net = net,
            !.children = @ \cup inside,
            !.parents = @ \cup {<<e[2], e[1]>> : e \in inside}]

Elements(b) == {0} \cup {k \in DOMAIN b.parts : b.builderOf[k] = 0}

\* Mutant of Reached: only the children of the top connections are visited.
ReachedOnce(b) ==
    LET tops == {b.net[<<e, <<>>>>] : e \in Elements(b)}
    IN  tops \cup UNION {Children(b, c) : c \in tops}

\* ConnectionsBuilder goes down from the connections of the top ports.
Reached(b) ==
    LET below[n \in 0..Cardinality(Live(b))] ==
            IF n = 0 THEN {b.net[<<e, <<>>>>] : e \in Elements(b)}
            ELSE LET above == below[n - 1] IN above \cup UNION {Children(b, c) : c \in above}
    IN  below[Cardinality(Live(b))]

\* Every net that is reached is exported once.
Connections(b) ==
    {{p \in Singles(b.ports) : b.net[p] = c} : c \in {d \in Reached(b) : IsSingle(b.ports, d)}}

\* The finished structure: what the entity looks like, its elements and its nets.
Constructed(b) ==
    [stateless |-> b.stateless,
     iface |-> [path \in {p[2] : p \in {q \in DOMAIN b.ports : q[1] = 0}} |-> b.ports[<<0, path>>]],
     parts |-> [k \in Elements(b) \ {0} |-> b.parts[k]],
     connections |-> Connections(b)]
=============================================================================
