-------------------------------- MODULE Ports --------------------------------
(***************************************************************************)
(* The ports of a structure under construction, and how a request to       *)
(* connect two of them is understood: which pairs of ports are compatible  *)
(* (interface/, representation/structural/builder/c*.cpp), and which pair  *)
(* below the two is meant when they are not (findCompatibles).             *)
(*                                                                         *)
(* A port is <<element, path>>: element 0 is the structure, the parts are  *)
(* 1, 2, ...; path lists the positions on the way down from the element's  *)
(* top port <<>>.  A port has a name, the set of its directions, the       *)
(* number of ports it encloses, and is real unless it is a BuilderPort, a  *)
(* port of the new entity that is not known to be single or composite yet. *)
(***************************************************************************)
EXTENDS Integers, Sequences, SequencesExt, FiniteSets

AnonymousName == "<anonymous>"

Port(name, dir, subs, real) == [name |-> name, dir |-> dir, subs |-> subs, real |-> real]

Sub(p, i) == <<p[1], Append(p[2], i)>>
Subs(P, p) == [i \in 1..P[p].subs |-> Sub(p, i)]
Enclosing(p) == <<p[1], Front(p[2])>>
IsTop(p) == p[2] = <<>>

\* Where the port q, which is p or below it, is seen from p.
From(p, q) == SubSeq(q[2], Len(p[2]) + 1, Len(q[2]))
Below(P, p) == {q \in DOMAIN P : q[1] = p[1] /\ IsPrefix(p[2], q[2])}

IsSingle(P, p) == P[p].real /\ P[p].subs = 0
IsComposite(P, p) == P[p].real /\ P[p].subs > 0
Singles(P) == {p \in DOMAIN P : IsSingle(P, p)}
SinglesBelow(P, p) == {q \in Below(P, p) : IsSingle(P, q)}

\* The position of the port enclosed in p under this name, 0 if there is none.
Named(P, p, name) ==
    LET at == {i \in 1..P[p].subs : P[Sub(p, i)].name = name}
    IN  IF at = {} THEN 0 ELSE CHOOSE i \in at : TRUE

-----------------------------------------------------------------------------
(* What a connection asks of two ports: the same direction if one belongs   *)
(* to the structure, opposite ones otherwise; and, for << and >>, which     *)
(* direction the first of the two has.                                      *)

Opposite(dir) == IF dir = "in" THEN "out" ELSE "in"

Predicate(from, to, directional) ==
    [same  |-> 0 \in {from[1], to[1]},
     check |-> directional,
     first |-> IF from[1] = 0 THEN "in" ELSE "out"]

Reversed(p) == IF p.same THEN p ELSE [p EXCEPT !.first = Opposite(p.first)]

OpAllows(dir, p) == p.check => Opposite(p.first) \notin dir

FitsSingle(l, r, p) == ((l.dir = r.dir) <=> p.same) /\ OpAllows(l.dir, p)

\* Two known interfaces: component by component, whatever the names.
Fits(P, l, r, p) ==
    LET positions == {From(l, q) : q \in Below(P, l)}
    IN  /\ positions = {From(r, q) : q \in Below(P, r)}
        /\ \A path \in positions :
              LET lq == <<l[1], l[2] \o path>>
                  rq == <<r[1], r[2] \o path>>
              IN  P[lq].subs = P[rq].subs /\ (P[lq].subs = 0 => FitsSingle(P[lq], P[rq], p))

\* A port of the new entity and a known one.  A port that encloses nothing may
\* become whatever the peer is; one that does is compared with the peer's
\* components by a loop that erases from the set it runs over as soon as it
\* finds a match, which is undefined.
BuilderCompat(P, p) ==
    LET compat[x \in (DOMAIN P) \X (DOMAIN P)] ==
            LET b == x[1]
                r == x[2]
            IN  CASE P[b].real -> IF Fits(P, b, r, p) THEN "yes" ELSE "no"
                  [] ~P[b].real /\ P[b].subs = 0 ->
                        IF (IsTop(b) => IsComposite(P, r)) /\ OpAllows(P[r].dir, p) THEN "yes" ELSE "no"
                  [] OTHER ->
                        IF P[b].subs # P[r].subs THEN "no"
                        ELSE IF \E j \in 1..P[r].subs : compat[<<Sub(b, 1), Sub(r, j)>>] # "no"
                        THEN "undefined" ELSE "no"
    IN  compat

Compat(P, l, r, p) ==
    IF P[l].real /\ P[r].real THEN IF Fits(P, l, r, p) THEN "yes" ELSE "no"
    ELSE IF P[l].real THEN BuilderCompat(P, Reversed(p))[<<r, l>>]
    ELSE BuilderCompat(P, p)[<<l, r>>]

-----------------------------------------------------------------------------
(* The search for the pair that is meant.  Its outcome names the pair or    *)
(* what was thrown, and the ports that were enclosed on the way: they stay  *)
(* whatever the outcome.                                                    *)

NotFound == [tag |-> "none", pair |-> <<>>, made |-> {}]
Thrown(error) == [NotFound EXCEPT !.tag = error]
FoundPair(l, r) == [NotFound EXCEPT !.tag = "found", !.pair = <<l, r>>]

Swapped(outcome) ==
    IF outcome.tag = "found"
    THEN [outcome EXCEPT !.pair = <<outcome.pair[2], outcome.pair[1]>>]
    ELSE outcome

\* Mutant of Then: of several ports that fit, the first is taken.
ThenFirst(before, after) ==
    IF before.tag # "none" THEN before ELSE after

\* Two of the enclosed ports in the order they are asked.
Then(before, after) ==
    LET made == before.made \cup after.made
    IN  IF before.tag \notin {"none", "found"} THEN before
        ELSE IF before.tag = "found" /\ after.tag = "found"
        THEN [Thrown("multiple") EXCEPT !.made = made]
        ELSE [(IF after.tag = "none" THEN before ELSE after) EXCEPT !.made = made]

\* What the enclosed ports find, asked one after the other.
Among(outcomes) == FoldLeft(Then, NotFound, outcomes)

Or(found, otherwise) == IF found.tag # "none" THEN found ELSE otherwise

\* The structure's top port does not count as found.
OrEnclosed(found, enclosed) ==
    IF found.tag = "none" \/ (found.tag = "found" /\ found.pair[1] = <<0, <<>>>>)
    THEN enclosed ELSE found

Tried(P, l, r, p, otherwise) ==
    LET compat == Compat(P, l, r, p)
    IN  CASE compat = "yes" -> FoundPair(l, r)
          [] compat = "undefined" -> Thrown("undefined")
          [] OTHER -> otherwise

\* PortContainer::findCompatible: the port below the composite c that fits peer.
FindCompatible(P, peer, p) ==
    LET find[c \in DOMAIN P] ==
            Among([i \in 1..P[c].subs |-> Tried(P, Sub(c, i), peer, p, find[Sub(c, i)])])
    IN  find

\* What the nameless port found: the new port is the last one in b.
Enclosed(P, b, outcome) ==
    LET peer == outcome.pair[2]
    IN  IF outcome.tag # "found" THEN Or(outcome, Thrown("incompatible"))
        ELSE IF Named(P, b, P[peer].name) # 0 THEN Thrown("exists")
        ELSE [FoundPair(Sub(b, P[b].subs + 1), peer) EXCEPT !.made = {<<b, P[peer].name>>}]

\* BuilderPort::findCompatibles encloses a port in b under the name of the part
\* of r that a nameless port in b fits.
Enclose(P, b, r, p) ==
    LET anon    == Sub(b, 0)
        Trial   == [q \in DOMAIN P \cup {anon} |->
                        IF q = anon THEN Port(AnonymousName, {}, 0, FALSE) ELSE P[q]]
    IN  Enclosed(P, b, Tried(Trial, anon, r, p,
                             Swapped(FindCompatible(Trial, anon, Reversed(p))[r])))

\* Two ports of the structure cannot be connected.
Connectable(P) == {x \in (DOMAIN P) \X (DOMAIN P) : x[1][1] # 0 \/ x[2][1] # 0}

\* Port::findCompatibles after the two ports themselves were tried.  The port
\* that encloses others goes first, the peer of a BuilderPort is a known port.
FindCompatibles(P, p0) ==
    LET search[x \in Connectable(P) \X {p0, Reversed(p0)}] ==
            LET l == x[1][1]
                r == x[1][2]
                p == x[2]
                \* PortContainer::findCompatibles of c and a known port q
                AmongSubs(c, q, pc) ==
                    Among([i \in 1..P[c].subs |->
                              Tried(P, Sub(c, i), q, pc, search[<< <<Sub(c, i), q>>, pc>>])])
                Within(c, q, pc) ==
                    Or(Swapped(FindCompatible(P, c, Reversed(pc))[q]), AmongSubs(c, q, pc))
                InContainer(c, q, pc) ==
                    IF P[c].real THEN Within(c, q, pc)
                    ELSE OrEnclosed(Within(c, q, pc), Enclose(P, c, q, pc))
            IN  IF ~P[l].real \/ (IsComposite(P, l) /\ IsSingle(P, r)) THEN InContainer(l, r, p)
                ELSE IF IsSingle(P, r) THEN NotFound
                ELSE Swapped(InContainer(r, l, Reversed(p)))
    IN  search

Meant(P, from, to, directional) ==
    LET p == Predicate(from, to, directional)
    IN  Tried(P, from, to, p, FindCompatibles(P, p)[<< <<from, to>>, p>>])
=============================================================================
