----------------------------- MODULE Construction -----------------------------
(***************************************************************************)
(* A program that constructs one structure with librhdl: through the C API *)
(* (rhdl_begin_structure, rhdl_component, rhdl_select, rhdl_connect,       *)
(* rhdl_finish_structure, rhdl_abort_structure in c_api/c_api.cpp) and,    *)
(* for what only it offers, through the C++ API (Component, operator=, the *)
(* destructor of Structure in construction/).  What happens to the         *)
(* structure is in modules Ports and StructureBuilder.                     *)
(***************************************************************************)
EXTENDS StructureNetlist

CONSTANTS
    Names,  \* the names of interfaces the program selects
    Plans   \* what the program constructs, with bounds

\* An interface of an entity there is: its ports form a tree, all are known, and a single
\* one has one direction.
IsInterface(iface) ==
    /\ iface \in [DOMAIN iface -> [name: STRING, dir: SUBSET {"in", "out"}, subs: Nat, real: {TRUE}]]
    /\ IsFiniteSet(DOMAIN iface) /\ <<>> \in DOMAIN iface
    /\ \A path \in DOMAIN iface :
          /\ path \in Seq(Nat)
          /\ \A i \in 1..iface[path].subs : Append(path, i) \in DOMAIN iface
          /\ path # <<>> => /\ Front(path) \in DOMAIN iface
                            /\ Last(path) \in 1..iface[Front(path)].subs
          /\ iface[path].subs = 0 => iface[path].dir \in {{"in"}, {"out"}}

(* A plan gives the entities of the namespace by name; the name of the new entity *)
(* or of the entity that gets another structure; whether a new one is stateless;  *)
(* the components, each with whether it is made on its own; how many ports are    *)
(* selected below a new entity, how many connections are made, and by which       *)
(* operators (TRUE: directional).                                                 *)
ASSUME PlansAssumption ==
    /\ Names \subseteq STRING
    /\ \A plan \in Plans :
        /\ plan.stateless \in BOOLEAN /\ plan.operators \subseteq BOOLEAN
        /\ plan.selected \in Nat /\ plan.connects \in Nat
        /\ \A name \in DOMAIN plan.namespace :
              /\ plan.namespace[name].stateless \in BOOLEAN
              /\ IsInterface(plan.namespace[name].iface)
        /\ \A i \in DOMAIN plan.parts :
              plan.parts[i].name \in DOMAIN plan.namespace /\ plan.parts[i].alone \in BOOLEAN

VARIABLES
    phase,     \* "idle", then "open", then how the structure ended
    plan,      \* the plan, with entityName_
    build,     \* the structure and its builders
    asked,     \* history: the pairs {p, q} of ports that were connected
    product    \* the finished structure, NoProduct before

vars == <<phase, plan, build, asked, product>>

Entities == plan.namespace

IsNew == plan.name \notin DOMAIN Entities

NoProduct == [stateless |-> FALSE, iface |-> <<>>, parts |-> <<>>, connections |-> {}]

Idle == EmptyBuild(FALSE)

Init ==
    /\ phase = "idle" /\ plan \in Plans
    /\ build = Idle /\ asked = {} /\ product = NoProduct

-----------------------------------------------------------------------------
\* rhdl_begin_structure creates a new entity.
BeginNew ==
    /\ phase = "idle" /\ IsNew
    /\ phase' = "open"
    /\ build' = NewEntity(plan.stateless)
    /\ UNCHANGED <<plan, asked, product>>

\* rhdl_begin_structure adds another structure to an entity there is.
BeginExisting ==
    /\ phase = "idle" /\ ~IsNew
    /\ phase' = "open"
    /\ build' = ExistingEntity(Entities[plan.name])
    /\ UNCHANGED <<plan, asked, product>>

\* The component that is next in the plan: components are made first, what is made
\* later behaves alike.  rhdl_component refuses a stateful one in a stateless structure.
Component ==
    LET k == Len(build.parts) + 1
        name == plan.parts[k].name
    IN  /\ phase = "open" /\ k \in DOMAIN plan.parts /\ ~plan.parts[k].alone
        /\ MayAdd(build, Entities[name])
        /\ build' = PartAdded(build, name, Entities[name])
        /\ UNCHANGED <<phase, plan, asked, product>>

MakeComponent ==
    LET k == Len(build.parts) + 1
        name == plan.parts[k].name
    IN  /\ phase = "open" /\ k \in DOMAIN plan.parts /\ plan.parts[k].alone
        /\ build' = MadeAlone(build, name, Entities[name])
        /\ UNCHANGED <<phase, plan, asked, product>>

\* The ports of the new entity that are not part of an interface copied from a peer.
Unshaped(b) ==
    {q \in DOMAIN b.ports : q[1] = 0 /\ ~IsTop(q) /\ ~b.ports[Enclosing(q)].real}

AllMade == Len(build.parts) = Len(plan.parts)

\* Mutant of Select: ports are also made below an interface that is known.
SelectAnywhere(p, name) ==
    /\ phase = "open" /\ AllMade
    /\ Named(build.ports, p, name) = 0 /\ p[1] = 0
    /\ Cardinality(Unshaped(build)) < plan.selected
    /\ build' = EncloseNew(build, p, name)
    /\ UNCHANGED <<phase, plan, asked, product>>

\* rhdl_select returns the port there is, except below a port of the new entity.
Select(p, name) ==
    /\ phase = "open" /\ AllMade
    /\ ~build.ports[p].real /\ Named(build.ports, p, name) = 0
    /\ Cardinality(Unshaped(build)) < plan.selected
    /\ build' = EncloseNew(build, p, name)
    /\ UNCHANGED <<phase, plan, asked, product>>

\* Nothing of the structure is left to be used.
Closed(how) ==
    /\ phase' = how
    /\ build' = Idle /\ asked' = {}
    /\ UNCHANGED <<plan, product>>

\* Mutant of Answered: the builders of the two components are not combined.
AnsweredApart(outcome) ==
    /\ outcome.result \in {"ok", "refused", "unexpected"}
    /\ build' = [outcome.build EXCEPT !.builderOf = build.builderOf]
    /\ asked' = asked \cup (IF outcome.result = "ok" THEN {ToSet(outcome.pair)} ELSE {})
    /\ UNCHANGED <<phase, plan, product>>

Answered(outcome) ==
    /\ outcome.result \in {"ok", "refused", "unexpected"}
    /\ build' = outcome.build
    /\ asked' = asked \cup (IF outcome.result = "ok" THEN {ToSet(outcome.pair)} ELSE {})
    /\ UNCHANGED <<phase, plan, product>>

\* rhdl_connect or >> when directional, = in C++ otherwise.  Two ports of the
\* structure cannot be connected.  E_MEMBER_EXISTS is an exception in C++, the C API
\* does not expect it.
Connect(from, to, directional) ==
    /\ phase = "open" /\ AllMade
    /\ Cardinality(asked) < plan.connects /\ directional \in plan.operators
    /\ from # to /\ (from[1] = 0 => to[1] # 0)
    /\ \E outcome \in {Connected(build, from, to, directional)} :
          \/ Answered(outcome)
          \/ outcome.result \in {"ended", "unexpected"} /\ Closed("ended")

-----------------------------------------------------------------------------
\* The structure a netlist is looked for from is the entity's first one.
FirstStructure(s) ==
    IF ~IsNew /\ DOMAIN Entities[plan.name].structure.parts # {}
    THEN Entities[plan.name].structure ELSE s

\* The order of the addresses of the structure and its parts.
Ranks(s) == Bijection({0} \cup DOMAIN s.parts, 0..Cardinality(DOMAIN s.parts))
Unranked(s) == [e \in {0} \cup DOMAIN s.parts |-> e]

\* addRepresentation of a stateless entity: what its netlist says of it.
Verdict(netlist, iface) ==
    IF netlist.asserted \/ \E path \in DOMAIN netlist.at : netlist.at[path] > netlist.n
    THEN "asserted"
    ELSE IF HasCycles(Optimized(netlist, iface)) THEN "cyclic"
    ELSE "finished"

Judged(s, rank) ==
    LET first == FirstStructure(s)
    IN  IF ~s.stateless THEN "finished"
        ELSE Verdict(StructureToNetlist(first, Entities, IF first = s THEN rank ELSE Unranked(first)),
                     first.iface)

\* What finishing the structure comes to; taken says whether the namespace has got
\* an entity of its name since it was begun: E_EMPTY_INTERFACE, E_MEMBER_EXISTS or
\* E_NETLIST_CONTAINS_CYCLES, an assertion, or "finished".
Finishes(b, rank, taken) ==
    LET top == <<0, <<>>>>
        nested == {p \in DOMAIN b.ports : p # top /\ Mixed(b.ports, p)}
    IN  IF IsNew /\ nested # {} THEN "asserted"
        ELSE IF IsNew /\ Realizable(b.ports) = {} THEN "empty"
        ELSE IF IsNew /\ taken THEN "exists"
        ELSE IF IsNew /\ Mixed(b.ports, top) THEN "asserted"
        ELSE Judged(Constructed(Composed(b)), rank)

\* rhdl_finish_structure, Structure::finalize (thrown: E_MEMBER_EXISTS reaches the
\* caller) and, when leaving, its destructor, where any exception ends the program.
Finish(leaving, rank, taken) ==
    /\ phase = "open"
    /\ \E outcome \in {Finishes(build, rank, taken)} :
          \/ /\ outcome = "finished"
             /\ phase' = "finished"
             /\ product' = Constructed(Composed(build))
             /\ UNCHANGED <<plan, build, asked>>
          \/ outcome \in {"empty", "exists", "cyclic"} /\ ~leaving /\ Closed("rejected")
          \/ outcome \in {"exists", "asserted"} /\ ~leaving /\ Closed("ended")
          \/ outcome # "finished" /\ leaving /\ Closed("ended")

Abort ==
    /\ phase = "open"
    /\ Closed("aborted")

Next ==
    \/ BeginNew \/ BeginExisting
    \/ Component \/ MakeComponent
    \/ \E p \in DOMAIN build.ports, name \in Names : Select(p, name)
    \/ \E from, to \in DOMAIN build.ports, directional \in BOOLEAN : Connect(from, to, directional)
    \/ \E leaving, taken \in BOOLEAN, rank \in Ranks(build) : Finish(leaving, rank, taken)
    \/ Abort

Spec == Init /\ [][Next]_vars

-----------------------------------------------------------------------------
(***************************************************************************)
(* Properties.                                                             *)
(***************************************************************************)

\* Ports form trees, a port below a real one is real, and the real ones are the ones
\* with a connection, which is named by one of them.
TypeOK ==
    /\ phase \in {"idle", "open", "finished", "rejected", "aborted", "ended"}
    /\ plan \in Plans
    /\ \A p \in DOMAIN build.ports :
          /\ Range(Subs(build.ports, p)) \subseteq DOMAIN build.ports
          /\ p[1] \in 0..Len(build.parts)
          /\ IsTop(p) \/ (Enclosing(p) \in DOMAIN build.ports /\
                         (build.ports[Enclosing(p)].real => build.ports[p].real))
    /\ DOMAIN build.net = {p \in DOMAIN build.ports : build.ports[p].real}
    /\ Live(build) \subseteq DOMAIN build.net
    /\ Len(build.builderOf) = Len(build.parts)

\* However connections were joined, each knows the connections of its components and
\* these know it, and both are alive: ConnectionsBuilder goes down from the top ports
\* by these links, so that a connection a dead one leads to is lost or read after
\* it was freed.
RelativesMutual ==
    /\ build.parents = {<<e[2], e[1]>> : e \in build.children}
    /\ \A e \in build.children : e[1] \in Live(build) /\ e[2] \in Live(build)

\* The classes of ports that the requests that succeeded connect, one by one or
\* through others.
AskedNets ==
    FoldSet(LAMBDA x, C : {c \in C : c \cap x = {}} \cup {UNION {c \in C : c \cap x # {}}},
            {{p} : p \in DOMAIN build.net}, asked)

\* Two ports share a connection exactly when a chain of requests leads from one to
\* the other, in whatever order they were made and whichever ports were realized on
\* the way.  (The components of composites that are connected are not: see
\* StructureBuilder!Joins.)
NetsAsAsked == {{p \in DOMAIN build.net : build.net[p] = c} : c \in Live(build)} = AskedNets

\* Components that were connected have the same builder, so a component that is
\* connected to the structure through others belongs to it, and each net is either
\* exported whole or not at all.
ConnectedTogether == \A x \in asked : \A p, q \in x : BuilderOf(build, p) = BuilderOf(build, q)

\* A stateless structure never gets a stateful part, whichever way the components
\* made on their own were connected with each other first; a partial builder that
\* counts as stateless has stateless parts only.
StatelessSound ==
    /\ \A k \in DOMAIN build.parts :
          LET builder == build.builderOf[k]
          IN  (IF builder = 0 THEN build.stateless ELSE build.partial[builder])
                => Entities[build.parts[k]].stateless
    /\ product.stateless =>
          \A k \in DOMAIN product.parts : Entities[product.parts[k]].stateless

\* The structure that comes out has every single port of its elements once, in the
\* net that was asked for, and no port of another element, although the nets are
\* found by going down from the top ports through connections that were joined.
StructureAsAsked ==
    phase = "finished" =>
        product.connections = {c \in AskedNets : \A p \in c :
                                    IsSingle(build.ports, p) /\ p[1] \in Elements(build)}

\* The ports a request came to mean are the only ones: when the two ports themselves
\* do not fit, no other port below the second fits the one found below the first,
\* nor the other way round.  (Ports of the new entity that are not realized yet fit
\* almost anything and are left out.)
MeantUnambiguous ==
    \A from, to \in DOMAIN build.net :
        phase = "open" /\ from # to /\ (from[1] = 0 => to[1] # 0) =>
            \A meant \in {Meant(build.ports, from, to, TRUE)} :
                LET p == Predicate(from, to, TRUE)
                    l == meant.pair[1]
                    r == meant.pair[2]
                IN  meant.tag = "found" /\ <<l, r>> # <<from, to>> =>
                        /\ l \in Below(build.ports, from) /\ r \in Below(build.ports, to)
                        /\ {q \in Below(build.ports, to) : Fits(build.ports, l, q, p)} = {r}
                        /\ {q \in Below(build.ports, from) : Fits(build.ports, q, r, p)} = {l}
=============================================================================
