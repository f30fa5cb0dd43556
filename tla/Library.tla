-------------------------------- MODULE Library --------------------------------
(***************************************************************************)
(* The entities librhdl comes with: EInverter (entity/einverter.cpp) and   *)
(* those lib_init constructs from it (lib/lib.cpp) through the C++ API     *)
(* (construction/).  A script gives a structure's components, each made on *)
(* its own, and its chains: a, b, c stands for a >> b >> c.  An end of a   *)
(* connection is <<element, names>>, the names selected one after another. *)
(*                                                                         *)
(* An entity is [stateless, iface, structure, netlist]; EInverter has no   *)
(* structure, only its netlist and its behavior.                           *)
(***************************************************************************)
EXTENDS StructureNetlist

EInverter ==
    LET iface == (<<>> :> Port("Inverter", {"in", "out"}, 2, TRUE)) @@
                 (<<1>> :> Port("in", {"in"}, 0, TRUE)) @@
                 (<<2>> :> Port("out", {"out"}, 0, TRUE))
    IN  [stateless |-> TRUE, iface |-> iface,
         structure |-> [parts |-> <<>>, connections |-> {}],
         netlist |-> [n |-> 2,
                      edges |-> [e \in (1..2) \X (1..2) |-> IF e = <<1, 2>> THEN 1 ELSE 0],
                      at |-> (<<1>> :> 1) @@ (<<2>> :> 2)]]

-----------------------------------------------------------------------------
(* Running a script.                                                        *)

\* operator[]: the port selected, made if the new entity does not have it yet.
Selected(b, end) ==
    LET Step(x, name) ==
            LET i == Named(x.build.ports, x.port, name)
                n == x.build.ports[x.port].subs
            IN  IF i # 0 THEN [x EXCEPT !.port = Sub(x.port, i)]
                ELSE [build |-> EncloseNew(x.build, x.port, name), port |-> Sub(x.port, n + 1)]
    IN  FoldLeft(Step, [build |-> b, port |-> <<end[1], <<>>>>], end[2])

\* The links of the chains, one after the other; one that is refused ends the script.
Links(chains) ==
    FlattenSeq([i \in DOMAIN chains |->
        [j \in 1..(Len(chains[i]) - 1) |-> SubSeq(chains[i], j, j + 1)]])

Run(script, entities) ==
    LET parts == FoldLeft(LAMBDA b, name : MadeAlone(b, name, entities[name]),
                          NewEntity(script.stateless), script.parts)
        Link(done, link) ==
            LET from == Selected(done.build, link[1])
                to == Selected(from.build, link[2])
            IN  IF done.result # "ok" THEN done
                ELSE Connected(to.build, from.port, to.port, TRUE)
    IN  FoldLeft(Link, Outcome(parts, "ok", <<>>), Links(script.chains)).build

\* Ent's destructor finishes the structure, and its netlist is made when needed.
Represented(s, entities) ==
    LET rank == [e \in {0} \cup DOMAIN s.parts |-> e]
    IN  [stateless |-> s.stateless, iface |-> s.iface, structure |-> s,
         netlist |-> Optimized(StructureToNetlist(s, entities, rank), s.iface)]

Entity(script, entities) == Represented(Constructed(Composed(Run(script, entities))), entities)

Ent(name) == <<0, <<name>>>>
Whole(part) == <<part, <<>>>>
At(part, name) == <<part, <<name>>>>

Script(stateless, parts, chains) == [stateless |-> stateless, parts |-> parts, chains |-> chains]

Inverters(n) == [i \in 1..n |-> "Inverter"]

-----------------------------------------------------------------------------
(* lib_init.                                                                *)

NOR == Script(TRUE, Inverters(1), <<
    <<Ent("in0"), Whole(1)>>, <<Ent("in1"), Whole(1)>>, <<Whole(1), Ent("out")>> >>)

AND == Script(TRUE, Inverters(3), <<
    <<Ent("in0"), Whole(1), Whole(3)>>, <<Ent("in1"), Whole(2), Whole(3)>>,
    <<Whole(3), Ent("out")>> >>)

NAND == Script(TRUE, Inverters(2), <<
    << <<0, <<"in", "bit0">>>>, Whole(1)>>, << <<0, <<"in", "bit1">>>>, Whole(2)>>,
    <<Whole(1), Ent("out")>>, <<Whole(2), Ent("out")>> >>)

RSLatch == Script(FALSE, Inverters(2), <<
    <<Ent("S"), Whole(2), Whole(1), Ent("Q")>>, <<Ent("R"), Whole(1), Whole(2), Ent("NQ")>> >>)

GRSLatch == Script(FALSE, <<"RS_Latch", "AND", "AND">>, <<
    <<Ent("R"), At(2, "in0")>>, <<Ent("S"), At(3, "in0")>>,
    <<Ent("C"), At(2, "in1")>>, <<Ent("C"), At(3, "in1")>>,
    <<At(1, "Q"), Ent("Q")>>, <<At(1, "NQ"), Ent("NQ")>>,
    <<Whole(2), At(1, "R")>>, <<Whole(3), At(1, "S")>> >>)

DFlipflop == Script(FALSE, <<"GRS_Latch", "GRS_Latch", "Inverter", "Inverter">>, <<
    <<Ent("D"), At(1, "S")>>, <<Ent("D"), Whole(4), At(1, "R")>>,
    <<Ent("clk"), Whole(3), At(1, "C")>>, <<Ent("clk"), At(2, "C")>>,
    <<At(1, "NQ"), At(2, "R")>>, <<At(1, "Q"), At(2, "S")>>,
    <<At(2, "Q"), Ent("Q")>>, <<At(2, "NQ"), Ent("NQ")>> >>)

Clock3 == Script(FALSE, Inverters(3), <<
    <<Whole(1), Whole(2)>>, <<Whole(2), Whole(3)>>, <<Whole(3), Whole(1)>>,
    <<Whole(3), Ent("out")>> >>)

Pulse1 == Script(TRUE, Inverters(4), <<
    <<Ent("in"), Whole(4)>>, <<Whole(4), Whole(1)>>, <<Whole(1), Ent("out")>>,
    <<Ent("in"), Whole(2)>>, <<Whole(2), Whole(3)>>, <<Whole(3), Whole(1)>> >>)

Demul2 == Script(TRUE, Inverters(5), <<
    <<Ent("in"), Whole(3)>>, <<Ent("in"), Whole(4)>>,
    <<Whole(3), Whole(1)>>, <<Whole(4), Whole(2)>>,
    <<Ent("sel"), Whole(1)>>, <<Ent("sel"), Whole(5)>>, <<Whole(5), Whole(2)>>,
    <<Whole(1), Ent("out0")>>, <<Whole(2), Ent("out1")>> >>)

ClockDiv2 == Script(FALSE, <<"RS_Latch", "GRS_Latch", "Demul2">> \o Inverters(4), <<
    <<Ent("clk"), Whole(4)>>, <<Whole(4), At(3, "in")>>,
    <<Ent("reset"), At(3, "sel")>>, <<At(3, "out0"), At(1, "R")>>, <<At(3, "out1"), At(1, "S")>>,
    <<At(2, "Q"), Whole(5)>>, <<Whole(5), At(3, "sel")>>,
    <<Ent("clk"), At(2, "C")>>,
    <<At(1, "Q"), At(2, "S")>>, <<At(1, "NQ"), At(2, "R")>>,
    <<At(2, "Q"), Ent("out")>> >>)

lib_init ==
    << <<"NOR", NOR>>, <<"AND", AND>>, <<"NAND", NAND>>, <<"RS_Latch", RSLatch>>,
       <<"GRS_Latch", GRSLatch>>, <<"D_Flipflop", DFlipflop>>, <<"Clock3", Clock3>>,
       <<"Pulse1", Pulse1>>, <<"Demul2", Demul2>>, <<"ClockDiv2", ClockDiv2>> >>

LibNames == {"Inverter"} \cup {lib_init[i][1] : i \in DOMAIN lib_init}

\* The default library once it is initialised.
Define(entities, x) ==
    IF x[1] \in DOMAIN entities THEN entities
    ELSE (x[1] :> Entity(x[2], entities)) @@ entities

defaultLib == FoldLeft(Define, "Inverter" :> EInverter, lib_init)

=============================================================================
