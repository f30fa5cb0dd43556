---------------------------- MODULE MCConstruction ----------------------------
(***************************************************************************)
(* A small instance of Construction: structures of library entities.       *)
(***************************************************************************)
EXTENDS ConstructAndSimulate, Library

MCNames == {"a", "out"}

Alone(name) == [name |-> name, alone |-> TRUE]
Inside(name) == [name |-> name, alone |-> FALSE]

\* The names of the entities stand for the namespace.
New(stateless, parts, selected, connects, operators) ==
    [namespace |-> {"Inverter", "NAND", "RS_Latch", "Clock3"},
     name |-> "N", stateless |-> stateless, parts |-> parts,
     selected |-> selected, connects |-> connects, operators |-> operators]
Again(name, parts, connects) ==
    [namespace |-> {"Inverter", "NAND"},
     name |-> name, stateless |-> TRUE, parts |-> parts,
     selected |-> 0, connects |-> connects, operators |-> {TRUE}]

\* An entity of the library that is only simulated.
Simulated(name) == [Again(name, <<>>, 0) EXCEPT !.namespace = LibNames]

MCSketches == {
    \* Up to two interfaces below the new entity, nested, with both operators.
    New(TRUE, <<Alone("Inverter")>>, 2, 3, BOOLEAN),
    New(TRUE, <<Alone("NAND")>>, 2, 2, {TRUE}),
    \* Parts of the structure and parts with a builder of their own; loops.
    New(FALSE, <<Inside("Inverter"), Alone("Inverter")>>, 1, 2, {TRUE}),
    New(TRUE, <<Alone("Inverter"), Alone("Inverter")>>, 0, 3, {TRUE}),
    \* A composite interface is copied; two of them are connected; a feedback.
    New(TRUE, <<Alone("NAND")>>, 0, 3, {TRUE}),
    New(TRUE, <<Alone("NAND"), Alone("Inverter")>>, 0, 2, {TRUE}),
    New(FALSE, <<Inside("NAND"), Inside("Inverter")>>, 0, 3, {TRUE}),
    \* A stateful component reaches a stateless structure, directly or through others.
    New(TRUE, <<Alone("Inverter"), Alone("Clock3")>>, 0, 2, BOOLEAN),
    New(TRUE, <<Alone("Inverter"), Alone("Clock3"), Alone("Inverter")>>, 0, 3, {TRUE}),
    \* Two ports of the part are on one net inside of it.
    New(FALSE, <<Alone("RS_Latch")>>, 0, 2, {TRUE}),
    \* Entities that exist get another structure.
    Again("Inverter", <<Inside("Inverter")>>, 3),
    Again("NAND", <<Inside("NAND")>>, 3),
    Again("NAND", <<Inside("Inverter")>>, 3)
    } \cup {Simulated(name) : name \in LibNames}

MCPlans == LET lib == defaultLib
           IN  {[sketch EXCEPT !.namespace = Restrict(lib, @)] : sketch \in MCSketches}
=============================================================================
