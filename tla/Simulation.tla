------------------------------ MODULE Simulation ------------------------------
(***************************************************************************)
(* The step simulators (simulation/): a HierarchicalSim for a structure, a *)
(* NetlistSim for a netlist, a FastSim for a timed behavior, and a tester  *)
(* that drives all simulators of an entity that share a timing with the    *)
(* same inputs and reads the same outputs.                                 *)
(*                                                                         *)
(* A simulator is a record; interfaces are paths, sets of interfaces hold  *)
(* those that are on: input (what was set), cache (of a HierarchicalSim),  *)
(* on (the state of a FastSim, of a NetlistSim's vertices).                *)
(***************************************************************************)
EXTENDS StructureNetlist

-----------------------------------------------------------------------------
Functional == {"Inverter", "NOR", "AND", "NAND"}

\* The functional behaviors: the interfaces of an entity that are on once it has
\* worked, when those in `on' were.  The others compute nothing without a delay.
FunctionalBehavior(name, on) ==
    CASE name = "Inverter" -> IF <<1>> \in on THEN {} ELSE {<<2>>}
      [] name = "NOR" -> IF on \cap {<<1>>, <<2>>} = {} THEN {<<3>>} ELSE {}
      [] name = "AND" -> IF {<<1>>, <<2>>} \subseteq on THEN {<<3>>} ELSE {}
      [] name = "NAND" -> IF {<<1, 1>>, <<1, 2>>} \subseteq on THEN {} ELSE {<<2>>}

-----------------------------------------------------------------------------
(* FastSim: the behaviors of the library, by entity.  was: what was on one   *)
(* step ago, for a HistorySim; clock: Clock3's own state.                    *)

Timed == {"Inverter", "NOR", "AND", "NAND", "RS_Latch", "GRS_Latch", "Clock3"}

FastSim(name) ==
    [kind |-> "fast", name |-> name, input |-> {}, on |-> {},
     was |-> IF name = "AND" THEN {<<1>>, <<2>>} ELSE {},
     clock |-> [sync |-> TRUE, phase |-> 0]]

If(condition, path) == IF condition THEN {path} ELSE {}

\* The procfunc: interfaces on one net.
Processed(name, on) ==
    CASE name = "NOR" -> IF on \cap {<<1>>, <<2>>} = {} THEN on ELSE on \cup {<<1>>, <<2>>}
      [] name = "RS_Latch" -> LET q == {<<1>>, <<2>>}
                                  nq == {<<3>>, <<4>>}
                              IN  UNION {net \in {q, nq} : net \cap on # {}}
      [] OTHER -> on

Clock3State(clock, out) ==
    LET resync == CASE clock.sync /\ out /\ clock.phase = 0 -> [sync |-> FALSE, phase |-> 4]
                    [] ~clock.sync /\ out /\ clock.phase = 0 -> [sync |-> FALSE, phase |-> 5]
                    [] ~clock.sync /\ out /\ clock.phase = 2 -> [sync |-> FALSE, phase |-> 3]
                    [] ~clock.sync /\ out /\ clock.phase = 1 -> [sync |-> TRUE, phase |-> 1]
                    [] OTHER -> clock
    IN  [resync EXCEPT !.phase = (@ + 1) % (IF resync.sync THEN 2 ELSE 6)]

Clock3Out(clock) == clock.phase >= (IF clock.sync THEN 1 ELSE 3)

\* The stepfunc: what is on after a step.
Stepped(sim, clock) ==
    LET on == sim.on
        was == sim.was
        set_q == on \cap {<<1>>, <<2>>} # {}
        set_nq == on \cap {<<3>>, <<4>>} # {}
    IN  CASE sim.name \in {"Inverter", "NOR", "NAND"} -> FunctionalBehavior(sim.name, on)
          [] sim.name = "AND" -> If({<<1>>, <<2>>} \subseteq was, <<3>>)
          [] sim.name = "RS_Latch" ->
                (IF set_nq THEN {} ELSE {<<1>>, <<2>>}) \cup (IF set_q THEN {} ELSE {<<3>>, <<4>>})
          [] sim.name = "GRS_Latch" ->
                If(<<5>> \notin on \/ {<<2>>, <<3>>} \subseteq was, <<4>>) \cup
                If(<<4>> \notin on \/ {<<1>>, <<3>>} \subseteq was, <<5>>)
          [] OTHER -> If(Clock3Out(clock), <<1>>)

FastStep(sim) ==
    LET clock == IF sim.name = "Clock3" THEN Clock3State(sim.clock, <<1>> \in sim.on) ELSE sim.clock
    IN  [sim EXCEPT !.on = Stepped(sim, clock), !.clock = clock,
                    !.was = IF sim.name \in {"AND", "GRS_Latch"}
                            THEN sim.on \cap {<<1>>, <<2>>, <<3>>} ELSE @]

-----------------------------------------------------------------------------
(* NetlistSim.                                                              *)

NetlistSim(netlist) == [kind |-> "netlist", netlist |-> netlist, input |-> {}, on |-> {}]

\* simStep: a net is on if an inverter into it had its source off.
SimStep(netlist, on) ==
    {v \in 1..netlist.n : \E u \in 1..netlist.n : netlist.edges[u, v] > 0 /\ u \notin on}

-----------------------------------------------------------------------------
(* HierarchicalSim.                                                         *)

\* A part's simulator: behavior comes first when it is used, the structure otherwise.
RECURSIVE HierarchicalSim(_, _, _)
HierarchicalSim(structure, entities, use_behavior) ==
    LET Part(name) ==
            IF name = "Inverter" \/ (use_behavior /\ name \in Timed) THEN FastSim(name)
            ELSE HierarchicalSim(entities[name].structure, entities, use_behavior)
    IN  [kind |-> "structure", structure |-> structure, input |-> {}, cache |-> {},
         subs |-> Tabulated([k \in DOMAIN structure.parts |-> Part(structure.parts[k])])]

Get(sim, path) ==
    CASE sim.kind = "fast" -> path \in sim.on
      [] sim.kind = "netlist" -> sim.netlist.at[path] \in sim.on
      [] OTHER -> path \in sim.cache

\* Mutant of PropagateConnections: only what the structure's inputs drive is passed on.
PropagateOutside(sim) ==
    LET driven == {c \in sim.structure.connections :
                    \E p \in c : p[1] = 0 /\ p[2] \in sim.cache}
        ports == UNION driven
    IN  [sim EXCEPT !.cache = @ \cup {p[2] : p \in {q \in ports : q[1] = 0}},
            !.subs = Tabulated([k \in DOMAIN @ |->
                [@[k] EXCEPT !.input = @ \cup {p[2] : p \in {q \in ports : q[1] = k}}]])]

\* A connection one of whose ports is on sets all of them.  Each port is in one
\* connection, so a second round over the connections finds nothing to do.
PropagateConnections(sim) ==
    LET On(p) == IF p[1] = 0 THEN p[2] \in sim.cache ELSE Get(sim.subs[p[1]], p[2])
        ports == UNION {c \in sim.structure.connections : \E p \in c : On(p)}
    IN  [sim EXCEPT !.cache = @ \cup {p[2] : p \in {q \in ports : q[1] = 0}},
            !.subs = Tabulated([k \in DOMAIN @ |->
                [@[k] EXCEPT !.input = @ \cup {p[2] : p \in {q \in ports : q[1] = k}}]])]

RECURSIVE ProcessInput(_), PropagateDeep(_), InternalStep(_)

\* The parts process their inputs until the connections pass nothing on.
PropagateDeep(sim) ==
    LET processed == [sim EXCEPT !.subs =
                        Tabulated([k \in DOMAIN @ |-> ProcessInput(@[k])])]
        passed == PropagateConnections(processed)
    IN  IF passed = processed THEN passed ELSE PropagateDeep(passed)

\* A structure whose input changes nothing has nothing to pass on.
ProcessInput(sim) ==
    CASE sim.kind = "fast" -> [sim EXCEPT !.on = Processed(sim.name, @ \cup sim.input)]
      [] sim.kind = "netlist" -> [sim EXCEPT !.on = @ \cup {sim.netlist.at[path] : path \in sim.input}]
      [] OTHER -> IF sim.input \subseteq sim.cache THEN sim
                  ELSE PropagateDeep(PropagateConnections([sim EXCEPT !.cache = @ \cup sim.input]))

\* internalStep; the inputs of the parts are reset, those of the simulator stay.
InternalStep(sim) ==
    CASE sim.kind = "fast" -> FastStep(sim)
      [] sim.kind = "netlist" -> [sim EXCEPT !.on = SimStep(sim.netlist, @)]
      [] OTHER -> PropagateDeep(
                    [sim EXCEPT !.cache = {},
                        !.subs = Tabulated([k \in DOMAIN @ |->
                                    [InternalStep(@[k]) EXCEPT !.input = {}]])])

\* The simulators of an entity: of its structure, with behaviors for the parts and
\* without, of its netlist, and of its timed behavior, where it has them.
Simulators(name, structure, netlist, entities) ==
    (IF structure.parts = <<>> THEN <<>>
     ELSE [i \in 1..2 |-> HierarchicalSim(structure, entities, i = 1)])
        \o <<NetlistSim(netlist)>>
        \o (IF name \in Timed THEN <<FastSim(name)>> ELSE <<>>)
=============================================================================
