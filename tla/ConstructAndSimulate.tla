-------------------------- MODULE ConstructAndSimulate --------------------------
(***************************************************************************)
(* A structure is constructed and what comes out is simulated; so are the  *)
(* entities of the library.  All simulators get the same inputs, set while *)
(* the entity is at rest, process them, and take a step.                   *)
(***************************************************************************)
EXTENDS Construction, Simulation

VARIABLES
    tested,  \* the interfaces of the entity that is simulated, <<>> before
    sims,    \* its simulators
    turn     \* what they do next: "input" or "step"

allVars == <<vars, tested, sims, turn>>
testVars == <<tested, sims, turn>>

TestInit == tested = <<>> /\ sims = <<>> /\ turn = "input"

SystemInit == Init /\ TestInit

-----------------------------------------------------------------------------
\* Every interface of the structure is connected to a part.
FullyConnected(s) ==
    \A path \in Flat(s.iface) :
        \E c \in s.connections : <<0, path>> \in c /\ \E p \in c : p[1] # 0

Test(name, iface, structure, netlist) ==
    /\ sims = <<>>
    /\ tested' = iface
    /\ sims' = Simulators(name, structure, netlist, Entities)
    /\ turn' = "input"
    /\ UNCHANGED vars

TestEntity ==
    /\ phase = "idle" /\ ~IsNew /\ plan.parts = <<>>
    /\ Test(plan.name, Entities[plan.name].iface,
            Entities[plan.name].structure, Entities[plan.name].netlist)

CountEdges(netlist) == MapThenSumSet(LAMBDA e : netlist.edges[e], DOMAIN netlist.edges)

\* What was constructed, unless its netlist lost inverters and with them delays (or
\* an interface its net).
TestProduct ==
    /\ phase = "finished" /\ FullyConnected(product)
    /\ \E netlist \in {StructureToNetlist(product, Entities, Unranked(product))} :
       \E optimized \in {Optimized(netlist, product.iface)} :
          /\ ~netlist.asserted /\ CountEdges(optimized) = CountEdges(netlist)
          /\ Test("N", product.iface, product, optimized)

\* SimTester::set and processInput: the inputs in driven are set, the others are not.
DriveInputs(driven) ==
    /\ sims # <<>> /\ turn = "input"
    /\ sims' = [i \in DOMAIN sims |-> ProcessInput([sims[i] EXCEPT !.input = driven])]
    /\ turn' = "step"
    /\ UNCHANGED <<vars, tested>>

TakeStep ==
    /\ sims # <<>> /\ turn = "step"
    /\ sims' = [i \in DOMAIN sims |-> InternalStep(sims[i])]
    /\ turn' = "input"
    /\ UNCHANGED <<vars, tested>>

SystemNext ==
    \/ sims = <<>> /\ Next /\ UNCHANGED testVars
    \/ TestEntity \/ TestProduct
    \/ \E driven \in SUBSET FlatWith(tested, "in") : DriveInputs(driven)
    \/ TakeStep

SystemSpec == SystemInit /\ [][SystemNext]_allVars

-----------------------------------------------------------------------------
(***************************************************************************)
(* Properties.                                                             *)
(***************************************************************************)

\* All simulators of an entity agree on its outputs after every input and every step,
\* whatever the inputs before: the nets of a structure propagate up and down the
\* hierarchy until they settle, a netlist has them merged or, where a part drives what
\* it reads, separated by oneways, and a behavior computes the same by rules.
OutputsAgree ==
    \A path \in FlatWith(tested, "out") :
        \A i, j \in DOMAIN sims : Get(sims[i], path) = Get(sims[j], path)

\* What the nets of the structure can settle at when each part does what its
\* functional behavior says.
StructureBehaviour(s) ==
    LET On(k, on) == {path \in Flat(Entities[s.parts[k]].iface) :
                        \E c \in on : <<k, path>> \in c}
        Drives(p, on, driven) ==
            IF p[1] = 0 THEN p[2] \in driven
            ELSE p[2] \in FunctionalBehavior(s.parts[p[1]], On(p[1], on))
        Steady(driven) == {on \in SUBSET s.connections :
            \A c \in s.connections : c \in on <=> \E p \in c : Drives(p, on, driven)}
        Outs(on) == {path \in FlatWith(s.iface, "out") : \E c \in on : <<0, path>> \in c}
    IN  UNION {{<<driven, Outs(on)>> : on \in Steady(driven)} :
                driven \in SUBSET FlatWith(s.iface, "in")}

NetlistBehaviour(s, netlist) ==
    LET g == [vertices |-> 1..netlist.n, edges |-> netlist.edges, ifaceMap |-> netlist.at]
        Outs(on) == {path \in FlatWith(s.iface, "out") : g.ifaceMap[path] \in on}
    IN  UNION {{<<driven, Outs(on)>> : on \in Graph!Stable(g, driven)} :
                driven \in SUBSET FlatWith(s.iface, "in")}

\* The netlist that is made from a structure computes what the structure does, part
\* by part and net by net, in whichever order the elements were allocated, feedback
\* included: as long as its interfaces are all connected to something and its parts
\* have functional behaviors.
NetlistComputesStructure ==
    phase = "finished" /\ FullyConnected(product)
        /\ Range(product.parts) \subseteq Functional =>
            \A rank \in Ranks(product) :
                NetlistBehaviour(product, StructureToNetlist(product, Entities, rank))
                    = StructureBehaviour(product)
=============================================================================
