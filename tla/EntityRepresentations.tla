----------------------- MODULE EntityRepresentations -----------------------
(***************************************************************************)
(* An entity and its representations.  Finished structures, transformations *)
(* asked for by name and representations generated on demand all append to *)
(* one list; a representation knows the one it was made from (parent) and  *)
(* the timing it abides by.  What a stateless entity accepts is checked by *)
(* way of the netlist generated from it, which must not have cycles.       *)
(*                                                                         *)
(* Representations are numbered in the order of the list, timings in the   *)
(* order in which they are added; 0 is nullptr.  The contents are          *)
(* abstracted to one bit, whether the netlist has cycles, and to whether   *)
(* the delays were changed on the way (altered).  How often a netlist must *)
(* be split before its tree can be built, and whether the tree's wires     *)
(* must be fixed, is left open here.                                       *)
(*                                                                         *)
(* Builtin transformations form the chain Structure, Netlist, TreeModel,   *)
(* Blocks, Commands, so a shortest path (module Transformer) starts at the *)
(* last type of the chain that exists.                                     *)
(***************************************************************************)
EXTENDS Integers, Sequences

CONSTANTS
    Kinds,               \* the kinds of entity considered
    Names, NoName,       \* the result names a caller may give; no name: a canonical one
    MaxSplits,           \* bound: splits of a netlist in one transformation
    MaxRepresentations   \* bound: no operation starts beyond it

\* A stateful or stateless entity made of structures, or EInverter, which comes
\* with a netlist and a behavior and is stateless.
ASSUME KindsAssumption == Kinds \subseteq {"stateful", "stateless", "builtin"}
ASSUME NamesAssumption == NoName \notin Names
ASSUME BoundsAssumption == MaxSplits \in Nat /\ MaxRepresentations \in Nat

TimedBehavior == 0
Structure == 2
Netlist == 3
TreeModel == 4
Blocks == 5
Commands == 6

VARIABLES
    kind,
    phase,      \* "open" until it is in a namespace: "listed"; "dropped" if rejected
    reps,       \* representations_
    timings,    \* the number of timings_
    accepted,   \* the structures that finalize returned from
    names,      \* the result names in use
    failed      \* the assertion that ended the program, or "none"

vars == <<kind, phase, reps, timings, accepted, names, failed>>

isStateless == kind # "stateful"

OfType(rs, type) == {i \in DOMAIN rs : rs[i].type = type}

\* list[0] of repIdx_type_, or 0 for a type without a list.
FirstOf(indices) ==
    IF indices = {} THEN 0 ELSE CHOOSE i \in indices : \A j \in indices : i <= j

Ancestors(rs, i) ==
    LET above[j \in 0 .. Len(rs)] ==
            IF j = 0 \/ rs[j].parent = 0 THEN {}
            ELSE {rs[j].parent} \cup above[rs[j].parent]
    IN  above[i]

Child(rs, i, type, timing, altered) ==
    [type |-> type, parent |-> i, timing |-> timing, cyclic |-> rs[i].cyclic, altered |-> altered]

-----------------------------------------------------------------------------
Parentless(type, timing, cyclic) ==
    [type |-> type, parent |-> 0, timing |-> timing, cyclic |-> cyclic, altered |-> FALSE]

\* EInverter::EInverter
BuiltinRepresentations ==
    <<Parentless(Netlist, 1, FALSE), Parentless(TimedBehavior, 1, FALSE)>>

Init ==
    /\ kind \in Kinds
    /\ IF kind = "builtin"
       THEN phase = "listed" /\ reps = BuiltinRepresentations /\ timings = 1
       ELSE phase = "open" /\ reps = <<>> /\ timings = 0
    /\ accepted = {}
    /\ names = {}
    /\ failed = "none"

-----------------------------------------------------------------------------
(* Adding a representation                                                  *)

\* getRepresentation<Netlist>(&result): the first netlist made from the source;
\* without one, generate makes one from the first of the source's type.  The
\* list with the netlist and the netlist's number, 0 if there is no path.
NetlistOf(rs, source) ==
    LET descendants == {i \in OfType(rs, Netlist) : source \in Ancestors(rs, i)}
        first == FirstOf(OfType(rs, Structure))
    IN  IF descendants # {} THEN [reps |-> rs, netlist |-> FirstOf(descendants)]
        ELSE IF rs[source].type = Structure
        THEN [reps |-> Append(rs, Child(rs, first, Netlist, rs[first].timing, FALSE)),
              netlist |-> Len(rs) + 1]
        ELSE [reps |-> rs, netlist |-> 0]

\* Mutant of AddRepresentation: the netlist is not looked at.
AddUnchecked(rs, rep) == [reps |-> Append(rs, rep), verdict |-> "none"]

\* addRepresentation: the representation is in the list before it is checked,
\* and stays there whatever the verdict.
AddRepresentation(rs, rep) ==
    LET added   == Append(rs, rep)
        checked == IF rep.type = Netlist THEN [reps |-> added, netlist |-> Len(added)]
                   ELSE NetlistOf(added, Len(added))
    IN  IF ~isStateless \/ rep.type \notin {Structure, Blocks, Netlist}
        THEN [reps |-> added, verdict |-> "none"]
        ELSE [reps |-> checked.reps,
              verdict |-> IF checked.netlist = 0 THEN "no netlist"
                          ELSE IF checked.reps[checked.netlist].cyclic THEN "cycles"
                          ELSE "none"]

-----------------------------------------------------------------------------
(* Transformations                                                          *)

\* Mutants of Transformed: neither splitting nor fixing breaks the timing.
TransformedKeepingTiming(rs, ts, i, type, splits, fixed) ==
    LET n == IF type = TreeModel THEN splits ELSE 0
    IN  [reps    |-> rs \o [j \in 1 .. n |->
                        Child(rs, IF j = 1 THEN i ELSE Len(rs) + j - 1, Netlist, rs[i].timing, TRUE)],
         timings |-> ts,
         result  |-> Child(rs, i, type, rs[i].timing, FALSE),
         thrown  |-> FALSE]

\* A tree that was fixed abides by a timing that was never added.
TransformedUnregistered(rs, ts, i, type, splits, fixed) ==
    LET breaks == type = TreeModel /\ fixed
    IN  [reps    |-> rs,
         timings |-> ts,
         result  |-> Child(rs, i, type, IF breaks THEN ts + 1 ELSE rs[i].timing, breaks),
         thrown  |-> FALSE]

\* Executing the transformation of representation i to the next type: what the
\* list and the timings are then, the result, which is not in the list yet, and
\* whether an exception was thrown instead.  Netlist2Tree adds a netlist with a
\* timing of its own for every split and continues with that one; a netlist of
\* a stateless entity that has cycles is rejected at its first split.  A tree
\* whose wires had to be fixed breaks the timing as well.
Transformed(rs, ts, i, type, splits, fixed) ==
    LET thrown == type = TreeModel /\ isStateless /\ rs[i].cyclic /\ splits > 0
        n      == IF type # TreeModel THEN 0 ELSE IF thrown THEN 1 ELSE splits
        breaks == type = TreeModel /\ fixed /\ ~thrown
        parent(j) == IF j = 0 THEN i ELSE Len(rs) + j
        timing(j) == IF j = 0 THEN rs[i].timing ELSE ts + j
        split  == [j \in 1 .. n |->
                      [Child(rs, i, Netlist, timing(j), TRUE) EXCEPT !.parent = parent(j - 1)]]
        ends   == ts + n + (IF breaks THEN 1 ELSE 0)
    IN  [reps    |-> rs \o split,
         timings |-> ends,
         result  |-> [Child(rs, i, type, IF breaks THEN ends ELSE timing(n), breaks)
                         EXCEPT !.parent = parent(n)],
         thrown  |-> thrown]

\* generate without a source: along the path, from the first representation of
\* the last existing type of the chain; nothing on the way is checked.
Generated(dst, splits, fixed) ==
    LET existing == {t \in Structure .. dst - 1 : OfType(reps, t) # {}}
        src == CHOOSE t \in existing : \A u \in existing : u <= t
        along[t \in src .. dst] ==
            IF t = src
            THEN [reps |-> reps, timings |-> timings, last |-> FirstOf(OfType(reps, src)), thrown |-> FALSE]
            ELSE LET before == along[t - 1]
                     x == Transformed(before.reps, before.timings, before.last, t, splits, fixed)
                 IN  IF before.thrown THEN before
                     ELSE [reps |-> IF x.thrown THEN x.reps ELSE Append(x.reps, x.result),
                           timings |-> x.timings, last |-> Len(x.reps) + 1, thrown |-> x.thrown]
    IN  along[dst]

-----------------------------------------------------------------------------
(* Operations                                                               *)

Usable == failed = "none" /\ phase # "dropped" /\ Len(reps) < MaxRepresentations

\* What a structure brings along: behaviors that abide by its timing or by none.
Behaviors == {<<>>, <<"timed">>, <<"functional">>, <<"functional", "timed">>}

\* Structure::doFinalize, and NewEntityStructure::doFinalize around it.  The
\* structure gets a new timing; only a new entity is dropped with a structure
\* that is rejected.
FinalizeStructure(cyclic, behaviors) ==
    LET timing == timings + 1
        added  == AddRepresentation(reps, Parentless(Structure, timing, cyclic))
        behave == [j \in DOMAIN behaviors |->
                      Parentless(TimedBehavior, IF behaviors[j] = "timed" THEN timing ELSE 0, FALSE)]
    IN  /\ Usable
        /\ timings' = timing
        /\ \/ /\ added.verdict = "none"
              /\ reps' = added.reps \o behave
              /\ accepted' = accepted \cup {Len(reps) + 1}
              /\ phase' = "listed"
           \/ /\ added.verdict = "cycles"
              /\ reps' = added.reps
              /\ phase' = IF phase = "open" THEN "dropped" ELSE phase
              /\ UNCHANGED accepted
        /\ UNCHANGED <<kind, names, failed>>

\* getRepresentation from outside for a type that does not exist yet: a composite
\* needs its part's netlist, or the commands are printed.  An exception passes
\* through to the C API, which does not expect it.
GetRepresentation(type, splits, fixed) ==
    /\ Usable
    /\ phase = "listed"
    /\ OfType(reps, type) = {}
    /\ LET generated == Generated(type, splits, fixed)
       IN  /\ reps' = generated.reps
           /\ timings' = generated.timings
           /\ failed' = IF generated.thrown THEN "unexpected exception" ELSE failed
    /\ UNCHANGED <<kind, phase, accepted, names>>

\* rhdl_transform: the result is added like any other representation, under the
\* caller's name, which the list refuses if it is taken.
Transform(i, splits, fixed, name) ==
    LET type  == reps[i].type + 1
        x     == Transformed(reps, timings, i, type, splits, fixed)
        added == AddRepresentation(x.reps, x.result)
    IN  /\ Usable
        /\ phase = "listed"
        /\ reps[i].type \in Structure .. Blocks
        /\ timings' = x.timings
        /\ \/ /\ x.thrown \/ name \in names
              /\ reps' = x.reps
              /\ failed' = "unexpected exception"
              /\ UNCHANGED names
           \/ /\ ~x.thrown /\ name \notin names
              /\ reps' = added.reps
              /\ failed' = CASE added.verdict = "none" -> failed
                            [] added.verdict = "cycles" -> "unexpected exception"
                            [] added.verdict = "no netlist" -> "no netlist"
              /\ names' = names \cup ({name} \ {NoName})
        /\ UNCHANGED <<kind, phase, accepted>>

Terminated == ~Usable /\ UNCHANGED vars

Next ==
    \/ \E cyclic \in BOOLEAN, behaviors \in Behaviors : FinalizeStructure(cyclic, behaviors)
    \/ \E type \in {Netlist, Commands}, splits \in 0 .. MaxSplits, fixed \in BOOLEAN :
          GetRepresentation(type, splits, fixed)
    \/ \E i \in DOMAIN reps, splits \in 0 .. MaxSplits, fixed \in BOOLEAN, name \in Names \cup {NoName} :
          Transform(i, splits, fixed, name)
    \/ Terminated

Spec == Init /\ [][Next]_vars

-----------------------------------------------------------------------------
(* Simulation                                                               *)

\* Mutant of PartRepresentation: the first behavior, whatever its timing.
FirstRepresentation(useBehavior) ==
    LET behavior  == FirstOf(OfType(reps, TimedBehavior))
        structure == FirstOf(OfType(reps, Structure))
    IN  IF (useBehavior /\ behavior # 0) \/ structure = 0 THEN behavior ELSE structure

\* The representation by which HierarchicalSim simulates the entity as a part of
\* another one, and the timing all of them are supposed to have.
PartRepresentation(useBehavior) ==
    LET behavior  == FirstOf(OfType(reps, TimedBehavior))
        structure == FirstOf(OfType(reps, Structure))
    IN  IF useBehavior
        THEN IF behavior = 0 \/ reps[behavior].timing # 1 THEN structure ELSE behavior
        ELSE IF structure = 0 THEN behavior ELSE structure

-----------------------------------------------------------------------------
(* Properties                                                               *)

TypeOK ==
    /\ kind \in Kinds
    /\ phase \in {"open", "listed", "dropped"}
    /\ \A i \in DOMAIN reps :
          reps[i] \in [type : 0 .. 6, parent : 0 .. i - 1, timing : 0 .. timings,
                      cyclic : BOOLEAN, altered : BOOLEAN]
    /\ timings \in Nat
    /\ accepted \subseteq OfType(reps, Structure)
    /\ names \subseteq Names
    /\ failed \in {"none", "no netlist", "unexpected exception"}

\* The representation whose delays this one still has: the last one on the way
\* to it that was altered, or the one at the start.
Origin(i) ==
    LET origins == {j \in {i} \cup Ancestors(reps, i) : reps[j].altered \/ reps[j].parent = 0}
    IN  CHOOSE j \in origins : \A k \in origins : k <= j

Synthesis == {i \in DOMAIN reps : reps[i].type # TimedBehavior}

\* A timing stands for the delays of the representations that abide by it: two
\* of them share a timing exactly if nothing between them was split or fixed,
\* however often and from wherever netlists were transformed.
SameTimingSameDelays ==
    \A i, j \in Synthesis : reps[i].timing = reps[j].timing <=> Origin(i) = Origin(j)

\* What is synthesised for a stateless entity made of structures comes from a
\* netlist without cycles, although generate checks nothing, later structures
\* are checked against the wrong netlist and rejected netlists stay in the list.
SynthesizedAcyclic ==
    kind = "stateless" /\ phase = "listed" =>
        \A i \in DOMAIN reps : reps[i].type >= TreeModel => ~reps[i].cyclic

\* The assertion of HierarchicalSim: a part made of structures can always be
\* simulated by a representation that abides by the entity's first timing.  (Of
\* EInverter it does not hold once a structure is added to it.)
PartsSimulatable ==
    kind # "builtin" /\ phase = "listed" =>
        \A useBehavior \in BOOLEAN :
            LET i == PartRepresentation(useBehavior) IN i # 0 /\ reps[i].timing = 1

\* "The netlist (that was generated from the representation) you tried to add
\* contains cycles": every structure accepted by a stateless entity is without.
AcceptedAcyclic ==
    isStateless => \A i \in accepted : ~reps[i].cyclic

\* The assertion of addRepresentation: whatever the C API adds to a stateless
\* entity, there is a netlist to check.
NetlistFound == failed # "no netlist"
=============================================================================
