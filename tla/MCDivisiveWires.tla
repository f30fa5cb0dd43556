-------------------------- MODULE MCDivisiveWires --------------------------
(***************************************************************************)
(* Small channels for TLC.  In MCPairs every wire has one crosser from      *)
(* above and one from below, the shape of a wire between two layers; with   *)
(* as many columns as crossers a placement that keeps looking cannot get    *)
(* stuck.  In MCFork wire 0 has two crossers from below and wire 1 two from *)
(* above, so that they can meet in two columns, and four wires can form a   *)
(* chain whose middle is closed last.                                       *)
(***************************************************************************)
EXTENDS DivisiveWires

CONSTANTS a0, a1, a2, a3, b0, b1, b2, c1, d0

PairCrossers == {a0, a1, a2, b0, b1, b2}
PairBelow    == {b0, b1, b2}
PairLiaison  ==
    [c \in PairCrossers |->
        CASE c \in {a0, b0} -> 0 [] c \in {a1, b1} -> 1 [] c \in {a2, b2} -> 2]

ForkCrossers == {b0, d0, a1, c1, b1, a2, b2, a3}
ForkBelow    == {b0, d0, b1, b2}
ForkLiaison  ==
    [c \in ForkCrossers |->
        CASE c \in {b0, d0} -> 0 [] c \in {a1, c1, b1} -> 1
          [] c \in {a2, b2} -> 2 [] c = a3 -> 3]
=============================================================================
