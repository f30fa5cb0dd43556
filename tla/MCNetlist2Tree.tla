--------------------------- MODULE MCNetlist2Tree ---------------------------
(***************************************************************************)
(* Netlists of three nets with two inputs and two outputs, at the range     *)
(* redstone has: with feedback, leaves, nets no input reaches, repeaters,   *)
(* splits in several rounds and of several connections at once.             *)
(***************************************************************************)
EXTENDS Netlist2Tree

ThreeVertices == 1..3

\* Outputs are told apart only by the nets they are attached to.
Outputs == Permutations(OutIfaces)

\* A latch and two clocks: a repeater at the very end of a path gets in the way.
ClockedLatch == {{<<1, 1>>, <<2, 3>>, <<3, 1>>, <<3, 2>>, <<3, 3>>}}

\* And a latch in a ring.
Larger == ClockedLatch \cup {{<<1, 3>>, <<3, 2>>, <<2, 1>>, <<3, 1>>}}
=============================================================================
