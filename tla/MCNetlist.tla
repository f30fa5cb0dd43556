----------------------------- MODULE MCNetlist -----------------------------
(***************************************************************************)
(* The numbers of nets the configurations choose from; every graph of that  *)
(* many nets within MaxEdges is an initial state.                          *)
(***************************************************************************)
EXTENDS Netlist

ThreeVertices == 1..3
FourVertices == 1..4
=============================================================================
