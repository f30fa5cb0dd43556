--------------------------- MODULE MCTransformer ---------------------------
(***************************************************************************)
(* Every subset of eleven transformations between five types: chains that  *)
(* do not follow the type order, a path of length three and one of length  *)
(* four with the same ends (0-1-2-3 and 0-1-4-2-3), shortcuts and cycles.  *)
(***************************************************************************)
EXTENDS Transformer

ElevenTransformations ==
    {<<0, 1>>, <<1, 2>>, <<2, 3>>, <<1, 4>>, <<4, 2>>, <<3, 0>>,
     <<2, 1>>, <<0, 4>>, <<4, 3>>, <<2, 4>>, <<1, 3>>}
=============================================================================
