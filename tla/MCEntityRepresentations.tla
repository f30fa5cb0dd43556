---------------------- MODULE MCEntityRepresentations ----------------------
(***************************************************************************)
(* Entities for TLC: one name a caller may give to results.                *)
(***************************************************************************)
EXTENDS EntityRepresentations

CONSTANT title

OneName == {title}
=============================================================================
