------------------------- MODULE MCGraphValidation -------------------------
(***************************************************************************)
(* NewGraph on every workflow of up to three steps over three IDs, each    *)
(* step with up to two dependencies: repeated IDs, unknown, repeated and   *)
(* self dependencies, cycles of length one, two and three, and all DAGs.   *)
(***************************************************************************)
EXTENDS GraphValidation
=============================================================================
