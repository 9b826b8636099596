--------------------------- MODULE MCCheckpointer ---------------------------
(***************************************************************************)
(* Checkpointer with three clients of one process.                         *)
(***************************************************************************)
EXTENDS Checkpointer

OneInstanceOf == [c \in {"c1", "c2", "c3"} |-> "server1"]
=============================================================================
