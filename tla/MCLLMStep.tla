----------------------------- MODULE MCLLMStep -----------------------------
(***************************************************************************)
(* Two executions, of steps with IDs of their own or of one step in two    *)
(* runs, and a single one.                                                 *)
(***************************************************************************)
EXTENDS LLMStep

OwnStepID == [x1 |-> "step1", x2 |-> "step2"]

\* The same step in two runs of one workflow.
SameStepID == [x1 |-> "step1", x2 |-> "step1"]

\* One execution alone.
SoloStepID == [x1 |-> "step1"]
=============================================================================
