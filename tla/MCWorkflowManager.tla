------------------------- MODULE MCWorkflowManager -------------------------
(***************************************************************************)
(* A good definition, and one for each way a definition is refused.        *)
(***************************************************************************)
EXTENDS WorkflowManager

Definition(name, steps, acyclic) == [name |-> name, steps |-> steps, acyclic |-> acyclic]

MCDefinitions ==
    {Definition("review", <<"a", "b">>, TRUE), Definition("", <<"a">>, TRUE),
     Definition("empty", <<>>, TRUE), Definition("blank", <<"a", "">>, TRUE),
     Definition("twice", <<"a", "a">>, TRUE), Definition("cycle", <<"a", "b">>, FALSE)}
=============================================================================
