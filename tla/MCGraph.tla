------------------------------ MODULE MCGraph ------------------------------
(***************************************************************************)
(* A five-step instance of Graph: a diamond whose join names one branch    *)
(* twice, and a step that depends on the entry and on the join.            *)
(***************************************************************************)
EXTENDS Graph

MCSteps == {"fetch", "plan", "rank", "join", "report"}

MCDependsOnList ==
    [ fetch  |-> <<>>,
      plan   |-> <<"fetch">>,
      rank   |-> <<"fetch">>,
      join   |-> <<"plan", "rank", "plan">>,
      report |-> <<"join", "fetch">> ]

MCDependsOn ==
    [s \in MCSteps |-> {MCDependsOnList[s][i] : i \in DOMAIN MCDependsOnList[s]}]
=============================================================================
