---------------------------- MODULE Dependencies ----------------------------
(***************************************************************************)
(* The dependency relation of a workflow, and what "ready" means for it.   *)
(* These are the reference definitions: module Graph shows that the        *)
(* in-degree counters of internal/dag/graph.go compute them, and module    *)
(* Scheduler uses them for the graph it drives.                            *)
(***************************************************************************)
EXTENDS Integers, FiniteSets

CONSTANTS
    Steps,      \* the step IDs of the workflow
    DependsOn   \* DependsOn[s]: the set of steps s waits for

ASSUME StepsFinite == IsFiniteSet(Steps)

ASSUME DependsOnType == DependsOn \in [Steps -> SUBSET Steps]

\* NewGraph accepts only acyclic graphs (validateAcyclic): every non-empty
\* set of steps has a member that depends on no other member of it.
ASSUME DependsOnAcyclic ==
    \A C \in SUBSET Steps :
        C # {} => \E s \in C : DependsOn[s] \cap C = {}

\* Mutation of ReadyIn: one resolved dependency is enough.
ReadyInAny(resolved) ==
    {s \in Steps \ resolved : DependsOn[s] = {} \/ DependsOn[s] \cap resolved # {}}

\* Graph.ReadySteps: the unresolved steps whose dependencies are resolved.
ReadyIn(resolved) ==
    {s \in Steps \ resolved : DependsOn[s] \subseteq resolved}

\* Mutation of NewlyReady: it returns every step that is ready.
NewlyReadyAll(s, resolved) ==
    {t \in Steps \ (resolved \cup {s}) : DependsOn[t] \subseteq resolved \cup {s}}

\* What Graph.resolveStep returns: the steps that become ready because s does.
NewlyReady(s, resolved) ==
    {t \in Steps \ (resolved \cup {s}) :
        s \in DependsOn[t] /\ DependsOn[t] \subseteq resolved \cup {s}}
=============================================================================
