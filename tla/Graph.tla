------------------------------- MODULE Graph -------------------------------
(***************************************************************************)
(* The dependency graph of internal/dag/graph.go after NewGraph accepted   *)
(* the workflow: the in-degree counters, the resolved map and the calls    *)
(* MarkComplete and SkipStep, each atomic under Graph.mu.                  *)
(*                                                                         *)
(* The calls come in any order: the scheduler resolves a step only after   *)
(* its dependencies, but RestoreScheduler replays a checkpoint in the      *)
(* order of the workflow's step list, which may name a step before the     *)
(* steps it depends on.  A DependsOn list may name a step twice; NewGraph  *)
(* then adds two edges and counts two, so the lists are sequences here.    *)
(***************************************************************************)
EXTENDS Dependencies, Sequences

CONSTANT DependsOnList  \* step.DependsOn: a list, duplicates allowed

ASSUME DependsOnListType == DependsOnList \in [Steps -> Seq(Steps)]

ASSUME DependsOnIsRange ==
    \A s \in Steps :
        DependsOn[s] = {DependsOnList[s][i] : i \in DOMAIN DependsOnList[s]}

VARIABLES
    inDegree,   \* map step -> count; resolving a step deletes its entry
    status,     \* the resolved map: status[s], "" when s has no entry
    newlyReady  \* what the last resolving call returned

vars == <<inDegree, status, newlyReady>>

ResolvedStatuses == {"success", "skipped"}

resolved == {s \in Steps : status[s] # ""}

\* How often edges[s] lists t.
Edges(s, t) == Cardinality({i \in DOMAIN DependsOnList[t] : DependsOnList[t][i] = s})

TypeOK ==
    /\ status \in [Steps -> ResolvedStatuses \cup {""}]
    /\ inDegree \in [Steps \ resolved -> Nat]
    /\ newlyReady \in SUBSET Steps

-----------------------------------------------------------------------------
\* Mutation of NewGraph: a dependency named twice is counted once.
NewGraphCountsDistinct ==
    /\ inDegree = [s \in Steps |-> Cardinality(DependsOn[s])]
    /\ status = [s \in Steps |-> ""]
    /\ newlyReady = {}

\* NewGraph with indexSteps and buildEdges: one count per listed dependency.
NewGraph ==
    /\ inDegree = [s \in Steps |-> Len(DependsOnList[s])]
    /\ status = [s \in Steps |-> ""]
    /\ newlyReady = {}

\* Graph.ReadySteps, over the keys that are left in inDegree.
ReadySteps == {s \in DOMAIN inDegree : inDegree[s] = 0 /\ s \notin resolved}

\* Mutation of resolveStep: no early return for a step resolved before.
ResolveAgain(s, st) ==
    LET left == DOMAIN inDegree \ {s} IN
    /\ status' = [status EXCEPT ![s] = st]
    /\ inDegree' = [t \in left |-> inDegree[t] - Edges(s, t)]
    /\ newlyReady' = {t \in left : inDegree[t] \in 1 .. Edges(s, t)}

\* Mutation of resolveStep: a skipped step does not release its dependents.
ResolveSkipBlocks(s, st) ==
    LET left == DOMAIN inDegree \ {s} IN
    /\ s \notin resolved
    /\ status' = [status EXCEPT ![s] = st]
    /\ inDegree' = [t \in left |->
            IF st = "skipped" THEN inDegree[t] ELSE inDegree[t] - Edges(s, t)]
    /\ newlyReady' = {t \in left : st # "skipped" /\ inDegree[t] \in 1 .. Edges(s, t)}

\* Graph.resolveStep.  The loop over edges[s] decrements a counter once per
\* edge and reports a step when its counter passes through zero.  A call for
\* a resolved step returns early and changes nothing.
ResolveStep(s, st) ==
    LET left == DOMAIN inDegree \ {s} IN
    /\ s \notin resolved
    /\ status' = [status EXCEPT ![s] = st]
    /\ inDegree' = [t \in left |-> inDegree[t] - Edges(s, t)]
    /\ newlyReady' = {t \in left : inDegree[t] \in 1 .. Edges(s, t)}

MarkComplete(s) == ResolveStep(s, "success")

SkipStep(s) == ResolveStep(s, "skipped")

Next == \E s \in Steps : MarkComplete(s) \/ SkipStep(s)

Spec == NewGraph /\ [][Next]_vars

-----------------------------------------------------------------------------
\* The listed dependencies of s that are not resolved yet.
Waiting(s) == {i \in DOMAIN DependsOnList[s] : DependsOnList[s][i] \notin resolved}

\* The counters are exact, in whatever order steps are resolved and however
\* often a list repeats a dependency: a counter is the number of listed
\* dependencies that resolveStep has not yet subtracted.
CountersExact ==
    \A s \in Steps \ resolved : inDegree[s] = Cardinality(Waiting(s))

\* ReadySteps never offers a step with an unresolved dependency and never
\* forgets one that is free to run.
ReadyExact == ReadySteps = ReadyIn(resolved)

\* Progress: while steps are left, ReadySteps offers one, so the scheduler's
\* "workflow stalled with no ready steps" cannot come from the graph.
NeverStalled == resolved # Steps => ReadySteps # {}

\* The counters implement the counter-free specification: every call returns
\* exactly the steps that became ready because of it.
Promise == INSTANCE Readiness WITH resolved <- resolved, answer <- newlyReady

Refinement == Promise!Spec
=============================================================================
