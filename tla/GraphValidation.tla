-------------------------- MODULE GraphValidation --------------------------
(***************************************************************************)
(* How NewGraph (internal/dag/graph.go) decides whether a workflow is a    *)
(* graph at all: indexSteps refuses a repeated step ID, buildEdges refuses *)
(* a dependency on an unknown step, and validateAcyclic runs Kahn's        *)
(* algorithm on a copy of the in-degrees.                                  *)
(*                                                                         *)
(* The workflow is an input: Init chooses any list of up to MaxSteps step  *)
(* definitions over Names, each with a DependsOn list of up to MaxDeps     *)
(* entries, malformed ones included.  The order of Kahn's queue comes from *)
(* Go map iteration, so the queue is a set here.                           *)
(***************************************************************************)
EXTENDS Integers, Sequences, FiniteSets

CONSTANTS
    Names,      \* the step IDs a workflow may use or mention
    MaxSteps,   \* bound: the longest workflow considered
    MaxDeps     \* bound: the longest DependsOn list considered

ASSUME BoundsAssumption == MaxSteps \in Nat /\ MaxDeps \in Nat

VARIABLES
    ids,      \* the IDs of workflow.Steps, in order
    deps,     \* deps[i]: the DependsOn list of the i-th step
    pc,       \* "index", "edges", "kahn", "accepted", "rejected"
    inDeg,    \* validateAcyclic's copy of the in-degrees
    queue,    \* steps whose in-degree reached zero
    visited   \* how many steps the loop has taken from the queue

vars == <<ids, deps, pc, inDeg, queue, visited>>

SeqUpTo(S, n) == UNION {[1 .. m -> S] : m \in 0 .. n}

Known == {ids[i] : i \in DOMAIN ids}

\* The entries of the DependsOn list of step n, as <<step, entry>> positions.
Entries(n) ==
    {p \in (DOMAIN ids) \X (1 .. MaxDeps) :
        ids[p[1]] = n /\ p[2] \in DOMAIN deps[p[1]]}

\* How often edges[a] lists b.
Edges(a, b) == Cardinality({p \in Entries(b) : deps[p[1]][p[2]] = a})

TypeOK ==
    /\ ids \in SeqUpTo(Names, MaxSteps)
    /\ deps \in [DOMAIN ids -> SeqUpTo(Names, MaxDeps)]
    /\ pc \in {"index", "edges", "kahn", "accepted", "rejected"}
    /\ inDeg \in [Names -> Nat]
    /\ queue \in SUBSET Names
    /\ visited \in 0 .. MaxSteps

Init ==
    /\ ids \in SeqUpTo(Names, MaxSteps)
    /\ deps \in [DOMAIN ids -> SeqUpTo(Names, MaxDeps)]
    /\ pc = "index"
    /\ inDeg = [n \in Names |-> 0]
    /\ queue = {}
    /\ visited = 0

-----------------------------------------------------------------------------
\* indexSteps: a repeated ID is an error.
IndexSteps ==
    /\ pc = "index"
    /\ pc' = IF Cardinality(Known) = Len(ids) THEN "edges" ELSE "rejected"
    /\ UNCHANGED <<ids, deps, inDeg, queue, visited>>

\* buildEdges: an unknown dependency is an error; otherwise one count per
\* listed dependency, and validateAcyclic queues the steps with none.
BuildEdges ==
    LET mentioned == UNION {{deps[i][j] : j \in DOMAIN deps[i]} : i \in DOMAIN ids}
        degree == [n \in Names |-> Cardinality(Entries(n))]
    IN  /\ pc = "edges"
        /\ IF mentioned \subseteq Known
           THEN /\ pc' = "kahn"
                /\ inDeg' = degree
                /\ queue' = {n \in Known : degree[n] = 0}
           ELSE /\ pc' = "rejected"
                /\ UNCHANGED <<inDeg, queue>>
        /\ UNCHANGED <<ids, deps, visited>>

\* One turn of the loop: take a step, subtract its edges one by one, queue
\* the steps whose counter passes through zero.
Visit(n) ==
    /\ pc = "kahn"
    /\ n \in queue
    /\ visited' = visited + 1
    /\ inDeg' = [m \in Names |-> inDeg[m] - Edges(n, m)]
    /\ queue' = (queue \ {n}) \cup {m \in Names : inDeg[m] \in 1 .. Edges(n, m)}
    /\ UNCHANGED <<ids, deps, pc>>

\* Mutation of Verdict: an empty queue is taken for success.
VerdictAlwaysAccepts ==
    /\ pc = "kahn"
    /\ queue = {}
    /\ pc' = "accepted"
    /\ UNCHANGED <<ids, deps, inDeg, queue, visited>>

\* Mutation of Verdict: there is no error path for a cycle.
VerdictOnlyAccepts ==
    /\ pc = "kahn"
    /\ queue = {}
    /\ visited = Len(ids)
    /\ pc' = "accepted"
    /\ UNCHANGED <<ids, deps, inDeg, queue, visited>>

\* The queue is empty: every step was visited, or the rest lies on a cycle.
Verdict ==
    /\ pc = "kahn"
    /\ queue = {}
    /\ pc' = IF visited = Len(ids) THEN "accepted" ELSE "rejected"
    /\ UNCHANGED <<ids, deps, inDeg, queue, visited>>

Next ==
    \/ IndexSteps
    \/ BuildEdges
    \/ \E n \in Names : Visit(n)
    \/ Verdict

\* The whole of NewGraph is one sequential call: it keeps taking steps.
Spec == Init /\ [][Next]_vars /\ WF_vars(Next)

-----------------------------------------------------------------------------
DependsOnOf(n) ==
    UNION {{deps[i][j] : j \in DOMAIN deps[i]} : i \in {k \in DOMAIN ids : ids[k] = n}}

\* The reference: distinct IDs, known dependencies and no cycle, said without
\* counters or queues (every non-empty set of steps has a member that depends
\* on none of the set).
IsDAG ==
    /\ \A i, j \in DOMAIN ids : ids[i] = ids[j] => i = j
    /\ \A n \in Known : DependsOnOf(n) \subseteq Known
    /\ \A C \in SUBSET Known : C # {} => \E n \in C : DependsOnOf(n) \cap C = {}

\* NewGraph accepts exactly the directed acyclic graphs: the acyclicity that
\* Dependencies assumes is what this code establishes.
AcceptsExactlyDAGs ==
    /\ pc = "accepted" => IsDAG
    /\ pc = "rejected" => ~IsDAG

\* The loop ends for every input, cyclic ones and self-loops included.
Terminates == <>(pc \in {"accepted", "rejected"})
=============================================================================
