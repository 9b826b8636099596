---------------------------- MODULE GraphProofs ----------------------------
(***************************************************************************)
(* The in-degree counters of internal/dag/graph.go are right for every     *)
(* workflow NewGraph accepts: theorems about module Graph.                 *)
(*                                                                         *)
(* The inductive invariant is TypeOK /\ CountersExact.  From it follow     *)
(* ReadyExact and NeverStalled, state by state, and the refinement of      *)
(* Readiness, step by step.                                                *)
(***************************************************************************)
EXTENDS Graph, FiniteSetTheorems, TLAPS

IndInv == TypeOK /\ CountersExact

\* What a DependsOn list is: finitely many positions, each holding a step.
LEMMA ListFacts ==
    ASSUME NEW t \in Steps
    PROVE  /\ DOMAIN DependsOnList[t] = 1 .. Len(DependsOnList[t])
           /\ Len(DependsOnList[t]) \in Nat
           /\ IsFiniteSet(DOMAIN DependsOnList[t])
           /\ Cardinality(DOMAIN DependsOnList[t]) = Len(DependsOnList[t])
           /\ \A i \in DOMAIN DependsOnList[t] : DependsOnList[t][i] \in DependsOn[t]
<1>1. DependsOnList[t] \in Seq(Steps)
  BY DependsOnListType
<1>2. /\ DOMAIN DependsOnList[t] = 1 .. Len(DependsOnList[t])
      /\ Len(DependsOnList[t]) \in Nat
  BY <1>1
<1>3. /\ IsFiniteSet(1 .. Len(DependsOnList[t]))
      /\ Cardinality(1 .. Len(DependsOnList[t])) = Len(DependsOnList[t])
  <2> DEFINE n == Len(DependsOnList[t])
  <2>1. n \in Nat
    BY <1>2
  <2> HIDE DEF n
  <2>2. n \in Int /\ (1 > n => n = 0)
    BY <2>1
  <2>3. IsFiniteSet(1 .. n) /\ Cardinality(1 .. n) = IF 1 > n THEN 0 ELSE n - 1 + 1
    BY <2>2, FS_Interval
  <2>4. IsFiniteSet(1 .. n) /\ Cardinality(1 .. n) = n
    BY <2>1, <2>2, <2>3
  <2> QED
    BY <2>4 DEF n
<1>4. \A i \in DOMAIN DependsOnList[t] : DependsOnList[t][i] \in DependsOn[t]
  BY DependsOnIsRange
<1> QED
  BY <1>2, <1>3, <1>4

\* Removing a subset of a finite set removes exactly its elements.
LEMMA CardinalityOfDifference ==
    ASSUME NEW S, IsFiniteSet(S), NEW T \in SUBSET S
    PROVE  /\ IsFiniteSet(S \ T)
           /\ Cardinality(S \ T) \in Nat
           /\ Cardinality(T) \in Nat
           /\ Cardinality(S \ T) = Cardinality(S) - Cardinality(T)
<1>1. IsFiniteSet(T) /\ Cardinality(T) \in Nat
  BY FS_Subset, FS_CardinalityType
<1>2. IsFiniteSet(S \ T) /\ Cardinality(S \ T) \in Nat
  BY FS_Difference, FS_CardinalityType
<1>3. Cardinality((S \ T) \cup T) =
        Cardinality(S \ T) + Cardinality(T) - Cardinality((S \ T) \cap T)
  BY <1>1, <1>2, FS_Union
<1>4. (S \ T) \cup T = S /\ (S \ T) \cap T = {}
  OBVIOUS
<1>5. Cardinality(S) = Cardinality(S \ T) + Cardinality(T) - 0
  BY <1>3, <1>4, FS_EmptySet
<1>6. Cardinality(S) \in Nat
  BY FS_CardinalityType
<1> QED
  BY <1>1, <1>2, <1>5, <1>6

\* The positions of t's list that still wait, as a finite set.
LEMMA WaitingFacts ==
    ASSUME NEW t \in Steps
    PROVE  /\ IsFiniteSet(Waiting(t))
           /\ Cardinality(Waiting(t)) \in Nat
           /\ Cardinality(Waiting(t)) = 0 <=> DependsOn[t] \subseteq resolved
<1>1. IsFiniteSet(Waiting(t)) /\ Cardinality(Waiting(t)) \in Nat
  BY ListFacts, FS_Subset, FS_CardinalityType DEF Waiting
<1>2. Cardinality(Waiting(t)) = 0 <=> Waiting(t) = {}
  BY <1>1, FS_EmptySet
<1>3. Waiting(t) = {} <=> DependsOn[t] \subseteq resolved
  BY DependsOnIsRange DEF Waiting
<1> QED
  BY <1>1, <1>2, <1>3

-----------------------------------------------------------------------------
\* NewGraph starts with one count per listed dependency, none resolved.
LEMMA InitInv == NewGraph => IndInv
<1> SUFFICES ASSUME NewGraph PROVE IndInv
  OBVIOUS
<1>1. resolved = {}
  BY DEF NewGraph, resolved
<1>2. TypeOK
  BY <1>1, ListFacts DEF NewGraph, TypeOK
<1>3. CountersExact
  <2> SUFFICES ASSUME NEW t \in Steps PROVE inDegree[t] = Cardinality(Waiting(t))
    BY DEF CountersExact
  <2>1. Waiting(t) = DOMAIN DependsOnList[t]
    BY <1>1 DEF Waiting
  <2> QED
    BY <2>1, ListFacts DEF NewGraph
<1> QED
  BY <1>2, <1>3 DEF IndInv

\* What one resolveStep does to the set of positions another step waits on:
\* it removes exactly the positions that name the resolved step.
LEMMA ResolveEffect ==
    ASSUME IndInv, NEW s \in Steps, NEW st \in ResolvedStatuses, ResolveStep(s, st)
    PROVE  /\ status' \in [Steps -> ResolvedStatuses \cup {""}]
           /\ resolved' = resolved \cup {s}
           /\ DOMAIN inDegree \ {s} = Steps \ resolved'
           /\ \A t \in Steps \ resolved' :
                 /\ Edges(s, t) \in Nat
                 /\ Edges(s, t) > 0 <=> s \in DependsOn[t]
                 /\ Cardinality(Waiting(t)') \in Nat
                 /\ Cardinality(Waiting(t)') = Cardinality(Waiting(t)) - Edges(s, t)
<1>1. status' = [status EXCEPT ![s] = st] /\ s \notin resolved
  BY DEF ResolveStep
<1>2. status' \in [Steps -> ResolvedStatuses \cup {""}]
  BY <1>1 DEF IndInv, TypeOK
<1>3. resolved' = resolved \cup {s}
  BY <1>1 DEF IndInv, TypeOK, resolved, ResolvedStatuses
<1>4. DOMAIN inDegree \ {s} = Steps \ resolved'
  BY <1>3 DEF IndInv, TypeOK
<1>5. ASSUME NEW t \in Steps \ resolved'
      PROVE  /\ Edges(s, t) \in Nat
             /\ Edges(s, t) > 0 <=> s \in DependsOn[t]
             /\ Cardinality(Waiting(t)') \in Nat
             /\ Cardinality(Waiting(t)') = Cardinality(Waiting(t)) - Edges(s, t)
  <2> DEFINE named == {i \in DOMAIN DependsOnList[t] : DependsOnList[t][i] = s}
  <2>1. named \in SUBSET Waiting(t)
    BY <1>1 DEF Waiting
  <2>2. Waiting(t)' = Waiting(t) \ named
    BY <1>3 DEF Waiting
  <2>3. IsFiniteSet(Waiting(t))
    BY WaitingFacts
  <2> HIDE DEF named
  <2>4. /\ Cardinality(named) \in Nat
        /\ Cardinality(Waiting(t) \ named) \in Nat
        /\ Cardinality(Waiting(t) \ named) = Cardinality(Waiting(t)) - Cardinality(named)
    BY <2>1, <2>3, CardinalityOfDifference
  <2>5. Cardinality(named) = 0 <=> named = {}
    BY <2>1, <2>3, FS_Subset, FS_EmptySet
  <2>6. named = {} <=> s \notin DependsOn[t]
    BY DependsOnIsRange DEF named
  <2>7. Edges(s, t) = Cardinality(named)
    BY DEF Edges, named
  <2> QED
    BY <2>2, <2>4, <2>5, <2>6, <2>7
<1> QED
  BY <1>2, <1>3, <1>4, <1>5

\* resolveStep keeps the counters exact and non-negative.
LEMMA ResolvePreservesInv ==
    ASSUME IndInv, NEW s \in Steps, NEW st \in ResolvedStatuses, ResolveStep(s, st)
    PROVE  IndInv'
<1> DEFINE left == DOMAIN inDegree \ {s}
<1>1. /\ status' \in [Steps -> ResolvedStatuses \cup {""}]
      /\ resolved' = resolved \cup {s}
      /\ left = Steps \ resolved'
      /\ \A t \in Steps \ resolved' :
            /\ Edges(s, t) \in Nat
            /\ Cardinality(Waiting(t)') \in Nat
            /\ Cardinality(Waiting(t)') = Cardinality(Waiting(t)) - Edges(s, t)
  BY ResolveEffect
<1>2. /\ inDegree' = [t \in left |-> inDegree[t] - Edges(s, t)]
      /\ newlyReady' \in SUBSET left
  BY DEF ResolveStep
<1> HIDE DEF left
<1>3. ASSUME NEW t \in Steps \ resolved'
      PROVE  inDegree'[t] = Cardinality(Waiting(t)')
  <2>1. inDegree[t] = Cardinality(Waiting(t))
    BY <1>1 DEF IndInv, CountersExact
  <2> QED
    BY <1>1, <1>2, <2>1
<1>4. CountersExact'
  BY <1>3 DEF CountersExact
<1>5. TypeOK'
  <2>1. inDegree' \in [Steps \ resolved' -> Nat]
    BY <1>1, <1>2, <1>3
  <2>2. newlyReady' \in SUBSET Steps
    BY <1>1, <1>2
  <2> QED
    BY <1>1, <2>1, <2>2 DEF TypeOK
<1> QED
  BY <1>4, <1>5 DEF IndInv

LEMMA NextInv == IndInv /\ [Next]_vars => IndInv'
<1> SUFFICES ASSUME IndInv, [Next]_vars PROVE IndInv'
  OBVIOUS
<1>1. ASSUME NEW s \in Steps, MarkComplete(s) PROVE IndInv'
  BY <1>1, ResolvePreservesInv DEF MarkComplete, ResolvedStatuses
<1>2. ASSUME NEW s \in Steps, SkipStep(s) PROVE IndInv'
  BY <1>2, ResolvePreservesInv DEF SkipStep, ResolvedStatuses
<1>3. CASE UNCHANGED vars
  BY <1>3 DEF vars, IndInv, TypeOK, CountersExact, Waiting, resolved
<1> QED
  BY <1>1, <1>2, <1>3 DEF Next

\* The counters of every accepted workflow keep their type and are exact,
\* however the calls to MarkComplete and SkipStep are ordered.
THEOREM CountersCorrect == Spec => [](TypeOK /\ CountersExact)
<1>1. NewGraph => IndInv
  BY InitInv
<1>2. IndInv /\ [Next]_vars => IndInv'
  BY NextInv
<1> QED
  BY <1>1, <1>2, PTL DEF Spec, IndInv

-----------------------------------------------------------------------------
\* With exact counters, a zero counter is the same as all dependencies done.
LEMMA InvReadyExact == IndInv => ReadyExact
<1> SUFFICES ASSUME IndInv PROVE ReadySteps = ReadyIn(resolved)
  BY DEF ReadyExact
<1>1. DOMAIN inDegree = Steps \ resolved
  BY DEF IndInv, TypeOK
<1>2. ASSUME NEW t \in Steps \ resolved
      PROVE  inDegree[t] = 0 <=> DependsOn[t] \subseteq resolved
  BY WaitingFacts DEF IndInv, CountersExact
<1> QED
  BY <1>1, <1>2 DEF ReadySteps, ReadyIn

\* ReadySteps of graph.go is exactly the set of steps that may run.
THEOREM ReadyStepsCorrect == Spec => []ReadyExact
<1>1. IndInv => ReadyExact
  BY InvReadyExact
<1> QED
  BY <1>1, CountersCorrect, PTL DEF IndInv

\* Acyclicity, which validateAcyclic established, makes the graph offer a
\* ready step until every step is resolved.
THEOREM GraphNeverStalls == Spec => []NeverStalled
<1>1. IndInv => NeverStalled
  <2> SUFFICES ASSUME IndInv, resolved # Steps PROVE ReadySteps # {}
    BY DEF NeverStalled
  <2>1. Steps \ resolved # {}
    BY DEF resolved
  <2>2. PICK t \in Steps \ resolved : DependsOn[t] \cap (Steps \ resolved) = {}
    BY <2>1, DependsOnAcyclic
  <2>3. DependsOn[t] \subseteq resolved
    BY <2>2, DependsOnType
  <2> QED
    BY <2>3, InvReadyExact DEF ReadyExact, ReadyIn
<1> QED
  BY <1>1, CountersCorrect, PTL DEF IndInv

-----------------------------------------------------------------------------
\* One resolveStep is one Resolve of the counter-free specification.
LEMMA ResolveRefines ==
    ASSUME IndInv, NEW s \in Steps, NEW st \in ResolvedStatuses, ResolveStep(s, st)
    PROVE  Promise!Resolve(s)
<1> DEFINE left == DOMAIN inDegree \ {s}
<1>1. /\ resolved' = resolved \cup {s}
      /\ left = Steps \ resolved'
      /\ \A t \in Steps \ resolved' :
            /\ Edges(s, t) \in Nat
            /\ Edges(s, t) > 0 <=> s \in DependsOn[t]
            /\ Cardinality(Waiting(t)') \in Nat
            /\ Cardinality(Waiting(t)') = Cardinality(Waiting(t)) - Edges(s, t)
  BY ResolveEffect
<1>2. /\ s \notin resolved
      /\ newlyReady' = {t \in left : inDegree[t] \in 1 .. Edges(s, t)}
  BY DEF ResolveStep
<1> HIDE DEF left
<1>3. ASSUME NEW t \in Steps \ resolved'
      PROVE  inDegree[t] \in 1 .. Edges(s, t) <=>
                s \in DependsOn[t] /\ DependsOn[t] \subseteq resolved \cup {s}
  <2>1. inDegree[t] = Cardinality(Waiting(t)) /\ inDegree[t] \in Nat
    BY <1>1 DEF IndInv, CountersExact, TypeOK
  <2>2. Cardinality(Waiting(t)') = 0 <=> DependsOn[t] \subseteq resolved'
    <3>1. Waiting(t)' = {i \in DOMAIN DependsOnList[t] : DependsOnList[t][i] \notin resolved'}
      BY DEF Waiting
    <3>2. IsFiniteSet(Waiting(t)')
      BY <3>1, ListFacts, FS_Subset
    <3>3. Cardinality(Waiting(t)') = 0 <=> Waiting(t)' = {}
      BY <3>2, FS_EmptySet
    <3>4. Waiting(t)' = {} <=> DependsOn[t] \subseteq resolved'
      BY <3>1, DependsOnIsRange
    <3> QED
      BY <3>3, <3>4
  <2>3. inDegree[t] \in 1 .. Edges(s, t) <=>
            Edges(s, t) > 0 /\ Cardinality(Waiting(t)') = 0
    BY <1>1, <2>1
  <2> QED
    BY <1>1, <2>2, <2>3
<1>4. newlyReady' = NewlyReady(s, resolved)
  BY <1>1, <1>2, <1>3 DEF NewlyReady
<1> QED
  BY <1>1, <1>2, <1>4 DEF Promise!Resolve, Promise!NewlyReady, NewlyReady

\* The counters implement the counter-free specification of a dependency
\* graph: resolved steps only grow, and each call returns exactly the steps
\* it made ready.
THEOREM GraphImplementsReadiness == Spec => Refinement
<1>1. NewGraph => Promise!Init
  BY DEF NewGraph, Promise!Init, resolved
<1>2. IndInv /\ [Next]_vars => [Promise!Next]_(Promise!vars)
  <2> SUFFICES ASSUME IndInv, [Next]_vars PROVE [Promise!Next]_(Promise!vars)
    OBVIOUS
  <2>1. ASSUME NEW s \in Steps, MarkComplete(s) PROVE Promise!Next
    BY <2>1, ResolveRefines DEF MarkComplete, ResolvedStatuses, Promise!Next
  <2>2. ASSUME NEW s \in Steps, SkipStep(s) PROVE Promise!Next
    BY <2>2, ResolveRefines DEF SkipStep, ResolvedStatuses, Promise!Next
  <2>3. CASE UNCHANGED vars
    BY <2>3 DEF vars, Promise!vars, resolved
  <2> QED
    BY <2>1, <2>2, <2>3 DEF Next
<1> QED
  BY <1>1, <1>2, CountersCorrect, PTL DEF Spec, IndInv, Refinement, Promise!Spec
=============================================================================
