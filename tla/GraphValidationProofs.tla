----------------------- MODULE GraphValidationProofs -----------------------
(***************************************************************************)
(* NewGraph accepts a workflow exactly if it is a directed acyclic graph:  *)
(* the theorem and its proof, for workflows of any size.                   *)
(*                                                                         *)
(* Kahn's loop only counts the steps it has taken.  The argument needs to  *)
(* know which they were, so the invariant says that some set of steps has  *)
(* that size and explains the counters and the queue (Taken).  Taken is    *)
(* closed under dependencies and has no cycle; what is left when the queue *)
(* is empty has no member without a dependency left.                       *)
(***************************************************************************)
EXTENDS GraphValidation, FiniteSetTheorems, FunctionTheorems, TLAPS

\* The entries of step m's DependsOn list that name no member of V.
Unmet(m, V) == {p \in Entries(m) : deps[p[1]][p[2]] \notin V}

\* V can be the set of steps that the loop has taken from the queue.
Taken(V) ==
    /\ V \subseteq Known
    /\ visited = Cardinality(V)
    /\ \A m \in Names : inDeg[m] = Cardinality(Unmet(m, V))
    /\ queue = {m \in Known \ V : inDeg[m] = 0}
    /\ \A m \in V : DependsOnOf(m) \subseteq V
    /\ \A C \in SUBSET V : C # {} => \E n \in C : DependsOnOf(n) \cap C = {}

DistinctIDs == \A i, j \in DOMAIN ids : ids[i] = ids[j] => i = j
DependenciesKnown == \A n \in Known : DependsOnOf(n) \subseteq Known

ValidationInv ==
    /\ TypeOK
    /\ pc \in {"index", "edges"} => visited = 0
    /\ pc \in {"edges", "kahn"} => DistinctIDs
    /\ pc = "kahn" => DependenciesKnown /\ \E V \in SUBSET Known : Taken(V)
    /\ AcceptsExactlyDAGs

-----------------------------------------------------------------------------
\* The positions of a DependsOn list are within MaxDeps, and the known steps
\* are finitely many names, no more than the workflow has steps.
LEMMA WorkflowFacts ==
    ASSUME TypeOK
    PROVE  /\ Len(ids) \in 0 .. MaxSteps /\ DOMAIN ids = 1 .. Len(ids)
           /\ Known \subseteq Names
           /\ \A i \in DOMAIN ids : \A j \in DOMAIN deps[i] : j \in 1 .. MaxDeps
           /\ IsFiniteSet(Known)
           /\ Cardinality(Known) \in 0 .. Len(ids)
           /\ Cardinality(Known) = Len(ids) <=> DistinctIDs
<1>1. PICK m \in 0 .. MaxSteps : ids \in [1 .. m -> Names]
  BY DEF TypeOK, SeqUpTo
<1>2. Len(ids) = m /\ DOMAIN ids = 1 .. m /\ m \in Nat
  BY <1>1, BoundsAssumption
<1>3. Known \subseteq Names
  BY <1>1 DEF Known
<1>4. \A i \in DOMAIN ids : \A j \in DOMAIN deps[i] : j \in 1 .. MaxDeps
  <2>1. SUFFICES ASSUME NEW i \in DOMAIN ids, NEW j \in DOMAIN deps[i]
                 PROVE  j \in 1 .. MaxDeps
    OBVIOUS
  <2>2. PICK k \in 0 .. MaxDeps : deps[i] \in [1 .. k -> Names]
    BY DEF TypeOK, SeqUpTo
  <2> QED
    BY <2>1, <2>2, BoundsAssumption
<1>5. ids \in Surjection(1 .. m, Known)
  BY <1>1, <1>2 DEF Surjection, Known
<1>6. IsFiniteSet(1 .. m) /\ Cardinality(1 .. m) = m
  BY <1>2, FS_Interval
<1>7. /\ IsFiniteSet(Known) /\ Cardinality(Known) <= m
      /\ Cardinality(Known) = m <=> ids \in Injection(1 .. m, Known)
  BY <1>5, <1>6, FS_Surjection
<1>8. Cardinality(Known) \in Nat
  BY <1>7, FS_CardinalityType
<1>9. ids \in Injection(1 .. m, Known) <=> DistinctIDs
  BY <1>2, <1>5 DEF Injection, IsInjective, Surjection, DistinctIDs
<1> QED
  BY <1>1, <1>2, <1>3, <1>4, <1>7, <1>8, <1>9

\* A step's dependencies are what its entries name.
LEMMA DependenciesOfEntries ==
    ASSUME TypeOK, NEW n
    PROVE  /\ \A p \in Entries(n) : deps[p[1]][p[2]] \in DependsOnOf(n)
           /\ \A a \in DependsOnOf(n) : \E p \in Entries(n) : deps[p[1]][p[2]] = a
<1>1. \A p \in Entries(n) : deps[p[1]][p[2]] \in DependsOnOf(n)
  BY DEF Entries, DependsOnOf
<1>2. ASSUME NEW a \in DependsOnOf(n)
      PROVE  \E p \in Entries(n) : deps[p[1]][p[2]] = a
  <2>1. PICK i \in DOMAIN ids : ids[i] = n /\ a \in {deps[i][j] : j \in DOMAIN deps[i]}
    BY <1>2 DEF DependsOnOf
  <2>2. PICK j \in DOMAIN deps[i] : a = deps[i][j]
    BY <2>1
  <2>3. j \in 1 .. MaxDeps
    BY WorkflowFacts
  <2>4. <<i, j>> \in Entries(n)
    BY <2>1, <2>2, <2>3 DEF Entries
  <2> QED
    BY <2>2, <2>4
<1> QED
  BY <1>1, <1>2

\* The entries of a step are finitely many, and a count of unmet ones is zero
\* exactly if every dependency is in V.
LEMMA UnmetFacts ==
    ASSUME TypeOK, NEW n, NEW V
    PROVE  /\ IsFiniteSet(Entries(n)) /\ IsFiniteSet(Unmet(n, V))
           /\ Cardinality(Unmet(n, V)) \in Nat
           /\ Cardinality(Unmet(n, V)) = 0 <=> DependsOnOf(n) \subseteq V
<1>1. IsFiniteSet(DOMAIN ids) /\ IsFiniteSet(1 .. MaxDeps)
  BY WorkflowFacts, FS_Interval, BoundsAssumption
<1>2. IsFiniteSet((DOMAIN ids) \X (1 .. MaxDeps))
  BY <1>1, FS_Product
<1>3. /\ Entries(n) \in SUBSET ((DOMAIN ids) \X (1 .. MaxDeps))
      /\ Unmet(n, V) \in SUBSET ((DOMAIN ids) \X (1 .. MaxDeps))
  BY DEF Entries, Unmet
<1>4. IsFiniteSet(Entries(n)) /\ IsFiniteSet(Unmet(n, V))
  BY <1>2, <1>3, FS_Subset
<1>5. /\ Cardinality(Unmet(n, V)) \in Nat
      /\ Cardinality(Unmet(n, V)) = 0 <=> Unmet(n, V) = {}
  BY <1>4, FS_CardinalityType, FS_EmptySet
<1>6. Unmet(n, V) = {} <=> DependsOnOf(n) \subseteq V
  BY DependenciesOfEntries DEF Unmet
<1> QED
  BY <1>4, <1>5, <1>6

\* Taking n, which is not in V yet, settles the entries that name n.
LEMMA TakingSettles ==
    ASSUME TypeOK, NEW m, NEW V, NEW n, n \notin V
    PROVE  /\ Edges(n, m) \in Nat
           /\ Cardinality(Unmet(m, V \cup {n})) = Cardinality(Unmet(m, V)) - Edges(n, m)
<1> DEFINE D == {p \in Entries(m) : deps[p[1]][p[2]] = n}
<1>1. IsFiniteSet(Unmet(m, V)) /\ IsFiniteSet(Entries(m))
  BY UnmetFacts
<1>2. D \in SUBSET Entries(m)
  OBVIOUS
<1>3. Unmet(m, V \cup {n}) = Unmet(m, V) \ D /\ Unmet(m, V) \cap D = D
  BY DEF Unmet
<1>4. IsFiniteSet(D) /\ Cardinality(D) = Edges(n, m)
  BY <1>1, <1>2, FS_Subset DEF Edges
<1>5. Edges(n, m) \in Nat
  BY <1>4, FS_CardinalityType
<1> HIDE DEF D
<1>6. Cardinality(Unmet(m, V) \ D) = Cardinality(Unmet(m, V)) - Cardinality(Unmet(m, V) \cap D)
  BY <1>1, FS_Difference
<1> QED
  BY <1>3, <1>4, <1>5, <1>6

-----------------------------------------------------------------------------
\* What is known of a workflow does not change while it is validated.
LEMMA WorkflowFixed ==
    ASSUME UNCHANGED <<ids, deps>>
    PROVE  /\ Known' = Known /\ DistinctIDs' = DistinctIDs
           /\ DependenciesKnown' = DependenciesKnown /\ IsDAG' = IsDAG
           /\ \A n : DependsOnOf(n)' = DependsOnOf(n)
           /\ \A n, V : Unmet(n, V)' = Unmet(n, V)
<1>1. Known' = Known
  BY DEF Known
<1>2. \A n : DependsOnOf(n)' = DependsOnOf(n)
  BY DEF DependsOnOf
<1>3. \A n : Entries(n)' = Entries(n)
  BY DEF Entries
<1>4. \A n, V : Unmet(n, V)' = Unmet(n, V)
  BY <1>3 DEF Unmet
<1>5. DistinctIDs' = DistinctIDs
  BY DEF DistinctIDs
<1>6. DependenciesKnown' = DependenciesKnown
  BY <1>1, <1>2 DEF DependenciesKnown
<1>7. IsDAG' = IsDAG
  BY <1>1, <1>2 DEF IsDAG
<1> QED
  BY <1>1, <1>2, <1>4, <1>5, <1>6, <1>7

\* buildEdges starts Kahn's loop with nothing taken.
LEMMA LoopStarts ==
    ASSUME TypeOK, TypeOK', visited = 0, BuildEdges, pc' = "kahn"
    PROVE  DependenciesKnown /\ Taken({})'
<1>1. /\ UNCHANGED <<ids, deps, visited>>
      /\ inDeg' = [n \in Names |-> Cardinality(Entries(n))]
      /\ queue' = {n \in Known : inDeg'[n] = 0}
      /\ UNION {{deps[i][j] : j \in DOMAIN deps[i]} : i \in DOMAIN ids} \subseteq Known
  <2>1. Known \subseteq Names
    BY WorkflowFacts
  <2> QED
    BY <2>1 DEF BuildEdges
<1>2. DependenciesKnown
  BY <1>1 DEF DependenciesKnown, DependsOnOf
<1>3. \A n : Unmet(n, {}) = Entries(n)
  BY DEF Unmet
<1>4. \A n \in Names : inDeg'[n] = Cardinality(Unmet(n, {})')
  BY <1>1, <1>3, WorkflowFixed
<1>5. visited' = Cardinality({})
  BY <1>1, FS_EmptySet
<1>6. queue' = {m \in Known' \ {} : inDeg'[m] = 0}
  BY <1>1, WorkflowFixed
<1> QED
  BY <1>2, <1>4, <1>5, <1>6 DEF Taken

\* A turn of the loop adds the step it takes to the taken ones.
LEMMA LoopTakes ==
    ASSUME TypeOK, DependenciesKnown, NEW V, Taken(V), NEW n \in Names, Visit(n)
    PROVE  /\ V \cup {n} \subseteq Known
           /\ inDeg' \in [Names -> Nat]
           /\ queue' \subseteq Names
           /\ Taken(V \cup {n})'
<1> DEFINE W == V \cup {n}
<1>1. /\ n \in Known /\ n \notin V /\ inDeg[n] = 0
      /\ UNCHANGED <<ids, deps>>
      /\ V \subseteq Known /\ visited = Cardinality(V)
      /\ visited' = visited + 1
  BY DEF Visit, Taken
<1>2. Known \subseteq Names /\ IsFiniteSet(Known)
  BY WorkflowFacts
<1>3. /\ inDeg \in [Names -> Nat]
      /\ inDeg' = [m \in Names |-> inDeg[m] - Edges(n, m)]
      /\ queue' = (queue \ {n}) \cup {m \in Names : inDeg[m] \in 1 .. Edges(n, m)}
      /\ queue = {m \in Known \ V : inDeg[m] = 0}
  BY DEF Visit, TypeOK, Taken
<1>4. \A m \in Names :
        /\ inDeg[m] = Cardinality(Unmet(m, V))
        /\ Edges(n, m) \in Nat
        /\ inDeg'[m] = Cardinality(Unmet(m, W))
        /\ inDeg'[m] \in Nat /\ inDeg'[m] = inDeg[m] - Edges(n, m)
  <2>1. SUFFICES ASSUME NEW m \in Names
                 PROVE  /\ inDeg[m] = Cardinality(Unmet(m, V))
                        /\ Edges(n, m) \in Nat
                        /\ inDeg'[m] = Cardinality(Unmet(m, W))
                        /\ inDeg'[m] \in Nat /\ inDeg'[m] = inDeg[m] - Edges(n, m)
    OBVIOUS
  <2>2. inDeg[m] = Cardinality(Unmet(m, V))
    BY DEF Taken
  <2>3. /\ Edges(n, m) \in Nat
        /\ Cardinality(Unmet(m, W)) = Cardinality(Unmet(m, V)) - Edges(n, m)
    BY <1>1, TakingSettles
  <2>4. Cardinality(Unmet(m, W)) \in Nat
    BY UnmetFacts
  <2> QED
    BY <1>3, <2>2, <2>3, <2>4
<1>5. DependsOnOf(n) \subseteq V
  BY <1>1, <1>4, UnmetFacts
<1>6. \A m \in W : DependsOnOf(m) \subseteq V
  BY <1>5 DEF Taken
<1>7. W \subseteq Known /\ visited' = Cardinality(W)
  <2>1. IsFiniteSet(V)
    BY <1>1, <1>2, FS_Subset
  <2> QED
    BY <2>1, <1>1, FS_AddElement
<1>8. \A m \in W : inDeg[m] = 0 /\ inDeg'[m] = 0
  <2>1. SUFFICES ASSUME NEW m \in W PROVE inDeg[m] = 0 /\ inDeg'[m] = 0
    OBVIOUS
  <2>2. inDeg[m] = 0
    BY <1>2, <1>4, <1>6, <1>7, UnmetFacts
  <2> QED
    BY <2>2, <1>2, <1>3, <1>4, <1>7
<1>9. queue' = {m \in Known \ W : inDeg'[m] = 0}
  <2>1. ASSUME NEW m \in Names, inDeg[m] \in 1 .. Edges(n, m)
        PROVE  m \in Known \ W /\ inDeg'[m] = 0
    <3>1. inDeg[m] # 0 /\ inDeg'[m] = 0
      BY <2>1, <1>3, <1>4
    <3>2. m \notin W
      BY <3>1, <1>8
    <3>3. Entries(m) # {}
      <4>1. Unmet(m, V) # {}
        BY <3>1, <1>4, FS_EmptySet
      <4> QED
        BY <4>1 DEF Unmet
    <3>4. m \in Known
      BY <3>3 DEF Entries, Known
    <3> QED
      BY <3>1, <3>2, <3>4
  <2>2. ASSUME NEW m \in queue \ {n}
        PROVE  m \in Known \ W /\ inDeg'[m] = 0
    BY <2>2, <1>2, <1>3, <1>4
  <2>3. ASSUME NEW m \in Known \ W, inDeg'[m] = 0
        PROVE  m \in queue'
    <3>1. m \in Names /\ inDeg[m] \in Nat /\ Edges(n, m) \in Nat /\ inDeg[m] = Edges(n, m)
      BY <2>3, <1>2, <1>3, <1>4
    <3>2. inDeg[m] = 0 \/ inDeg[m] \in 1 .. Edges(n, m)
      BY <3>1
    <3> QED
      BY <3>1, <3>2, <1>3
  <2> QED
    BY <2>1, <2>2, <2>3, <1>3
<1>10. ASSUME NEW C \in SUBSET W, C # {}
       PROVE  \E k \in C : DependsOnOf(k) \cap C = {}
  <2>1. CASE C \cap V = {}
    <3>1. C = {n}
      BY <2>1, <1>10
    <3> QED
      BY <3>1, <1>1, <1>5
  <2>2. CASE C \cap V # {}
    <3>1. PICK k \in C \cap V : DependsOnOf(k) \cap (C \cap V) = {}
      BY <2>2 DEF Taken
    <3>2. DependsOnOf(k) \subseteq V
      BY <1>6
    <3> QED
      BY <3>1, <3>2
  <2> QED
    BY <2>1, <2>2
<1>11. inDeg' \in [Names -> Nat] /\ queue' \subseteq Names
  BY <1>2, <1>3, <1>4, <1>9
<1>12. Taken(W)'
  <2> HIDE DEF W
  <2>1. /\ Known' = Known /\ \A m : DependsOnOf(m)' = DependsOnOf(m)
        /\ \A m, U : Unmet(m, U)' = Unmet(m, U)
    BY <1>1, WorkflowFixed
  <2>2. \A m \in W : DependsOnOf(m) \subseteq W
    BY <1>6 DEF W
  <2>3. W' = W
    BY DEF W
  <2> QED
    BY <2>1, <2>2, <2>3, <1>4, <1>7, <1>9, <1>10 DEF Taken
<1> QED
  BY <1>7, <1>11, <1>12

\* When the queue is empty, having counted every step decides acyclicity.
LEMMA CountDecides ==
    ASSUME TypeOK, DistinctIDs, DependenciesKnown, NEW V, Taken(V), queue = {}
    PROVE  visited = Len(ids) <=> IsDAG
<1>1. /\ IsFiniteSet(Known) /\ Cardinality(Known) = Len(ids)
      /\ V \in SUBSET Known /\ visited = Cardinality(V) /\ Known \subseteq Names
  BY WorkflowFacts DEF Taken
<1>2. ASSUME visited = Len(ids) PROVE IsDAG
  <2>1. V = Known
    BY <1>1, <1>2, FS_Subset
  <2> QED
    BY <2>1 DEF IsDAG, DistinctIDs, DependenciesKnown, Taken
<1>3. ASSUME visited # Len(ids) PROVE ~ IsDAG
  <2>1. Known \ V # {}
    <3>1. V # Known
      BY <1>1, <1>3
    <3> QED
      BY <3>1, <1>1
  <2>2. ASSUME NEW k \in Known \ V PROVE DependsOnOf(k) \cap (Known \ V) # {}
    <3>1. inDeg[k] # 0 /\ inDeg[k] = Cardinality(Unmet(k, V))
      BY <1>1 DEF Taken
    <3>2. ~ (DependsOnOf(k) \subseteq V)
      BY <3>1, UnmetFacts
    <3> QED
      BY <3>2 DEF DependenciesKnown
  <2> QED
    BY <2>1, <2>2 DEF IsDAG
<1> QED
  BY <1>2, <1>3

-----------------------------------------------------------------------------
LEMMA InitValidation == Init => ValidationInv
  BY BoundsAssumption DEF Init, ValidationInv, TypeOK, AcceptsExactlyDAGs

LEMMA NextValidation ==
    ASSUME ValidationInv, [Next]_vars
    PROVE  ValidationInv'
<1> USE DEF ValidationInv
<1>1. CASE IndexSteps
  <2>1. UNCHANGED <<ids, deps, inDeg, queue, visited>> /\ pc = "index"
    BY <1>1 DEF IndexSteps
  <2>2. pc' = IF DistinctIDs THEN "edges" ELSE "rejected"
    BY <1>1, WorkflowFacts DEF IndexSteps
  <2>3. TypeOK'
    BY <2>1, <2>2 DEF TypeOK
  <2>4. IsDAG => DistinctIDs
    BY DEF IsDAG, DistinctIDs
  <2> QED
    BY <2>1, <2>2, <2>3, <2>4, WorkflowFixed DEF AcceptsExactlyDAGs
<1>2. CASE BuildEdges
  <2>1. /\ UNCHANGED <<ids, deps, visited>> /\ pc = "edges"
        /\ pc' \in {"kahn", "rejected"} /\ visited = 0
    BY <1>2 DEF BuildEdges
  <2>2. TypeOK'
    <3>1. \A n : Cardinality(Entries(n)) \in Nat
      BY UnmetFacts, FS_CardinalityType
    <3>2. Known \subseteq Names
      BY WorkflowFacts
    <3>3. CASE pc' = "rejected"
      <4>1. UNCHANGED <<inDeg, queue>>
        BY <1>2, <3>3 DEF BuildEdges
      <4> QED
        BY <4>1, <3>3, <2>1 DEF TypeOK
    <3>4. CASE pc' = "kahn"
      <4>1. /\ inDeg' = [n \in Names |-> Cardinality(Entries(n))]
            /\ queue' \subseteq Known
        BY <1>2, <3>4 DEF BuildEdges
      <4>2. inDeg' \in [Names -> Nat] /\ queue' \in SUBSET Names
        BY <4>1, <3>1, <3>2
      <4> QED
        BY <4>2, <3>4, <2>1 DEF TypeOK
    <3> QED
      BY <3>3, <3>4, <2>1
  <2>3. pc' = "rejected" => ~ IsDAG
    <3>1. SUFFICES ASSUME pc' = "rejected", IsDAG PROVE FALSE
      OBVIOUS
    <3>2. PICK i \in DOMAIN ids : ~ ({deps[i][j] : j \in DOMAIN deps[i]} \subseteq Known)
      BY <1>2, <3>1 DEF BuildEdges
    <3>3. DependsOnOf(ids[i]) \subseteq Known
      BY <3>1 DEF IsDAG, Known
    <3>4. {deps[i][j] : j \in DOMAIN deps[i]} \subseteq DependsOnOf(ids[i])
      BY DEF DependsOnOf
    <3> QED
      BY <3>2, <3>3, <3>4
  <2>4. pc' = "kahn" => DependenciesKnown /\ Taken({})'
    BY <1>2, <2>1, <2>2, LoopStarts
  <2>5. pc' = "kahn" => DependenciesKnown' /\ (\E V \in SUBSET Known : Taken(V))'
    BY <2>1, <2>4, WorkflowFixed
  <2>6. AcceptsExactlyDAGs'
    BY <2>1, <2>3, WorkflowFixed DEF AcceptsExactlyDAGs
  <2>7. DistinctIDs'
    BY <2>1, WorkflowFixed
  <2> QED
    BY <2>1, <2>2, <2>5, <2>6, <2>7
<1>3. ASSUME NEW n \in Names, Visit(n) PROVE ValidationInv'
  <2>1. UNCHANGED <<ids, deps, pc>> /\ pc = "kahn" /\ visited' = visited + 1
    BY <1>3 DEF Visit
  <2>2. PICK V \in SUBSET Known : Taken(V)
    BY <2>1
  <2>3. /\ V \cup {n} \in SUBSET Known /\ inDeg' \in [Names -> Nat] /\ queue' \in SUBSET Names
        /\ Taken(V \cup {n})'
    BY <1>3, <2>1, <2>2, LoopTakes
  <2>4. visited' = Cardinality(V \cup {n})
    BY <2>3 DEF Taken
  <2>5. visited' \in 0 .. MaxSteps
    <3>1. /\ IsFiniteSet(Known) /\ Cardinality(Known) \in 0 .. Len(ids)
          /\ Len(ids) \in 0 .. MaxSteps
      BY WorkflowFacts
    <3>2. IsFiniteSet(V \cup {n}) /\ Cardinality(V \cup {n}) <= Cardinality(Known)
      BY <2>3, <3>1, FS_Subset
    <3>3. Cardinality(V \cup {n}) \in Nat
      BY <3>2, FS_CardinalityType
    <3> QED
      BY <2>4, <3>1, <3>2, <3>3, BoundsAssumption
  <2>6. TypeOK'
    BY <2>1, <2>3, <2>5 DEF TypeOK
  <2>7. DistinctIDs' /\ DependenciesKnown' /\ (\E U \in SUBSET Known : Taken(U))'
    BY <2>1, <2>3, WorkflowFixed
  <2> QED
    BY <2>1, <2>6, <2>7 DEF AcceptsExactlyDAGs
<1>4. CASE Verdict
  <2>1. /\ UNCHANGED <<ids, deps, inDeg, queue, visited>> /\ pc = "kahn" /\ queue = {}
        /\ pc' = IF visited = Len(ids) THEN "accepted" ELSE "rejected"
    BY <1>4 DEF Verdict
  <2>2. visited = Len(ids) <=> IsDAG
    BY <2>1, CountDecides
  <2>3. TypeOK'
    BY <2>1 DEF TypeOK
  <2> QED
    BY <2>1, <2>2, <2>3, WorkflowFixed DEF AcceptsExactlyDAGs
<1>5. CASE UNCHANGED vars
  <2>1. UNCHANGED <<ids, deps, pc, inDeg, queue, visited>>
    BY <1>5 DEF vars
  <2>2. TypeOK'
    BY <2>1 DEF TypeOK
  <2>3. \A V : Taken(V)' = Taken(V)
    BY <2>1, WorkflowFixed DEF Taken
  <2>4. (\E V \in SUBSET Known : Taken(V))' <=> \E V \in SUBSET Known : Taken(V)
    BY <2>1, <2>3, WorkflowFixed
  <2> QED
    BY <2>1, <2>2, <2>4, WorkflowFixed DEF AcceptsExactlyDAGs
<1> QED
  BY <1>1, <1>2, <1>3, <1>4, <1>5 DEF Next

\* NewGraph accepts a workflow if and only if its step IDs are distinct, its
\* dependencies known and its dependency relation free of cycles, for
\* workflows of any length and every order in which Go's map iteration may
\* fill Kahn's queue.
THEOREM ValidationCorrect == Spec => []AcceptsExactlyDAGs
<1>1. Init => ValidationInv
  BY InitValidation
<1>2. ValidationInv /\ [Next]_vars => ValidationInv'
  BY NextValidation
<1>3. ValidationInv => AcceptsExactlyDAGs
  BY DEF ValidationInv
<1> QED
  BY <1>1, <1>2, <1>3, PTL DEF Spec
=============================================================================
