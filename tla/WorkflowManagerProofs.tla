----------------------- MODULE WorkflowManagerProofs -----------------------
(***************************************************************************)
(* Theorems about module WorkflowManager, for any number of clients, of    *)
(* workflow IDs and of runs.                                               *)
(*                                                                         *)
(* A GET is fresh because its run only grows older and because it never    *)
(* falls back on the table's entry.  The latter needs that the tables      *)
(* agree: what runIndex names has a scheduler.                             *)
(***************************************************************************)
EXTENDS WorkflowManager, TLAPS

\* The tables agree: the runs that have a scheduler are those created so far,
\* and runIndex and the requests name no other.
TablesInv ==
    /\ schedulers = 1 .. created
    /\ \A w \in WorkflowIDs : runIndex[w] \in 0 .. created
    /\ \A c \in Clients : call[c].run \in 0 .. created
    /\ \A c \in Clients : call[c].at \in {"found", "snapped", "resuming"} => call[c].run # NoRun

\* A GET began at an age of its run that is past, and its snapshot is no older.
AgeInv ==
    \A c \in Clients : call[c].run # NoRun => call[c].since <= sched[call[c].run].age

ManagerInv == TypeOK /\ TablesInv /\ AgeInv /\ AnswersFresh

LEMMA InitManager == Init => ManagerInv
<1> SUFFICES ASSUME Init PROVE ManagerInv
  OBVIOUS
<1> USE MaxRunsType, ClientNames DEF Init, Idle, Fresh, NoRun, RunIDs, Statuses, Snapshots, Calls
<1>1. TypeOK
  BY DEF TypeOK
<1>2. TablesInv
  BY DEF TablesInv
<1>3. AgeInv /\ AnswersFresh
  BY DEF AgeInv, AnswersFresh
<1> QED
  BY <1>1, <1>2, <1>3 DEF ManagerInv

-----------------------------------------------------------------------------
(* Requests.                                                               *)

\* A step of a request that changes nothing but the request.
LEMMA CallMoves ==
    ASSUME ManagerInv, UNCHANGED <<tables, runVars>>,
           NEW c \in Clients, NEW n \in Calls, call' = [call EXCEPT ![c] = n],
           n.run \in 0 .. created,
           n.at \in {"found", "snapped", "resuming"} => n.run # NoRun,
           n.run # NoRun => n.since <= sched[n.run].age,
           n.run # NoRun /\ n.at \in {"snapped", "answered"} =>
               n.snap.age \in n.since .. sched[n.run].age
    PROVE  ManagerInv'
<1> USE DEF ManagerInv, tables, runVars
<1>1. \A d \in Clients : call'[d] = IF d = c THEN n ELSE call[d]
  BY DEF TypeOK
<1>2. TypeOK'
  BY DEF TypeOK
<1>3. TablesInv'
  BY <1>1 DEF TablesInv
<1>4. AgeInv'
  BY <1>1 DEF AgeInv
<1>5. AnswersFresh'
  BY <1>1 DEF AnswersFresh
<1> QED
  BY <1>2, <1>3, <1>4, <1>5

\* An answer or a refusal.
LEMMA AnswerMoves ==
    ASSUME ManagerInv, UNCHANGED <<tables, runVars>>,
           NEW c \in Clients, NEW kind \in {"idle", "answered", "refused"},
           call' = [call EXCEPT ![c] = [Idle EXCEPT !.at = kind]]
    PROVE  ManagerInv'
<1> DEFINE n == [Idle EXCEPT !.at = kind]
<1>1. n \in Calls /\ n.at = kind /\ n.run = NoRun
  BY DEF Idle, Calls, Fresh, Snapshots, Statuses
<1>2. NoRun \in 0 .. created
  BY DEF ManagerInv, TypeOK, NoRun
<1> HIDE DEF n
<1>3. call' = [call EXCEPT ![c] = n]
  BY DEF n
<1> QED
  BY <1>1, <1>2, <1>3, CallMoves

LEMMA FinishManager ==
    ASSUME ManagerInv, NEW c \in Clients, Finish(c)
    PROVE  ManagerInv'
<1>1. Idle = [Idle EXCEPT !.at = "idle"]
  BY DEF Idle
<1> QED
  BY <1>1, AnswerMoves DEF Finish

LEMMA FindsManager ==
    ASSUME ManagerInv, NEW c \in Clients, NEW w \in WorkflowIDs, GetRunFinds(c, w)
    PROVE  ManagerInv'
<1>1. CASE runIndex[w] = NoRun
  BY <1>1, AnswerMoves DEF GetRunFinds, Answer
<1>2. CASE runIndex[w] # NoRun
  <2> DEFINE r == runIndex[w]
             n == [Idle EXCEPT !.at = "found", !.run = r, !.entry = runs[r],
                               !.since = sched[r].age]
  <2>1. r \in RunIDs /\ r \in 0 .. created
    BY <1>2 DEF ManagerInv, TypeOK, TablesInv
  <2>2. runs[r] \in Snapshots /\ sched[r].age \in Nat
    BY <2>1 DEF ManagerInv, TypeOK, Snapshots
  <2>3. n \in Calls /\ n.at = "found" /\ n.run = r /\ n.since = sched[r].age
    BY <2>1, <2>2 DEF Idle, Calls, Fresh, Snapshots, Statuses
  <2>4. call' = [call EXCEPT ![c] = n] /\ UNCHANGED <<tables, runVars>> /\ call[c].at = "idle"
    BY <1>2 DEF GetRunFinds
  <2> HIDE DEF n
  <2>5. n.since <= sched[n.run].age /\ n.run \in 0 .. created /\ n.run # NoRun
    BY <1>2, <2>1, <2>2, <2>3
  <2> HIDE DEF r
  <2> QED
    BY <2>3, <2>4, <2>5, CallMoves
<1> QED
  BY <1>1, <1>2

LEMMA SnapshotsManager ==
    ASSUME ManagerInv, NEW c \in Clients, GetRunSnapshots(c)
    PROVE  ManagerInv'
<1> DEFINE r == call[c].run
           n == [call[c] EXCEPT !.at = "snapped", !.snap = sched[r], !.entry = Fresh]
<1>1. call[c] \in Calls /\ call[c].at = "found"
  BY DEF ManagerInv, TypeOK, GetRunSnapshots
<1>2. r # NoRun /\ r \in 1 .. created /\ r \in RunIDs
  BY <1>1, MaxRunsType DEF ManagerInv, TypeOK, TablesInv, NoRun, RunIDs
<1>3. sched[r] \in Snapshots /\ sched[r].age \in Nat
  BY <1>2 DEF ManagerInv, TypeOK, Snapshots
<1>4. r \in schedulers
  BY <1>2 DEF ManagerInv, TablesInv
<1>5. call' = [call EXCEPT ![c] = n] /\ UNCHANGED <<tables, runVars>>
  BY <1>4 DEF GetRunSnapshots
<1>6. Fresh \in Snapshots
  BY DEF Fresh, Snapshots, Statuses
<1>7. /\ n \in Calls /\ n.at = "snapped" /\ n.run = r /\ n.since = call[c].since
      /\ n.snap = sched[r]
  BY <1>1, <1>3, <1>6 DEF Calls
<1>8. call[c].since \in Nat /\ call[c].since <= sched[r].age
  BY <1>1, <1>2 DEF ManagerInv, AgeInv, Calls
<1> HIDE DEF n
<1>9. n.snap.age \in n.since .. sched[n.run].age
  BY <1>3, <1>7, <1>8
<1>10. n.since <= sched[n.run].age /\ n.run \in 0 .. created /\ n.run # NoRun
  BY <1>2, <1>7, <1>8
<1> HIDE DEF r
<1> QED
  BY <1>1, <1>5, <1>7, <1>9, <1>10, CallMoves

LEMMA StoresManager ==
    ASSUME ManagerInv, NEW c \in Clients, GetRunStores(c)
    PROVE  ManagerInv'
<1> DEFINE n == [call[c] EXCEPT !.at = "answered"]
<1>1. call[c] \in Calls /\ call[c].at = "snapped"
  BY DEF ManagerInv, TypeOK, GetRunStores
<1>2. call[c].run # NoRun /\ call[c].run \in 0 .. created /\ call[c].run \in RunIDs
  BY <1>1 DEF ManagerInv, TablesInv, Calls
<1>3. /\ n \in Calls /\ n.at = "answered" /\ n.run = call[c].run
      /\ n.since = call[c].since /\ n.snap = call[c].snap
  BY <1>1 DEF Calls
<1>4. \A d \in Clients : call'[d] = IF d = c THEN n ELSE call[d]
  BY DEF GetRunStores, ManagerInv, TypeOK
<1>5. call[c].snap \in Snapshots
  BY <1>1 DEF Calls
<1> HIDE DEF n
<1> USE DEF ManagerInv, GetRunStores, tables, runVars
<1>6. TypeOK'
  <2>1. call' \in [Clients -> Calls]
    BY <1>3 DEF TypeOK, n
  <2>2. runs' \in [RunIDs -> Snapshots]
    BY <1>2, <1>5 DEF TypeOK
  <2> QED
    BY <2>1, <2>2 DEF TypeOK
<1>7. TablesInv'
  BY <1>2, <1>3, <1>4 DEF TablesInv
<1>8. AgeInv' /\ AnswersFresh'
  BY <1>1, <1>2, <1>3, <1>4 DEF AgeInv, AnswersFresh
<1> QED
  BY <1>6, <1>7, <1>8

LEMMA CreateManager ==
    ASSUME ManagerInv, NEW c \in Clients, NEW w \in WorkflowIDs, NEW wf,
           CreateAndRun(c, w, wf)
    PROVE  ManagerInv'
<1>1. CASE ~ValidateWorkflow(wf)
  BY <1>1, AnswerMoves DEF CreateAndRun, Answer
<1>2. CASE ValidateWorkflow(wf)
  <2> DEFINE n == [Idle EXCEPT !.at = "answered"]
             r == created + 1
  <2>1. n \in Calls /\ n.at = "answered" /\ n.run = NoRun
    BY DEF Idle, Calls, Fresh, Snapshots, Statuses
  <2>2. r \in RunIDs /\ created \in Nat /\ created < MaxRuns
    BY MaxRunsType DEF CreateAndRun, ManagerInv, TypeOK, RunIDs
  <2>3. /\ call' = [call EXCEPT ![c] = n] /\ call[c].at = "idle"
        /\ workflows' = workflows \cup {w} /\ schedulers' = schedulers \cup {r}
        /\ runs' = [runs EXCEPT ![r] = Fresh] /\ runIndex' = [runIndex EXCEPT ![w] = r]
        /\ created' = r /\ background' = [background EXCEPT ![r] = "started"]
        /\ UNCHANGED <<sched, driver, result>>
    BY <1>2 DEF CreateAndRun, Register, Answer
  <2>4. \A d \in Clients : call'[d] = IF d = c THEN n ELSE call[d]
    BY <2>3 DEF ManagerInv, TypeOK
  <2>5. Fresh \in Snapshots
    BY DEF Fresh, Snapshots, Statuses
  <2>6. created' = created + 1
    BY <2>3
  <2> HIDE DEF n
  <2> USE DEF ManagerInv
  <2>7. TypeOK'
    <3>1. created' \in 0 .. MaxRuns
      BY <2>2, <2>6, MaxRunsType
    <3>2. call' \in [Clients -> Calls]
      BY <2>1, <2>3 DEF TypeOK
    <3> HIDE DEF r
    <3> QED
      BY <2>2, <2>3, <2>5, <3>1, <3>2 DEF TypeOK
  <2>8. TablesInv'
    <3>1. schedulers' = 1 .. created'
      BY <2>2, <2>3 DEF TablesInv
    <3>2. \A v \in WorkflowIDs : runIndex'[v] \in 0 .. created'
      BY <2>2, <2>3 DEF TablesInv, TypeOK
    <3>3. \A d \in Clients : call'[d].run \in 0 .. created'
      BY <2>1, <2>2, <2>4, <2>6 DEF TablesInv, NoRun
    <3>4. \A d \in Clients :
            call'[d].at \in {"found", "snapped", "resuming"} => call'[d].run # NoRun
      BY <2>1, <2>4 DEF TablesInv
    <3> QED
      BY <3>1, <3>2, <3>3, <3>4 DEF TablesInv
  <2>9. AgeInv' /\ AnswersFresh'
    BY <2>1, <2>3, <2>4 DEF AgeInv, AnswersFresh
  <2> QED
    BY <2>7, <2>8, <2>9
<1> QED
  BY <1>1, <1>2

\* A run that changes only grows older, which suits the requests that read it.
LEMMA AgesGrow ==
    ASSUME ManagerInv, TypeOK',
           \A q \in RunIDs : sched[q].age <= sched'[q].age,
           \A d \in Clients :
               \/ call'[d] = call[d] \/ call'[d].run = NoRun
               \/ call'[d].at \notin {"snapped", "answered"} /\ call'[d].since = 0
    PROVE  AgeInv' /\ AnswersFresh'
<1> SUFFICES ASSUME NEW d \in Clients, call'[d].run # NoRun
             PROVE  /\ call'[d].since <= sched'[call'[d].run].age
                    /\ call'[d].at \in {"snapped", "answered"} =>
                         call'[d].snap.age \in call'[d].since .. sched'[call'[d].run].age
  BY DEF AgeInv, AnswersFresh
<1>1. call[d] \in Calls /\ call'[d] \in Calls
  BY DEF ManagerInv, TypeOK
<1>2. /\ call[d].since \in Nat /\ call[d].run \in RunIDs \cup {NoRun}
      /\ call'[d].run \in RunIDs /\ call[d].snap.age \in Nat
  BY <1>1 DEF Calls, Snapshots
<1>3. /\ sched'[call'[d].run].age \in Nat
      /\ call[d].run \in RunIDs => sched[call[d].run].age \in Nat
  BY <1>2 DEF ManagerInv, TypeOK, Snapshots
<1>4. CASE call'[d] = call[d]
  <2>1. call[d].since <= sched[call[d].run].age
    BY <1>4 DEF ManagerInv, AgeInv
  <2>2. call[d].at \in {"snapped", "answered"} =>
           call[d].snap.age \in call[d].since .. sched[call[d].run].age
    BY <1>4 DEF ManagerInv, AnswersFresh
  <2> QED
    BY <1>2, <1>3, <1>4, <2>1, <2>2
<1>5. CASE call'[d].at \notin {"snapped", "answered"} /\ call'[d].since = 0
  BY <1>3, <1>5
<1> QED
  BY <1>4, <1>5

LEMMA ResumeManager ==
    ASSUME ManagerInv, NEW c \in Clients, NEW w \in WorkflowIDs, ResumeAccepted(c, w)
    PROVE  ManagerInv'
<1> DEFINE r == runIndex[w]
           n == [Idle EXCEPT !.at = "resuming", !.run = r]
<1>1. r # NoRun /\ r \in RunIDs /\ r \in 0 .. created
  BY DEF ResumeAccepted, ManagerInv, TypeOK, TablesInv
<1>2. /\ call' = [call EXCEPT ![c] = n] /\ driver' = [driver EXCEPT ![r] = c]
      /\ UNCHANGED <<tables, sched, background, result>>
  BY DEF ResumeAccepted
<1>3. n \in Calls /\ n.at = "resuming" /\ n.run = r /\ n.since = 0
  BY <1>1 DEF Idle, Calls, Fresh, Snapshots, Statuses
<1>4. \A d \in Clients : call'[d] = IF d = c THEN n ELSE call[d]
  BY <1>2 DEF ManagerInv, TypeOK
<1> HIDE DEF n, r
<1> USE DEF ManagerInv
<1>5. TypeOK'
  BY <1>1, <1>2, <1>3 DEF TypeOK, tables
<1>6. TablesInv'
  BY <1>1, <1>2, <1>3, <1>4 DEF TablesInv, tables
<1>7. AgeInv' /\ AnswersFresh'
  <2>1. \A q \in RunIDs : sched[q].age <= sched'[q].age
    BY <1>2 DEF TypeOK, Snapshots
  <2> QED
    BY <1>3, <1>4, <1>5, <2>1, AgesGrow
<1> QED
  BY <1>5, <1>6, <1>7

LEMMA EntersManager ==
    ASSUME ManagerInv, NEW c \in Clients, ResumeEnters(c)
    PROVE  ManagerInv'
<1> DEFINE r == call[c].run
           n == [call[c] EXCEPT !.at = "driving"]
           s == [status |-> "running", age |-> sched[r].age + 1]
<1>1. call[c] \in Calls /\ call[c].at = "resuming" /\ call[c].since \in Nat
  BY DEF ManagerInv, TypeOK, ResumeEnters, Calls
<1>2. r # NoRun /\ r \in RunIDs /\ r \in 0 .. created
  BY <1>1 DEF ManagerInv, TablesInv, Calls
<1>3. sched[r].age \in Nat
  BY <1>2 DEF ManagerInv, TypeOK, Snapshots
<1>4. s \in Snapshots /\ s.age = sched[r].age + 1
  BY <1>3 DEF Snapshots, Statuses
<1>5. /\ call' = [call EXCEPT ![c] = n] /\ sched' = [sched EXCEPT ![r] = s]
      /\ UNCHANGED <<tables, driver, background, result>>
  BY DEF ResumeEnters
<1>6. n \in Calls /\ n.at = "driving" /\ n.run = r /\ n.since = call[c].since
  BY <1>1 DEF Calls
<1>7. /\ \A d \in Clients : call'[d] = IF d = c THEN n ELSE call[d]
      /\ \A q \in RunIDs : sched'[q] = IF q = r THEN s ELSE sched[q]
  BY <1>5 DEF ManagerInv, TypeOK
<1> HIDE DEF n, s, r
<1> USE DEF ManagerInv
<1>8. TypeOK'
  BY <1>2, <1>4, <1>5, <1>6 DEF TypeOK, tables
<1>9. TablesInv'
  BY <1>2, <1>5, <1>6, <1>7 DEF TablesInv, tables
<1>10. AgeInv' /\ AnswersFresh'
  <2>1. call[c].since <= sched[r].age
    BY <1>2 DEF AgeInv, r
  <2>2. \A q \in RunIDs : sched[q].age \in Nat /\ sched[q].age <= sched'[q].age
    BY <1>3, <1>4, <1>7 DEF TypeOK, Snapshots
  <2>3. \A d \in Clients : call[d].run \in RunIDs \cup {NoRun}
    BY DEF TypeOK, Calls
  <2>4. \A d \in Clients : call[d].since \in Nat /\ call[d].snap.age \in Nat
    BY DEF TypeOK, Calls, Snapshots
  <2>5. ASSUME NEW d \in Clients, d # c, call[d].run # NoRun
        PROVE  /\ call[d].since <= sched'[call[d].run].age
               /\ call[d].at \in {"snapped", "answered"} =>
                    call[d].snap.age \in call[d].since .. sched'[call[d].run].age
    <3> DEFINE q == call[d].run
    <3>1. q \in RunIDs /\ sched'[q].age \in Nat
      BY <1>8, <2>3, <2>5 DEF TypeOK, Snapshots
    <3>2. /\ call[d].since <= sched[q].age
          /\ call[d].at \in {"snapped", "answered"} =>
                    call[d].snap.age \in call[d].since .. sched[q].age
      BY <2>5 DEF AgeInv, AnswersFresh
    <3> HIDE DEF q
    <3>3. sched[q].age \in Nat /\ sched[q].age <= sched'[q].age
      BY <2>2, <3>1
    <3>4. /\ call[d].since <= sched'[q].age
          /\ call[d].at \in {"snapped", "answered"} =>
                    call[d].snap.age \in call[d].since .. sched'[q].age
      BY <2>4, <3>1, <3>2, <3>3
    <3> QED
      BY <3>4 DEF q
  <2>6. n.since <= sched'[n.run].age
    BY <1>1, <1>2, <1>3, <1>4, <1>6, <1>7, <2>1
  <2> QED
    BY <1>6, <1>7, <2>5, <2>6 DEF AgeInv, AnswersFresh
<1> QED
  BY <1>8, <1>9, <1>10

-----------------------------------------------------------------------------
(* Runs.                                                                   *)

LEMMA StartsManager ==
    ASSUME ManagerInv, NEW r \in RunIDs, RunStarts(r)
    PROVE  ManagerInv'
<1> DEFINE s == [status |-> "running", age |-> sched[r].age + 1]
<1>1. sched[r].age \in Nat
  BY DEF ManagerInv, TypeOK, Snapshots
<1>2. s \in Snapshots /\ s.status = "running" /\ s.age = sched[r].age + 1
  BY <1>1 DEF Snapshots, Statuses
<1>3. /\ background' = [background EXCEPT ![r] = "driving"]
      /\ sched' = [sched EXCEPT ![r] = s] /\ driver' = [driver EXCEPT ![r] = "run"]
      /\ UNCHANGED <<tables, result, call>>
  BY DEF RunStarts
<1>4. \A q \in RunIDs : sched'[q] = IF q = r THEN s ELSE sched[q]
  BY <1>3 DEF ManagerInv, TypeOK
<1> HIDE DEF s
<1> USE DEF ManagerInv
<1>5. TypeOK'
  BY <1>2, <1>3 DEF TypeOK, tables
<1>6. TablesInv'
  BY <1>3 DEF TablesInv, tables
<1>7. AgeInv' /\ AnswersFresh'
  <2>1. \A q \in RunIDs : sched[q].age <= sched'[q].age
    BY <1>1, <1>2, <1>4 DEF TypeOK, Snapshots
  <2> QED
    BY <1>3, <1>5, <2>1, AgesGrow
<1> QED
  BY <1>5, <1>6, <1>7

LEMMA RestsManager ==
    ASSUME ManagerInv, NEW r \in RunIDs, NEW to \in {"paused", "completed", "failed"},
           RunRests(r, to)
    PROVE  ManagerInv'
<1> DEFINE s == [status |-> to, age |-> sched[r].age + 1]
<1>1. sched[r].age \in Nat
  BY DEF ManagerInv, TypeOK, Snapshots
<1>2. s \in Snapshots /\ s.status = to /\ s.age = sched[r].age + 1
  BY <1>1 DEF Snapshots, Statuses
<1>3. /\ driver[r] # "none"
      /\ sched' = [sched EXCEPT ![r] = s] /\ driver' = [driver EXCEPT ![r] = "none"]
      /\ UNCHANGED <<tables, result>>
  BY DEF RunRests
<1>4. \A q \in RunIDs : sched'[q] = IF q = r THEN s ELSE sched[q]
  BY <1>3 DEF ManagerInv, TypeOK
<1> HIDE DEF s
<1> USE DEF ManagerInv
<1>5. \A q \in RunIDs : sched[q].age <= sched'[q].age
  BY <1>1, <1>2, <1>4 DEF TypeOK, Snapshots
<1>6. CASE driver[r] = "run"
  <2>1. background' = [background EXCEPT ![r] = "ended"] /\ call' = call
    BY <1>6 DEF RunRests
  <2>2. TypeOK'
    BY <1>2, <1>3, <2>1 DEF TypeOK, tables
  <2>3. TablesInv'
    BY <1>3, <2>1 DEF TablesInv, tables
  <2>4. AgeInv' /\ AnswersFresh'
    BY <1>5, <2>1, <2>2, AgesGrow
  <2> QED
    BY <2>2, <2>3, <2>4
<1>7. CASE driver[r] # "run"
  <2> DEFINE c == driver[r]
             n == [Idle EXCEPT !.at = IF to = "failed" THEN "failing" ELSE "leaving"]
  <2>1. c \in Clients
    BY <1>3, <1>7 DEF TypeOK
  <2>2. call' = [call EXCEPT ![c] = n] /\ background' = background
    BY <1>7 DEF RunRests, Answer
  <2>3. n \in Calls /\ n.at \in {"failing", "leaving"} /\ n.run = NoRun
    BY DEF Idle, Calls, Fresh, Snapshots, Statuses
  <2> HIDE DEF n
  <2>4. \A d \in Clients : call'[d] = IF d = c THEN n ELSE call[d]
    BY <2>1, <2>2 DEF TypeOK
  <2> HIDE DEF c
  <2>5. TypeOK'
    BY <1>2, <1>3, <2>2, <2>3 DEF TypeOK, tables
  <2>6. TablesInv'
    BY <1>3, <2>3, <2>4 DEF TablesInv, TypeOK, NoRun, tables
  <2>7. AgeInv' /\ AnswersFresh'
    BY <1>5, <2>3, <2>4, <2>5, AgesGrow
  <2> QED
    BY <2>5, <2>6, <2>7
<1> QED
  BY <1>6, <1>7

LEMMA ReturnsManager ==
    ASSUME ManagerInv, NEW r \in RunIDs, RunReturns(r) \/ RunStored(r)
    PROVE  ManagerInv'
<1> USE DEF ManagerInv, RunReturns, RunStored, tables
<1>1. PICK to \in {"store", "done"} : background' = [background EXCEPT ![r] = to]
  OBVIOUS
<1>2. UNCHANGED <<workflows, schedulers, runIndex, created, sched, driver, call>>
  OBVIOUS
<1>3. TypeOK'
  <2>1. Fresh \in Snapshots
    BY DEF Fresh, Snapshots, Statuses
  <2>2. result' \in [RunIDs -> Snapshots] /\ runs' \in [RunIDs -> Snapshots]
    BY <2>1 DEF TypeOK
  <2> QED
    BY <1>1, <1>2, <2>2 DEF TypeOK
<1>4. TablesInv' /\ AgeInv' /\ AnswersFresh'
  BY <1>2 DEF TablesInv, AgeInv, AnswersFresh
<1> QED
  BY <1>3, <1>4

-----------------------------------------------------------------------------
LEMMA NextManager == ManagerInv /\ [Next]_vars => ManagerInv'
<1> SUFFICES ASSUME ManagerInv, [Next]_vars PROVE ManagerInv'
  OBVIOUS
<1>1. ASSUME NEW c \in Clients, Request(c) PROVE ManagerInv'
  <2> PICK w \in WorkflowIDs :
        \/ \E wf \in Definitions : CreateAndRun(c, w, wf)
        \/ GetRunFinds(c, w) \/ ResumeRefused(c, w) \/ ResumeAccepted(c, w)
        \/ CancelWorkflow(c, w)
    BY <1>1 DEF Request
  <2>1. ASSUME NEW wf \in Definitions, CreateAndRun(c, w, wf) PROVE ManagerInv'
    BY <2>1, CreateManager
  <2>2. CASE GetRunFinds(c, w)
    BY <2>2, FindsManager
  <2>3. CASE ResumeRefused(c, w)
    BY <2>3, AnswerMoves DEF ResumeRefused, Answer
  <2>4. CASE ResumeAccepted(c, w)
    BY <2>4, ResumeManager
  <2>5. CASE CancelWorkflow(c, w)
    BY <2>5, AnswerMoves DEF CancelWorkflow, Answer
  <2> QED
    BY <2>1, <2>2, <2>3, <2>4, <2>5
<1>2. ASSUME NEW c \in Clients, Serve(c) \/ Finish(c)
      PROVE  ManagerInv'
  <2>1. CASE ResumeReturns(c)
    <3>1. PICK kind \in {"answered", "refused"} :
             call' = [call EXCEPT ![c] = [Idle EXCEPT !.at = kind]]
      BY <2>1 DEF ResumeReturns, Answer
    <3> QED
      BY <2>1, <3>1, AnswerMoves DEF ResumeReturns
  <2> QED
    BY <1>2, <2>1, SnapshotsManager, StoresManager, FinishManager, EntersManager DEF Serve
<1>3. ASSUME NEW r \in RunIDs, RunStep(r) PROVE ManagerInv'
  BY <1>3, StartsManager, RestsManager, ReturnsManager DEF RunStep
<1>4. CASE UNCHANGED vars
  BY <1>4 DEF vars, tables, runVars, ManagerInv, TypeOK, TablesInv, AgeInv, AnswersFresh
<1> QED
  BY <1>1, <1>2, <1>3, <1>4 DEF Next

LEMMA ManagerInvariant == Spec => []ManagerInv
  BY InitManager, NextManager, PTL DEF Spec

\* The state a GET answers with is one its run had after the request came in,
\* whatever stale snapshots other requests write back to the table meanwhile.
THEOREM ReadsAreFresh == Spec => []AnswersFresh
<1>1. ManagerInv => AnswersFresh
  BY DEF ManagerInv
<1> QED
  BY <1>1, ManagerInvariant, PTL
=============================================================================
