--------------------------- MODULE SandboxProofs ---------------------------
(***************************************************************************)
(* Theorems about module Sandbox, for any number of executions, any pool   *)
(* size and any number of failing daemon calls.                            *)
(*                                                                         *)
(* SlotsExact holds together with the type of sem: that the deferred       *)
(* receive finds something to take is what the count says.  The other      *)
(* three speak of a call that has returned; the invariant behind them      *)
(* (CustodyInv) follows the container through Execute: there is none       *)
(* before "create", one that is left after "remove" has cost the caller an *)
(* error, and nothing gives a returned call a container again.             *)
(***************************************************************************)
EXTENDS Sandbox, FiniteSetTheorems, TLAPS

Holders == {x \in Executions : pc[x] \in Holding}

\* Before the container is created there is none; afterwards, one that
\* outlives its execution has been reported.
CustodyInv ==
    \A x \in Executions :
        /\ pc[x] \in {"idle", "acquire", "create"} => container[x] = "none"
        /\ pc[x] \in {"release", "done"} /\ container[x] # "none" => failed[x]
        /\ pc[x] \in {"logs", "inspect", "files"} => container[x] # "running"
        /\ answer[x] = "ok" => pc[x] = "done" /\ exit[x] = "zero" /\ container[x] = "none"

SandboxInv == TypeOK /\ SlotsExact /\ CustodyInv

-----------------------------------------------------------------------------
(* The semaphore.                                                          *)

LEMMA HoldersFinite == IsFiniteSet(Holders) /\ Cardinality(Holders) \in Nat
<1>1. IsFiniteSet(Holders)
  BY ExecutionsFinite, FS_Subset DEF Holders
<1> QED
  BY <1>1, FS_CardinalityType

\* What the steps of Execute do to the semaphore: one execution moves, and it
\* takes or gives back a slot as it enters or leaves the stages between.
LEMMA SlotMoves ==
    ASSUME TypeOK, SlotsExact, NEW x \in Executions, NEW to \in Stages,
           pc' = [pc EXCEPT ![x] = to],
           \/ sem' = sem /\ (pc[x] \in Holding <=> to \in Holding)
           \/ sem' = sem + 1 /\ sem < PoolSize /\ pc[x] \notin Holding /\ to \in Holding
           \/ sem' = sem - 1 /\ pc[x] \in Holding /\ to \notin Holding
    PROVE  SlotsExact' /\ sem' \in 0 .. PoolSize
<1>1. \A y \in Executions : pc'[y] = IF y = x THEN to ELSE pc[y]
  BY DEF TypeOK
<1>2. sem = Cardinality(Holders) /\ sem \in 0 .. PoolSize
  BY DEF SlotsExact, Holders, TypeOK
<1>3. SUFFICES sem' = Cardinality(Holders') /\ sem' \in 0 .. PoolSize
  BY DEF SlotsExact, Holders
<1>4. CASE sem' = sem /\ (pc[x] \in Holding <=> to \in Holding)
  <2>1. Holders' = Holders
    BY <1>1, <1>4 DEF Holders
  <2> QED
    BY <1>2, <1>4, <2>1
<1>5. CASE sem' = sem + 1 /\ sem < PoolSize /\ pc[x] \notin Holding /\ to \in Holding
  <2>1. Holders' = Holders \cup {x} /\ x \notin Holders
    BY <1>1, <1>5 DEF Holders
  <2>2. Cardinality(Holders') = Cardinality(Holders) + 1
    BY <2>1, HoldersFinite, FS_AddElement
  <2> QED
    BY <1>2, <1>5, <2>2, PoolSizeType
<1>6. CASE sem' = sem - 1 /\ pc[x] \in Holding /\ to \notin Holding
  <2>1. Holders' = Holders \ {x} /\ x \in Holders
    BY <1>1, <1>6 DEF Holders
  <2>2. Cardinality(Holders') = Cardinality(Holders) - 1 /\ Cardinality(Holders') \in Nat
    BY <2>1, HoldersFinite, FS_RemoveElement, FS_CardinalityType
  <2> QED
    BY <1>2, <1>6, <2>2, PoolSizeType
<1> QED
  BY <1>4, <1>5, <1>6

-----------------------------------------------------------------------------
(* One step per action.                                                    *)

LEMMA InitSandbox == Init => SandboxInv
<1> SUFFICES ASSUME Init PROVE SandboxInv
  OBVIOUS
<1>1. TypeOK
  BY PoolSizeType, MaxFaultsType DEF Init, TypeOK, Stages
<1>2. Holders = {}
  BY DEF Init, Holders, Holding
<1>3. SlotsExact
  BY <1>2, FS_EmptySet DEF Init, SlotsExact, Holders
<1> QED
  BY <1>1, <1>3 DEF Init, SandboxInv, CustodyInv

\* The steps of one call of the tool.
LEMMA ExecutionStep ==
    ASSUME SandboxInv, NEW x \in Executions,
           \/ \E language \in {"python", "ruby"} : Handle(x, language)
           \/ Acquire(x) \/ GiveUp(x) \/ ExecuteStep(x)
    PROVE  SandboxInv'
<1> USE DEF SandboxInv, execVars, dockerVars, cleanupVars, Goes, Fails
<1>1. PICK after \in Stages : pc' = [pc EXCEPT ![x] = after]
  BY DEF Handle, Acquire, GiveUp, ExecuteStep, Stages, Create, CreateFails, Call, CallErrs, Start,
     StartFails, WaitReturns, WaitTimesOut, WaitFails, Stop, StopFails, Files, Remove, RemoveFails,
     Release
<1>2. SlotsExact' /\ sem' \in 0 .. PoolSize
  BY <1>1, SlotMoves
  DEF Handle, Acquire, GiveUp, ExecuteStep, Stages, Create, CreateFails, Call, CallErrs, Start,
     StartFails, WaitReturns, WaitTimesOut, WaitFails, Stop, StopFails, Files, Remove, RemoveFails,
     Release, Holding
<1> DEFINE Goal == TypeOK' /\ CustodyInv'
<1>3. ASSUME NEW language \in {"python", "ruby"}, Handle(x, language)
      PROVE  Goal
  BY <1>2, <1>3 DEF TypeOK, CustodyInv, Stages, Handle
<1>4. ASSUME Acquire(x) PROVE Goal
  BY <1>2, <1>4 DEF TypeOK, CustodyInv, Stages, Acquire
<1>5. ASSUME GiveUp(x) PROVE Goal
  BY <1>2, <1>5 DEF TypeOK, CustodyInv, Stages, GiveUp
<1>6. ASSUME Create(x) PROVE Goal
  BY <1>2, <1>6 DEF TypeOK, CustodyInv, Stages, Create
<1>7. ASSUME CreateFails(x) PROVE Goal
  BY <1>2, <1>7, MaxFaultsType DEF TypeOK, CustodyInv, Stages, CreateFails, CallFails, Effect
<1>8. ASSUME NEW from \in Stages, NEW to \in Stages, Call(x, from, to),
             <<from, to>> \in {<<"copy", "start">>, <<"logs", "inspect">>, <<"inspect", "files">>}
      PROVE  Goal
  BY <1>2, <1>8 DEF TypeOK, CustodyInv, Stages, Call
<1>9. ASSUME NEW stage \in {"copy", "logs", "inspect", "files"}, CallErrs(x, stage)
      PROVE  Goal
  BY <1>2, <1>9, MaxFaultsType DEF TypeOK, CustodyInv, Stages, CallErrs, CallFails, OwnCallFails
<1>10. ASSUME Start(x) PROVE Goal
  BY <1>2, <1>10 DEF TypeOK, CustodyInv, Stages, Start
<1>11. ASSUME StartFails(x) PROVE Goal
  BY <1>2, <1>11, MaxFaultsType DEF TypeOK, CustodyInv, Stages, StartFails, CallFails, Effect
<1>12. ASSUME WaitReturns(x) \/ WaitTimesOut(x) PROVE Goal
  BY <1>2, <1>12 DEF TypeOK, CustodyInv, Stages, WaitReturns, WaitTimesOut
<1>13. ASSUME WaitFails(x) PROVE Goal
  BY <1>2, <1>13, MaxFaultsType DEF TypeOK, CustodyInv, Stages, WaitFails, OwnCallFails
<1>14. ASSUME Stop(x) PROVE Goal
  BY <1>2, <1>14 DEF TypeOK, CustodyInv, Stages, Stop, Killed
<1>15. ASSUME StopFails(x) PROVE Goal
  BY <1>2, <1>15, MaxFaultsType DEF TypeOK, CustodyInv, Stages, StopFails, OwnCallFails
<1>16. ASSUME Files(x) PROVE Goal
  BY <1>2, <1>16 DEF TypeOK, CustodyInv, Stages, Files
<1>17. ASSUME Remove(x) PROVE Goal
  BY <1>2, <1>17 DEF TypeOK, CustodyInv, Stages, Remove, Killed
<1>18. ASSUME RemoveFails(x) PROVE Goal
  BY <1>2, <1>18, MaxFaultsType DEF TypeOK, CustodyInv, Stages, RemoveFails, OwnCallFails, Effect
<1>19. ASSUME Release(x) PROVE Goal
  BY <1>2, <1>19 DEF TypeOK, CustodyInv, Stages, Release, Answer
<1> QED
  BY <1>2, <1>3, <1>4, <1>5, <1>6, <1>7, <1>8, <1>9, <1>10, <1>11,
     <1>12, <1>13, <1>14, <1>15, <1>16, <1>17, <1>18, <1>19
     DEF ExecuteStep, Stages

\* The process, the caller's context and Cleanup, which act on a container or
\* a context whatever stage its execution is in.
LEMMA OutsideStep ==
    ASSUME SandboxInv, NEW x \in Executions,
           \/ \E how \in {"zero", "nonzero", "oom"} : ProcessExits(x, how)
           \/ \E how \in {"canceled", "deadline"} : ContextEnds(x, how)
           \/ CleanupRemoves(x)
    PROVE  SandboxInv'
<1> USE DEF SandboxInv, execVars, dockerVars, cleanupVars
<1>1. pc' = pc /\ sem' = sem
  BY DEF ProcessExits, ContextEnds, CleanupRemoves
<1>2. SlotsExact'
  BY <1>1 DEF SlotsExact
<1>3. ASSUME NEW how \in {"zero", "nonzero", "oom"}, ProcessExits(x, how)
      PROVE  TypeOK' /\ CustodyInv'
  BY <1>3 DEF TypeOK, CustodyInv, ProcessExits
<1>4. ASSUME NEW how \in {"canceled", "deadline"}, ContextEnds(x, how)
      PROVE  TypeOK' /\ CustodyInv'
  BY <1>4 DEF TypeOK, CustodyInv, ContextEnds
<1>5. ASSUME CleanupRemoves(x) PROVE TypeOK' /\ CustodyInv'
  BY <1>5, MaxFaultsType DEF TypeOK, CustodyInv, CleanupRemoves, Killed, OwnCallFails
<1> QED
  BY <1>2, <1>3, <1>4, <1>5

LEMMA NextSandbox == SandboxInv /\ [Next]_vars => SandboxInv'
<1> SUFFICES ASSUME SandboxInv, [Next]_vars PROVE SandboxInv'
  OBVIOUS
<1>1. ASSUME NEW x \in Executions,
             \/ \E language \in {"python", "ruby"} : Handle(x, language)
             \/ Acquire(x) \/ GiveUp(x) \/ ExecuteStep(x)
      PROVE  SandboxInv'
  BY <1>1, ExecutionStep
<1>2. ASSUME NEW x \in Executions,
             \/ \E how \in {"zero", "nonzero", "oom"} : ProcessExits(x, how)
             \/ \E how \in {"canceled", "deadline"} : ContextEnds(x, how)
             \/ CleanupRemoves(x)
      PROVE  SandboxInv'
  BY <1>2, OutsideStep
<1>3. CASE CleanupLists \/ CleanupListFails \/ CleanupReturns \/ UNCHANGED vars
  <2>1. /\ pc' = pc /\ sem' = sem /\ ctx' = ctx /\ failed' = failed
        /\ timedOut' = timedOut /\ answer' = answer /\ container' = container /\ exit' = exit
    BY <1>3 DEF CleanupLists, CleanupListFails, CleanupReturns, vars, execVars, dockerVars
  <2>2. /\ doomed' \in SUBSET Executions
        /\ cleanup' \in {"idle", "removing", "done"}
        /\ faults' \in 0 .. MaxFaults
    BY <1>3, MaxFaultsType
       DEF CleanupLists, CleanupListFails, CleanupReturns, OwnCallFails, vars, execVars,
           dockerVars, cleanupVars, SandboxInv, TypeOK
  <2> QED
    BY <2>1, <2>2 DEF SandboxInv, TypeOK, SlotsExact, CustodyInv
<1> QED
  BY <1>1, <1>2, <1>3 DEF Next

LEMMA SandboxInvariant == Spec => []SandboxInv
  BY InitSandbox, NextSandbox, PTL DEF Spec

-----------------------------------------------------------------------------
\* The pool never loses a slot and never admits more than maxConcurrent:
\* whatever path Execute takes, and however contexts end, the semaphore counts
\* the executions in progress.
THEOREM PoolExact == Spec => []SlotsExact
<1>1. SandboxInv => SlotsExact
  BY DEF SandboxInv
<1> QED
  BY <1>1, SandboxInvariant, PTL

\* No path of Execute leaves a container behind without an error.
THEOREM LeaksReported == Spec => []NoSilentLeak
<1>1. SandboxInv => NoSilentLeak
  BY DEF SandboxInv, CustodyInv, NoSilentLeak
<1> QED
  BY <1>1, SandboxInvariant, PTL

\* code_exec answers with success only when the process ended by itself with
\* exit code 0 and its container is gone.
THEOREM SuccessHonest == Spec => []HonestSuccess
<1>1. SandboxInv => HonestSuccess
  BY DEF SandboxInv, CustodyInv, HonestSuccess
<1> QED
  BY <1>1, SandboxInvariant, PTL

\* Logs, exit code and files are collected from a process that has ended.
THEOREM CollectionAfterEnd == Spec => []CollectsAfterEnd
<1>1. SandboxInv => CollectsAfterEnd
  BY DEF SandboxInv, CustodyInv, CollectsAfterEnd
<1> QED
  BY <1>1, SandboxInvariant, PTL
=============================================================================
