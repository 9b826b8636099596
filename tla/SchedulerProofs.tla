-------------------------- MODULE SchedulerProofs --------------------------
(***************************************************************************)
(* Theorems about module Scheduler, for every workflow, every number of    *)
(* Resume and Cancel calls, with and without a checkpointer, under store   *)
(* errors, expiry and crashes.                                             *)
(***************************************************************************)
EXTENDS Scheduler, FiniteSetTheorems, TLAPS

\* Every goroutine that saves is a saver.
LEMMA SaverTypes ==
    /\ \A d \in Drivers : <<d, NoStep>> \in Savers
    /\ \A d \in Drivers, s \in Steps : <<d, s>> \in Savers
    /\ "run" \in Drivers
    /\ Resumers \subseteq Drivers
  BY DEF Savers, Drivers

LEMMA NoCheckpointType == NoCheckpoint \in Checkpoints
  BY DEF NoCheckpoint, Checkpoints, StepStatuses

\* Entering saveCheckpoint keeps the types of its bookkeeping.
LEMMA SaveCallType ==
    ASSUME TypeOK, NEW x \in Savers, SaveCall(x)
    PROVE  savePc' \in [Savers -> SaverPcs] /\ snap' \in [Savers -> Checkpoints]
  BY NoCheckpointType DEF TypeOK, SaveCall, SaverPcs

LEMMA SaveReturnType ==
    ASSUME TypeOK, NEW x \in Savers, NEW o, SaveReturn(x, o)
    PROVE  savePc' \in [Savers -> SaverPcs] /\ snap' \in [Savers -> Checkpoints]
  BY NoCheckpointType DEF TypeOK, SaveReturn, SaverPcs

LEMMA FailWorkflowType ==
    ASSUME TypeOK, NEW d \in Drivers, NEW e, FailWorkflow(d, e)
    PROVE  TypeOK'
<1> USE DEF runVars, ctxVars, loopVars, batchVars, saveVars, storeVars
<1>1. savePc' \in [Savers -> SaverPcs] /\ snap' \in [Savers -> Checkpoints]
  BY SaveCallType, SaverTypes DEF FailWorkflow
<1>2. stepStatus' \in [Steps -> StepStatuses]
  BY DEF FailWorkflow, TypeOK, MarkRunningStepsCancelled, StepStatuses
<1>3. wpc' \in [Drivers -> [Steps -> WorkerPcs]]
  BY DEF FailWorkflow, TypeOK, WorkerPcs
<1> QED
  BY <1>1, <1>2, <1>3 DEF FailWorkflow, TypeOK, WorkflowStatuses, DriverPcs

\* Moving one worker keeps the type of all of them.
LEMMA WorkerMoveType ==
    ASSUME TypeOK, NEW d \in Drivers, NEW s \in Steps, NEW v \in WorkerPcs
    PROVE  [wpc EXCEPT ![d] = [wpc[d] EXCEPT ![s] = v]] \in [Drivers -> [Steps -> WorkerPcs]]
<1>1. [wpc[d] EXCEPT ![s] = v] \in [Steps -> WorkerPcs]
  BY DEF TypeOK
<1> QED
  BY <1>1 DEF TypeOK

LEMMA WorkerReturnsType ==
    ASSUME TypeOK, NEW d \in Drivers, NEW s \in Steps, NEW e \in ErrorKinds,
           WorkerReturns(d, s, e)
    PROVE  /\ wpc' \in [Drivers -> [Steps -> WorkerPcs]]
           /\ batchErr' \in [Drivers -> ErrorKinds \cup {"none"}]
<1>1. wpc' \in [Drivers -> [Steps -> WorkerPcs]]
  BY WorkerMoveType DEF WorkerReturns, WorkerPcs
<1>2. batchErr' \in [Drivers -> ErrorKinds \cup {"none"}]
  BY DEF WorkerReturns, TypeOK
<1> QED
  BY <1>1, <1>2

LEMMA InitType == Init => TypeOK
  BY NoCheckpointType DEF Init, NewScheduler, TypeOK, WorkflowStatuses, StepStatuses,
     DriverPcs, WorkerPcs, SaverPcs

LEMMA NextType == TypeOK /\ [Next]_vars => TypeOK'
<1> SUFFICES ASSUME TypeOK, [Next]_vars PROVE TypeOK'
  OBVIOUS
<1> USE DEF runVars, ctxVars, loopVars, batchVars, saveVars, storeVars
<1>1. CASE Run
  BY <1>1, SaverTypes DEF Run, EnterLoop, TypeOK, WorkflowStatuses, DriverPcs, ReadyIn
<1>2. ASSUME NEW d \in Drivers, ResumeRun(d) PROVE TypeOK'
  BY <1>2, SaveReturnType, SaverTypes
     DEF ResumeRun, EnterLoop, TypeOK, WorkflowStatuses, DriverPcs, ReadyIn
<1>3. ASSUME NEW d \in Drivers, ResumeFails(d) PROVE TypeOK'
  BY <1>3, SaveReturnType, SaverTypes DEF ResumeFails, TypeOK, DriverPcs
<1>4. ASSUME NEW d \in Drivers, LoopCancelled(d) PROVE TypeOK'
  BY <1>4, FailWorkflowType DEF LoopCancelled
<1>5. ASSUME NEW d \in Drivers, LoopCompletes(d) PROVE TypeOK'
  BY <1>5 DEF LoopCompletes, TypeOK, WorkflowStatuses, DriverPcs
<1>6. ASSUME NEW d \in Drivers, LoopProcesses(d) PROVE TypeOK'
  <2>1. CASE FailWorkflow(d, "other")
    BY <2>1, FailWorkflowType
  <2>2. CASE ~FailWorkflow(d, "other")
    <3> DEFINE ready == IF todo[d] = {} THEN ReadyIn(resolved) ELSE todo[d]
    <3>1. ready \in SUBSET Steps
      BY DEF TypeOK, ReadyIn
    <3>2. /\ todo' = [todo EXCEPT ![d] = ready]
          /\ dpc' = [dpc EXCEPT ![d] = "process"]
          /\ UNCHANGED <<runVars, ctxVars, inline, cur, batchVars, saveVars, storeVars,
                         cancelRef, crashes>>
      BY <1>6, <2>2 DEF LoopProcesses
    <3> HIDE DEF ready
    <3> QED
      BY <3>1, <3>2 DEF TypeOK, DriverPcs
  <2> QED
    BY <2>1, <2>2
<1>7. ASSUME NEW d \in Drivers, NEW s \in Steps, BranchStart(d, s) PROVE TypeOK'
  <2>1. CASE FailWorkflow(d, "other")
    BY <2>1, FailWorkflowType
  <2>2. CASE ~FailWorkflow(d, "other")
    <3>1. /\ stepStatus' = [stepStatus EXCEPT ![s] = "running"]
          /\ cur' = [cur EXCEPT ![d] = s]
          /\ dpc' = [dpc EXCEPT ![d] = "branch"]
          /\ UNCHANGED <<wfStatus, retryCount, outputs, resolved, pausedStepID, ctxVars,
                         todo, inline, batchVars, saveVars, storeVars, cancelRef, crashes>>
      BY <1>7, <2>2 DEF BranchStart
    <3> QED
      BY <3>1 DEF TypeOK, DriverPcs, StepStatuses
  <2> QED
    BY <2>1, <2>2
<1>8. ASSUME NEW d \in Drivers, NEW s \in Steps, PauseWorkflow(d, s) PROVE TypeOK'
  <2>1. CASE FailWorkflow(d, "other")
    BY <2>1, FailWorkflowType
  <2>2. CASE ~FailWorkflow(d, "other")
    BY <1>8, <2>2, SaveCallType, SaverTypes
       DEF PauseWorkflow, TypeOK, DriverPcs, StepStatuses, WorkflowStatuses
  <2> QED
    BY <2>1, <2>2
<1>9. ASSUME NEW d \in Drivers, NEW st \in Done, BranchDecides(d, st) PROVE TypeOK'
  <2>1. savePc' \in [Savers -> SaverPcs] /\ snap' \in [Savers -> Checkpoints]
    BY <1>9, SaveCallType, SaverTypes DEF BranchDecides
  <2>2. stepStatus' \in [Steps -> StepStatuses]
    BY <1>9 DEF BranchDecides, TypeOK, Done, StepStatuses
  <2> QED
    BY <1>9, <2>1, <2>2 DEF BranchDecides, TypeOK, DriverPcs, NewlyReady
<1>10. ASSUME NEW d \in Drivers, BranchErrs(d) PROVE TypeOK'
  BY <1>10, FailWorkflowType DEF BranchErrs
<1>11. ASSUME NEW d \in Drivers, BranchSaved(d) PROVE TypeOK'
  BY <1>11, SaveReturnType, SaverTypes DEF BranchSaved, TypeOK, DriverPcs
<1>12. ASSUME NEW d \in Drivers, BranchSaveFails(d) PROVE TypeOK'
  BY <1>12, FailWorkflowType DEF BranchSaveFails
<1>13. ASSUME NEW d \in Drivers, PauseSaved(d) PROVE TypeOK'
  BY <1>13, SaveReturnType, SaverTypes DEF PauseSaved, TypeOK, DriverPcs
<1>14. ASSUME NEW d \in Drivers, PauseSaveFails(d) PROVE TypeOK'
  BY <1>14, FailWorkflowType DEF PauseSaveFails
<1>15. ASSUME NEW d \in Drivers, ProcessDone(d) PROVE TypeOK'
  <2>1. wpc' \in [Drivers -> [Steps -> WorkerPcs]]
    <3> DEFINE row == [s \in Steps |-> IF s \in todo[d] THEN "queued" ELSE "idle"]
    <3>1. row \in [Steps -> WorkerPcs]
      BY DEF WorkerPcs
    <3>2. wpc' = wpc \/ wpc' = [wpc EXCEPT ![d] = row]
      BY <1>15 DEF ProcessDone
    <3> HIDE DEF row
    <3> QED
      BY <3>1, <3>2 DEF TypeOK
  <2>2. /\ dpc' \in [Drivers -> DriverPcs]
        /\ todo' \in [Drivers -> SUBSET Steps]
        /\ inline' \in [Drivers -> SUBSET Steps]
    <3>1. CASE todo[d] = {}
      <4>1. /\ dpc' = [dpc EXCEPT ![d] = "loop"]
            /\ todo' = [todo EXCEPT ![d] = inline[d]]
            /\ inline' = [inline EXCEPT ![d] = {}]
        BY <1>15, <3>1 DEF ProcessDone
      <4> QED
        BY <4>1 DEF TypeOK, DriverPcs
    <3>2. CASE todo[d] # {}
      <4>1. /\ dpc' = [dpc EXCEPT ![d] = "batch"]
            /\ todo' = [todo EXCEPT ![d] = {}]
            /\ inline' = inline
        BY <1>15, <3>2 DEF ProcessDone
      <4> QED
        BY <4>1 DEF TypeOK, DriverPcs
    <3> QED
      BY <3>1, <3>2
  <2> QED
    BY <1>15, <2>1, <2>2 DEF ProcessDone, TypeOK
<1>16. ASSUME NEW d \in Drivers, BatchDone(d) PROVE TypeOK'
  <2>1. CASE FailWorkflow(d, batchErr[d])
    BY <2>1, FailWorkflowType
  <2>2. CASE ~FailWorkflow(d, batchErr[d])
    <3>1. /\ dpc' = [dpc EXCEPT ![d] = "loop"]
          /\ todo' = [todo EXCEPT ![d] = inline[d]]
          /\ inline' = [inline EXCEPT ![d] = {}]
          /\ wpc' = [wpc EXCEPT ![d] = [s \in Steps |-> "idle"]]
          /\ UNCHANGED <<runVars, ctxVars, cur, batchErr, saveVars, storeVars, cancelRef, crashes>>
      BY <1>16, <2>2 DEF BatchDone
    <3>2. wpc' \in [Drivers -> [Steps -> WorkerPcs]]
      BY <3>1 DEF TypeOK, WorkerPcs
    <3> QED
      BY <3>1, <3>2 DEF TypeOK, DriverPcs
  <2> QED
    BY <2>1, <2>2
<1>17. ASSUME NEW d \in Drivers, FailSaved(d) PROVE TypeOK'
  BY <1>17, SaveReturnType, SaverTypes DEF FailSaved, TypeOK, DriverPcs
<1>18. ASSUME NEW d \in Drivers, NEW s \in Steps, WorkerStart(d, s) PROVE TypeOK'
  <2>1. /\ wpc' \in [Drivers -> [Steps -> WorkerPcs]]
        /\ stepStatus' \in [Steps -> StepStatuses]
        /\ batchErr' \in [Drivers -> ErrorKinds \cup {"none"}]
    <3>1. CASE s \in Executable /\ CanTransition(stepStatus[s], "running")
      <4>1. /\ stepStatus' = [stepStatus EXCEPT ![s] = "running"]
            /\ wpc' = [wpc EXCEPT ![d] = [wpc[d] EXCEPT ![s] = "exec"]]
            /\ batchErr' = batchErr
        BY <1>18, <3>1 DEF WorkerStart
      <4>2. wpc' \in [Drivers -> [Steps -> WorkerPcs]]
        BY <4>1, WorkerMoveType DEF WorkerPcs
      <4> QED
        BY <4>1, <4>2 DEF TypeOK, StepStatuses
    <3>2. CASE ~(s \in Executable /\ CanTransition(stepStatus[s], "running"))
      <4>1. WorkerReturns(d, s, "other") /\ stepStatus' = stepStatus
        BY <1>18, <3>2 DEF WorkerStart
      <4> QED
        BY <4>1, WorkerReturnsType DEF TypeOK, ErrorKinds
    <3> QED
      BY <3>1, <3>2
  <2> QED
    BY <1>18, <2>1 DEF WorkerStart, TypeOK
<1>19. ASSUME NEW d \in Drivers, NEW s \in Steps, ExecSucceeds(d, s) PROVE TypeOK'
  <2>1. savePc' \in [Savers -> SaverPcs] /\ snap' \in [Savers -> Checkpoints]
    BY <1>19, SaveCallType, SaverTypes DEF ExecSucceeds
  <2> QED
    BY <1>19, <2>1 DEF ExecSucceeds, TypeOK, WorkerPcs, StepStatuses
<1>20. ASSUME NEW d \in Drivers, NEW s \in Steps,
              NEW st \in {"failed", "timeout", "cancelled"}, NEW e \in ErrorKinds,
              ExecFails(d, s, st, e)
       PROVE  TypeOK'
  <2>1. /\ wpc' \in [Drivers -> [Steps -> WorkerPcs]]
        /\ retryCount' \in [Steps -> Nat]
        /\ batchErr' \in [Drivers -> ErrorKinds \cup {"none"}]
    <3>1. CASE ShouldRetry(MaxRetries[s], st, retryCount[s])
      <4>1. /\ retryCount' = [retryCount EXCEPT ![s] = retryCount[s] + 1]
            /\ wpc' = [wpc EXCEPT ![d] = [wpc[d] EXCEPT ![s] = "retry"]]
            /\ batchErr' = batchErr
        BY <1>20, <3>1 DEF ExecFails
      <4>2. wpc' \in [Drivers -> [Steps -> WorkerPcs]]
        BY <4>1, WorkerMoveType DEF WorkerPcs
      <4> QED
        BY <4>1, <4>2 DEF TypeOK
    <3>2. CASE ~ShouldRetry(MaxRetries[s], st, retryCount[s])
      <4>1. WorkerReturns(d, s, e) /\ retryCount' = retryCount
        BY <1>20, <3>2 DEF ExecFails
      <4> QED
        BY <4>1, WorkerReturnsType DEF TypeOK
    <3> QED
      BY <3>1, <3>2
  <2>2. stepStatus' \in [Steps -> StepStatuses]
    BY <1>20 DEF ExecFails, TypeOK, StepStatuses
  <2> QED
    BY <1>20, <2>1, <2>2 DEF ExecFails, TypeOK
<1>21. ASSUME NEW d \in Drivers, NEW s \in Steps, WorkerSaved(d, s) PROVE TypeOK'
  <2>1. savePc' \in [Savers -> SaverPcs] /\ snap' \in [Savers -> Checkpoints]
    BY <1>21, SaveReturnType, SaverTypes DEF WorkerSaved
  <2> QED
    BY <1>21, <2>1 DEF WorkerSaved, TypeOK, WorkerPcs, NewlyReady
<1>22. ASSUME NEW d \in Drivers, NEW s \in Steps, WorkerSaveFails(d, s) PROVE TypeOK'
  <2>1. savePc' \in [Savers -> SaverPcs] /\ snap' \in [Savers -> Checkpoints]
    BY <1>22, SaveReturnType, SaverTypes DEF WorkerSaveFails
  <2> QED
    BY <1>22, <2>1 DEF WorkerSaveFails, WorkerReturns, TypeOK, WorkerPcs, ErrorKinds
<1>23. ASSUME NEW x \in Savers, SaveClone(x) PROVE TypeOK'
  BY <1>23 DEF SaveClone, TypeOK, SaverPcs, Checkpoints
<1>24. ASSUME NEW x \in Savers, SaveVersion(x) PROVE TypeOK'
  BY <1>24 DEF SaveVersion, TypeOK, SaverPcs, Checkpoints
<1>25. ASSUME NEW x \in Savers, SaveStore(x) PROVE TypeOK'
  <2>1. Successor(snap[x]) \in Checkpoints
    BY DEF Successor, TypeOK, Checkpoints
  <2> QED
    BY <1>25, <2>1 DEF SaveStore, TypeOK, SaverPcs
<1>26. ASSUME NEW x \in Savers, SaveCommit(x) PROVE TypeOK'
  BY <1>26 DEF SaveCommit, TypeOK, SaverPcs, Checkpoints
<1>27. ASSUME NEW d \in Resumers, CompleteHumanStep(d) PROVE TypeOK'
  <2>1. savePc' \in [Savers -> SaverPcs] /\ snap' \in [Savers -> Checkpoints]
    BY <1>27, SaveCallType, SaverTypes DEF CompleteHumanStep
  <2> QED
    BY <1>27, <2>1, SaverTypes DEF CompleteHumanStep, TypeOK, DriverPcs, StepStatuses
<1>28. ASSUME NEW d \in Resumers, ClientDisconnects(d) PROVE TypeOK'
  BY <1>28, SaverTypes DEF ClientDisconnects, TypeOK
<1>29. ASSUME NEW c \in Cancellers, CancelReads(c) PROVE TypeOK'
  BY <1>29 DEF CancelReads, TypeOK
<1>30. ASSUME NEW c \in Cancellers, CancelFires(c) PROVE TypeOK'
  BY <1>30 DEF CancelFires, TypeOK
<1>31. CASE CheckpointExpires
  BY <1>31, NoCheckpointType DEF CheckpointExpires, TypeOK
<1>32. CASE CrashAndRestore
  <2>1. stored.status \in [Steps -> StepStatuses] /\ stored.retry \in [Steps -> Nat]
            /\ stored.version \in Nat
    BY DEF TypeOK, Checkpoints
  <2> QED
    BY <1>32, <2>1, NoCheckpointType
       DEF CrashAndRestore, Replayed, RestoredOutputs, TypeOK, WorkflowStatuses, StepStatuses,
           DriverPcs, WorkerPcs, SaverPcs
<1>33. CASE UNCHANGED vars
  BY <1>33 DEF vars, TypeOK
<1> QED
  BY <1>1, <1>2, <1>3, <1>4, <1>5, <1>6, <1>7, <1>8, <1>9, <1>10, <1>11, <1>12, <1>13, <1>14,
     <1>15, <1>16, <1>17, <1>18, <1>19, <1>20, <1>21, <1>22, <1>23, <1>24, <1>25, <1>26, <1>27,
     <1>28, <1>29, <1>30, <1>31, <1>32, <1>33
     DEF Next, DriverStep, WorkerStep, SaverStep, Environment

\* Every variable of the scheduler keeps its type in every behaviour.
THEOREM TypeCorrect == Spec => []TypeOK
<1>1. Init => TypeOK
  BY InitType
<1>2. TypeOK /\ [Next]_vars => TypeOK'
  BY NextType
<1> QED
  BY <1>1, <1>2, PTL DEF Spec

-----------------------------------------------------------------------------
(***************************************************************************)
(* One owner.  pausedStepID is a token: the driver that pauses the run     *)
(* gives up the loop and leaves the token, and the Resume call that takes  *)
(* the token enters the loop.  Run may enter because nobody has yet.       *)
(***************************************************************************)
OwnerInv ==
    /\ SingleOwner
    /\ pausedStepID # NoStep => Owners = {}
    /\ dpc["run"] = "idle" => Owners = {} /\ pausedStepID = NoStep

\* A driver that moves inside the loop, or leaves it, changes no ownership.
LEMMA OwnerMove ==
    ASSUME TypeOK, OwnerInv, NEW d \in Drivers, NEW v, v # "idle",
           dpc' = [dpc EXCEPT ![d] = v],
           dpc[d] \in LoopPcs \/ v \notin LoopPcs,
           pausedStepID' = pausedStepID
    PROVE  OwnerInv'
<1>1. \A e \in Drivers : dpc'[e] = IF e = d THEN v ELSE dpc[e]
  BY DEF TypeOK
<1>2. Owners' \subseteq Owners
  BY <1>1 DEF Owners
<1>3. dpc'["run"] = "idle" => dpc["run"] = "idle"
  BY <1>1, SaverTypes
<1> QED
  BY <1>2, <1>3 DEF OwnerInv, SingleOwner

LEMMA OwnerFrame ==
    ASSUME OwnerInv, dpc' = dpc, pausedStepID' = pausedStepID
    PROVE  OwnerInv'
  BY DEF OwnerInv, SingleOwner, Owners

LEMMA InitOwner == Init => OwnerInv
  BY DEF Init, NewScheduler, OwnerInv, SingleOwner, Owners, LoopPcs

LEMMA FailWorkflowOwner ==
    ASSUME TypeOK, OwnerInv, NEW d \in Drivers, NEW e, FailWorkflow(d, e)
    PROVE  OwnerInv'
<1>1. dpc' = [dpc EXCEPT ![d] = "failSave"] /\ pausedStepID' = pausedStepID
  BY DEF FailWorkflow
<1> QED
  BY <1>1, OwnerMove DEF LoopPcs

LEMMA NextOwner == TypeOK /\ OwnerInv /\ [Next]_vars => OwnerInv'
<1> SUFFICES ASSUME TypeOK, OwnerInv, [Next]_vars PROVE OwnerInv'
  OBVIOUS
<1> USE DEF runVars, ctxVars, loopVars, batchVars, saveVars, storeVars
<1>1. CASE Run
  <2>1. dpc["run"] = "idle" /\ dpc' = [dpc EXCEPT !["run"] = "loop"] /\ pausedStepID' = pausedStepID
    BY <1>1 DEF Run, EnterLoop
  <2>2. Owners = {} /\ pausedStepID' = NoStep
    BY <2>1 DEF OwnerInv
  <2>3. \A e \in Drivers : dpc'[e] = IF e = "run" THEN "loop" ELSE dpc[e]
    BY <2>1 DEF TypeOK
  <2>4. Owners' \subseteq {"run"} /\ dpc'["run"] # "idle"
    BY <2>2, <2>3, SaverTypes DEF Owners
  <2> QED
    BY <2>2, <2>4 DEF OwnerInv, SingleOwner
<1>2. ASSUME NEW d \in Drivers, ResumeRun(d) PROVE OwnerInv'
  BY <1>2, OwnerMove DEF ResumeRun, EnterLoop, LoopPcs
<1>3. ASSUME NEW d \in Drivers, ResumeFails(d) PROVE OwnerInv'
  BY <1>3, OwnerMove DEF ResumeFails, LoopPcs
<1>4. ASSUME NEW d \in Drivers, LoopCancelled(d) PROVE OwnerInv'
  BY <1>4, FailWorkflowOwner DEF LoopCancelled
<1>5. ASSUME NEW d \in Drivers, LoopCompletes(d) PROVE OwnerInv'
  BY <1>5, OwnerMove DEF LoopCompletes, LoopPcs
<1>6. ASSUME NEW d \in Drivers, LoopProcesses(d) PROVE OwnerInv'
  <2>1. CASE FailWorkflow(d, "other")
    BY <2>1, FailWorkflowOwner
  <2>2. CASE ~FailWorkflow(d, "other")
    BY <1>6, <2>2, OwnerMove DEF LoopProcesses, LoopPcs
  <2> QED
    BY <2>1, <2>2
<1>7. ASSUME NEW d \in Drivers, NEW s \in Steps, BranchStart(d, s) PROVE OwnerInv'
  <2>1. CASE FailWorkflow(d, "other")
    BY <2>1, FailWorkflowOwner
  <2>2. CASE ~FailWorkflow(d, "other")
    BY <1>7, <2>2, OwnerMove DEF BranchStart, LoopPcs
  <2> QED
    BY <2>1, <2>2
<1>8. ASSUME NEW d \in Drivers, NEW s \in Steps, PauseWorkflow(d, s) PROVE OwnerInv'
  <2>1. CASE FailWorkflow(d, "other")
    BY <2>1, FailWorkflowOwner
  <2>2. CASE ~FailWorkflow(d, "other")
    <3>1. /\ dpc[d] = "process"
          /\ dpc' = [dpc EXCEPT ![d] = "pauseSave"]
      BY <1>8, <2>2 DEF PauseWorkflow
    <3>2. \A e \in Drivers : dpc'[e] = IF e = d THEN "pauseSave" ELSE dpc[e]
      BY <3>1 DEF TypeOK
    <3>3. d \in Owners
      BY <3>1 DEF Owners, LoopPcs
    <3>4. Owners' = {}
      BY <3>2, <3>3 DEF OwnerInv, SingleOwner, Owners, LoopPcs
    <3>5. dpc'["run"] # "idle"
      BY <3>2, <3>3, SaverTypes DEF OwnerInv
    <3> QED
      BY <3>4, <3>5 DEF OwnerInv, SingleOwner
  <2> QED
    BY <2>1, <2>2
<1>9. ASSUME NEW d \in Drivers, NEW st \in Done, BranchDecides(d, st) PROVE OwnerInv'
  BY <1>9, OwnerMove DEF BranchDecides, LoopPcs
<1>10. ASSUME NEW d \in Drivers, BranchErrs(d) PROVE OwnerInv'
  BY <1>10, FailWorkflowOwner DEF BranchErrs
<1>11. ASSUME NEW d \in Drivers, BranchSaved(d) PROVE OwnerInv'
  BY <1>11, OwnerMove DEF BranchSaved, LoopPcs
<1>12. ASSUME NEW d \in Drivers, BranchSaveFails(d) PROVE OwnerInv'
  BY <1>12, FailWorkflowOwner DEF BranchSaveFails
<1>13. ASSUME NEW d \in Drivers, PauseSaved(d) PROVE OwnerInv'
  BY <1>13, OwnerMove DEF PauseSaved, LoopPcs
<1>14. ASSUME NEW d \in Drivers, PauseSaveFails(d) PROVE OwnerInv'
  BY <1>14, FailWorkflowOwner DEF PauseSaveFails
<1>15. ASSUME NEW d \in Drivers, ProcessDone(d) PROVE OwnerInv'
  <2>1. dpc[d] = "process" /\ pausedStepID' = pausedStepID
    BY <1>15 DEF ProcessDone
  <2>2. \/ dpc' = [dpc EXCEPT ![d] = "loop"]
        \/ dpc' = [dpc EXCEPT ![d] = "batch"]
    BY <1>15 DEF ProcessDone
  <2> QED
    BY <2>1, <2>2, OwnerMove DEF LoopPcs
<1>16. ASSUME NEW d \in Drivers, BatchDone(d) PROVE OwnerInv'
  <2>1. CASE FailWorkflow(d, batchErr[d])
    BY <2>1, FailWorkflowOwner
  <2>2. CASE ~FailWorkflow(d, batchErr[d])
    BY <1>16, <2>2, OwnerMove DEF BatchDone, LoopPcs
  <2> QED
    BY <2>1, <2>2
<1>17. ASSUME NEW d \in Drivers, FailSaved(d) PROVE OwnerInv'
  BY <1>17, OwnerMove DEF FailSaved, LoopPcs
<1>18. ASSUME NEW d \in Drivers, NEW s \in Steps, WorkerStep(d, s) PROVE OwnerInv'
  BY <1>18, OwnerFrame
     DEF WorkerStep, WorkerStart, ExecSucceeds, ExecFails, WorkerSaved, WorkerSaveFails
<1>19. ASSUME NEW x \in Savers, SaverStep(x) PROVE OwnerInv'
  BY <1>19, OwnerFrame DEF SaverStep, SaveClone, SaveVersion, SaveStore, SaveCommit
<1>20. ASSUME NEW d \in Resumers, CompleteHumanStep(d) PROVE OwnerInv'
  <2>1. /\ dpc' = [dpc EXCEPT ![d] = "resumeSave"]
        /\ pausedStepID # NoStep
        /\ pausedStepID' = NoStep
    BY <1>20 DEF CompleteHumanStep
  <2>2. Owners = {} /\ dpc["run"] # "idle"
    BY <2>1 DEF OwnerInv
  <2>3. \A e \in Drivers : dpc'[e] = IF e = d THEN "resumeSave" ELSE dpc[e]
    BY <2>1, SaverTypes DEF TypeOK
  <2>4. Owners' \subseteq {d} /\ dpc'["run"] # "idle"
    BY <2>2, <2>3, SaverTypes DEF Owners
  <2> QED
    BY <2>1, <2>4 DEF OwnerInv, SingleOwner
<1>21. ASSUME NEW d \in Resumers, ClientDisconnects(d) PROVE OwnerInv'
  BY <1>21, OwnerFrame DEF ClientDisconnects
<1>22. ASSUME NEW c \in Cancellers, CancelReads(c) \/ CancelFires(c) PROVE OwnerInv'
  BY <1>22, OwnerFrame DEF CancelReads, CancelFires
<1>23. CASE CheckpointExpires
  BY <1>23, OwnerFrame DEF CheckpointExpires
<1>24. CASE CrashAndRestore
  <2>1. /\ \A e \in Drivers : dpc'[e] \in {"idle", "done"}
        /\ pausedStepID' = NoStep
    BY <1>24 DEF CrashAndRestore
  <2>2. Owners' = {}
    BY <2>1 DEF Owners, LoopPcs
  <2> QED
    BY <2>1, <2>2 DEF OwnerInv, SingleOwner
<1>25. CASE UNCHANGED vars
  BY <1>25, OwnerFrame DEF vars
<1> QED
  BY <1>1, <1>2, <1>3, <1>4, <1>5, <1>6, <1>7, <1>8, <1>9, <1>10, <1>11, <1>12, <1>13, <1>14,
     <1>15, <1>16, <1>17, <1>18, <1>19, <1>20, <1>21, <1>22, <1>23, <1>24, <1>25
     DEF Next, DriverStep, Environment

\* At most one goroutine is in the run loop, whatever Run, Resume and Cancel
\* calls arrive and whatever the store does.
THEOREM OneOwner == Spec => []SingleOwner
<1>1. Init => OwnerInv
  BY InitOwner
<1>2. TypeOK /\ OwnerInv /\ [Next]_vars => OwnerInv'
  BY NextOwner
<1>3. OwnerInv => SingleOwner
  BY DEF OwnerInv
<1> QED
  BY <1>1, <1>2, <1>3, TypeCorrect, PTL DEF Spec

-----------------------------------------------------------------------------
(***************************************************************************)
(* Retries.  A crash gives a step the count of the checkpoint back, so the *)
(* bound must hold of every snapshot on its way to the store and of the    *)
(* checkpoint in it.                                                       *)
(***************************************************************************)
WithinBudget(retry) == \A s \in Steps : retry[s] <= MaxRetries[s]

RetryInv ==
    /\ WithinBudget(retryCount)
    /\ \A x \in Savers : WithinBudget(snap[x].retry)
    /\ WithinBudget(stored.retry)

LEMMA BudgetNoCheckpoint == WithinBudget(NoCheckpoint.retry)
  BY MaxRetriesType DEF WithinBudget, NoCheckpoint

LEMMA BudgetSnap ==
    ASSUME TypeOK, RetryInv, NEW x \in Savers, NEW cp, WithinBudget(cp.retry),
           snap' = [snap EXCEPT ![x] = cp]
    PROVE  \A y \in Savers : WithinBudget(snap'[y].retry)
<1>1. \A y \in Savers : snap'[y] = IF y = x THEN cp ELSE snap[y]
  BY DEF TypeOK
<1> QED
  BY <1>1 DEF RetryInv

\* An action that counts no retry and stores nothing, and builds at most an
\* empty snapshot.
LEMMA RetryFrame ==
    ASSUME TypeOK, RetryInv, retryCount' = retryCount, stored' = stored,
           snap' = snap \/ \E x \in Savers : snap' = [snap EXCEPT ![x] = NoCheckpoint]
    PROVE  RetryInv'
<1>1. \A y \in Savers : WithinBudget(snap'[y].retry)
  BY BudgetSnap, BudgetNoCheckpoint DEF RetryInv
<1> QED
  BY <1>1 DEF RetryInv, WithinBudget

LEMMA FailWorkflowRetry ==
    ASSUME TypeOK, RetryInv, NEW d \in Drivers, NEW e, FailWorkflow(d, e)
    PROVE  RetryInv'
  BY RetryFrame, SaverTypes DEF FailWorkflow, SaveCall, storeVars

LEMMA DriverRetry ==
    ASSUME TypeOK, RetryInv, NEW d \in Drivers, DriverStep(d)
    PROVE  RetryInv'
<1> USE DEF runVars, saveVars, storeVars
<1>1. CASE \E e : FailWorkflow(d, e)
  BY <1>1, FailWorkflowRetry
<1>2. CASE ~\E e : FailWorkflow(d, e)
  <2>1. retryCount' = retryCount /\ stored' = stored
    BY <1>2
       DEF DriverStep, ResumeRun, ResumeFails, LoopCancelled, LoopCompletes, LoopProcesses,
           BranchStart, PauseWorkflow, BranchDecides, BranchErrs, BranchSaved, BranchSaveFails,
           PauseSaved, PauseSaveFails, ProcessDone, BatchDone, FailSaved
  <2>2. snap' = snap \/ snap' = [snap EXCEPT ![<<d, NoStep>>] = NoCheckpoint]
    BY <1>2
       DEF DriverStep, ResumeRun, ResumeFails, LoopCancelled, LoopCompletes, LoopProcesses,
           BranchStart, PauseWorkflow, BranchDecides, BranchErrs, BranchSaved, BranchSaveFails,
           PauseSaved, PauseSaveFails, ProcessDone, BatchDone, FailSaved, SaveCall, SaveReturn
  <2> QED
    BY <2>1, <2>2, RetryFrame, SaverTypes
<1> QED
  BY <1>1, <1>2

LEMMA NextRetry == TypeOK /\ RetryInv /\ [Next]_vars => RetryInv'
<1> SUFFICES ASSUME TypeOK, RetryInv, [Next]_vars PROVE RetryInv'
  OBVIOUS
<1> USE DEF runVars, ctxVars, loopVars, batchVars, saveVars, storeVars
<1>1. CASE Run
  BY <1>1, RetryFrame DEF Run
<1>2. ASSUME NEW d \in Drivers, DriverStep(d) PROVE RetryInv'
  BY <1>2, DriverRetry
<1>3. ASSUME NEW d \in Drivers, NEW s \in Steps, WorkerStep(d, s) PROVE RetryInv'
  <2>1. CASE WorkerStart(d, s) \/ ExecSucceeds(d, s) \/ WorkerSaved(d, s) \/ WorkerSaveFails(d, s)
    BY <2>1, RetryFrame, SaverTypes
       DEF WorkerStart, ExecSucceeds, WorkerSaved, WorkerSaveFails, SaveCall, SaveReturn
  <2>2. ASSUME NEW st, NEW e, ExecFails(d, s, st, e) PROVE RetryInv'
    <3>1. CASE ShouldRetry(MaxRetries[s], st, retryCount[s])
      <4>1. /\ retryCount' = [retryCount EXCEPT ![s] = retryCount[s] + 1]
            /\ retryCount[s] < MaxRetries[s]
            /\ snap' = snap /\ stored' = stored
        BY <2>2, <3>1 DEF ExecFails, ShouldRetry
      <4>2. WithinBudget(retryCount')
        <5>1. \A t \in Steps : retryCount'[t] = IF t = s THEN retryCount[s] + 1 ELSE retryCount[t]
          BY <4>1 DEF TypeOK
        <5>2. \A t \in Steps : retryCount[t] <= MaxRetries[t]
          BY DEF RetryInv, WithinBudget
        <5>3. retryCount[s] \in Nat /\ MaxRetries[s] \in Nat
          BY MaxRetriesType DEF TypeOK
        <5>4. retryCount[s] + 1 <= MaxRetries[s]
          BY <4>1, <5>3
        <5> QED
          BY <5>1, <5>2, <5>4 DEF WithinBudget
      <4> QED
        BY <4>1, <4>2 DEF RetryInv, WithinBudget
    <3>2. CASE ~ShouldRetry(MaxRetries[s], st, retryCount[s])
      BY <2>2, <3>2, RetryFrame DEF ExecFails
    <3> QED
      BY <3>1, <3>2
  <2> QED
    BY <1>3, <2>1, <2>2 DEF WorkerStep
<1>4. ASSUME NEW x \in Savers, SaverStep(x) PROVE RetryInv'
  <2>1. CASE SaveClone(x) \/ SaveVersion(x)
    <3>1. PICK cp : /\ snap' = [snap EXCEPT ![x] = cp]
                    /\ cp.retry \in {retryCount, snap[x].retry}
      BY <2>1 DEF SaveClone, SaveVersion
    <3>2. \A y \in Savers : WithinBudget(snap'[y].retry)
      BY <3>1, BudgetSnap DEF RetryInv
    <3>3. retryCount' = retryCount /\ stored' = stored
      BY <2>1 DEF SaveClone, SaveVersion
    <3> QED
      BY <3>2, <3>3 DEF RetryInv, WithinBudget
  <2>2. CASE SaveStore(x)
    <3>1. /\ retryCount' = retryCount /\ snap' = snap
          /\ stored' = stored \/ stored' = Successor(snap[x])
      BY <2>2 DEF SaveStore
    <3> QED
      BY <3>1 DEF RetryInv, WithinBudget, Successor
  <2>3. CASE SaveCommit(x)
    BY <2>3, RetryFrame DEF SaveCommit
  <2> QED
    BY <1>4, <2>1, <2>2, <2>3 DEF SaverStep
<1>5. CASE Environment
  <2>1. CASE \/ \E d \in Resumers : CompleteHumanStep(d) \/ ClientDisconnects(d)
             \/ \E c \in Cancellers : CancelReads(c) \/ CancelFires(c)
    BY <2>1, RetryFrame, SaverTypes
       DEF CompleteHumanStep, ClientDisconnects, CancelReads, CancelFires, SaveCall
  <2>2. CASE CheckpointExpires
    BY <2>2, BudgetNoCheckpoint DEF CheckpointExpires, RetryInv, WithinBudget
  <2>3. CASE CrashAndRestore
    <3>1. /\ retryCount' = stored.retry /\ stored' = stored
          /\ \A y \in Savers : snap'[y] = NoCheckpoint
      BY <2>3 DEF CrashAndRestore
    <3> QED
      BY <3>1, BudgetNoCheckpoint DEF RetryInv, WithinBudget
  <2> QED
    BY <1>5, <2>1, <2>2, <2>3 DEF Environment
<1>6. CASE UNCHANGED vars
  BY <1>6, RetryFrame DEF vars
<1> QED
  BY <1>1, <1>2, <1>3, <1>4, <1>5, <1>6 DEF Next

\* No step is executed more often than its retry policy says, however often
\* the process is restored from a checkpoint in between.
THEOREM BudgetKept == Spec => []RetriesBounded
<1>1. Init => RetryInv
  BY BudgetNoCheckpoint, MaxRetriesType
     DEF Init, NewScheduler, RetryInv, WithinBudget
<1>2. TypeOK /\ RetryInv /\ [Next]_vars => RetryInv'
  BY NextRetry
<1>3. RetryInv => RetriesBounded
  BY DEF RetryInv, WithinBudget, RetriesBounded
<1> QED
  BY <1>1, <1>2, <1>3, TypeCorrect, PTL DEF Spec

-----------------------------------------------------------------------------
(***************************************************************************)
(* No step starts before its dependencies are done, and no checkpoint says *)
(* otherwise.                                                              *)
(*                                                                         *)
(* DependenciesFirst is not inductive.  The ready lists and the workers    *)
(* act on what the graph said earlier, so the invariant adds that whatever *)
(* they hold still has its dependencies resolved (ListInv, WorkerInv);     *)
(* that resolved steps are done (CloseInv); that a step in execution is    *)
(* still running, which needs the single owner of OwnerInv (no other       *)
(* driver touches it); and that every snapshot on its way to the store is  *)
(* as well ordered as the state it was cloned from.                        *)
(***************************************************************************)
CloseInv ==
    /\ resolved \subseteq DoneSteps
    /\ CausallyClosed(stepStatus)
    /\ \A x \in Savers : CausallyClosed(snap[x].status)
    /\ CausallyClosed(stored.status)

ListInv ==
    \A d \in Drivers :
        /\ \A s \in todo[d] : DependsOn[s] \subseteq resolved
        /\ \A s \in inline[d] : DependsOn[s] \subseteq resolved
        /\ dpc[d] = "branch" => cur[d] \in todo[d]

WorkerInv ==
    \A d \in Drivers, s \in Steps :
        /\ wpc[d][s] # "idle" => dpc[d] = "batch" /\ DependsOn[s] \subseteq resolved
        /\ wpc[d][s] = "exec" => stepStatus[s] = "running"
        /\ wpc[d][s] = "saving" => stepStatus[s] \in Done

OrderInv == TypeOK /\ OwnerInv /\ CloseInv /\ ListInv /\ WorkerInv

-----------------------------------------------------------------------------
(* What keeps a state of the steps causally closed.                        *)

\* A step may leave "pending" when its dependencies are done, and must not
\* leave Done again.
LEMMA ClosedUpdate ==
    ASSUME NEW f \in [Steps -> StepStatuses], CausallyClosed(f), NEW s \in Steps, NEW v,
           \A t \in DependsOn[s] : f[t] \in Done,
           f[s] \in Done => v \in Done
    PROVE  CausallyClosed([f EXCEPT ![s] = v])
<1> DEFINE g == [f EXCEPT ![s] = v]
<1>1. \A t \in Steps : g[t] = IF t = s THEN v ELSE f[t]
  OBVIOUS
<1>2. \A t \in Steps : f[t] \in Done => g[t] \in Done
  BY <1>1
<1> HIDE DEF g
<1>3. \A r \in Steps : g[r] # "pending" => \A t \in DependsOn[r] : g[t] \in Done
  BY <1>1, <1>2, DependsOnType DEF CausallyClosed
<1>4. CausallyClosed(g)
  BY <1>3 DEF CausallyClosed
<1> QED
  BY <1>4 DEF g

\* Cancelling what runs keeps the order.
LEMMA ClosedMark ==
    ASSUME NEW f \in [Steps -> StepStatuses], CausallyClosed(f)
    PROVE  CausallyClosed(MarkRunningStepsCancelled(f))
  BY DependsOnType DEF CausallyClosed, MarkRunningStepsCancelled, Done

LEMMA ClosedNoCheckpoint == CausallyClosed(NoCheckpoint.status)
  BY DEF CausallyClosed, NoCheckpoint

\* The snapshots stay closed when saveCheckpoint is entered or left.
LEMMA SnapCall ==
    ASSUME TypeOK, CloseInv, NEW x \in Savers,
           snap' = [snap EXCEPT ![x] = NoCheckpoint]
    PROVE  \A y \in Savers : CausallyClosed(snap'[y].status)
<1>1. \A y \in Savers : snap'[y] = IF y = x THEN NoCheckpoint ELSE snap[y]
  BY DEF TypeOK
<1> QED
  BY <1>1, ClosedNoCheckpoint DEF CloseInv

-----------------------------------------------------------------------------
(* Frames: what most actions leave alone.                                  *)

LEMMA CloseFrame ==
    ASSUME CloseInv, stepStatus' = stepStatus, resolved' = resolved, stored' = stored,
           \A y \in Savers : CausallyClosed(snap'[y].status)
    PROVE  CloseInv'
  BY DEF CloseInv, CausallyClosed, DoneSteps

LEMMA ListMove ==
    ASSUME TypeOK, ListInv, NEW d \in Drivers, NEW v, v # "branch",
           dpc' = [dpc EXCEPT ![d] = v],
           resolved \subseteq resolved',
           \A e \in Drivers \ {d} :
               todo'[e] = todo[e] /\ inline'[e] = inline[e] /\ cur'[e] = cur[e],
           \A s \in todo'[d] : DependsOn[s] \subseteq resolved',
           \A s \in inline'[d] : DependsOn[s] \subseteq resolved'
    PROVE  ListInv'
<1>1. \A e \in Drivers : dpc'[e] = IF e = d THEN v ELSE dpc[e]
  BY DEF TypeOK
<1> QED
  BY <1>1 DEF ListInv

LEMMA ListFrame ==
    ASSUME ListInv, dpc' = dpc, todo' = todo, cur' = cur, resolved \subseteq resolved',
           \A d \in Drivers : \A s \in inline'[d] : DependsOn[s] \subseteq resolved'
    PROVE  ListInv'
  BY DEF ListInv

LEMMA WorkerMove ==
    ASSUME TypeOK, WorkerInv, NEW d \in Drivers, NEW v, dpc[d] # "batch",
           dpc' = [dpc EXCEPT ![d] = v], wpc' = wpc, resolved \subseteq resolved',
           stepStatus' = stepStatus \/ \A e \in Drivers, s \in Steps : wpc[e][s] = "idle"
    PROVE  WorkerInv'
<1>1. \A e \in Drivers : dpc'[e] = IF e = d THEN v ELSE dpc[e]
  BY DEF TypeOK
<1> QED
  BY <1>1 DEF WorkerInv

LEMMA WorkerFrame ==
    ASSUME WorkerInv, dpc' = dpc, wpc' = wpc, resolved' = resolved, stepStatus' = stepStatus
    PROVE  WorkerInv'
  BY DEF WorkerInv

\* Only an owner has workers, so a run that is paused, or whose owner is not
\* in a batch, has none.
LEMMA NoWorkers ==
    ASSUME OwnerInv, WorkerInv,
           Owners = {} \/ \E d \in Owners : dpc[d] # "batch"
    PROVE  \A e \in Drivers, s \in Steps : wpc[e][s] = "idle"
<1>1. \A e \in Drivers : dpc[e] = "batch" => e \in Owners
  BY DEF Owners, LoopPcs
<1>2. \A e \in Drivers : dpc[e] # "batch"
  BY <1>1 DEF OwnerInv, SingleOwner
<1> QED
  BY <1>2 DEF WorkerInv

\* startStep refuses a step that is done.
LEMMA StartNotDone ==
    ASSUME NEW st \in StepStatuses, CanTransition(st, "running")
    PROVE  st \notin Done
  BY DEF CanTransition, ValidTransitions, StepStatuses, Done

-----------------------------------------------------------------------------
LEMMA InitOrder == Init => OrderInv
<1> SUFFICES ASSUME Init PROVE OrderInv
  OBVIOUS
<1>1. TypeOK /\ OwnerInv
  BY InitType, InitOwner
<1>2. CloseInv
  BY ClosedNoCheckpoint DEF Init, NewScheduler, CloseInv, CausallyClosed
<1>3. ListInv /\ WorkerInv
  BY DEF Init, ListInv, WorkerInv
<1> QED
  BY <1>1, <1>2, <1>3 DEF OrderInv

\* failWorkflow keeps the order: it forgets the driver's lists and workers,
\* and cancels running steps only when the caller owns the run.
LEMMA FailWorkflowOrder ==
    ASSUME OrderInv, NEW d \in Drivers, NEW e, FailWorkflow(d, e),
           e # "canceled" \/ d \in Owners
    PROVE  CloseInv' /\ ListInv' /\ WorkerInv'
<1> USE DEF OrderInv
<1>1. /\ dpc' = [dpc EXCEPT ![d] = "failSave"]
      /\ todo' = [todo EXCEPT ![d] = {}]
      /\ inline' = [inline EXCEPT ![d] = {}]
      /\ cur' = [cur EXCEPT ![d] = NoStep]
      /\ wpc' = [wpc EXCEPT ![d] = [s \in Steps |-> "idle"]]
      /\ snap' = [snap EXCEPT ![<<d, NoStep>>] = NoCheckpoint]
      /\ resolved' = resolved
      /\ stored' = stored
  BY DEF FailWorkflow, SaveCall, storeVars
<1>2. \/ stepStatus' = stepStatus
      \/ d \in Owners /\ stepStatus' = MarkRunningStepsCancelled(stepStatus)
  BY DEF FailWorkflow
<1>3. \A y \in Savers : CausallyClosed(snap'[y].status)
  BY <1>1, SnapCall, SaverTypes
<1>4. CloseInv'
  <2>1. CASE stepStatus' = stepStatus
    BY <1>1, <1>3, <2>1, CloseFrame
  <2>2. CASE stepStatus' = MarkRunningStepsCancelled(stepStatus)
    <3>1. CausallyClosed(stepStatus)'
      BY <2>2, ClosedMark DEF TypeOK, CloseInv, CausallyClosed
    <3>2. DoneSteps' = DoneSteps
      BY <2>2 DEF DoneSteps, MarkRunningStepsCancelled, Done
    <3> QED
      BY <1>1, <1>3, <3>1, <3>2 DEF CloseInv, CausallyClosed
  <2> QED
    BY <1>2, <2>1, <2>2
<1>5. ListInv'
  <2>1. /\ \A f \in Drivers \ {d} :
              todo'[f] = todo[f] /\ inline'[f] = inline[f] /\ cur'[f] = cur[f]
        /\ todo'[d] = {} /\ inline'[d] = {}
    BY <1>1 DEF TypeOK
  <2> QED
    BY <1>1, <2>1, ListMove
<1>6. WorkerInv'
  <2>1. \A f \in Drivers : dpc'[f] = IF f = d THEN "failSave" ELSE dpc[f]
    BY <1>1 DEF TypeOK
  <2>2. \A f \in Drivers, s \in Steps : wpc'[f][s] = IF f = d THEN "idle" ELSE wpc[f][s]
    BY <1>1 DEF TypeOK
  <2>3. CASE stepStatus' = stepStatus
    BY <1>1, <2>1, <2>2, <2>3 DEF WorkerInv
  <2>4. CASE d \in Owners
    <3>1. \A f \in Drivers \ {d} : dpc[f] # "batch"
      BY <2>4 DEF OwnerInv, SingleOwner, Owners, LoopPcs
    <3>2. \A f \in Drivers, s \in Steps : wpc'[f][s] = "idle"
      BY <2>2, <3>1 DEF WorkerInv
    <3> QED
      BY <3>2 DEF WorkerInv
  <2> QED
    BY <1>2, <2>3, <2>4
<1> QED
  BY <1>4, <1>5, <1>6

\* One step changes its status: it starts with its dependencies done, or it
\* ends, and only an ended step is resolved.
LEMMA CloseUpdate ==
    ASSUME TypeOK, CloseInv, NEW s \in Steps, NEW u \in StepStatuses,
           stepStatus' = [stepStatus EXCEPT ![s] = u],
           \A t \in DependsOn[s] : stepStatus[t] \in Done,
           stepStatus[s] \in Done => u \in Done,
           resolved' = resolved \/ (resolved' = resolved \cup {s} /\ u \in Done),
           stored' = stored,
           \A y \in Savers : CausallyClosed(snap'[y].status)
    PROVE  CloseInv'
<1>1. CausallyClosed(stepStatus')
  BY ClosedUpdate DEF TypeOK, CloseInv
<1>2. \A t \in Steps : stepStatus'[t] = IF t = s THEN u ELSE stepStatus[t]
  BY DEF TypeOK
<1>3. resolved' \subseteq DoneSteps'
  BY <1>2 DEF DoneSteps, CloseInv
<1> QED
  BY <1>1, <1>3 DEF CloseInv, CausallyClosed

\* One worker of the owner moves, and its step with it.
LEMMA WorkerUpdate ==
    ASSUME TypeOK, OwnerInv, WorkerInv, NEW d \in Drivers, NEW s \in Steps,
           NEW v \in WorkerPcs, NEW u \in StepStatuses,
           wpc[d][s] # "idle",
           dpc' = dpc, resolved \subseteq resolved',
           wpc' = [wpc EXCEPT ![d] = [wpc[d] EXCEPT ![s] = v]],
           \A t \in Steps : stepStatus'[t] = IF t = s THEN u ELSE stepStatus[t],
           v = "exec" => u = "running",
           v = "saving" => u \in Done
    PROVE  WorkerInv'
<1>1. dpc[d] = "batch" /\ DependsOn[s] \subseteq resolved
  BY DEF WorkerInv
<1>2. \A f \in Drivers \ {d} : dpc[f] # "batch"
  BY <1>1 DEF OwnerInv, SingleOwner, Owners, LoopPcs
<1>3. \A f \in Drivers \ {d}, t \in Steps : wpc[f][t] = "idle"
  BY <1>2 DEF WorkerInv
<1>4. \A f \in Drivers, t \in Steps :
          wpc'[f][t] = IF f = d /\ t = s THEN v ELSE wpc[f][t]
  BY DEF TypeOK
<1> QED
  BY <1>1, <1>3, <1>4 DEF WorkerInv

\* The dependencies of a step that a list or a worker holds are done.
LEMMA HeldIsFounded ==
    ASSUME CloseInv, NEW s \in Steps, DependsOn[s] \subseteq resolved
    PROVE  \A t \in DependsOn[s] : stepStatus[t] \in Done
  BY DEF CloseInv, DoneSteps

-----------------------------------------------------------------------------
LEMMA WorkerOrder ==
    ASSUME OrderInv, NEW d \in Drivers, NEW s \in Steps, WorkerStep(d, s)
    PROVE  CloseInv' /\ ListInv' /\ WorkerInv'
<1> USE DEF OrderInv, runVars, ctxVars, loopVars, batchVars, saveVars, storeVars
<1>a. ASSUME wpc[d][s] # "idle"
      PROVE  DependsOn[s] \subseteq resolved /\ \A t \in DependsOn[s] : stepStatus[t] \in Done
  BY <1>a, HeldIsFounded DEF WorkerInv
<1>b. /\ stepStatus \in [Steps -> StepStatuses]
      /\ \A y \in Savers : CausallyClosed(snap[y].status)
      /\ \A f \in Drivers : \A t \in inline[f] : DependsOn[t] \subseteq resolved
      /\ stepStatus[s] \in StepStatuses
      /\ \A t \in Steps : stepStatus[t] = IF t = s THEN stepStatus[s] ELSE stepStatus[t]
  BY DEF TypeOK, CloseInv, ListInv
<1>1. CASE WorkerStart(d, s)
  <2>1. wpc[d][s] # "idle"
    BY <1>1 DEF WorkerStart
  <2>2. /\ dpc' = dpc /\ todo' = todo /\ inline' = inline /\ cur' = cur
        /\ resolved' = resolved /\ stored' = stored /\ snap' = snap
    BY <1>1 DEF WorkerStart
  <2>3. CASE s \in Executable /\ CanTransition(stepStatus[s], "running")
    <3>1. /\ stepStatus' = [stepStatus EXCEPT ![s] = "running"]
          /\ wpc' = [wpc EXCEPT ![d] = [wpc[d] EXCEPT ![s] = "exec"]]
      BY <1>1, <2>3 DEF WorkerStart
    <3>2. stepStatus[s] \notin Done
      BY <1>b, <2>3, StartNotDone
    <3>3. CloseInv'
      BY <1>a, <1>b, <2>1, <2>2, <3>1, <3>2, CloseUpdate DEF StepStatuses
    <3>4. \A t \in Steps : stepStatus'[t] = IF t = s THEN "running" ELSE stepStatus[t]
      BY <1>b, <3>1
    <3>5. WorkerInv'
      BY <2>1, <2>2, <3>1, <3>4, WorkerUpdate DEF WorkerPcs, StepStatuses
    <3> QED
      BY <1>b, <2>2, <3>3, <3>5, ListFrame
  <2>4. CASE ~(s \in Executable /\ CanTransition(stepStatus[s], "running"))
    <3>1. /\ stepStatus' = stepStatus
          /\ wpc' = [wpc EXCEPT ![d] = [wpc[d] EXCEPT ![s] = "done"]]
      BY <1>1, <2>4 DEF WorkerStart, WorkerReturns
    <3>2. CloseInv'
      BY <1>b, <2>2, <3>1, CloseFrame
    <3>3. WorkerInv'
      <4> HIDE DEF runVars, ctxVars, loopVars, batchVars, saveVars, storeVars
      <4>1. /\ "done" \in WorkerPcs /\ stepStatus[s] \in StepStatuses
            /\ \A t \in Steps : stepStatus'[t] = IF t = s THEN stepStatus[s] ELSE stepStatus[t]
        BY <1>b, <3>1 DEF WorkerPcs
      <4>2. dpc' = dpc /\ resolved \subseteq resolved'
        BY <2>2
      <4> QED
        BY <2>1, <3>1, <4>1, <4>2, WorkerUpdate
    <3> QED
      BY <1>b, <2>2, <3>2, <3>3, ListFrame
  <2> QED
    BY <2>3, <2>4
<1>2. CASE ExecSucceeds(d, s)
  <2>1. /\ wpc[d][s] = "exec"
        /\ stepStatus' = [stepStatus EXCEPT ![s] = "success"]
        /\ wpc' = [wpc EXCEPT ![d] = [wpc[d] EXCEPT ![s] = "saving"]]
        /\ snap' = [snap EXCEPT ![<<d, s>>] = NoCheckpoint]
        /\ dpc' = dpc /\ todo' = todo /\ inline' = inline /\ cur' = cur
        /\ resolved' = resolved /\ stored' = stored
    BY <1>2 DEF ExecSucceeds, SaveCall
  <2>2. CloseInv'
    BY <1>a, <2>1, CloseUpdate, SnapCall, SaverTypes DEF StepStatuses, Done
  <2>3. \A t \in Steps : stepStatus'[t] = IF t = s THEN "success" ELSE stepStatus[t]
    BY <1>b, <2>1
  <2>4. WorkerInv'
    BY <2>1, <2>3, WorkerUpdate DEF WorkerPcs, StepStatuses, Done
  <2> QED
    BY <1>b, <2>1, <2>2, <2>4, ListFrame
<1>3. ASSUME NEW st \in {"failed", "timeout", "cancelled"}, NEW e \in ErrorKinds,
             ExecFails(d, s, st, e)
      PROVE  CloseInv' /\ ListInv' /\ WorkerInv'
  <2>1. /\ wpc[d][s] = "exec"
        /\ stepStatus' = [stepStatus EXCEPT ![s] = st]
        /\ dpc' = dpc /\ todo' = todo /\ inline' = inline /\ cur' = cur
        /\ resolved' = resolved /\ stored' = stored /\ snap' = snap
    BY <1>3 DEF ExecFails
  <2>2. PICK v \in {"retry", "done"} : wpc' = [wpc EXCEPT ![d] = [wpc[d] EXCEPT ![s] = v]]
    <3>1. CASE ShouldRetry(MaxRetries[s], st, retryCount[s])
      BY <1>3, <3>1 DEF ExecFails
    <3>2. CASE ~ShouldRetry(MaxRetries[s], st, retryCount[s])
      BY <1>3, <3>2 DEF ExecFails, WorkerReturns
    <3> QED
      BY <3>1, <3>2
  <2>3. stepStatus[s] = "running"
    BY <2>1 DEF WorkerInv
  <2>4. CloseInv'
    BY <1>a, <1>b, <2>1, <2>3, CloseUpdate DEF StepStatuses, Done
  <2>5. \A t \in Steps : stepStatus'[t] = IF t = s THEN st ELSE stepStatus[t]
    BY <1>b, <2>1
  <2>6. v \in WorkerPcs /\ v \notin {"exec", "saving"} /\ st \in StepStatuses
    BY DEF WorkerPcs, StepStatuses
  <2>7. WorkerInv'
    <3> HIDE DEF runVars, ctxVars, loopVars, batchVars, saveVars, storeVars
    <3>1. wpc[d][s] # "idle" /\ dpc' = dpc /\ resolved \subseteq resolved'
      BY <2>1
    <3> QED
      BY <2>2, <2>5, <2>6, <3>1, WorkerUpdate
  <2> QED
    BY <1>b, <2>1, <2>4, <2>7, ListFrame
<1>4. CASE WorkerSaved(d, s)
  <2>1. /\ wpc[d][s] = "saving"
        /\ stepStatus' = stepStatus
        /\ wpc' = [wpc EXCEPT ![d] = [wpc[d] EXCEPT ![s] = "done"]]
        /\ snap' = [snap EXCEPT ![<<d, s>>] = NoCheckpoint]
        /\ dpc' = dpc /\ todo' = todo /\ cur' = cur /\ stored' = stored
        /\ inline' = [inline EXCEPT ![d] = inline[d] \cup NewlyReady(s, resolved)]
        /\ resolved' = resolved \cup {s}
    BY <1>4 DEF WorkerSaved, SaveReturn
  <2>2. stepStatus[s] \in Done
    BY <2>1 DEF WorkerInv
  <2>3. \A y \in Savers : CausallyClosed(snap'[y].status)
    BY <2>1, SnapCall, SaverTypes
  <2>4. CloseInv'
    BY <2>1, <2>2, <2>3 DEF CloseInv, CausallyClosed, DoneSteps
  <2>5. \A f \in Drivers : \A t \in inline'[f] : DependsOn[t] \subseteq resolved'
    BY <1>b, <2>1 DEF TypeOK, NewlyReady
  <2>6. WorkerInv'
    BY <1>b, <2>1, WorkerUpdate DEF WorkerPcs
  <2> QED
    BY <2>1, <2>4, <2>5, <2>6, ListFrame
<1>5. CASE WorkerSaveFails(d, s)
  <2>1. /\ wpc[d][s] = "saving"
        /\ stepStatus' = stepStatus
        /\ wpc' = [wpc EXCEPT ![d] = [wpc[d] EXCEPT ![s] = "done"]]
        /\ snap' = [snap EXCEPT ![<<d, s>>] = NoCheckpoint]
        /\ dpc' = dpc /\ todo' = todo /\ inline' = inline /\ cur' = cur
        /\ resolved' = resolved /\ stored' = stored
    BY <1>5 DEF WorkerSaveFails, WorkerReturns, SaveReturn
  <2>2. CloseInv'
    BY <2>1, CloseFrame, SnapCall, SaverTypes
  <2>3. WorkerInv'
    BY <1>b, <2>1, WorkerUpdate DEF WorkerPcs
  <2> QED
    BY <1>b, <2>1, <2>2, <2>3, ListFrame
<1> QED
  BY <1>1, <1>2, <1>3, <1>4, <1>5 DEF WorkerStep

LEMMA SaverOrder ==
    ASSUME OrderInv, NEW x \in Savers, SaverStep(x)
    PROVE  CloseInv' /\ ListInv' /\ WorkerInv'
<1> USE DEF OrderInv, runVars, ctxVars, loopVars, batchVars, saveVars, storeVars
<1>1. /\ stepStatus' = stepStatus /\ resolved' = resolved
      /\ dpc' = dpc /\ todo' = todo /\ inline' = inline /\ cur' = cur /\ wpc' = wpc
  BY DEF SaverStep, SaveClone, SaveVersion, SaveStore, SaveCommit
<1>2. ListInv' /\ WorkerInv'
  BY <1>1, ListFrame, WorkerFrame DEF ListInv
<1>3. CASE SaveClone(x)
  <2>1. /\ snap' = [snap EXCEPT ![x] =
                      [version |-> 0, status |-> stepStatus, retry |-> retryCount]]
        /\ stored' = stored
    BY <1>3 DEF SaveClone
  <2>2. \A y \in Savers : snap'[y].status = IF y = x THEN stepStatus ELSE snap[y].status
    BY <2>1 DEF TypeOK
  <2>3. \A y \in Savers : CausallyClosed(snap'[y].status)
    BY <2>2 DEF CloseInv
  <2> QED
    BY <1>1, <1>2, <2>1, <2>3, CloseFrame
<1>4. CASE SaveVersion(x)
  <2>1. /\ snap' = [snap EXCEPT ![x] =
                      [version |-> cpVersion, status |-> snap[x].status, retry |-> snap[x].retry]]
        /\ stored' = stored
    BY <1>4 DEF SaveVersion
  <2>2. \A y \in Savers : snap'[y].status = snap[y].status
    BY <2>1 DEF TypeOK
  <2>3. \A y \in Savers : CausallyClosed(snap'[y].status)
    BY <2>2 DEF CloseInv
  <2> QED
    BY <1>1, <1>2, <2>1, <2>3, CloseFrame
<1>5. CASE SaveStore(x)
  <2>1. snap' = snap /\ stored' \in {stored, Successor(snap[x])}
    BY <1>5 DEF SaveStore
  <2>2. CausallyClosed(stored'.status)
    BY <2>1 DEF Successor, CloseInv
  <2> QED
    BY <1>1, <1>2, <2>1, <2>2 DEF CloseInv, CausallyClosed, DoneSteps
<1>6. CASE SaveCommit(x)
  <2>1. snap' = snap /\ stored' = stored
    BY <1>6 DEF SaveCommit
  <2> QED
    BY <1>1, <1>2, <2>1, CloseFrame DEF CloseInv
<1> QED
  BY <1>3, <1>4, <1>5, <1>6 DEF SaverStep

LEMMA DriverOrder ==
    ASSUME OrderInv, NEW d \in Drivers, DriverStep(d)
    PROVE  CloseInv' /\ ListInv' /\ WorkerInv'
<1> USE DEF OrderInv, runVars, ctxVars, loopVars, batchVars, saveVars, storeVars
<1>a. /\ stepStatus \in [Steps -> StepStatuses]
      /\ \A y \in Savers : CausallyClosed(snap[y].status)
      /\ \A f \in Drivers : \A t \in inline[f] : DependsOn[t] \subseteq resolved
      /\ \A f \in Drivers : \A t \in todo[f] : DependsOn[t] \subseteq resolved
      /\ \A t \in ReadyIn(resolved) : DependsOn[t] \subseteq resolved
      /\ todo \in [Drivers -> SUBSET Steps]
      /\ inline \in [Drivers -> SUBSET Steps]
      /\ <<d, NoStep>> \in Savers
  BY SaverTypes DEF TypeOK, CloseInv, ListInv, ReadyIn
<1>1. CASE ResumeRun(d)
  <2>1. /\ dpc[d] = "resumeSave"
        /\ dpc' = [dpc EXCEPT ![d] = "loop"]
        /\ todo' = [todo EXCEPT ![d] = ReadyIn(resolved)]
        /\ snap' = [snap EXCEPT ![<<d, NoStep>>] = NoCheckpoint]
        /\ stepStatus' = stepStatus /\ resolved' = resolved /\ stored' = stored
        /\ inline' = inline /\ cur' = cur /\ wpc' = wpc
    BY <1>1 DEF ResumeRun, EnterLoop, SaveReturn
  <2>2. CloseInv'
    BY <1>a, <2>1, SnapCall, CloseFrame
  <2>3. ListInv'
    BY <1>a, <2>1, ListMove
  <2>4. WorkerInv'
    BY <2>1, WorkerMove
  <2> QED
    BY <2>2, <2>3, <2>4
<1>2. CASE ResumeFails(d)
  <2>1. /\ dpc[d] = "resumeSave"
        /\ dpc' = [dpc EXCEPT ![d] = "done"]
        /\ snap' = [snap EXCEPT ![<<d, NoStep>>] = NoCheckpoint]
        /\ stepStatus' = stepStatus /\ resolved' = resolved /\ stored' = stored
        /\ todo' = todo /\ inline' = inline /\ cur' = cur /\ wpc' = wpc
    BY <1>2 DEF ResumeFails, SaveReturn
  <2>2. CloseInv'
    BY <1>a, <2>1, SnapCall, CloseFrame
  <2>3. ListInv'
    BY <1>a, <2>1, ListMove
  <2>4. WorkerInv'
    BY <2>1, WorkerMove
  <2> QED
    BY <2>2, <2>3, <2>4
<1>3. CASE LoopCancelled(d)
  BY <1>3, FailWorkflowOrder DEF LoopCancelled, Owners, LoopPcs
<1>4. CASE LoopCompletes(d)
  <2>1. /\ dpc[d] = "loop"
        /\ dpc' = [dpc EXCEPT ![d] = "done"]
        /\ todo' = [todo EXCEPT ![d] = {}]
        /\ stepStatus' = stepStatus /\ resolved' = resolved /\ stored' = stored
        /\ inline' = inline /\ cur' = cur /\ wpc' = wpc /\ snap' = snap
    BY <1>4 DEF LoopCompletes
  <2>2. CloseInv'
    BY <1>a, <2>1, CloseFrame
  <2>3. ListInv'
    BY <1>a, <2>1, ListMove
  <2>4. WorkerInv'
    BY <2>1, WorkerMove
  <2> QED
    BY <2>2, <2>3, <2>4
<1>5. CASE LoopProcesses(d)
  <2>1. CASE FailWorkflow(d, "other")
    BY <2>1, FailWorkflowOrder
  <2>2. CASE ~FailWorkflow(d, "other")
    <3> DEFINE ready == IF todo[d] = {} THEN ReadyIn(resolved) ELSE todo[d]
    <3>1. /\ dpc[d] = "loop"
          /\ dpc' = [dpc EXCEPT ![d] = "process"]
          /\ todo' = [todo EXCEPT ![d] = ready]
          /\ stepStatus' = stepStatus /\ resolved' = resolved /\ stored' = stored
          /\ inline' = inline /\ cur' = cur /\ wpc' = wpc /\ snap' = snap
      BY <1>5, <2>2 DEF LoopProcesses
    <3>2. \A t \in ready : DependsOn[t] \subseteq resolved
      BY <1>a
    <3> HIDE DEF ready
    <3>3. CloseInv'
      BY <1>a, <3>1, CloseFrame
    <3>4. ListInv'
      BY <1>a, <3>1, <3>2, ListMove
    <3>5. WorkerInv'
      BY <3>1, WorkerMove
    <3> QED
      BY <3>3, <3>4, <3>5
  <2> QED
    BY <2>1, <2>2
<1>6. ASSUME NEW s \in Steps, BranchStart(d, s) PROVE CloseInv' /\ ListInv' /\ WorkerInv'
  <2>1. CASE FailWorkflow(d, "other")
    BY <2>1, FailWorkflowOrder
  <2>2. CASE ~FailWorkflow(d, "other")
    <3>1. /\ dpc[d] = "process"
          /\ s \in todo[d]
          /\ CanTransition(stepStatus[s], "running")
          /\ stepStatus' = [stepStatus EXCEPT ![s] = "running"]
          /\ dpc' = [dpc EXCEPT ![d] = "branch"]
          /\ cur' = [cur EXCEPT ![d] = s]
          /\ resolved' = resolved /\ stored' = stored
          /\ todo' = todo /\ inline' = inline /\ wpc' = wpc /\ snap' = snap
      BY <1>6, <2>2 DEF BranchStart
    <3>2. stepStatus[s] \notin Done /\ \A t \in DependsOn[s] : stepStatus[t] \in Done
      BY <1>a, <3>1, StartNotDone, HeldIsFounded
    <3>3. CloseInv'
      BY <1>a, <3>1, <3>2, CloseUpdate DEF StepStatuses
    <3>4. ListInv'
      <4>1. \A f \in Drivers : /\ dpc'[f] = IF f = d THEN "branch" ELSE dpc[f]
                               /\ cur'[f] = IF f = d THEN s ELSE cur[f]
        BY <3>1 DEF TypeOK
      <4> QED
        BY <3>1, <4>1 DEF ListInv
    <3>5. d \in Owners
      BY <3>1 DEF Owners, LoopPcs
    <3>6. WorkerInv'
      BY <3>1, <3>5, NoWorkers, WorkerMove
    <3> QED
      BY <3>3, <3>4, <3>6
  <2> QED
    BY <2>1, <2>2
<1>7. ASSUME NEW s \in Steps, PauseWorkflow(d, s) PROVE CloseInv' /\ ListInv' /\ WorkerInv'
  <2>1. CASE FailWorkflow(d, "other")
    BY <2>1, FailWorkflowOrder
  <2>2. CASE ~FailWorkflow(d, "other")
    <3>1. /\ dpc[d] = "process"
          /\ s \in todo[d]
          /\ CanTransition(stepStatus[s], "running")
          /\ stepStatus' = [stepStatus EXCEPT ![s] = "running"]
          /\ dpc' = [dpc EXCEPT ![d] = "pauseSave"]
          /\ todo' = [todo EXCEPT ![d] = {}]
          /\ inline' = [inline EXCEPT ![d] = {}]
          /\ snap' = [snap EXCEPT ![<<d, NoStep>>] = NoCheckpoint]
          /\ resolved' = resolved /\ stored' = stored
          /\ cur' = cur /\ wpc' = wpc
      BY <1>7, <2>2 DEF PauseWorkflow, SaveCall
    <3>2. stepStatus[s] \notin Done /\ \A t \in DependsOn[s] : stepStatus[t] \in Done
      BY <1>a, <3>1, StartNotDone, HeldIsFounded
    <3>3. CloseInv'
      BY <1>a, <3>1, <3>2, SnapCall, CloseUpdate DEF StepStatuses
    <3>4. ListInv'
      BY <1>a, <3>1, ListMove
    <3>5. d \in Owners
      BY <3>1 DEF Owners, LoopPcs
    <3>6. WorkerInv'
      BY <3>1, <3>5, NoWorkers, WorkerMove
    <3> QED
      BY <3>3, <3>4, <3>6
  <2> QED
    BY <2>1, <2>2
<1>8. ASSUME NEW st \in Done, BranchDecides(d, st) PROVE CloseInv' /\ ListInv' /\ WorkerInv'
  <2>1. /\ dpc[d] = "branch"
        /\ stepStatus' = [stepStatus EXCEPT ![cur[d]] = st]
        /\ resolved' = resolved \cup {cur[d]}
        /\ inline' = [inline EXCEPT ![d] = inline[d] \cup NewlyReady(cur[d], resolved)]
        /\ todo' = [todo EXCEPT ![d] = todo[d] \ {cur[d]}]
        /\ cur' = [cur EXCEPT ![d] = NoStep]
        /\ dpc' = [dpc EXCEPT ![d] = "branchSave"]
        /\ snap' = [snap EXCEPT ![<<d, NoStep>>] = NoCheckpoint]
        /\ stored' = stored /\ wpc' = wpc
    BY <1>8 DEF BranchDecides, SaveCall
  <2>2. /\ cur[d] \in Steps
        /\ DependsOn[cur[d]] \subseteq resolved
        /\ st \in StepStatuses
    BY <1>a, <2>1 DEF ListInv, Done, StepStatuses
  <2>3. CloseInv'
    BY <1>a, <2>1, <2>2, SnapCall, CloseUpdate, HeldIsFounded
  <2>4. ListInv'
    <3>1. \A t \in NewlyReady(cur[d], resolved) : DependsOn[t] \subseteq resolved'
      BY <2>1 DEF NewlyReady
    <3>2. /\ \A f \in Drivers \ {d} :
                todo'[f] = todo[f] /\ inline'[f] = inline[f] /\ cur'[f] = cur[f]
          /\ todo'[d] \subseteq todo[d]
          /\ inline'[d] = inline[d] \cup NewlyReady(cur[d], resolved)
      BY <2>1 DEF TypeOK
    <3>3. /\ \A t \in todo'[d] : DependsOn[t] \subseteq resolved'
          /\ \A t \in inline'[d] : DependsOn[t] \subseteq resolved'
          /\ resolved \subseteq resolved'
      BY <1>a, <2>1, <3>1, <3>2
    <3> QED
      BY <2>1, <3>2, <3>3, ListMove
  <2>5. d \in Owners
    BY <2>1 DEF Owners, LoopPcs
  <2>6. WorkerInv'
    BY <2>1, <2>5, NoWorkers, WorkerMove
  <2> QED
    BY <2>3, <2>4, <2>6
<1>9. CASE BranchErrs(d)
  BY <1>9, FailWorkflowOrder DEF BranchErrs
<1>10. CASE BranchSaveFails(d)
  BY <1>10, FailWorkflowOrder DEF BranchSaveFails
<1>11. CASE PauseSaveFails(d)
  BY <1>11, FailWorkflowOrder DEF PauseSaveFails
<1>12. CASE BranchSaved(d) \/ PauseSaved(d) \/ FailSaved(d)
  <2>1. PICK v \in {"process", "done"} : dpc' = [dpc EXCEPT ![d] = v]
    BY <1>12 DEF BranchSaved, PauseSaved, FailSaved
  <2>2. /\ dpc[d] # "batch"
        /\ snap' = [snap EXCEPT ![<<d, NoStep>>] = NoCheckpoint]
        /\ stepStatus' = stepStatus /\ resolved' = resolved /\ stored' = stored
        /\ todo' = todo /\ inline' = inline /\ cur' = cur /\ wpc' = wpc
    BY <1>12 DEF BranchSaved, PauseSaved, FailSaved, SaveReturn
  <2>3. CloseInv'
    BY <1>a, <2>2, SnapCall, CloseFrame
  <2>4. ListInv'
    BY <1>a, <2>1, <2>2, ListMove
  <2>5. WorkerInv'
    BY <2>1, <2>2, WorkerMove
  <2> QED
    BY <2>3, <2>4, <2>5
<1>13. CASE ProcessDone(d)
  <2>1. /\ dpc[d] = "process"
        /\ stepStatus' = stepStatus /\ resolved' = resolved /\ stored' = stored
        /\ cur' = cur /\ snap' = snap
    BY <1>13 DEF ProcessDone
  <2>2. CloseInv'
    BY <1>a, <2>1, CloseFrame
  <2>3. CASE todo[d] = {}
    <3>1. /\ dpc' = [dpc EXCEPT ![d] = "loop"]
          /\ todo' = [todo EXCEPT ![d] = inline[d]]
          /\ inline' = [inline EXCEPT ![d] = {}]
          /\ wpc' = wpc
      BY <1>13, <2>3 DEF ProcessDone
    <3>2. ListInv'
      BY <1>a, <2>1, <3>1, ListMove
    <3>3. WorkerInv'
      BY <2>1, <3>1, WorkerMove
    <3> QED
      BY <2>2, <3>2, <3>3
  <2>4. CASE todo[d] # {}
    <3>1. /\ dpc' = [dpc EXCEPT ![d] = "batch"]
          /\ wpc' = [wpc EXCEPT ![d] =
                  [s \in Steps |-> IF s \in todo[d] THEN "queued" ELSE "idle"]]
          /\ todo' = [todo EXCEPT ![d] = {}]
          /\ inline' = inline
      BY <1>13, <2>4 DEF ProcessDone
    <3>2. ListInv'
      BY <1>a, <2>1, <3>1, ListMove
    <3>3. \A f \in Drivers : dpc'[f] = IF f = d THEN "batch" ELSE dpc[f]
      BY <3>1 DEF TypeOK
    <3>4. \A f \in Drivers, s \in Steps :
              wpc'[f][s] = IF f = d THEN (IF s \in todo[d] THEN "queued" ELSE "idle")
                           ELSE wpc[f][s]
      BY <3>1 DEF TypeOK
    <3>5. WorkerInv'
      BY <1>a, <2>1, <3>3, <3>4 DEF WorkerInv
    <3> QED
      BY <2>2, <3>2, <3>5
  <2> QED
    BY <2>3, <2>4
<1>14. CASE BatchDone(d)
  <2>1. dpc[d] = "batch" /\ d \in Owners
    BY <1>14 DEF BatchDone, Owners, LoopPcs
  <2>2. CASE FailWorkflow(d, batchErr[d])
    BY <2>1, <2>2, FailWorkflowOrder
  <2>3. CASE ~FailWorkflow(d, batchErr[d])
    <3>1. /\ dpc' = [dpc EXCEPT ![d] = "loop"]
          /\ todo' = [todo EXCEPT ![d] = inline[d]]
          /\ inline' = [inline EXCEPT ![d] = {}]
          /\ wpc' = [wpc EXCEPT ![d] = [s \in Steps |-> "idle"]]
          /\ stepStatus' = stepStatus /\ resolved' = resolved /\ stored' = stored
          /\ cur' = cur /\ snap' = snap
      BY <1>14, <2>3 DEF BatchDone
    <3>2. CloseInv'
      BY <1>a, <3>1, CloseFrame
    <3>3. ListInv'
      BY <1>a, <3>1, ListMove
    <3>4. \A f \in Drivers : dpc'[f] = IF f = d THEN "loop" ELSE dpc[f]
      BY <3>1 DEF TypeOK
    <3>5. \A f \in Drivers, s \in Steps : wpc'[f][s] = IF f = d THEN "idle" ELSE wpc[f][s]
      BY <3>1 DEF TypeOK
    <3>6. WorkerInv'
      BY <3>1, <3>4, <3>5 DEF WorkerInv
    <3> QED
      BY <3>2, <3>3, <3>6
  <2> QED
    BY <2>2, <2>3
<1> QED
  BY <1>1, <1>2, <1>3, <1>4, <1>5, <1>6, <1>7, <1>8, <1>9, <1>10, <1>11, <1>12, <1>13, <1>14
     DEF DriverStep

LEMMA EnvironmentOrder ==
    ASSUME OrderInv, Run \/ Environment
    PROVE  CloseInv' /\ ListInv' /\ WorkerInv'
<1> USE DEF OrderInv, runVars, ctxVars, loopVars, batchVars, saveVars, storeVars
<1>a. /\ stepStatus \in [Steps -> StepStatuses]
      /\ \A y \in Savers : CausallyClosed(snap[y].status)
      /\ \A f \in Drivers : \A t \in inline[f] : DependsOn[t] \subseteq resolved
      /\ \A f \in Drivers : \A t \in todo[f] : DependsOn[t] \subseteq resolved
      /\ \A t \in ReadyIn(resolved) : DependsOn[t] \subseteq resolved
      /\ todo \in [Drivers -> SUBSET Steps]
  BY DEF TypeOK, CloseInv, ListInv, ReadyIn
<1>1. CASE Run
  <2>1. /\ dpc["run"] = "idle"
        /\ dpc' = [dpc EXCEPT !["run"] = "loop"]
        /\ todo' = [todo EXCEPT !["run"] = ReadyIn(resolved)]
        /\ stepStatus' = stepStatus /\ resolved' = resolved /\ stored' = stored
        /\ inline' = inline /\ cur' = cur /\ wpc' = wpc /\ snap' = snap
    BY <1>1 DEF Run, EnterLoop
  <2>2. CloseInv'
    BY <1>a, <2>1, CloseFrame
  <2>3. ListInv'
    BY <1>a, <2>1, ListMove, SaverTypes
  <2>4. WorkerInv'
    BY <2>1, WorkerMove, SaverTypes
  <2> QED
    BY <2>2, <2>3, <2>4
<1>2. ASSUME NEW d \in Resumers, CompleteHumanStep(d) PROVE CloseInv' /\ ListInv' /\ WorkerInv'
  <2> DEFINE p == pausedStepID
  <2>1. /\ dpc[d] = "idle"
        /\ p # NoStep
        /\ CanTransition(stepStatus[p], "success")
        /\ stepStatus' = [stepStatus EXCEPT ![p] = "success"]
        /\ resolved' = resolved \cup {p}
        /\ dpc' = [dpc EXCEPT ![d] = "resumeSave"]
        /\ snap' = [snap EXCEPT ![<<d, NoStep>>] = NoCheckpoint]
        /\ todo' = todo /\ inline' = inline /\ cur' = cur /\ wpc' = wpc /\ stored' = stored
    BY <1>2 DEF CompleteHumanStep, SaveCall
  <2>2. d \in Drivers /\ <<d, NoStep>> \in Savers /\ p \in Steps
    BY <2>1, SaverTypes DEF TypeOK
  <2>3. stepStatus[p] # "pending"
    BY <2>1 DEF CanTransition, ValidTransitions
  <2>4. \A t \in DependsOn[p] : stepStatus[t] \in Done
    BY <2>2, <2>3 DEF CloseInv, CausallyClosed
  <2>5. Owners = {}
    BY <2>1 DEF OwnerInv
  <2> HIDE DEF p
  <2>6. CloseInv'
    BY <2>1, <2>2, <2>4, SnapCall, CloseUpdate DEF StepStatuses, Done
  <2>7. ListInv'
    BY <1>a, <2>1, <2>2, ListMove
  <2>8. WorkerInv'
    BY <2>1, <2>2, <2>5, NoWorkers, WorkerMove
  <2> QED
    BY <2>6, <2>7, <2>8
<1>3. CASE \/ \E d \in Resumers : ClientDisconnects(d)
           \/ \E c \in Cancellers : CancelReads(c) \/ CancelFires(c)
  <2>1. /\ stepStatus' = stepStatus /\ resolved' = resolved /\ stored' = stored
        /\ dpc' = dpc /\ todo' = todo /\ inline' = inline /\ cur' = cur
        /\ wpc' = wpc /\ snap' = snap
    BY <1>3 DEF ClientDisconnects, CancelReads, CancelFires
  <2> QED
    BY <1>a, <2>1, CloseFrame, ListFrame, WorkerFrame
<1>4. CASE CheckpointExpires
  <2>1. /\ stepStatus' = stepStatus /\ resolved' = resolved /\ stored' = NoCheckpoint
        /\ dpc' = dpc /\ todo' = todo /\ inline' = inline /\ cur' = cur
        /\ wpc' = wpc /\ snap' = snap
    BY <1>4 DEF CheckpointExpires
  <2>2. CloseInv'
    BY <2>1, ClosedNoCheckpoint DEF CloseInv, CausallyClosed, DoneSteps
  <2> QED
    BY <1>a, <2>1, <2>2, ListFrame, WorkerFrame
<1>5. CASE CrashAndRestore
  <2>1. /\ stepStatus' = [s \in Steps |->
               IF stored.status[s] = "running" THEN "pending" ELSE stored.status[s]]
        /\ resolved' = {s \in Steps : stored.status[s] \in Done}
        /\ snap' = [x \in Savers |-> NoCheckpoint]
        /\ stored' = stored
    BY <1>5 DEF CrashAndRestore, Replayed
  <2>2. \A s \in Steps : stored.status[s] \in Done <=> stepStatus'[s] \in Done
    BY <2>1 DEF Done
  <2>3. CausallyClosed(stepStatus')
    BY <2>1, <2>2, DependsOnType DEF CloseInv, CausallyClosed
  <2>4. \A y \in Savers : CausallyClosed(snap'[y].status)
    BY <2>1, ClosedNoCheckpoint
  <2>5. resolved' \subseteq DoneSteps'
    BY <2>1, <2>2 DEF DoneSteps
  <2>6. CloseInv'
    BY <2>1, <2>3, <2>4, <2>5 DEF CloseInv, CausallyClosed
  <2>7. \A d \in Drivers :
            /\ todo'[d] = {} /\ inline'[d] = {} /\ dpc'[d] \in {"idle", "done"}
            /\ \A s \in Steps : wpc'[d][s] = "idle"
    BY <1>5 DEF CrashAndRestore
  <2> QED
    BY <2>6, <2>7 DEF ListInv, WorkerInv
<1> QED
  BY <1>1, <1>2, <1>3, <1>4, <1>5 DEF Environment

LEMMA NextOrder == OrderInv /\ [Next]_vars => OrderInv'
<1> SUFFICES ASSUME OrderInv, [Next]_vars PROVE OrderInv'
  OBVIOUS
<1>1. TypeOK' /\ OwnerInv'
  BY NextType, NextOwner DEF OrderInv
<1>2. CASE Run \/ Environment
  BY <1>1, <1>2, EnvironmentOrder DEF OrderInv
<1>3. ASSUME NEW d \in Drivers, DriverStep(d) PROVE OrderInv'
  BY <1>1, <1>3, DriverOrder DEF OrderInv
<1>4. ASSUME NEW d \in Drivers, NEW s \in Steps, WorkerStep(d, s) PROVE OrderInv'
  BY <1>1, <1>4, WorkerOrder DEF OrderInv
<1>5. ASSUME NEW x \in Savers, SaverStep(x) PROVE OrderInv'
  BY <1>1, <1>5, SaverOrder DEF OrderInv
<1>6. CASE UNCHANGED vars
  <2>1. CloseInv' /\ ListInv' /\ WorkerInv'
    BY <1>6, CloseFrame, ListFrame, WorkerFrame
       DEF OrderInv, CloseInv, ListInv, vars, runVars, loopVars, batchVars, saveVars, storeVars
  <2> QED
    BY <1>1, <2>1 DEF OrderInv
<1> QED
  BY <1>2, <1>3, <1>4, <1>5, <1>6 DEF Next

-----------------------------------------------------------------------------
\* In every run of every workflow no step leaves "pending" before its
\* dependencies have succeeded or been skipped: executeBatch, the branch and
\* human steps, Resume and RestoreScheduler all keep the order of depends_on.
THEOREM OrderKept == Spec => []DependenciesFirst
<1>1. Init => OrderInv
  BY InitOrder
<1>2. OrderInv /\ [Next]_vars => OrderInv'
  BY NextOrder
<1>3. OrderInv => DependenciesFirst
  BY DEF OrderInv, CloseInv, DependenciesFirst
<1> QED
  BY <1>1, <1>2, <1>3, PTL DEF Spec

\* Whatever saveCheckpoint calls race, fail or conflict, the checkpoint in
\* the store keeps that order too, so RestoreScheduler never starts a step
\* whose dependencies the checkpoint has lost.
THEOREM CheckpointsOrdered == Spec => []StoredCausallyClosed
<1>1. Init => OrderInv
  BY InitOrder
<1>2. OrderInv /\ [Next]_vars => OrderInv'
  BY NextOrder
<1>3. OrderInv => StoredCausallyClosed
  BY DEF OrderInv, CloseInv, StoredCausallyClosed
<1> QED
  BY <1>1, <1>2, <1>3, PTL DEF Spec

-----------------------------------------------------------------------------
(***************************************************************************)
(* What a run does to its steps, from the single owner and the order       *)
(* established above.                                                      *)
(***************************************************************************)
\* While one driver is in the loop, no other driver is.
LEMMA OwnerAlone ==
    ASSUME OwnerInv, NEW d \in Drivers, dpc[d] \in LoopPcs
    PROVE  \A e \in Drivers : e # d => dpc[e] \notin LoopPcs
  BY DEF OwnerInv, SingleOwner, Owners

\* The worker of a step belongs to the owner of the run, which is in a batch.
LEMMA WorkerAlone ==
    ASSUME OwnerInv, WorkerInv, NEW d \in Drivers, NEW s \in Steps, wpc[d][s] # "idle"
    PROVE  /\ dpc[d] = "batch" /\ d \in Owners
           /\ \A e \in Drivers : e # d => dpc[e] \notin LoopPcs
           /\ \A e \in Drivers : dpc[e] # "branch"
<1>1. dpc[d] = "batch" /\ dpc[d] \in LoopPcs
  BY DEF WorkerInv, LoopPcs
<1> QED
  BY <1>1, OwnerAlone DEF Owners, LoopPcs

\* What failWorkflow leaves behind, driver by driver.
LEMMA FailWorkflowEffect ==
    ASSUME TypeOK, NEW d \in Drivers, NEW e, FailWorkflow(d, e)
    PROVE  /\ wfStatus' = "failed"
           /\ dpc' = [dpc EXCEPT ![d] = "failSave"]
           /\ \A f \in Drivers : /\ dpc'[f] = IF f = d THEN "failSave" ELSE dpc[f]
                                 /\ todo'[f] = IF f = d THEN {} ELSE todo[f]
                                 /\ inline'[f] = IF f = d THEN {} ELSE inline[f]
                                 /\ cur'[f] = IF f = d THEN NoStep ELSE cur[f]
                                 /\ batchErr'[f] = IF f = d THEN "none" ELSE batchErr[f]
           /\ \A f \in Drivers, s \in Steps : wpc'[f][s] = IF f = d THEN "idle" ELSE wpc[f][s]
           /\ stepStatus' = IF e = "canceled" THEN MarkRunningStepsCancelled(stepStatus)
                            ELSE stepStatus
           /\ outputs' = outputs /\ resolved' = resolved /\ pausedStepID' = pausedStepID
           /\ stored' = stored /\ crashes' = crashes
  BY DEF TypeOK, FailWorkflow, storeVars

-----------------------------------------------------------------------------
(***************************************************************************)
(* Steps move forward.  That the condition of a branch step is evaluated   *)
(* while the step runs takes the single owner; the rest is in OrderInv.    *)
(***************************************************************************)
BranchInv ==
    \A d \in Drivers : dpc[d] = "branch" =>
        cur[d] \in Steps /\ stepStatus[cur[d]] = "running" /\ Kind[cur[d]] = "branch"

LEMMA BranchMove ==
    ASSUME TypeOK, OwnerInv, BranchInv, NEW d \in Drivers, NEW v, v # "branch",
           dpc' = [dpc EXCEPT ![d] = v],
           \/ dpc[d] \in LoopPcs
           \/ stepStatus' = stepStatus /\ \A e \in Drivers : e # d => cur'[e] = cur[e]
           \/ Owners = {}
    PROVE  BranchInv'
<1>1. \A e \in Drivers : dpc'[e] = IF e = d THEN v ELSE dpc[e]
  BY DEF TypeOK
<1>2. CASE dpc[d] \in LoopPcs
  <2>1. \A e \in Drivers : dpc'[e] # "branch"
    BY <1>1, <1>2, OwnerAlone DEF LoopPcs
  <2> QED
    BY <2>1 DEF BranchInv
<1>3. CASE stepStatus' = stepStatus /\ \A e \in Drivers : e # d => cur'[e] = cur[e]
  BY <1>1, <1>3 DEF BranchInv
<1>4. CASE Owners = {}
  <2>1. \A e \in Drivers : dpc'[e] # "branch"
    BY <1>1, <1>4 DEF Owners, LoopPcs
  <2> QED
    BY <2>1 DEF BranchInv
<1> QED
  BY <1>2, <1>3, <1>4

LEMMA BranchFrame ==
    ASSUME BranchInv, dpc' = dpc,
           (stepStatus' = stepStatus /\ cur' = cur) \/ \A d \in Drivers : dpc[d] # "branch"
    PROVE  BranchInv'
  BY DEF BranchInv

LEMMA FailWorkflowBranch ==
    ASSUME TypeOK, OwnerInv, BranchInv, NEW d \in Drivers, NEW e, FailWorkflow(d, e),
           e # "canceled" \/ dpc[d] \in LoopPcs
    PROVE  BranchInv'
  BY FailWorkflowEffect, BranchMove

LEMMA NextBranch == OrderInv /\ BranchInv /\ [Next]_vars => BranchInv'
<1> SUFFICES ASSUME OrderInv, BranchInv, [Next]_vars PROVE BranchInv'
  OBVIOUS
<1> USE DEF OrderInv, runVars, ctxVars, loopVars, batchVars, saveVars, storeVars
<1>1. CASE Run
  BY <1>1, BranchMove, SaverTypes DEF Run, EnterLoop
<1>2. ASSUME NEW d \in Drivers, DriverStep(d) PROVE BranchInv'
  <2>1. CASE \E e : FailWorkflow(d, e) /\ (e # "canceled" \/ dpc[d] \in LoopPcs)
    BY <2>1, FailWorkflowBranch
  <2>2. CASE ResumeRun(d) \/ ResumeFails(d) \/ LoopCompletes(d) \/ BranchSaved(d)
             \/ PauseSaved(d) \/ FailSaved(d)
    <3>1. PICK v \in {"loop", "done", "process"} : dpc' = [dpc EXCEPT ![d] = v]
      BY <2>2 DEF ResumeRun, EnterLoop, ResumeFails, LoopCompletes, BranchSaved, PauseSaved,
                  FailSaved
    <3>2. stepStatus' = stepStatus /\ cur' = cur
      BY <2>2 DEF ResumeRun, ResumeFails, LoopCompletes, BranchSaved, PauseSaved, FailSaved
    <3> QED
      BY <3>1, <3>2, BranchMove
  <2>3. CASE LoopCancelled(d)
    BY <2>3, FailWorkflowBranch DEF LoopCancelled, LoopPcs
  <2>4. CASE LoopProcesses(d) \/ ProcessDone(d) \/ BatchDone(d)
    <3>1. dpc[d] \in LoopPcs
      BY <2>4 DEF LoopProcesses, ProcessDone, BatchDone, LoopPcs
    <3>2. \/ \E e : FailWorkflow(d, e)
          \/ \E v \in {"process", "loop", "batch"} : dpc' = [dpc EXCEPT ![d] = v]
      BY <2>4 DEF LoopProcesses, ProcessDone, BatchDone
    <3> QED
      BY <3>1, <3>2, FailWorkflowBranch, BranchMove
  <2>5. ASSUME NEW s \in Steps, BranchStart(d, s), ~FailWorkflow(d, "other") PROVE BranchInv'
    <3>1. /\ dpc[d] = "process" /\ Kind[s] = "branch"
          /\ stepStatus' = [stepStatus EXCEPT ![s] = "running"]
          /\ dpc' = [dpc EXCEPT ![d] = "branch"]
          /\ cur' = [cur EXCEPT ![d] = s]
      BY <2>5 DEF BranchStart
    <3>2. /\ \A e \in Drivers : e # d => dpc'[e] # "branch"
          /\ cur'[d] = s /\ stepStatus'[s] = "running"
      BY <3>1, OwnerAlone DEF TypeOK, LoopPcs
    <3> QED
      BY <3>1, <3>2 DEF BranchInv
  <2>6. ASSUME NEW s \in Steps, PauseWorkflow(d, s), ~FailWorkflow(d, "other") PROVE BranchInv'
    <3>1. dpc[d] = "process" /\ dpc' = [dpc EXCEPT ![d] = "pauseSave"]
      BY <2>6 DEF PauseWorkflow
    <3> QED
      BY <3>1, BranchMove DEF LoopPcs
  <2>7. ASSUME NEW st \in Done, BranchDecides(d, st) PROVE BranchInv'
    BY <2>7, BranchMove DEF BranchDecides, LoopPcs
  <2> QED
    BY <1>2, <2>1, <2>2, <2>3, <2>4, <2>5, <2>6, <2>7
       DEF DriverStep, BranchErrs, BranchSaveFails, PauseSaveFails, BranchStart, PauseWorkflow
<1>3. ASSUME NEW d \in Drivers, NEW s \in Steps, WorkerStep(d, s) PROVE BranchInv'
  <2>1. wpc[d][s] # "idle" /\ dpc' = dpc
    BY <1>3 DEF WorkerStep, WorkerStart, ExecSucceeds, ExecFails, WorkerSaved, WorkerSaveFails
  <2> QED
    BY <2>1, WorkerAlone, BranchFrame
<1>4. ASSUME NEW x \in Savers, SaverStep(x) PROVE BranchInv'
  BY <1>4, BranchFrame DEF SaverStep, SaveClone, SaveVersion, SaveStore, SaveCommit
<1>5. CASE Environment
  <2>1. ASSUME NEW d \in Resumers, CompleteHumanStep(d) PROVE BranchInv'
    <3>1. Owners = {} /\ dpc' = [dpc EXCEPT ![d] = "resumeSave"]
      BY <2>1 DEF CompleteHumanStep, OwnerInv
    <3> QED
      BY <3>1, BranchMove, SaverTypes
  <2>2. CASE \/ \E d \in Resumers : ClientDisconnects(d)
             \/ \E c \in Cancellers : CancelReads(c) \/ CancelFires(c)
             \/ CheckpointExpires
    BY <2>2, BranchFrame DEF ClientDisconnects, CancelReads, CancelFires, CheckpointExpires
  <2>3. CASE CrashAndRestore
    <3>1. \A e \in Drivers : dpc'[e] # "branch"
      BY <2>3 DEF CrashAndRestore
    <3> QED
      BY <3>1 DEF BranchInv
  <2> QED
    BY <1>5, <2>1, <2>2, <2>3 DEF Environment
<1>6. CASE UNCHANGED vars
  BY <1>6, BranchFrame DEF vars
<1> QED
  BY <1>1, <1>2, <1>3, <1>4, <1>5, <1>6 DEF Next

\* What one step of the scheduler may do to the steps of the workflow.
Forward ==
    \A s \in Steps : stepStatus'[s] # stepStatus[s]
        => \/ CanTransition(stepStatus[s], stepStatus'[s])
           \/ Kind[s] = "branch" /\ stepStatus[s] = "running" /\ stepStatus'[s] = "skipped"
           \/ crashes' # crashes

\* One step of the workflow moves, and is allowed to.
LEMMA ForwardUpdate ==
    ASSUME TypeOK, NEW s \in Steps, NEW u, stepStatus' = [stepStatus EXCEPT ![s] = u],
           \/ CanTransition(stepStatus[s], u)
           \/ Kind[s] = "branch" /\ stepStatus[s] = "running" /\ u = "skipped"
    PROVE  Forward
<1>1. \A t \in Steps : stepStatus'[t] = IF t = s THEN u ELSE stepStatus[t]
  BY DEF TypeOK
<1> QED
  BY <1>1 DEF Forward

LEMMA ForwardFrame ==
    ASSUME stepStatus' = stepStatus
    PROVE  Forward
  BY DEF Forward

LEMMA FailWorkflowForward ==
    ASSUME TypeOK, NEW d \in Drivers, NEW e, FailWorkflow(d, e)
    PROVE  Forward
<1>1. \/ stepStatus' = stepStatus
      \/ stepStatus' = MarkRunningStepsCancelled(stepStatus)
  BY FailWorkflowEffect
<1>2. \A s \in Steps : stepStatus'[s] # stepStatus[s]
          => stepStatus[s] = "running" /\ stepStatus'[s] = "cancelled"
  BY <1>1 DEF TypeOK, MarkRunningStepsCancelled
<1> QED
  BY <1>2 DEF Forward, CanTransition, ValidTransitions

LEMMA StepsForward == OrderInv /\ BranchInv /\ [Next]_vars => Forward
<1> SUFFICES ASSUME OrderInv, BranchInv, [Next]_vars PROVE Forward
  OBVIOUS
<1> USE DEF OrderInv, runVars, ctxVars, loopVars, batchVars, saveVars, storeVars
<1>1. CASE Run
  BY <1>1, ForwardFrame DEF Run
<1>2. ASSUME NEW d \in Drivers, DriverStep(d) PROVE Forward
  <2>1. CASE \E e : FailWorkflow(d, e)
    BY <2>1, FailWorkflowForward
  <2>2. ASSUME NEW s \in Steps, BranchStart(d, s) \/ PauseWorkflow(d, s),
               ~FailWorkflow(d, "other")
        PROVE  Forward
    BY <2>2, ForwardUpdate DEF BranchStart, PauseWorkflow
  <2>3. ASSUME NEW st \in Done, BranchDecides(d, st) PROVE Forward
    <3>1. dpc[d] = "branch" /\ stepStatus' = [stepStatus EXCEPT ![cur[d]] = st]
      BY <2>3 DEF BranchDecides
    <3>2. cur[d] \in Steps /\ stepStatus[cur[d]] = "running" /\ Kind[cur[d]] = "branch"
      BY <3>1 DEF BranchInv
    <3>3. st = "skipped" \/ CanTransition("running", st)
      BY DEF Done, CanTransition, ValidTransitions
    <3> QED
      BY <3>1, <3>2, <3>3, ForwardUpdate
  <2>4. CASE /\ ~\E e : FailWorkflow(d, e)
             /\ \/ ResumeRun(d) \/ ResumeFails(d) \/ LoopCompletes(d) \/ LoopProcesses(d)
                \/ BranchSaved(d) \/ PauseSaved(d) \/ ProcessDone(d) \/ BatchDone(d)
                \/ FailSaved(d)
    <3>1. stepStatus' = stepStatus
      BY <2>4
         DEF ResumeRun, ResumeFails, LoopCompletes, LoopProcesses, BranchSaved, PauseSaved,
             ProcessDone, BatchDone, FailSaved
    <3> QED
      BY <3>1, ForwardFrame
  <2> QED
    BY <1>2, <2>1, <2>2, <2>3, <2>4
       DEF DriverStep, LoopCancelled, BranchErrs, BranchSaveFails, PauseSaveFails
<1>3. ASSUME NEW d \in Drivers, NEW s \in Steps, WorkerStep(d, s) PROVE Forward
  <2>1. CASE WorkerStart(d, s) \/ WorkerSaved(d, s) \/ WorkerSaveFails(d, s)
    BY <2>1, ForwardUpdate, ForwardFrame DEF WorkerStart, WorkerSaved, WorkerSaveFails
  <2>2. CASE \/ ExecSucceeds(d, s)
             \/ \E st \in {"failed", "timeout", "cancelled"}, e \in ErrorKinds :
                    ExecFails(d, s, st, e)
    <3>1. PICK st \in {"success", "failed", "timeout", "cancelled"} :
              stepStatus' = [stepStatus EXCEPT ![s] = st]
      BY <2>2 DEF ExecSucceeds, ExecFails
    <3>2. stepStatus[s] = "running"
      BY <2>2 DEF ExecSucceeds, ExecFails, WorkerInv
    <3>3. CanTransition("running", st)
      BY DEF CanTransition, ValidTransitions
    <3> QED
      BY <3>1, <3>2, <3>3, ForwardUpdate
  <2> QED
    BY <1>3, <2>1, <2>2 DEF WorkerStep
<1>4. ASSUME NEW x \in Savers, SaverStep(x) PROVE Forward
  BY <1>4, ForwardFrame DEF SaverStep, SaveClone, SaveVersion, SaveStore, SaveCommit
<1>5. CASE Environment
  <2>1. ASSUME NEW d \in Resumers, CompleteHumanStep(d) PROVE Forward
    <3>1. pausedStepID \in Steps
      BY <2>1 DEF CompleteHumanStep, TypeOK
    <3> QED
      BY <2>1, <3>1, ForwardUpdate DEF CompleteHumanStep
  <2>2. CASE \/ \E d \in Resumers : ClientDisconnects(d)
             \/ \E c \in Cancellers : CancelReads(c) \/ CancelFires(c)
             \/ CheckpointExpires
    BY <2>2, ForwardFrame DEF ClientDisconnects, CancelReads, CancelFires, CheckpointExpires
  <2>3. CASE CrashAndRestore
    <3>1. crashes' # crashes
      BY <2>3 DEF CrashAndRestore, TypeOK
    <3> QED
      BY <3>1 DEF Forward
  <2> QED
    BY <1>5, <2>1, <2>2, <2>3 DEF Environment
<1>6. CASE UNCHANGED vars
  BY <1>6, ForwardFrame DEF vars
<1> QED
  BY <1>1, <1>2, <1>3, <1>4, <1>5, <1>6 DEF Next

\* The scheduler moves a step only as ValidTransitions says, or a branch from
\* running to skipped: no finished step is ever overwritten, although
\* finishStepSuccess, finishStepFailure and markRunningStepsCancelled write
\* the status without asking CanTransition.
THEOREM StepsMoveForward == Spec => MovesForward
<1>1. Init => OrderInv /\ BranchInv
  BY InitOrder DEF Init, BranchInv
<1>2. OrderInv /\ BranchInv /\ [Next]_vars => OrderInv' /\ BranchInv'
  BY NextOrder, NextBranch
<1>3. OrderInv /\ BranchInv /\ [Next]_vars => Forward
  BY StepsForward
<1> QED
  BY <1>1, <1>2, <1>3, PTL DEF Spec, MovesForward, Forward

-----------------------------------------------------------------------------
(***************************************************************************)
(* The end of a run.  Once the last owner has left the loop without        *)
(* leaving a step to resume, nobody enters it again: what the run has      *)
(* reached stays, except that a late failWorkflow may still mark it failed *)
(* and that a crash starts it over.                                        *)
(***************************************************************************)
Stopped == Owners = {} /\ pausedStepID = NoStep /\ dpc["run"] # "idle"

LEMMA StoppedMove ==
    ASSUME TypeOK, Stopped, NEW d \in Drivers, NEW v, v # "idle", v \notin LoopPcs,
           dpc' = [dpc EXCEPT ![d] = v], pausedStepID' = pausedStepID
    PROVE  Stopped'
<1>1. \A e \in Drivers : dpc'[e] = IF e = d THEN v ELSE dpc[e]
  BY DEF TypeOK
<1> QED
  BY <1>1, SaverTypes DEF Stopped, Owners

LEMMA StoppedStays ==
    ASSUME OrderInv, Stopped, [Next]_vars
    PROVE  \/ CrashAndRestore
           \/ /\ Stopped' /\ stepStatus' = stepStatus /\ wfStatus' \in {wfStatus, "failed"}
              /\ wfStatus' = wfStatus \/ \E d \in Drivers : PauseSaveFails(d)
<1> USE DEF OrderInv, runVars, ctxVars, loopVars, batchVars, saveVars, storeVars
<1> DEFINE Kept ==
       /\ Stopped' /\ stepStatus' = stepStatus /\ wfStatus' \in {wfStatus, "failed"}
       /\ wfStatus' = wfStatus \/ \E d \in Drivers : PauseSaveFails(d)
<1>a. /\ \A d \in Drivers : dpc[d] \notin LoopPcs
      /\ \A d \in Drivers, s \in Steps : wpc[d][s] = "idle"
  BY NoWorkers DEF Stopped, Owners
<1>b. ASSUME dpc' = dpc, pausedStepID' = pausedStepID PROVE Stopped'
  BY <1>b DEF Stopped, Owners
<1>1. ~Run
  BY DEF Run, Stopped
<1>2. ASSUME NEW d \in Drivers, DriverStep(d) PROVE Kept
  <2>1. PauseSaved(d) \/ PauseSaveFails(d) \/ FailSaved(d)
    BY <1>2, <1>a
       DEF DriverStep, ResumeRun, ResumeFails, LoopCancelled, LoopCompletes, LoopProcesses,
           BranchStart, PauseWorkflow, BranchDecides, BranchErrs, BranchSaved, BranchSaveFails,
           ProcessDone, BatchDone, LoopPcs
  <2>2. CASE PauseSaved(d) \/ FailSaved(d)
    BY <2>2, StoppedMove DEF PauseSaved, FailSaved, LoopPcs
  <2>3. CASE PauseSaveFails(d)
    <3>1. FailWorkflow(d, "other")
      BY <2>3 DEF PauseSaveFails
    <3> QED
      BY <2>3, <3>1, FailWorkflowEffect, StoppedMove DEF LoopPcs
  <2> QED
    BY <2>1, <2>2, <2>3
<1>3. ASSUME NEW d \in Drivers, NEW s \in Steps PROVE ~WorkerStep(d, s)
  BY <1>a DEF WorkerStep, WorkerStart, ExecSucceeds, ExecFails, WorkerSaved, WorkerSaveFails
<1>4. ASSUME NEW x \in Savers, SaverStep(x) PROVE Kept
  BY <1>4, <1>b DEF SaverStep, SaveClone, SaveVersion, SaveStore, SaveCommit
<1>5. CASE Environment
  <2>1. \A d \in Resumers : ~CompleteHumanStep(d)
    BY DEF CompleteHumanStep, Stopped
  <2> QED
    BY <1>5, <1>b, <2>1
       DEF Environment, ClientDisconnects, CancelReads, CancelFires, CheckpointExpires
<1>6. CASE UNCHANGED vars
  BY <1>6, <1>b DEF vars
<1> QED
  BY <1>1, <1>2, <1>3, <1>4, <1>5, <1>6 DEF Next

QuietInv == wfStatus = "completed" => DoneSteps = Steps /\ Stopped

LEMMA NextQuiet == OrderInv /\ QuietInv /\ [Next]_vars => QuietInv'
<1> SUFFICES ASSUME OrderInv, QuietInv, [Next]_vars, wfStatus' = "completed"
             PROVE  DoneSteps' = Steps /\ Stopped'
  BY DEF QuietInv
<1> USE DEF runVars, ctxVars, loopVars, batchVars, saveVars, storeVars
<1>1. CASE wfStatus = "completed"
  <2>1. Stopped /\ DoneSteps = Steps /\ ~CrashAndRestore
    BY <1>1 DEF QuietInv, CrashAndRestore
  <2>2. Stopped' /\ stepStatus' = stepStatus
    BY <2>1, StoppedStays
  <2> QED
    BY <2>1, <2>2 DEF DoneSteps
<1>2. CASE wfStatus # "completed"
  <2>1. PICK d \in Drivers : LoopCompletes(d)
    <3>1. \A d \in Drivers : \A e : ~FailWorkflow(d, e)
      BY DEF FailWorkflow
    <3>2. ASSUME NEW d \in Drivers, DriverStep(d) PROVE LoopCompletes(d)
      BY <1>2, <3>1, <3>2
         DEF DriverStep, ResumeRun, EnterLoop, ResumeFails, LoopCancelled, LoopProcesses,
             BranchStart, PauseWorkflow, BranchDecides, BranchErrs, BranchSaved,
             BranchSaveFails, PauseSaved, PauseSaveFails, ProcessDone, BatchDone, FailSaved
    <3>3. ~Run
      BY DEF Run, EnterLoop
    <3>4. \A d \in Drivers, s \in Steps : ~WorkerStep(d, s)
      BY <1>2 DEF WorkerStep, WorkerStart, ExecSucceeds, ExecFails, WorkerSaved,
                  WorkerSaveFails
    <3>5. \A x \in Savers : ~SaverStep(x)
      BY <1>2 DEF SaverStep, SaveClone, SaveVersion, SaveStore, SaveCommit
    <3>6. ~Environment
      BY <1>2 DEF Environment, CompleteHumanStep, ClientDisconnects, CancelReads, CancelFires,
                  CheckpointExpires, CrashAndRestore
    <3>7. ~UNCHANGED vars
      BY <1>2 DEF vars
    <3> QED
      BY <3>2, <3>3, <3>4, <3>5, <3>6, <3>7 DEF Next
  <2>2. /\ dpc[d] = "loop" /\ DoneSteps = Steps
        /\ dpc' = [dpc EXCEPT ![d] = "done"]
        /\ stepStatus' = stepStatus /\ pausedStepID' = pausedStepID
    BY <2>1 DEF LoopCompletes
  <2>3. d \in Owners /\ \A e \in Drivers : e # d => dpc[e] \notin LoopPcs
    BY <2>2, OwnerAlone DEF OrderInv, Owners, LoopPcs
  <2>4. \A e \in Drivers : dpc'[e] = IF e = d THEN "done" ELSE dpc[e]
    BY <2>2 DEF OrderInv, TypeOK
  <2>5. pausedStepID = NoStep /\ dpc["run"] # "idle"
    BY <2>3 DEF OrderInv, OwnerInv
  <2>6. Stopped'
    BY <2>2, <2>3, <2>4, <2>5, SaverTypes DEF Stopped, Owners, LoopPcs
  <2> QED
    BY <2>2, <2>6 DEF DoneSteps
<1> QED
  BY <1>1, <1>2

\* A run that says "completed" is over: every step is done, and no goroutine
\* is in its loop, executes a step or can be let in by a Resume.
THEOREM CompletedIsOver == Spec => []CompletedIsQuiet
<1>1. Init => OrderInv /\ QuietInv
  BY InitOrder DEF Init, NewScheduler, QuietInv
<1>2. OrderInv /\ QuietInv /\ [Next]_vars => OrderInv' /\ QuietInv'
  BY NextOrder, NextQuiet
<1>3. OrderInv /\ QuietInv => CompletedIsQuiet
  BY NoWorkers DEF OrderInv, QuietInv, Stopped, CompletedIsQuiet, Active
<1> QED
  BY <1>1, <1>2, <1>3, PTL DEF Spec

\* Once a run has completed, nothing but the late failure of the driver that
\* had paused it changes its status, with any number of Resume and Cancel
\* calls, failing saves and disconnects.
THEOREM CompletedStays == Spec => CompletionStands
<1>1. Init => OrderInv /\ QuietInv
  BY InitOrder DEF Init, NewScheduler, QuietInv
<1>2. OrderInv /\ QuietInv /\ [Next]_vars => OrderInv' /\ QuietInv'
  BY NextOrder, NextQuiet
<1> DEFINE Stands ==
       wfStatus = "completed" /\ wfStatus' # "completed"
           => \/ \E d \in Drivers : dpc[d] = "pauseSave" /\ savePc[<<d, NoStep>>] = "failed"
              \/ crashes' # crashes
<1>3. OrderInv /\ QuietInv /\ [Next]_vars => [Stands]_vars
  <2> SUFFICES ASSUME OrderInv, QuietInv, [Next]_vars, wfStatus = "completed",
                      wfStatus' # "completed"
               PROVE  \/ \E d \in Drivers : dpc[d] = "pauseSave" /\ savePc[<<d, NoStep>>] = "failed"
                      \/ crashes' # crashes
    OBVIOUS
  <2>1. CrashAndRestore \/ \E d \in Drivers : PauseSaveFails(d)
    BY StoppedStays DEF QuietInv
  <2>2. CASE CrashAndRestore
    BY <2>2 DEF CrashAndRestore, OrderInv, TypeOK
  <2>3. CASE \E d \in Drivers : PauseSaveFails(d)
    BY <2>3 DEF PauseSaveFails
  <2> QED
    BY <2>1, <2>2, <2>3
<1> QED
  BY <1>1, <1>2, <1>3, PTL DEF Spec, CompletionStands

-----------------------------------------------------------------------------
(***************************************************************************)
(* No step is left running.  The owner outside a batch and outside the     *)
(* evaluation of a condition has no running step at all; a condition that  *)
(* cannot be evaluated stops the run for good.                             *)
(***************************************************************************)
Attended(s) ==
    \/ \E d \in Drivers : wpc[d][s] = "exec"
    \/ \E d \in Drivers : dpc[d] = "branch" /\ cur[d] = s
    \/ pausedStepID = s

RunningInv ==
    \A s \in Steps : stepStatus[s] = "running" =>
        Attended(s) \/ (wfStatus = "failed" /\ Kind[s] = "branch" /\ Stopped)

NothingRuns == \A s \in Steps : stepStatus[s] # "running"

LEMMA NothingRunsInLoop ==
    ASSUME OrderInv, RunningInv, NEW d \in Drivers,
           dpc[d] \in LoopPcs \ {"batch", "branch"}
    PROVE  NothingRuns
<1>1. d \in Owners /\ \A e \in Drivers : e # d => dpc[e] \notin LoopPcs
  BY OwnerAlone DEF OrderInv, Owners
<1>2. \A e \in Drivers, s \in Steps : wpc[e][s] = "idle"
  BY <1>1, NoWorkers DEF OrderInv
<1>3. pausedStepID = NoStep /\ ~Stopped
  BY <1>1 DEF OrderInv, OwnerInv, Stopped
<1>4. \A s \in Steps : ~Attended(s)
  BY <1>1, <1>2, <1>3, NamesDistinct DEF Attended, LoopPcs
<1> QED
  BY <1>3, <1>4 DEF RunningInv, NothingRuns

\* An action that starts no step, takes nobody away from one and moves one
\* driver that is not evaluating a condition.
LEMMA RunningMove ==
    ASSUME TypeOK, RunningInv, ~Stopped, NEW d \in Drivers, NEW v, dpc[d] # "branch",
           dpc' = [dpc EXCEPT ![d] = v], cur' = cur \/ cur' = [cur EXCEPT ![d] = NoStep],
           stepStatus' = stepStatus, pausedStepID' = pausedStepID,
           \A e \in Drivers, s \in Steps : wpc[e][s] = "exec" => wpc'[e][s] = "exec"
    PROVE  RunningInv'
<1>1. \A e \in Drivers : e # d => dpc'[e] = dpc[e] /\ cur'[e] = cur[e]
  BY DEF TypeOK
<1>2. \A s \in Steps : Attended(s) => Attended(s)'
  BY <1>1 DEF Attended
<1> QED
  BY <1>2 DEF RunningInv

LEMMA RunningFrame ==
    ASSUME RunningInv, ~Stopped, dpc' = dpc, cur' = cur, wpc' = wpc,
           stepStatus' = stepStatus, pausedStepID' = pausedStepID
    PROVE  RunningInv'
  BY DEF RunningInv, Attended

LEMMA FailWorkflowRunning ==
    ASSUME OrderInv, BranchInv, RunningInv, ~Stopped, NEW d \in Drivers, NEW e,
           FailWorkflow(d, e), \A s \in Steps : wpc[d][s] # "exec"
    PROVE  RunningInv'
<1> USE DEF OrderInv
<1>1. CASE e = "canceled"
  <2>1. stepStatus' = MarkRunningStepsCancelled(stepStatus)
    BY <1>1, FailWorkflowEffect
  <2>2. \A s \in Steps : stepStatus'[s] # "running"
    BY <2>1 DEF MarkRunningStepsCancelled
  <2> QED
    BY <2>2 DEF RunningInv
<1>2. CASE e # "canceled" /\ dpc[d] # "branch"
  <2>1. /\ dpc' = [dpc EXCEPT ![d] = "failSave"]
        /\ stepStatus' = stepStatus /\ pausedStepID' = pausedStepID
        /\ \A f \in Drivers, s \in Steps : wpc[f][s] = "exec" => wpc'[f][s] = "exec"
        /\ cur' = [cur EXCEPT ![d] = NoStep]
    BY <1>2, FailWorkflowEffect DEF FailWorkflow
  <2> QED
    BY <1>2, <2>1, RunningMove
<1>3. CASE e # "canceled" /\ dpc[d] = "branch"
  <2>1. d \in Owners /\ \A f \in Drivers : f # d => dpc[f] \notin LoopPcs
    BY <1>3, OwnerAlone DEF Owners, LoopPcs
  <2>2. \A f \in Drivers, s \in Steps : wpc[f][s] = "idle"
    BY <1>3, <2>1, NoWorkers
  <2>3. pausedStepID = NoStep /\ dpc["run"] # "idle"
    BY <2>1 DEF OwnerInv
  <2>4. /\ \A f \in Drivers : dpc'[f] = IF f = d THEN "failSave" ELSE dpc[f]
        /\ wfStatus' = "failed" /\ pausedStepID' = pausedStepID /\ stepStatus' = stepStatus
    BY <1>3, FailWorkflowEffect
  <2>5. Stopped'
    BY <2>1, <2>3, <2>4, SaverTypes DEF Stopped, Owners, LoopPcs
  <2>6. \A s \in Steps : stepStatus[s] = "running" => s = cur[d]
    BY <2>1, <2>2, <2>3, NamesDistinct DEF RunningInv, Attended, LoopPcs
  <2>7. \A s \in Steps : stepStatus'[s] = "running" => Kind[s] = "branch"
    BY <1>3, <2>4, <2>6 DEF BranchInv
  <2> QED
    BY <2>4, <2>5, <2>7 DEF RunningInv
<1> QED
  BY <1>1, <1>2, <1>3

LEMMA DriverRunning ==
    ASSUME OrderInv, BranchInv, RunningInv, ~Stopped, NEW d \in Drivers, DriverStep(d)
    PROVE  RunningInv'
<1> USE DEF OrderInv, runVars, ctxVars, loopVars, batchVars, saveVars, storeVars
<1>1. CASE \E e : FailWorkflow(d, e)
  <2>1. \A s \in Steps : wpc[d][s] # "exec"
    <3>1. CASE dpc[d] # "batch"
      BY <3>1 DEF WorkerInv
    <3>2. CASE dpc[d] = "batch"
      <4>1. BatchDone(d)
        BY <3>2
           DEF DriverStep, ResumeRun, ResumeFails, LoopCancelled, LoopCompletes, LoopProcesses,
               BranchStart, PauseWorkflow, BranchDecides, BranchErrs, BranchSaved,
               BranchSaveFails, PauseSaved, PauseSaveFails, ProcessDone, FailSaved
      <4> QED
        BY <4>1 DEF BatchDone
    <3> QED
      BY <3>1, <3>2
  <2> QED
    BY <1>1, <2>1, FailWorkflowRunning
<1>2. CASE \/ ResumeRun(d) \/ ResumeFails(d) \/ LoopCompletes(d) \/ BranchSaved(d)
           \/ PauseSaved(d) \/ FailSaved(d)
  <2>1. \E v : dpc' = [dpc EXCEPT ![d] = v]
    BY <1>2 DEF ResumeRun, EnterLoop, ResumeFails, LoopCompletes, BranchSaved, PauseSaved,
                FailSaved
  <2>2. /\ dpc[d] # "branch" /\ wpc' = wpc /\ cur' = cur
        /\ stepStatus' = stepStatus /\ pausedStepID' = pausedStepID
    BY <1>2 DEF ResumeRun, ResumeFails, LoopCompletes, BranchSaved, PauseSaved, FailSaved
  <2> QED
    BY <2>1, <2>2, RunningMove
<1>3. CASE (LoopProcesses(d) \/ ProcessDone(d)) /\ ~\E e : FailWorkflow(d, e)
  <2>1. dpc[d] \in LoopPcs \ {"batch", "branch"} /\ stepStatus' = stepStatus
    BY <1>3 DEF LoopProcesses, ProcessDone, LoopPcs
  <2>2. NothingRuns
    BY <2>1, NothingRunsInLoop
  <2> QED
    BY <2>1, <2>2 DEF NothingRuns, RunningInv
<1>4. ASSUME NEW s \in Steps, BranchStart(d, s) \/ PauseWorkflow(d, s), ~FailWorkflow(d, "other")
      PROVE  RunningInv'
  <2>1. /\ dpc[d] = "process"
        /\ stepStatus' = [stepStatus EXCEPT ![s] = "running"]
        /\ \/ cur' = [cur EXCEPT ![d] = s] /\ dpc' = [dpc EXCEPT ![d] = "branch"]
           \/ pausedStepID' = s
    BY <1>4 DEF BranchStart, PauseWorkflow
  <2>2. NothingRuns
    BY <2>1, NothingRunsInLoop DEF LoopPcs
  <2>3. \A t \in Steps : stepStatus'[t] = "running" => t = s
    BY <2>1, <2>2 DEF NothingRuns, TypeOK
  <2>4. Attended(s)'
    BY <2>1 DEF Attended, TypeOK
  <2> QED
    BY <2>3, <2>4 DEF RunningInv
<1>5. ASSUME NEW st \in Done, BranchDecides(d, st) PROVE RunningInv'
  <2>1. dpc[d] = "branch" /\ stepStatus' = [stepStatus EXCEPT ![cur[d]] = st]
    BY <1>5 DEF BranchDecides
  <2>2. d \in Owners /\ \A f \in Drivers : f # d => dpc[f] \notin LoopPcs
    BY <2>1, OwnerAlone DEF Owners, LoopPcs
  <2>3. \A f \in Drivers, s \in Steps : wpc[f][s] = "idle"
    BY <2>1, <2>2, NoWorkers
  <2>4. pausedStepID = NoStep
    BY <2>2 DEF OwnerInv
  <2>5. \A s \in Steps : stepStatus[s] = "running" => s = cur[d]
    BY <2>2, <2>3, <2>4, NamesDistinct DEF RunningInv, Attended, LoopPcs
  <2>6. \A s \in Steps : stepStatus'[s] # "running"
    BY <2>1, <2>5 DEF Done, TypeOK
  <2> QED
    BY <2>6 DEF RunningInv
<1>6. CASE BatchDone(d) /\ ~\E e : FailWorkflow(d, e)
  <2>1. dpc[d] = "batch" /\ stepStatus' = stepStatus /\ \A s \in Steps : wpc[d][s] # "exec"
    BY <1>6 DEF BatchDone
  <2>2. d \in Owners /\ \A f \in Drivers : f # d => dpc[f] \notin LoopPcs
    BY <2>1, OwnerAlone DEF Owners, LoopPcs
  <2>3. \A f \in Drivers, s \in Steps : wpc[f][s] # "exec"
    BY <2>1, <2>2 DEF WorkerInv, LoopPcs
  <2>4. pausedStepID = NoStep
    BY <2>2 DEF OwnerInv
  <2>5. \A s \in Steps : stepStatus'[s] # "running"
    BY <2>1, <2>2, <2>3, <2>4, NamesDistinct DEF RunningInv, Attended, LoopPcs
  <2> QED
    BY <2>5 DEF RunningInv
<1> QED
  BY <1>1, <1>2, <1>3, <1>4, <1>5, <1>6
     DEF DriverStep, LoopCancelled, BranchErrs, BranchSaveFails, PauseSaveFails

\* One worker moves with its step: it executes the step, or it was not
\* executing it, or the step has ended.
LEMMA WorkerRunning ==
    ASSUME OrderInv, RunningInv, ~Stopped, NEW d \in Drivers, NEW s \in Steps, WorkerStep(d, s)
    PROVE  RunningInv'
<1> USE DEF OrderInv, runVars, ctxVars, loopVars, batchVars, saveVars, storeVars
<1>1. PICK v : wpc' = [wpc EXCEPT ![d] = [wpc[d] EXCEPT ![s] = v]]
  BY DEF WorkerStep, WorkerStart, ExecSucceeds, ExecFails, WorkerSaved, WorkerSaveFails,
         WorkerReturns
<1>2. \A f \in Drivers, t \in Steps : wpc'[f][t] = IF f = d /\ t = s THEN v ELSE wpc[f][t]
  BY <1>1 DEF TypeOK
<1>3. dpc' = dpc /\ cur' = cur /\ pausedStepID' = pausedStepID
  BY DEF WorkerStep, WorkerStart, ExecSucceeds, ExecFails, WorkerSaved, WorkerSaveFails
<1>4. \A t \in Steps : t # s => stepStatus'[t] = stepStatus[t] /\ (Attended(t) => Attended(t)')
  <2>1. \A t \in Steps : t # s => stepStatus'[t] = stepStatus[t]
    BY DEF WorkerStep, WorkerStart, ExecSucceeds, ExecFails, WorkerSaved, WorkerSaveFails,
           TypeOK
  <2> QED
    BY <1>2, <1>3, <2>1 DEF Attended
<1>5. stepStatus'[s] = "running" =>
          \/ wpc'[d][s] = "exec"
          \/ stepStatus'[s] = stepStatus[s] /\ wpc[d][s] # "exec"
  <2>1. CASE WorkerStart(d, s)
    BY <2>1 DEF WorkerStart, TypeOK
  <2>2. CASE ExecSucceeds(d, s)
    BY <2>2 DEF ExecSucceeds, TypeOK
  <2>3. CASE \E st \in {"failed", "timeout", "cancelled"}, e \in ErrorKinds :
                 ExecFails(d, s, st, e)
    BY <2>3 DEF ExecFails, TypeOK
  <2>4. CASE WorkerSaved(d, s) \/ WorkerSaveFails(d, s)
    BY <2>4 DEF WorkerSaved, WorkerSaveFails
  <2> QED
    BY <2>1, <2>2, <2>3, <2>4 DEF WorkerStep
<1>6. stepStatus'[s] = "running" => Attended(s)'
  <2>1. CASE wpc'[d][s] = "exec"
    BY <2>1 DEF Attended
  <2>2. CASE stepStatus[s] = "running" /\ wpc[d][s] # "exec"
    BY <1>2, <1>3, <2>2 DEF RunningInv, Attended
  <2> QED
    BY <1>5, <2>1, <2>2
<1> QED
  BY <1>4, <1>6 DEF RunningInv

LEMMA NextRunning == OrderInv /\ BranchInv /\ RunningInv /\ [Next]_vars => RunningInv'
<1> SUFFICES ASSUME OrderInv, BranchInv, RunningInv, [Next]_vars PROVE RunningInv'
  OBVIOUS
<1> USE DEF runVars, ctxVars, loopVars, batchVars, saveVars, storeVars
<1>1. CASE CrashAndRestore
  <2>1. \A s \in Steps : stepStatus'[s] # "running"
    BY <1>1 DEF CrashAndRestore
  <2> QED
    BY <2>1 DEF RunningInv
<1>2. CASE Stopped /\ ~CrashAndRestore
  <2>1. \A d \in Drivers, s \in Steps : wpc[d][s] = "idle"
    BY <1>2, NoWorkers DEF OrderInv, Stopped
  <2>2. \A s \in Steps : ~Attended(s)
    BY <1>2, <2>1, NamesDistinct DEF Stopped, Attended, Owners, LoopPcs
  <2>3. Stopped' /\ stepStatus' = stepStatus /\ wfStatus' \in {wfStatus, "failed"}
    BY <1>2, StoppedStays
  <2> QED
    BY <2>2, <2>3 DEF RunningInv
<1>3. CASE ~Stopped /\ ~CrashAndRestore
  <2>1. CASE Run
    BY <1>3, <2>1, RunningMove, SaverTypes DEF Run, EnterLoop, OrderInv
  <2>2. CASE \E d \in Drivers : DriverStep(d)
    BY <1>3, <2>2, DriverRunning
  <2>3. CASE \E d \in Drivers, s \in Steps : WorkerStep(d, s)
    BY <1>3, <2>3, WorkerRunning
  <2>4. CASE \E x \in Savers : SaverStep(x)
    BY <1>3, <2>4, RunningFrame DEF SaverStep, SaveClone, SaveVersion, SaveStore, SaveCommit
  <2>5. ASSUME NEW d \in Resumers, CompleteHumanStep(d) PROVE RunningInv'
    <3>1. Owners = {} /\ stepStatus' = [stepStatus EXCEPT ![pausedStepID] = "success"]
      BY <2>5 DEF CompleteHumanStep, OrderInv, OwnerInv
    <3>2. \A e \in Drivers, s \in Steps : wpc[e][s] = "idle"
      BY <3>1, NoWorkers DEF OrderInv
    <3>3. \A s \in Steps : stepStatus[s] = "running" => s = pausedStepID
      BY <1>3, <3>1, <3>2 DEF RunningInv, Attended, Owners, LoopPcs
    <3>4. \A s \in Steps : stepStatus'[s] # "running"
      BY <3>1, <3>3 DEF OrderInv, TypeOK
    <3> QED
      BY <3>4 DEF RunningInv
  <2>6. CASE \/ \E d \in Resumers : ClientDisconnects(d)
             \/ \E c \in Cancellers : CancelReads(c) \/ CancelFires(c)
             \/ CheckpointExpires
    BY <1>3, <2>6, RunningFrame
       DEF ClientDisconnects, CancelReads, CancelFires, CheckpointExpires
  <2>7. CASE UNCHANGED vars
    BY <1>3, <2>7, RunningFrame DEF vars
  <2> QED
    BY <1>3, <2>1, <2>2, <2>3, <2>4, <2>5, <2>6, <2>7 DEF Next, Environment
<1> QED
  BY <1>1, <1>2, <1>3

\* Every running step has a goroutine or a human that will end it; only a
\* branch whose condition failed to evaluate is left running, in a run that
\* has failed and that nobody can enter again.
THEOREM NoStepAbandoned == Spec => []RunningHasOwner
<1>1. Init => OrderInv /\ BranchInv /\ RunningInv
  BY InitOrder DEF Init, NewScheduler, BranchInv, RunningInv
<1>2. OrderInv /\ BranchInv /\ RunningInv /\ [Next]_vars => OrderInv' /\ BranchInv' /\ RunningInv'
  BY NextOrder, NextBranch, NextRunning
<1>3. RunningInv => RunningHasOwner
  BY DEF RunningInv, Attended, RunningHasOwner
<1> QED
  BY <1>1, <1>2, <1>3, PTL DEF Spec

-----------------------------------------------------------------------------
(***************************************************************************)
(* Parallelism.  The errgroup limit bounds one batch; that the run never   *)
(* has two batches is the single owner again.                              *)
(***************************************************************************)
SlotInv == \A d \in Drivers : Cardinality(Active(d)) <= MaxParallel

LEMMA ActiveFinite ==
    ASSUME NEW d
    PROVE  IsFiniteSet(Active(d)) /\ Cardinality(Active(d)) \in Nat
<1>1. Active(d) \in SUBSET Steps
  BY DEF Active
<1> QED
  BY <1>1, StepsFinite, FS_Subset, FS_CardinalityType

\* Slots are only given back.
LEMMA SlotShrink ==
    ASSUME SlotInv, \A d \in Drivers : Active(d)' \subseteq Active(d)
    PROVE  SlotInv'
<1> SUFFICES ASSUME NEW d \in Drivers PROVE Cardinality(Active(d)') <= MaxParallel
  BY DEF SlotInv
<1>1. IsFiniteSet(Active(d)) /\ Active(d)' \in SUBSET Active(d)
  BY ActiveFinite
<1>2. /\ Cardinality(Active(d)') <= Cardinality(Active(d))
      /\ IsFiniteSet(Active(d)')
  BY <1>1, FS_Subset
<1>3. Cardinality(Active(d)') \in Nat /\ Cardinality(Active(d)) \in Nat
  BY <1>1, <1>2, FS_CardinalityType
<1> QED
  BY <1>2, <1>3, ParallelType DEF SlotInv

\* A batch with a free slot starts one more step.
LEMMA SlotTaken ==
    ASSUME SlotInv, NEW d \in Drivers, NEW s \in Steps,
           Cardinality(Active(d)) < MaxParallel,
           Active(d)' \subseteq Active(d) \cup {s},
           \A e \in Drivers : e # d => Active(e)' \subseteq Active(e)
    PROVE  SlotInv'
<1> SUFFICES ASSUME NEW e \in Drivers PROVE Cardinality(Active(e)') <= MaxParallel
  BY DEF SlotInv
<1> DEFINE A == IF e = d THEN Active(e) \cup {s} ELSE Active(e)
<1>1. IsFiniteSet(Active(e)) /\ Cardinality(Active(e)) \in Nat
  BY ActiveFinite
<1>2. IsFiniteSet(Active(e) \cup {s}) /\ Cardinality(Active(e) \cup {s}) <= Cardinality(Active(e)) + 1
  BY <1>1, FS_AddElement
<1>3. Cardinality(Active(e) \cup {s}) \in Nat
  BY <1>2, FS_CardinalityType
<1>4. IsFiniteSet(A) /\ Cardinality(A) \in Nat /\ Cardinality(A) <= MaxParallel
  BY <1>1, <1>2, <1>3, ParallelType DEF SlotInv
<1>5. Active(e)' \in SUBSET A
  OBVIOUS
<1> HIDE DEF A
<1>6. IsFiniteSet(Active(e)') /\ Cardinality(Active(e)') <= Cardinality(A)
  BY <1>4, <1>5, FS_Subset
<1>7. Cardinality(Active(e)') \in Nat
  BY <1>6, FS_CardinalityType
<1> QED
  BY <1>4, <1>6, <1>7, ParallelType

LEMMA NextSlot == OrderInv /\ SlotInv /\ [Next]_vars => SlotInv'
<1> SUFFICES ASSUME OrderInv, SlotInv, [Next]_vars PROVE SlotInv'
  OBVIOUS
<1> USE DEF OrderInv, runVars, ctxVars, loopVars, batchVars, saveVars, storeVars
<1>a. ASSUME wpc' = wpc PROVE SlotInv'
  BY <1>a, SlotShrink DEF Active
<1>b. ASSUME NEW d \in Drivers, \A s \in Steps : wpc'[d][s] \in {"idle", "queued"},
             \A e \in Drivers : e # d => wpc'[e] = wpc[e]
      PROVE  SlotInv'
  <2>1. \A e \in Drivers : Active(e)' \subseteq Active(e)
    BY <1>b DEF Active
  <2> QED
    BY <2>1, SlotShrink
<1>1. ASSUME NEW d \in Drivers, DriverStep(d) PROVE SlotInv'
  <2>1. CASE \E e : FailWorkflow(d, e)
    <3>1. wpc' = [wpc EXCEPT ![d] = [s \in Steps |-> "idle"]]
      BY <2>1 DEF FailWorkflow
    <3> QED
      BY <3>1, <1>b DEF TypeOK
  <2>2. CASE /\ ~\E e : FailWorkflow(d, e)
             /\ \/ ResumeRun(d) \/ ResumeFails(d) \/ LoopCompletes(d) \/ LoopProcesses(d)
                \/ \E s \in Steps : BranchStart(d, s) \/ PauseWorkflow(d, s)
                \/ \E st \in Done : BranchDecides(d, st)
                \/ BranchSaved(d) \/ PauseSaved(d) \/ FailSaved(d)
    <3>1. wpc' = wpc
      BY <2>2 DEF ResumeRun, ResumeFails, LoopCompletes, LoopProcesses, BranchStart,
                  PauseWorkflow, BranchDecides, BranchSaved, PauseSaved, FailSaved
    <3> QED
      BY <3>1, <1>a
  <2>3. CASE ProcessDone(d)
    <3>1. CASE wpc' = wpc
      BY <3>1, <1>a
    <3>2. CASE wpc' # wpc
      <4>1. wpc' = [wpc EXCEPT ![d] =
                [s \in Steps |-> IF s \in todo[d] THEN "queued" ELSE "idle"]]
        BY <2>3, <3>2 DEF ProcessDone
      <4>2. /\ \A s \in Steps : wpc'[d][s] \in {"idle", "queued"}
            /\ \A e \in Drivers : e # d => wpc'[e] = wpc[e]
        BY <4>1 DEF TypeOK
      <4> QED
        BY <4>2, <1>b
    <3> QED
      BY <3>1, <3>2
  <2>4. CASE BatchDone(d) /\ ~\E e : FailWorkflow(d, e)
    <3>1. wpc' = [wpc EXCEPT ![d] = [s \in Steps |-> "idle"]]
      BY <2>4 DEF BatchDone
    <3> QED
      BY <3>1, <1>b DEF TypeOK
  <2> QED
    BY <1>1, <2>1, <2>2, <2>3, <2>4
       DEF DriverStep, LoopCancelled, BranchErrs, BranchSaveFails, PauseSaveFails
<1>2. ASSUME NEW d \in Drivers, NEW s \in Steps, WorkerStep(d, s) PROVE SlotInv'
  <2>1. PICK v : wpc' = [wpc EXCEPT ![d] = [wpc[d] EXCEPT ![s] = v]]
    BY <1>2 DEF WorkerStep, WorkerStart, ExecSucceeds, ExecFails, WorkerSaved, WorkerSaveFails,
                WorkerReturns
  <2>2. \A f \in Drivers, t \in Steps : wpc'[f][t] = IF f = d /\ t = s THEN v ELSE wpc[f][t]
    BY <2>1 DEF TypeOK
  <2>3. /\ Active(d)' \subseteq Active(d) \cup {s}
        /\ \A e \in Drivers : e # d => Active(e)' \subseteq Active(e)
    BY <2>2 DEF Active
  <2>4. CASE Cardinality(Active(d)) < MaxParallel
    BY <2>3, <2>4, SlotTaken
  <2>5. CASE ~(Cardinality(Active(d)) < MaxParallel)
    <3>1. wpc[d][s] \in {"exec", "retry", "saving"}
      BY <1>2, <2>5
         DEF WorkerStep, WorkerStart, ExecSucceeds, ExecFails, WorkerSaved, WorkerSaveFails
    <3>2. \A e \in Drivers : Active(e)' \subseteq Active(e)
      BY <2>2, <3>1 DEF Active
    <3> QED
      BY <3>2, SlotShrink
  <2> QED
    BY <2>4, <2>5
<1>3. CASE Run \/ (\E x \in Savers : SaverStep(x)) \/ (Environment /\ ~CrashAndRestore)
           \/ UNCHANGED vars
  <2>1. wpc' = wpc
    BY <1>3
       DEF Run, SaverStep, SaveClone, SaveVersion, SaveStore, SaveCommit, Environment,
           CompleteHumanStep, ClientDisconnects, CancelReads, CancelFires, CheckpointExpires,
           vars
  <2> QED
    BY <2>1, <1>a
<1>4. CASE CrashAndRestore
  <2>1. \A e \in Drivers : Active(e)' \subseteq Active(e)
    BY <1>4 DEF CrashAndRestore, Active
  <2> QED
    BY <2>1, SlotShrink
<1> QED
  BY <1>1, <1>2, <1>3, <1>4 DEF Next

\* All the goroutines of a run together execute no more steps at once than
\* WithMaxParallelSteps allows, although the limit is given to each batch
\* anew and Run and every Resume start batches of their own.
THEOREM ParallelismKept == Spec => []ParallelismBounded
<1>1. Init => OrderInv /\ SlotInv
  <2> SUFFICES ASSUME Init PROVE SlotInv
    BY InitOrder
  <2>1. \A d \in Drivers : Active(d) = {}
    BY DEF Init, Active
  <2> QED
    BY <2>1, FS_EmptySet, ParallelType DEF SlotInv
<1>2. OrderInv /\ SlotInv /\ [Next]_vars => OrderInv' /\ SlotInv'
  BY NextOrder, NextSlot
<1>3. OrderInv /\ SlotInv => ParallelismBounded
  <2> SUFFICES ASSUME OrderInv, SlotInv PROVE ParallelismBounded
    OBVIOUS
  <2> DEFINE W == {w \in Drivers \X Steps : wpc[w[1]][w[2]] = "exec"}
  <2>1. CASE W = {}
    BY <2>1, FS_EmptySet, ParallelType DEF ParallelismBounded
  <2>2. CASE W # {}
    <3>1. PICK d \in Drivers, s \in Steps : wpc[d][s] = "exec"
      BY <2>2
    <3>2. \A e \in Drivers : e # d => dpc[e] # "batch"
      BY <3>1, WorkerAlone DEF OrderInv, LoopPcs
    <3>3. \A w \in W : w[1] = d /\ w[2] \in Active(d) /\ w = <<d, w[2]>>
      BY <3>2 DEF OrderInv, WorkerInv, Active
    <3> DEFINE f == [w \in W |-> w[2]]
    <3>4. f \in Injection(W, Active(d))
      BY <3>3 DEF Injection, IsInjective
    <3> HIDE DEF W, f
    <3>5. IsFiniteSet(Active(d)) /\ Cardinality(Active(d)) \in Nat
      BY ActiveFinite
    <3>6. IsFiniteSet(W) /\ Cardinality(W) <= Cardinality(Active(d))
      BY <3>4, <3>5, FS_Injection
    <3>7. Cardinality(W) \in Nat
      BY <3>6, FS_CardinalityType
    <3>8. Cardinality(W) <= MaxParallel
      BY <3>5, <3>6, <3>7, ParallelType DEF SlotInv
    <3> QED
      BY <3>8 DEF ParallelismBounded, W
  <2> QED
    BY <2>1, <2>2
<1> QED
  BY <1>1, <1>2, <1>3, PTL DEF Spec

-----------------------------------------------------------------------------
(***************************************************************************)
(* Outputs.  Whoever ends a step successfully records its output in the    *)
(* same critical section, and so does a branch that is skipped.            *)
(* RestoreScheduler brings back the outputs of successful steps only, so   *)
(* after a crash a skipped step may be without one.                        *)
(***************************************************************************)
OutputInv ==
    \A t \in Steps : stepStatus[t] \in Done
        => t \in outputs \/ (crashes > 0 /\ stepStatus[t] = "skipped")

LEMMA OutputFrame ==
    ASSUME OutputInv, crashes' = crashes, outputs \subseteq outputs',
           \A s \in Steps : stepStatus'[s] \in Done
                => stepStatus'[s] = stepStatus[s] \/ s \in outputs'
    PROVE  OutputInv'
  BY DEF OutputInv

LEMMA NextOutput == TypeOK /\ OutputInv /\ [Next]_vars => OutputInv'
<1> SUFFICES ASSUME TypeOK, OutputInv, [Next]_vars PROVE OutputInv'
  OBVIOUS
<1> USE DEF runVars, ctxVars, loopVars, batchVars, saveVars, storeVars
<1>a. ASSUME NEW s, NEW u, stepStatus' = [stepStatus EXCEPT ![s] = u], crashes' = crashes,
             \/ u \notin Done /\ outputs' = outputs
             \/ outputs' = outputs \cup {s}
      PROVE  OutputInv'
  <2>1. \A t \in Steps : stepStatus'[t] = IF t = s THEN u ELSE stepStatus[t]
    BY <1>a DEF TypeOK
  <2> QED
    BY <1>a, <2>1, OutputFrame
<1>b. ASSUME stepStatus' = stepStatus, outputs' = outputs, crashes' = crashes PROVE OutputInv'
  BY <1>b, OutputFrame
<1>1. ASSUME NEW d \in Drivers, DriverStep(d) PROVE OutputInv'
  <2>1. ASSUME NEW e, FailWorkflow(d, e) PROVE OutputInv'
    <3>1. outputs' = outputs /\ crashes' = crashes
      BY <2>1 DEF FailWorkflow
    <3>2. \A s \in Steps : stepStatus'[s] \in Done => stepStatus'[s] = stepStatus[s]
      BY <2>1 DEF FailWorkflow, MarkRunningStepsCancelled, Done
    <3> QED
      BY <3>1, <3>2, OutputFrame
  <2>2. ASSUME NEW s \in Steps, BranchStart(d, s) \/ PauseWorkflow(d, s),
               ~FailWorkflow(d, "other")
        PROVE  OutputInv'
    <3>1. /\ stepStatus' = [stepStatus EXCEPT ![s] = "running"]
          /\ outputs' = outputs /\ crashes' = crashes
      BY <2>2 DEF BranchStart, PauseWorkflow
    <3> QED
      BY <3>1, <1>a DEF Done
  <2>3. ASSUME NEW st \in Done, BranchDecides(d, st) PROVE OutputInv'
    BY <2>3, <1>a DEF BranchDecides
  <2>4. CASE /\ ~\E e : FailWorkflow(d, e)
             /\ \/ ResumeRun(d) \/ ResumeFails(d) \/ LoopCompletes(d) \/ LoopProcesses(d)
                \/ BranchSaved(d) \/ PauseSaved(d) \/ ProcessDone(d) \/ BatchDone(d)
                \/ FailSaved(d)
    <3>1. stepStatus' = stepStatus /\ outputs' = outputs /\ crashes' = crashes
      BY <2>4
         DEF ResumeRun, ResumeFails, LoopCompletes, LoopProcesses, BranchSaved, PauseSaved,
             ProcessDone, BatchDone, FailSaved
    <3> QED
      BY <3>1, <1>b
  <2> QED
    BY <1>1, <2>1, <2>2, <2>3, <2>4
       DEF DriverStep, LoopCancelled, BranchErrs, BranchSaveFails, PauseSaveFails
<1>2. ASSUME NEW d \in Drivers, NEW s \in Steps, WorkerStep(d, s) PROVE OutputInv'
  <2>1. CASE WorkerStart(d, s)
    <3>1. /\ outputs' = outputs /\ crashes' = crashes
          /\ stepStatus' = stepStatus \/ stepStatus' = [stepStatus EXCEPT ![s] = "running"]
      BY <2>1 DEF WorkerStart
    <3> QED
      BY <3>1, <1>a, <1>b DEF Done
  <2>2. CASE ExecSucceeds(d, s)
    BY <2>2, <1>a DEF ExecSucceeds
  <2>3. ASSUME NEW st \in {"failed", "timeout", "cancelled"}, NEW e, ExecFails(d, s, st, e)
        PROVE  OutputInv'
    BY <2>3, <1>a DEF ExecFails, Done
  <2>4. CASE WorkerSaved(d, s) \/ WorkerSaveFails(d, s)
    BY <2>4, <1>b DEF WorkerSaved, WorkerSaveFails
  <2> QED
    BY <1>2, <2>1, <2>2, <2>3, <2>4 DEF WorkerStep
<1>3. CASE Run \/ (\E x \in Savers : SaverStep(x)) \/ UNCHANGED vars
  BY <1>3, <1>b DEF Run, SaverStep, SaveClone, SaveVersion, SaveStore, SaveCommit, vars
<1>4. CASE Environment
  <2>1. CASE \E d \in Resumers : CompleteHumanStep(d)
    BY <2>1, <1>a DEF CompleteHumanStep
  <2>2. CASE \/ \E d \in Resumers : ClientDisconnects(d)
             \/ \E c \in Cancellers : CancelReads(c) \/ CancelFires(c)
             \/ CheckpointExpires
    BY <2>2, <1>b DEF ClientDisconnects, CancelReads, CancelFires, CheckpointExpires
  <2>3. CASE CrashAndRestore
    <3>1. crashes' > 0
      BY <2>3 DEF CrashAndRestore, TypeOK
    <3>2. \A t \in Steps : stepStatus'[t] \in Done
            => stepStatus'[t] = stored.status[t] /\ stored.status[t] \in Done
      BY <2>3 DEF CrashAndRestore, Done
    <3>3. \A t \in Steps : stored.status[t] = "success" => t \in outputs'
      BY <2>3 DEF CrashAndRestore, RestoredOutputs
    <3> QED
      BY <3>1, <3>2, <3>3 DEF OutputInv, Done
  <2> QED
    BY <1>4, <2>1, <2>2, <2>3 DEF Environment
<1> QED
  BY <1>1, <1>2, <1>3, <1>4 DEF Next

\* buildInput and EvaluateCondition find the output of every dependency; the
\* only one that may be missing is that of a branch that was skipped before
\* the process crashed and was restored.
THEOREM InputsComplete == Spec => []InputsAvailable
<1>1. Init => OrderInv /\ OutputInv
  BY InitOrder DEF Init, NewScheduler, OutputInv, Done
<1>2. OrderInv /\ OutputInv /\ [Next]_vars => OrderInv' /\ OutputInv'
  BY NextOrder, NextOutput DEF OrderInv
<1>3. OrderInv /\ OutputInv => InputsAvailable
  <2> SUFFICES ASSUME OrderInv, OutputInv, NEW d \in Drivers, NEW s \in Steps,
                      wpc[d][s] = "exec" \/ (dpc[d] = "branch" /\ cur[d] = s),
                      NEW t \in DependsOn[s]
               PROVE  t \in outputs \/ (crashes > 0 /\ stepStatus[t] = "skipped")
    BY DEF InputsAvailable
  <2>1. DependsOn[s] \subseteq resolved
    BY DEF OrderInv, WorkerInv, ListInv
  <2>2. t \in DoneSteps
    BY <2>1 DEF OrderInv, CloseInv
  <2> QED
    BY <2>2 DEF OutputInv, DoneSteps
<1> QED
  BY <1>1, <1>2, <1>3, PTL DEF Spec

-----------------------------------------------------------------------------
(***************************************************************************)
(* Checkpoints are past states.  A snapshot agrees with the run about the  *)
(* steps that were done when it was cloned, and because steps only move    *)
(* forward it keeps agreeing while it waits for the store.                 *)
(***************************************************************************)
Agrees(status) == \A s \in Steps : status[s] \in Done => stepStatus[s] = status[s]

PastInv ==
    crashes = 0 => Agrees(stored.status) /\ \A x \in Savers : Agrees(snap[x].status)

\* Where the content of snapshots and of the stored checkpoint comes from.
Sourced ==
    /\ crashes' = crashes
    /\ \A x \in Savers : \/ snap'[x].status = snap[x].status
                         \/ snap'[x] = NoCheckpoint
                         \/ snap'[x].status = stepStatus /\ stepStatus' = stepStatus
    /\ \/ stored' = stored \/ stored' = NoCheckpoint
       \/ \E x \in Savers : stored'.status = snap[x].status

LEMMA SourcedFrame ==
    ASSUME TypeOK, crashes' = crashes, stored' = stored,
           snap' = snap \/ \E x \in Savers : snap' = [snap EXCEPT ![x] = NoCheckpoint]
    PROVE  Sourced
  BY DEF TypeOK, Sourced

LEMMA SnapshotSource ==
    ASSUME TypeOK, [Next]_vars, ~CrashAndRestore
    PROVE  Sourced
<1> USE DEF runVars, ctxVars, loopVars, batchVars, saveVars, storeVars
<1>1. ASSUME NEW d \in Drivers, DriverStep(d) PROVE Sourced
  <2>1. CASE \E e : FailWorkflow(d, e)
    BY <2>1, SourcedFrame, SaverTypes DEF FailWorkflow, SaveCall
  <2>2. CASE ~\E e : FailWorkflow(d, e)
    <3>1. crashes' = crashes /\ stored' = stored
      BY <1>1, <2>2
         DEF DriverStep, ResumeRun, ResumeFails, LoopCancelled, LoopCompletes, LoopProcesses,
             BranchStart, PauseWorkflow, BranchDecides, BranchErrs, BranchSaved,
             BranchSaveFails, PauseSaved, PauseSaveFails, ProcessDone, BatchDone, FailSaved
    <3>2. snap' = snap \/ snap' = [snap EXCEPT ![<<d, NoStep>>] = NoCheckpoint]
      BY <1>1, <2>2
         DEF DriverStep, ResumeRun, ResumeFails, LoopCancelled, LoopCompletes, LoopProcesses,
             BranchStart, PauseWorkflow, BranchDecides, BranchErrs, BranchSaved,
             BranchSaveFails, PauseSaved, PauseSaveFails, ProcessDone, BatchDone, FailSaved,
             SaveCall, SaveReturn
    <3> QED
      BY <3>1, <3>2, SourcedFrame, SaverTypes
  <2> QED
    BY <2>1, <2>2
<1>2. ASSUME NEW d \in Drivers, NEW s \in Steps, WorkerStep(d, s) PROVE Sourced
  <2>1. /\ crashes' = crashes /\ stored' = stored
        /\ snap' = snap \/ snap' = [snap EXCEPT ![<<d, s>>] = NoCheckpoint]
    BY <1>2 DEF WorkerStep, WorkerStart, ExecSucceeds, ExecFails, WorkerSaved, WorkerSaveFails,
                SaveCall, SaveReturn
  <2> QED
    BY <2>1, SourcedFrame, SaverTypes
<1>3. ASSUME NEW x \in Savers, SaverStep(x) PROVE Sourced
  <2>1. CASE SaveClone(x) \/ SaveVersion(x)
    <3>1. PICK cp : /\ snap' = [snap EXCEPT ![x] = cp]
                    /\ cp.status \in {stepStatus, snap[x].status}
      BY <2>1 DEF SaveClone, SaveVersion
    <3>2. crashes' = crashes /\ stored' = stored /\ stepStatus' = stepStatus
      BY <2>1 DEF SaveClone, SaveVersion
    <3> QED
      BY <3>1, <3>2 DEF Sourced, TypeOK
  <2>2. CASE SaveStore(x)
    BY <2>2 DEF SaveStore, Successor, Sourced
  <2>3. CASE SaveCommit(x)
    BY <2>3, SourcedFrame DEF SaveCommit
  <2> QED
    BY <1>3, <2>1, <2>2, <2>3 DEF SaverStep
<1>4. CASE Environment
  <2>1. ASSUME NEW d \in Resumers, CompleteHumanStep(d) PROVE Sourced
    BY <2>1, SourcedFrame, SaverTypes DEF CompleteHumanStep, SaveCall
  <2>2. CASE \/ \E d \in Resumers : ClientDisconnects(d)
             \/ \E c \in Cancellers : CancelReads(c) \/ CancelFires(c)
    BY <2>2, SourcedFrame DEF ClientDisconnects, CancelReads, CancelFires
  <2>3. CASE CheckpointExpires
    BY <2>3 DEF CheckpointExpires, Sourced
  <2> QED
    BY <1>4, <2>1, <2>2, <2>3 DEF Environment
<1>5. CASE Run \/ UNCHANGED vars
  BY <1>5, SourcedFrame DEF Run, vars
<1> QED
  BY <1>1, <1>2, <1>3, <1>4, <1>5 DEF Next

LEMMA NextPast == OrderInv /\ BranchInv /\ PastInv /\ [Next]_vars => PastInv'
<1> SUFFICES ASSUME OrderInv, BranchInv, PastInv, [Next]_vars, crashes' = 0
             PROVE  Agrees(stored.status)' /\ \A x \in Savers : Agrees(snap[x].status)'
  BY DEF PastInv
<1>1. ~CrashAndRestore
  BY DEF CrashAndRestore, OrderInv, TypeOK
<1>2. Sourced
  BY <1>1, SnapshotSource DEF OrderInv
<1>3. crashes' = crashes /\ Agrees(stored.status) /\ \A x \in Savers : Agrees(snap[x].status)
  BY <1>2 DEF Sourced, PastInv
<1>4. \A s \in Steps : stepStatus[s] \in Done => stepStatus'[s] = stepStatus[s]
  <2>1. Forward
    BY StepsForward
  <2>2. \A v \in Done : \A w : ~CanTransition(v, w) /\ v # "running"
    BY DEF Done, CanTransition, ValidTransitions
  <2> QED
    BY <1>3, <2>1, <2>2 DEF Forward
<1>5. ASSUME NEW f, Agrees(f) PROVE \A s \in Steps : f[s] \in Done => stepStatus'[s] = f[s]
  BY <1>4, <1>5 DEF Agrees
<1>6. \A s \in Steps : NoCheckpoint.status[s] \notin Done
  BY DEF NoCheckpoint, Done
<1>7. Agrees(stored.status)'
  BY <1>2, <1>3, <1>5, <1>6 DEF Sourced, Agrees
<1>8. ASSUME NEW x \in Savers PROVE Agrees(snap[x].status)'
  BY <1>2, <1>3, <1>5, <1>6 DEF Sourced, Agrees
<1> QED
  BY <1>7, <1>8

\* Up to the first crash the stored checkpoint claims no step that the run
\* has not finished the same way: a slow save that overtakes others, a
\* refused one and one with unknown outcome all write past states.
THEOREM CheckpointsArePast == Spec => []StoredIsPast
<1>1. Init => OrderInv /\ BranchInv /\ PastInv
  <2> SUFFICES ASSUME Init PROVE BranchInv /\ PastInv
    BY InitOrder
  <2>1. \A s \in Steps : NoCheckpoint.status[s] \notin Done
    BY DEF NoCheckpoint, Done
  <2> QED
    BY <2>1 DEF Init, BranchInv, PastInv, Agrees
<1>2. OrderInv /\ BranchInv /\ PastInv /\ [Next]_vars => OrderInv' /\ BranchInv' /\ PastInv'
  BY NextOrder, NextBranch, NextPast
<1>3. PastInv => StoredIsPast
  BY DEF PastInv, Agrees, StoredIsPast
<1> QED
  BY <1>1, <1>2, <1>3, PTL DEF Spec

-----------------------------------------------------------------------------
(***************************************************************************)
(* The work list.  A round consumes the steps that were ready when it      *)
(* began and collects the ones that become ready meanwhile; together they  *)
(* are what the graph would offer (ExactInv).  A step that is done but not *)
(* yet resolved is with a worker that is saving, or that has failed its    *)
(* batch (ProgressInv), so none is left when the loop goes round.          *)
(***************************************************************************)
RoundPcs == {"process", "branch", "branchSave"}

BatchExact(d) ==
    /\ inline[d] \subseteq ReadyIn(resolved)
    /\ \A s \in ReadyIn(resolved) : s \in inline[d] \/ wpc[d][s] # "idle"
    /\ \A s \in inline[d] : wpc[d][s] = "idle"
    /\ \A s \in Steps : wpc[d][s] = "done" => s \in resolved \/ batchErr[d] # "none"
    /\ \A s \in Steps : wpc[d][s] \notin {"idle", "done"} => s \notin resolved

Exact(d) ==
    /\ dpc[d] = "loop" => todo[d] = ReadyIn(resolved)
    /\ dpc[d] \in RoundPcs =>
           todo[d] \cup inline[d] = ReadyIn(resolved) /\ todo[d] \cap inline[d] = {}
    /\ dpc[d] = "batch" => BatchExact(d)
    /\ dpc[d] \notin RoundPcs \cup {"batch"} => inline[d] = {}
    /\ dpc[d] # "batch" => batchErr[d] = "none"

ExactInv == \A d \in Drivers : Exact(d)

\* A driver outside the loop has no list and no batch.
LEMMA ExactOutside ==
    ASSUME NEW d, dpc[d] \notin LoopPcs
    PROVE  Exact(d) <=> inline[d] = {} /\ batchErr[d] = "none"
  BY DEF Exact, RoundPcs, LoopPcs

\* The lists of a driver only depend on the graph while it is in the loop.
LEMMA ExactStep ==
    ASSUME OwnerInv, ExactInv, NEW d \in Drivers,
           \A e \in Drivers : e # d =>
               /\ dpc'[e] = dpc[e] /\ todo'[e] = todo[e] /\ inline'[e] = inline[e]
               /\ batchErr'[e] = batchErr[e] /\ \A s \in Steps : wpc'[e][s] = wpc[e][s],
           dpc[d] \in LoopPcs \/ Owners = {} \/ resolved' = resolved,
           Exact(d)'
    PROVE  ExactInv'
<1> SUFFICES ASSUME NEW e \in Drivers, e # d PROVE Exact(e)'
  BY DEF ExactInv
<1>1. Exact(e)
  BY DEF ExactInv
<1>2. CASE dpc[e] \notin LoopPcs
  <2>1. inline'[e] = {} /\ batchErr'[e] = "none" /\ dpc'[e] \notin LoopPcs
    BY <1>1, <1>2, ExactOutside
  <2> QED
    BY <2>1 DEF Exact, RoundPcs, LoopPcs
<1>3. CASE dpc[e] \in LoopPcs
  <2>1. resolved' = resolved
    BY <1>3, OwnerAlone DEF Owners
  <2> QED
    BY <1>1, <2>1 DEF Exact, BatchExact, ReadyIn
<1> QED
  BY <1>2, <1>3

LEMMA ExactFrame ==
    ASSUME ExactInv, dpc' = dpc, todo' = todo, inline' = inline, batchErr' = batchErr,
           wpc' = wpc, resolved' = resolved
    PROVE  ExactInv'
  BY DEF ExactInv, Exact, BatchExact, ReadyIn

\* Resolving a ready step: the ready steps are the other ones, and those that
\* waited for it.
LEMMA ReadyAfter ==
    ASSUME NEW R \in SUBSET Steps, NEW s \in Steps
    PROVE  ReadyIn(R \cup {s}) = (ReadyIn(R) \ {s}) \cup NewlyReady(s, R)
  BY DependsOnType DEF ReadyIn, NewlyReady

LEMMA NewlyReadyIsNew ==
    ASSUME NEW R \in SUBSET Steps, NEW s \in Steps \ R
    PROVE  /\ NewlyReady(s, R) \cap ReadyIn(R) = {}
           /\ \A t \in NewlyReady(s, R) : t # s /\ ~(DependsOn[t] \subseteq R)
  BY DependsOnType DEF ReadyIn, NewlyReady

LEMMA FailWorkflowExact ==
    ASSUME TypeOK, OwnerInv, ExactInv, NEW d \in Drivers, NEW e, FailWorkflow(d, e)
    PROVE  ExactInv'
<1>1. Exact(d)'
  BY FailWorkflowEffect DEF Exact, RoundPcs
<1> QED
  BY <1>1, FailWorkflowEffect, ExactStep

LEMMA DriverExact ==
    ASSUME OrderInv, ExactInv, NEW d \in Drivers, DriverStep(d)
    PROVE  ExactInv'
<1> USE DEF OrderInv, runVars, ctxVars, loopVars, batchVars, saveVars, storeVars
<1>a. /\ dpc \in [Drivers -> DriverPcs] /\ todo \in [Drivers -> SUBSET Steps]
      /\ inline \in [Drivers -> SUBSET Steps] /\ resolved \in SUBSET Steps
      /\ wpc \in [Drivers -> [Steps -> WorkerPcs]]
      /\ Exact(d)
  BY DEF TypeOK, ExactInv
<1>1. CASE \E e : FailWorkflow(d, e)
  BY <1>1, FailWorkflowExact
<1>2. CASE ResumeRun(d)
  <2>1. /\ dpc[d] = "resumeSave" /\ dpc' = [dpc EXCEPT ![d] = "loop"]
        /\ todo' = [todo EXCEPT ![d] = ReadyIn(resolved)]
        /\ inline' = inline /\ batchErr' = batchErr /\ wpc' = wpc /\ resolved' = resolved
    BY <1>2 DEF ResumeRun, EnterLoop
  <2>2. dpc'[d] = "loop" /\ todo'[d] = ReadyIn(resolved)
    BY <1>a, <2>1
  <2>3. Exact(d)'
    BY <1>a, <2>1, <2>2 DEF Exact, RoundPcs, ReadyIn
  <2> QED
    BY <1>a, <2>1, <2>3, ExactStep
<1>3. CASE ResumeFails(d) \/ LoopCompletes(d) \/ PauseSaved(d) \/ FailSaved(d)
  <2>1. /\ dpc[d] \notin RoundPcs \cup {"batch"} /\ dpc' = [dpc EXCEPT ![d] = "done"]
        /\ todo' = todo \/ todo' = [todo EXCEPT ![d] = {}]
        /\ inline' = inline /\ batchErr' = batchErr /\ wpc' = wpc /\ resolved' = resolved
    BY <1>3 DEF ResumeFails, LoopCompletes, PauseSaved, FailSaved, RoundPcs
  <2>2. Exact(d)'
    BY <1>a, <2>1 DEF Exact, RoundPcs
  <2> QED
    BY <1>a, <2>1, <2>2, ExactStep
<1>4. CASE LoopProcesses(d) /\ ~\E e : FailWorkflow(d, e)
  <2> DEFINE ready == IF todo[d] = {} THEN ReadyIn(resolved) ELSE todo[d]
  <2>1. /\ dpc[d] = "loop" /\ dpc' = [dpc EXCEPT ![d] = "process"]
        /\ todo' = [todo EXCEPT ![d] = ready]
        /\ inline' = inline /\ batchErr' = batchErr /\ wpc' = wpc /\ resolved' = resolved
    BY <1>4 DEF LoopProcesses
  <2>2. ready = ReadyIn(resolved)
    BY <1>a, <2>1 DEF Exact
  <2> HIDE DEF ready
  <2>3. /\ dpc'[d] = "process" /\ todo'[d] = ReadyIn(resolved) /\ inline'[d] = {}
        /\ batchErr'[d] = "none"
    BY <1>a, <2>1, <2>2 DEF Exact, RoundPcs
  <2>4. Exact(d)'
    BY <2>1, <2>3 DEF Exact, RoundPcs, ReadyIn
  <2> QED
    BY <1>a, <2>1, <2>4, ExactStep
<1>5. ASSUME NEW s \in Steps, BranchStart(d, s), ~\E e : FailWorkflow(d, e) PROVE ExactInv'
  <2>1. /\ dpc[d] = "process" /\ dpc' = [dpc EXCEPT ![d] = "branch"] /\ todo' = todo
        /\ inline' = inline /\ batchErr' = batchErr /\ wpc' = wpc /\ resolved' = resolved
    BY <1>5 DEF BranchStart
  <2>2. Exact(d)'
    BY <1>a, <2>1 DEF Exact, RoundPcs, ReadyIn
  <2> QED
    BY <1>a, <2>1, <2>2, ExactStep
<1>6. ASSUME NEW s \in Steps, PauseWorkflow(d, s), ~\E e : FailWorkflow(d, e) PROVE ExactInv'
  <2>1. /\ dpc[d] = "process" /\ dpc' = [dpc EXCEPT ![d] = "pauseSave"]
        /\ todo' = [todo EXCEPT ![d] = {}] /\ inline' = [inline EXCEPT ![d] = {}]
        /\ batchErr' = batchErr /\ wpc' = wpc /\ resolved' = resolved
    BY <1>6 DEF PauseWorkflow
  <2>2. Exact(d)'
    BY <1>a, <2>1 DEF Exact, RoundPcs
  <2> QED
    BY <1>a, <2>1, <2>2, ExactStep
<1>7. ASSUME NEW st \in Done, BranchDecides(d, st) PROVE ExactInv'
  <2> DEFINE c == cur[d]
  <2>1. /\ dpc[d] = "branch" /\ dpc' = [dpc EXCEPT ![d] = "branchSave"]
        /\ todo' = [todo EXCEPT ![d] = todo[d] \ {c}]
        /\ inline' = [inline EXCEPT ![d] = inline[d] \cup NewlyReady(c, resolved)]
        /\ resolved' = resolved \cup {c} /\ batchErr' = batchErr /\ wpc' = wpc
    BY <1>7 DEF BranchDecides
  <2>2. /\ todo[d] \cup inline[d] = ReadyIn(resolved) /\ todo[d] \cap inline[d] = {}
        /\ c \in todo[d] /\ batchErr[d] = "none"
    BY <1>a, <2>1 DEF Exact, RoundPcs, ListInv
  <2>3. c \in Steps \ resolved
    BY <1>a, <2>2 DEF ReadyIn
  <2>4. /\ ReadyIn(resolved \cup {c}) = (ReadyIn(resolved) \ {c}) \cup NewlyReady(c, resolved)
        /\ NewlyReady(c, resolved) \cap ReadyIn(resolved) = {}
    BY <1>a, <2>3, ReadyAfter, NewlyReadyIsNew
  <2>5. /\ dpc'[d] = "branchSave" /\ todo'[d] = todo[d] \ {c} /\ batchErr'[d] = "none"
        /\ inline'[d] = inline[d] \cup NewlyReady(c, resolved)
    BY <1>a, <2>1, <2>2
  <2> HIDE DEF c
  <2>6. /\ todo'[d] \cup inline'[d] = ReadyIn(resolved \cup {c})
        /\ todo'[d] \cap inline'[d] = {}
    BY <2>2, <2>4, <2>5
  <2>7. Exact(d)'
    BY <2>1, <2>5, <2>6 DEF Exact, RoundPcs, ReadyIn
  <2> QED
    BY <1>a, <2>1, <2>7, ExactStep DEF LoopPcs
<1>8. CASE BranchSaved(d)
  <2>1. /\ dpc[d] = "branchSave" /\ dpc' = [dpc EXCEPT ![d] = "process"] /\ todo' = todo
        /\ inline' = inline /\ batchErr' = batchErr /\ wpc' = wpc /\ resolved' = resolved
    BY <1>8 DEF BranchSaved
  <2>2. Exact(d)'
    BY <1>a, <2>1 DEF Exact, RoundPcs, ReadyIn
  <2> QED
    BY <1>a, <2>1, <2>2, ExactStep
<1>9. CASE ProcessDone(d) /\ todo[d] = {}
  <2>1. /\ dpc[d] = "process" /\ dpc' = [dpc EXCEPT ![d] = "loop"]
        /\ todo' = [todo EXCEPT ![d] = inline[d]] /\ inline' = [inline EXCEPT ![d] = {}]
        /\ batchErr' = batchErr /\ wpc' = wpc /\ resolved' = resolved
    BY <1>9 DEF ProcessDone
  <2>2. /\ dpc'[d] = "loop" /\ todo'[d] = ReadyIn(resolved) /\ inline'[d] = {}
        /\ batchErr'[d] = "none"
    BY <1>9, <1>a, <2>1 DEF Exact, RoundPcs
  <2>3. Exact(d)'
    BY <2>1, <2>2 DEF Exact, RoundPcs, ReadyIn
  <2> QED
    BY <1>a, <2>1, <2>3, ExactStep
<1>10. CASE ProcessDone(d) /\ todo[d] # {}
  <2>1. /\ dpc[d] = "process" /\ dpc' = [dpc EXCEPT ![d] = "batch"]
        /\ wpc' = [wpc EXCEPT ![d] =
                [s \in Steps |-> IF s \in todo[d] THEN "queued" ELSE "idle"]]
        /\ todo' = [todo EXCEPT ![d] = {}] /\ inline' = inline
        /\ batchErr' = batchErr /\ resolved' = resolved
    BY <1>10 DEF ProcessDone
  <2>2. /\ todo[d] \cup inline[d] = ReadyIn(resolved) /\ todo[d] \cap inline[d] = {}
        /\ batchErr[d] = "none"
    BY <1>a, <2>1 DEF Exact, RoundPcs
  <2>3. /\ dpc'[d] = "batch"
        /\ \A s \in Steps : wpc'[d][s] = IF s \in todo[d] THEN "queued" ELSE "idle"
        /\ \A e \in Drivers : e # d => \A s \in Steps : wpc'[e][s] = wpc[e][s]
    BY <1>a, <2>1
  <2>4. BatchExact(d)'
    BY <1>a, <2>1, <2>2, <2>3 DEF BatchExact, ReadyIn
  <2>5. Exact(d)'
    BY <2>3, <2>4 DEF Exact, RoundPcs
  <2> QED
    BY <1>a, <2>1, <2>3, <2>5, ExactStep
<1>11. CASE BatchDone(d) /\ ~\E e : FailWorkflow(d, e)
  <2>1. /\ dpc[d] = "batch" /\ dpc' = [dpc EXCEPT ![d] = "loop"]
        /\ todo' = [todo EXCEPT ![d] = inline[d]] /\ inline' = [inline EXCEPT ![d] = {}]
        /\ wpc' = [wpc EXCEPT ![d] = [s \in Steps |-> "idle"]]
        /\ batchErr' = batchErr /\ resolved' = resolved
        /\ batchErr[d] = "none" /\ \A s \in Steps : wpc[d][s] \in {"idle", "done"}
    BY <1>11 DEF BatchDone
  <2>2. BatchExact(d)
    BY <1>a, <2>1 DEF Exact
  <2>3. inline[d] = ReadyIn(resolved)
    BY <2>1, <2>2 DEF BatchExact, ReadyIn
  <2>4. /\ dpc'[d] = "loop" /\ todo'[d] = ReadyIn(resolved) /\ inline'[d] = {}
        /\ \A e \in Drivers : e # d => \A s \in Steps : wpc'[e][s] = wpc[e][s]
    BY <1>a, <2>1, <2>3
  <2>5. Exact(d)'
    BY <2>1, <2>4 DEF Exact, RoundPcs, ReadyIn
  <2> QED
    BY <1>a, <2>1, <2>4, <2>5, ExactStep
<1> QED
  BY <1>1, <1>2, <1>3, <1>4, <1>5, <1>6, <1>7, <1>8, <1>9, <1>10, <1>11
     DEF DriverStep, LoopCancelled, BranchErrs, BranchSaveFails, PauseSaveFails

LEMMA WorkerExact ==
    ASSUME OrderInv, ExactInv, NEW d \in Drivers, NEW s \in Steps, WorkerStep(d, s)
    PROVE  ExactInv'
<1> USE DEF OrderInv, runVars, ctxVars, loopVars, batchVars, saveVars, storeVars
<1>a. /\ inline \in [Drivers -> SUBSET Steps] /\ resolved \in SUBSET Steps
      /\ wpc \in [Drivers -> [Steps -> WorkerPcs]]
      /\ batchErr \in [Drivers -> ErrorKinds \cup {"none"}]
  BY DEF TypeOK
<1>b. /\ wpc[d][s] \notin {"idle", "done"} /\ dpc' = dpc /\ todo' = todo
  BY DEF WorkerStep, WorkerStart, ExecSucceeds, ExecFails, WorkerSaved, WorkerSaveFails
<1>c. dpc[d] = "batch" /\ BatchExact(d) /\ s \notin resolved
  <2>1. dpc[d] = "batch"
    BY <1>b, WorkerAlone
  <2> QED
    BY <1>b, <2>1 DEF ExactInv, Exact, BatchExact
<1>d. dpc[d] \in LoopPcs
  BY <1>c DEF LoopPcs
<1>1. ASSUME NEW v, v # "idle", wpc' = [wpc EXCEPT ![d] = [wpc[d] EXCEPT ![s] = v]],
             inline' = inline, resolved' = resolved,
             \A e \in Drivers : e # d => batchErr'[e] = batchErr[e],
             batchErr[d] # "none" => batchErr'[d] # "none",
             v = "done" => batchErr'[d] # "none"
      PROVE  ExactInv'
  <2>1. \A e \in Drivers, t \in Steps : wpc'[e][t] = IF e = d /\ t = s THEN v ELSE wpc[e][t]
    BY <1>a, <1>1
  <2>2. BatchExact(d)'
    BY <1>1, <1>b, <1>c, <2>1 DEF BatchExact, ReadyIn
  <2>3. Exact(d)'
    BY <1>b, <1>c, <2>2 DEF Exact, RoundPcs
  <2> QED
    BY <1>1, <1>b, <2>1, <2>3, ExactStep
<1>2. ASSUME NEW e \in ErrorKinds, WorkerReturns(d, s, e), inline' = inline, resolved' = resolved
      PROVE  ExactInv'
  <2>1. /\ wpc' = [wpc EXCEPT ![d] = [wpc[d] EXCEPT ![s] = "done"]]
        /\ \A f \in Drivers : f # d => batchErr'[f] = batchErr[f]
        /\ batchErr'[d] # "none"
    BY <1>2, <1>a DEF WorkerReturns, ErrorKinds
  <2> QED
    BY <1>1, <1>2, <2>1
<1>3. CASE WorkerStart(d, s)
  <2>1. inline' = inline /\ resolved' = resolved
    BY <1>3 DEF WorkerStart
  <2>2. \/ WorkerReturns(d, s, "other")
        \/ wpc' = [wpc EXCEPT ![d] = [wpc[d] EXCEPT ![s] = "exec"]] /\ batchErr' = batchErr
    BY <1>3 DEF WorkerStart
  <2> QED
    BY <1>1, <1>2, <2>1, <2>2 DEF ErrorKinds
<1>4. CASE ExecSucceeds(d, s)
  BY <1>1, <1>4 DEF ExecSucceeds
<1>5. ASSUME NEW st, NEW e \in ErrorKinds, ExecFails(d, s, st, e) PROVE ExactInv'
  <2>1. inline' = inline /\ resolved' = resolved
    BY <1>5 DEF ExecFails
  <2>2. \/ WorkerReturns(d, s, e)
        \/ wpc' = [wpc EXCEPT ![d] = [wpc[d] EXCEPT ![s] = "retry"]] /\ batchErr' = batchErr
    BY <1>5 DEF ExecFails
  <2> QED
    BY <1>1, <1>2, <2>1, <2>2
<1>6. CASE WorkerSaveFails(d, s)
  BY <1>2, <1>6 DEF WorkerSaveFails, ErrorKinds
<1>7. CASE WorkerSaved(d, s)
  <2>1. /\ wpc' = [wpc EXCEPT ![d] = [wpc[d] EXCEPT ![s] = "done"]]
        /\ inline' = [inline EXCEPT ![d] = inline[d] \cup NewlyReady(s, resolved)]
        /\ resolved' = resolved \cup {s} /\ batchErr' = batchErr
    BY <1>7 DEF WorkerSaved
  <2>2. /\ \A e \in Drivers, t \in Steps :
               wpc'[e][t] = IF e = d /\ t = s THEN "done" ELSE wpc[e][t]
        /\ inline'[d] = inline[d] \cup NewlyReady(s, resolved)
        /\ \A e \in Drivers : e # d => inline'[e] = inline[e]
    BY <1>a, <2>1
  <2>3. /\ ReadyIn(resolved \cup {s}) = (ReadyIn(resolved) \ {s}) \cup NewlyReady(s, resolved)
        /\ \A t \in NewlyReady(s, resolved) : t # s /\ ~(DependsOn[t] \subseteq resolved)
        /\ NewlyReady(s, resolved) \subseteq Steps
    BY <1>a, <1>c, ReadyAfter, NewlyReadyIsNew DEF NewlyReady
  <2>4. \A t \in NewlyReady(s, resolved) : wpc[d][t] = "idle"
    BY <2>3 DEF WorkerInv
  <2>5. ReadyIn(resolved)' = ReadyIn(resolved \cup {s})
    BY <2>1 DEF ReadyIn
  <2>6. /\ inline'[d] \subseteq ReadyIn(resolved \cup {s})
        /\ \A t \in ReadyIn(resolved \cup {s}) : t \in inline'[d] \/ wpc'[d][t] # "idle"
        /\ \A t \in inline'[d] : wpc'[d][t] = "idle"
    <3>1. ReadyIn(resolved) \subseteq Steps /\ s \notin inline[d]
      BY <1>b, <1>c DEF ReadyIn, BatchExact
    <3> QED
      BY <1>c, <2>2, <2>3, <2>4, <3>1 DEF BatchExact
  <2>7. /\ \A t \in Steps : wpc'[d][t] = "done" => t \in resolved' \/ batchErr'[d] # "none"
        /\ \A t \in Steps : wpc'[d][t] \notin {"idle", "done"} => t \notin resolved'
    BY <1>c, <2>1, <2>2 DEF BatchExact
  <2>8. Exact(d)'
    BY <1>b, <1>c, <2>5, <2>6, <2>7 DEF Exact, BatchExact, RoundPcs
  <2> QED
    BY <1>b, <1>d, <2>1, <2>2, <2>8, ExactStep
<1> QED
  BY <1>3, <1>4, <1>5, <1>6, <1>7 DEF WorkerStep

LEMMA NextExact == OrderInv /\ ExactInv /\ [Next]_vars => ExactInv'
<1> SUFFICES ASSUME OrderInv, ExactInv, [Next]_vars PROVE ExactInv'
  OBVIOUS
<1> USE DEF runVars, ctxVars, loopVars, batchVars, saveVars, storeVars
<1>1. CASE Run
  <2>1. /\ dpc["run"] = "idle" /\ dpc' = [dpc EXCEPT !["run"] = "loop"]
        /\ todo' = [todo EXCEPT !["run"] = ReadyIn(resolved)]
        /\ inline' = inline /\ batchErr' = batchErr /\ wpc' = wpc /\ resolved' = resolved
    BY <1>1 DEF Run, EnterLoop
  <2>2. dpc'["run"] = "loop" /\ todo'["run"] = ReadyIn(resolved)
    BY <2>1, SaverTypes DEF OrderInv, TypeOK
  <2>3. Exact("run")
    BY SaverTypes DEF ExactInv
  <2>4. Exact("run")'
    BY <2>1, <2>2, <2>3 DEF Exact, RoundPcs, ReadyIn
  <2>5. \A e \in Drivers : e # "run" => dpc'[e] = dpc[e] /\ todo'[e] = todo[e]
    BY <2>1, SaverTypes DEF OrderInv, TypeOK
  <2> QED
    BY <2>1, <2>4, <2>5, ExactStep, SaverTypes DEF OrderInv
<1>2. ASSUME NEW d \in Drivers, DriverStep(d) PROVE ExactInv'
  BY <1>2, DriverExact
<1>3. ASSUME NEW d \in Drivers, NEW s \in Steps, WorkerStep(d, s) PROVE ExactInv'
  BY <1>3, WorkerExact
<1>4. CASE \E x \in Savers : SaverStep(x)
  BY <1>4, ExactFrame DEF SaverStep, SaveClone, SaveVersion, SaveStore, SaveCommit
<1>5. CASE Environment
  <2>1. ASSUME NEW d \in Resumers, CompleteHumanStep(d) PROVE ExactInv'
    <3>1. /\ dpc[d] = "idle" /\ dpc' = [dpc EXCEPT ![d] = "resumeSave"] /\ Owners = {}
          /\ todo' = todo /\ inline' = inline /\ batchErr' = batchErr /\ wpc' = wpc
      BY <2>1 DEF CompleteHumanStep, OrderInv, OwnerInv
    <3>2. d \in Drivers /\ \A e \in Drivers : dpc'[e] = IF e = d THEN "resumeSave" ELSE dpc[e]
      BY <3>1, SaverTypes DEF OrderInv, TypeOK
    <3>3. Exact(d)'
      BY <3>1, <3>2 DEF ExactInv, Exact, RoundPcs
    <3> QED
      BY <3>1, <3>2, <3>3, ExactStep DEF OrderInv
  <2>2. CASE \/ \E d \in Resumers : ClientDisconnects(d)
             \/ \E c \in Cancellers : CancelReads(c) \/ CancelFires(c)
             \/ CheckpointExpires
    BY <2>2, ExactFrame DEF ClientDisconnects, CancelReads, CancelFires, CheckpointExpires
  <2>3. CASE CrashAndRestore
    <3>1. \A d \in Drivers :
              dpc'[d] \in {"idle", "done"} /\ inline'[d] = {} /\ batchErr'[d] = "none"
      BY <2>3 DEF CrashAndRestore
    <3> QED
      BY <3>1 DEF ExactInv, Exact, RoundPcs
  <2> QED
    BY <1>5, <2>1, <2>2, <2>3 DEF Environment
<1>6. CASE UNCHANGED vars
  BY <1>6, ExactFrame DEF vars
<1> QED
  BY <1>1, <1>2, <1>3, <1>4, <1>5, <1>6 DEF Next

-----------------------------------------------------------------------------
Unsettled(d, s) == wpc[d][s] = "saving" \/ (wpc[d][s] = "done" /\ batchErr[d] # "none")

ProgressInv ==
    ~Stopped => \A s \in DoneSteps \ resolved :
        \E d \in Drivers : dpc[d] = "batch" /\ Unsettled(d, s)

\* Outside a batch the graph has resolved every step that is done.
LEMMA SettledOutside ==
    ASSUME ProgressInv, ~Stopped, \A d \in Drivers : dpc[d] # "batch"
    PROVE  DoneSteps \subseteq resolved
  BY DEF ProgressInv

LEMMA SettledInLoop ==
    ASSUME OrderInv, ProgressInv, NEW d \in Drivers, dpc[d] \in LoopPcs \ {"batch"}
    PROVE  DoneSteps \subseteq resolved
<1>1. ~Stopped
  BY DEF Stopped, Owners
<1>2. \A e \in Drivers : dpc[e] # "batch"
  BY OwnerAlone DEF OrderInv, LoopPcs
<1> QED
  BY <1>1, <1>2, SettledOutside

\* Nothing is done or resolved, and no batch moves.
LEMMA ProgressFrame ==
    ASSUME ProgressInv, ~Stopped, DoneSteps' = DoneSteps, resolved' = resolved,
           \A d \in Drivers : dpc[d] = "batch" =>
               /\ dpc'[d] = dpc[d] /\ batchErr'[d] = batchErr[d]
               /\ \A s \in Steps : wpc'[d][s] = wpc[d][s]
    PROVE  ProgressInv'
  BY DEF ProgressInv, Unsettled, DoneSteps

LEMMA FailWorkflowProgress ==
    ASSUME OrderInv, ProgressInv, ~Stopped, NEW d \in Drivers, NEW e, FailWorkflow(d, e)
    PROVE  ProgressInv'
<1> USE DEF OrderInv
<1>1. CASE dpc[d] \in LoopPcs
  <2>1. \A f \in Drivers : f # d => dpc[f] \notin LoopPcs
    BY <1>1, OwnerAlone
  <2>2. pausedStepID = NoStep /\ dpc["run"] # "idle"
    BY <1>1 DEF OwnerInv, Owners
  <2>3. Stopped'
    BY <2>1, <2>2, FailWorkflowEffect, SaverTypes DEF Stopped, Owners, LoopPcs
  <2> QED
    BY <2>3 DEF ProgressInv
<1>2. CASE dpc[d] \notin LoopPcs
  <2>1. DoneSteps' = DoneSteps
    BY FailWorkflowEffect DEF DoneSteps, MarkRunningStepsCancelled, Done
  <2> QED
    BY <1>2, <2>1, FailWorkflowEffect, ProgressFrame DEF LoopPcs
<1> QED
  BY <1>1, <1>2

LEMMA DriverProgress ==
    ASSUME OrderInv, ProgressInv, ~Stopped, NEW d \in Drivers, DriverStep(d)
    PROVE  ProgressInv'
<1> USE DEF OrderInv, runVars, ctxVars, loopVars, batchVars, saveVars, storeVars
<1>1. CASE \E e : FailWorkflow(d, e)
  BY <1>1, FailWorkflowProgress
<1>2. CASE /\ ~\E e : FailWorkflow(d, e)
           /\ \/ ResumeRun(d) \/ ResumeFails(d) \/ LoopCompletes(d) \/ LoopProcesses(d)
              \/ BranchSaved(d) \/ PauseSaved(d) \/ FailSaved(d)
  <2>1. PICK v : dpc' = [dpc EXCEPT ![d] = v]
    BY <1>2 DEF ResumeRun, EnterLoop, ResumeFails, LoopCompletes, LoopProcesses, BranchSaved,
                PauseSaved, FailSaved
  <2>2. /\ dpc[d] # "batch" /\ stepStatus' = stepStatus /\ resolved' = resolved
        /\ wpc' = wpc /\ batchErr' = batchErr
    BY <1>2 DEF ResumeRun, ResumeFails, LoopCompletes, LoopProcesses, BranchSaved, PauseSaved,
                FailSaved
  <2>3. DoneSteps' = DoneSteps /\ \A e \in Drivers : dpc[e] = "batch" => dpc'[e] = dpc[e]
    BY <2>1, <2>2 DEF DoneSteps, TypeOK
  <2> QED
    BY <2>2, <2>3, ProgressFrame
<1>3. ASSUME NEW s \in Steps, BranchStart(d, s) \/ PauseWorkflow(d, s), ~FailWorkflow(d, "other")
      PROVE  ProgressInv'
  <2>1. /\ dpc[d] = "process" /\ stepStatus' = [stepStatus EXCEPT ![s] = "running"]
        /\ resolved' = resolved
    BY <1>3 DEF BranchStart, PauseWorkflow
  <2>2. DoneSteps' \subseteq DoneSteps
    BY <2>1 DEF DoneSteps, Done, TypeOK
  <2>3. DoneSteps \subseteq resolved
    BY <2>1, SettledInLoop DEF LoopPcs
  <2> QED
    BY <2>1, <2>2, <2>3 DEF ProgressInv
<1>4. ASSUME NEW st \in Done, BranchDecides(d, st) PROVE ProgressInv'
  <2>1. /\ dpc[d] = "branch" /\ stepStatus' = [stepStatus EXCEPT ![cur[d]] = st]
        /\ resolved' = resolved \cup {cur[d]}
    BY <1>4 DEF BranchDecides
  <2>2. DoneSteps' \subseteq DoneSteps \cup {cur[d]}
    BY <2>1 DEF DoneSteps, TypeOK
  <2>3. DoneSteps \subseteq resolved
    BY <2>1, SettledInLoop DEF LoopPcs
  <2> QED
    BY <2>1, <2>2, <2>3 DEF ProgressInv
<1>5. CASE ProcessDone(d)
  <2>1. dpc[d] = "process" /\ stepStatus' = stepStatus /\ resolved' = resolved
    BY <1>5 DEF ProcessDone
  <2>2. DoneSteps \subseteq resolved
    BY <2>1, SettledInLoop DEF LoopPcs
  <2> QED
    BY <2>1, <2>2 DEF ProgressInv, DoneSteps
<1>6. CASE BatchDone(d) /\ ~\E e : FailWorkflow(d, e)
  <2>1. /\ dpc[d] = "batch" /\ stepStatus' = stepStatus /\ resolved' = resolved
        /\ batchErr[d] = "none" /\ \A s \in Steps : wpc[d][s] \in {"idle", "done"}
    BY <1>6 DEF BatchDone
  <2>2. \A e \in Drivers : e # d => dpc[e] # "batch"
    BY <2>1, OwnerAlone DEF LoopPcs
  <2>3. DoneSteps \subseteq resolved
    BY <2>1, <2>2 DEF ProgressInv, Unsettled, DoneSteps
  <2> QED
    BY <2>1, <2>3 DEF ProgressInv, DoneSteps
<1> QED
  BY <1>1, <1>2, <1>3, <1>4, <1>5, <1>6
     DEF DriverStep, LoopCancelled, BranchErrs, BranchSaveFails, PauseSaveFails

LEMMA WorkerProgress ==
    ASSUME OrderInv, ProgressInv, ~Stopped, NEW d \in Drivers, NEW s \in Steps, WorkerStep(d, s)
    PROVE  ProgressInv'
<1> USE DEF OrderInv, runVars, ctxVars, loopVars, batchVars, saveVars, storeVars
<1>1. PICK v : wpc' = [wpc EXCEPT ![d] = [wpc[d] EXCEPT ![s] = v]]
  BY DEF WorkerStep, WorkerStart, ExecSucceeds, ExecFails, WorkerSaved, WorkerSaveFails,
         WorkerReturns
<1>2. \A f \in Drivers, t \in Steps : wpc'[f][t] = IF f = d /\ t = s THEN v ELSE wpc[f][t]
  BY <1>1 DEF TypeOK
<1>3. dpc' = dpc /\ wpc[d][s] # "idle" /\ \A t \in Steps : t # s => stepStatus'[t] = stepStatus[t]
  BY DEF WorkerStep, WorkerStart, ExecSucceeds, ExecFails, WorkerSaved, WorkerSaveFails,
         TypeOK
<1>4. dpc[d] = "batch" /\ \A f \in Drivers : f # d => dpc[f] # "batch"
  BY <1>3, WorkerAlone DEF LoopPcs
<1>5. resolved \subseteq resolved' /\ (batchErr[d] # "none" => batchErr'[d] # "none")
  BY DEF WorkerStep, WorkerStart, ExecSucceeds, ExecFails, WorkerSaved, WorkerSaveFails,
         WorkerReturns, TypeOK
<1>6. s \in DoneSteps' \ resolved' => Unsettled(d, s)'
  <2>1. CASE WorkerStart(d, s)
    <3>1. CASE s \in Executable /\ CanTransition(stepStatus[s], "running")
      <4>1. stepStatus'[s] = "running"
        BY <2>1, <3>1 DEF WorkerStart, TypeOK
      <4> QED
        BY <4>1 DEF DoneSteps, Done
    <3>2. CASE ~(s \in Executable /\ CanTransition(stepStatus[s], "running"))
      <4>1. WorkerReturns(d, s, "other")
        BY <2>1, <3>2 DEF WorkerStart
      <4> QED
        BY <4>1 DEF WorkerReturns, Unsettled, TypeOK
    <3> QED
      BY <3>1, <3>2
  <2>2. CASE ExecSucceeds(d, s)
    BY <2>2 DEF ExecSucceeds, Unsettled, TypeOK
  <2>3. CASE \E st \in {"failed", "timeout", "cancelled"}, e \in ErrorKinds :
                 ExecFails(d, s, st, e)
    BY <2>3 DEF ExecFails, DoneSteps, Done, TypeOK
  <2>4. CASE WorkerSaved(d, s)
    BY <2>4 DEF WorkerSaved
  <2>5. CASE WorkerSaveFails(d, s)
    BY <2>5 DEF WorkerSaveFails, WorkerReturns, Unsettled, TypeOK
  <2> QED
    BY <2>1, <2>2, <2>3, <2>4, <2>5 DEF WorkerStep
<1>7. \A t \in DoneSteps' \ resolved' : t # s => Unsettled(d, t)'
  <2> SUFFICES ASSUME NEW t \in DoneSteps' \ resolved', t # s PROVE Unsettled(d, t)'
    OBVIOUS
  <2>1. t \in Steps /\ t \in DoneSteps \ resolved
    BY <1>3, <1>5 DEF DoneSteps
  <2>2. Unsettled(d, t)
    BY <1>4, <2>1 DEF ProgressInv
  <2> QED
    BY <1>2, <1>5, <2>1, <2>2 DEF Unsettled
<1> QED
  BY <1>3, <1>4, <1>6, <1>7 DEF ProgressInv

LEMMA NextProgress == OrderInv /\ ProgressInv /\ [Next]_vars => ProgressInv'
<1> SUFFICES ASSUME OrderInv, ProgressInv, [Next]_vars PROVE ProgressInv'
  OBVIOUS
<1> USE DEF runVars, ctxVars, loopVars, batchVars, saveVars, storeVars
<1>1. CASE CrashAndRestore
  <2>1. DoneSteps' \subseteq resolved'
    BY <1>1 DEF CrashAndRestore, DoneSteps, Replayed, Done
  <2> QED
    BY <2>1 DEF ProgressInv
<1>2. CASE Stopped /\ ~CrashAndRestore
  BY <1>2, StoppedStays DEF ProgressInv
<1>3. CASE ~Stopped /\ ~CrashAndRestore
  <2>1. CASE Run
    <3>1. /\ dpc["run"] = "idle" /\ dpc' = [dpc EXCEPT !["run"] = "loop"]
          /\ stepStatus' = stepStatus /\ resolved' = resolved
          /\ wpc' = wpc /\ batchErr' = batchErr
      BY <2>1 DEF Run, EnterLoop
    <3>2. DoneSteps' = DoneSteps /\ \A e \in Drivers : dpc[e] = "batch" => dpc'[e] = dpc[e]
      BY <3>1 DEF DoneSteps, OrderInv, TypeOK
    <3> QED
      BY <1>3, <3>1, <3>2, ProgressFrame
  <2>2. CASE \E d \in Drivers : DriverStep(d)
    BY <1>3, <2>2, DriverProgress
  <2>3. CASE \E d \in Drivers, s \in Steps : WorkerStep(d, s)
    BY <1>3, <2>3, WorkerProgress
  <2>4. ASSUME NEW d \in Resumers, CompleteHumanStep(d) PROVE ProgressInv'
    <3>1. /\ Owners = {} /\ stepStatus' = [stepStatus EXCEPT ![pausedStepID] = "success"]
          /\ resolved' = resolved \cup {pausedStepID}
      BY <2>4 DEF CompleteHumanStep, OrderInv, OwnerInv
    <3>2. DoneSteps \subseteq resolved
      BY <1>3, <3>1, SettledOutside DEF Owners, LoopPcs
    <3>3. DoneSteps' \subseteq DoneSteps \cup {pausedStepID}
      BY <3>1 DEF DoneSteps, OrderInv, TypeOK
    <3> QED
      BY <3>1, <3>2, <3>3 DEF ProgressInv
  <2>5. CASE \/ \E x \in Savers : SaverStep(x)
             \/ \E d \in Resumers : ClientDisconnects(d)
             \/ \E c \in Cancellers : CancelReads(c) \/ CancelFires(c)
             \/ CheckpointExpires
             \/ UNCHANGED vars
    <3>1. /\ stepStatus' = stepStatus /\ resolved' = resolved /\ dpc' = dpc
          /\ wpc' = wpc /\ batchErr' = batchErr
      BY <2>5
         DEF SaverStep, SaveClone, SaveVersion, SaveStore, SaveCommit, ClientDisconnects,
             CancelReads, CancelFires, CheckpointExpires, vars
    <3> QED
      BY <1>3, <3>1, ProgressFrame DEF DoneSteps
  <2> QED
    BY <1>3, <2>1, <2>2, <2>3, <2>4, <2>5 DEF Next, Environment
<1> QED
  BY <1>1, <1>2, <1>3

\* Whenever runLoop looks at its list, the list is what ReadySteps would
\* return and the graph has resolved exactly the finished steps: pauses that
\* drop a round, branches, batches, restores and their failures lose no
\* ready step and repeat none.
THEOREM NoStepLost == Spec => []WorkListExact
<1>1. Init => OrderInv /\ ExactInv /\ ProgressInv
  <2> SUFFICES ASSUME Init PROVE ExactInv /\ ProgressInv
    BY InitOrder
  <2>1. ExactInv
    BY DEF Init, ExactInv, Exact, RoundPcs
  <2>2. DoneSteps = {}
    BY DEF Init, NewScheduler, DoneSteps, Done
  <2> QED
    BY <2>1, <2>2 DEF ProgressInv
<1>2. OrderInv /\ ExactInv /\ ProgressInv /\ [Next]_vars
          => OrderInv' /\ ExactInv' /\ ProgressInv'
  BY NextOrder, NextExact, NextProgress
<1>3. OrderInv /\ ExactInv /\ ProgressInv => WorkListExact
  <2> SUFFICES ASSUME OrderInv, ExactInv, ProgressInv, NEW d \in Drivers, dpc[d] = "loop"
               PROVE  todo[d] = ReadyIn(resolved) /\ resolved = DoneSteps
    BY DEF WorkListExact
  <2>1. DoneSteps \subseteq resolved
    BY SettledInLoop DEF LoopPcs
  <2> QED
    BY <2>1 DEF OrderInv, CloseInv, ExactInv, Exact
<1> QED
  BY <1>1, <1>2, <1>3, PTL DEF Spec

\* runLoop never fails with "workflow stalled with no ready steps": while a
\* step is missing, an acyclic graph that has resolved exactly the finished
\* steps has another one to offer.
THEOREM LoopNeverStalls ==
    Spec => [](\A d \in Drivers : dpc[d] = "loop" /\ DoneSteps # Steps => todo[d] # {})
<1> DEFINE Offers == \A d \in Drivers : dpc[d] = "loop" /\ DoneSteps # Steps => todo[d] # {}
<1>1. WorkListExact => Offers
  <2> SUFFICES ASSUME WorkListExact, NEW d \in Drivers, dpc[d] = "loop", DoneSteps # Steps
               PROVE  todo[d] # {}
    OBVIOUS
  <2>1. todo[d] = ReadyIn(resolved) /\ resolved = DoneSteps
    BY DEF WorkListExact
  <2>2. Steps \ resolved # {} /\ Steps \ resolved \in SUBSET Steps
    BY <2>1 DEF DoneSteps
  <2>3. PICK s \in Steps \ resolved : DependsOn[s] \cap (Steps \ resolved) = {}
    BY <2>2, DependsOnAcyclic
  <2>4. s \in ReadyIn(resolved)
    BY <2>3, DependsOnType DEF ReadyIn
  <2> QED
    BY <2>1, <2>4
<1> QED
  BY <1>1, NoStepLost, PTL

-----------------------------------------------------------------------------
(***************************************************************************)
(* The life of a run without a checkpointer, as run.Status shows it.  With *)
(* one, a failed save makes exceptions: Resume may leave a paused run that *)
(* has forgotten its step, a pause may fail a run that was resumed, and a  *)
(* crash starts a run over.                                                *)
(***************************************************************************)
StatusInv ==
    /\ \A x \in Savers : savePc[x] \in {"idle", "saved"}
    /\ stored = NoCheckpoint
    /\ dpc["run"] = "idle" => wfStatus = "pending"
    /\ \A d \in Drivers : dpc[d] \in LoopPcs \ {"resumeSave"} => wfStatus = "running"
    /\ \A d \in Drivers : dpc[d] = "resumeSave" => wfStatus = "paused"
    /\ pausedStepID # NoStep => wfStatus = "paused"
    /\ wfStatus = "paused" =>
           pausedStepID # NoStep \/ \E d \in Drivers : dpc[d] = "resumeSave"

\* Either nobody sees a change of the status, or it is one that RunLifecycle
\* allows.
StatusMoves == wfStatus' = wfStatus \/ Lifecycle!Next

LEMMA MoveAllowed ==
    ASSUME Lifecycle!Moves(wfStatus, wfStatus')
    PROVE  StatusMoves
  BY DEF StatusMoves, Lifecycle!Next, Lifecycle!Rests, Lifecycle!Comes, Lifecycle!Moves,
         Lifecycle!AtRest, Lifecycle!Ended

\* Without a checkpointer saveCheckpoint returns nil, and stores nothing.
LEMMA SavesTrivial ==
    ASSUME ~Checkpointing, TypeOK, StatusInv, [Next]_vars
    PROVE  /\ \A x \in Savers : savePc'[x] \in {"idle", "saved"}
           /\ stored' = NoCheckpoint
           /\ ~CrashAndRestore /\ \A x \in Savers : ~SaverStep(x)
           /\ \A d \in Drivers : ~PauseSaveFails(d) /\ ~ResumeFails(d) /\ ~BranchSaveFails(d)
<1> USE DEF runVars, ctxVars, loopVars, batchVars, saveVars, storeVars
<1>1. ~CrashAndRestore /\ \A x \in Savers : ~SaverStep(x)
  BY DEF CrashAndRestore, StatusInv, NoCheckpoint, SaverStep, SaveClone, SaveVersion,
         SaveStore, SaveCommit
<1>2. \A d \in Drivers : ~PauseSaveFails(d) /\ ~ResumeFails(d) /\ ~BranchSaveFails(d)
  BY SaverTypes DEF StatusInv, PauseSaveFails, ResumeFails, BranchSaveFails, SaveReturn
<1>a. ASSUME \/ savePc' = savePc
             \/ \E x \in Savers, v \in {"idle", "saved"} : savePc' = [savePc EXCEPT ![x] = v]
      PROVE  \A x \in Savers : savePc'[x] \in {"idle", "saved"}
  BY <1>a DEF StatusInv, TypeOK
<1>3. ASSUME NEW d \in Drivers, DriverStep(d)
      PROVE  /\ stored' = stored
             /\ \/ savePc' = savePc
                \/ \E v \in {"idle", "saved"} : savePc' = [savePc EXCEPT ![<<d, NoStep>>] = v]
  <2>1. CASE \E e : FailWorkflow(d, e)
    BY <2>1 DEF FailWorkflow, SaveCall
  <2>2. CASE ~\E e : FailWorkflow(d, e)
    <3>1. stored' = stored
      BY <1>3, <2>2
         DEF DriverStep, ResumeRun, ResumeFails, LoopCancelled, LoopCompletes, LoopProcesses,
             BranchStart, PauseWorkflow, BranchDecides, BranchErrs, BranchSaved,
             BranchSaveFails, PauseSaved, PauseSaveFails, ProcessDone, BatchDone, FailSaved
    <3>2. \/ savePc' = savePc
          \/ \E v \in {"idle", "saved"} : savePc' = [savePc EXCEPT ![<<d, NoStep>>] = v]
      BY <1>3, <2>2
         DEF DriverStep, ResumeRun, ResumeFails, LoopCancelled, LoopCompletes, LoopProcesses,
             BranchStart, PauseWorkflow, BranchDecides, BranchErrs, BranchSaved,
             BranchSaveFails, PauseSaved, PauseSaveFails, ProcessDone, BatchDone, FailSaved,
             SaveCall, SaveReturn
    <3> QED
      BY <3>1, <3>2
  <2> QED
    BY <2>1, <2>2
<1>4. ASSUME NEW d \in Drivers, NEW s \in Steps, WorkerStep(d, s)
      PROVE  /\ stored' = stored
             /\ \/ savePc' = savePc
                \/ \E v \in {"idle", "saved"} : savePc' = [savePc EXCEPT ![<<d, s>>] = v]
  BY <1>4 DEF WorkerStep, WorkerStart, ExecSucceeds, ExecFails, WorkerSaved, WorkerSaveFails,
              SaveCall, SaveReturn
<1>5. CASE Environment
  <2>1. stored' \in {stored, NoCheckpoint}
    BY <1>1, <1>5 DEF Environment, CompleteHumanStep, ClientDisconnects, CancelReads,
                      CancelFires, CheckpointExpires
  <2>2. \/ savePc' = savePc
        \/ \E d \in Resumers : savePc' = [savePc EXCEPT ![<<d, NoStep>>] = "saved"]
    BY <1>1, <1>5 DEF Environment, CompleteHumanStep, ClientDisconnects, CancelReads,
                      CancelFires, CheckpointExpires, SaveCall
  <2> QED
    BY <1>1, <1>2, <1>a, <2>1, <2>2, SaverTypes DEF StatusInv
<1>6. CASE Run \/ UNCHANGED vars
  BY <1>1, <1>2, <1>6, <1>a DEF Run, vars, StatusInv
<1> QED
  BY <1>1, <1>2, <1>3, <1>4, <1>5, <1>6, <1>a, SaverTypes DEF Next, StatusInv

\* The owner leaves the loop for good and sets the last status.
LEMMA OwnerEnds ==
    ASSUME OrderInv, StatusInv, NEW d \in Drivers, dpc[d] \in LoopPcs \ {"resumeSave"},
           NEW v \in {"failSave", "done"}, dpc' = [dpc EXCEPT ![d] = v],
           wfStatus' \in {"completed", "failed"}, pausedStepID' = pausedStepID,
           \A x \in Savers : savePc'[x] \in {"idle", "saved"}, stored' = NoCheckpoint
    PROVE  StatusInv' /\ StatusMoves
<1>1. wfStatus = "running" /\ d \in Owners
  BY DEF StatusInv, Owners
<1>2. pausedStepID = NoStep /\ dpc["run"] # "idle"
  BY <1>1 DEF OrderInv, OwnerInv
<1>3. \A e \in Drivers : dpc'[e] = IF e = d THEN v ELSE dpc[e]
  BY DEF OrderInv, TypeOK
<1>4. \A e \in Drivers : dpc'[e] \notin LoopPcs
  BY <1>3, OwnerAlone DEF OrderInv, LoopPcs
<1>5. dpc'["run"] # "idle"
  BY <1>2, <1>3, SaverTypes
<1>6. StatusInv'
  BY <1>2, <1>4, <1>5 DEF StatusInv, LoopPcs
<1>7. StatusMoves
  BY <1>1, MoveAllowed DEF Lifecycle!Moves, Lifecycle!AtRest, Lifecycle!Ended
<1> QED
  BY <1>6, <1>7

\* A driver moves inside the loop, or outside it, and no status changes.
LEMMA StatusMove ==
    ASSUME TypeOK, StatusInv, NEW d \in Drivers, NEW v,
           dpc' = [dpc EXCEPT ![d] = v], v \notin {"idle", "resumeSave"},
           dpc[d] # "resumeSave",
           v \in LoopPcs => dpc[d] \in LoopPcs,
           wfStatus' = wfStatus, pausedStepID' = pausedStepID,
           \A x \in Savers : savePc'[x] \in {"idle", "saved"}, stored' = NoCheckpoint
    PROVE  StatusInv' /\ StatusMoves
<1>1. \A e \in Drivers : dpc'[e] = IF e = d THEN v ELSE dpc[e]
  BY DEF TypeOK
<1>2. StatusInv'
  BY <1>1, SaverTypes DEF StatusInv, LoopPcs
<1> QED
  BY <1>2 DEF StatusMoves

LEMMA StatusFrame ==
    ASSUME StatusInv, dpc' = dpc, wfStatus' = wfStatus, pausedStepID' = pausedStepID,
           \A x \in Savers : savePc'[x] \in {"idle", "saved"}, stored' = NoCheckpoint
    PROVE  StatusInv' /\ StatusMoves
  BY DEF StatusInv, StatusMoves

\* A driver enters the loop of a run that is pending or was paused.
LEMMA StatusEnter ==
    ASSUME OrderInv, StatusInv, NEW d \in Drivers,
           dpc' = [dpc EXCEPT ![d] = "loop"], wfStatus' = "running",
           dpc[d] = "resumeSave" \/ (d = "run" /\ dpc[d] = "idle"),
           pausedStepID' = pausedStepID,
           \A x \in Savers : savePc'[x] \in {"idle", "saved"}, stored' = NoCheckpoint
    PROVE  StatusInv' /\ StatusMoves
<1>1. \A e \in Drivers : dpc'[e] = IF e = d THEN "loop" ELSE dpc[e]
  BY DEF OrderInv, TypeOK
<1>2. /\ \A e \in Drivers : e # d => dpc[e] \notin LoopPcs
      /\ pausedStepID = NoStep
      /\ d # "run" => dpc["run"] # "idle"
  <2>1. CASE dpc[d] = "resumeSave"
    <3>1. dpc[d] \in LoopPcs /\ d \in Owners
      BY <2>1 DEF Owners, LoopPcs
    <3> QED
      BY <3>1, OwnerAlone DEF OrderInv, OwnerInv
  <2>2. CASE d = "run" /\ dpc[d] = "idle"
    BY <2>2 DEF OrderInv, OwnerInv, Owners
  <2> QED
    BY <2>1, <2>2
<1>3. StatusInv'
  BY <1>1, <1>2, SaverTypes DEF StatusInv, LoopPcs
<1>4. wfStatus \in {"pending", "paused"}
  BY DEF StatusInv
<1>5. StatusMoves
  BY <1>4, MoveAllowed DEF Lifecycle!Moves
<1> QED
  BY <1>3, <1>5

LEMMA NextStatus ==
    ASSUME ~Checkpointing
    PROVE  OrderInv /\ StatusInv /\ [Next]_vars => StatusInv' /\ StatusMoves
<1> SUFFICES ASSUME OrderInv, StatusInv, [Next]_vars PROVE StatusInv' /\ StatusMoves
  OBVIOUS
<1> USE DEF runVars, ctxVars, loopVars, batchVars, saveVars, storeVars
<1>a. /\ \A x \in Savers : savePc'[x] \in {"idle", "saved"}
      /\ stored' = NoCheckpoint
      /\ ~CrashAndRestore /\ \A x \in Savers : ~SaverStep(x)
      /\ \A d \in Drivers : ~PauseSaveFails(d) /\ ~ResumeFails(d) /\ ~BranchSaveFails(d)
  BY SavesTrivial DEF OrderInv
<1>b. TypeOK
  BY DEF OrderInv
<1>1. CASE Run
  BY <1>1, <1>a, StatusEnter, SaverTypes DEF Run, EnterLoop
<1>2. ASSUME NEW d \in Drivers, DriverStep(d) PROVE StatusInv' /\ StatusMoves
  <2>1. ASSUME NEW e, FailWorkflow(d, e), dpc[d] \in LoopPcs \ {"resumeSave"}
        PROVE  StatusInv' /\ StatusMoves
    BY <2>1, <1>a, <1>b, FailWorkflowEffect, OwnerEnds
  <2>2. CASE ResumeRun(d)
    BY <2>2, <1>a, StatusEnter DEF ResumeRun, EnterLoop
  <2>3. CASE LoopCompletes(d)
    BY <2>3, <1>a, OwnerEnds DEF LoopCompletes, LoopPcs
  <2>4. CASE LoopCancelled(d) \/ BranchErrs(d)
    BY <2>4, <2>1 DEF LoopCancelled, BranchErrs, LoopPcs
  <2>5. CASE BranchSaved(d) \/ PauseSaved(d) \/ FailSaved(d)
    <3>1. PICK v \in {"process", "done"} :
              dpc' = [dpc EXCEPT ![d] = v] /\ (v \in LoopPcs => dpc[d] \in LoopPcs)
      BY <2>5 DEF BranchSaved, PauseSaved, FailSaved, LoopPcs
    <3>2. wfStatus' = wfStatus /\ pausedStepID' = pausedStepID /\ dpc[d] # "resumeSave"
      BY <2>5 DEF BranchSaved, PauseSaved, FailSaved
    <3> QED
      BY <1>a, <1>b, <3>1, <3>2, StatusMove
  <2>6. CASE \/ LoopProcesses(d) \/ ProcessDone(d) \/ BatchDone(d)
             \/ \E s \in Steps : BranchStart(d, s)
             \/ \E st \in Done : BranchDecides(d, st)
    <3>1. dpc[d] \in LoopPcs \ {"resumeSave"}
      BY <2>6 DEF LoopProcesses, ProcessDone, BatchDone, BranchStart, BranchDecides, LoopPcs
    <3>2. CASE \E e : FailWorkflow(d, e)
      BY <2>1, <3>1, <3>2
    <3>3. CASE ~\E e : FailWorkflow(d, e)
      <4>1. PICK v \in {"process", "loop", "batch", "branch", "branchSave"} :
                dpc' = [dpc EXCEPT ![d] = v]
        BY <2>6, <3>3 DEF LoopProcesses, ProcessDone, BatchDone, BranchStart, BranchDecides
      <4>2. wfStatus' = wfStatus /\ pausedStepID' = pausedStepID
        BY <2>6, <3>3 DEF LoopProcesses, ProcessDone, BatchDone, BranchStart, BranchDecides
      <4> QED
        BY <1>a, <1>b, <3>1, <4>1, <4>2, StatusMove
    <3> QED
      BY <3>2, <3>3
  <2>7. ASSUME NEW s \in Steps, PauseWorkflow(d, s) PROVE StatusInv' /\ StatusMoves
    <3>1. dpc[d] = "process" /\ dpc[d] \in LoopPcs \ {"resumeSave"}
      BY <2>7 DEF PauseWorkflow, LoopPcs
    <3>2. CASE FailWorkflow(d, "other")
      BY <2>1, <3>1, <3>2
    <3>3. CASE ~FailWorkflow(d, "other")
      <4>1. /\ dpc' = [dpc EXCEPT ![d] = "pauseSave"]
            /\ wfStatus' = "paused" /\ pausedStepID' = s
        BY <2>7, <3>3 DEF PauseWorkflow
      <4>2. /\ wfStatus = "running" /\ dpc["run"] # "idle"
            /\ \A e \in Drivers : e # d => dpc[e] \notin LoopPcs
        BY <3>1, OwnerAlone DEF StatusInv, OrderInv, OwnerInv, Owners
      <4>3. \A e \in Drivers : dpc'[e] \notin LoopPcs
        BY <1>b, <4>1, <4>2 DEF TypeOK, LoopPcs
      <4>4. dpc'["run"] # "idle"
        BY <1>b, <4>1, <4>2, SaverTypes DEF TypeOK
      <4>5. StatusInv'
        BY <1>a, <4>1, <4>3, <4>4, NamesDistinct DEF StatusInv, LoopPcs
      <4>6. StatusMoves
        BY <4>1, <4>2, MoveAllowed DEF Lifecycle!Moves, Lifecycle!AtRest
      <4> QED
        BY <4>5, <4>6
    <3> QED
      BY <3>2, <3>3
  <2> QED
    BY <1>2, <1>a, <2>2, <2>3, <2>4, <2>5, <2>6, <2>7 DEF DriverStep
<1>3. ASSUME NEW d \in Drivers, NEW s \in Steps, WorkerStep(d, s)
      PROVE  StatusInv' /\ StatusMoves
  <2>1. dpc' = dpc /\ wfStatus' = wfStatus /\ pausedStepID' = pausedStepID
    BY <1>3 DEF WorkerStep, WorkerStart, ExecSucceeds, ExecFails, WorkerSaved, WorkerSaveFails
  <2> QED
    BY <1>a, <2>1, StatusFrame
<1>4. ASSUME NEW d \in Resumers, CompleteHumanStep(d) PROVE StatusInv' /\ StatusMoves
  <2>1. /\ dpc' = [dpc EXCEPT ![d] = "resumeSave"] /\ d \in Drivers
        /\ pausedStepID # NoStep /\ pausedStepID' = NoStep /\ wfStatus' = wfStatus
    BY <1>4, SaverTypes DEF CompleteHumanStep
  <2>2. wfStatus = "paused" /\ Owners = {} /\ dpc["run"] # "idle"
    BY <2>1 DEF StatusInv, OrderInv, OwnerInv
  <2>3. \A e \in Drivers : dpc'[e] = IF e = d THEN "resumeSave" ELSE dpc[e]
    BY <1>b, <2>1 DEF TypeOK
  <2>4. StatusInv'
    BY <1>a, <2>1, <2>2, <2>3, SaverTypes DEF StatusInv, Owners, LoopPcs
  <2> QED
    BY <2>1, <2>4 DEF StatusMoves
<1>5. CASE \/ \E d \in Resumers : ClientDisconnects(d)
           \/ \E c \in Cancellers : CancelReads(c) \/ CancelFires(c)
           \/ CheckpointExpires
           \/ UNCHANGED vars
  <2>1. dpc' = dpc /\ wfStatus' = wfStatus /\ pausedStepID' = pausedStepID
    BY <1>5 DEF ClientDisconnects, CancelReads, CancelFires, CheckpointExpires, vars
  <2> QED
    BY <1>a, <2>1, StatusFrame
<1> QED
  BY <1>a, <1>1, <1>2, <1>3, <1>4, <1>5 DEF Next, Environment

LEMMA InitStatus == Init => StatusInv
  BY NamesDistinct DEF Init, NewScheduler, StatusInv, LoopPcs

\* Without a checkpointer a run that says "paused" while nobody works on it
\* knows the step a Resume must name.
THEOREM PausesResumable ==
    ASSUME ~Checkpointing
    PROVE  Spec => []PausedIsResumable
<1>1. Init => OrderInv /\ StatusInv
  BY InitOrder, InitStatus
<1>2. OrderInv /\ StatusInv /\ [Next]_vars => OrderInv' /\ StatusInv'
  BY NextOrder, NextStatus
<1>3. StatusInv => PausedIsResumable
  BY DEF StatusInv, PausedIsResumable
<1> QED
  BY <1>1, <1>2, <1>3, PTL DEF Spec

\* Without a checkpointer the safety part of LifecycleRefinement holds of
\* every workflow: run.Status starts once, alternates between running and
\* paused, and never leaves completed or failed.
THEOREM StatusIsLifecycle ==
    ASSUME ~Checkpointing
    PROVE  Spec => Lifecycle!Init /\ [][Lifecycle!Next]_wfStatus
<1>1. Init => OrderInv /\ StatusInv /\ Lifecycle!Init
  BY InitOrder, InitStatus DEF Init, NewScheduler, Lifecycle!Init
<1>2. OrderInv /\ StatusInv /\ [Next]_vars => OrderInv' /\ StatusInv'
  BY NextOrder, NextStatus
<1>3. OrderInv /\ StatusInv /\ [Next]_vars => [Lifecycle!Next]_wfStatus
  BY NextStatus DEF StatusMoves
<1> QED
  BY <1>1, <1>2, <1>3, PTL DEF Spec
=============================================================================
