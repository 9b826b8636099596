----------------------------- MODULE Scheduler -----------------------------
(***************************************************************************)
(* One workflow run under internal/dag/scheduler*.go: the run loop, the    *)
(* batch of goroutines that execute ready steps, branch and human steps,   *)
(* Resume and Cancel from other goroutines, the checkpoint each of them    *)
(* saves, and RestoreScheduler after a crash.                              *)
(*                                                                         *)
(* A driver is a goroutine inside Run or Resume.  A worker <<d, s>> is the *)
(* errgroup goroutine in which driver d executes step s.  Drivers and      *)
(* workers save checkpoints; the saver of a driver is <<d, NoStep>>.       *)
(* One action is one critical section of Scheduler.mu, together with the   *)
(* Graph calls and local work next to it that no other goroutine can tell  *)
(* apart.  The graph is the specification of it in module Dependencies.    *)
(***************************************************************************)
EXTENDS Dependencies, StepFSM

CONSTANTS
    Kind,            \* Kind[s]: "async", "branch" or "human"
    MaxRetries,      \* MaxRetries[s]: the retry policy, 0 without one
    Executable,      \* the async steps whose type has an executor
    MaxParallel,     \* the errgroup limit
    Checkpointing,   \* whether a checkpointer is configured
    Resumers,        \* the Resume calls that may arrive
    Cancellers,      \* the Cancel calls that may arrive
    Expiry,          \* whether a stored checkpoint may outlive its TTL
    MaxStoreErrors,  \* bound: failed store operations
    MaxCrashes       \* bound: crashes followed by RestoreScheduler

NoStep == ""
Nobody == "nobody"
Drivers == {"run"} \cup Resumers
Savers == Drivers \X (Steps \cup {NoStep})

ASSUME KindType == Kind \in [Steps -> {"async", "branch", "human"}]

ASSUME MaxRetriesType == MaxRetries \in [Steps -> Nat]

ASSUME ParallelType == MaxParallel \in Nat \ {0}   \* WithMaxParallelSteps

ASSUME FlagTypes == Checkpointing \in BOOLEAN /\ Expiry \in BOOLEAN

ASSUME BoundTypes == MaxStoreErrors \in Nat /\ MaxCrashes \in Nat

ASSUME NamesDistinct == NoStep \notin Steps /\ Nobody \notin Drivers /\ "run" \notin Resumers

VARIABLES
    wfStatus,      \* run.Status
    stepStatus,    \* run.StepStates[s].Status
    retryCount,    \* run.StepStates[s].RetryCount
    outputs,       \* the keys of stepOutputs
    resolved,      \* the steps the graph has resolved
    pausedStepID,  \* the human step the run waits for, or NoStep
    cpVersion,     \* checkpointVersion
    cancelFn,      \* whose context s.cancel cancels, or Nobody
    ctxDone,       \* the drivers whose context is cancelled
    dpc,           \* where each driver is
    todo,          \* a driver's readySteps: not yet processed
    inline,        \* steps that became ready during a driver's round
    cur,           \* the branch step a driver evaluates, or NoStep
    wpc,           \* wpc[d][s]: where worker <<d, s>> is
    batchErr,      \* the first error of a driver's errgroup
    savePc,        \* where each saver is inside saveCheckpoint
    snap,          \* the checkpoint a saver is building
    stored,        \* the checkpoint in the store; version 0: none
    cancelRef,     \* what a Cancel call has read from s.cancel
    storeErrors,   \* failed store operations so far
    crashes        \* crashes so far

runVars == <<wfStatus, stepStatus, retryCount, outputs, resolved, pausedStepID>>
ctxVars == <<cancelFn, ctxDone>>
loopVars == <<dpc, todo, inline, cur>>
batchVars == <<wpc, batchErr>>
saveVars == <<savePc, snap>>
storeVars == <<cpVersion, stored, storeErrors>>
vars == <<runVars, ctxVars, loopVars, batchVars, saveVars, storeVars, cancelRef, crashes>>

DriverPcs ==
    {"idle", "resumeSave", "loop", "process", "branch", "branchSave",
     "pauseSave", "batch", "failSave", "done"}
WorkerPcs == {"idle", "queued", "exec", "retry", "saving", "done"}
SaverPcs == {"idle", "clone", "version", "store", "written", "saved", "failed"}
ErrorKinds == {"canceled", "other"}

Checkpoints ==
    [version : Nat, status : [Steps -> StepStatuses], retry : [Steps -> Nat]]

NoCheckpoint ==
    [version |-> 0, status |-> [s \in Steps |-> "pending"], retry |-> [s \in Steps |-> 0]]

DoneSteps == {s \in Steps : stepStatus[s] \in Done}

\* The goroutine that owns the run: at most one driver may be here.
LoopPcs == {"resumeSave", "loop", "process", "branch", "branchSave", "batch"}
Owners == {d \in Drivers : dpc[d] \in LoopPcs}

\* Mutation of Active: a step between two attempts gives its slot back.
ActiveExec(d) == {s \in Steps : wpc[d][s] = "exec"}

\* The errgroup slots a driver's batch has in use.
Active(d) == {s \in Steps : wpc[d][s] \in {"exec", "retry", "saving"}}

TypeOK ==
    /\ wfStatus \in WorkflowStatuses
    /\ stepStatus \in [Steps -> StepStatuses]
    /\ retryCount \in [Steps -> Nat]
    /\ outputs \in SUBSET Steps
    /\ resolved \in SUBSET Steps
    /\ pausedStepID \in Steps \cup {NoStep}
    /\ cpVersion \in Nat
    /\ cancelFn \in Drivers \cup {Nobody}
    /\ ctxDone \in SUBSET Drivers
    /\ dpc \in [Drivers -> DriverPcs]
    /\ todo \in [Drivers -> SUBSET Steps]
    /\ inline \in [Drivers -> SUBSET Steps]
    /\ cur \in [Drivers -> Steps \cup {NoStep}]
    /\ wpc \in [Drivers -> [Steps -> WorkerPcs]]
    /\ batchErr \in [Drivers -> ErrorKinds \cup {"none"}]
    /\ savePc \in [Savers -> SaverPcs]
    /\ snap \in [Savers -> Checkpoints]
    /\ stored \in Checkpoints
    /\ cancelRef \in [Cancellers -> Drivers \cup {Nobody, "idle", "done"}]
    /\ storeErrors \in Nat
    /\ crashes \in Nat

\* NewScheduler and initStepStates.
NewScheduler ==
    /\ wfStatus = "pending"
    /\ stepStatus = [s \in Steps |-> "pending"]
    /\ retryCount = [s \in Steps |-> 0]
    /\ outputs = {}
    /\ resolved = {}
    /\ pausedStepID = NoStep
    /\ cpVersion = 0
    /\ cancelFn = Nobody
    /\ ctxDone = {}

Init ==
    /\ NewScheduler
    /\ dpc = [d \in Drivers |-> "idle"]
    /\ todo = [d \in Drivers |-> {}]
    /\ inline = [d \in Drivers |-> {}]
    /\ cur = [d \in Drivers |-> NoStep]
    /\ wpc = [d \in Drivers |-> [s \in Steps |-> "idle"]]
    /\ batchErr = [d \in Drivers |-> "none"]
    /\ savePc = [x \in Savers |-> "idle"]
    /\ snap = [x \in Savers |-> NoCheckpoint]
    /\ stored = NoCheckpoint
    /\ cancelRef = [c \in Cancellers |-> "idle"]
    /\ storeErrors = 0
    /\ crashes = 0

-----------------------------------------------------------------------------
(* saveCheckpoint: clone the step states, then read the version, then let  *)
(* the checkpointer compare and write, then remember the new version.      *)

\* Entering saveCheckpoint; without a checkpointer it returns nil at once.
SaveCall(x) ==
    /\ savePc' = [savePc EXCEPT ![x] = IF Checkpointing THEN "clone" ELSE "saved"]
    /\ snap' = [snap EXCEPT ![x] = NoCheckpoint]

\* saveCheckpoint has returned to its caller: "saved" for nil, or "failed".
SaveReturn(x, outcome) ==
    /\ savePc[x] = outcome
    /\ savePc' = [savePc EXCEPT ![x] = "idle"]
    /\ snap' = [snap EXCEPT ![x] = NoCheckpoint]

\* cloneStepStates(s.currentRun().StepStates)
SaveClone(x) ==
    /\ savePc[x] = "clone"
    /\ snap' = [snap EXCEPT ![x] =
            [version |-> 0, status |-> stepStatus, retry |-> retryCount]]
    /\ savePc' = [savePc EXCEPT ![x] = "version"]
    /\ UNCHANGED <<runVars, ctxVars, loopVars, batchVars, storeVars, cancelRef, crashes>>

\* Mutation of SaveVersion: the second critical section refreshes the states
\* that were still pending.
SaveVersionRefreshes(x) ==
    /\ savePc[x] = "version"
    /\ snap' = [snap EXCEPT ![x] =
            [version |-> cpVersion,
             status |-> [s \in Steps |-> IF snap[x].status[s] = "pending"
                                        THEN stepStatus[s] ELSE snap[x].status[s]],
             retry |-> snap[x].retry]]
    /\ savePc' = [savePc EXCEPT ![x] = "store"]
    /\ UNCHANGED <<runVars, ctxVars, loopVars, batchVars, storeVars, cancelRef, crashes>>

\* s.currentCheckpointVersion(), in a critical section of its own.
SaveVersion(x) ==
    /\ savePc[x] = "version"
    /\ snap' = [snap EXCEPT ![x] =
            [version |-> cpVersion, status |-> snap[x].status, retry |-> snap[x].retry]]
    /\ savePc' = [savePc EXCEPT ![x] = "store"]
    /\ UNCHANGED <<runVars, ctxVars, loopVars, batchVars, storeVars, cancelRef, crashes>>

\* The checkpoint that Save writes for a snapshot.
Successor(cp) == [version |-> cp.version + 1, status |-> cp.status, retry |-> cp.retry]

Accepted(x) == stored.version \in {0, snap[x].version}

\* Checkpointer.Save, atomic within a process (module Checkpointer): written,
\* refused for a version conflict, or failed in the store with or without
\* effect.
SaveStore(x) ==
    /\ savePc[x] = "store"
    /\ \/ /\ Accepted(x)
          /\ stored' = Successor(snap[x])
          /\ savePc' = [savePc EXCEPT ![x] = "written"]
          /\ UNCHANGED storeErrors
       \/ /\ ~Accepted(x)
          /\ savePc' = [savePc EXCEPT ![x] = "failed"]
          /\ UNCHANGED <<stored, storeErrors>>
       \/ /\ storeErrors < MaxStoreErrors
          /\ storeErrors' = storeErrors + 1
          /\ savePc' = [savePc EXCEPT ![x] = "failed"]
          /\ stored' \in {stored} \cup (IF Accepted(x) THEN {Successor(snap[x])} ELSE {})
    /\ UNCHANGED <<runVars, ctxVars, loopVars, batchVars, cpVersion, snap, cancelRef, crashes>>

\* s.checkpointVersion = cp.Version
SaveCommit(x) ==
    /\ savePc[x] = "written"
    /\ cpVersion' = snap[x].version + 1
    /\ savePc' = [savePc EXCEPT ![x] = "saved"]
    /\ UNCHANGED <<runVars, ctxVars, loopVars, batchVars, stored, storeErrors, snap,
                   cancelRef, crashes>>

SaverStep(x) == SaveClone(x) \/ SaveVersion(x) \/ SaveStore(x) \/ SaveCommit(x)

-----------------------------------------------------------------------------
(* The ways a driver leaves its loop.                                      *)

\* Mutation of MarkRunningStepsCancelled: every step is marked.
MarkAllStepsCancelled(status) == [s \in Steps |-> "cancelled"]

MarkRunningStepsCancelled(status) ==
    [s \in Steps |-> IF status[s] = "running" THEN "cancelled" ELSE status[s]]

\* failWorkflow with markRunningStepsCancelled, up to its best-effort save.
\* The driver's local lists are gone with its stack frame.
FailWorkflow(d, e) ==
    /\ stepStatus' = IF e = "canceled"
                     THEN MarkRunningStepsCancelled(stepStatus) ELSE stepStatus
    /\ wfStatus' = "failed"
    /\ dpc' = [dpc EXCEPT ![d] = "failSave"]
    /\ todo' = [todo EXCEPT ![d] = {}]
    /\ inline' = [inline EXCEPT ![d] = {}]
    /\ cur' = [cur EXCEPT ![d] = NoStep]
    /\ wpc' = [wpc EXCEPT ![d] = [s \in Steps |-> "idle"]]
    /\ batchErr' = [batchErr EXCEPT ![d] = "none"]
    /\ SaveCall(<<d, NoStep>>)
    /\ UNCHANGED <<retryCount, outputs, resolved, pausedStepID, ctxVars, storeVars,
                   cancelRef, crashes>>

\* Mutation of FailSaved: a failed save keeps failWorkflow from returning.
FailSavedStrict(d) ==
    /\ dpc[d] = "failSave"
    /\ SaveReturn(<<d, NoStep>>, "saved")
    /\ dpc' = [dpc EXCEPT ![d] = "done"]
    /\ UNCHANGED <<runVars, ctxVars, todo, inline, cur, batchVars, storeVars, cancelRef, crashes>>

\* The checkpoint of a failed run is best effort: its error is dropped.
FailSaved(d) ==
    /\ dpc[d] = "failSave"
    /\ \E outcome \in {"saved", "failed"} : SaveReturn(<<d, NoStep>>, outcome)
    /\ dpc' = [dpc EXCEPT ![d] = "done"]
    /\ UNCHANGED <<runVars, ctxVars, todo, inline, cur, batchVars, storeVars, cancelRef, crashes>>

-----------------------------------------------------------------------------
(* Entering and leaving the loop.                                          *)

\* setRunContext(d), the status change and ReadySteps at the head of runLoop.
EnterLoop(d) ==
    /\ cancelFn' = d
    /\ ctxDone' = ctxDone \cup ({cancelFn} \ {Nobody})
    /\ wfStatus' = "running"
    /\ todo' = [todo EXCEPT ![d] = ReadyIn(resolved)]
    /\ dpc' = [dpc EXCEPT ![d] = "loop"]

\* Scheduler.Run, which the manager calls once, in a goroutine of its own.
Run ==
    /\ dpc["run"] = "idle"
    /\ EnterLoop("run")
    /\ UNCHANGED <<stepStatus, retryCount, outputs, resolved, pausedStepID, inline, cur,
                   batchVars, saveVars, storeVars, cancelRef, crashes>>

\* Mutation of CompleteHumanStep: the paused step is not forgotten.
CompleteHumanStepKeepsPause(d) ==
    /\ dpc[d] = "idle"
    /\ pausedStepID # NoStep
    /\ stepStatus' = [stepStatus EXCEPT ![pausedStepID] = "success"]
    /\ outputs' = outputs \cup {pausedStepID}
    /\ resolved' = resolved \cup {pausedStepID}
    /\ dpc' = [dpc EXCEPT ![d] = "resumeSave"]
    /\ SaveCall(<<d, NoStep>>)
    /\ UNCHANGED <<wfStatus, retryCount, pausedStepID, ctxVars, todo, inline, cur, batchVars,
                   storeVars, cancelRef, crashes>>

\* Resume, completeHumanStep: accepted only for the step the run is paused
\* on; a call for another step returns an error and changes nothing.
CompleteHumanStep(d) ==
    /\ dpc[d] = "idle"
    /\ pausedStepID # NoStep
    /\ CanTransition(stepStatus[pausedStepID], "success")
    /\ stepStatus' = [stepStatus EXCEPT ![pausedStepID] = "success"]
    /\ outputs' = outputs \cup {pausedStepID}
    /\ resolved' = resolved \cup {pausedStepID}
    /\ pausedStepID' = NoStep
    /\ dpc' = [dpc EXCEPT ![d] = "resumeSave"]
    /\ SaveCall(<<d, NoStep>>)
    /\ UNCHANGED <<wfStatus, retryCount, ctxVars, todo, inline, cur, batchVars, storeVars,
                   cancelRef, crashes>>

\* The rest of Resume.  runLoop appends what MarkComplete returned to
\* ReadySteps, which holds it already; processReadySteps goes through the
\* list with dedupeStrings, so a list stands for the set of its steps.
ResumeRun(d) ==
    /\ dpc[d] = "resumeSave"
    /\ SaveReturn(<<d, NoStep>>, "saved")
    /\ EnterLoop(d)
    /\ UNCHANGED <<stepStatus, retryCount, outputs, resolved, pausedStepID, inline, cur,
                   batchVars, storeVars, cancelRef, crashes>>

\* Resume returns the error of its checkpoint; the run stays as it is.
ResumeFails(d) ==
    /\ dpc[d] = "resumeSave"
    /\ SaveReturn(<<d, NoStep>>, "failed")
    /\ dpc' = [dpc EXCEPT ![d] = "done"]
    /\ UNCHANGED <<runVars, ctxVars, todo, inline, cur, batchVars, storeVars, cancelRef, crashes>>

\* Mutation of LoopCancelled: a cancelled run just returns.
LoopCancelledReturns(d) ==
    /\ dpc[d] = "loop"
    /\ d \in ctxDone
    /\ dpc' = [dpc EXCEPT ![d] = "done"]
    /\ UNCHANGED <<runVars, ctxVars, todo, inline, cur, batchVars, saveVars, storeVars,
                   cancelRef, crashes>>

\* runLoop finds its context cancelled.
LoopCancelled(d) ==
    /\ dpc[d] = "loop"
    /\ d \in ctxDone
    /\ FailWorkflow(d, "canceled")

\* Mutation of LoopCompletes: completeWorkflow without the return after it.
LoopCompletesAgain(d) ==
    /\ dpc[d] = "loop"
    /\ d \notin ctxDone
    /\ DoneSteps = Steps
    /\ wfStatus' = "completed"
    /\ UNCHANGED <<stepStatus, retryCount, outputs, resolved, pausedStepID, ctxVars, loopVars,
                   batchVars, saveVars, storeVars, cancelRef, crashes>>

\* completeWorkflow
LoopCompletes(d) ==
    /\ dpc[d] = "loop"
    /\ d \notin ctxDone
    /\ DoneSteps = Steps
    /\ wfStatus' = "completed"
    /\ dpc' = [dpc EXCEPT ![d] = "done"]
    /\ todo' = [todo EXCEPT ![d] = {}]
    /\ UNCHANGED <<stepStatus, retryCount, outputs, resolved, pausedStepID, ctxVars, inline,
                   cur, batchVars, saveVars, storeVars, cancelRef, crashes>>

\* A round of the loop begins; without ready steps the run has stalled.
LoopProcesses(d) ==
    LET ready == IF todo[d] = {} THEN ReadyIn(resolved) ELSE todo[d] IN
    /\ dpc[d] = "loop"
    /\ d \notin ctxDone
    /\ DoneSteps # Steps
    /\ IF ready = {}
       THEN FailWorkflow(d, "other")
       ELSE /\ todo' = [todo EXCEPT ![d] = ready]
            /\ dpc' = [dpc EXCEPT ![d] = "process"]
            /\ UNCHANGED <<runVars, ctxVars, inline, cur, batchVars, saveVars, storeVars,
                           cancelRef, crashes>>

-----------------------------------------------------------------------------
(* processReadySteps.  The order of a ready list comes from Go map         *)
(* iteration and from goroutines finishing, so any order is possible.      *)

\* handleBranchStep, startStep.
BranchStart(d, s) ==
    /\ dpc[d] = "process"
    /\ s \in todo[d]
    /\ Kind[s] = "branch"
    /\ IF CanTransition(stepStatus[s], "running")
       THEN /\ stepStatus' = [stepStatus EXCEPT ![s] = "running"]
            /\ cur' = [cur EXCEPT ![d] = s]
            /\ dpc' = [dpc EXCEPT ![d] = "branch"]
            /\ UNCHANGED <<wfStatus, retryCount, outputs, resolved, pausedStepID, ctxVars,
                           todo, inline, batchVars, saveVars, storeVars, cancelRef, crashes>>
       ELSE FailWorkflow(d, "other")

\* Mutation of BranchDecides: a skipped step leaves no output.
BranchDecidesNoOutput(d, st) ==
    /\ dpc[d] = "branch"
    /\ stepStatus' = [stepStatus EXCEPT ![cur[d]] = st]
    /\ outputs' = IF st = "skipped" THEN outputs ELSE outputs \cup {cur[d]}
    /\ resolved' = resolved \cup {cur[d]}
    /\ inline' = [inline EXCEPT ![d] = inline[d] \cup NewlyReady(cur[d], resolved)]
    /\ todo' = [todo EXCEPT ![d] = todo[d] \ {cur[d]}]
    /\ cur' = [cur EXCEPT ![d] = NoStep]
    /\ dpc' = [dpc EXCEPT ![d] = "branchSave"]
    /\ SaveCall(<<d, NoStep>>)
    /\ UNCHANGED <<wfStatus, retryCount, pausedStepID, ctxVars, batchVars, storeVars,
                   cancelRef, crashes>>

\* EvaluateCondition gave an answer: finishStepSuccess and MarkComplete, or
\* finishStepSkipped and SkipStep.  Either way the step has an output and
\* unblocks its dependents.
BranchDecides(d, st) ==
    /\ dpc[d] = "branch"
    /\ stepStatus' = [stepStatus EXCEPT ![cur[d]] = st]
    /\ outputs' = outputs \cup {cur[d]}
    /\ resolved' = resolved \cup {cur[d]}
    /\ inline' = [inline EXCEPT ![d] = inline[d] \cup NewlyReady(cur[d], resolved)]
    /\ todo' = [todo EXCEPT ![d] = todo[d] \ {cur[d]}]
    /\ cur' = [cur EXCEPT ![d] = NoStep]
    /\ dpc' = [dpc EXCEPT ![d] = "branchSave"]
    /\ SaveCall(<<d, NoStep>>)
    /\ UNCHANGED <<wfStatus, retryCount, pausedStepID, ctxVars, batchVars, storeVars,
                   cancelRef, crashes>>

\* The condition does not compile, evaluate or yield a bool: the run fails
\* and the step is left running.
BranchErrs(d) ==
    /\ dpc[d] = "branch"
    /\ FailWorkflow(d, "other")

BranchSaved(d) ==
    /\ dpc[d] = "branchSave"
    /\ SaveReturn(<<d, NoStep>>, "saved")
    /\ dpc' = [dpc EXCEPT ![d] = "process"]
    /\ UNCHANGED <<runVars, ctxVars, todo, inline, cur, batchVars, storeVars, cancelRef, crashes>>

BranchSaveFails(d) ==
    /\ dpc[d] = "branchSave"
    /\ savePc[<<d, NoStep>>] = "failed"
    /\ FailWorkflow(d, "other")

\* Mutation of PauseWorkflow: the run does not remember what it waits for.
PauseWorkflowForgets(d, s) ==
    /\ dpc[d] = "process"
    /\ s \in todo[d]
    /\ Kind[s] = "human"
    /\ stepStatus' = [stepStatus EXCEPT ![s] = "running"]
    /\ wfStatus' = "paused"
    /\ dpc' = [dpc EXCEPT ![d] = "pauseSave"]
    /\ todo' = [todo EXCEPT ![d] = {}]
    /\ inline' = [inline EXCEPT ![d] = {}]
    /\ SaveCall(<<d, NoStep>>)
    /\ UNCHANGED <<retryCount, outputs, resolved, pausedStepID, ctxVars, cur, batchVars,
                   storeVars, cancelRef, crashes>>

\* pauseWorkflow: the human step starts, the run is paused, and the steps of
\* this round that were not yet processed are dropped.
PauseWorkflow(d, s) ==
    /\ dpc[d] = "process"
    /\ s \in todo[d]
    /\ Kind[s] = "human"
    /\ IF CanTransition(stepStatus[s], "running")
       THEN /\ stepStatus' = [stepStatus EXCEPT ![s] = "running"]
            /\ wfStatus' = "paused"
            /\ pausedStepID' = s
            /\ dpc' = [dpc EXCEPT ![d] = "pauseSave"]
            /\ todo' = [todo EXCEPT ![d] = {}]
            /\ inline' = [inline EXCEPT ![d] = {}]
            /\ SaveCall(<<d, NoStep>>)
            /\ UNCHANGED <<retryCount, outputs, resolved, ctxVars, cur, batchVars, storeVars,
                           cancelRef, crashes>>
       ELSE FailWorkflow(d, "other")

PauseSaved(d) ==
    /\ dpc[d] = "pauseSave"
    /\ SaveReturn(<<d, NoStep>>, "saved")
    /\ dpc' = [dpc EXCEPT ![d] = "done"]
    /\ UNCHANGED <<runVars, ctxVars, todo, inline, cur, batchVars, storeVars, cancelRef, crashes>>

\* The run fails, although a Resume may already have continued it.
PauseSaveFails(d) ==
    /\ dpc[d] = "pauseSave"
    /\ savePc[<<d, NoStep>>] = "failed"
    /\ FailWorkflow(d, "other")

\* Only async steps are left: go round again, or start a batch of them.
ProcessDone(d) ==
    /\ dpc[d] = "process"
    /\ \A s \in todo[d] : Kind[s] = "async"
    /\ IF todo[d] = {}
       THEN /\ dpc' = [dpc EXCEPT ![d] = "loop"]
            /\ todo' = [todo EXCEPT ![d] = inline[d]]
            /\ inline' = [inline EXCEPT ![d] = {}]
            /\ UNCHANGED wpc
       ELSE /\ dpc' = [dpc EXCEPT ![d] = "batch"]
            /\ wpc' = [wpc EXCEPT ![d] =
                    [s \in Steps |-> IF s \in todo[d] THEN "queued" ELSE "idle"]]
            /\ todo' = [todo EXCEPT ![d] = {}]
            /\ UNCHANGED inline
    /\ UNCHANGED <<runVars, ctxVars, cur, batchErr, saveVars, storeVars, cancelRef, crashes>>

-----------------------------------------------------------------------------
(* executeBatch and executeStep: one worker per async step.                *)

\* The goroutine of s returns; errgroup keeps the first error and cancels
\* the context of the batch.
WorkerReturns(d, s, e) ==
    /\ wpc' = [wpc EXCEPT ![d] = [wpc[d] EXCEPT ![s] = "done"]]
    /\ batchErr' = [batchErr EXCEPT ![d] = IF batchErr[d] = "none" THEN e ELSE batchErr[d]]

\* buildInput, the executor lookup and startStep, when errgroup has a slot or
\* the step is to be retried.  After an error, queued steps still start.
WorkerStart(d, s) ==
    /\ dpc[d] = "batch"
    /\ \/ wpc[d][s] = "queued" /\ Cardinality(Active(d)) < MaxParallel
       \/ wpc[d][s] = "retry"
    /\ IF s \in Executable /\ CanTransition(stepStatus[s], "running")
       THEN /\ stepStatus' = [stepStatus EXCEPT ![s] = "running"]
            /\ wpc' = [wpc EXCEPT ![d] = [wpc[d] EXCEPT ![s] = "exec"]]
            /\ UNCHANGED batchErr
       ELSE /\ WorkerReturns(d, s, "other")
            /\ UNCHANGED stepStatus
    /\ UNCHANGED <<wfStatus, retryCount, outputs, resolved, pausedStepID, ctxVars, loopVars,
                   saveVars, storeVars, cancelRef, crashes>>

\* executor.Execute returned nil: finishStepSuccess, then the checkpoint.
ExecSucceeds(d, s) ==
    /\ wpc[d][s] = "exec"
    /\ stepStatus' = [stepStatus EXCEPT ![s] = "success"]
    /\ outputs' = outputs \cup {s}
    /\ wpc' = [wpc EXCEPT ![d] = [wpc[d] EXCEPT ![s] = "saving"]]
    /\ SaveCall(<<d, s>>)
    /\ UNCHANGED <<wfStatus, retryCount, resolved, pausedStepID, ctxVars, loopVars, batchErr,
                   storeVars, cancelRef, crashes>>

\* The context a step runs under: the driver's, or a sibling's error.
CtxCancelled(d) == d \in ctxDone \/ batchErr[d] # "none"

\* executor.Execute returned an error: finishStepFailure tells a timeout and a
\* cancellation from a failure by what executeStep read from the step context
\* before the lock, and decides about a retry.  The context may be cancelled
\* after that read, so "failed" is possible whatever the context says now;
\* a step's own deadline may pass at any time.
ExecFails(d, s, st, e) ==
    /\ wpc[d][s] = "exec"
    /\ st = "cancelled" => CtxCancelled(d)
    /\ stepStatus' = [stepStatus EXCEPT ![s] = st]
    /\ IF ShouldRetry(MaxRetries[s], st, retryCount[s])
       THEN /\ retryCount' = [retryCount EXCEPT ![s] = retryCount[s] + 1]
            /\ wpc' = [wpc EXCEPT ![d] = [wpc[d] EXCEPT ![s] = "retry"]]
            /\ UNCHANGED batchErr
       ELSE /\ WorkerReturns(d, s, e)
            /\ UNCHANGED retryCount
    /\ UNCHANGED <<wfStatus, outputs, resolved, pausedStepID, ctxVars, loopVars, saveVars,
                   storeVars, cancelRef, crashes>>

\* The checkpoint is written: MarkComplete, and its answer to the batch.
WorkerSaved(d, s) ==
    /\ wpc[d][s] = "saving"
    /\ SaveReturn(<<d, s>>, "saved")
    /\ resolved' = resolved \cup {s}
    /\ inline' = [inline EXCEPT ![d] = inline[d] \cup NewlyReady(s, resolved)]
    /\ wpc' = [wpc EXCEPT ![d] = [wpc[d] EXCEPT ![s] = "done"]]
    /\ UNCHANGED <<wfStatus, stepStatus, retryCount, outputs, pausedStepID, ctxVars, dpc, todo,
                   cur, batchErr, storeVars, cancelRef, crashes>>

\* The checkpoint is not written: the successful step fails its batch.
WorkerSaveFails(d, s) ==
    /\ wpc[d][s] = "saving"
    /\ SaveReturn(<<d, s>>, "failed")
    /\ WorkerReturns(d, s, "other")
    /\ UNCHANGED <<runVars, ctxVars, loopVars, storeVars, cancelRef, crashes>>

\* group.Wait returned.
BatchDone(d) ==
    /\ dpc[d] = "batch"
    /\ \A s \in Steps : wpc[d][s] \in {"idle", "done"}
    /\ IF batchErr[d] # "none"
       THEN FailWorkflow(d, batchErr[d])
       ELSE /\ dpc' = [dpc EXCEPT ![d] = "loop"]
            /\ todo' = [todo EXCEPT ![d] = inline[d]]
            /\ inline' = [inline EXCEPT ![d] = {}]
            /\ wpc' = [wpc EXCEPT ![d] = [s \in Steps |-> "idle"]]
            /\ UNCHANGED <<runVars, ctxVars, cur, batchErr, saveVars, storeVars, cancelRef,
                           crashes>>

-----------------------------------------------------------------------------
(* The environment.                                                        *)

\* Cancel reads s.cancel under the mutex and calls it outside.
CancelReads(c) ==
    /\ cancelRef[c] = "idle"
    /\ cancelRef' = [cancelRef EXCEPT ![c] = cancelFn]
    /\ UNCHANGED <<runVars, ctxVars, loopVars, batchVars, saveVars, storeVars, crashes>>

\* Mutation of CancelFires: s.cancel is called without the nil test.
CancelFiresNil(c) ==
    /\ cancelRef[c] \in Drivers \cup {Nobody}
    /\ ctxDone' = ctxDone \cup {cancelRef[c]}
    /\ cancelRef' = [cancelRef EXCEPT ![c] = "done"]
    /\ UNCHANGED <<runVars, cancelFn, loopVars, batchVars, saveVars, storeVars, crashes>>

CancelFires(c) ==
    /\ cancelRef[c] \in Drivers \cup {Nobody}
    /\ ctxDone' = ctxDone \cup ({cancelRef[c]} \ {Nobody})
    /\ cancelRef' = [cancelRef EXCEPT ![c] = "done"]
    /\ UNCHANGED <<runVars, cancelFn, loopVars, batchVars, saveVars, storeVars, crashes>>

\* The HTTP request that carries a Resume is cancelled: the handler passes
\* its request context on, so the rest of the run loses its context.
ClientDisconnects(d) ==
    /\ d \in Resumers \ ctxDone
    /\ dpc[d] \notin {"idle", "done"}
    /\ ctxDone' = ctxDone \cup {d}
    /\ UNCHANGED <<runVars, cancelFn, loopVars, batchVars, saveVars, storeVars, cancelRef, crashes>>

\* checkpointTTLSeconds after the last write the store drops the checkpoint.
CheckpointExpires ==
    /\ Expiry
    /\ stored.version # 0
    /\ stored' = NoCheckpoint
    /\ UNCHANGED <<runVars, ctxVars, loopVars, batchVars, saveVars, cpVersion, storeErrors,
                   cancelRef, crashes>>

\* Mutation of Replayed: skipped steps are not replayed.
ReplayedSuccesses(status) == {s \in Steps : status[s] = "success"}

\* The steps RestoreScheduler marks complete or skipped in the new graph.
Replayed(status) == {s \in Steps : status[s] \in Done}

\* Mutation of RestoredOutputs: the outputs of human steps stay behind.
RestoredOutputsNoHuman(status) == {s \in Steps : status[s] = "success" /\ Kind[s] # "human"}

\* The outputs RestoreScheduler takes from a checkpoint.
RestoredOutputs(status) == {s \in Steps : status[s] = "success"}

\* The process dies and RestoreScheduler builds a scheduler from the stored
\* checkpoint: running steps become pending, outputs come back for the
\* successful steps, resolved steps are replayed into the graph.  Run is
\* called again; requests that were in progress are gone.
CrashAndRestore ==
    /\ crashes < MaxCrashes
    /\ stored.version # 0
    /\ crashes' = crashes + 1
    /\ wfStatus' = "pending"
    /\ stepStatus' = [s \in Steps |->
            IF stored.status[s] = "running" THEN "pending" ELSE stored.status[s]]
    /\ retryCount' = stored.retry
    /\ outputs' = RestoredOutputs(stored.status)
    /\ resolved' = Replayed(stored.status)
    /\ pausedStepID' = NoStep
    /\ cpVersion' = stored.version
    /\ cancelFn' = Nobody
    /\ ctxDone' = {}
    /\ dpc' = [d \in Drivers |-> IF d = "run" \/ dpc[d] = "idle" THEN "idle" ELSE "done"]
    /\ todo' = [d \in Drivers |-> {}]
    /\ inline' = [d \in Drivers |-> {}]
    /\ cur' = [d \in Drivers |-> NoStep]
    /\ wpc' = [d \in Drivers |-> [s \in Steps |-> "idle"]]
    /\ batchErr' = [d \in Drivers |-> "none"]
    /\ savePc' = [x \in Savers |-> "idle"]
    /\ snap' = [x \in Savers |-> NoCheckpoint]
    /\ cancelRef' = [c \in Cancellers |-> IF cancelRef[c] = "idle" THEN "idle" ELSE "done"]
    /\ UNCHANGED <<stored, storeErrors>>

-----------------------------------------------------------------------------
\* What a driver does by itself, once it was called.
DriverStep(d) ==
    \/ ResumeRun(d) \/ ResumeFails(d)
    \/ LoopCancelled(d) \/ LoopCompletes(d) \/ LoopProcesses(d)
    \/ \E s \in Steps : BranchStart(d, s) \/ PauseWorkflow(d, s)
    \/ \E st \in Done : BranchDecides(d, st)
    \/ BranchErrs(d) \/ BranchSaved(d) \/ BranchSaveFails(d)
    \/ PauseSaved(d) \/ PauseSaveFails(d)
    \/ ProcessDone(d) \/ BatchDone(d) \/ FailSaved(d)

WorkerStep(d, s) ==
    \/ WorkerStart(d, s) \/ ExecSucceeds(d, s)
    \/ \E st \in {"failed", "timeout", "cancelled"}, e \in ErrorKinds : ExecFails(d, s, st, e)
    \/ WorkerSaved(d, s) \/ WorkerSaveFails(d, s)

Environment ==
    \/ \E d \in Resumers : CompleteHumanStep(d) \/ ClientDisconnects(d)
    \/ \E c \in Cancellers : CancelReads(c) \/ CancelFires(c)
    \/ CheckpointExpires
    \/ CrashAndRestore

Next ==
    \/ Run
    \/ \E d \in Drivers : DriverStep(d)
    \/ \E d \in Drivers, s \in Steps : WorkerStep(d, s)
    \/ \E x \in Savers : SaverStep(x)
    \/ Environment

\* Goroutines run and locks are released; an executor returns because its
\* step context has a deadline (stepTimeout), and a store call returns.
\* Nothing makes a human resume, a client cancel or a process crash.
Fairness ==
    /\ WF_vars(Run)
    /\ \A d \in Drivers : WF_vars(DriverStep(d))
    /\ \A d \in Drivers, s \in Steps : WF_vars(WorkerStep(d, s))
    /\ \A x \in Savers : WF_vars(SaverStep(x))

Spec == Init /\ [][Next]_vars /\ Fairness

-----------------------------------------------------------------------------
(* Safety.                                                                 *)

\* A state of the steps is causally closed when every step that has left
\* "pending" has all its dependencies done.
CausallyClosed(status) ==
    \A s \in Steps : status[s] # "pending" => \A t \in DependsOn[s] : status[t] \in Done

\* No step starts before its dependencies are done, in whatever way batches,
\* branches, pauses, resumes, retries and restores interleave.
DependenciesFirst == CausallyClosed(stepStatus)

\* At most one goroutine owns the run: of the Run and Resume calls in
\* progress only one is in runLoop, or on its way into it.
SingleOwner == \A d, e \in Owners : d = e

\* When runLoop looks at its ready list, the list is exactly what the graph
\* would offer, and the graph has resolved exactly the steps that are done:
\* no ready step was lost by a pause, a batch or a branch, none is listed
\* twice, and the two places that track progress agree.
WorkListExact ==
    \A d \in Drivers : dpc[d] = "loop" =>
        todo[d] = ReadyIn(resolved) /\ resolved = DoneSteps

\* A running step has someone who will end it: its worker, the driver that
\* evaluates its condition, or the human the run waits for.  Only a branch
\* whose condition could not be evaluated is left running, in a failed run.
RunningHasOwner ==
    \A s \in Steps : stepStatus[s] = "running" =>
        \/ \E d \in Drivers : wpc[d][s] = "exec"
        \/ \E d \in Drivers : dpc[d] = "branch" /\ cur[d] = s
        \/ pausedStepID = s
        \/ wfStatus = "failed" /\ Kind[s] = "branch"

\* No more steps run at once than WithMaxParallelSteps allows, over all the
\* batches of the run together.
ParallelismBounded ==
    Cardinality({w \in Drivers \X Steps : wpc[w[1]][w[2]] = "exec"}) <= MaxParallel

\* A step never executes more often than its retry policy says.
RetriesBounded == \A s \in Steps : retryCount[s] <= MaxRetries[s]

\* When a step executes, or a condition is evaluated, the output of every
\* dependency is there for buildInput.  RestoreScheduler brings back all of
\* them except that of a skipped branch.
InputsAvailable ==
    \A d \in Drivers, s \in Steps :
        wpc[d][s] = "exec" \/ (dpc[d] = "branch" /\ cur[d] = s)
            => \A t \in DependsOn[s] :
                   t \in outputs \/ (crashes > 0 /\ stepStatus[t] = "skipped")

\* A completed run is over: all steps done, nobody in the loop, no worker,
\* no human waited for.
CompletedIsQuiet ==
    wfStatus = "completed" =>
        /\ DoneSteps = Steps
        /\ Owners = {}
        /\ pausedStepID = NoStep
        /\ \A d \in Drivers : Active(d) = {}

\* A checkpoint in the store is a state the run could have been in: restoring
\* it never starts a step whose dependencies the checkpoint does not contain.
StoredCausallyClosed == CausallyClosed(stored.status)

\* A checkpoint never claims more than the scheduler has done.
StoredIsPast ==
    crashes = 0 => \A s \in Steps :
        stored.status[s] \in Done => stepStatus[s] = stored.status[s]

\* A run that says "paused" when nobody is active waits for a step a Resume
\* can name.
PausedIsResumable ==
    (wfStatus = "paused" /\ \A d \in Drivers : dpc[d] \in {"idle", "done"})
        => pausedStepID # NoStep

-----------------------------------------------------------------------------
(* Action properties.                                                      *)

\* What the scheduler really does with a step: ValidTransitions, and for a
\* branch from running to skipped.  In particular a finished step stays
\* finished although finishStepSuccess and its siblings never check.
MovesForward ==
    [][\A s \in Steps : stepStatus'[s] # stepStatus[s]
            => \/ CanTransition(stepStatus[s], stepStatus'[s])
               \/ Kind[s] = "branch" /\ stepStatus[s] = "running"
                     /\ stepStatus'[s] = "skipped"
               \/ crashes' # crashes]_vars

\* A completed run stays completed.  Only the driver that once paused it may
\* still fail it: pauseWorkflow saves after a Resume can have been accepted,
\* and what its caller does about a save that failed is failWorkflow.
CompletionStands ==
    [][wfStatus = "completed" /\ wfStatus' # "completed"
            => \/ \E d \in Drivers : dpc[d] = "pauseSave" /\ savePc[<<d, NoStep>>] = "failed"
               \/ crashes' # crashes]_vars

\* A step that is done in the stored checkpoint stays done in later ones.
StoredProgressKept ==
    [][stored'.version # 0 =>
        \A s \in Steps : stored.status[s] \in Done => stored'.status[s] \in Done]_vars

-----------------------------------------------------------------------------
(* Refinement and liveness.                                                *)

Lifecycle == INSTANCE RunLifecycle WITH status <- wfStatus

\* To those who only see run.Status a run is a RunLifecycle: it starts once,
\* alternates between running and paused, always comes to rest, and a
\* completed or failed run is never revived.
LifecycleRefinement == Lifecycle!Spec

\* Every run comes to rest: it completes, fails or waits for a human, and no
\* goroutine of it is left behind.
Settles ==
    <>[](/\ wfStatus \in {"completed", "failed", "paused"}
         /\ \A d \in Drivers : dpc[d] \in {"idle", "done"}
         /\ \A x \in Savers : savePc[x] = "idle")
=============================================================================
