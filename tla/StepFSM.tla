------------------------------ MODULE StepFSM ------------------------------
(***************************************************************************)
(* The finite state machine of one workflow step (internal/dag/step.go)    *)
(* and the status vocabulary of pkg/types/workflow.go.  The module has no  *)
(* state of its own: the scheduler owns the status of every step and asks  *)
(* these operators what it may do with it.                                 *)
(***************************************************************************)
EXTENDS Naturals

StepStatuses ==
    {"pending", "running", "success", "failed", "timeout", "skipped",
     "cancelled"}

WorkflowStatuses == {"pending", "running", "completed", "failed", "paused"}

\* var ValidTransitions: the statuses a step may move to.
ValidTransitions ==
    [ pending   |-> {"running", "skipped"},
      running   |-> {"success", "failed", "timeout", "cancelled"},
      failed    |-> {"running"},
      timeout   |-> {"running"},
      success   |-> {},
      skipped   |-> {},
      cancelled |-> {} ]

CanTransition(from, to) == to \in ValidTransitions[from]

\* Mutation of ShouldRetry: the budget test is off by one.
ShouldRetryOnceMore(maxRetries, status, retryCount) ==
    status \in {"failed", "timeout"} /\ retryCount <= maxRetries

\* ShouldRetry: a step without a retry policy has maxRetries = 0.
ShouldRetry(maxRetries, status, retryCount) ==
    status \in {"failed", "timeout"} /\ retryCount < maxRetries

\* The statuses completedStepCount counts as finished.
Done == {"success", "skipped"}
=============================================================================
