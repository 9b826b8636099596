------------------------------ MODULE Sandbox ------------------------------
(***************************************************************************)
(* internal/sandbox: the pool's semaphore, Executor.Execute against a      *)
(* Docker daemon that may fail or lose an answer, Executor.Cleanup at      *)
(* shutdown, and the code_exec tool that calls them.                       *)
(*                                                                         *)
(* Every execution is one call of CodeExecTool.Handle; it may bring input  *)
(* files, which the executor supports and the tool does not use yet.  One  *)
(* action is one call to the daemon with the local work that follows it.   *)
(* A call made under the caller's context fails once that context has      *)
(* ended; the calls of the cleanup path have a context of their own.       *)
(***************************************************************************)
EXTENDS Integers, FiniteSets

CONSTANTS
    Executions,   \* the calls of the tool
    PoolSize,     \* maxConcurrent
    MaxFaults     \* bound: daemon calls that fail by themselves

ASSUME ExecutionsFinite == IsFiniteSet(Executions)

ASSUME PoolSizeType == PoolSize \in Nat \ {0}   \* NewPool raises it to 1

ASSUME MaxFaultsType == MaxFaults \in Nat

VARIABLES
    pc,          \* where each execution is
    sem,         \* slots taken in p.sem
    ctx,         \* the caller's context: "live", "canceled" or "deadline"
    container,   \* the container of an execution, as the daemon sees it
    exit,        \* how its process ended, "none" while it has not
    failed,      \* retErr # nil
    timedOut,    \* result.TimedOut
    answer,      \* what Handle returned
    doomed,      \* the containers Cleanup has listed and not yet removed
    cleanup,     \* where Cleanup is
    faults       \* failed daemon calls so far

execVars == <<pc, sem, ctx, failed, timedOut, answer>>
dockerVars == <<container, exit, faults>>
cleanupVars == <<doomed, cleanup>>
vars == <<execVars, dockerVars, cleanupVars>>

Stages == {"idle", "acquire", "create", "copy", "start", "wait", "stop", "logs", "inspect",
           "files", "remove", "release", "done"}
\* Between the send to p.sem and the deferred receive.
Holding == Stages \ {"idle", "acquire", "done"}

TypeOK ==
    /\ pc \in [Executions -> Stages]
    /\ sem \in 0 .. PoolSize
    /\ ctx \in [Executions -> {"live", "canceled", "deadline"}]
    /\ container \in [Executions -> {"none", "created", "running", "exited"}]
    /\ exit \in [Executions -> {"none", "zero", "nonzero", "oom", "killed"}]
    /\ failed \in [Executions -> BOOLEAN]
    /\ timedOut \in [Executions -> BOOLEAN]
    /\ answer \in [Executions -> {"none", "ok", "error"}]
    /\ doomed \in SUBSET Executions
    /\ cleanup \in {"idle", "removing", "done"}
    /\ faults \in 0 .. MaxFaults

Init ==
    /\ pc = [x \in Executions |-> "idle"]
    /\ sem = 0
    /\ ctx = [x \in Executions |-> "live"]
    /\ container = [x \in Executions |-> "none"]
    /\ exit = [x \in Executions |-> "none"]
    /\ failed = [x \in Executions |-> FALSE]
    /\ timedOut = [x \in Executions |-> FALSE]
    /\ answer = [x \in Executions |-> "none"]
    /\ doomed = {}
    /\ cleanup = "idle"
    /\ faults = 0

Goes(x, from, to) == pc[x] = from /\ pc' = [pc EXCEPT ![x] = to]

\* Execute fails at a stage and goes to what is deferred there.
Fails(x, from, to) == Goes(x, from, to) /\ failed' = [failed EXCEPT ![x] = TRUE]

\* A daemon call under the caller's context, and one with its own, may fail.
CallFails(x) ==
    \/ ctx[x] # "live" /\ UNCHANGED faults
    \/ faults < MaxFaults /\ faults' = faults + 1
OwnCallFails == faults < MaxFaults /\ faults' = faults + 1

\* The daemon has, or has not, done what a failed call asked it to do.
Effect(x, state) == container' \in {container, [container EXCEPT ![x] = state]}

-----------------------------------------------------------------------------
(* Pool.Execute.                                                           *)

\* Handle: a language outside the switch is an error without the pool; the
\* requests of the others always pass validateExecutionRequest.
Handle(x, language) ==
    /\ pc[x] = "idle"
    /\ IF language \in {"python", "bash"}
       THEN pc' = [pc EXCEPT ![x] = "acquire"] /\ UNCHANGED answer
       ELSE pc' = [pc EXCEPT ![x] = "done"] /\ answer' = [answer EXCEPT ![x] = "error"]
    /\ UNCHANGED <<sem, ctx, failed, timedOut, dockerVars, cleanupVars>>

Acquire(x) ==
    /\ sem < PoolSize
    /\ sem' = sem + 1
    /\ Goes(x, "acquire", "create")
    /\ UNCHANGED <<ctx, failed, timedOut, answer, dockerVars, cleanupVars>>

\* Mutation of GiveUp: the deferred receive runs without the send.
GiveUpReleases(x) ==
    /\ ctx[x] # "live"
    /\ Goes(x, "acquire", "done")
    /\ sem' = sem - 1
    /\ failed' = [failed EXCEPT ![x] = TRUE]
    /\ answer' = [answer EXCEPT ![x] = "error"]
    /\ UNCHANGED <<ctx, timedOut, dockerVars, cleanupVars>>

\* ctx.Done() wins the select; with a free slot either case may be taken.
GiveUp(x) ==
    /\ ctx[x] # "live"
    /\ Fails(x, "acquire", "done")
    /\ answer' = [answer EXCEPT ![x] = "error"]
    /\ UNCHANGED <<sem, ctx, timedOut, dockerVars, cleanupVars>>

\* Mutation of Answer: the exit code is not looked at.
AnswerIgnoresExit(x) ==
    IF failed[x] \/ timedOut[x] \/ exit[x] = "oom" THEN "error" ELSE "ok"

\* The rest of Handle: what the tool makes of the result.
Answer(x) ==
    IF failed[x] \/ timedOut[x] \/ exit[x] # "zero" THEN "error" ELSE "ok"

\* The slot is given back and Handle returns.
Release(x) ==
    /\ Goes(x, "release", "done")
    /\ sem' = sem - 1
    /\ answer' = [answer EXCEPT ![x] = Answer(x)]
    /\ UNCHANGED <<ctx, failed, timedOut, dockerVars, cleanupVars>>

-----------------------------------------------------------------------------
(* Executor.Execute.                                                       *)

\* createContainer
Create(x) ==
    /\ ctx[x] = "live"
    /\ Goes(x, "create", "copy")
    /\ container' = [container EXCEPT ![x] = "created"]
    /\ UNCHANGED <<sem, ctx, failed, timedOut, answer, exit, faults, cleanupVars>>

\* Without an ID in the answer there is nothing to defer the removal of, even
\* when the daemon did create the container.
CreateFails(x) ==
    /\ CallFails(x)
    /\ Fails(x, "create", "release")
    /\ Effect(x, "created")
    /\ UNCHANGED <<sem, ctx, timedOut, answer, exit, cleanupVars>>

\* copyInputFiles, collectLogs, ContainerInspect: calls that leave the
\* container as it is and need it to be there.
Call(x, from, to) ==
    /\ container[x] # "none"
    /\ from = "copy" => ctx[x] = "live"
    /\ Goes(x, from, to)
    /\ UNCHANGED <<sem, ctx, failed, timedOut, answer, dockerVars, cleanupVars>>

\* Such a call fails, by itself or because Cleanup took the container away.
CallErrs(x, from) ==
    /\ \/ container[x] = "none" /\ UNCHANGED faults
       \/ from = "copy" /\ CallFails(x)
       \/ from # "copy" /\ OwnCallFails
    /\ Fails(x, from, "remove")
    /\ UNCHANGED <<sem, ctx, timedOut, answer, container, exit, cleanupVars>>

\* ContainerStart
Start(x) ==
    /\ ctx[x] = "live"
    /\ container[x] = "created"
    /\ Goes(x, "start", "wait")
    /\ container' = [container EXCEPT ![x] = "running"]
    /\ UNCHANGED <<sem, ctx, failed, timedOut, answer, exit, faults, cleanupVars>>

StartFails(x) ==
    /\ IF container[x] = "none" THEN UNCHANGED <<faults, container>>
       ELSE CallFails(x) /\ Effect(x, "running")
    /\ Fails(x, "start", "remove")
    /\ UNCHANGED <<sem, ctx, timedOut, answer, exit, cleanupVars>>

\* The process in the container ends by itself.
ProcessExits(x, how) ==
    /\ container[x] = "running"
    /\ container' = [container EXCEPT ![x] = "exited"]
    /\ exit' = [exit EXCEPT ![x] = how]
    /\ UNCHANGED <<execVars, faults, cleanupVars>>

\* waitForCompletion: the status arrives.
WaitReturns(x) ==
    /\ container[x] \in {"exited", "none"}
    /\ Goes(x, "wait", "logs")
    /\ UNCHANGED <<sem, ctx, failed, timedOut, answer, dockerVars, cleanupVars>>

\* Mutation of WaitTimesOut: only the caller's deadline ends the wait.
WaitTimesOutNoPolicy(x) ==
    /\ ctx[x] = "deadline"
    /\ Goes(x, "wait", "stop")
    /\ UNCHANGED <<sem, ctx, failed, timedOut, answer, dockerVars, cleanupVars>>

\* waitForCompletion: policy.Timeout or the caller's deadline has passed.
WaitTimesOut(x) ==
    /\ ctx[x] # "canceled"
    /\ Goes(x, "wait", "stop")
    /\ UNCHANGED <<sem, ctx, failed, timedOut, answer, dockerVars, cleanupVars>>

\* waitForCompletion: the caller has gone, or the daemon answers with an error,
\* which is one even after the deadline when it comes with the wait result.
WaitFails(x) ==
    /\ \/ (ctx[x] = "canceled" \/ container[x] = "none") /\ UNCHANGED faults
       \/ OwnCallFails
    /\ Fails(x, "wait", "remove")
    /\ UNCHANGED <<sem, ctx, timedOut, answer, container, exit, cleanupVars>>

\* The daemon kills a process that is still there.
Killed(x) ==
    IF container[x] = "running" THEN [exit EXCEPT ![x] = "killed"] ELSE exit

\* Mutation of Stop: the container is left to itself.
StopSkipped(x) ==
    /\ Goes(x, "stop", "logs")
    /\ UNCHANGED <<sem, ctx, failed, timedOut, answer, dockerVars, cleanupVars>>

\* stopContainerImmediately; a container that is gone is no error.
Stop(x) ==
    /\ Goes(x, "stop", "logs")
    /\ timedOut' = [timedOut EXCEPT ![x] = TRUE]
    /\ exit' = Killed(x)
    /\ container' = [container EXCEPT ![x] = IF @ = "running" THEN "exited" ELSE @]
    /\ UNCHANGED <<sem, ctx, failed, answer, faults, cleanupVars>>

StopFails(x) ==
    /\ OwnCallFails
    /\ Fails(x, "stop", "remove")
    /\ UNCHANGED <<sem, ctx, timedOut, answer, container, exit, cleanupVars>>

\* collectOutputFiles: a container or a directory that is gone means no files.
Files(x) ==
    /\ Goes(x, "files", "remove")
    /\ UNCHANGED <<sem, ctx, failed, timedOut, answer, dockerVars, cleanupVars>>

\* The deferred removeContainer, with Force; not found is no error.
Remove(x) ==
    /\ Goes(x, "remove", "release")
    /\ exit' = Killed(x)
    /\ container' = [container EXCEPT ![x] = "none"]
    /\ UNCHANGED <<sem, ctx, failed, timedOut, answer, faults, cleanupVars>>

\* Mutation of RemoveFails: the error of the removal is not joined.
RemoveFailsSilently(x) ==
    /\ OwnCallFails
    /\ Goes(x, "remove", "release")
    /\ Effect(x, "none")
    /\ UNCHANGED <<sem, ctx, failed, timedOut, answer, exit, cleanupVars>>

\* Its error is joined to the error of Execute.
RemoveFails(x) ==
    /\ OwnCallFails
    /\ Fails(x, "remove", "release")
    /\ Effect(x, "none")
    /\ UNCHANGED <<sem, ctx, timedOut, answer, exit, cleanupVars>>

-----------------------------------------------------------------------------
(* Executor.Cleanup, which the server calls at shutdown while requests and *)
(* runs are still in progress.                                             *)

CleanupLists ==
    /\ cleanup = "idle"
    /\ cleanup' = "removing"
    /\ doomed' = {x \in Executions : container[x] # "none"}
    /\ UNCHANGED <<execVars, dockerVars>>

CleanupListFails ==
    /\ cleanup = "idle"
    /\ OwnCallFails
    /\ cleanup' = "done"
    /\ UNCHANGED <<execVars, container, exit, doomed>>

CleanupRemoves(x) ==
    /\ cleanup = "removing"
    /\ x \in doomed
    /\ doomed' = doomed \ {x}
    /\ \/ /\ exit' = Killed(x)
          /\ container' = [container EXCEPT ![x] = "none"]
          /\ UNCHANGED faults
       \/ OwnCallFails /\ UNCHANGED <<exit, container>>
    /\ UNCHANGED <<execVars, cleanup>>

CleanupReturns ==
    /\ cleanup = "removing"
    /\ doomed = {}
    /\ cleanup' = "done"
    /\ UNCHANGED <<execVars, dockerVars, doomed>>

\* The request is cancelled or the step's deadline passes.
ContextEnds(x, how) ==
    /\ ctx[x] = "live"
    /\ pc[x] \notin {"idle", "done"}
    /\ ctx' = [ctx EXCEPT ![x] = how]
    /\ UNCHANGED <<pc, sem, failed, timedOut, answer, dockerVars, cleanupVars>>

-----------------------------------------------------------------------------
ExecuteStep(x) ==
    \/ Create(x) \/ CreateFails(x)
    \/ Call(x, "copy", "start") \/ Call(x, "logs", "inspect") \/ Call(x, "inspect", "files")
    \/ \E stage \in {"copy", "logs", "inspect", "files"} : CallErrs(x, stage)
    \/ Start(x) \/ StartFails(x)
    \/ WaitReturns(x) \/ WaitTimesOut(x) \/ WaitFails(x)
    \/ Stop(x) \/ StopFails(x) \/ Files(x) \/ Remove(x) \/ RemoveFails(x) \/ Release(x)

Next ==
    \/ \E x \in Executions :
        \/ \E language \in {"python", "ruby"} : Handle(x, language)
        \/ Acquire(x) \/ GiveUp(x) \/ ExecuteStep(x)
        \/ \E how \in {"zero", "nonzero", "oom"} : ProcessExits(x, how)
        \/ \E how \in {"canceled", "deadline"} : ContextEnds(x, how)
        \/ CleanupRemoves(x)
    \/ CleanupLists \/ CleanupListFails \/ CleanupReturns

\* The daemon answers every call or its context ends; waitForCompletion has a
\* timeout, so it ends although the process may not; a waiting send gets the
\* slot in its turn, however often others take it first.
Fairness ==
    \A x \in Executions :
        /\ WF_vars(ExecuteStep(x))
        /\ SF_vars(Acquire(x))

Spec == Init /\ [][Next]_vars /\ Fairness

-----------------------------------------------------------------------------
(* Properties.                                                             *)

\* The semaphore counts exactly the executions in progress, on every path out
\* of Execute, so the pool neither loses a slot nor admits too many.
SlotsExact == sem = Cardinality({x \in Executions : pc[x] \in Holding})

\* A container outlives its execution only if the caller was told of an
\* error: no path of Execute leaves one behind silently, whatever failed.
NoSilentLeak ==
    \A x \in Executions : pc[x] = "done" /\ container[x] # "none" => failed[x]

\* The tool reports success only for a process that ended by itself with exit
\* code 0 and whose container is gone; neither a kill by a timeout or by
\* Cleanup, nor an interrupted wait is taken for one.
HonestSuccess ==
    \A x \in Executions : answer[x] = "ok" => exit[x] = "zero" /\ container[x] = "none"

\* Output is collected from a process that has ended: after a timeout the
\* container is stopped first.
CollectsAfterEnd ==
    \A x \in Executions : pc[x] \in {"logs", "inspect", "files"} => container[x] # "running"

\* Every call returns: it gets a slot or its context ends, no process holds a
\* slot longer than its timeout, and the slot comes back for the next one.
ExecutesReturn == \A x \in Executions : pc[x] # "idle" ~> pc[x] = "done"
=============================================================================
