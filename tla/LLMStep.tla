------------------------------ MODULE LLMStep ------------------------------
(***************************************************************************)
(* The executors of LLM steps (internal/llm/executor.go and                *)
(* react_executor.go) with the chat client's retries (client.go) and the   *)
(* GPU reservations of internal/infra/scheduler_client.go.                 *)
(*                                                                         *)
(* An execution is one call of Execute.  One executor and one GPU client   *)
(* serve the steps of all runs.  One action is one HTTP call, or one       *)
(* critical section of the GPU client, with the local work that follows    *)
(* it.  The model, the tools and the GPU platform answer as they like; a   *)
(* call under a context that has ended fails.                              *)
(***************************************************************************)
EXTENDS Integers, Sequences, FiniteSets

CONSTANTS
    Executions,      \* the calls of Execute
    StepID,          \* StepID[x]: the ID of the step, the key of a reservation
    MaxToolRounds,   \* maxToolRounds
    MaxReActRounds,  \* maxReActRounds
    MaxAttempts,     \* maxChatAttempts
    MaxCalls         \* bound: tool calls in one answer of the model

ASSUME StepTypes ==
    {MaxToolRounds, MaxReActRounds, MaxAttempts} \subseteq Nat \ {0} /\ MaxCalls \in Nat

VARIABLES
    pc,            \* where each execution is
    kind,          \* "llm" with a GPU, "plain" LLM step without, or "react"
    ctxDone,       \* the executions whose context has ended
    round,         \* the loop variable of runConversation or of Execute
    attempt,       \* the loop variable of Chat
    history,       \* messages: a tool call is answered by a "tool" message
    pending,       \* tool calls of the last answer that are still to be made
    failed,        \* err # nil
    job,           \* the GPU job of an execution, as the platform sees it
    reservations,  \* c.reservations: whose job a step ID stands for
    target,        \* the job that ReleaseGPU has looked up
    late           \* chat requests made after the context had ended

loopVars == <<round, attempt, history, pending>>
gpuVars == <<job, reservations, target>>
vars == <<pc, kind, ctxDone, loopVars, failed, gpuVars, late>>

Nobody == "nobody"

ASSUME NobodyIsNone == Nobody \notin Executions

StepIDs == {StepID[x] : x \in Executions}
MaxRounds(x) == IF kind[x] = "react" THEN MaxReActRounds ELSE MaxToolRounds
Assistant(n) == [role |-> "assistant", calls |-> n]
Other(role) == [role |-> role, calls |-> 0]
Messages == [role : {"user", "assistant", "tool"}, calls : 0 .. MaxCalls]

TypeOK ==
    /\ pc \in [Executions -> {"idle", "create", "schedule", "remember", "chat", "sleep", "tools",
                              "release", "cancel", "forget", "done"}]
    /\ kind \in [Executions -> {"llm", "plain", "react"}]
    /\ ctxDone \in SUBSET Executions
    /\ round \in [Executions -> Nat]
    /\ \A x \in Executions : round[x] <= MaxRounds(x)
    /\ attempt \in [Executions -> 0 .. MaxAttempts - 1]
    /\ history \in [Executions -> Seq(Messages)]
    /\ pending \in [Executions -> 0 .. MaxCalls]
    /\ failed \in [Executions -> BOOLEAN]
    /\ job \in [Executions -> {"none", "created", "scheduled", "cancelled"}]
    /\ reservations \in [StepIDs -> Executions \cup {Nobody}]
    /\ target \in [Executions -> Executions \cup {Nobody}]
    /\ late \in [Executions -> Nat]

Init ==
    /\ pc = [x \in Executions |-> "idle"]
    /\ kind = [x \in Executions |-> "plain"]
    /\ ctxDone = {}
    /\ round = [x \in Executions |-> 0]
    /\ attempt = [x \in Executions |-> 0]
    /\ history = [x \in Executions |-> <<>>]
    /\ pending = [x \in Executions |-> 0]
    /\ failed = [x \in Executions |-> FALSE]
    /\ job = [x \in Executions |-> "none"]
    /\ reservations = [s \in StepIDs |-> Nobody]
    /\ target = [x \in Executions |-> Nobody]
    /\ late = [x \in Executions |-> 0]

Goes(x, from, to) == pc[x] = from /\ pc' = [pc EXCEPT ![x] = to]

\* What is deferred in Execute when the conversation is over.
Deferred(x) == IF kind[x] = "llm" THEN "release" ELSE "done"

Fails(x, from, to) == Goes(x, from, to) /\ failed' = [failed EXCEPT ![x] = TRUE]

Live(x) == x \notin ctxDone

-----------------------------------------------------------------------------
(* Reservations.                                                           *)

\* The taskID that Execute passes to RequestGPU and ReleaseGPU.
TaskID(x) == StepID[x]

\* Execute, buildMessages; gpu_count and the type of the step are its own.
Start(x, k) ==
    /\ pc[x] = "idle"
    /\ kind' = [kind EXCEPT ![x] = k]
    /\ pc' = [pc EXCEPT ![x] = IF k = "llm" THEN "create" ELSE "chat"]
    /\ history' = [history EXCEPT ![x] = <<Other("user")>>]
    /\ UNCHANGED <<ctxDone, round, attempt, pending, failed, gpuVars, late>>

\* createReservation
CreateReservation(x) ==
    /\ Live(x)
    /\ Goes(x, "create", "schedule")
    /\ job' = [job EXCEPT ![x] = "created"]
    /\ UNCHANGED <<kind, ctxDone, loopVars, failed, reservations, target, late>>

\* It fails, perhaps after the platform created the job.
CreateFails(x) ==
    /\ Fails(x, "create", "done")
    /\ job' \in {job, [job EXCEPT ![x] = "created"]}
    /\ UNCHANGED <<kind, ctxDone, loopVars, reservations, target, late>>

\* scheduleReservation
ScheduleReservation(x) ==
    /\ Live(x)
    /\ Goes(x, "schedule", "remember")
    /\ job' = [job EXCEPT ![x] = "scheduled"]
    /\ UNCHANGED <<kind, ctxDone, loopVars, failed, reservations, target, late>>

\* RequestGPU keeps the job ID under the task ID, over whatever is there.
RemembersJob(x) ==
    /\ Goes(x, "remember", "chat")
    /\ reservations' = [reservations EXCEPT ![TaskID(x)] = x]
    /\ UNCHANGED <<kind, ctxDone, loopVars, failed, job, target, late>>

\* RequestGPU returns the error: the job stays and its ID is forgotten.
ScheduleFails(x) ==
    /\ Fails(x, "schedule", "done")
    /\ job' \in {job, [job EXCEPT ![x] = "scheduled"]}
    /\ UNCHANGED <<kind, ctxDone, loopVars, reservations, target, late>>

\* ReleaseGPU looks the job up.
ReleaseFinds(x) ==
    LET owner == reservations[TaskID(x)] IN
    /\ IF owner = Nobody THEN Fails(x, "release", "done")
       ELSE Goes(x, "release", "cancel") /\ UNCHANGED failed
    /\ target' = [target EXCEPT ![x] = owner]
    /\ UNCHANGED <<kind, ctxDone, loopVars, job, reservations, late>>

\* ReleaseGPU has the job cancelled.
ReleaseCancels(x) ==
    /\ Live(x)
    /\ Goes(x, "cancel", "forget")
    /\ job' = [job EXCEPT ![target[x]] = "cancelled"]
    /\ UNCHANGED <<kind, ctxDone, loopVars, failed, reservations, target, late>>

\* ReleaseGPU deletes the entry of the task ID, whosever it is by now.
ReleaseForgets(x) ==
    /\ Goes(x, "forget", "done")
    /\ reservations' = [reservations EXCEPT ![TaskID(x)] = Nobody]
    /\ UNCHANGED <<kind, ctxDone, loopVars, failed, job, target, late>>

\* Mutation of ReleaseFails: the deferred function drops its error.
ReleaseFailsSilently(x) ==
    /\ Goes(x, "cancel", "done")
    /\ job' \in {job, [job EXCEPT ![target[x]] = "cancelled"]}
    /\ UNCHANGED <<kind, ctxDone, loopVars, failed, reservations, target, late>>

\* The call fails, perhaps with effect; the error counts if there is no other.
ReleaseFails(x) ==
    /\ Fails(x, "cancel", "done")
    /\ job' \in {job, [job EXCEPT ![target[x]] = "cancelled"]}
    /\ UNCHANGED <<kind, ctxDone, loopVars, reservations, target, late>>

-----------------------------------------------------------------------------
(* Client.Chat.                                                            *)

\* Every request is one attempt; those under an ended context are counted.
Attempted(x) == late' = IF Live(x) THEN late ELSE [late EXCEPT ![x] = late[x] + 1]

\* The model answers.  An answer with finish_reason "tool_calls" goes to
\* handleToolCalls, a ReAct answer names one action, the others are final.
ChatAnswers(x, calls) ==
    /\ Live(x)
    /\ kind[x] = "react" => calls = 1
    /\ Goes(x, "chat", "tools")
    /\ attempt' = [attempt EXCEPT ![x] = 0]
    /\ history' = [history EXCEPT ![x] = Append(history[x], Assistant(calls))]
    /\ pending' = [pending EXCEPT ![x] = calls]
    /\ UNCHANGED <<kind, ctxDone, round, failed, gpuVars, late>>

\* A final answer; in a ReAct step, the action "finish".
ChatFinishes(x) ==
    /\ Live(x)
    /\ Goes(x, "chat", Deferred(x))
    /\ UNCHANGED <<kind, ctxDone, loopVars, failed, gpuVars, late>>

\* A 4xx status, an answer that cannot be decoded, one without choices, or
\* one whose body a cancellation cuts off: none of them is retryable.
ChatRefused(x) ==
    /\ Fails(x, "chat", Deferred(x))
    /\ UNCHANGED <<kind, ctxDone, loopVars, gpuVars, late>>

\* Mutation of ChatTransient: the delay does not look at the context.
ChatTransientBlindly(x) ==
    /\ IF attempt[x] = MaxAttempts - 1 THEN Fails(x, "chat", Deferred(x))
       ELSE Goes(x, "chat", "sleep") /\ UNCHANGED failed
    /\ Attempted(x)
    /\ UNCHANGED <<kind, ctxDone, loopVars, gpuVars>>

\* A 5xx status, a failed connection or a context that has ended: all of them
\* are retryable.  The last attempt's error is returned, and a context that
\* has ended ends the delay as it begins.
ChatTransient(x) ==
    /\ IF attempt[x] = MaxAttempts - 1 \/ ~Live(x) THEN Fails(x, "chat", Deferred(x))
       ELSE Goes(x, "chat", "sleep") /\ UNCHANGED failed
    /\ Attempted(x)
    /\ UNCHANGED <<kind, ctxDone, loopVars, gpuVars>>

\* sleepWithContext, then the next attempt.  When the context ends as the
\* timer fires, either case of the select may be taken.
SleepElapses(x) ==
    /\ Goes(x, "sleep", "chat")
    /\ attempt' = [attempt EXCEPT ![x] = attempt[x] + 1]
    /\ UNCHANGED <<kind, ctxDone, round, history, pending, failed, gpuVars, late>>

SleepCancelled(x) ==
    /\ ~Live(x)
    /\ Fails(x, "sleep", Deferred(x))
    /\ UNCHANGED <<kind, ctxDone, loopVars, gpuVars, late>>

-----------------------------------------------------------------------------
(* Tool calls.                                                             *)

\* The role under which a result goes back to the model.
ResultRole(x) == IF kind[x] = "react" THEN "user" ELSE "tool"

\* Mutation of ToolReturns: an LLM step leaves out the result of a failed call.
ToolReturnsSkips(x, ok) ==
    /\ pc[x] = "tools"
    /\ pending[x] > 0
    /\ history' = IF ok THEN [history EXCEPT ![x] = Append(history[x], Other(ResultRole(x)))]
                  ELSE history
    /\ pending' = [pending EXCEPT ![x] = pending[x] - 1]
    /\ UNCHANGED <<pc, kind, ctxDone, round, attempt, failed, gpuVars, late>>

\* One tool call.  In an LLM step arguments that cannot be decoded, an RPC
\* error and a tool error all end the step; a ReAct step tells the model.
ToolReturns(x, ok) ==
    /\ pc[x] = "tools"
    /\ pending[x] > 0
    /\ IF ok \/ kind[x] = "react"
       THEN /\ history' = [history EXCEPT ![x] = Append(history[x], Other(ResultRole(x)))]
            /\ pending' = [pending EXCEPT ![x] = pending[x] - 1]
            /\ UNCHANGED <<pc, failed>>
       ELSE Fails(x, "tools", Deferred(x)) /\ UNCHANGED <<history, pending>>
    /\ UNCHANGED <<kind, ctxDone, round, attempt, gpuVars, late>>

\* Mutation of RoundEnds: the loop has no last round.
RoundEndsForever(x) ==
    /\ pending[x] = 0
    /\ Goes(x, "tools", "chat")
    /\ history' = [history EXCEPT ![x] = <<Other("user")>>]
    /\ UNCHANGED <<kind, ctxDone, round, attempt, pending, failed, gpuVars, late>>

\* All calls of the round are made: the next round, or the limit is reached.
RoundEnds(x) ==
    /\ pending[x] = 0
    /\ round' = [round EXCEPT ![x] = round[x] + 1]
    /\ IF round[x] + 1 < MaxRounds(x) THEN Goes(x, "tools", "chat") /\ UNCHANGED failed
       ELSE Fails(x, "tools", Deferred(x))
    /\ UNCHANGED <<kind, ctxDone, attempt, history, pending, gpuVars, late>>

\* The step's deadline passes, or the run is cancelled.
ContextEnds(x) ==
    /\ Live(x)
    /\ pc[x] \notin {"idle", "done"}
    /\ ctxDone' = ctxDone \cup {x}
    /\ UNCHANGED <<pc, kind, loopVars, failed, gpuVars, late>>

-----------------------------------------------------------------------------
Step(x) ==
    \/ CreateReservation(x) \/ CreateFails(x) \/ ScheduleReservation(x) \/ ScheduleFails(x)
    \/ RemembersJob(x)
    \/ \E calls \in 0 .. MaxCalls : ChatAnswers(x, calls)
    \/ ChatFinishes(x) \/ ChatRefused(x) \/ ChatTransient(x)
    \/ SleepElapses(x) \/ SleepCancelled(x)
    \/ \E ok \in BOOLEAN : ToolReturns(x, ok)
    \/ RoundEnds(x)
    \/ ReleaseFinds(x) \/ ReleaseCancels(x) \/ ReleaseForgets(x) \/ ReleaseFails(x)

Next ==
    \E x \in Executions :
        \/ \E k \in {"llm", "plain", "react"} : Start(x, k)
        \/ Step(x) \/ ContextEnds(x)

\* Every HTTP client has a timeout and tools run under the step's context, so
\* each call returns.
Fairness == \A x \in Executions : WF_vars(Step(x))

Spec == Init /\ [][Next]_vars /\ Fairness

-----------------------------------------------------------------------------
(* Properties.                                                             *)

\* When a chat request is sent, the conversation is complete: after each of
\* the model's answers come the results of exactly the calls it made, before
\* its next answer.  The API refuses a conversation in which one is missing.
ConversationComplete ==
    \A x \in Executions : pc[x] = "chat" =>
        LET h == history[x] IN
        \A k \in DOMAIN h : h[k].role = "assistant" =>
            /\ k + h[k].calls <= Len(h)
            /\ \A m \in k + 1 .. k + h[k].calls : h[m].role = ResultRole(x)
            /\ k + h[k].calls < Len(h) => h[k + h[k].calls + 1].role = "assistant"

\* Once a step's context has ended it sends at most one more chat request,
\* although a request that fails for that reason counts as retryable.
StopsAsking == \A x \in Executions : late[x] <= 1

\* A GPU job outlives its execution only if the caller was told of an error.
\* For steps with different IDs, whatever else runs at the same time.
NoSilentLeak ==
    \A x \in Executions : pc[x] = "done" /\ ~failed[x] => job[x] \in {"none", "cancelled"}

\* The GPU is reserved before the step and released after it: nobody cancels
\* the job of an execution that is still using it.  Reservations are kept by
\* step ID, so the steps of two runs of one workflow do that to each other.
JobsNotStolen ==
    \A x \in Executions :
        pc[x] \in {"remember", "chat", "sleep", "tools"} => job[x] # "cancelled"

\* A reservation is released when the step ran into its deadline or was
\* cancelled, too.  ReleaseGPU runs under the step's context, so it is not.
ReleasedAnyway ==
    \A x \in Executions :
        pc[x] = "done" /\ x \in ctxDone => reservations[TaskID(x)] # x

\* Every execution returns: rounds and attempts are bounded whatever the model
\* answers, and nothing waits for a context that does not end.
ExecutesReturn == \A x \in Executions : pc[x] # "idle" ~> pc[x] = "done"
=============================================================================
