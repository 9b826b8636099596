--------------------------- MODULE LLMStepProofs ---------------------------
(***************************************************************************)
(* Theorems about module LLMStep, for any number of executions of any kind *)
(* and any limits on rounds, attempts and calls.                           *)
(***************************************************************************)
EXTENDS LLMStep, SequenceTheorems, TLAPS

\* The stages of a conversation that goes on.
Talking == {"chat", "sleep", "tools"}

\* What bounds the loops: a round that is under way is not the last but one
\* too many, and a delay is followed by an attempt.
LoopInv ==
    \A x \in Executions :
        /\ pc[x] = "idle" => round[x] = 0
        /\ pc[x] \in Talking \cup {"create", "schedule", "remember"} => round[x] < MaxRounds(x)
        /\ pc[x] = "sleep" => attempt[x] < MaxAttempts - 1

\* A request under an ended context ends the conversation, and nothing starts
\* it again.
LateInv ==
    \A x \in Executions :
        /\ late[x] <= 1
        /\ pc[x] \notin {"release", "cancel", "forget", "done"} => late[x] = 0

BaseInv == TypeOK /\ LoopInv /\ LateInv

LEMMA InitBase == Init => BaseInv
  BY StepTypes DEF Init, BaseInv, TypeOK, LoopInv, LateInv, MaxRounds, Talking

LEMMA StartBase ==
    ASSUME BaseInv, NEW x \in Executions, NEW k \in {"llm", "plain", "react"}, Start(x, k)
    PROVE  BaseInv'
<1> USE DEF BaseInv, gpuVars
<1>1. <<Other("user")>> \in Seq(Messages)
  BY StepTypes DEF Other, Messages
<1>2. TypeOK'
  <2>1. \A y \in Executions : round'[y] <= MaxRounds(y)'
    BY StepTypes DEF Start, TypeOK, MaxRounds, LoopInv
  <2>2. history' \in [Executions -> Seq(Messages)]
    BY <1>1 DEF Start, TypeOK
  <2> QED
    BY <2>1, <2>2 DEF Start, TypeOK
<1>3. LoopInv'
  BY StepTypes DEF Start, TypeOK, LoopInv, MaxRounds, Talking
<1>4. LateInv'
  BY DEF Start, TypeOK, LateInv
<1> QED
  BY <1>2, <1>3, <1>4

LEMMA StepBase ==
    ASSUME BaseInv, NEW x \in Executions, Step(x)
    PROVE  BaseInv'
<1> USE StepTypes DEF BaseInv, loopVars, gpuVars, Goes, Fails
<1>1. ASSUME CreateReservation(x) PROVE BaseInv'
  BY <1>1 DEF TypeOK, LoopInv, LateInv, MaxRounds, Talking, CreateReservation
<1>2. ASSUME CreateFails(x) PROVE BaseInv'
  BY <1>2 DEF TypeOK, LoopInv, LateInv, MaxRounds, Talking, CreateFails
<1>3. ASSUME ScheduleReservation(x) PROVE BaseInv'
  BY <1>3 DEF TypeOK, LoopInv, LateInv, MaxRounds, Talking, ScheduleReservation
<1>4. ASSUME ScheduleFails(x) PROVE BaseInv'
  BY <1>4 DEF TypeOK, LoopInv, LateInv, MaxRounds, Talking, ScheduleFails
<1>5. ASSUME NEW calls \in 0 .. MaxCalls, ChatAnswers(x, calls) PROVE BaseInv'
  <2>1. history[x] \in Seq(Messages) /\ Assistant(calls) \in Messages
    BY DEF TypeOK, Assistant, Messages
  <2>a. Append(history[x], Assistant(calls)) \in Seq(Messages)
    BY <2>1, AppendProperties
  <2>2. TypeOK'
    BY <1>5, <2>a DEF TypeOK, MaxRounds, ChatAnswers
  <2>3. LoopInv' /\ LateInv'
    BY <1>5 DEF TypeOK, LoopInv, LateInv, MaxRounds, Talking, ChatAnswers
  <2> QED
    BY <2>2, <2>3
<1>6. ASSUME ChatFinishes(x) PROVE BaseInv'
  BY <1>6 DEF TypeOK, LoopInv, LateInv, MaxRounds, Talking, Deferred, ChatFinishes
<1>7. ASSUME ChatRefused(x) PROVE BaseInv'
  BY <1>7 DEF TypeOK, LoopInv, LateInv, MaxRounds, Talking, Deferred, ChatRefused
<1>8. ASSUME ChatTransient(x) PROVE BaseInv'
  <2>1. /\ round' = round /\ kind' = kind /\ attempt' = attempt /\ pc[x] = "chat"
        /\ late' = IF Live(x) THEN late ELSE [late EXCEPT ![x] = late[x] + 1]
    BY <1>8 DEF ChatTransient, Attempted, Live
  <2>2. CASE attempt[x] = MaxAttempts - 1 \/ ~Live(x)
    <3>1. Fails(x, "chat", Deferred(x))
      BY <1>8, <2>2 DEF ChatTransient
    <3> QED
      <4>1. TypeOK'
        <5>1. late' \in [Executions -> Nat]
          BY <2>1 DEF TypeOK
        <5>2. UNCHANGED <<kind, ctxDone, loopVars, gpuVars>>
          BY <1>8 DEF ChatTransient
        <5> QED
          BY <3>1, <5>1, <5>2 DEF TypeOK, MaxRounds, Deferred
      <4>2. LoopInv'
        BY <2>1, <3>1 DEF TypeOK, LoopInv, MaxRounds, Talking, Deferred
      <4>3. LateInv'
        BY <2>1, <3>1 DEF TypeOK, LateInv, Deferred
      <4> QED
        BY <4>1, <4>2, <4>3
  <2>3. CASE ~(attempt[x] = MaxAttempts - 1 \/ ~Live(x))
    <3>1. Goes(x, "chat", "sleep") /\ failed' = failed /\ late' = late
      BY <1>8, <2>1, <2>3 DEF ChatTransient
    <3>a. attempt[x] \in 0 .. MaxAttempts - 1 /\ MaxAttempts \in Nat /\ attempt[x] # MaxAttempts - 1
      BY <2>3 DEF TypeOK
    <3>2. attempt[x] < MaxAttempts - 1
      BY <3>a
    <3> QED
      BY <1>8, <2>1, <3>1, <3>2 DEF ChatTransient, TypeOK, LoopInv, LateInv, MaxRounds, Talking
  <2> QED
    BY <2>2, <2>3
<1>9. ASSUME SleepElapses(x) PROVE BaseInv'
  <2>1. attempt[x] + 1 \in 0 .. MaxAttempts - 1
    BY <1>9 DEF SleepElapses, TypeOK, LoopInv
  <2>2. TypeOK'
    BY <1>9, <2>1 DEF TypeOK, MaxRounds, SleepElapses
  <2>3. LoopInv' /\ LateInv'
    BY <1>9 DEF TypeOK, LoopInv, LateInv, MaxRounds, Talking, SleepElapses
  <2> QED
    BY <2>2, <2>3
<1>10. ASSUME SleepCancelled(x) PROVE BaseInv'
  BY <1>10 DEF TypeOK, LoopInv, LateInv, MaxRounds, Talking, Deferred, SleepCancelled
<1>11. ASSUME NEW ok \in BOOLEAN, ToolReturns(x, ok) PROVE BaseInv'
  <2>1. CASE ok \/ kind[x] = "react"
    <3>a. ResultRole(x) \in {"user", "tool"} /\ 0 \in 0 .. MaxCalls
      BY DEF ResultRole
    <3>b. history[x] \in Seq(Messages) /\ Other(ResultRole(x)) \in Messages
      BY <3>a DEF TypeOK, Other, Messages
    <3>1. Append(history[x], Other(ResultRole(x))) \in Seq(Messages)
      BY <3>b, AppendProperties
    <3>2. pending[x] - 1 \in 0 .. MaxCalls
      BY <1>11 DEF ToolReturns, TypeOK
    <3>3. /\ history' = [history EXCEPT ![x] = Append(history[x], Other(ResultRole(x)))]
          /\ pending' = [pending EXCEPT ![x] = pending[x] - 1]
          /\ pc' = pc /\ failed' = failed
      BY <1>11, <2>1 DEF ToolReturns
    <3>4. TypeOK'
      BY <1>11, <3>1, <3>2, <3>3 DEF TypeOK, MaxRounds, ToolReturns
    <3> QED
      BY <1>11, <3>3, <3>4 DEF ToolReturns, TypeOK, LoopInv, LateInv, MaxRounds
  <2>2. CASE ~(ok \/ kind[x] = "react")
    <3>1. Fails(x, "tools", Deferred(x)) /\ history' = history /\ pending' = pending
      BY <1>11, <2>2 DEF ToolReturns
    <3> QED
      BY <1>11, <3>1 DEF ToolReturns, TypeOK, LoopInv, LateInv, MaxRounds, Talking, Deferred
  <2> QED
    BY <2>1, <2>2
<1>12. ASSUME RoundEnds(x) PROVE BaseInv'
  <2>1. round[x] < MaxRounds(x) /\ round[x] \in Nat /\ MaxRounds(x) \in Nat
    BY <1>12 DEF RoundEnds, TypeOK, LoopInv, MaxRounds, Talking
  <2>2. CASE round[x] + 1 < MaxRounds(x)
    <3>1. Goes(x, "tools", "chat") /\ failed' = failed
      BY <1>12, <2>2 DEF RoundEnds
    <3> QED
      <4>1. TypeOK'
        BY <1>12, <2>1, <2>2, <3>1 DEF RoundEnds, TypeOK, MaxRounds
      <4>2. LoopInv' /\ LateInv'
        BY <1>12, <2>2, <3>1 DEF RoundEnds, TypeOK, LoopInv, LateInv, MaxRounds, Talking
      <4> QED
        BY <4>1, <4>2
  <2>3. CASE ~(round[x] + 1 < MaxRounds(x))
    <3>1. Fails(x, "tools", Deferred(x))
      BY <1>12, <2>3 DEF RoundEnds
    <3>2. round[x] + 1 \in Nat /\ round[x] + 1 <= MaxRounds(x)
      BY <2>1
    <3>3. TypeOK'
      BY <1>12, <3>1, <3>2 DEF RoundEnds, TypeOK, MaxRounds, Deferred
    <3>4. LoopInv' /\ LateInv'
      BY <1>12, <2>1, <3>1 DEF RoundEnds, TypeOK, LoopInv, LateInv, MaxRounds, Talking, Deferred
    <3> QED
      BY <3>3, <3>4
  <2> QED
    BY <2>2, <2>3
<1>13. ASSUME ReleaseFinds(x) PROVE BaseInv'
  <2> DEFINE owner == reservations[TaskID(x)]
  <2>1. owner \in Executions \cup {Nobody}
    BY DEF TypeOK, TaskID, StepIDs
  <2>2. /\ pc[x] = "release" /\ target' = [target EXCEPT ![x] = owner]
        /\ \/ pc' = [pc EXCEPT ![x] = "done"] /\ failed' = [failed EXCEPT ![x] = TRUE]
           \/ pc' = [pc EXCEPT ![x] = "cancel"] /\ failed' = failed
        /\ UNCHANGED <<kind, ctxDone, loopVars, job, reservations, late>>
    BY <1>13 DEF ReleaseFinds
  <2> HIDE DEF owner
  <2> QED
    <3>1. TypeOK'
      BY <2>1, <2>2 DEF TypeOK, MaxRounds
    <3>2. LoopInv' /\ LateInv'
      BY <2>2 DEF TypeOK, LoopInv, LateInv, MaxRounds, Talking
    <3> QED
      BY <3>1, <3>2
<1>14. ASSUME ReleaseCancels(x) PROVE BaseInv'
  BY <1>14 DEF TypeOK, LoopInv, LateInv, MaxRounds, Talking, ReleaseCancels
<1>15. ASSUME ReleaseFails(x) PROVE BaseInv'
  BY <1>15 DEF TypeOK, LoopInv, LateInv, MaxRounds, Talking, ReleaseFails
<1>16. ASSUME RemembersJob(x) PROVE BaseInv'
  BY <1>16 DEF TypeOK, LoopInv, LateInv, MaxRounds, Talking, RemembersJob, TaskID, StepIDs
<1>17. ASSUME ReleaseForgets(x) PROVE BaseInv'
  BY <1>17 DEF TypeOK, LoopInv, LateInv, MaxRounds, Talking, ReleaseForgets, TaskID, StepIDs
<1> QED
  BY <1>1, <1>2, <1>3, <1>4, <1>5, <1>6, <1>7, <1>8, <1>9, <1>10, <1>11, <1>12, <1>13, <1>14,
     <1>15, <1>16, <1>17
     DEF Step

LEMMA NextBase == BaseInv /\ [Next]_vars => BaseInv'
<1> SUFFICES ASSUME BaseInv, [Next]_vars PROVE BaseInv'
  OBVIOUS
<1>1. ASSUME NEW x \in Executions, NEW k \in {"llm", "plain", "react"}, Start(x, k)
      PROVE  BaseInv'
  BY <1>1, StartBase
<1>2. ASSUME NEW x \in Executions, Step(x) PROVE BaseInv'
  BY <1>2, StepBase
<1>3. ASSUME NEW x \in Executions, ContextEnds(x) PROVE BaseInv'
  BY <1>3 DEF ContextEnds, BaseInv, TypeOK, LoopInv, LateInv, MaxRounds, loopVars, gpuVars
<1>4. CASE UNCHANGED vars
  BY <1>4 DEF vars, BaseInv, TypeOK, LoopInv, LateInv, MaxRounds, loopVars, gpuVars
<1> QED
  BY <1>1, <1>2, <1>3, <1>4 DEF Next

LEMMA BaseInvariant == Spec => []BaseInv
  BY InitBase, NextBase, PTL DEF Spec

\* A step whose context has ended sends at most one more request to the model,
\* however the end falls among attempts, delays and tool calls.
THEOREM AskingStops == Spec => []StopsAsking
<1>1. BaseInv => StopsAsking
  BY DEF BaseInv, LateInv, StopsAsking
<1> QED
  BY <1>1, BaseInvariant, PTL

-----------------------------------------------------------------------------
(***************************************************************************)
(* GPU jobs.  A reservation is found again under the step's ID.  While the *)
(* IDs differ, what an execution finds there when it releases is its own   *)
(* job, so a success has cancelled it.                                     *)
(***************************************************************************)
DistinctStepIDs == \A x, y \in Executions : StepID[x] = StepID[y] => x = y

GPUInv ==
    \A x \in Executions :
        /\ pc[x] \in {"idle", "create"} \/ kind[x] # "llm" => job[x] = "none"
        /\ pc[x] \in {"create", "schedule", "remember", "release", "cancel", "forget"} =>
             kind[x] = "llm"
        /\ pc[x] = "remember" => job[x] = "scheduled"
        /\ kind[x] = "llm" /\ pc[x] \in Talking \cup {"release", "cancel"} =>
             job[x] = "scheduled" /\ reservations[TaskID(x)] = x
        /\ pc[x] = "cancel" => target[x] = x
        /\ pc[x] = "forget" => job[x] = "cancelled"
        /\ pc[x] = "done" /\ ~failed[x] => job[x] \in {"none", "cancelled"}

LEMMA InitGPU == Init => GPUInv
  BY DEF Init, GPUInv, Talking

LEMMA NextGPU ==
    ASSUME DistinctStepIDs
    PROVE  BaseInv /\ GPUInv /\ [Next]_vars => GPUInv'
<1> SUFFICES ASSUME BaseInv, GPUInv, [Next]_vars PROVE GPUInv'
  OBVIOUS
<1> USE DEF BaseInv, loopVars, gpuVars, Goes, Fails
<1>1. \A x, y \in Executions : TaskID(x) = TaskID(y) => x = y
  BY DEF DistinctStepIDs, TaskID
<1>2. \A x \in Executions : TaskID(x) \in StepIDs
  BY DEF TaskID, StepIDs
<1>3. ASSUME NEW x \in Executions, NEW k \in {"llm", "plain", "react"}, Start(x, k)
      PROVE  GPUInv'
  BY <1>3 DEF TypeOK, GPUInv, Talking, Start
<1>4. ASSUME NEW x \in Executions, CreateReservation(x) PROVE GPUInv'
  BY <1>4 DEF TypeOK, GPUInv, Talking, CreateReservation
<1>5. ASSUME NEW x \in Executions, CreateFails(x) PROVE GPUInv'
  BY <1>5 DEF TypeOK, GPUInv, Talking, CreateFails
<1>6. ASSUME NEW x \in Executions, ScheduleReservation(x) PROVE GPUInv'
  BY <1>6 DEF TypeOK, GPUInv, Talking, ScheduleReservation
<1>7. ASSUME NEW x \in Executions, ScheduleFails(x) PROVE GPUInv'
  BY <1>7 DEF TypeOK, GPUInv, Talking, ScheduleFails
<1>8. ASSUME NEW x \in Executions, NEW calls \in 0 .. MaxCalls, ChatAnswers(x, calls)
      PROVE  GPUInv'
  BY <1>8 DEF TypeOK, GPUInv, Talking, ChatAnswers
<1>9. ASSUME NEW x \in Executions, ChatFinishes(x) PROVE GPUInv'
  BY <1>9 DEF TypeOK, GPUInv, Talking, Deferred, ChatFinishes
<1>10. ASSUME NEW x \in Executions, ChatRefused(x) PROVE GPUInv'
  BY <1>10 DEF TypeOK, GPUInv, Talking, Deferred, ChatRefused
<1>11. ASSUME NEW x \in Executions, ChatTransient(x) PROVE GPUInv'
  BY <1>11 DEF TypeOK, GPUInv, Talking, Deferred, Live, ChatTransient
<1>12. ASSUME NEW x \in Executions, SleepElapses(x) PROVE GPUInv'
  BY <1>12 DEF TypeOK, GPUInv, Talking, SleepElapses
<1>13. ASSUME NEW x \in Executions, SleepCancelled(x) PROVE GPUInv'
  BY <1>13 DEF TypeOK, GPUInv, Talking, Deferred, SleepCancelled
<1>14. ASSUME NEW x \in Executions, NEW ok \in BOOLEAN, ToolReturns(x, ok)
      PROVE  GPUInv'
  <2>1. \/ pc' = pc /\ failed' = failed
        \/ /\ pc[x] = "tools" /\ pc' = [pc EXCEPT ![x] = Deferred(x)]
           /\ failed' = [failed EXCEPT ![x] = TRUE]
    BY <1>14 DEF ToolReturns
  <2> QED
    <3>1. job' = job /\ reservations' = reservations /\ target' = target /\ kind' = kind
      BY <1>14 DEF ToolReturns
    <3> QED
      BY <2>1, <3>1 DEF TypeOK, GPUInv, Talking, Deferred, TaskID
<1>15. ASSUME NEW x \in Executions, RoundEnds(x) PROVE GPUInv'
  BY <1>15 DEF TypeOK, GPUInv, Talking, Deferred, RoundEnds
<1>16. ASSUME NEW x \in Executions, ReleaseFinds(x) PROVE GPUInv'
  BY <1>16, <1>1, <1>2, NobodyIsNone DEF TypeOK, GPUInv, Talking, ReleaseFinds
<1>17. ASSUME NEW x \in Executions, ReleaseCancels(x) PROVE GPUInv'
  BY <1>17 DEF TypeOK, GPUInv, Talking, ReleaseCancels
<1>18. ASSUME NEW x \in Executions, ReleaseFails(x) PROVE GPUInv'
  BY <1>18, <1>1, <1>2 DEF TypeOK, GPUInv, Talking, ReleaseFails
<1>19. ASSUME NEW x \in Executions, ContextEnds(x) PROVE GPUInv'
  BY <1>19 DEF GPUInv, TaskID, ContextEnds
<1>20. CASE UNCHANGED vars
  BY <1>20 DEF GPUInv, TaskID, vars
<1>21. ASSUME NEW x \in Executions, RemembersJob(x) PROVE GPUInv'
  BY <1>21, <1>1, <1>2 DEF TypeOK, GPUInv, Talking, RemembersJob
<1>22. ASSUME NEW x \in Executions, ReleaseForgets(x) PROVE GPUInv'
  BY <1>22, <1>1, <1>2 DEF TypeOK, GPUInv, Talking, ReleaseForgets
<1> QED
  BY <1>3, <1>4, <1>5, <1>6, <1>7, <1>8, <1>9, <1>10, <1>11, <1>12, <1>13, <1>14, <1>15,
     <1>16, <1>17, <1>18, <1>19, <1>20, <1>21, <1>22
     DEF Next, Step

LEMMA GPUInvariant ==
    ASSUME DistinctStepIDs
    PROVE  Spec => [](BaseInv /\ GPUInv)
<1>1. Init => BaseInv /\ GPUInv
  BY InitBase, InitGPU
<1>2. BaseInv /\ GPUInv /\ [Next]_vars => (BaseInv /\ GPUInv)'
  BY NextBase, NextGPU
<1> QED
  BY <1>1, <1>2, PTL DEF Spec

\* An execution that returns without an error has left no job on the platform,
\* for executions of steps with different IDs: what RequestGPU stored under the
\* step's ID is what the deferred ReleaseGPU finds and cancels.
THEOREM LeaksReported ==
    ASSUME DistinctStepIDs
    PROVE  Spec => []NoSilentLeak
<1>1. GPUInv => NoSilentLeak
  BY DEF GPUInv, NoSilentLeak
<1> QED
  BY <1>1, GPUInvariant, PTL

-----------------------------------------------------------------------------
(***************************************************************************)
(* The conversation.  Between two chat requests some results are missing;  *)
(* the invariant says how many: those that pending counts, and only of the *)
(* last answer.  A chat request is sent when none is.                      *)
(***************************************************************************)

\* In h, every answer is followed by the results, in role r, of all its calls
\* and then by the next answer, up to the p last results, which are to come.
Answered(h, p, r) ==
    \A k \in 1 .. Len(h) : h[k].role = "assistant" =>
        /\ k + h[k].calls <= Len(h) + p
        /\ \A m \in k + 1 .. k + h[k].calls : m <= Len(h) => h[m].role = r
        /\ k + h[k].calls < Len(h) => h[k + h[k].calls + 1].role = "assistant"
        /\ p > 0 => k + h[k].calls < Len(h) \/ k + h[k].calls = Len(h) + p

TalkInv ==
    \A x \in Executions :
        /\ pc[x] \in {"idle", "create", "schedule", "remember", "chat", "sleep"} => pending[x] = 0
        /\ Answered(history[x], pending[x], ResultRole(x))

LEMMA CallsCounted ==
    ASSUME NEW h \in Seq(Messages)
    PROVE  \A i \in 1 .. Len(h) : h[i].calls \in Nat
<1>1. \A m \in Messages : m.calls \in Nat
  BY StepTypes DEF Messages
<1>2. \A i \in 1 .. Len(h) : h[i] \in Messages
  BY ElementOfSeq
<1> QED
  BY <1>1, <1>2

\* An answer of the model may be added to a conversation without gaps.
LEMMA AnswerFits ==
    ASSUME NEW h \in Seq(Messages), NEW n \in 0 .. MaxCalls, NEW r, Answered(h, 0, r)
    PROVE  Answered(Append(h, Assistant(n)), n, r)
<1> DEFINE g == Append(h, Assistant(n))
<1>1. Assistant(n) \in Messages /\ n \in Nat
  BY StepTypes DEF Assistant, Messages
<1>2. /\ g \in Seq(Messages) /\ Len(g) = Len(h) + 1 /\ Len(h) \in Nat
      /\ \A i \in 1 .. Len(h) : g[i] = h[i]
      /\ g[Len(h) + 1] = Assistant(n)
  BY <1>1, AppendProperties, LenProperties
<1>3. \A i \in 1 .. Len(h) : h[i].calls \in Nat
  BY CallsCounted
<1> HIDE DEF g
<1>4. SUFFICES ASSUME NEW k \in 1 .. Len(g), g[k].role = "assistant"
               PROVE  /\ k + g[k].calls <= Len(g) + n
                      /\ \A m \in k + 1 .. k + g[k].calls : m <= Len(g) => g[m].role = r
                      /\ k + g[k].calls < Len(g) => g[k + g[k].calls + 1].role = "assistant"
                      /\ n > 0 => k + g[k].calls < Len(g) \/ k + g[k].calls = Len(g) + n
  BY DEF Answered, g
<1>5. CASE k = Len(h) + 1
  <2>1. g[k].calls = n
    BY <1>2, <1>5 DEF Assistant
  <2> QED
    BY <1>1, <1>2, <1>5, <2>1
<1>6. CASE k \in 1 .. Len(h)
  <2>1. /\ g[k] = h[k] /\ h[k].calls \in Nat
        /\ k + h[k].calls <= Len(h)
        /\ \A m \in k + 1 .. k + h[k].calls : m <= Len(h) => h[m].role = r
        /\ k + h[k].calls < Len(h) => h[k + h[k].calls + 1].role = "assistant"
    <3>1. g[k] = h[k] /\ h[k].calls \in Nat /\ h[k].role = "assistant"
      BY <1>2, <1>3, <1>4, <1>6
    <3>2. Len(h) + 0 = Len(h)
      BY <1>2
    <3> QED
      BY <1>6, <3>1, <3>2 DEF Answered
  <2>2. g[Len(h) + 1].role = "assistant"
    BY <1>2 DEF Assistant
  <2>3. k + g[k].calls < Len(g) => g[k + g[k].calls + 1].role = "assistant"
    <3>1. CASE k + h[k].calls = Len(h)
      BY <2>1, <2>2, <3>1
    <3>2. CASE k + h[k].calls < Len(h)
      <4>1. k + h[k].calls + 1 \in 1 .. Len(h)
        BY <1>2, <1>6, <2>1, <3>2
      <4> QED
        BY <1>2, <2>1, <3>2, <4>1
    <3>3. k + h[k].calls = Len(h) \/ k + h[k].calls < Len(h)
      <4>1. k \in Nat /\ h[k].calls \in Nat /\ Len(h) \in Nat /\ k + h[k].calls <= Len(h)
        BY <1>2, <1>6, <2>1
      <4> QED
        BY <4>1
    <3> QED
      BY <3>1, <3>2, <3>3
  <2>4. \A m \in k + 1 .. k + g[k].calls : m <= Len(g) => g[m].role = r
    BY <1>2, <1>6, <2>1
  <2>5. k + g[k].calls <= Len(g) + n /\ k + g[k].calls < Len(g)
    <3>1. /\ k \in Nat /\ g[k].calls \in Nat /\ Len(h) \in Nat /\ n \in Nat
          /\ k + g[k].calls <= Len(h) /\ Len(g) = Len(h) + 1
      BY <1>1, <1>2, <1>6, <2>1
    <3> QED
      BY <3>1
  <2> QED
    BY <2>3, <2>4, <2>5
<1> QED
  BY <1>2, <1>4, <1>5, <1>6

\* A result may be added while one is missing.
LEMMA ResultFits ==
    ASSUME NEW h \in Seq(Messages), NEW p \in Nat \ {0}, NEW r \in {"user", "tool"},
           Answered(h, p, r)
    PROVE  Answered(Append(h, Other(r)), p - 1, r)
<1> DEFINE g == Append(h, Other(r))
<1>1. Other(r) \in Messages
  BY StepTypes DEF Other, Messages
<1>2. /\ g \in Seq(Messages) /\ Len(g) = Len(h) + 1 /\ Len(h) \in Nat
      /\ \A i \in 1 .. Len(h) : g[i] = h[i]
      /\ g[Len(h) + 1] = Other(r)
  BY <1>1, AppendProperties, LenProperties
<1>3. \A i \in 1 .. Len(h) : h[i].calls \in Nat
  BY CallsCounted
<1> HIDE DEF g
<1>4. g[Len(h) + 1].role = r /\ r # "assistant"
  BY <1>2 DEF Other
<1>5. SUFFICES ASSUME NEW k \in 1 .. Len(g), g[k].role = "assistant"
               PROVE  /\ k + g[k].calls <= Len(g) + (p - 1)
                      /\ \A m \in k + 1 .. k + g[k].calls : m <= Len(g) => g[m].role = r
                      /\ k + g[k].calls < Len(g) => g[k + g[k].calls + 1].role = "assistant"
                      /\ p - 1 > 0 => k + g[k].calls < Len(g) \/ k + g[k].calls = Len(g) + (p - 1)
  BY DEF Answered, g
<1>6. k \in 1 .. Len(h)
  BY <1>2, <1>4, <1>5
<1>7. /\ g[k] = h[k] /\ h[k].calls \in Nat
      /\ k + h[k].calls <= Len(h) + p
      /\ \A m \in k + 1 .. k + h[k].calls : m <= Len(h) => h[m].role = r
      /\ k + h[k].calls < Len(h) => h[k + h[k].calls + 1].role = "assistant"
      /\ k + h[k].calls < Len(h) \/ k + h[k].calls = Len(h) + p
  BY <1>2, <1>3, <1>5, <1>6 DEF Answered
<1> QED
  BY <1>2, <1>4, <1>6, <1>7

LEMMA InitTalk == Init => TalkInv
  BY DEF Init, TalkInv, Answered

LEMMA NextTalk == BaseInv /\ TalkInv /\ [Next]_vars => TalkInv'
<1> SUFFICES ASSUME BaseInv, TalkInv, [Next]_vars PROVE TalkInv'
  OBVIOUS
<1> USE DEF BaseInv, loopVars, gpuVars, Goes, Fails
<1>1. ASSUME NEW x \in Executions, NEW k \in {"llm", "plain", "react"}, Start(x, k)
      PROVE  TalkInv'
  <2>1. \A r : Answered(<<Other("user")>>, 0, r)
    BY DEF Answered, Other
  <2> QED
    BY <1>1, <2>1 DEF TypeOK, TalkInv, ResultRole, Start
<1>2. ASSUME NEW x \in Executions, NEW calls \in 0 .. MaxCalls, ChatAnswers(x, calls)
      PROVE  TalkInv'
  <2>1. history[x] \in Seq(Messages) /\ pending[x] = 0 /\ pc[x] = "chat"
    BY <1>2 DEF ChatAnswers, TypeOK, TalkInv
  <2>2. Answered(Append(history[x], Assistant(calls)), calls, ResultRole(x))
    BY <2>1, AnswerFits DEF TalkInv
  <2> QED
    BY <1>2, <2>2 DEF ChatAnswers, TypeOK, TalkInv, ResultRole
<1>3. ASSUME NEW x \in Executions, NEW ok \in BOOLEAN, ToolReturns(x, ok)
      PROVE  TalkInv'
  <2>1. history[x] \in Seq(Messages) /\ pending[x] \in Nat \ {0} /\ pc[x] = "tools"
    BY <1>3, StepTypes DEF ToolReturns, TypeOK
  <2>2. ResultRole(x) \in {"user", "tool"}
    BY DEF ResultRole
  <2>3. Answered(Append(history[x], Other(ResultRole(x))), pending[x] - 1, ResultRole(x))
    BY <2>1, <2>2, ResultFits DEF TalkInv
  <2>4. CASE ok \/ kind[x] = "react"
    <3>1. /\ history' = [history EXCEPT ![x] = Append(history[x], Other(ResultRole(x)))]
          /\ pending' = [pending EXCEPT ![x] = pending[x] - 1]
          /\ pc' = pc /\ kind' = kind
      BY <1>3, <2>4 DEF ToolReturns
    <3> QED
      BY <2>1, <2>3, <3>1 DEF TypeOK, TalkInv, ResultRole
  <2>5. CASE ~(ok \/ kind[x] = "react")
    <3>1. /\ history' = history /\ pending' = pending /\ kind' = kind
          /\ pc' = [pc EXCEPT ![x] = Deferred(x)]
      BY <1>3, <2>5 DEF ToolReturns
    <3> QED
      BY <3>1 DEF TypeOK, TalkInv, ResultRole, Deferred
  <2> QED
    BY <2>4, <2>5
<1>4. ASSUME NEW x \in Executions, RoundEnds(x) PROVE TalkInv'
  BY <1>4 DEF RoundEnds, TypeOK, TalkInv, ResultRole, Deferred
<1>5. ASSUME NEW x \in Executions, NEW to,
             history' = history, pending' = pending, kind' = kind,
             pc' = [pc EXCEPT ![x] = to],
             \/ to \notin {"idle", "create", "schedule", "remember", "chat", "sleep"}
             \/ pc[x] \in {"idle", "create", "schedule", "remember", "chat", "sleep"}
      PROVE  TalkInv'
  BY <1>5 DEF TypeOK, TalkInv, ResultRole
<1>6. ASSUME NEW x \in Executions,
             \/ CreateReservation(x) \/ CreateFails(x)
             \/ ScheduleReservation(x) \/ ScheduleFails(x) \/ RemembersJob(x)
      PROVE  TalkInv'
  BY <1>5, <1>6 DEF CreateReservation, CreateFails, ScheduleReservation, ScheduleFails,
                    RemembersJob
<1>7. ASSUME NEW x \in Executions,
             \/ ChatFinishes(x) \/ ChatRefused(x) \/ ChatTransient(x)
             \/ SleepElapses(x) \/ SleepCancelled(x)
      PROVE  TalkInv'
  BY <1>5, <1>7 DEF ChatFinishes, ChatRefused, ChatTransient, SleepElapses, SleepCancelled
<1>8. ASSUME NEW x \in Executions,
             ReleaseFinds(x) \/ ReleaseCancels(x) \/ ReleaseForgets(x) \/ ReleaseFails(x)
      PROVE  TalkInv'
  BY <1>5, <1>8 DEF ReleaseFinds, ReleaseCancels, ReleaseForgets, ReleaseFails
<1>9. ASSUME NEW x \in Executions, ContextEnds(x) PROVE TalkInv'
  BY <1>9 DEF TalkInv, ResultRole, ContextEnds
<1>10. CASE UNCHANGED vars
  BY <1>10 DEF TalkInv, ResultRole, vars
<1> QED
  BY <1>1, <1>2, <1>3, <1>4, <1>6, <1>7, <1>8, <1>9, <1>10 DEF Next, Step

\* Whatever the model answers, whichever calls fail and whenever the context
\* ends, no request reaches the API with the result of a call missing, doubled
\* or out of place.
THEOREM ConversationsComplete == Spec => []ConversationComplete
<1>1. BaseInv /\ TalkInv => ConversationComplete
  <2> SUFFICES ASSUME BaseInv, TalkInv, NEW x \in Executions, pc[x] = "chat",
                      NEW k \in DOMAIN history[x], history[x][k].role = "assistant"
               PROVE  LET h == history[x] IN
                      /\ k + h[k].calls <= Len(h)
                      /\ \A m \in k + 1 .. k + h[k].calls : h[m].role = ResultRole(x)
                      /\ k + h[k].calls < Len(h) => h[k + h[k].calls + 1].role = "assistant"
    BY DEF ConversationComplete
  <2>1. /\ history[x] \in Seq(Messages) /\ pending[x] = 0
        /\ Answered(history[x], 0, ResultRole(x))
    BY DEF BaseInv, TypeOK, TalkInv
  <2>2. k \in 1 .. Len(history[x]) /\ Len(history[x]) \in Nat /\ history[x][k].calls \in Nat
    BY <2>1, LenProperties, CallsCounted
  <2> QED
    BY <2>1, <2>2 DEF Answered
<1>2. Spec => []TalkInv
  <2>1. BaseInv /\ TalkInv /\ [Next]_vars => TalkInv'
    BY NextTalk
  <2> QED
    BY <2>1, InitTalk, BaseInvariant, PTL DEF Spec
<1> QED
  BY <1>1, <1>2, BaseInvariant, PTL
=============================================================================
