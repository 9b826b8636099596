---------------------------- MODULE RunLifecycle ----------------------------
(***************************************************************************)
(* What a workflow run promises to those who watch its status: it starts   *)
(* once, it alternates between running and waiting for a human, it always  *)
(* comes to rest, and a completed or failed run stays so.  Module          *)
(* Scheduler implements this; module WorkflowManager is written against it.*)
(***************************************************************************)

VARIABLE status

Ended == {"completed", "failed"}
AtRest == Ended \cup {"paused"}

\* The changes of run.Status that the scheduler makes.
Moves(from, to) ==
    \/ from = "pending" /\ to = "running"
    \/ from = "running" /\ to \in AtRest
    \/ from = "paused" /\ to = "running"

Comes(to) == Moves(status, to) /\ status' = to

Rests == \E to \in AtRest : Comes(to)

Init == status = "pending"

Next == Rests \/ Comes("running")

Spec == Init /\ [][Next]_status /\ WF_status(Rests)
=============================================================================
