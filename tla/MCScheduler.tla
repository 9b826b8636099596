---------------------------- MODULE MCScheduler ----------------------------
(***************************************************************************)
(* Instances of Scheduler.  Each workflow is as small as the behaviour it  *)
(* is there for allows.                                                    *)
(***************************************************************************)
EXTENDS Scheduler

\* Three siblings, two approvals and a branch next to each other, and a step
\* that joins them: batches at the limit, retries, pauses in mid-round,
\* racing Resume calls, cancellation.
ReviewSteps == {"cond", "w1", "w2", "w3", "approve", "post", "sign", "last"}
ReviewKind ==
    [s \in ReviewSteps |-> IF s = "cond" THEN "branch"
                           ELSE IF s \in {"approve", "sign"} THEN "human" ELSE "async"]
ReviewDependsOn ==
    [cond |-> {}, w1 |-> {}, w2 |-> {}, w3 |-> {}, approve |-> {"cond"}, post |-> {"approve"},
     sign |-> {"w2"}, last |-> {"cond", "w1", "post"}]
ReviewRetries == [s \in ReviewSteps |-> IF s = "w1" THEN 1 ELSE 0]

\* Two siblings that save side by side, an approval behind one of them, and a
\* branch that joins them: a crash may come between any two of their saves.
RecoverySteps == {"w1", "w2", "approve", "cond"}
RecoveryKind == [w1 |-> "async", w2 |-> "async", approve |-> "human", cond |-> "branch"]
RecoveryDependsOn == [w1 |-> {}, w2 |-> {}, approve |-> {"w1"}, cond |-> {"approve", "w2"}]
RecoveryRetries == [s \in RecoverySteps |-> 0]

\* Two independent steps.
PairSteps == {"w1", "w2"}
PairKind == [s \in PairSteps |-> "async"]
PairDependsOn == [s \in PairSteps |-> {}]
PairRetries == [s \in PairSteps |-> 0]
=============================================================================
