---------------------------- MODULE Checkpointer ----------------------------
(***************************************************************************)
(* RedisCheckpointer (internal/dag/checkpoint.go) for the checkpoint of    *)
(* one run.  Save holds the mutex of its RedisCheckpointer while it reads  *)
(* the stored checkpoint, compares versions and writes; the store itself   *)
(* (internal/store) only offers Get and Set with a time to live.  The      *)
(* mutex belongs to one RedisCheckpointer, so it orders the clients of one *)
(* server process and says nothing to another process on the same Redis.   *)
(***************************************************************************)
EXTENDS Naturals

CONSTANTS
    Clients,      \* the goroutines that save checkpoints of the run
    Instances,    \* the RedisCheckpointer values, one per process
    InstanceOf,   \* InstanceOf[c]: the RedisCheckpointer c calls
    MaxVersion    \* bound: no call is made with a larger version

ASSUME InstanceOfType == InstanceOf \in [Clients -> Instances]

ASSUME ClientsAreNames == "" \notin Clients

ASSUME MaxVersionType == MaxVersion \in Nat

VARIABLES
    cell,       \* the value under checkpoint:<run>: its version and writer
    expected,   \* expected[c]: the version in the checkpoint c would save
    reply,      \* reply[c]: what c's last Save returned, "none" during one
    pc,         \* pc[c]: "idle", "lock", "get", "set"
    mutex       \* mutex[i]: the client that holds r.mu of i, or ""

vars == <<cell, expected, reply, pc, mutex>>

Missing == [version |-> 0, by |-> ""]

TypeOK ==
    /\ cell \in [version : Nat, by : Clients \cup {""}]
    /\ expected \in [Clients -> Nat]
    /\ reply \in [Clients -> {"none", "ok", "conflict", "error"}]
    /\ pc \in [Clients -> {"idle", "lock", "get", "set"}]
    /\ mutex \in [Instances -> Clients \cup {""}]

Init ==
    /\ cell = Missing
    /\ expected = [c \in Clients |-> 0]
    /\ reply = [c \in Clients |-> "ok"]
    /\ pc = [c \in Clients |-> "idle"]
    /\ mutex = [i \in Instances |-> ""]

-----------------------------------------------------------------------------
\* A scheduler calls Save with the version it remembers.
Call(c) ==
    /\ pc[c] = "idle"
    /\ expected[c] < MaxVersion
    /\ pc' = [pc EXCEPT ![c] = "lock"]
    /\ reply' = [reply EXCEPT ![c] = "none"]
    /\ UNCHANGED <<cell, expected, mutex>>

\* r.mu.Lock()
Lock(c) ==
    /\ pc[c] = "lock"
    /\ mutex[InstanceOf[c]] = ""
    /\ mutex' = [mutex EXCEPT ![InstanceOf[c]] = c]
    /\ pc' = [pc EXCEPT ![c] = "get"]
    /\ UNCHANGED <<cell, expected, reply>>

\* Mutation of Return: the error path leaves the mutex locked.
ReturnKeepsLock(c, r) ==
    /\ pc' = [pc EXCEPT ![c] = "idle"]
    /\ reply' = [reply EXCEPT ![c] = r]
    /\ mutex' = [mutex EXCEPT ![InstanceOf[c]] = IF r = "error" THEN @ ELSE ""]

\* Save returns r; the deferred r.mu.Unlock() runs.
Return(c, r) ==
    /\ pc' = [pc EXCEPT ![c] = "idle"]
    /\ reply' = [reply EXCEPT ![c] = r]
    /\ mutex' = [mutex EXCEPT ![InstanceOf[c]] = ""]

\* Mutation of Get: a conflict is taken for a missing checkpoint.
GetUnchecked(c) ==
    /\ pc[c] = "get"
    /\ pc' = [pc EXCEPT ![c] = "set"]
    /\ UNCHANGED <<cell, expected, reply, mutex>>

\* Load inside Save: not found or the expected version lets the save go on,
\* another version is ErrCheckpointConflict, a store or decoding error is
\* returned as it is.
Get(c) ==
    /\ pc[c] = "get"
    /\ \/ /\ cell.version \in {0, expected[c]}
          /\ pc' = [pc EXCEPT ![c] = "set"]
          /\ UNCHANGED <<reply, mutex>>
       \/ /\ cell.version \notin {0, expected[c]}
          /\ Return(c, "conflict")
       \/ Return(c, "error")
    /\ UNCHANGED <<cell, expected>>

\* store.Set with the next version: done; done although the caller sees an
\* error (a lost answer); or not done.  Only a nil error updates cp.Version.
Set(c) ==
    /\ pc[c] = "set"
    /\ \/ /\ cell' = [version |-> expected[c] + 1, by |-> c]
          /\ expected' = [expected EXCEPT ![c] = @ + 1]
          /\ Return(c, "ok")
       \/ /\ cell' = [version |-> expected[c] + 1, by |-> c]
          /\ UNCHANGED expected
          /\ Return(c, "error")
       \/ /\ UNCHANGED <<cell, expected>>
          /\ Return(c, "error")

\* RestoreScheduler takes over the version of a loaded checkpoint.
Load(c) ==
    /\ pc[c] = "idle"
    /\ cell # Missing
    /\ expected' = [expected EXCEPT ![c] = cell.version]
    /\ UNCHANGED <<cell, reply, pc, mutex>>

\* checkpointTTLSeconds after the last Set the key is gone.
Expire ==
    /\ cell # Missing
    /\ cell' = Missing
    /\ UNCHANGED <<expected, reply, pc, mutex>>

Next ==
    \/ \E c \in Clients : Call(c) \/ Lock(c) \/ Get(c) \/ Set(c) \/ Load(c)
    \/ Expire

\* Store calls return (the Redis client has its own timeouts), and Go's
\* sync.Mutex hands the lock to a starving waiter, hence strong fairness.
Fairness ==
    \A c \in Clients : SF_vars(Lock(c)) /\ WF_vars(Get(c)) /\ WF_vars(Set(c))

Spec == Init /\ [][Next]_vars /\ Fairness

-----------------------------------------------------------------------------
\* Within one process the read-compare-write of Save is one atomic step, and
\* its reply tells what that step did: Save is a versioned register.
Promise == INSTANCE VersionedRegister

Refinement == Promise!Spec

\* Every Save returns to its scheduler, on the error paths too.
SaveReturns == \A c \in Clients : pc[c] = "lock" ~> pc[c] = "idle"
=============================================================================
