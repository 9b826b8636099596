------------------------- MODULE VersionedRegister -------------------------
(***************************************************************************)
(* What a checkpointer with optimistic locking promises: one cell, written *)
(* only by a caller whose expected version is the cell's version, or when  *)
(* the cell is empty; and an honest reply, except that a write may be      *)
(* applied although its caller is told of an error.                        *)
(***************************************************************************)
EXTENDS Naturals

CONSTANT Clients    \* the goroutines that save and load

VARIABLES
    cell,       \* the stored checkpoint: its version and its writer
    expected,   \* expected[c]: the version client c believes is stored
    reply       \* reply[c]: "none" while a call is in progress

vars == <<cell, expected, reply>>

\* Version 0 is never stored: it stands for the missing key.
Missing == [version |-> 0, by |-> ""]

Init ==
    /\ cell = Missing
    /\ expected = [c \in Clients |-> 0]
    /\ reply = [c \in Clients |-> "ok"]

Call(c) ==
    /\ reply[c] # "none"
    /\ reply' = [reply EXCEPT ![c] = "none"]
    /\ UNCHANGED <<cell, expected>>

Write(c) ==
    /\ reply[c] = "none"
    /\ cell.version \in {0, expected[c]}
    /\ cell' = [version |-> expected[c] + 1, by |-> c]
    /\ \/ /\ reply' = [reply EXCEPT ![c] = "ok"]
          /\ expected' = [expected EXCEPT ![c] = @ + 1]
       \/ /\ reply' = [reply EXCEPT ![c] = "error"]
          /\ UNCHANGED expected

Conflict(c) ==
    /\ reply[c] = "none"
    /\ cell.version \notin {0, expected[c]}
    /\ reply' = [reply EXCEPT ![c] = "conflict"]
    /\ UNCHANGED <<cell, expected>>

Error(c) ==
    /\ reply[c] = "none"
    /\ reply' = [reply EXCEPT ![c] = "error"]
    /\ UNCHANGED <<cell, expected>>

Load(c) ==
    /\ reply[c] # "none"
    /\ cell # Missing
    /\ expected' = [expected EXCEPT ![c] = cell.version]
    /\ UNCHANGED <<cell, reply>>

Expire ==
    /\ cell # Missing
    /\ cell' = Missing
    /\ UNCHANGED <<expected, reply>>

Next ==
    \/ \E c \in Clients : Call(c) \/ Write(c) \/ Conflict(c) \/ Error(c) \/ Load(c)
    \/ Expire

Spec == Init /\ [][Next]_vars
=============================================================================
