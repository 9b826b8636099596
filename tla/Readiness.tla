----------------------------- MODULE Readiness -----------------------------
(***************************************************************************)
(* What a dependency graph promises its scheduler, without counters: a set *)
(* of resolved steps that only grows, and, for every step it resolves, the *)
(* exact set of steps which that resolution made ready.                    *)
(***************************************************************************)
EXTENDS Dependencies

VARIABLES
    resolved,   \* the resolved steps
    answer      \* what the last call that resolved a step returned

vars == <<resolved, answer>>

Init == resolved = {} /\ answer = {}

Resolve(s) ==
    /\ s \notin resolved
    /\ resolved' = resolved \cup {s}
    /\ answer' = NewlyReady(s, resolved)

Next == \E s \in Steps : Resolve(s)

Spec == Init /\ [][Next]_vars
=============================================================================
