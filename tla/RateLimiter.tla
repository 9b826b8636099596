---------------------------- MODULE RateLimiter ----------------------------
(***************************************************************************)
(* internal/mcp/ratelimit.go: a token bucket for each tool that has a      *)
(* limit.  Time is counted in ticks, Minute of them to a minute, and       *)
(* tokens in parts: one call costs Minute parts and a tick refills limit   *)
(* parts, so that no division is needed.  The code computes the same in    *)
(* float64.                                                                *)
(***************************************************************************)
EXTENDS Integers, Sequences

CONSTANTS
    Tools,     \* tool names
    Limits,    \* the callsPerMinute that SetLimit is called with
    Minute,    \* ticks in a minute
    MaxTime    \* bound: ticks

ASSUME LimiterTypes ==
    /\ Limits \subseteq Nat
    /\ Minute \in Nat \ {0}
    /\ MaxTime \in Nat

VARIABLES
    clock,    \* time.Now()
    buckets,  \* rl.buckets, or NoBucket
    grants    \* since SetLimit: when each call that had a limit was allowed

limiterVars == <<clock, buckets, grants>>

NoBucket == [limit |-> -1, tokens |-> 0, lastRefill |-> 0]
HasBucket(t) == buckets[t] # NoBucket

LimiterTypeOK ==
    /\ clock \in 0 .. MaxTime
    /\ buckets \in [Tools -> [limit : Limits \cup {-1}, tokens : Nat, lastRefill : Nat]]
    /\ grants \in [Tools -> Seq(Nat)]
    /\ \A t \in Tools :
        HasBucket(t) => /\ buckets[t].limit \in Limits
                        /\ buckets[t].tokens \in 0 .. buckets[t].limit * Minute
                        /\ buckets[t].lastRefill \in 0 .. clock

LimiterInit ==
    /\ clock = 0
    /\ buckets = [t \in Tools |-> NoBucket]
    /\ grants = [t \in Tools |-> <<>>]

Tick ==
    /\ clock < MaxTime
    /\ clock' = clock + 1
    /\ UNCHANGED <<buckets, grants>>

\* A new bucket, full, with an account of its own: what was granted under the
\* limit before it is not counted against it.
SetLimit(t, limit) ==
    /\ buckets' = [buckets EXCEPT ![t] =
            [limit |-> limit, tokens |-> limit * Minute, lastRefill |-> clock]]
    /\ grants' = [grants EXCEPT ![t] = <<>>]
    /\ UNCHANGED clock

\* Mutation of Refilled: the bucket has no brim.
RefilledUncapped(b) == b.tokens + (clock - b.lastRefill) * b.limit

\* The refill at the head of Allow.
Refilled(b) ==
    LET tokens == b.tokens + (clock - b.lastRefill) * b.limit IN
    IF tokens > b.limit * Minute THEN b.limit * Minute ELSE tokens

Allowed(t) == HasBucket(t) => Refilled(buckets[t]) >= Minute

\* Allow for a tool with a bucket refills it and, if it can, takes a token;
\* a refused call has refilled the bucket too.
Allow(t) ==
    /\ IF HasBucket(t)
       THEN /\ buckets' = [buckets EXCEPT ![t] =
                    [limit |-> buckets[t].limit,
                     tokens |-> Refilled(buckets[t]) - (IF Allowed(t) THEN Minute ELSE 0),
                     lastRefill |-> clock]]
            /\ grants' = IF Allowed(t) THEN [grants EXCEPT ![t] = Append(grants[t], clock)]
                         ELSE grants
       ELSE UNCHANGED <<buckets, grants>>
    /\ UNCHANGED clock

\* In any stretch of time a tool with a limit is granted no more calls than
\* a full bucket and the refill of that stretch pay for.
WindowBound ==
    \A t \in Tools : HasBucket(t) =>
        \A i, j \in DOMAIN grants[t] : i <= j =>
            (j - i + 1) * Minute <= buckets[t].limit * (Minute + grants[t][j] - grants[t][i])
=============================================================================
