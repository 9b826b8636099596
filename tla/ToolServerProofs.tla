-------------------------- MODULE ToolServerProofs --------------------------
(***************************************************************************)
(* Theorems about module ToolServer and the rate limiter in it, for any    *)
(* number of tools, of requests in a message and of configuration changes, *)
(* any limits and any length of time.                                      *)
(***************************************************************************)
EXTENDS ToolServer, SequenceTheorems, TLAPS

-----------------------------------------------------------------------------
(***************************************************************************)
(* The rate limiter.  What a stretch of time allows is bounded because the *)
(* bucket keeps account: the calls granted since a grant, together with    *)
(* the tokens that are left, never cost more than a full bucket and the    *)
(* refill since that grant.                                                *)
(***************************************************************************)

\* The account of a bucket b and the times g at which it granted calls.
Balanced(b, g) ==
    /\ \A i \in 1 .. Len(g) : g[i] <= b.lastRefill
    /\ \A i \in 1 .. Len(g) :
         (Len(g) - i + 1) * Minute + b.tokens <= b.limit * (Minute + b.lastRefill - g[i])
    /\ \A i, j \in 1 .. Len(g) : i <= j =>
         (j - i + 1) * Minute <= b.limit * (Minute + g[j] - g[i])

AccountInv == \A t \in Tools : HasBucket(t) => Balanced(buckets[t], grants[t])

\* A bucket whose tokens and time are in range.
Bucket(b) ==
    /\ b.limit \in Nat /\ b.tokens \in 0 .. b.limit * Minute
    /\ b.lastRefill \in Nat /\ b.lastRefill <= clock

\* Products of the constants and of times, kept out of the larger steps.
LEMMA ProductNat == ASSUME NEW a \in Nat, NEW c \in Nat PROVE a * c \in Nat
  OBVIOUS

LEMMA ProductInt == ASSUME NEW a \in Int, NEW c \in Int PROVE a * c \in Int
  OBVIOUS

LEMMA ProductNext ==
    ASSUME NEW a \in Int, NEW c \in Int
    PROVE  (a + 1) * c = a * c + c
  OBVIOUS

LEMMA ProductSum ==
    ASSUME NEW a \in Int, NEW c \in Int, NEW e \in Int
    PROVE  a * (c + e) = a * c + a * e /\ e * a = a * e
  OBVIOUS

LEMMA RefillBounds ==
    ASSUME NEW b, Bucket(b), clock \in Nat
    PROVE  /\ Refilled(b) \in 0 .. b.limit * Minute
           /\ Refilled(b) <= b.tokens + (clock - b.lastRefill) * b.limit
<1> DEFINE refill == (clock - b.lastRefill) * b.limit
<1>0. clock - b.lastRefill \in Nat /\ b.limit \in Nat /\ Minute \in Nat
  BY LimiterTypes DEF Bucket
<1>1. b.limit * Minute \in Nat
  BY <1>0, ProductNat
<1>2. refill \in Nat
  BY <1>0, ProductNat
<1>3. b.tokens \in Nat
  BY <1>1 DEF Bucket
<1> HIDE DEF refill
<1>4. Refilled(b) = IF b.tokens + refill > b.limit * Minute THEN b.limit * Minute
                    ELSE b.tokens + refill
  BY DEF Refilled, refill
<1>5. Refilled(b) \in 0 .. b.limit * Minute /\ Refilled(b) <= b.tokens + refill
  BY <1>1, <1>2, <1>3, <1>4
<1> QED
  BY <1>5 DEF refill

\* A refill adds to both sides what the time since the last one pays for.
LEMMA RefillPays ==
    ASSUME NEW b, Bucket(b), clock \in Nat, NEW cost \in Int, NEW first \in Int,
           cost + b.tokens <= b.limit * (Minute + b.lastRefill - first)
    PROVE  cost + Refilled(b) <= b.limit * (Minute + clock - first)
<1> DEFINE l == b.limit
           past == Minute + b.lastRefill - first
           new == clock - b.lastRefill
<1>1. l \in Int /\ past \in Int /\ new \in Int /\ b.tokens \in Int /\ Refilled(b) \in Int
  BY RefillBounds, LimiterTypes DEF Bucket
<1>2. Minute + clock - first = past + new
  BY LimiterTypes DEF Bucket
<1>3. Refilled(b) <= b.tokens + new * l /\ cost + b.tokens <= l * past
  BY RefillBounds
<1> HIDE DEF l, past, new
<1>4. l * (past + new) = l * past + l * new /\ new * l = l * new
  BY <1>1, ProductSum
<1>5. l * past \in Int /\ l * new \in Int
  BY <1>1, ProductInt
<1>6. cost + Refilled(b) <= l * (past + new)
  BY <1>1, <1>3, <1>4, <1>5
<1> QED
  BY <1>2, <1>6 DEF l

\* Allow refuses: the bucket is refilled all the same.
LEMMA RefusalBalances ==
    ASSUME NEW b, Bucket(b), clock \in Nat, NEW g \in Seq(Nat), Balanced(b, g)
    PROVE  Balanced([limit |-> b.limit, tokens |-> Refilled(b), lastRefill |-> clock], g)
<1> DEFINE d == [limit |-> b.limit, tokens |-> Refilled(b), lastRefill |-> clock]
<1>1. /\ d.limit = b.limit /\ d.tokens = Refilled(b) /\ d.lastRefill = clock
      /\ b.limit \in Nat /\ b.tokens \in Int /\ b.lastRefill \in Int /\ Refilled(b) \in Int
      /\ b.lastRefill <= clock
  BY RefillBounds, LimiterTypes DEF Bucket
<1>2. Len(g) \in Nat /\ \A i \in 1 .. Len(g) : g[i] \in Nat
  BY LenProperties, ElementOfSeq
<1> HIDE DEF d
<1>3. ASSUME NEW i \in 1 .. Len(g)
      PROVE  (Len(g) - i + 1) * Minute + d.tokens <= d.limit * (Minute + d.lastRefill - g[i])
  <2>0. Len(g) - i + 1 \in Int /\ Minute \in Int /\ g[i] \in Int
    BY <1>2, LimiterTypes
  <2>1. (Len(g) - i + 1) * Minute \in Int
    BY <2>0, ProductInt
  <2>2. (Len(g) - i + 1) * Minute + b.tokens <= b.limit * (Minute + b.lastRefill - g[i])
    BY DEF Balanced
  <2>3. (Len(g) - i + 1) * Minute + Refilled(b) <= b.limit * (Minute + clock - g[i])
    BY <2>0, <2>1, <2>2, RefillPays
  <2> QED
    BY <1>1, <2>3
<1>4. ASSUME NEW i \in 1 .. Len(g) PROVE g[i] <= d.lastRefill
  <2>1. g[i] \in Nat /\ g[i] <= b.lastRefill
    BY <1>2 DEF Balanced
  <2> QED
    BY <1>1, <2>1
<1>5. \A i, j \in 1 .. Len(g) : i <= j =>
         (j - i + 1) * Minute <= d.limit * (Minute + g[j] - g[i])
  BY <1>1 DEF Balanced
<1>6. Balanced(d, g)
  BY <1>3, <1>4, <1>5 DEF Balanced
<1> QED
  BY <1>6 DEF d

\* Allow grants: the token it takes is the cost of the grant that it adds.
LEMMA GrantBalances ==
    ASSUME NEW b, Bucket(b), clock \in Nat, NEW g \in Seq(Nat), Balanced(b, g),
           Refilled(b) >= Minute
    PROVE  Balanced([limit |-> b.limit, tokens |-> Refilled(b) - Minute, lastRefill |-> clock],
                    Append(g, clock))
<1> DEFINE d == [limit |-> b.limit, tokens |-> Refilled(b) - Minute, lastRefill |-> clock]
           h == Append(g, clock)
           n == Len(g)
<1>1. /\ d.limit = b.limit /\ d.tokens = Refilled(b) - Minute /\ d.lastRefill = clock
      /\ b.limit \in Nat /\ b.tokens \in Int /\ b.lastRefill \in Int /\ Refilled(b) \in Nat
      /\ b.lastRefill <= clock /\ Refilled(b) <= b.limit * Minute /\ b.limit * Minute \in Nat
  <2>1. b.limit \in Nat /\ Minute \in Nat
    BY LimiterTypes DEF Bucket
  <2>2. b.limit * Minute \in Nat
    BY <2>1, ProductNat
  <2> QED
    BY <2>1, <2>2, RefillBounds DEF Bucket
<1>2. n \in Nat /\ \A i \in 1 .. n : g[i] \in Nat
  BY LenProperties, ElementOfSeq
<1>3. Len(h) = n + 1 /\ h[n + 1] = clock /\ \A i \in 1 .. n : h[i] = g[i]
  BY AppendProperties
<1>4. Minute \in Nat
  BY LimiterTypes
<1> HIDE DEF d, h, n
<1>5. \A i \in 1 .. n + 1 : h[i] <= d.lastRefill
  <2>1. \A i \in 1 .. n : h[i] <= clock
    <3>1. \A i \in 1 .. n : g[i] <= b.lastRefill
      BY DEF Balanced, n
    <3> QED
      BY <1>1, <1>2, <1>3, <3>1
  <2> QED
    BY <1>1, <1>2, <1>3, <2>1
\* The account of the grants before, with the new one to pay for.
<1>6. ASSUME NEW i \in 1 .. n
      PROVE  (n - i + 1) * Minute + Refilled(b) <= b.limit * (Minute + clock - g[i])
  <2>0. n - i + 1 \in Int /\ Minute \in Int /\ g[i] \in Int
    BY <1>2, <1>4
  <2>1. (n - i + 1) * Minute \in Int
    BY <2>0, ProductInt
  <2>2. (n - i + 1) * Minute + b.tokens <= b.limit * (Minute + b.lastRefill - g[i])
    BY DEF Balanced, n
  <2> QED
    BY <2>0, <2>1, <2>2, RefillPays
<1>7. ASSUME NEW i \in 1 .. n + 1
      PROVE  /\ ((n + 1) - i + 1) * Minute + d.tokens <= d.limit * (Minute + d.lastRefill - h[i])
             /\ ((n + 1) - i + 1) * Minute <= d.limit * (Minute + d.lastRefill - h[i])
  <2>1. CASE i = n + 1
    <3>1. Minute + clock - h[i] = Minute /\ ((n + 1) - i + 1) * Minute = Minute
      <4>1. (n + 1) - i + 1 = 1 /\ h[i] = clock
        BY <1>2, <1>3, <2>1
      <4> QED
        BY <1>4, <4>1
    <3> QED
      BY <1>1, <1>4, <3>1
  <2>2. CASE i \in 1 .. n
    <3>0. /\ n - i + 1 \in Int /\ Minute \in Int /\ (n + 1) - i + 1 = (n - i + 1) + 1
          /\ b.limit \in Int /\ Minute + clock - g[i] \in Int
      BY <1>1, <1>2, <1>4, <2>2
    <3>1. ((n + 1) - i + 1) * Minute = (n - i + 1) * Minute + Minute
      BY <3>0, ProductNext
    <3>2. (n - i + 1) * Minute \in Int /\ b.limit * (Minute + clock - g[i]) \in Int
      BY <3>0, ProductInt
    <3>3. (n - i + 1) * Minute + Refilled(b) <= b.limit * (Minute + clock - g[i])
      BY <1>6, <2>2
    <3>4. h[i] = g[i]
      BY <1>3, <2>2
    <3>5. /\ ((n - i + 1) * Minute + Minute) + (Refilled(b) - Minute)
               <= b.limit * (Minute + clock - g[i])
          /\ (n - i + 1) * Minute + Minute <= b.limit * (Minute + clock - g[i])
      BY <1>1, <1>4, <3>2, <3>3
    <3> QED
      BY <1>1, <3>1, <3>4, <3>5
  <2> QED
    BY <1>2, <2>1, <2>2
<1>8. \A i, j \in 1 .. n + 1 : i <= j =>
         (j - i + 1) * Minute <= d.limit * (Minute + h[j] - h[i])
  <2> SUFFICES ASSUME NEW i \in 1 .. n + 1, NEW j \in 1 .. n + 1, i <= j
               PROVE  (j - i + 1) * Minute <= d.limit * (Minute + h[j] - h[i])
    OBVIOUS
  <2>1. CASE j = n + 1
    BY <1>1, <1>3, <1>7, <2>1
  <2>2. CASE j \in 1 .. n
    <3>1. i \in 1 .. n
      BY <1>2, <2>2
    <3> QED
      BY <1>1, <1>3, <2>2, <3>1 DEF Balanced, n
  <2> QED
    BY <1>2, <2>1, <2>2
<1>9. Balanced(d, h)
  BY <1>3, <1>5, <1>7, <1>8 DEF Balanced
<1> QED
  BY <1>9 DEF d, h

LimiterInv == LimiterTypeOK /\ AccountInv

LEMMA InitLimiter == LimiterInit => LimiterInv
  BY LimiterTypes
     DEF LimiterInit, LimiterInv, LimiterTypeOK, AccountInv, HasBucket, NoBucket

LEMMA TickLimiter == LimiterInv /\ Tick => LimiterInv'
<1> SUFFICES ASSUME LimiterInv, Tick PROVE LimiterInv'
  OBVIOUS
<1> USE LimiterTypes DEF LimiterInv, Tick, HasBucket
<1>1. LimiterTypeOK'
  BY DEF LimiterTypeOK
<1>2. AccountInv'
  BY DEF AccountInv, Balanced
<1> QED
  BY <1>1, <1>2

LEMMA SetLimitLimiter ==
    ASSUME LimiterInv, NEW t \in Tools, NEW limit \in Limits, SetLimit(t, limit)
    PROVE  LimiterInv'
<1> DEFINE d == [limit |-> limit, tokens |-> limit * Minute, lastRefill |-> clock]
<1>1. limit \in Nat /\ limit * Minute \in Nat /\ clock \in Nat
  <2>1. limit \in Nat /\ Minute \in Nat /\ clock \in Nat
    BY LimiterTypes DEF LimiterInv, LimiterTypeOK
  <2> QED
    BY <2>1, ProductNat
<1>2. /\ d.limit = limit /\ d.tokens = limit * Minute /\ d.lastRefill = clock
      /\ d \in [limit : Limits \cup {-1}, tokens : Nat, lastRefill : Nat]
  BY <1>1
<1> HIDE DEF d
<1>3. /\ buckets' = [buckets EXCEPT ![t] = d] /\ grants' = [grants EXCEPT ![t] = <<>>]
      /\ clock' = clock
  BY DEF SetLimit, d
<1>4. /\ \A u \in Tools : buckets'[u] = IF u = t THEN d ELSE buckets[u]
      /\ \A u \in Tools : grants'[u] = IF u = t THEN <<>> ELSE grants[u]
  BY <1>3 DEF LimiterInv, LimiterTypeOK
<1>5. LimiterTypeOK'
  BY <1>1, <1>2, <1>3, <1>4 DEF LimiterInv, LimiterTypeOK, HasBucket
<1>6. Balanced(d, <<>>)
  BY DEF Balanced
<1>7. AccountInv'
  BY <1>4, <1>6 DEF LimiterInv, AccountInv, HasBucket, Balanced
<1> QED
  BY <1>5, <1>7 DEF LimiterInv

LEMMA AllowLimiter ==
    ASSUME LimiterInv, NEW t \in Tools, Allow(t)
    PROVE  LimiterInv'
<1>1. CASE ~HasBucket(t)
  BY <1>1 DEF Allow, LimiterInv, LimiterTypeOK, AccountInv, HasBucket, Balanced
<1>2. CASE HasBucket(t)
  <2> DEFINE b == buckets[t]
             tokens == Refilled(b) - (IF Allowed(t) THEN Minute ELSE 0)
             d == [limit |-> b.limit, tokens |-> tokens, lastRefill |-> clock]
  <2>1. /\ Bucket(b) /\ clock \in Nat /\ b.limit \in Limits /\ grants[t] \in Seq(Nat)
        /\ Balanced(b, grants[t])
    <3>0. b.limit \in Limits /\ grants[t] \in Seq(Nat)
      BY <1>2 DEF LimiterInv, LimiterTypeOK
    <3>1. clock \in Nat /\ b.limit \in Nat
      <4>1. b.limit \in Nat
        BY <3>0, LimiterTypes
      <4>2. clock \in Nat
        BY LimiterTypes DEF LimiterInv, LimiterTypeOK
      <4> QED
        BY <4>1, <4>2
    <3>2. b.tokens \in 0 .. b.limit * Minute /\ b.lastRefill \in 0 .. clock
      BY <1>2 DEF LimiterInv, LimiterTypeOK
    <3>3. Bucket(b)
      BY <3>1, <3>2 DEF Bucket
    <3> QED
      BY <1>2, <3>0, <3>1, <3>3 DEF LimiterInv, AccountInv
  <2>2. Refilled(b) \in 0 .. b.limit * Minute /\ b.limit * Minute \in Nat
    <3>1. b.limit \in Nat /\ Minute \in Nat
      BY <2>1, LimiterTypes DEF Bucket
    <3> QED
      BY <2>1, <3>1, RefillBounds, ProductNat
  <2>3. Allowed(t) <=> Refilled(b) >= Minute
    BY <1>2 DEF Allowed
  <2>4. tokens \in 0 .. b.limit * Minute
    BY <2>2, <2>3, LimiterTypes
  <2>5. /\ buckets' = [buckets EXCEPT ![t] = d] /\ clock' = clock
        /\ grants' = IF Allowed(t) THEN [grants EXCEPT ![t] = Append(grants[t], clock)]
                     ELSE grants
    BY <1>2 DEF Allow
  <2>6. /\ d.limit = b.limit /\ d.tokens = tokens /\ d.lastRefill = clock
        /\ d \in [limit : Limits \cup {-1}, tokens : Nat, lastRefill : Nat]
    BY <2>1, <2>2, <2>4
  <2>7. Append(grants[t], clock) \in Seq(Nat)
    BY <2>1, AppendProperties
  <2>8. Balanced(d, grants'[t])
    <3>1. CASE Allowed(t)
      <4>1. grants'[t] = Append(grants[t], clock) /\ tokens = Refilled(b) - Minute
        BY <2>5, <3>1 DEF LimiterInv, LimiterTypeOK
      <4> QED
        BY <2>1, <2>3, <3>1, <4>1, GrantBalances
    <3>2. CASE ~Allowed(t)
      <4>1. grants'[t] = grants[t] /\ tokens = Refilled(b)
        BY <2>2, <2>5, <3>2
      <4> QED
        BY <2>1, <4>1, RefusalBalances
    <3> QED
      BY <3>1, <3>2
  <2> HIDE DEF d, tokens
  <2>9. /\ \A u \in Tools : buckets'[u] = IF u = t THEN d ELSE buckets[u]
        /\ \A u \in Tools \ {t} : grants'[u] = grants[u]
        /\ grants' \in [Tools -> Seq(Nat)]
    BY <2>5, <2>7 DEF LimiterInv, LimiterTypeOK
  <2>10. LimiterTypeOK'
    BY <2>1, <2>4, <2>5, <2>6, <2>9 DEF LimiterInv, LimiterTypeOK, HasBucket
  <2>11. AccountInv'
    BY <2>8, <2>9 DEF LimiterInv, AccountInv, HasBucket, Balanced
  <2> QED
    BY <2>10, <2>11 DEF LimiterInv
<1> QED
  BY <1>1, <1>2

LEMMA LimiterUnchanged == LimiterInv /\ UNCHANGED limiterVars => LimiterInv'
  BY DEF LimiterInv, LimiterTypeOK, AccountInv, HasBucket, Balanced, limiterVars

LEMMA BalancedWindow == LimiterInv => WindowBound
<1> SUFFICES ASSUME LimiterInv, NEW t \in Tools, HasBucket(t),
                    NEW i \in DOMAIN grants[t], NEW j \in DOMAIN grants[t], i <= j
             PROVE  (j - i + 1) * Minute
                      <= buckets[t].limit * (Minute + grants[t][j] - grants[t][i])
  BY DEF WindowBound
<1>1. DOMAIN grants[t] = 1 .. Len(grants[t])
  BY LenProperties DEF LimiterInv, LimiterTypeOK
<1> QED
  BY <1>1 DEF LimiterInv, AccountInv, Balanced

-----------------------------------------------------------------------------
(***************************************************************************)
(* The slots of a message.  A response is there exactly when its goroutine *)
(* is done, all of them are when the message is answered, and what a       *)
(* stage of Registry.Call has checked stays so until the handler runs,     *)
(* because tool[i] is the goroutine's own copy of the registration.        *)
(***************************************************************************)
Calling == {"limit", "lookup", "validate", "guard", "handler"}

SlotTypeOK ==
    /\ tools \in [Tools -> Registered]
    /\ message \in {"idle", "open", "replied", "refused"}
    /\ requests \in [Slots -> Requests \cup {[kind |-> "none"]}]
    /\ tool \in [Slots -> Registered]
    /\ pc \in [Slots -> Stages]
    /\ result \in [Slots -> Results]
    /\ changes \in 0 .. MaxChanges

\* A result belongs to its request: a malformed one gets the error for what
\* is wrong with it, and no other request does.
OwnResult(i) ==
    result[i] \in MalformedKinds \/ requests[i].kind \in MalformedKinds
        => result[i] = requests[i].kind

StageInv ==
    \A i \in Slots :
        /\ pc[i] \in Calling => requests[i].kind = "call" /\ requests[i].name \in Tools
        /\ pc[i] = "dispatch" => requests[i] \in Requests
        /\ pc[i] = "done" <=> result[i] # "none"
        /\ message \in {"idle", "refused"} => pc[i] = "idle"
        /\ message = "replied" => pc[i] = "done"
        /\ result[i] # "none" => OwnResult(i)

\* What Validate and Guard have found.
CheckedInv ==
    \A i \in Slots :
        /\ pc[i] \in {"guard", "handler"} => ValidateInput(tool[i].schema, requests[i].input)
        /\ pc[i] = "handler" => \E text \in Flattened(requests[i]) : ~Blocked("input", text)

ServerInv == LimiterInv /\ SlotTypeOK /\ StageInv /\ CheckedInv

LEMMA InitServer == Init => ServerInv
<1> SUFFICES ASSUME Init PROVE ServerInv
  OBVIOUS
<1>1. LimiterInv
  BY InitLimiter DEF Init
<1>2. SlotTypeOK
  BY ServerTypes DEF Init, SlotTypeOK, Registered, Stages, Results
<1>3. StageInv /\ CheckedInv
  BY DEF Init, StageInv, CheckedInv, Calling
<1> QED
  BY <1>1, <1>2, <1>3 DEF ServerInv

\* One goroutine goes on to a later stage; its response is not there yet.
LEMMA SlotMoves ==
    ASSUME ServerInv, NEW i \in Slots, NEW from \in Stages \ {"idle", "done"},
           NEW to \in Calling, Moves(i, from, to),
           from = "dispatch" => requests[i].kind = "call",
           UNCHANGED <<tools, message, requests, result, changes>>
    PROVE  StageInv'
<1>1. \A j \in Slots : pc'[j] = IF j = i THEN to ELSE pc[j]
  BY DEF ServerInv, SlotTypeOK, Moves
<1>2. requests[i].kind = "call" /\ requests[i].name \in Tools /\ pc[i] = from
  BY RequestKinds DEF ServerInv, StageInv, Moves, Calling, Stages
<1>3. message # "replied"
  BY <1>2 DEF ServerInv, StageInv
<1> QED
  BY <1>1, <1>2, <1>3 DEF ServerInv, StageInv, OwnResult, Calling, Stages

\* One goroutine stores its response and is done.
LEMMA SlotResponds ==
    ASSUME ServerInv, NEW i \in Slots, NEW from \in Stages \ {"idle", "done"},
           NEW r \in Results \ {"none"}, Responds(i, from, r),
           r = requests[i].kind \/ {r, requests[i].kind} \cap MalformedKinds = {},
           UNCHANGED <<tools, message, requests, tool, changes>>
    PROVE  SlotTypeOK' /\ StageInv' /\ CheckedInv'
<1>1. /\ \A j \in Slots : pc'[j] = IF j = i THEN "done" ELSE pc[j]
      /\ \A j \in Slots : result'[j] = IF j = i THEN r ELSE result[j]
      /\ pc[i] = from
  BY DEF ServerInv, SlotTypeOK, Responds, Moves
<1>2. SlotTypeOK'
  BY DEF ServerInv, SlotTypeOK, Responds, Moves, Stages
<1>3. message = "open"
  BY <1>1 DEF ServerInv, SlotTypeOK, StageInv
<1>4. StageInv'
  BY <1>1, <1>3 DEF ServerInv, StageInv, OwnResult, Calling
<1>5. CheckedInv'
  BY <1>1 DEF ServerInv, CheckedInv
<1> QED
  BY <1>2, <1>4, <1>5

LEMMA ReceiveServer ==
    ASSUME ServerInv, NEW rs \in [Slots -> Requests], Receive(rs)
    PROVE  ServerInv'
<1> USE DEF Receive
<1>1. LimiterInv'
  BY LimiterUnchanged DEF ServerInv
<1>2. SlotTypeOK'
  BY DEF ServerInv, SlotTypeOK, Stages
<1>3. \A i \in Slots : pc'[i] = "dispatch" /\ requests'[i] \in Requests /\ result'[i] = "none"
  BY DEF ServerInv, StageInv
<1>4. StageInv' /\ CheckedInv'
  BY <1>3 DEF StageInv, CheckedInv, Calling
<1> QED
  BY <1>1, <1>2, <1>4 DEF ServerInv

LEMMA DispatchServer ==
    ASSUME ServerInv, NEW i \in Slots, Dispatch(i)
    PROVE  ServerInv'
<1>1. LimiterInv'
  BY LimiterUnchanged DEF ServerInv, Dispatch
<1>2. pc[i] = "dispatch" /\ requests[i].kind \in {"call", "list", "initialize"} \cup MalformedKinds
  BY RequestKinds DEF Dispatch, Moves, Responds, ServerInv, StageInv
<1>3. CASE requests[i].kind = "call"
  <2>1. /\ Moves(i, "dispatch", "limit")
        /\ UNCHANGED <<tools, message, requests, tool, result, changes>>
    BY <1>3 DEF Dispatch
  <2>2. SlotTypeOK'
    BY <2>1 DEF ServerInv, SlotTypeOK, Moves, Stages
  <2>3. StageInv'
    BY <1>3, <2>1, SlotMoves DEF Stages, Calling
  <2>4. CheckedInv'
    BY <2>1 DEF ServerInv, SlotTypeOK, CheckedInv, Moves
  <2> QED
    BY <1>1, <2>2, <2>3, <2>4 DEF ServerInv
<1>4. CASE requests[i].kind # "call"
  <2> DEFINE kind == requests[i].kind
             r == IF kind \in {"list", "initialize"} THEN "ok" ELSE kind
  <2>1. Responds(i, "dispatch", r) /\ UNCHANGED <<tools, message, requests, tool, changes>>
    BY <1>4 DEF Dispatch
  <2>2. r \in Results \ {"none"} /\ (r = kind \/ {r, kind} \cap MalformedKinds = {})
    BY <1>2, <1>4 DEF Results, MalformedKinds
  <2> HIDE DEF r
  <2> QED
    BY <1>1, <2>1, <2>2, SlotResponds DEF ServerInv, Stages
<1> QED
  BY <1>3, <1>4

LEMMA CheckLimitServer ==
    ASSUME ServerInv, NEW i \in Slots, CheckLimit(i)
    PROVE  ServerInv'
<1>1. pc[i] = "limit" /\ requests[i].kind = "call" /\ requests[i].name \in Tools
  BY DEF CheckLimit, ServerInv, StageInv, Calling
<1>2. LimiterInv'
  BY <1>1, AllowLimiter DEF ServerInv, CheckLimit
<1>3. CASE Allowed(requests[i].name)
  <2>1. /\ Moves(i, "limit", "lookup")
        /\ UNCHANGED <<tools, message, requests, tool, result, changes>>
    BY <1>3 DEF CheckLimit
  <2>2. SlotTypeOK'
    BY <2>1 DEF ServerInv, SlotTypeOK, Moves, Stages
  <2>3. StageInv'
    BY <2>1, SlotMoves DEF Stages, Calling
  <2>4. CheckedInv'
    BY <2>1 DEF ServerInv, SlotTypeOK, CheckedInv, Moves
  <2> QED
    BY <1>2, <2>2, <2>3, <2>4 DEF ServerInv
<1>4. CASE ~Allowed(requests[i].name)
  <2>1. /\ Responds(i, "limit", "rate limited")
        /\ UNCHANGED <<tools, message, requests, tool, changes>>
    BY <1>4 DEF CheckLimit
  <2>2. {"rate limited", requests[i].kind} \cap MalformedKinds = {}
    BY <1>1 DEF MalformedKinds
  <2> QED
    BY <1>2, <2>1, <2>2, SlotResponds DEF ServerInv, Stages, Results
<1> QED
  BY <1>3, <1>4

LEMMA LookupServer ==
    ASSUME ServerInv, NEW i \in Slots, Lookup(i)
    PROVE  ServerInv'
<1>1. pc[i] = "lookup" /\ requests[i].kind = "call" /\ requests[i].name \in Tools
  BY DEF Lookup, ServerInv, StageInv, Calling
<1>2. LimiterInv'
  BY LimiterUnchanged DEF ServerInv, Lookup
<1>3. CASE tools[requests[i].name] # NoTool
  <2>1. /\ Moves(i, "lookup", "validate") /\ tool' = [tool EXCEPT ![i] = tools[requests[i].name]]
        /\ UNCHANGED <<tools, message, requests, result, changes>>
    BY <1>3 DEF Lookup
  <2>2. SlotTypeOK'
    BY <1>1, <2>1 DEF ServerInv, SlotTypeOK, Moves, Stages
  <2>3. StageInv'
    BY <2>1, SlotMoves DEF Stages, Calling
  <2>4. CheckedInv'
    BY <2>1 DEF ServerInv, SlotTypeOK, CheckedInv, Moves
  <2> QED
    BY <1>2, <2>2, <2>3, <2>4 DEF ServerInv
<1>4. CASE tools[requests[i].name] = NoTool
  <2>1. /\ Responds(i, "lookup", "unknown tool")
        /\ UNCHANGED <<tools, message, requests, tool, changes>>
    BY <1>4 DEF Lookup
  <2>2. {"unknown tool", requests[i].kind} \cap MalformedKinds = {}
    BY <1>1 DEF MalformedKinds
  <2> QED
    BY <1>2, <2>1, <2>2, SlotResponds DEF ServerInv, Stages, Results
<1> QED
  BY <1>3, <1>4

LEMMA ValidateServer ==
    ASSUME ServerInv, NEW i \in Slots, Validate(i)
    PROVE  ServerInv'
<1>1. pc[i] = "validate" /\ requests[i].kind = "call"
  BY DEF Validate, ServerInv, StageInv, Calling
<1>2. LimiterInv'
  BY LimiterUnchanged DEF ServerInv, Validate
<1>3. CASE ValidateInput(tool[i].schema, requests[i].input)
  <2>1. /\ Moves(i, "validate", "guard")
        /\ UNCHANGED <<tools, message, requests, tool, result, changes>>
    BY <1>3 DEF Validate
  <2>2. SlotTypeOK'
    BY <2>1 DEF ServerInv, SlotTypeOK, Moves, Stages
  <2>3. StageInv'
    BY <2>1, SlotMoves DEF Stages, Calling
  <2>4. CheckedInv'
    BY <1>3, <2>1 DEF ServerInv, SlotTypeOK, CheckedInv, Moves
  <2> QED
    BY <1>2, <2>2, <2>3, <2>4 DEF ServerInv
<1>4. CASE ~ValidateInput(tool[i].schema, requests[i].input)
  <2>1. /\ Responds(i, "validate", "invalid input")
        /\ UNCHANGED <<tools, message, requests, tool, changes>>
    BY <1>4 DEF Validate
  <2>2. {"invalid input", requests[i].kind} \cap MalformedKinds = {}
    BY <1>1 DEF MalformedKinds
  <2> QED
    BY <1>2, <2>1, <2>2, SlotResponds DEF ServerInv, Stages, Results
<1> QED
  BY <1>3, <1>4

LEMMA GuardServer ==
    ASSUME ServerInv, NEW i \in Slots, NEW text \in Texts, Guard(i, text)
    PROVE  ServerInv'
<1>1. pc[i] = "guard" /\ requests[i].kind = "call"
  BY DEF Guard, ServerInv, StageInv, Calling
<1>2. LimiterInv'
  BY LimiterUnchanged DEF ServerInv, Guard
<1>3. CASE ~Blocked("input", text)
  <2>1. /\ Moves(i, "guard", "handler") /\ text \in Flattened(requests[i])
        /\ UNCHANGED <<tools, message, requests, tool, result, changes>>
    BY <1>3 DEF Guard
  <2>2. SlotTypeOK'
    BY <2>1 DEF ServerInv, SlotTypeOK, Moves, Stages
  <2>3. StageInv'
    BY <2>1, SlotMoves DEF Stages, Calling
  <2>4. CheckedInv'
    BY <1>3, <2>1 DEF ServerInv, SlotTypeOK, CheckedInv, Moves
  <2> QED
    BY <1>2, <2>2, <2>3, <2>4 DEF ServerInv
<1>4. CASE Blocked("input", text)
  <2>1. /\ Responds(i, "guard", "blocked")
        /\ UNCHANGED <<tools, message, requests, tool, changes>>
    BY <1>4 DEF Guard
  <2>2. {"blocked", requests[i].kind} \cap MalformedKinds = {}
    BY <1>1 DEF MalformedKinds
  <2> QED
    BY <1>2, <2>1, <2>2, SlotResponds DEF ServerInv, Stages, Results
<1> QED
  BY <1>3, <1>4

LEMMA HandlerServer ==
    ASSUME ServerInv, NEW i \in Slots, NEW output, Handler(i, output)
    PROVE  ServerInv'
<1>1. PICK r \in {"tool error", "redacted", "ok"} : Responds(i, "handler", r)
  BY DEF Handler
<1>2. requests[i].kind = "call"
  BY <1>1 DEF Responds, Moves, ServerInv, StageInv, Calling
<1>3. LimiterInv' /\ UNCHANGED <<tools, message, requests, tool, changes>>
  BY LimiterUnchanged DEF ServerInv, Handler
<1>4. {r, requests[i].kind} \cap MalformedKinds = {}
  BY <1>2 DEF MalformedKinds
<1> QED
  BY <1>1, <1>3, <1>4, SlotResponds DEF ServerInv, Stages, Results

\* Replies, refusals and the next message.
LEMMA MessageServer ==
    ASSUME ServerInv, Refuse \/ Reply \/ NextMessage
    PROVE  ServerInv'
<1>1. LimiterInv'
  BY LimiterUnchanged DEF ServerInv, Refuse, Reply, NextMessage
<1>2. CASE Refuse
  BY <1>1, <1>2 DEF ServerInv, Refuse, SlotTypeOK, StageInv, OwnResult, CheckedInv
<1>3. CASE Reply
  BY <1>1, <1>3 DEF ServerInv, Reply, SlotTypeOK, StageInv, OwnResult, CheckedInv
<1>4. CASE NextMessage
  <2>1. SlotTypeOK'
    BY <1>4 DEF ServerInv, NextMessage, SlotTypeOK, Registered, Stages, Results
  <2>2. StageInv' /\ CheckedInv'
    BY <1>4 DEF NextMessage, StageInv, CheckedInv, Calling
  <2> QED
    BY <1>1, <2>1, <2>2 DEF ServerInv
<1> QED
  BY <1>2, <1>3, <1>4

\* Administration, the clock, and steps that change nothing: the goroutines'
\* own state stays.
LEMMA ElsewhereServer ==
    ASSUME ServerInv, UNCHANGED slotVars, LimiterInv',
           tools' \in [Tools -> Registered], changes' \in 0 .. MaxChanges
    PROVE  ServerInv'
  BY DEF ServerInv, slotVars, SlotTypeOK, StageInv, OwnResult, CheckedInv

LEMMA NextServer == ServerInv /\ [Next]_vars => ServerInv'
<1> SUFFICES ASSUME ServerInv, [Next]_vars PROVE ServerInv'
  OBVIOUS
<1>0. /\ tools \in [Tools -> Registered] /\ changes \in 0 .. MaxChanges
      /\ Changes => changes' \in 0 .. MaxChanges
  BY ServerTypes DEF ServerInv, SlotTypeOK, Changes
<1>1. ASSUME NEW i \in Slots, SlotStep(i) PROVE ServerInv'
  BY <1>1, DispatchServer, CheckLimitServer, LookupServer, ValidateServer, GuardServer,
     HandlerServer DEF SlotStep
<1>2. ASSUME NEW t \in Tools, NEW r \in Registrations, Register(t, r) PROVE ServerInv'
  BY <1>0, <1>2, ElsewhereServer, LimiterUnchanged DEF Register, Registered, ServerInv
<1>3. ASSUME NEW t \in Tools, Unregister(t) PROVE ServerInv'
  BY <1>0, <1>3, ElsewhereServer, LimiterUnchanged DEF Unregister, Registered, ServerInv
<1>4. ASSUME NEW t \in Tools, NEW limit \in Limits, Configure(t, limit) PROVE ServerInv'
  <2>1. LimiterInv'
    BY <1>4, SetLimitLimiter DEF Configure, ServerInv
  <2> QED
    BY <1>0, <1>4, <2>1, ElsewhereServer DEF Configure
<1>5. CASE TimePasses
  <2>1. LimiterInv'
    BY <1>5, TickLimiter DEF TimePasses, ServerInv
  <2> QED
    BY <1>0, <1>5, <2>1, ElsewhereServer DEF TimePasses
<1>6. CASE UNCHANGED vars
  BY <1>0, <1>6, ElsewhereServer, LimiterUnchanged DEF vars, ServerInv
<1> QED
  BY <1>1, <1>2, <1>3, <1>4, <1>5, <1>6, ReceiveServer, MessageServer DEF Next

LEMMA ServerInvariant == Spec => []ServerInv
  BY InitServer, NextServer, PTL DEF Spec

\* For every limit and every pattern of calls, refusals and pauses: between any
\* two grants of a tool lie no more than its bucket and its refill pay for.
THEOREM LimitHolds == Spec => []WindowBound
<1>1. ServerInv => WindowBound
  BY BalancedWindow DEF ServerInv
<1> QED
  BY <1>1, ServerInvariant, PTL

\* What reaches a handler was checked against the schema of that very
\* registration, whoever removes it or takes its name in the meantime.
THEOREM HandlersSafe == Spec => []HandlerInputValid
<1>1. ServerInv => HandlerInputValid
  BY DEF ServerInv, CheckedInv, HandlerInputValid
<1> QED
  BY <1>1, ServerInvariant, PTL

\* A message is answered when every goroutine has stored its response, each
\* in its own slot.
THEOREM RepliesOwn == Spec => []RepliesComplete
<1>1. ServerInv => RepliesComplete
  BY DEF ServerInv, StageInv, OwnResult, RepliesComplete
<1> QED
  BY <1>1, ServerInvariant, PTL
=============================================================================
