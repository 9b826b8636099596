----------------------------- MODULE ToolServer -----------------------------
(***************************************************************************)
(* The MCP server of internal/mcp: a JSON-RPC message whose requests are   *)
(* served side by side, the rate limiter, the tool registry with its input *)
(* validation and guardrail, and administrators who register and remove    *)
(* tools at the same time through the HTTP API.                            *)
(*                                                                         *)
(* One action is one critical section of the registry's or the limiter's   *)
(* mutex, or one stage of Registry.Call.  A text is abstracted to what the *)
(* guardrail's patterns make of it.                                        *)
(***************************************************************************)
EXTENDS RateLimiter, FiniteSets

CONSTANTS
    Slots,          \* the positions in a batch; a single request has one
    Requests,       \* the requests a message may hold
    Registrations,  \* the tools an administrator may register
    BuiltIn,        \* BuiltIn[t]: what main registers under a name, or NoTool
    Rules,          \* the guardrail's rules
    MaxChanges      \* bound: SetLimit, Register and Unregister calls

NoTool == [none |-> TRUE]
Texts == {"plain", "attack", "secret", "split"}

VARIABLES
    tools,    \* r.tools, or NoTool
    message,  \* "idle", "open" while handleMessage works, "replied" or "refused"
    requests, \* the requests of the message
    pc,       \* where the goroutine of each slot is
    tool,     \* the registration that Call has looked up
    result,   \* responses[i], or "none"
    changes   \* configuration changes so far

slotVars == <<message, requests, pc, tool, result>>
vars == <<tools, slotVars, changes, limiterVars>>

Stages == {"idle", "dispatch", "limit", "lookup", "validate", "guard", "handler", "done"}
MalformedKinds == {"parse", "invalid", "unknown method", "bad params"}
Results ==
    {"none", "ok", "rate limited", "unknown tool", "invalid input", "blocked", "tool error",
     "redacted"} \cup MalformedKinds
Registered == Registrations \cup {BuiltIn[t] : t \in Tools} \cup {NoTool}

\* What a request can be; a call names a tool, whether or not it is registered.
ASSUME RequestKinds ==
    \A q \in Requests :
        /\ q.kind \in {"call", "list", "initialize"} \cup MalformedKinds
        /\ q.kind = "call" => q.name \in Tools

ASSUME ServerTypes == BuiltIn = [t \in Tools |-> BuiltIn[t]] /\ MaxChanges \in Nat

TypeOK ==
    /\ LimiterTypeOK
    /\ tools \in [Tools -> Registered]
    /\ message \in {"idle", "open", "replied", "refused"}
    /\ requests \in [Slots -> Requests \cup {[kind |-> "none"]}]
    /\ tool \in [Slots -> Registered]
    /\ pc \in [Slots -> Stages]
    /\ result \in [Slots -> Results]
    /\ changes \in 0 .. MaxChanges

Init ==
    /\ LimiterInit
    /\ tools = BuiltIn
    /\ message = "idle"
    /\ requests = [i \in Slots |-> [kind |-> "none"]]
    /\ pc = [i \in Slots |-> "idle"]
    /\ tool = [i \in Slots |-> NoTool]
    /\ result = [i \in Slots |-> "none"]
    /\ changes = 0

-----------------------------------------------------------------------------
(* Server.                                                                 *)

Moves(i, from, to) == pc[i] = from /\ pc' = [pc EXCEPT ![i] = to]

\* Mutation of Responds: every goroutine writes through the loop variable.
RespondsLast(i, from, r) ==
    /\ Moves(i, from, "done")
    /\ result' = [result EXCEPT ![CHOOSE j \in Slots : \A k \in Slots : k <= j] = r]

\* The goroutine of a slot stores its response in the slot and is done.
Responds(i, from, r) == Moves(i, from, "done") /\ result' = [result EXCEPT ![i] = r]

\* handleMessage and handleBatchMessage start a goroutine for each request.
Receive(rs) ==
    /\ message = "idle"
    /\ message' = "open"
    /\ requests' = rs
    /\ pc' = [i \in Slots |-> "dispatch"]
    /\ UNCHANGED <<tools, tool, result, changes, limiterVars>>

\* An empty body, an empty batch or one that is no JSON is answered as a whole.
Refuse ==
    /\ message = "idle"
    /\ message' = "refused"
    /\ UNCHANGED <<tools, requests, pc, tool, result, changes, limiterVars>>

\* handleRequestBytes, handleRequest and the head of handleCallTool: "list" and
\* "initialize" are answered at once, as is what is not a request.
Dispatch(i) ==
    LET kind == requests[i].kind IN
    /\ IF kind = "call"
       THEN Moves(i, "dispatch", "limit") /\ UNCHANGED result
       ELSE Responds(i, "dispatch", IF kind \in {"list", "initialize"} THEN "ok" ELSE kind)
    /\ UNCHANGED <<tools, message, requests, tool, changes, limiterVars>>

\* Mutation of CheckLimit: a limited call waits for a token.
CheckLimitWaits(i) ==
    LET t == requests[i].name IN
    /\ pc[i] = "limit"
    /\ Allowed(t)
    /\ Allow(t)
    /\ Moves(i, "limit", "lookup")
    /\ UNCHANGED <<tools, message, requests, tool, result, changes>>

\* The rate limit check of handleCallTool.
CheckLimit(i) ==
    LET t == requests[i].name IN
    /\ pc[i] = "limit"
    /\ Allow(t)
    /\ IF Allowed(t)
       THEN Moves(i, "limit", "lookup") /\ UNCHANGED result
       ELSE Responds(i, "limit", "rate limited")
    /\ UNCHANGED <<tools, message, requests, tool, changes>>

\* wg.Wait returned: the responses are written.
Reply ==
    /\ message = "open"
    /\ \A i \in Slots : pc[i] = "done"
    /\ message' = "replied"
    /\ UNCHANGED <<tools, requests, pc, tool, result, changes, limiterVars>>

\* ServeStdio reads the next line once the last one is answered.
NextMessage ==
    /\ message \in {"replied", "refused"}
    /\ message' = "idle"
    /\ requests' = [i \in Slots |-> [kind |-> "none"]]
    /\ pc' = [i \in Slots |-> "idle"]
    /\ tool' = [i \in Slots |-> NoTool]
    /\ result' = [i \in Slots |-> "none"]
    /\ UNCHANGED <<tools, changes, limiterVars>>

-----------------------------------------------------------------------------
(* Registry.Call.                                                          *)

Lookup(i) ==
    LET t == requests[i].name IN
    /\ pc[i] = "lookup"
    /\ IF tools[t] = NoTool
       THEN Responds(i, "lookup", "unknown tool") /\ UNCHANGED tool
       ELSE /\ Moves(i, "lookup", "validate")
            /\ tool' = [tool EXCEPT ![i] = tools[t]]
            /\ UNCHANGED result
    /\ UNCHANGED <<tools, message, requests, changes, limiterVars>>

\* A JSON number is a float64: an integer if it has no fraction.
MatchesType(expected, value) ==
    CASE expected = "integer" -> value.type = "number" /\ value.whole
      [] expected \in {"string", "boolean", "array", "object"} -> value.type = expected
      [] OTHER -> TRUE

\* ValidateInput: required fields are there, and what the schema knows has
\* its type and is in its enumeration; other fields pass.
ValidateInput(schema, input) ==
    /\ schema.required \subseteq DOMAIN input
    /\ \A f \in DOMAIN input \cap DOMAIN schema.properties :
        LET property == schema.properties[f] IN
        /\ MatchesType(property.type, input[f])
        /\ property.enum # {} => input[f].type = "string" /\ input[f].text \in property.enum

\* Mutation of Validate: the schema is that of the tool registered by now.
ValidateCurrent(i) ==
    LET now == tools[requests[i].name] IN
    /\ pc[i] = "validate"
    /\ IF now = NoTool \/ ValidateInput(now.schema, requests[i].input)
       THEN Moves(i, "validate", "guard") /\ UNCHANGED result
       ELSE Responds(i, "validate", "invalid input")
    /\ UNCHANGED <<tools, message, requests, tool, changes, limiterVars>>

Validate(i) ==
    /\ pc[i] = "validate"
    /\ IF ValidateInput(tool[i].schema, requests[i].input)
       THEN Moves(i, "validate", "guard") /\ UNCHANGED result
       ELSE Responds(i, "validate", "invalid input")
    /\ UNCHANGED <<tools, message, requests, tool, changes, limiterVars>>

\* A Block rule for the target matches the text.
Blocked(target, text) ==
    \E rule \in Rules :
        rule.target \in {target, "both"} /\ rule.action = "block" /\ text \in rule.matches

\* What flattenInput makes of a request's input.  It joins the values in the order of
\* a Go map, so a pattern spread over two fields is whole only in some orders.
Flattened(request) == IF request.text = "split" THEN {"plain", "attack"} ELSE {request.text}

\* ScanInput
Guard(i, text) ==
    /\ pc[i] = "guard"
    /\ text \in Flattened(requests[i])
    /\ IF Blocked("input", text)
       THEN Responds(i, "guard", "blocked") /\ UNCHANGED tool
       ELSE /\ Moves(i, "guard", "handler")
            /\ UNCHANGED <<tool, result>>
    /\ UNCHANGED <<tools, message, requests, changes, limiterVars>>

\* The handler returns an error, or output that passes ScanOutput or is
\* redacted by it.
Handler(i, output) ==
    /\ Responds(i, "handler",
            IF output = "error" THEN "tool error"
            ELSE IF Blocked("output", output) THEN "redacted" ELSE "ok")
    /\ UNCHANGED <<tools, message, requests, tool, changes, limiterVars>>

-----------------------------------------------------------------------------
(* Administration.                                                         *)

Changes == changes < MaxChanges /\ changes' = changes + 1

\* POST /tools: an existing name is refused.
Register(t, r) ==
    /\ Changes
    /\ tools[t] = NoTool
    /\ tools' = [tools EXCEPT ![t] = r]
    /\ UNCHANGED <<slotVars, limiterVars>>

\* DELETE /tools/:name; a call in progress keeps the registration it has.
Unregister(t) ==
    /\ Changes
    /\ tools' = [tools EXCEPT ![t] = NoTool]
    /\ UNCHANGED <<slotVars, limiterVars>>

Configure(t, limit) ==
    /\ Changes
    /\ SetLimit(t, limit)
    /\ UNCHANGED <<tools, slotVars>>

TimePasses == Tick /\ UNCHANGED <<tools, slotVars, changes>>

-----------------------------------------------------------------------------
SlotStep(i) ==
    \/ Dispatch(i) \/ CheckLimit(i) \/ Lookup(i) \/ Validate(i)
    \/ \E text \in Texts : Guard(i, text)
    \/ \E output \in {"error", "plain", "secret"} : Handler(i, output)

Next ==
    \/ \E rs \in [Slots -> Requests] : Receive(rs)
    \/ Refuse
    \/ \E i \in Slots : SlotStep(i)
    \/ Reply \/ NextMessage
    \/ \E t \in Tools :
        \/ \E r \in Registrations : Register(t, r)
        \/ Unregister(t)
        \/ \E limit \in Limits : Configure(t, limit)
    \/ TimePasses

\* The goroutines of a batch run, and handlers return.
Fairness == WF_vars(Reply) /\ \A i \in Slots : WF_vars(SlotStep(i))

Spec == Init /\ [][Next]_vars /\ Fairness

-----------------------------------------------------------------------------
(* Properties.                                                             *)

\* A handler only ever sees input that is valid for the schema it was
\* registered with, and that no Block rule is sure to match: not the schema of
\* a tool that has taken its name meanwhile.  So the language switch of
\* code_exec never meets a language outside its enumeration.
HandlerInputValid ==
    \A i \in Slots : pc[i] = "handler" =>
        /\ ValidateInput(tool[i].schema, requests[i].input)
        /\ \E text \in Flattened(requests[i]) : ~Blocked("input", text)

\* A reply holds a response for every request of the message, and each is in
\* the position of its own request, in whatever order the goroutines finish.
RepliesComplete ==
    \A i \in Slots :
        /\ message = "replied" => result[i] # "none"
        /\ result[i] # "none" =>
            /\ pc[i] = "done"
            /\ result[i] \in MalformedKinds \/ requests[i].kind \in MalformedKinds
                 => result[i] = requests[i].kind

\* Every message is answered.
MessageAnswered == message = "open" ~> message = "replied"
=============================================================================
