-------------------------- MODULE WorkflowManager --------------------------
(***************************************************************************)
(* The workflow manager of internal/api/manager.go and the HTTP handlers   *)
(* that call it: the four tables under one read-write lock, the goroutine  *)
(* that runs a workflow in the background, and concurrent requests that    *)
(* create, read, resume and cancel.                                        *)
(*                                                                         *)
(* A run's scheduler is its RunLifecycle: its status, and as its age the   *)
(* number of changes so far, which tells an old snapshot from a new one.   *)
(* That one goroutine drives a run at a time is the scheduler's doing      *)
(* (SingleOwner of module Scheduler) and taken over from there; the one    *)
(* that has paused a run may still be on its way out when another resumes  *)
(* it.  One action is one critical section of WorkflowManager.mu or of the *)
(* scheduler's mutex.                                                      *)
(***************************************************************************)
EXTENDS Naturals

CONSTANTS
    Clients,        \* the request goroutines
    WorkflowIDs,    \* the IDs of workflows: a fresh uuid, or the caller's own
    Definitions,    \* the workflow definitions that callers submit
    MaxRuns,        \* bound: runs created
    MaxAge          \* bound: status changes of a run before the last Resume

\* Nobody in particular, and the goroutine of CreateAndRun.
ASSUME ClientNames == {"none", "run"} \cap Clients = {}

ASSUME MaxRunsType == MaxRuns \in Nat

NoRun == 0
RunIDs == 1 .. MaxRuns
Statuses == {"pending", "running", "paused", "completed", "failed"}
Fresh == [status |-> "pending", age |-> 0]

VARIABLES
    workflows,   \* the keys of m.workflows
    schedulers,  \* the keys of m.schedulers
    runs,        \* m.runs
    runIndex,    \* m.runIndex, or NoRun
    created,     \* the number of schedulers made so far
    sched,       \* the state of each run's scheduler
    driver,      \* who drives it: "run", the client whose Resume was accepted, or "none"
    background,  \* where the goroutine of CreateAndRun is
    result,      \* what that goroutine's Run returned
    call         \* the request each client makes

tables == <<workflows, schedulers, runs, runIndex, created>>
runVars == <<sched, driver, background, result>>
vars == <<tables, runVars, call>>

Life(r) == INSTANCE RunLifecycle WITH status <- sched[r].status

Idle == [at |-> "idle", run |-> NoRun, entry |-> Fresh, snap |-> Fresh, since |-> 0]
Snapshots == [status : Statuses, age : Nat]
Calls ==
    [at : {"idle", "found", "snapped", "resuming", "driving", "leaving", "failing",
           "answered", "refused"},
     run : RunIDs \cup {NoRun}, entry : Snapshots, snap : Snapshots, since : Nat]

TypeOK ==
    /\ workflows \in SUBSET WorkflowIDs
    /\ schedulers \in SUBSET RunIDs
    /\ runs \in [RunIDs -> Snapshots]
    /\ runIndex \in [WorkflowIDs -> RunIDs \cup {NoRun}]
    /\ created \in 0 .. MaxRuns
    /\ sched \in [RunIDs -> Snapshots]
    /\ driver \in [RunIDs -> Clients \cup {"none", "run"}]
    /\ background \in [RunIDs -> {"none", "started", "driving", "ended", "store", "done"}]
    /\ result \in [RunIDs -> Snapshots]
    /\ call \in [Clients -> Calls]

Init ==
    /\ workflows = {}
    /\ schedulers = {}
    /\ runs = [r \in RunIDs |-> Fresh]
    /\ runIndex = [w \in WorkflowIDs |-> NoRun]
    /\ created = 0
    /\ sched = [r \in RunIDs |-> Fresh]
    /\ driver = [r \in RunIDs |-> "none"]
    /\ background = [r \in RunIDs |-> "none"]
    /\ result = [r \in RunIDs |-> Fresh]
    /\ call = [c \in Clients |-> Idle]

-----------------------------------------------------------------------------
(* Requests.                                                               *)

\* All that is left of the request is its answer: a 2xx, or with "refused" an
\* error, at once or when Resume gets there.
Answer(c, kind) == call' = [call EXCEPT ![c] = [Idle EXCEPT !.at = kind]]

\* The response is out; the client may ask again.
Finish(c) ==
    /\ call[c].at \in {"answered", "refused"}
    /\ call' = [call EXCEPT ![c] = Idle]
    /\ UNCHANGED <<tables, runVars>>

\* validateWorkflow, and the graph that NewScheduler builds (module
\* GraphValidation): a name, at least one step, every step with an ID of its
\* own, no cycle.
ValidateWorkflow(wf) ==
    /\ wf.name # ""
    /\ wf.steps # <<>>
    /\ \A i \in DOMAIN wf.steps : wf.steps[i] # ""
    /\ \A i, j \in DOMAIN wf.steps : wf.steps[i] = wf.steps[j] => i = j
    /\ wf.acyclic

\* The critical section of CreateAndRun.
Register(c, w) ==
    /\ workflows' = workflows \cup {w}
    /\ schedulers' = schedulers \cup {created + 1}
    /\ runs' = [runs EXCEPT ![created + 1] = Fresh]
    /\ runIndex' = [runIndex EXCEPT ![w] = created + 1]

\* POST /workflows: a definition that does not pass is refused; otherwise the
\* new run is registered and a goroutine is started for it.
CreateAndRun(c, w, wf) ==
    /\ call[c].at = "idle"
    /\ created < MaxRuns
    /\ IF ValidateWorkflow(wf)
       THEN /\ Register(c, w)
            /\ created' = created + 1
            /\ background' = [background EXCEPT ![created + 1] = "started"]
            /\ Answer(c, "answered")
            /\ UNCHANGED <<sched, driver, result>>
       ELSE Answer(c, "refused") /\ UNCHANGED <<tables, runVars>>

\* GetRun, first critical section: the run's ID and its entry in the table.
GetRunFinds(c, w) ==
    /\ call[c].at = "idle"
    /\ IF runIndex[w] = NoRun
       THEN Answer(c, "refused")
       ELSE call' = [call EXCEPT ![c] =
                [Idle EXCEPT !.at = "found", !.run = runIndex[w], !.entry = runs[runIndex[w]],
                             !.since = sched[runIndex[w]].age]]
    /\ UNCHANGED <<tables, runVars>>

\* Mutation of GetRunSnapshots: the entry read at first is good enough.
GetRunSnapshotsEntry(c) ==
    /\ call[c].at = "found"
    /\ call' = [call EXCEPT ![c] =
            [call[c] EXCEPT !.at = "snapped", !.snap = call[c].entry, !.entry = Fresh]]
    /\ UNCHANGED <<tables, runVars>>

\* GetRun: the scheduler's Snapshot, or for want of one the table's entry.
GetRunSnapshots(c) ==
    LET r == call[c].run IN
    /\ call[c].at = "found"
    /\ call' = [call EXCEPT ![c] =
            IF r \in schedulers
            THEN [call[c] EXCEPT !.at = "snapped", !.snap = sched[r], !.entry = Fresh]
            ELSE [call[c] EXCEPT !.at = "answered", !.snap = call[c].entry, !.entry = Fresh]]
    /\ UNCHANGED <<tables, runVars>>

\* GetRun: the snapshot goes into the table, over whatever is there by now.
GetRunStores(c) ==
    /\ call[c].at = "snapped"
    /\ runs' = [runs EXCEPT ![call[c].run] = call[c].snap]
    /\ call' = [call EXCEPT ![c] = [call[c] EXCEPT !.at = "answered"]]
    /\ UNCHANGED <<workflows, schedulers, runIndex, created, runVars>>

\* ResumeWorkflow: sched.Resume refuses a step the run is not paused on; the
\* handler answers 409 to that and to an unknown ID.
ResumeRefused(c, w) ==
    /\ call[c].at = "idle"
    /\ Answer(c, "refused")
    /\ UNCHANGED <<tables, runVars>>

\* ResumeWorkflow has no test of its own: completeHumanStep accepts the first
\* Resume that names the step the run is paused on and forgets that step, so a
\* second one is refused.
ResumeAccepted(c, w) ==
    LET r == runIndex[w] IN
    /\ call[c].at = "idle"
    /\ r # NoRun
    /\ sched[r].status = "paused"
    /\ driver[r] = "none"
    /\ sched[r].age < MaxAge
    /\ driver' = [driver EXCEPT ![r] = c]
    /\ call' = [call EXCEPT ![c] = [Idle EXCEPT !.at = "resuming", !.run = r]]
    /\ UNCHANGED <<tables, sched, background, result>>

\* The checkpoint is saved: the request goroutine itself drives the run on.
ResumeEnters(c) ==
    LET r == call[c].run IN
    /\ call[c].at = "resuming"
    /\ sched' = [sched EXCEPT ![r] = [status |-> "running", age |-> sched[r].age + 1]]
    /\ call' = [call EXCEPT ![c] = [call[c] EXCEPT !.at = "driving"]]
    /\ UNCHANGED <<tables, driver, background, result>>

\* Resume returns to its handler, with the error of a run that failed; the
\* table keeps its entry.
ResumeReturns(c) ==
    /\ call[c].at \in {"leaving", "failing"}
    /\ Answer(c, IF call[c].at = "failing" THEN "refused" ELSE "answered")
    /\ UNCHANGED <<tables, runVars>>

\* CancelWorkflow: whether the run ends by it is up to the scheduler, and a
\* run that has not yet entered Run has no cancel function; the answer is the
\* same.
CancelWorkflow(c, w) ==
    /\ call[c].at = "idle"
    /\ Answer(c, IF runIndex[w] = NoRun THEN "refused" ELSE "answered")
    /\ UNCHANGED <<tables, runVars>>

-----------------------------------------------------------------------------
(* Runs.                                                                   *)

\* The goroutine of CreateAndRun enters sched.Run.
RunStarts(r) ==
    /\ background[r] = "started"
    /\ background' = [background EXCEPT ![r] = "driving"]
    /\ sched' = [sched EXCEPT ![r] = [status |-> "running", age |-> sched[r].age + 1]]
    /\ driver' = [driver EXCEPT ![r] = "run"]
    /\ UNCHANGED <<tables, result, call>>

\* Mutation of RunRests: a Resume that ends does not return to its handler.
RunRestsSilently(r, to) ==
    /\ driver[r] # "none"
    /\ Life(r)!Moves(sched[r].status, to)
    /\ sched' = [sched EXCEPT ![r] = [status |-> to, age |-> sched[r].age + 1]]
    /\ driver' = [driver EXCEPT ![r] = "none"]
    /\ background' = [background EXCEPT ![r] = "ended"]
    /\ UNCHANGED <<tables, result, call>>

\* runLoop pauses, completes or fails the run; whoever drove it is on its way
\* out of it, saving a checkpoint first.
RunRests(r, to) ==
    /\ driver[r] # "none"
    /\ Life(r)!Moves(sched[r].status, to)
    /\ sched' = [sched EXCEPT ![r] = [status |-> to, age |-> sched[r].age + 1]]
    /\ driver' = [driver EXCEPT ![r] = "none"]
    /\ IF driver[r] = "run"
       THEN background' = [background EXCEPT ![r] = "ended"] /\ UNCHANGED call
       ELSE Answer(driver[r], IF to = "failed" THEN "failing" ELSE "leaving") /\ UNCHANGED background
    /\ UNCHANGED <<tables, result>>

\* Run returns a copy of the run as it is by now.
RunReturns(r) ==
    /\ background[r] = "ended"
    /\ result' = [result EXCEPT ![r] = sched[r]]
    /\ background' = [background EXCEPT ![r] = "store"]
    /\ UNCHANGED <<tables, sched, driver, call>>

\* The goroutine stores the result in the table.
RunStored(r) ==
    /\ background[r] = "store"
    /\ runs' = [runs EXCEPT ![r] = result[r]]
    /\ result' = [result EXCEPT ![r] = Fresh]
    /\ background' = [background EXCEPT ![r] = "done"]
    /\ UNCHANGED <<workflows, schedulers, runIndex, created, sched, driver, call>>

RunStep(r) ==
    \/ RunStarts(r) \/ RunReturns(r) \/ RunStored(r)
    \/ \E to \in {"paused", "completed", "failed"} : RunRests(r, to)

Request(c) ==
    \E w \in WorkflowIDs :
        \/ \E wf \in Definitions : CreateAndRun(c, w, wf)
        \/ GetRunFinds(c, w) \/ ResumeRefused(c, w) \/ ResumeAccepted(c, w) \/ CancelWorkflow(c, w)

\* What a request goroutine does by itself, once the request has come in.
Serve(c) == GetRunSnapshots(c) \/ GetRunStores(c) \/ ResumeEnters(c) \/ ResumeReturns(c)

Next ==
    \/ \E c \in Clients : Request(c) \/ Serve(c) \/ Finish(c)
    \/ \E r \in RunIDs : RunStep(r)

\* Goroutines run and the lock is released; a run comes to rest because
\* RunLifecycle says so.  Nothing makes a client send a request.
Fairness ==
    /\ \A c \in Clients : WF_vars(Serve(c))
    /\ \A r \in RunIDs : WF_vars(RunStep(r))

Spec == Init /\ [][Next]_vars /\ Fairness

-----------------------------------------------------------------------------
(* Properties.                                                             *)

\* A GET answers with a state the scheduler had while the request was being
\* served: never an older one, although the table GetRun goes through is
\* written back outside the critical section that read it and may go backwards.
AnswersFresh ==
    \A c \in Clients :
        call[c].run # NoRun /\ call[c].at \in {"snapped", "answered"} =>
            call[c].snap.age \in call[c].since .. sched[call[c].run].age

\* Every request is answered, a Resume too, which returns only when the run
\* has come to rest again and which another Resume may overtake.
RequestsReturn ==
    \A c \in Clients : call[c].at # "idle" ~> call[c].at \in {"answered", "refused"}
=============================================================================
