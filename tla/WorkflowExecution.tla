-------------------------- MODULE WorkflowExecution --------------------------
(***************************************************************************)
(* Durable execution of a verified workflow: the task executions of a      *)
(* WorkflowExecution, the repository lines its workstreams write to, the   *)
(* dispatcher pump that advances the readiness frontier, the NodeRun       *)
(* driver, the operator's routes and the recovery done by a restart.       *)
(*                                                                         *)
(* Every durable action is one `mutate` of the API: mutations are queued   *)
(* one after the other and a mutation that throws commits nothing          *)
(* (apps/api/src/state.mjs), so a guard that fails is an action that is    *)
(* not enabled.  Two mutations of the same handler are two actions, and    *)
(* what the handler remembers in between is in job, route, provisioning   *)
(* and pump, which a crash forgets.                                        *)
(***************************************************************************)
EXTENDS Naturals, FiniteSets

CONSTANTS
    Execs,        \* workflow executions of one workflow, in any order of creation
    Tasks,        \* task nodes of the workflow
    Streams,      \* workstream nodes of the workflow
    LineStreams,  \* workstreams the operator selected a repository for
    None,         \* no writer
    Order,        \* order_index of a task
    Dep,          \* task -> tasks it depends on
    Upstream,     \* task -> all its ancestors (transitive closure of Dep)
    Executor,     \* task -> executorForTask(task)
    Stream,       \* task -> its parent workstream
    StreamDep,    \* workstream -> workstreams whose hand-off it waits for
    Reviewed,     \* tasks with an output slot confirmed by a human
    Inherits,     \* tasks with a workstream input pinned to an upstream SHA
    Replayable,   \* bound: tasks whose failed stage an operator replays
    MaxAttempts,  \* bound: attempts of a task
    MaxCrashes    \* bound: crashes of the service

RepositoryKinds == {"repository_change", "repository_verify", "repository_integrate"}
NodeRunKinds == {"assist", "repository_change"}
ManualKinds == {"manual", "assist"}

Attempts == 1..MaxAttempts
X == Execs \X Tasks \X Attempts       \* task executions
Lines == Execs \X Streams             \* repository lines

ExecOf(x) == x[1]
TaskOf(x) == x[2]
AttemptOf(x) == x[3]
Kind(x) == Executor[TaskOf(x)]
LineOf(x) == <<ExecOf(x), Stream[TaskOf(x)]>>

ASSUME ShapeAssumption ==
    /\ Order \in [Tasks -> Nat]
    /\ \A s, t \in Tasks : Order[s] = Order[t] => s = t
    /\ Dep \in [Tasks -> SUBSET Tasks]
    /\ Upstream \in [Tasks -> SUBSET Tasks]
    /\ \A t \in Tasks : /\ Upstream[t] = Dep[t] \cup UNION {Upstream[d] : d \in Dep[t]}
                        /\ t \notin Upstream[t]
    /\ Executor \in [Tasks -> RepositoryKinds \cup ManualKinds]
    /\ Stream \in [Tasks -> Streams]
    /\ StreamDep \in [Streams -> SUBSET Streams]
    /\ LineStreams \subseteq Streams
    /\ Reviewed \subseteq Tasks
    /\ Inherits \subseteq {t \in Tasks : StreamDep[Stream[t]] \cap LineStreams # {}}
ASSUME ReplayAssumption ==
    Replayable \subseteq {t \in Tasks : Executor[t] \in NodeRunKinds}
ASSUME BoundAssumption == MaxAttempts \in Nat /\ MaxAttempts >= 2 /\ MaxCrashes \in Nat
ASSUME NoneAssumption == None \notin X

WorkflowStatus == {"absent", "running", "paused", "completed", "failed", "cancelled"}
TaskStatus == {"absent", "pending", "ready", "queued", "running", "verifying",
               "awaiting_human", "completed", "failed", "cancelled", "superseded"}
LineStatus == {"none", "active", "integrating", "merged", "failed", "cancelled"}
Line == [status : LineStatus, checkout : BOOLEAN, based : BOOLEAN, writer : X \cup {None}]
Job == {"idle", "seen", "syncing", "switched", "claiming", "claimed", "running",
        "aborted", "transient", "deterministic"}
Route == {"idle", "replaying", "syncing", "switched"}
Pump == {"idle", "scheduled", "looping", "closing", "finalizing"}
Provisioner == {"route", "pump"}
Lease == {"none", "live", "expired"}

ActiveWorkflow == {"running", "paused"}
Terminal == {"completed", "failed", "cancelled", "superseded"}
Failable == {"queued", "running", "verifying", "awaiting_human"}
Occupying == {"queued", "running", "verifying"}
RetryClass == {"transient", "deterministic"}

VARIABLES
    \* state.db
    wf,            \* workflow_executions[e].status
    status,        \* task_executions[x].status
    lease,         \* task_executions[x].lease: none, live or expired
    candidate,     \* x has outputs waiting for a human decision
    stage,         \* failed stage checkpoint of x: none, early (before the result
                   \* is persisted) or late (verify, attest, promote)
    line,          \* repository_lines
    moved,         \* on disk: the checkout of a line stands on the upstream SHA
    outcome,       \* a workstream outcome asset hands l over to dependants
    current,       \* the workflow still has the revision e was created for
    \* memory of the API process
    job,           \* where executeQueuedTask / executeNodeRun stands for x
    route,         \* a route working on x between two mutations (one at a time)
    provisioning,  \* who is provisioning a line
    pump,          \* the dispatcher pump of e
    recovering,    \* executions the starting process has still to recover
    crashes        \* crashes so far

durable == <<wf, status, lease, candidate, stage, line, moved, outcome, current>>
volatile == <<job, route, provisioning, pump, recovering>>
vars == <<durable, volatile, crashes>>

Up == recovering = {}

-----------------------------------------------------------------------------
(* Attempts.  The newest attempt of each task is the current one.          *)

Exists(st, x) == st[x] # "absent"
Latest(st, x) == /\ Exists(st, x)
                 /\ \A n \in Attempts :
                        n > AttemptOf(x) => ~Exists(st, <<ExecOf(x), TaskOf(x), n>>)
CurrentExecutions(st, e) == {x \in X : ExecOf(x) = e /\ Latest(st, x)}
NextAttempt(x) ==
    {n \in Attempts : /\ ~Exists(status, <<ExecOf(x), TaskOf(x), n>>)
                      /\ \A m \in Attempts :
                            ~Exists(status, <<ExecOf(x), TaskOf(x), m>>) => n <= m}
AttemptsOf(x) == Cardinality({n \in Attempts : Exists(status, <<ExecOf(x), TaskOf(x), n>>)})

(* Only the first attempt of a task is followed by one nobody asked for.   *)
RetriesTwice(x) == AttemptsOf(x) <= 2  \* mutant: off by one
RetriesLeft(x) == AttemptsOf(x) < 2

(* Readiness of x: workflow-execution-readiness.mjs. *)

DependenciesDone(st, x) ==
    \A d \in Dep[TaskOf(x)] :
        \E y \in CurrentExecutions(st, ExecOf(x)) : TaskOf(y) = d /\ st[y] = "completed"
LineReady(ln, x) ==
    Kind(x) \in RepositoryKinds =>
        ln[LineOf(x)].status \in {"active", "integrating"} /\ ln[LineOf(x)].checkout
SiblingsDone(st, x) ==
    Kind(x) = "repository_integrate" =>
        \A y \in CurrentExecutions(st, ExecOf(x)) \ {x} :
            (LineOf(y) = LineOf(x) /\ TaskOf(x) \notin Upstream[TaskOf(y)])
                => st[y] = "completed"
ReadyAlone(st, ln, oc, w, x) ==  \* mutant: the hand-off is not waited for
    w # "paused" /\ DependenciesDone(st, x) /\ LineReady(ln, x) /\ SiblingsDone(st, x)
Ready(st, ln, oc, w, x) ==
    /\ w # "paused"
    /\ DependenciesDone(st, x)
    /\ \A u \in StreamDep[Stream[TaskOf(x)]] : oc[<<ExecOf(x), u>>]
    /\ LineReady(ln, x)
    /\ SiblingsDone(st, x)

(* queueCapacityAvailable: x may be queued beside the tasks that occupy a  *)
(* slot, those queued earlier in the same pass included.                   *)
BusyBefore(st, queued, x) ==  \* mutant: the state before the pass is consulted
    {y \in CurrentExecutions(st, ExecOf(x)) \ {x} : st[y] \in Occupying}
Busy(st, queued, x) ==
    {y \in CurrentExecutions(st, ExecOf(x)) \ {x} : st[y] \in Occupying} \cup queued
Slots == 2
Capacity(st, ln, queued, x) ==
    LET busy == Busy(st, queued, x)
        beside(k) == {y \in busy : Kind(y) = k /\ LineOf(y) = LineOf(x)}
        k == Kind(x)
    IN  \/ k = "manual"
        \/ k = "assist" /\ Cardinality({y \in busy : Kind(y) = "assist"}) < Slots
        \/ /\ ln[LineOf(x)].status # "none"
           /\ \/ k = "repository_change" /\ ln[LineOf(x)].writer = None /\ beside(k) = {}
              \/ k = "repository_verify" /\ Cardinality(beside(k)) < Slots
              \/ /\ k = "repository_integrate"
                 /\ \A y \in busy : LineOf(y) = LineOf(x) => Kind(y) = k

-----------------------------------------------------------------------------
(* What a mutation writes.                                                 *)

(* Every commit notifies the dispatcher, which schedules a pump for each   *)
(* running workflow that has none: state.mjs installStateSnapshot and      *)
(* workflow-dispatcher.mjs scheduleAllActiveWorkflowExecutions.            *)
Woken(e, asked) ==
    IF pump[e] = "idle" /\ (wf'[e] = "running" \/ e \in asked) THEN "scheduled" ELSE pump[e]
Wake == pump' = [e \in Execs |-> Woken(e, {})]
(* A route that also calls scheduleWorkflowExecution for its own workflow. *)
WakeAlso(x) == pump' = [e \in Execs |-> Woken(e, {ExecOf(x)})]

(* The status a workflow is left in once none of its tasks can move.       *)
ProjectedAtOnce(w, e, st) ==  \* mutant: the first failure fails the workflow
    LET has(s) == \E x \in CurrentExecutions(st, e) : st[x] = s
    IN  IF has("cancelled") THEN "cancelled" ELSE IF has("failed") THEN "failed" ELSE w
Projected(w, e, st) ==
    LET executions == CurrentExecutions(st, e)
        settled == \A x \in executions : st[x] \in Terminal
        has(s) == \E x \in executions : st[x] = s
    IN  IF settled /\ has("cancelled") THEN "cancelled"
        ELSE IF settled /\ has("failed") THEN "failed" ELSE w

(* reconcileWorkflowExecutionInState on the draft (w, st, ln, oc).  queued *)
(* is determined: a task enters it iff there is room beside those before.  *)
Waiting(e, st) == {x \in CurrentExecutions(st, e) : st[x] \in {"pending", "ready"}}
Queues(queued, ready, w, st, ln) ==
    \A x \in ready :
        x \in queued <=>
            /\ w = "running"
            /\ Capacity(st, ln, {y \in queued : Order[TaskOf(y)] < Order[TaskOf(x)]}, x)
NewWriter(queued, l, writer) ==
    LET claims == {x \in queued : Kind(x) = "repository_change" /\ LineOf(x) = l}
    IN  IF claims # {} THEN CHOOSE x \in claims : TRUE ELSE writer
Reconcile(e, w, st, ln, oc) ==
    IF w \notin ActiveWorkflow
    THEN status' = st /\ line' = ln /\ wf' = [wf EXCEPT ![e] = w]
    ELSE LET ready == {x \in Waiting(e, st) : Ready(st, ln, oc, w, x)}
         IN  /\ current[e]
             /\ \E queued \in SUBSET ready :
                /\ Queues(queued, ready, w, st, ln)
                /\ status' = [x \in X |-> IF x \in queued THEN "queued"
                                          ELSE IF x \in ready THEN "ready"
                                          ELSE IF x \in Waiting(e, st) THEN "pending" ELSE st[x]]
                /\ line' = [l \in Lines |-> [ln[l] EXCEPT !.writer = NewWriter(queued, l, @)]]
                /\ wf' = [wf EXCEPT ![e] = Projected(w, e, status')]

(* A terminal transition drops the lease and the writer reservation. *)
ReleasedNot(ln, x) == ln  \* mutant: the reservation stays
ReleasedToOwner(ln, x) ==  \* mutant: the reservation passes to the workflow
    [ln EXCEPT ![LineOf(x)].writer = IF @ = x THEN ExecOf(x) ELSE @]
Released(ln, x) == [ln EXCEPT ![LineOf(x)].writer = IF @ = x THEN None ELSE @]

(* ensureCompletedWorkstreamOutcomesInState *)
OutcomesEarly(e, st, ln) ==  \* mutant: the first completed task hands over
    [l \in Lines |->
        \/ outcome[l]
        \/ \E x \in CurrentExecutions(st, e) : LineOf(x) = l /\ st[x] = "completed"]
Outcomes(e, st, ln) ==
    [l \in Lines |->
        LET members == {x \in CurrentExecutions(st, e) : LineOf(x) = l}
        IN  \/ outcome[l]
            \/ /\ members # {}
               /\ \A x \in members : st[x] = "completed"
               /\ ln[l].status \in {"none", "merged"}]

Complete(x, ln) ==
    LET e == ExecOf(x)
        st == [status EXCEPT ![x] = "completed"]
        freed == Released(ln, x)
    IN  /\ lease' = [lease EXCEPT ![x] = "none"]
        /\ candidate' = [candidate EXCEPT ![x] = FALSE]
        /\ outcome' = Outcomes(e, st, freed)
        /\ Reconcile(e, wf[e], st, freed, outcome')

AwaitReview(x, ln) ==
    /\ candidate' = [candidate EXCEPT ![x] = TRUE]
    /\ UNCHANGED <<lease, outcome>>
    /\ Reconcile(ExecOf(x), wf[ExecOf(x)], [status EXCEPT ![x] = "awaiting_human"], ln, outcome)

(* ingestExecutionOutputsInState, and completion unless a human decides. *)
Deliver(x, ln) ==
    IF TaskOf(x) \in Reviewed THEN AwaitReview(x, ln) ELSE Complete(x, ln)

(* failTaskExecutionInState followed by a reconcile. *)
FailAndReconcile(x) ==
    /\ lease' = [lease EXCEPT ![x] = "none"]
    /\ Reconcile(ExecOf(x), wf[ExecOf(x)], [status EXCEPT ![x] = "failed"],
                 Released(line, x), outcome)

(* retryTaskExecutionInState: x, failed already or in this mutation, is    *)
(* superseded by a pending attempt; w is the status after a reopening.     *)
CreateRetryBeside(x, w, ln) ==  \* mutant: x is not superseded
    \E n \in NextAttempt(x) :
        /\ lease' = [lease EXCEPT ![x] = "none"]
        /\ Reconcile(ExecOf(x), w, [status EXCEPT ![<<ExecOf(x), TaskOf(x), n>>] = "pending"],
                     Released(ln, x), outcome)
CreateRetry(x, w, ln) ==
    \E n \in NextAttempt(x) :
        LET next == <<ExecOf(x), TaskOf(x), n>>
        IN  /\ lease' = [lease EXCEPT ![x] = "none"]
            /\ Reconcile(ExecOf(x), w, [status EXCEPT ![x] = "superseded", ![next] = "pending"],
                         Released(ln, x), outcome)

(* reopenFailedWorkflowForRetry by an operator. *)
CanReopenBeside(e) == wf[e] = "failed" => current[e]  \* mutant: others are not looked at
CanReopen(e) ==
    wf[e] = "failed" => /\ current[e]
                        /\ \A f \in Execs \ {e} : wf[f] \notin ActiveWorkflow
Reopened(e) == IF wf[e] = "failed" THEN "running" ELSE wf[e]

-----------------------------------------------------------------------------
Init ==
    /\ wf = [e \in Execs |-> "absent"]
    /\ status = [x \in X |-> "absent"]
    /\ lease = [x \in X |-> "none"]
    /\ candidate = [x \in X |-> FALSE]
    /\ stage = [x \in X |-> "none"]
    /\ line = [l \in Lines |-> [status |-> "none", checkout |-> FALSE,
                                based |-> FALSE, writer |-> None]]
    /\ moved = [l \in Lines |-> FALSE]
    /\ outcome = [l \in Lines |-> FALSE]
    /\ current = [e \in Execs |-> TRUE]
    /\ job = [x \in X |-> "idle"]
    /\ route = [x \in X |-> "idle"]
    /\ provisioning = [l \in Lines |-> {}]
    /\ pump = [e \in Execs |-> "idle"]
    /\ recovering = {}
    /\ crashes = 0

-----------------------------------------------------------------------------
(* Operator routes on a workflow.                                          *)

Create(e) ==
    LET st == [x \in X |-> IF ExecOf(x) = e /\ AttemptOf(x) = 1 THEN "pending" ELSE status[x]]
        lines == {l \in Lines : l[1] = e /\ l[2] \in LineStreams}
        ln == [l \in Lines |-> [line[l] EXCEPT !.status = IF l \in lines THEN "active" ELSE @]]
    IN  /\ Up
        /\ wf[e] = "absent"
        /\ \A f \in Execs : wf[f] \notin ActiveWorkflow
        /\ Reconcile(e, "running", st, ln, outcome)
        /\ Wake
        /\ provisioning' = [l \in Lines |-> IF l \in lines THEN {"route"} ELSE provisioning[l]]
        /\ UNCHANGED <<lease, candidate, stage, outcome, current, job, route, recovering,
                       moved, crashes>>

Pause(e) ==
    /\ Up
    /\ wf[e] = "running"
    /\ Reconcile(e, "paused", status, line, outcome)
    /\ Wake
    /\ UNCHANGED <<lease, candidate, stage, outcome, current, job, route, provisioning,
                   recovering, moved, crashes>>

Resume(e) ==
    /\ Up
    /\ wf[e] = "paused"
    /\ Reconcile(e, "running", status, line, outcome)
    /\ Wake
    /\ UNCHANGED <<lease, candidate, stage, outcome, current, job, route, provisioning,
                   recovering, moved, crashes>>

Cancel(e) ==
    LET stopped == {x \in CurrentExecutions(status, e) : status[x] \notin Terminal}
    IN  /\ Up
        /\ wf[e] \in ActiveWorkflow
        /\ wf' = [wf EXCEPT ![e] = "cancelled"]
        /\ status' = [x \in X |-> IF x \in stopped THEN "cancelled" ELSE status[x]]
        /\ lease' = [x \in X |-> IF x \in stopped THEN "none" ELSE lease[x]]
        /\ line' = [l \in Lines |->
                        [line[l] EXCEPT
                            !.status = IF l[1] = e /\ @ \in {"active", "integrating"}
                                       THEN "cancelled" ELSE @,
                            !.writer = IF @ \in stopped THEN None ELSE @]]
        /\ Wake
        /\ UNCHANGED <<candidate, stage, outcome, current, job, route, provisioning,
                       recovering, moved, crashes>>

(* A graph edit makes a new workflow revision; it is refused while an      *)
(* execution is running or paused (workflow-graph-service.mjs).            *)
EditPlan ==
    /\ Up
    /\ \A f \in Execs : wf[f] \notin ActiveWorkflow
    /\ current' = [e \in Execs |-> wf[e] = "absent"]
    /\ UNCHANGED <<wf, status, lease, candidate, stage, line, outcome, job, route,
                   provisioning, recovering, moved, crashes>>
    /\ Wake

-----------------------------------------------------------------------------
(* Repository lines.                                                       *)

(* dispatchWorkflowExecution begins with provisionMissingLines. *)
PumpStart(e) ==
    /\ Up
    /\ pump[e] = "scheduled"
    /\ pump' = [pump EXCEPT ![e] = "looping"]
    /\ provisioning' = [l \in Lines |->
            IF l[1] = e /\ line[l].status = "active" /\ ~line[l].checkout
            THEN provisioning[l] \cup {"pump"} ELSE provisioning[l]]
    /\ UNCHANGED <<durable, job, route, recovering, crashes>>

(* Neither outcome looks at the line again before it is written. *)
ProvisionDone(l, who) ==
    /\ Up
    /\ who \in provisioning[l]
    /\ provisioning' = [provisioning EXCEPT ![l] = @ \ {who}]
    /\ Reconcile(l[1], wf[l[1]], status,
                 [line EXCEPT ![l].status = "active", ![l].checkout = TRUE], outcome)
    /\ Wake
    /\ UNCHANGED <<lease, candidate, stage, outcome, current, job, route, recovering,
                   moved, crashes>>

(* The line was found checked out at its recorded head. *)
ProvisionReturns(l, who) ==
    /\ Up
    /\ who \in provisioning[l]
    /\ line[l].checkout
    /\ provisioning' = [provisioning EXCEPT ![l] = @ \ {who}]
    /\ UNCHANGED <<durable, job, route, pump, recovering, crashes>>

ProvisionFails(l, who) ==
    /\ Up
    /\ who \in provisioning[l]
    /\ provisioning' = [provisioning EXCEPT ![l] = @ \ {who}]
    /\ Reconcile(l[1], wf[l[1]], status, [line EXCEPT ![l].status = "failed"], outcome)
    /\ Wake
    /\ UNCHANGED <<lease, candidate, stage, outcome, current, job, route, recovering,
                   moved, crashes>>

-----------------------------------------------------------------------------
(* The dispatcher pump.                                                    *)

FoundWaiting(e) ==  \* mutant: what waits for a human is found again
    {x \in X : ExecOf(x) = e /\ status'[x] \in {"queued", "awaiting_human"}}
Found(e) == {x \in X : ExecOf(x) = e /\ status'[x] = "queued"}
PumpPass(e) ==
    LET found == Found(e)
    IN  /\ Up
        /\ pump[e] = "looping"
        /\ \A x \in X : ExecOf(x) = e => job[x] = "idle"
        /\ \A l \in Lines : l[1] = e => "pump" \notin provisioning[l]
        /\ IF wf[e] = "running"
           THEN /\ Reconcile(e, "running", status, line, outcome)
                /\ job' = [x \in X |-> IF x \in found THEN "seen" ELSE job[x]]
                /\ pump' = [f \in Execs |-> IF f # e THEN Woken(f, {})
                                            ELSE IF found = {} THEN "closing" ELSE "looping"]
           ELSE /\ pump' = [pump EXCEPT ![e] = "closing"]
                /\ UNCHANGED <<wf, status, line, job>>
        /\ UNCHANGED <<lease, candidate, stage, outcome, current, route, provisioning,
                       recovering, moved, crashes>>

AllCompleted(e) == \A x \in CurrentExecutions(status, e) : status[x] = "completed"

(* A pump that finds nothing queued finalizes the workflow, if it can.     *)
PumpClose(e) ==
    /\ Up
    /\ pump[e] = "closing"
    /\ pump' = [pump EXCEPT ![e] = IF wf[e] = "running" /\ AllCompleted(e)
                                   THEN "finalizing" ELSE "idle"]
    /\ UNCHANGED <<durable, job, route, provisioning, recovering, crashes>>

(* The last mutation of finalizeWorkflowExecution: it completes the        *)
(* workflow, records that the context projection failed, or throws.        *)
Finalize(e, projected) ==
    /\ Up
    /\ pump[e] = "finalizing"
    /\ wf' = [wf EXCEPT ![e] = IF projected /\ @ = "running" /\ AllCompleted(e)
                               THEN "completed" ELSE @]
    /\ pump' = [f \in Execs |-> IF f = e THEN "idle"
                                ELSE IF wf[e] = "running" THEN Woken(f, {}) ELSE pump[f]]
    /\ UNCHANGED <<status, lease, candidate, stage, line, outcome, current, job, route,
                   provisioning, recovering, moved, crashes>>

-----------------------------------------------------------------------------
(* executeQueuedTask: one job per task execution a pass found queued.      *)

Move(x, from, to) == job[x] = from /\ job' = [job EXCEPT ![x] = to]

(* synchronizeTaskExecutionRepositoryLine: before its first task a line    *)
(* that serves a pinned upstream hand-off is moved onto that SHA.  The     *)
(* line is read and verified, the checkout switched, and the record        *)
(* written, one after the other; a writer that comes second puts the       *)
(* checkout back.                                                          *)
AtHead(l) == moved[l] = line[l].based
NeedsBase(x) ==
    /\ TaskOf(x) \in Inherits
    /\ line[LineOf(x)].status # "none"
    /\ ~line[LineOf(x)].based
CanRebase(x) ==
    LET l == LineOf(x)
    IN  /\ line[l].status = "active"
        /\ line[l].checkout
        /\ line[l].writer = None
        /\ \A y \in X : (LineOf(y) = l /\ Kind(y) # "manual") => status[y] # "completed"
        /\ AtHead(l)
RecordBase(l) ==
    IF line[l].based
    THEN moved' = [moved EXCEPT ![l] = FALSE] /\ UNCHANGED <<wf, status, line, pump>>
    ELSE /\ Reconcile(l[1], wf[l[1]], status, [line EXCEPT ![l].based = TRUE], outcome)
         /\ Wake
         /\ UNCHANGED moved

SyncStart(x) ==
    /\ Up
    /\ NeedsBase(x)
    /\ Move(x, "seen", IF CanRebase(x) THEN "syncing" ELSE "deterministic")
    /\ UNCHANGED <<durable, route, provisioning, pump, recovering, crashes>>

SyncSwitch(x) ==
    /\ Up
    /\ Move(x, "syncing", "switched")
    /\ moved' = [moved EXCEPT ![LineOf(x)] = TRUE]
    /\ UNCHANGED <<wf, status, lease, candidate, stage, line, outcome, current, route,
                   provisioning, pump, recovering, crashes>>

SyncDone(x) ==
    /\ Up
    /\ Move(x, "switched", IF line[LineOf(x)].based THEN "deterministic" ELSE "seen")
    /\ RecordBase(LineOf(x))
    /\ UNCHANGED <<lease, candidate, stage, outcome, current, route, provisioning,
                   recovering, crashes>>

(* The status is read here; the kinds that go on to claim act on it later. *)
Look(x) ==
    /\ Up
    /\ ~NeedsBase(x)
    /\ \/ status[x] # "queued" /\ Move(x, "seen", "idle")
       \/ /\ status[x] = "queued"
          /\ Kind(x) \in NodeRunKinds \cup {"repository_verify"}
          /\ Move(x, "seen", "claiming")
    /\ UNCHANGED <<durable, route, provisioning, pump, recovering, crashes>>

ManualCheckpoint(x) ==
    /\ Up
    /\ ~NeedsBase(x)
    /\ Kind(x) = "manual"
    /\ status[x] = "queued"
    /\ AtHead(LineOf(x))
    /\ Move(x, "seen", "idle")
    /\ Reconcile(ExecOf(x), wf[ExecOf(x)], [status EXCEPT ![x] = "awaiting_human"], line, outcome)
    /\ Wake
    /\ UNCHANGED <<lease, candidate, stage, outcome, current, route, provisioning,
                   recovering, moved, crashes>>

(* prepareRepositoryIntegration opens the pull request intent. *)
PrepareIntegration(x) ==
    /\ Up
    /\ ~NeedsBase(x)
    /\ Kind(x) = "repository_integrate"
    /\ status[x] = "queued"
    /\ AtHead(LineOf(x))
    /\ line[LineOf(x)].status = "active"
    /\ line[LineOf(x)].checkout
    /\ Move(x, "seen", "idle")
    /\ Reconcile(ExecOf(x), wf[ExecOf(x)], [status EXCEPT ![x] = "awaiting_human"],
                 [line EXCEPT ![LineOf(x)].status = "integrating"], outcome)
    /\ Wake
    /\ UNCHANGED <<lease, candidate, stage, outcome, current, route, provisioning,
                   recovering, moved, crashes>>

Claim(x) ==
    /\ Up
    /\ status[x] \in {"queued", "running"}
    /\ AtHead(LineOf(x))
    /\ Move(x, "claiming", "claimed")
    /\ status' = [status EXCEPT ![x] = "running"]
    /\ lease' = [lease EXCEPT ![x] = "live"]
    /\ UNCHANGED <<wf, candidate, stage, line, outcome, current, route, provisioning,
                   recovering, moved, crashes>>
    /\ Wake

(* A step of the job throws: a lost guard, a checkout that moved, an input *)
(* that fails its integrity check, a network error, an aborted runner.     *)
DispatchThrows(x, class) ==
    /\ Up
    /\ job[x] \in {"seen", "syncing", "claiming", "claimed", "aborted"}
    /\ job' = [job EXCEPT ![x] = class]
    /\ UNCHANGED <<durable, route, provisioning, pump, recovering, crashes>>

HoldsLease(x) == lease[x] = "live" /\ status[x] \in {"running", "verifying"}

(* runRepositoryVerification: the commands run inside the mutation.        *)
SubmitVerification(x) ==
    /\ Up
    /\ Kind(x) = "repository_verify"
    /\ HoldsLease(x)
    /\ AtHead(LineOf(x))
    /\ Move(x, "claimed", "idle")
    /\ Deliver(x, line)
    /\ Wake
    /\ UNCHANGED <<stage, current, route, provisioning, recovering,
                   moved, crashes>>

(* prepareNodeRun *)
CanRun(x) == /\ Kind(x) \in NodeRunKinds
             /\ HoldsLease(x)
             /\ status[x] = "running"
             /\ wf[ExecOf(x)] \in ActiveWorkflow

PrepareRun(x) ==
    /\ Up
    /\ CanRun(x)
    /\ Move(x, "claimed", "running")
    /\ UNCHANGED <<durable, route, provisioning, recovering, crashes>>
    /\ Wake

Checkpointed(x, s) ==
    stage' = IF TaskOf(x) \in Replayable THEN [stage EXCEPT ![x] = s] ELSE stage

PreflightFails(x, class) ==
    /\ Up
    /\ CanRun(x)
    /\ Move(x, "claimed", class)
    /\ status' = [status EXCEPT ![x] = "failed"]
    /\ lease' = [lease EXCEPT ![x] = "none"]
    /\ line' = Released(line, x)
    /\ Checkpointed(x, "early")
    /\ UNCHANGED <<wf, candidate, outcome, current, route, provisioning, recovering,
                   moved, crashes>>
    /\ Wake

(* finalizeNodeRunInState checks the status, not the lease or the workflow. *)
RunSucceeds(x) ==
    /\ Up
    /\ status[x] \in {"running", "verifying"}
    /\ Kind(x) = "assist" => AtHead(LineOf(x))
    /\ Move(x, "running", "idle")
    /\ Deliver(x, line)
    /\ Wake
    /\ UNCHANGED <<stage, current, route, provisioning, recovering,
                   moved, crashes>>

(* failNodeRun; the error then reaches executeQueuedTask. *)
RunFails(x, class, s) ==
    /\ Up
    /\ Move(x, "running", class)
    /\ Checkpointed(x, s)
    /\ IF status[x] \in Failable
       THEN FailAndReconcile(x)
       ELSE UNCHANGED <<wf, status, lease, line>>
    /\ Wake
    /\ UNCHANGED <<candidate, outcome, current, route, provisioning, recovering,
                   moved, crashes>>

(* cancelRunInState marks the NodeRun; its task execution is left alone.   *)
CancelRun(x) ==
    /\ Up
    /\ Move(x, "running", "aborted")
    /\ UNCHANGED <<durable, route, provisioning, recovering, crashes>>
    /\ Wake

(* completeNodeRun finds the run cancelled and returns. *)
RunReturns(x) ==
    /\ Up
    /\ Move(x, "aborted", "idle")
    /\ UNCHANGED <<durable, route, provisioning, pump, recovering, crashes>>

(* recordDispatchFailure *)
RecordedAlways == TaskStatus  \* mutant: a late failure is always recorded
Recorded == Failable \cup {"failed"}
RecordFailure(x) ==
    LET again == job[x] = "transient" /\ RetriesLeft(x) /\ wf[ExecOf(x)] = "running"
    IN  /\ Up
        /\ job[x] \in RetryClass
        /\ job' = [job EXCEPT ![x] = "idle"]
        /\ CASE status[x] \notin Recorded ->
                    UNCHANGED <<wf, status, lease, line, pump>>
             [] status[x] \in Recorded /\ again ->
                    CreateRetry(x, wf[ExecOf(x)], line) /\ Wake
             [] status[x] \in Recorded /\ ~again ->
                    FailAndReconcile(x) /\ Wake
        /\ UNCHANGED <<candidate, stage, outcome, current, route, provisioning,
                       recovering, moved, crashes>>

-----------------------------------------------------------------------------
(* Operator routes on a task execution.                                    *)

(* submitTaskExecutionOutputs with manual = true *)
ManualSubmit(x) ==
    /\ Up
    /\ Kind(x) \in ManualKinds
    /\ \/ status[x] \in {"queued", "running", "verifying"}
       \/ status[x] = "awaiting_human" /\ ~candidate[x]
    /\ status[x] = "queued" \/ Kind(x) = "assist" => AtHead(LineOf(x))
    /\ Deliver(x, line)
    /\ WakeAlso(x)
    /\ UNCHANGED <<stage, current, job, route, provisioning, recovering, moved, crashes>>

Approve(x) ==
    /\ Up
    /\ status[x] = "awaiting_human"
    /\ candidate[x]
    /\ Complete(x, line)
    /\ WakeAlso(x)
    /\ UNCHANGED <<stage, current, job, route, provisioning, recovering, moved, crashes>>

Reject(x) ==
    /\ Up
    /\ status[x] = "awaiting_human"
    /\ candidate[x] \/ TaskOf(x) \notin Reviewed
    /\ FailAndReconcile(x)
    /\ candidate' = [candidate EXCEPT ![x] = FALSE]
    /\ WakeAlso(x)
    /\ UNCHANGED <<stage, outcome, current, job, route, provisioning, recovering, moved, crashes>>

(* advanceRepositoryIntegration once GitHub has merged the pull request. *)
Merge(x) ==
    /\ Up
    /\ Kind(x) = "repository_integrate"
    /\ status[x] = "awaiting_human"
    /\ Deliver(x, [line EXCEPT ![LineOf(x)].status = "merged"])
    /\ Wake
    /\ UNCHANGED <<stage, current, job, route, provisioning, recovering, moved, crashes>>

(* retryTaskExecution synchronizes the line first. *)
RetrySyncStart(x) ==
    /\ Up
    /\ status[x] = "failed"
    /\ route[x] = "idle"
    /\ NeedsBase(x)
    /\ CanRebase(x)
    /\ route' = [route EXCEPT ![x] = "syncing"]
    /\ UNCHANGED <<durable, job, provisioning, pump, recovering, crashes>>

RetrySyncSwitch(x) ==
    /\ Up
    /\ route[x] = "syncing"
    /\ route' = [route EXCEPT ![x] = "switched"]
    /\ moved' = [moved EXCEPT ![LineOf(x)] = TRUE]
    /\ UNCHANGED <<wf, status, lease, candidate, stage, line, outcome, current, job,
                   provisioning, pump, recovering, crashes>>

RetrySyncDone(x) ==
    /\ Up
    /\ route[x] = "switched"
    /\ route' = [route EXCEPT ![x] = "idle"]
    /\ RecordBase(LineOf(x))
    /\ UNCHANGED <<lease, candidate, stage, outcome, current, job, provisioning,
                   recovering, crashes>>

Retry(x) ==
    /\ Up
    /\ status[x] = "failed"
    /\ route[x] = "idle"
    /\ ~NeedsBase(x)
    /\ CanReopen(ExecOf(x))
    /\ CreateRetry(x, Reopened(ExecOf(x)), line)
    /\ WakeAlso(x)
    /\ UNCHANGED <<candidate, stage, outcome, current, job, route, provisioning,
                   recovering, moved, crashes>>

(* replayTaskExecutionStage: the first mutation reopens the execution.  It *)
(* reserves no line, and for an early stage no handler takes over.         *)
ReplayBegin(x) ==
    LET e == ExecOf(x)
    IN  /\ Up
        /\ TaskOf(x) \in Replayable
        /\ status[x] = "failed"
        /\ stage[x] # "none"
        /\ CanReopen(e)
        /\ status' = [status EXCEPT ![x] = IF stage[x] = "late" THEN "verifying" ELSE "running"]
        /\ route[x] = "idle"
        /\ route' = [route EXCEPT ![x] = IF stage[x] = "late" THEN "replaying" ELSE @]
        /\ wf' = [wf EXCEPT ![e] = Reopened(e)]
        /\ Wake
        /\ UNCHANGED <<lease, candidate, stage, line, outcome, current, job, provisioning,
                       recovering, moved, crashes>>

ReplaySucceeds(x) ==
    /\ Up
    /\ route[x] = "replaying"
    /\ status[x] \in {"running", "verifying"}
    /\ route' = [route EXCEPT ![x] = "idle"]
    /\ Deliver(x, line)
    /\ WakeAlso(x)
    /\ UNCHANGED <<stage, current, job, provisioning, recovering, moved, crashes>>

(* The catch block assigns the status without looking at it. *)
ReplayFails(x) ==
    /\ Up
    /\ route[x] = "replaying"
    /\ route' = [route EXCEPT ![x] = "idle"]
    /\ Reconcile(ExecOf(x), wf[ExecOf(x)], [status EXCEPT ![x] = "failed"], line, outcome)
    /\ Wake
    /\ UNCHANGED <<lease, candidate, stage, outcome, current, job, provisioning,
                   recovering, moved, crashes>>

-----------------------------------------------------------------------------
(* Time, crashes and the recovery a restart performs before it serves.     *)

LeaseExpires(x) ==
    /\ Up
    /\ lease[x] = "live"
    /\ lease' = [lease EXCEPT ![x] = "expired"]
    /\ UNCHANGED <<wf, status, candidate, stage, line, moved, outcome, current, volatile, crashes>>

Crash ==
    /\ Up
    /\ crashes < MaxCrashes
    /\ crashes' = crashes + 1
    /\ job' = [x \in X |-> "idle"]
    /\ route' = [x \in X |-> "idle"]
    /\ provisioning' = [l \in Lines |-> {}]
    /\ pump' = [e \in Execs |-> "idle"]
    /\ recovering' = {e \in Execs : wf[e] \in ActiveWorkflow}
    /\ UNCHANGED durable

(* recoverWorkflowExecutionsInState is one mutation; its loop is unrolled  *)
(* into steps that nothing else interleaves with while recovering # {}.    *)
InterruptedUnleased(e) ==  \* mutant: an expired lease counts as live
    {x \in CurrentExecutions(status, e) :
        status[x] \in {"running", "verifying"} /\ lease[x] = "none"}
Interrupted(e) == {x \in CurrentExecutions(status, e) :
                       status[x] \in {"running", "verifying"} /\ lease[x] # "live"}

RecoverTask(e, x) ==
    /\ e \in recovering
    /\ x \in Interrupted(e)
    /\ \A y \in Interrupted(e) : Order[TaskOf(x)] <= Order[TaskOf(y)]
    /\ IF RetriesLeft(x)
       THEN CreateRetry(x, wf[e], line)
       ELSE /\ status' = [status EXCEPT ![x] = "failed"]
            /\ lease' = [lease EXCEPT ![x] = "none"]
            /\ line' = Released(line, x)
            /\ UNCHANGED wf
    /\ Wake
    /\ UNCHANGED <<candidate, stage, outcome, current, job, route, provisioning,
                   recovering, moved, crashes>>

RecoverRunning(e) ==  \* mutant: a restart resumes a paused workflow's queue
    /\ e \in recovering
    /\ Interrupted(e) = {}
    /\ Reconcile(e, "running", status, line, outcome)
    /\ recovering' = recovering \ {e}
    /\ Wake
    /\ UNCHANGED <<lease, candidate, stage, outcome, current, job, route, provisioning,
                   moved, crashes>>
RecoverWorkflow(e) ==
    /\ e \in recovering
    /\ Interrupted(e) = {}
    /\ Reconcile(e, wf[e], status, line, outcome)
    /\ recovering' = recovering \ {e}
    /\ Wake
    /\ UNCHANGED <<lease, candidate, stage, outcome, current, job, route, provisioning,
                   moved, crashes>>

-----------------------------------------------------------------------------
PumpStep(e) == \/ PumpStart(e) \/ PumpPass(e) \/ PumpClose(e)
               \/ \E projected \in BOOLEAN : Finalize(e, projected)
ProvisionStep(l, who) ==
    ProvisionDone(l, who) \/ ProvisionReturns(l, who) \/ ProvisionFails(l, who)
JobStep(x) ==
    \/ SyncStart(x) \/ SyncSwitch(x) \/ SyncDone(x) \/ Look(x)
    \/ ManualCheckpoint(x) \/ PrepareIntegration(x) \/ Claim(x)
    \/ SubmitVerification(x) \/ PrepareRun(x) \/ RunSucceeds(x) \/ RunReturns(x)
    \/ RecordFailure(x)
    \/ \E class \in RetryClass :
        \/ DispatchThrows(x, class) \/ PreflightFails(x, class)
        \/ \E s \in {"early", "late"} : RunFails(x, class, s)
RouteStep(x) == \/ ReplaySucceeds(x) \/ ReplayFails(x)
                \/ RetrySyncSwitch(x) \/ RetrySyncDone(x)
RecoveryNext == \E e \in Execs : RecoverWorkflow(e) \/ \E x \in X : RecoverTask(e, x)
OperatorNext ==
    \/ EditPlan
    \/ \E e \in Execs : Create(e) \/ Pause(e) \/ Resume(e) \/ Cancel(e)
    \/ \E x \in X : \/ ManualSubmit(x) \/ Approve(x) \/ Reject(x) \/ Merge(x)
                    \/ Retry(x) \/ RetrySyncStart(x) \/ ReplayBegin(x) \/ CancelRun(x)
EnvironmentNext == Crash \/ \E x \in X : LeaseExpires(x)

Next == \/ \E e \in Execs : PumpStep(e)
        \/ \E l \in Lines, who \in Provisioner : ProvisionStep(l, who)
        \/ \E x \in X : JobStep(x) \/ RouteStep(x)
        \/ RecoveryNext \/ OperatorNext \/ EnvironmentNext

Spec == Init /\ [][Next]_vars
=============================================================================
