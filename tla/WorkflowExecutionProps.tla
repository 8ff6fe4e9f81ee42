----------------------- MODULE WorkflowExecutionProps -----------------------
(***************************************************************************)
(* What WorkflowExecution promises.                                        *)
(***************************************************************************)
EXTENDS WorkflowExecution

(* Every variable stays in its type.                                       *)
TypeOK ==
    /\ wf \in [Execs -> WorkflowStatus]
    /\ status \in [X -> TaskStatus]
    /\ lease \in [X -> Lease]
    /\ candidate \in [X -> BOOLEAN]
    /\ stage \in [X -> {"none", "early", "late"}]
    /\ line \in [Lines -> Line]
    /\ moved \in [Lines -> BOOLEAN]
    /\ outcome \in [Lines -> BOOLEAN]
    /\ current \in [Execs -> BOOLEAN]
    /\ job \in [X -> Job]
    /\ route \in [X -> Route]
    /\ provisioning \in [Lines -> SUBSET Provisioner]
    /\ pump \in [Execs -> Pump]
    /\ recovering \in SUBSET Execs
    /\ crashes \in 0..MaxCrashes

-----------------------------------------------------------------------------
(* Safety of the executions.                                               *)

(* At most one repository_change of a line is queued, running or           *)
(* verifying: the reservation made by queueing, kept through claims,       *)
(* reviews and retries, dropped by cancellations and failures, is a lock.  *)
WritesSerial ==
    \A x, y \in X :
        /\ Kind(x) = "repository_change" /\ status[x] \in Occupying
        /\ Kind(y) = "repository_change" /\ status[y] \in Occupying
        /\ LineOf(x) = LineOf(y)
        => x = y

(* active_writer_execution_id names exactly the change in progress on the  *)
(* line, one that waits for its review included: a reservation is neither  *)
(* lost by a crash, a retry or a cancellation nor left behind by one.      *)
WriterReserved ==
    /\ \A l \in Lines : line[l].writer # None =>
           /\ LineOf(line[l].writer) = l
           /\ Kind(line[l].writer) = "repository_change"
           /\ status[line[l].writer] \in Failable
    /\ \A x \in X : (Kind(x) = "repository_change" /\ status[x] \in Failable)
           => line[LineOf(x)].writer = x

(* The attempts of a task form a chain: all superseded but the last, with  *)
(* no gap, so that the newest attempt is the only one that can move, even  *)
(* when a late dispatcher job, an operator and a restart retry it at once. *)
OneLiveAttempt ==
    \A e \in Execs, t \in Tasks : wf[e] # "absent" =>
        \E n \in Attempts :
            /\ status[<<e, t, n>>] \notin {"absent", "superseded"}
            /\ \A m \in Attempts : m < n => status[<<e, t, m>>] = "superseded"
            /\ \A m \in Attempts : m > n => status[<<e, t, m>>] = "absent"

(* A task that was queued or finished still has everything it waited for:  *)
(* readiness is checked once, when the task is queued, and nothing undoes  *)
(* it afterwards.                                                          *)
DependencyOrder ==
    \A x \in X : status[x] \in Failable \cup {"completed"} =>
        /\ DependenciesDone(status, x)
        /\ \A u \in StreamDep[Stream[TaskOf(x)]] : outcome[<<ExecOf(x), u>>]
        /\ SiblingsDone(status, x)

(* A workflow is failed only when none of its tasks can move, and          *)
(* completed only when all of them are.                                    *)
SettledWorkflow ==
    \A e \in Execs :
        /\ wf[e] = "failed" => \A x \in CurrentExecutions(status, e) : status[x] \in Terminal
        /\ wf[e] = "completed" => AllCompleted(e)

(* A hand-off that dependants may have consumed stays backed by completed  *)
(* tasks (ensureCompletedWorkstreamOutcomesInState creates it only once).  *)
HandoffComplete ==
    \A l \in Lines : outcome[l] =>
        \A x \in CurrentExecutions(status, l[1]) : LineOf(x) = l => status[x] = "completed"

(* At most one execution of a workflow is running or paused, and it is of  *)
(* the workflow's present revision: creation, the reopening of a failed    *)
(* execution and graph edits exclude each other.                           *)
OneActiveExecution ==
    \A e, f \in Execs : /\ wf[e] \in ActiveWorkflow => current[e]
                        /\ wf[e] \in ActiveWorkflow /\ wf[f] \in ActiveWorkflow => e = f

-----------------------------------------------------------------------------
(* What a step may never do.                                               *)

(* A completed, cancelled or superseded execution is left as it is, but    *)
(* for being superseded: the late result of a job changes nothing          *)
(* (TRANSITIONS in workflow-execution-domain.mjs).                         *)
SettledIsFinal ==
    [][\A x \in X : status[x] \in {"completed", "cancelled", "superseded"}
            => status'[x] \in {status[x], "superseded"}]_vars

(* Nothing is queued in a paused workflow until the operator resumes it:   *)
(* not by a task that completes, a line that gets its checkout, a pump     *)
(* that is still closing, a retry or a restart.                            *)
PauseHolds ==
    [][\A x \in X :
            (wf[ExecOf(x)] = "paused" /\ status[x] # "queued" /\ status'[x] = "queued")
                => Resume(ExecOf(x))]_vars

(* The dispatcher and the recovery of a restart between them create at     *)
(* most the second attempt of a task; a third one is an operator's.        *)
AutomaticRetryOnce ==
    [][(job' # job \/ ~Up) =>
        \A x \in X : AttemptOf(x) > 2 /\ ~Exists(status, x) => ~Exists(status', x)]_vars

(* A restart serves only after every execution of an active workflow that  *)
(* was in progress without a valid lease has been failed or retried.       *)
RecoveryComplete ==
    [][(~Up /\ recovering' = {}) =>
        \A x \in X : (wf'[ExecOf(x)] \in ActiveWorkflow /\ status'[x] \in {"running", "verifying"})
                         => lease'[x] = "live"]_vars

-----------------------------------------------------------------------------
(* Fairness.  A pump and its jobs are promises the event loop resumes; a   *)
(* git command and a runner end, by themselves or by their timeout; a      *)
(* route that began goes on; a restart recovers before it serves.  An      *)
(* operator, a lease or a crash owes nothing.                              *)
Fairness ==
    /\ \A e \in Execs : WF_vars(PumpStep(e))
    /\ \A l \in Lines, who \in Provisioner : WF_vars(ProvisionStep(l, who))
    /\ \A x \in X : WF_vars(JobStep(x)) /\ WF_vars(RouteStep(x))
    /\ WF_vars(RecoveryNext)
FairSpec == Spec /\ Fairness

(* A pump that was scheduled comes to rest: no pass waits for ever for a   *)
(* job, and failing, retrying and finalizing do not chase each other.      *)
PumpReturns == \A e \in Execs : pump[e] = "scheduled" ~> pump[e] = "idle"
=============================================================================
