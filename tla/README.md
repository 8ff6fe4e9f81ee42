# A TLA+ verification of AI Workspace System V2.2

The repository is a self-hosted workspace in which AI runners and humans work
through a *verified workflow*: a graph of workstreams and tasks that the service
executes durably, one repository line per workstream, surviving crashes, pauses,
retries, late results and human reviews. This directory holds TLA+ modules
translated from that code, the TLC configurations that model-check them, and
theorems about them checked by TLAPS.

All paths below are relative to the repository; `api/` abbreviates
`apps/api/src/`.

- [1. The system](#1-the-system)
- [2. The modules and how they correspond to the code](#2-the-modules-and-how-they-correspond-to-the-code)
- [3. What is abstracted](#3-what-is-abstracted)
- [4. The properties](#4-the-properties)
- [5. The runs](#5-the-runs)
- [6. Disagreements between the code and what the repository says](#6-disagreements-between-the-code-and-what-the-repository-says)
- [7. The proofs](#7-the-proofs)
- [8. What is not modelled](#8-what-is-not-modelled)
- [9. The plan](#9-the-plan)
- [10. Running the checks](#10-running-the-checks)

## 1. The system

One Node process serves an HTTP API and keeps all authoritative state in one
document (SQLite in a worker thread). Every change of it is a *mutation*:
`mutate(fn)` queues `fn`, runs it on a draft, and commits the draft or, when `fn`
throws, nothing. Everything else is asynchronous: dispatcher pumps, jobs that run
containers and git commands, a projector that renders documents in the background,
calls to GitHub, routes that await a verifier between two mutations. So the state
itself is never torn; what is hard is everything that is *remembered across* two
mutations while other handlers commit theirs. Around the process stand a start that
turns a directory of the previous release into the database, and a script that
replaces the previous release's containers and volume by this one's.

| component | state it keeps | operations | interacts with | what makes it correct |
|---|---|---|---|---|
| **Workflow execution domain** `api/workflow-execution-domain.mjs`, `-support`, `-readiness`, `-status` | `workflow_executions[].status`, `task_executions[]` (status, lease, attempt), the writer of a line | create, reconcile (readiness, queueing, projection of the workflow's status), claim, complete, fail, retry, pause, resume, cancel | called inside every mutation below | dependencies hold when a task is queued and afterwards; queue capacity; a line has one writer; attempts form a chain; terminal is terminal |
| **Workflow dispatcher** `api/workflow-dispatcher.mjs` | one in-memory pump per execution, one job per queued task | schedule, pass, execute a queued task, record a failure | woken by every commit; runs the NodeRun driver, verifier, line service; calls finalization | it returns; it forgets no task; its late failure record harms nobody |
| **Task execution service** `api/task-execution-service.mjs`, `routes/workflow-executions-v110.mjs` | (shares the domain's) | submit, approve, reject, retry, recovery at start | operator, runner, restart | guards reread the state; recovery leaves nothing in progress without a lease |
| **NodeRun driver** `api/routes/runs.mjs`, `api/run-failure-support.mjs`, `api/handlers/runners.mjs` | NodeRuns, in-flight runner promises | prepare, preflight, complete, fail, cancel | dispatcher job, domain | a run's end reaches the task execution exactly once |
| **Repository lines** `api/repository-line-service.mjs` | line status, checkout, head; a git worktree on disk | provision, synchronize to a hand-off, verify the head | start route and pump concurrently | record and checkout agree; one switch at a time |
| **Stage replay** `api/execution-replay-service.mjs`, `api/execution-stage-service.mjs` | stage checkpoints of a task execution | replay of the failed stage | two mutations around a verifier | a replay overwrites nothing that moved on meanwhile |
| **Outputs, hand-offs** `api/asset-output-ingestion.mjs`, `api/workstream-outcome-service.mjs` | output candidates, workstream outcomes | deliver, confirm, hand over | domain | a hand-off stays backed by completed tasks |
| **Finalization** `api/workflow-finalization-service.mjs` | workflow status, completion | finalize | pump, context projection | completes only a workflow whose tasks are all completed |
| **Integration and PR intents** `api/repository-integration-service.mjs`, `-recovery`, `api/pull-request-intent-*.mjs`, `api/routes/github-webhook-v12.mjs` | one intent per line: status, revision, approvals, checks, PR number | propose, approve, create, merge, refresh, fail, revoke, reconcile, webhook, integrate | GitHub, dispatcher pump, operators, restart | two approvals and a merge before completion; an approved merge reaches the task; no intent waits for a call that is gone |
| **Graph and replan** `api/workflow-graph-service.mjs` | workflow revisions | edit | domain | no edit under an active execution |
| **State store** `api/state.mjs`, `api/state-store.mjs`, `api/state-store-worker.mjs` | the database, its revision, the snapshot cache, the promise chain, pending requests | read, mutate, replace, drain, close; worker death | everything | writes are serial; confirmed is durable; refused never applies later; every caller is answered |
| **State bootstrap** `api/state-runtime-v22.mjs`, `api/state-store-worker.mjs` | `state.json`, its temporary file, the database and its candidates, backups | recover, import, install, back up, commit the sentinel | start, previous release | the old state gives way only to a complete copy of itself |
| **Context projection** `api/context-projector-coordinator.mjs`, `api/context-projection*.mjs`, `packages/system-context/` | projection jobs, leases, generations, versions | stage, claim, render, finalize, project inline, stop, recover | state store, every commit | no source forgotten, no finished job redone, every source shown in the end |
| **Shutdown** `api/shutdown-coordinator.mjs` | draining flag, one promise | graceful shutdown under a timeout | all of the above | nothing durable is lost by an exit |
| **Release cutover** `docker/v22-upgrade.mjs`, `docker/release-volume-v22.mjs` | two volumes, two containers, a transcript | decide, wait, stop, copy, verify, migrate, accept, start, restore | both releases at work, the operator | copies at rest; only accepted targets serve; a failure restores what served |
| Delivery and deletion intents, assist sessions and change batches, asset CAS and attestations, host bridge, MCP gateway, runner adapters, authorization, web client, earlier cutovers | | | | see section 8 |

The behaviours that are hard here, and hardly reached by the repository's tests:

- the **dispatcher's job records a failure in a later mutation** than the one that
  failed, while an operator may retry, submit, approve or cancel the same task;
- **readiness is decided once**, when a task is queued, and its premises go on living;
- the **writer reservation** of a line is taken by queueing and released by six
  different terminal paths, and a crash may fall between any two;
- **three retry authorities** (dispatcher, operator, restart) act on one failed attempt;
- a **pump that is closing** is still registered, and is not scheduled again;
- **three-step git protocols** (read, switch, record) run concurrently on one checkout;
- a **replay** awaits a verifier between two mutations and decides before it what it
  writes after it;
- a **worker thread dies** with requests queued, served or answered, and a commit may be
  durable though its caller was refused;
- a **start is killed** between any two file operations, and the previous release writes
  the same files before the next one;
- a **rendering is recorded later** than the source it read: the source, the lease and
  the job may have changed;
- a **call to GitHub** stands between two mutations, and webhooks, reconciliations,
  revocations and people on GitHub act in between;
- an **upgrade** looks at executions, then stops containers, then copies, and every
  failure goes through one catch block.

`PROJECT.json` lists each hazard at the line where it bites, with the properties that
would catch it.

## 2. The modules and how they correspond to the code

| module | what it is |
|---|---|
| `WorkflowExecution` | the execution core: domain, dispatcher, NodeRun driver, operator routes, lines, replay, crash and recovery, for one workflow with any number of executions |
| `WorkflowExecutionProps` | its type invariant, safety invariants, action properties, fairness and liveness, and the statements a run refutes |
| `MCWorkflowExecution` | the plans TLC checks it on |
| `WorkflowExecutionProofs` | proofs: type correctness, exclusion of active executions |
| `WorkflowExecutionWriters` | proofs: the writer reservation is a lock |
| `WorkflowExecutionHistory` | proofs: chains of attempts, dependencies, hand-offs, finished workflows, settled executions, recovery, pauses, retries |
| `SerialStore` | what the state store promises: one value, writes confirmed, skipped or failed |
| `StateStore` | the store's two threads in every process that opens the database; implements `SerialStore` |
| `StateBootstrap` | the file operations of a start, killed anywhere |
| `ReleaseUpgrade` | the cutover script, the two releases it replaces one by the other, failing commands and kills |
| `ContextProjector` | projection jobs, the background tick, inline projection, stop, crash and start |
| `PullRequestIntent` | one intent, the calls at it, GitHub and its webhooks, the integration task |
| `MCStateStore`, `MCStateBootstrap`, `MCReleaseUpgrade`, `MCContextProjector`, `MCPullRequestIntent` | the instances TLC checks |
| `PullRequestIntentProofs` | proofs: all safety properties of `PullRequestIntent` that hold |
| `ContextProjectorProofs` | proofs: all safety properties of `ContextProjector` |
| `StateBootstrapProofs` | proofs: all properties of `StateBootstrap` |
| `ReleaseUpgradeProofs` | proofs: all properties of `ReleaseUpgrade` that hold |
| `StateStoreProofs` | proofs: type correctness, no conflicts, the snapshot cache, and that `StateStore` implements `SerialStore` |

How they fit together: `WorkflowExecution` takes one mutation as one atomic step, which
is what `StateStore` shows of the store (`SerialSpec`); a crash loses exactly the memory
of the process, in both. `PullRequestIntent` details `WorkflowExecution`'s `Merge`: the
step by which the integration task completes is its `Integrate`. `ContextProjector`
builds on the same transactions (its `Change` is part of every commit). The database
that `StateStore` starts from is the one `StateBootstrap` installs, and the container
that `ReleaseUpgrade` starts runs that start on the migrated volume.

### WorkflowExecution: state

| variable | code |
|---|---|
| `wf[e]`, `status[x]`, `lease[x]` | `workflow_executions[].status`, `task_executions[].status`, `.lease` (compared with the clock: live or expired) |
| `candidate[x]` | output bindings of `x` that wait for a human |
| `stage[x]` | the failed stage checkpoint of `x`: before (`early`) or after (`late`) the runner's result is persisted |
| `line[l]` | `repository_lines[]`: status, whether it has a checkout, whether it stands on the hand-off it inherits (`based`), `active_writer_execution_id` (`writer`) |
| `moved[l]` | on disk: HEAD of the checkout, old base or new |
| `outcome[l]` | a workstream outcome asset exists |
| `current[e]` | the workflow still has the revision `e` was created for |
| `job[x]`, `route[x]`, `provisioning[l]`, `pump[e]` | promises in the process's memory: where a handler stands between two mutations |
| `recovering` | active executions a starting process has not recovered yet |

A task execution `x` is `<<execution, task, attempt>>`; the current one of a task is
its newest attempt (`latestExecutionForTask`). A line is `<<execution, workstream>>`.

### WorkflowExecution: actions

Each mutation is one action; a handler of several mutations is several actions.

| actions | code |
|---|---|
| `Create`, `Pause`, `Resume`, `Cancel` | `createWorkflowExecutionInState`, `pause-`, `resume-`, `cancelWorkflowExecutionInState` and their routes |
| `Reconcile` (an operator, part of the others) | `reconcileWorkflowExecutionInState`: readiness in task order, queueing within capacity, reservation of lines, projection of the workflow's status |
| `EditPlan` | the refusal in `workflow-graph-service.mjs` and the new revision otherwise |
| `PumpStart`, `PumpPass`, `PumpClose`, `Finalize` | `scheduleWorkflowExecution`, `dispatchWorkflowExecution`, `finalizeWorkflowExecution` |
| `ProvisionDone`, `ProvisionReturns`, `ProvisionFails` | `provisionRepositoryLine`, by the start route and by the pump |
| `SyncStart`, `SyncSwitch`, `SyncDone` | `synchronizeRepositoryLineDependencyBase` inside a job |
| `Look`, `ManualCheckpoint`, `PrepareIntegration`, `Claim` | `executeQueuedTask` up to the claim |
| `SubmitVerification` | `runRepositoryVerification` |
| `PrepareRun`, `PreflightFails`, `RunSucceeds`, `RunFails`, `CancelRun`, `RunReturns` | `prepareNodeRun`, `completeNodeRun`, `failNodeRun`, `cancelRunInState` |
| `DispatchThrows`, `RecordFailure` | the catch of `executeQueuedTask` and `recordDispatchFailure` |
| `ManualSubmit`, `Approve`, `Reject`, `Merge` | `submitTaskExecutionOutputs`, approve and reject, `advanceRepositoryIntegration` |
| `RetrySyncStart`, `RetrySyncSwitch`, `RetrySyncDone`, `Retry` | `retryTaskExecution` |
| `ReplayBegin`, `ReplaySucceeds`, `ReplayFails` | `replayTaskExecutionStage`, `replayPersistedResult` |
| `LeaseExpires`, `Crash`, `RecoverTask`, `RecoverWorkflow` | the clock, the process, `recoverWorkflowExecutionsInState` |

Every commit calls the dispatcher's listener; `Wake` is that call, conjoined to each
action that commits. `PROJECT.json` maps each definition to its lines.

### StateStore

| state | code |
|---|---|
| `db` | revision and rows of the SQLite file, shared by all processes; the rows are abstracted to the set of writes they show |
| `life`, `worker` | `initialized`, `closing` and the place in `ensureRuntime`, service or shutdown; whether the worker thread lives |
| `cache`, `queue` | `stateSnapshotCache`, `mutationQueue` |
| `phase`, `base`, `answer` | where an asynchronous call stands, the snapshot it drafted on, what its promise settled with |
| `inbox`, `outbox`, `checked` | messages between the threads; the worker between the revision check and `BEGIN` |

| actions | code |
|---|---|
| `Boot`, `Listen`, `Drain`, `Close`, `Exit` | `initializeStateStore`, the end of `ensureRuntime`, `checkpointAndCloseState`, `closeStateStore` |
| `Issue`, `Refresh`, `Draft`, `Read` | `mutate` and `writeState` before, between and after their requests; `readState` |
| `Receive` | the message handler, and what continues once the promise is settled: `Initialized`, `Revised`, `Fetched`, `Confirmed`, `Refused` |
| `Serve`, `Check`, `Commit`, `Rollback` | the worker's handlers; `apply` and `replace` compare revisions before their transaction |
| `WorkerDies`, `Crash` | `failPending` and the exit handler; the process is killed or its shutdown times out |

### StateBootstrap

`stateFile`, `tempFile`, `database`, `candidates` and `backups` are files; a file is its
kind (state, sentinel, torn) and the version of V2.1's state it holds. `RecoverTemp` is
`recoverManagedStateTemp`; `Prepare` is `prepareStateStoreInitialization`;
`RecoverDatabase`, `CreateTemp`, `FillTemp`, `CreateFails`, `InstallTemp` and `Open` are
the worker's `initialize`; `Backup`, `OpenSentinel`, `SyncSentinel` and `RenameSentinel`
are `commitState22Sentinel`. `Crash` may follow any of them, and `V21Runs` is the
previous release, which writes `state.json` by way of the same temporary file.

### ReleaseUpgrade

`source` and `target` are the two volumes, `v21` and `v22` the containers, `busy` the
executions in progress, `ctx` the `context` of a run, `transcript` the file it writes.
`Start` is `targetDisposition` with the two volume inspections before it; `Wait`, `Stop22`, `Stop21`, `Port`, `Reset`, `Extract`,
`Verify`, `Migrate`, `Accept`, `CheckReused`, `Up`, `Ready` and `Finish` are the steps of
`runV22Upgrade` in its order; `Fails`, `Restore` and `Record` are its catch block, `Kill`
a run that never reaches it. `Work21` and `Work22` are the releases at work and `Down`
the operator's `aiws.sh down`. `target.missed` is history: a run took the volume for
missing, and none has found and accepted it since.

### ContextProjector

`source` is each node's source hash and generation, `current` and `versions` its
projected versions (known by the hash they show), `jobs` the collection
`context_projection_jobs`, `tick` and `claimed` the memory of the coordinator. `Change`
is the part of a commit that stages and compacts jobs, `Prune` the retention of
versions; `ClaimJobs`, `Prepare` and `Finalize` are a tick; `Inline` is
`ensureContextProjection`; `Stop`, `Release`, `ReleaseFails` (the release is refused, and
`stop` swallows it), `Crash` and `Boot` are the process; `Elapse` is the clock. `lost` is
history: the claims that were committed but whose answer the process never got.

### PullRequestIntent

`intent` is the record, `task` and `line` the integration task and its line, `github` the
branch's newest request and the base, `hooks` undelivered webhooks, `call` the API calls
in progress. A call is `EnsureChecks`, `ApproveMerge` or `Prepare`, `CheckRefs`,
`OpenPull` or `ReadyPull`, `MergePull`, `Complete`, `Advance`, or one of the failures
`RequestFails`, `RefreshBase`, `Fail`; `ReadSnapshot` and `ApplySnapshot` are a
reconciliation. `Webhook`, `Resume` (the pump), `Restart`, `Revoke` and `Expire` act
beside them, and `ByHand` is what people and CI do on GitHub.

### In every module

Operators named `...Beside`, `...Early`, `...Not` and so on that are marked
`\* mutant` are wrong variants of the definition that follows them; nothing uses them.
They document which slip of the code each property would notice.

## 3. What is abstracted

- Contents of outputs, contracts, commits and contexts are left out. A SHA is old base
  or hand-off; the hand-off's SHA is taken to differ from the base the line was created on.
- External work (a runner, a verifier, GitHub, git) succeeds, fails transiently, fails
  deterministically or is aborted, as a choice.
- One route at a time works on one task execution between its mutations.
- Human slots are those of context v5, whose manual submissions await review like any other.
- `Merge` stands for both callers of `advanceRepositoryIntegration`, the route and the
  pump's `resumeMergedIntegrations`.
- The pass limit of a pump (1000 passes) is left out: no run comes near it.
- `verifying` is set and left within one mutation outside of replays, so only a replay shows it.
- Recovery is one mutation in the code. Its loop is unrolled into one step per task, and
  nothing, not even the clock, interleaves with the steps: every other action is guarded
  by `Up`. So it can be read as the one mutation.
- A crash is possible at every step outside of recovery; a crash *in* recovery commits
  nothing and is the restart beginning again. A graceful shutdown that runs into its 30 s
  timeout is such a crash too.
- Left out: replay of the finalize stage, recovery of partial repository results,
  enrolment of legacy retries and continuation tasks, `reopenRepositoryIntegration`,
  the recheck of a line that is already checked out.

- **StateStore**: the state is the set of writes it shows, a replacement writes the whole
  set it drafted on. `ensureRuntime`'s `readState` and `writeState` are one call, since
  nothing else of the process writes before it ends. An answer of the worker is a message;
  its loss is the death of the worker.
- **StateBootstrap**: importing is a function of the version found; a torn temporary file
  is any prefix. Backup and manifest are one step: their names carry a time stamp, so that
  a torn one is never met again. The refusals `state_json_invalid` and
`state_database_missing_for_sentinel` are left out: they write nothing. Of several
recoverable candidates the worker takes none, the model any; it never has more than one.
- **ReleaseUpgrade**: the data of V2.1 are the number of its commits. A failing command
  fails before it did anything, and what the code makes of the failure is modelled: a
  `docker volume inspect` that fails says that there is no such volume. The catch block's
  own `compose down` and `docker start` succeed. The archive between the volumes is part of `Extract`.
- **ContextProjector**: a version's content is a function of its source, so the document
  itself is left out; a batch takes every claimable job; the index is left out. A release
  that fails is refused before it had an effect.
- **PullRequestIntent**: the line's head does not move while it is integrated, so the base
  stands for the snapshot hash. A request begins with the transaction that accepts it,
  since one that is refused changes nothing. An integration's own output needs no human
  approval. A request to GitHub that fails is uncertain (`Unanswered`: no answer, or a 5xx) or
  refused (`Refused`: 401, 403, 404, 409, 422); a merge that GitHub does not make is
  answered 405. Consecutive reads are one step: `readState` and the read of the ref in
  `CheckRefs`, and the read of the request, that of its checks and marking it ready in
  `ReadyPull`. The checks of a head are one check: `items` is the verdict of the items that
  are recorded, `checks` their recorded sum. Left out are the `status` webhook, which does
  what `check_suite` does, a reconciliation's change of the draft flag or the remote SHAs
  alone, which raises the revision too, the refusal of `recoverMergedIntentChecks` when the
  checks have not passed (`MayIntegrate` is the more permissive), and
  `reopenRepositoryIntegration`.

Assumptions on the constants are named and TLC evaluates them in every run:
in `WorkflowExecution` `ShapeAssumption` (the plan is a graph as `workflow-graph-validation.mjs` admits it; task
order is injective), `ReplayAssumption`, `BoundAssumption`, `NoneAssumption`;
`CallsAssumption`, `BootstrapAssumption`, `UpgradeAssumption`, `ProjectorAssumption` and
`PullRequestAssumption` in the others.

## 4. The properties

**WorkflowExecution**, invariants:

- **WritesSerial** - of the changes of one line, at most one is queued, running or verifying.
- **WriterReserved** - `active_writer_execution_id` names exactly the change in progress,
  one in review included: neither lost nor left behind.
- **OneLiveAttempt** - the attempts of a task are a chain without gaps, superseded but for
  the last, whoever retries.
- **DependencyOrder** - what was queued or finished *still* has all it waited for.
- **SettledWorkflow** - failed only when nothing can move, completed only when all is done.
- **HandoffComplete** - a consumed hand-off stays backed by completed tasks.
- **OneActiveExecution** - one active execution per workflow, of its present revision.

What a step may never do, and liveness:

- **SettledIsFinal** - a late job changes no completed, cancelled or superseded execution.
- **PauseHolds** - in a paused workflow only `Resume` queues anything.
- **AutomaticRetryOnce** - dispatcher and restarts together make at most one extra attempt.
- **RecoveryComplete** - when a restart begins to serve, whatever is in progress holds a
  valid lease.
- **PumpReturns** - a scheduled pump comes to rest.

**StateStore**:

- **SerialSpec** - the store implements `SerialStore` under `value <- db.val`: no confirmed
  write is lost by a crash or overwritten by a later one, and a refused one never takes
  effect afterwards. It says nothing of a refused write that took effect before the refusal
  was known, because such writes exist (section 6).
- **CacheIsHead** - the snapshot given out without asking the database lags it only while
  the answer to a commit is on its way.
- **NoConflict** - with one writing process the revision check never fires: the promise
  chain alone keeps writes apart.
- **AllAnswered** - every call is settled in the end.

**StateBootstrap**: **SourceKept** (the old state gives way only to a database imported from
exactly it, with a backup), **CompleteDatabase** (no half-built one is installed),
**DatabaseKept** (none replaces another).

**ReleaseUpgrade**: **CopiedAtRest**, **ServesAccepted**, **IncompleteIsRecoverable** (what a
failed run leaves can be removed by the next), **ServedTargetKept** (what has served is
not, unless a run missed it, see section 6), **V21Restored** (a failing first cutover leaves V2.1 running).

**ContextProjector**: **StaleHasJob** (no source is forgotten), **DoneStaysDone** (a late
result finds nothing to redo, A-B-A included), **StopReleases** (a stop whose release commits
leaves no lease but on a job whose claim was never answered, whatever failed before),
**Projected** (every node shows its source in the end, or its job has failed as
often as it is tried).

**PullRequestIntent**: **ExecutingHasCall** (no intent waits for a call that is gone),
**CompletedIsMerged** (completion needs a merge on GitHub and both approvals),
**MergesApproved** (the service merges only on an approval for the base it found),
**MergedCompletes** (an approved merge with finished checks reaches the task, whoever merged).

### Fairness

Weak fairness, except where noted, of what runs by itself; the callbacks and operations it
awaits end because git commands, runners and requests have timeouts.

| module | fair | why |
|---|---|---|
| `WorkflowExecution` | each pump, provisioning, job, route that has begun, and recovery | the event loop resumes a promise whose operation ended; recovery runs before the server listens |
| `StateStore` | receiving, closing, exiting; the worker's serving and committing; each mutation's own steps | the two threads' event loops |
| `ContextProjector` | claim, prepare, finalize, release, boot, the clock | the interval timer ticks for ever; a supervisor restarts the service (`restart: unless-stopped`) |
| `PullRequestIntent` | each call received, the pump's look at merged intents; strongly, somebody's reconciliation | a request runs to its end; every commit wakes the pump; operators ask again until the intent says what GitHub says |

Operators who approve, leases, crashes, webhooks and people on GitHub owe nothing. The
reconciliation is strongly fair because calls in progress disable it again and again.

## 5. The runs

| run | instance | properties | what it shows |
|---|---|---|---|
| `line` | two independent changes and a manual checkpoint on one line, 3 attempts, 1 crash; 184 000 states | TypeOK, WritesSerial, WriterReserved, OneLiveAttempt, SettledWorkflow, SettledIsFinal, PauseHolds, AutomaticRetryOnce, RecoveryComplete | the reservation is a lock and attempts are a chain through pauses, cancellations, late jobs, retries by all three authorities, lease expiry and a crash |
| `review` | an assist with a reviewed output and a checkpoint after it, stage replays, no crash; 137 000 states, fair | PumpReturns | failing, retrying, reviewing, replaying and finalizing never chase each other in the pump |
| `handoff` | a change and an integration in one workstream, two verifiers in a second that inherits its merge; 292 000 states | DependencyOrder, HandoffComplete | readiness and hand-offs stay backed across merge, rebase, failures and retries |
| `plan` | two executions of a one-task workflow, edits, 1 crash; 160 000 states | OneActiveExecution | creation, reopening retries and edits exclude each other |
| `store` | the service with two mutations and the replacement of a start, the probe with a read, 2 starts, 1 fault; 292 000 states, fair | TypeOK, CacheIsHead, NoConflict, SerialSpec, AllAnswered | the store is one serial value, through the death of either thread at any message |
| `bootstrap` | all directories a start may find, 5 starts, 3 writes of V2.1; 6 000 states | TypeOK, SourceKept, CompleteDatabase, DatabaseKept | nothing of the old state is lost wherever a start is killed |
| `upgrade` | 4 runs, 3 failing commands, 1 kill, 2 commits of V2.1; 63 500 states | TypeOK, CopiedAtRest, ServesAccepted, IncompleteIsRecoverable, V21Restored, ServedTargetKept | the cutover may fail or be killed anywhere and be run again |
| `projector` | 2 nodes, 2 contents, 2 changes, 2 starts, 1 fault; 389 000 states, fair | TypeOK, StaleHasJob, DoneStaysDone, StopReleases, Projected | leases and generations carry a source through every interleaving of tick, commit, reader, stop and crash |
| `pulls` | 2 calls, 1 request, a repository without checks of its own, 1 act of people, 1 fault; 631 000 states, fair | TypeOK, ExecutingHasCall, CompletedIsMerged, MergesApproved, MergedCompletes | an intent ends where GitHub says it ended, over approvals for what was merged |

Bounds and why they are enough.

- `MaxAttempts` = 3 is the first number at which "at most one automatic retry" can fail,
  2 suffices elsewhere (a retry exists). One crash covers every crash point; a second one
  only repeats recovery from a state recovery already leaves clean, which
  `RecoveryComplete` checks. Two changes on one line are what a lock needs; two verifiers
  are the capacity of two; two executions are what exclusion needs. `Replayable` bounds
  which tasks' failed stages are replayed; where it is `{}` the reason is section 6: a
  replay breaks the property.
- `store`: two mutations race in the chain while a third write, of a start, replaces all;
  one fault falls at any point. The probe's read meets a stale cache. Its own write
  would break the properties (section 6).
- `bootstrap`: a killed start leaves at most a temporary sentinel and a candidate
  database; five starts meet both, and do so again after V2.1 has written.
- `upgrade`: clone, reclone, reuse and one more; three faults break a step and the
  commands that clean up after it. A bound on commits bounds the work of V2.1.
- `projector`: two changes are what A-B-A needs; two starts give a lease of a past one.
- `pulls`: `MaxRevision` = 4 leaves room for an approval, a creation and a second approval,
  the merge included; two calls are a merge and a reconciliation, or two of a kind. The
  gate of GitHub's own checks (`HasChecks`) is exercised by `find_checks`.

Deadlock is not checked because the systems rightly stop: a settled workflow without
crashes left, a store after its last start, a cutover after its last run have no step.

Together the passing runs fire every action. Each property has a mutant in
`PROJECT.json`: a plausible slip in one mapped definition under which the same run fails.

## 6. Disagreements between the code and what the repository says

Each is a run that TLC refutes; `PROJECT.json` quotes the sentence.

| run | statement | what the code does |
|---|---|---|
| `find_writes` | `README.md:26`, write tasks are strictly serial | replaying a late stage of a failed change puts it in progress without reserving its line, beside another change |
| `find_refusal` | `README.md:144`, the upgrader waits and refuses to switch | a second cutover whose wait times out runs `compose down` on the V2.2 that serves, since it has stopped none that it could restart |
| `find_checks` | `README.md:173` and the gate `integration_checks_failed` | a failed check has status `completed`, which the gate accepts: a pull request merged by hand over failed checks completes the task |

### Observations

Behaviours the models show for which no run is kept; each is real.

- *Late replays.* `ReplayFails` (`api/execution-replay-service.mjs:102`) assigns `failed`
  without looking, past the `TRANSITIONS` table (`api/workflow-execution-domain.mjs:70`), which
  lets completed and cancelled lead to superseded only and superseded to nothing. The
  shortest case takes ten steps: a run fails in a late stage, an operator replays the stage
  before the dispatcher's job has recorded the failure, the record supersedes the attempt
  and creates the next one, the replay fails: two attempts are live. A cancellation or a
  submission by hand meanwhile is overwritten alike. With `SettledIsFinal` as its property
  the instance of `review` shows it. Wherever the properties it breaks are checked, replays
  are off; the theorems exclude just this step (`ReplaysInTime`).
- *Lost wakeup.* A task queued while its workflow's pump is closing is not dispatched
  until something else commits (`api/workflow-dispatcher.mjs:40`).
- *Cancelled runs.* Cancelling a NodeRun leaves its task execution running until a restart
  after its lease (`api/handlers/runners.mjs:354`).
- *Rebase.* The first change of a dependent workstream reserves its line, and the
  reservation makes the line refuse the hand-off the change needs
  (`api/repository-line-service.mjs:132`).
- *Checkout.* Of two verifiers that synchronize one line, the second to record switches
  the checkout back below the recorded head (`api/repository-line-service.mjs:196`).
- *Checkpoints.* A job whose second step throws after its execution reached a human
  checkpoint fails the checkpoint (`api/workflow-dispatcher.mjs:195`).
- *Two writing processes.* The revision is compared before `BEGIN IMMEDIATE`
  (`api/state-store-worker.mjs:80`): two processes on one database can lose an update.
  The activity probe of an upgrade runs `ensureRuntime`, which writes, beside the live
  service, and that same `ensureRuntime` recovers, i.e. fails, work the service has in
  progress; the probe also ignores deliveries and workflow executions, which
  `README.md:144` names.
- *Refused but durable.* A commit whose answer is lost, or a replacement whose read-back
  fails, is rejected although it is durable.
- *No second worker.* A dead store worker is not restarted within the process.
- *Ambiguous sentinel.* A start killed between the sync and the rename of the sentinel
  makes every later one refuse (`state_temp_recovery_ambiguous`), though
  `开发计划v2.2.md:51` asks for an idempotent recovery. Nothing is lost. Likewise a start of
  an empty directory that is killed while it writes the temporary sentinel leaves a torn
  file without a `state.json`, which every later start refuses
  (`state_temp_recovery_invalid`).
- *Stale reuse.* After a failure that restored V2.1, a run that reuses the accepted target
  leaves behind what V2.1 wrote in between.
- *Missed target.* `volumeExists` (`docker/v22-upgrade.mjs:605`) reads every failure of
  `docker volume inspect` as "no such volume". A run that misses a target which has served
  decides to copy as for the first time, is refused at the port or by
  `v22_target_volume_not_empty`, and leaves a failed transcript with disposition `clone` and
  no acceptance. If the next run's `check-v22` then fails for any reason, that transcript
  makes the volume recoverable (`:549`) and it is removed (`:595`), while `README.md:144`
  leaves removal of the target to `reset --confirm`. Two failing commands suffice:
  `ServedTargetKept` without its conjunct `~target.missed` is violated in the instance of
  `upgrade`. It holds of every target that no run has missed, or that one has found again.
- *Statuses set unconditionally.* A failing call, a webhook and a reconciliation assign the
  intent's status without looking at the one it has: they un-revoke an intent, and a
  webhook that overtakes the completion of a merge makes the completion fail, so that
  only a reconciliation repairs it. A late webhook sets a merged line to integrating.
- *Dead ends of an intent.* An uncertain creation without a PR number stays
  `reconciliation_required` for ever; when the base advances after the creation, the merge
  never passes `assertRemoteRefs` until the integration is reopened; a request opened and
  merged by hand completes only with both approvals, and the pump swallows the refusal.
- *Checks overwritten.* A reconciliation replaces failed local checks by `passed` when the
  repository has no checks on GitHub.

## 7. The proofs

TLAPS proves the theorems below for all values of the constants that satisfy the
assumptions: any plan, any number of executions, attempts, calls, nodes, starts,
runs, faults and crashes.

| module | theorem | statement |
|---|---|---|
| `WorkflowExecutionProofs` | `TypeCorrect` | `Spec => []TypeOK` |
| | `ExecutionsExclusive` | `Spec => []OneActiveExecution` |
| `WorkflowExecutionWriters` | `WriterInvariant` | `Spec => []WriterInv`, if no change's stage is replayed |
| | `WriterIsReserved` | `Spec => []WriterReserved`, likewise |
| | `WritesAreSerial` | `Spec => []WritesSerial`, likewise |
| `WorkflowExecutionHistory` | `HistoryInvariant` | `Spec => []HistoryInv`, if every replay that fails does so in time |
| | `AttemptsChain` | `Spec => []OneLiveAttempt`, likewise |
| | `DependenciesHold` | `Spec => []DependencyOrder`, likewise |
| | `WorkflowsSettle` | `Spec => []SettledWorkflow`, likewise |
| | `HandoffsStay` | `Spec => []HandoffComplete`, likewise |
| | `SettledStays` | `Spec => SettledIsFinal`, likewise |
| | `RestartsRecover` | `Spec => RecoveryComplete`, likewise |
| | `PausesHold` | `Spec => PauseHolds`, without a condition |
| | `RetriesBounded` | `Spec => AutomaticRetryOnce`, without a condition |
| | `NoReplayIsLate` | where nothing is replayed, every replay is in time |
| `PullRequestIntentProofs` | `TypeCorrect` | `Spec => []TypeOK` |
| | `CompletedOverMerge` | `Spec => []CompletedIsMerged` |
| | `ExecutingAttended` | `Spec => []ExecutingHasCall` |
| | `MergesOverApproval` | `Spec => MergesApproved` |
| `ContextProjectorProofs` | `TypeCorrect` | `Spec => []TypeOK` |
| | `SourceNotForgotten` | `Spec => []StaleHasJob` |
| | `LateResults` | `Spec => []DoneStaysDone` |
| | `LeasesReleased` | `Spec => StopReleases` |
| `StateBootstrapProofs` | `TypeCorrect` | `Spec => []TypeOK` |
| | `SourceIsKept` | `Spec => []SourceKept` |
| | `DatabaseIsComplete` | `Spec => []CompleteDatabase` |
| | `DatabaseStays` | `Spec => DatabaseKept` |
| `ReleaseUpgradeProofs` | `TypeCorrect` | `Spec => []TypeOK` |
| | `CopiesAtRest` | `Spec => []CopiedAtRest` |
| | `ServesOnlyAccepted` | `Spec => []ServesAccepted` |
| | `V21IsRestored` | `Spec => []V21Restored` |
| | `IncompleteRecoverable` | `Spec => []IncompleteIsRecoverable` |
| | `ServedTargetStays` | `Spec => ServedTargetKept` |
| `StateStoreProofs` | `TypeCorrect` | `Spec => []TypeOK`, if all writes are of one process |
| | `WritesDoNotConflict` | `Spec => []NoConflict`, likewise |
| | `StoreIsSerial` | `Spec => SerialSpec`, likewise |
| | `CacheIsCurrent` | `Spec => []CacheIsHead`, without a condition |

**WorkflowExecution.** Everything passes through `Reconcile`, so its lemmas carry the
proofs: `ReconcileTypes` (what it writes is typed), `ReconcileWorkflow` (it never
activates a workflow) and `ReconcileKeeps` (it keeps the lock of its draft). A second
layer shows that each composite mutation (`Complete`, `AwaitReview`, `FailAndReconcile`,
`CreateRetry`, `RecordBase`) hands the reconcile a good draft, and a third that each
action does.

`OneActiveExecution` is inductive with `TypeOK`: every step either activates nothing,
activates one execution while no other is active and the plan is its own, or edits the plan
while none is active (`ActivationOfSteps`).

`WriterReserved` is not inductive: the creation of an execution overwrites the status of
its tasks, so one must know that an execution not yet created has none (`Unstarted`), and
the failure of a replay writes a status unconditionally, so one must know whose replay
is in flight (`Replays`). `WriterInv` is the conjunction. The crux is `QueuedAlone`: a
pass may find several changes of a line ready at once, and since each looks at those
queued before it in task order, and the order is injective, two of them queued are one.
The hypothesis `NoWriterReplayed` is the exact complement of finding `find_writes`: the
theorem says that replay is the *only* path around the lock.

The *history* of an execution is proved of its ledger: the statuses of workflows and
tasks, and the hand-offs. No action but `ReplayFails` writes a status without looking at
the one it replaces, so every other step either leaves the ledger alone or makes one of six
kinds of draft (`Refreshes`, `Updates`, `Retries`, `Creates`, `Cancels`, `Finishes`) and
writes it out, by a reconcile or as it is (`Wrote`); that is `StepEffect`, action by action.
What remains to show is about drafts only: each kind is `Good` if the state was
(`UpdateGood`, `RetryGood`, ...), and writing a good draft out, with what was ready queued
and the workflow projected, leaves a good ledger (`WroteGood`).

`Good` has four parts that need each other. `Chained` says that the live attempt of a task
is the last and the only one, so "the newest attempt", "the current execution" and
"completed" speak of one execution (`CurrentMeans`). `Waits` says that whatever was begun,
a failed attempt included, still has what it waited for: a failed attempt may be replayed
or retried, and `DependencyOrder` without it is not inductive. `Handed` and `Settled` say
that hand-offs and finished workflows are not ahead of their tasks: a retry has to reopen a
failed workflow, and nothing un-completes a task, which keeps `Waits` as well.

The hypothesis `ReplaysInTime` is that a replay fails only over an execution in progress,
as it is written when nothing moved on meanwhile. It is the exact complement of the
observation *late replays*: the theorems say that this one unguarded assignment is the
*only* way around chains, dependencies, hand-offs and final statuses. Behaviours with
replays satisfy it as long as nobody else settles the replayed execution, and all do where
nothing is replayed (`NoReplayIsLate`), as in the runs that check these properties.
`RecoveryComplete` adds `Recovered`: while a process starts, every execution that it is done
with has nothing in progress without a lease, and recovering one touches no other
(`RecoverTaskKeeps`). `PauseHolds` and `AutomaticRetryOnce` hold whatever replays do: a late
failure is a draft that queues nothing in a paused workflow and creates no attempt
(`ReplayFailsWrites`).

**PullRequestIntent.** The statuses of an intent are assigned from memory (a snapshot
read earlier, a webhook's payload, the answer to a call), so its properties cannot be
inductive by themselves. `MergeKnown` says of every such memory that what it calls merged
is merged on GitHub; with it `CompletedIsMerged` follows from the guards of `Complete` and
`Advance`. `InFlight` says which call is at an executing intent, and that it still has its
end to write: every status that another handler writes over it leaves the intent not
executing, and only the call that is at it starts the next one.

`MergesApproved` speaks of two later steps of a call: it compares the base of the request
with that of the intent (`CheckRefs`), and merges after several answers of GitHub, while
others go on approving, refreshing and failing. `MergesCovered` says that a prepared merge
has the approval of the intent's base and a checked one of the base it found. The first
part needs that the base of an intent with an approved merge does not move any more, and
a base moves in a creation only; so `Approvals` says that an approved merge ends the time
of creations: no approval of a creation stands (its revision is two behind at least), even
when a failing call assigns `create_approved` again.

**ContextProjector.** The three properties and the type are inductive with little more.
`Sourced`: a change makes a generation that no job has, and a current version is a version.
`JobsCurrent`: every job is of the present source of its node, which has no other; so
whoever finds a job by its key, late or not, finds the one that matters. `Holds`: no lease
is of a later start, and a running process knows of every lease it holds but those of the
claims in `lost`. `Ticks`: a tick works on claims of its process. The crux is `MappedJobs`: claims,
finalizations, releases and recoveries rewrite the collection job by job under the same
keys, and the lemma says what such a rewriting must not do.

**StateBootstrap.** A property of a file after a kill must be known at every earlier file
operation. `FilesOK` says that `state.json` is what V2.1 wrote last, or a sentinel over a
*secured* state (imported and backed up); `DatabasesOK` that databases are complete and
those of an empty directory are of no state; `StepOK` what each step of a start has found
and secured; `CountersOK` that versions grow with V2.1's writes. `DatabaseKept` then holds
because what `CreateTemp` found missing is missing still when `InstallTemp` renames.

**ReleaseUpgrade.** `AtRest` and `Acceptance` are about the containers and the volume;
`Restores` says that a first cutover always remembers the V2.1 it stopped; `Disclosed`,
`Served` and `Unfinished` tie the volume to what the run's context and the transcript say
of it, since the next run decides by the transcript alone. `ServedTargetKept` follows: at
`Reset` a served target would be accepted (`Served`), and a run that knows of an
acceptance at that step reuses (`Disclosed`), and a run that reuses does not copy
(`Acceptance`). `Served` speaks of a target that was not missed: a missed one may stand
beside a transcript that makes it removable, until a run finds and accepts it.

**StateStore.** The refinement needs to know what is on the way between the threads, so
`StoreInv` says it of every message: what a request of a write asks for and what an answer
to one tells (`Asked`, `Answered`), that no process has more than one message of a write on
the way (`OneMessage`), that only the head of the queue is at work (`Chain`) and what it was
drafted on is still in the database (`Drafts`). The crux is `Replies`: the one step that
changes the database, a commit, takes the only message of a write out of an inbox and puts
its answer into an outbox, so no other message speaks of the old state, and `Past` says that
whatever reads it later can tell by the revision. From `Commits` (a transaction is of the
pending head and adds it to what it was drafted on) each step is one of `SerialStore` or
none: `WriteStep`, `ReceiveStep`, `ProcStep`. `OneWriter` is the exact complement of the
observation *two writing processes*.

For the snapshot cache `CacheInv` adds two parts. `Starts` follows a start: it has one message
on the way, and until the server listens only the replacement of `ensureRuntime` writes and
nothing reads. `Fresh` says that the cache, and every answer on the way, is of the present
state or a commit's answer comes behind it, so an old answer never overwrites a newer one for
good. The exception is `Unread`: a replacement that was not read back leaves the cache behind,
and ends the start that made it before it serves anybody.

Every safety invariant and action property that a passing run checks is stated by a theorem.
Only model-checked is what holds under fairness, which is out of this prover's reach:
PumpReturns, AllAnswered, Projected and MergedCompletes.

## 8. What is not modelled

- **Several workflows at once**: every commit wakes every running workflow's pump. One
  workflow with several executions is modelled.
- **Within modelled components**: reopening of an integration, human approval of an
  integration's output, replay of the finalize stage, recovery of partial repository
  results, enrolment of continuation tasks, legacy runs without a task execution, the
  checkpoint log of stages, requirements and waivers of outcomes, health checks of the
  store.
- **Delivery and repository deletion, assist sessions and change batches**: independent
  of the execution core; their intents and waiters have hazards of the kinds modelled in
  `PullRequestIntent`. Next in the plan.
- **Schema migrations**: conversions of data without control worth a state machine;
  `StateBootstrap` takes the converted state as a function of the one found.
- **Assets and attestations**: a content-addressed store whose integrity is hashing.
- **Earlier cutovers and gates**: each earlier script follows the one that is modelled, for
  a pair of releases that is gone; the gates are test harnesses.
- **Host bridge, MCP gateway, runner adapters and the container runtime**: operations on
  other processes and systems. The models take their success, failure, abortion or silence
  as a choice.
- **Authorization, routes**: stateless checks before a handler. **Web client**: a user
  interface.

## 9. The plan

Done: `WorkflowExecution`, `StateStore` with `SerialStore`, `StateBootstrap`,
`ContextProjector`, `PullRequestIntent`, `ReleaseUpgrade`, each with its run, and the
proofs of section 7. What would come next, in order of importance:

1. **TaskLifecycle**: the `TRANSITIONS` table as an abstract specification that
   `WorkflowExecution` implements as long as replays are in time; the effects of
   `WorkflowExecutionHistory` are most of the proof.
2. **Dispatcher**: pumps of several workflows, subscription to commits, the pass limit;
   does mutual waking end?
3. **DeletionIntents**: deletion of a repository with its confirmation, execution and
   recovery; **Delivery** likewise.
4. **RepositoryLine** with heads and dirty trees, the reopening of an integration, and
   **ExecutionStages**, the seven stages with their identities.
5. **AssistSession**: turns, waiters and the application of a change batch.

No module that is proved about uses a RECURSIVE operator.

## 10. Running the checks

    for run in line review handoff plan find_writes; do
        tlc -workers 2 -config $run.cfg MCWorkflowExecution
    done
    tlc -workers 2 -config store.cfg MCStateStore
    tlc -workers 2 -config bootstrap.cfg MCStateBootstrap
    tlc -workers 2 -config upgrade.cfg MCReleaseUpgrade
    tlc -workers 2 -config find_refusal.cfg MCReleaseUpgrade
    tlc -workers 2 -config projector.cfg MCContextProjector
    tlc -workers 2 -config pulls.cfg MCPullRequestIntent
    tlc -workers 2 -config find_checks.cfg MCPullRequestIntent

    for module in WorkflowExecutionProofs WorkflowExecutionWriters \
                  WorkflowExecutionHistory PullRequestIntentProofs \
                  ContextProjectorProofs StateBootstrapProofs ReleaseUpgradeProofs \
                  StateStoreProofs; do
        tlapm $module.tla
    done

The `find_` runs end with a counterexample, as section 6 explains; the others pass, in
about three minutes at most. Each proof module takes one to three minutes.
