-------------------------- MODULE PullRequestIntent --------------------------
(***************************************************************************)
(* The pull request of a repository line: the intent that the integration  *)
(* task creates, its two approvals, the calls that create and merge the    *)
(* request on GitHub, and the task that waits for the merge.               *)
(*                                                                         *)
(* A call works on GitHub between two transactions of the state store; in  *)
(* between, webhooks, a reconciliation, a revocation, another call and     *)
(* people on GitHub change the intent or the request.  The head of the     *)
(* line does not move while it is integrated; the base does, and stands    *)
(* for the snapshot hash of the intent.                                    *)
(***************************************************************************)
EXTENDS Integers, FiniteSets

CONSTANTS
    Calls,        \* API calls at a time
    HasChecks,    \* whether GitHub runs checks on the repository
    Evidence,     \* whether a verified test report of the head exists
    MaxRevision,  \* bound: revision at which nobody approves or revokes more
    MaxPulls,     \* bound: pull requests on GitHub
    MaxActs,      \* bound: acts of people and of CI on GitHub
    MaxFaults     \* bound: crashes and lost answers

ASSUME PullRequestAssumption ==
    /\ IsFiniteSet(Calls) /\ Calls # {}
    /\ HasChecks \in BOOLEAN /\ Evidence \in BOOLEAN
    /\ MaxRevision \in Nat \ {0} /\ MaxPulls \in Nat \ {0}
    /\ MaxActs \in Nat /\ MaxFaults \in Nat

VARIABLES
    intent,    \* the pull request intent
    task,      \* status of the repository_integrate execution
    line,      \* status of the repository line
    github,    \* the newest request of the branch on GitHub, and the base
    hooks,     \* webhook deliveries not received yet
    call,      \* the calls in progress
    expired,   \* whether expires_at has passed
    acts, faults

vars == <<intent, task, line, github, hooks, call, expired, acts, faults>>

Terminal == {"merged", "closed", "revoked", "expired"}
Executing == {"creating_pr", "merging_pr"}
Waiting == {"proposed", "create_approved", "draft_open", "ready", "merge_approved",
            "reconciliation_required"}
Open == {"draft", "ready"}
Pulls == Open \cup {"closed", "merged"}
Checks == {"none", "pending", "failed", "passed"}   \* none also for unknown

Kinds == {"approve", "create", "merge", "reconcile"}
Phases == {"idle", "ensured", "prepared", "checked", "moved", "mergeable", "done",
           "completed", "uncertain", "rejected"}
Idle == [kind |-> "none", phase |-> "idle", revision |-> 0, base |-> 0,
         number |-> 0, pull |-> "none", checks |-> "none"]

Intent == [status : Waiting \cup Executing \cup Terminal, revision : Nat \ {0},
           base : Nat \ {0}, number : 0..MaxPulls, action : {"none", "create", "merge"},
           approvals : SUBSET [action : {"create", "merge"}, revision : Nat, base : Nat],
           checks : Checks, items : Checks]
Github == [number : 0..MaxPulls, pull : Pulls \cup {"none"}, merged : SUBSET (1..MaxPulls),
           base : Nat \ {0}, checks : Checks \ {"none"}]
PullHook == [event : {"pull_request"}, number : 0..MaxPulls, result : Pulls]
CheckHook == [event : {"check_run", "check_suite"}, number : {0}, result : Checks]
Call == [kind : Kinds \cup {"none"}, phase : Phases, revision : Nat, base : Nat,
         number : 0..MaxPulls, pull : Pulls \cup {"none"}, checks : Checks]

Init ==
    /\ intent = [status |-> "proposed", revision |-> 1, base |-> 1, number |-> 0,
                 action |-> "none", approvals |-> {}, checks |-> "none", items |-> "none"]
    /\ task = "awaiting_human"
    /\ line = "integrating"
    /\ github = [number |-> 0, pull |-> "none", merged |-> {}, base |-> 1,
                 checks |-> IF HasChecks THEN "pending" ELSE "passed"]
    /\ hooks = {}
    /\ call = [c \in Calls |-> Idle]
    /\ expired = FALSE
    /\ acts = 0
    /\ faults = 0

At(c, kind, phase) == call[c].kind = kind /\ call[c].phase = phase
Goes(c, phase) == call' = [call EXCEPT ![c].phase = phase]
Settles(c, phase) == call' = [call EXCEPT ![c] = [Idle EXCEPT !.kind = call[c].kind, !.phase = phase]]
Ends(c) == call' = [call EXCEPT ![c] = Idle]

\* an answer of GitHub is lost, or it is an error; the process crashes
Fault == faults < MaxFaults /\ faults' = faults + 1

-----------------------------------------------------------------------------
(* GitHub, and the people and checks on it                                 *)

Pulled(number, pull) == [event |-> "pull_request", number |-> number, result |-> pull]
Checked(event, result) == [event |-> event, number |-> 0, result |-> result]

Pull(number, pull) ==
    /\ github' = [github EXCEPT !.number = number, !.pull = pull,
                                !.merged = IF pull = "merged" THEN @ \cup {number} ELSE @,
                                !.base = IF pull = "merged" THEN @ + 1 ELSE @]
    /\ hooks' = hooks \cup {Pulled(number, pull)}

\* Someone opens, closes, reopens or readies the request, or merges it
\* (a draft at once: what they do in between may go unnoticed).
Handled(pull) ==
    CASE github.pull = "draft" -> pull \in {"ready", "closed", "merged"}
      [] github.pull = "ready" -> pull \in {"draft", "closed", "merged"}
      [] github.pull = "closed" -> pull \in {"draft", "ready"}
      [] OTHER -> FALSE

ByHand ==
    /\ acts < MaxActs /\ acts' = acts + 1
    /\ \/ \E pull \in Pulls :
              Handled(pull) /\ Pull(github.number, pull)
       \/ /\ github.pull = "none"
          /\ Pull(1, "ready")
       \/ /\ github' = [github EXCEPT !.base = @ + 1]
          /\ UNCHANGED hooks
       \/ \E result \in {"pending", "passed", "failed"} :
              /\ HasChecks /\ github.checks # result
              /\ github' = [github EXCEPT !.checks = result]
              /\ hooks' = hooks \cup {Checked("check_run", result), Checked("check_suite", result)}
    /\ UNCHANGED <<intent, task, line, call, expired, faults>>

\* expires_at passes
Expire ==
    /\ ~expired /\ acts < MaxActs
    /\ expired' = TRUE
    /\ acts' = acts + 1
    /\ UNCHANGED <<intent, task, line, github, hooks, call, faults>>

-----------------------------------------------------------------------------
(* Approving and revoking                                                  *)

\* A request names the revision and hash its sender looked at; one that
\* names old ones is refused by its first transaction and changes nothing.
\* So a request begins with the transaction that accepts it.
Unchanged == UNCHANGED <<task, line, github, hooks, expired, acts, faults>>

\* activeIntent: the expiry it records is rolled back with its refusal
Active == intent.status \notin Terminal /\ ~expired
ChecksSatisfied == intent.checks = "passed" /\ (intent.items # "none" \/ Evidence)

Approval(action) == [action |-> action, revision |-> intent.revision, base |-> intent.base]

Approved(action) ==
    /\ Approval(action) \notin intent.approvals
    /\ intent' = [intent EXCEPT
           !.approvals = @ \cup {Approval(action)},
           !.status = IF action = "create" THEN "create_approved" ELSE "merge_approved",
           !.revision = @ + 1]

ApproveCreate ==
    /\ Active /\ intent.status = "proposed" /\ intent.revision < MaxRevision
    /\ Approved("create")
    /\ UNCHANGED call
    /\ Unchanged

\* ensurePullRequestIntentChecksInState: a request without checks of its own
\* is checked by the commands of the delivery policy.
MayCheck(statuses) ==
    intent.items = "none" /\ intent.checks \notin {"pending", "failed"} /\ intent.status \in statuses

CheckLocally ==
    \E result \in {"passed", "failed"} :
        intent' = [intent EXCEPT !.checks = result, !.items = result]

\* approving a merge takes two transactions
EnsureChecks(c) ==
    /\ call[c] = Idle /\ intent.revision < MaxRevision
    /\ \/ intent.items # "none" /\ UNCHANGED intent
       \/ MayCheck({"draft_open", "ready"}) /\ CheckLocally
    /\ call' = [call EXCEPT ![c] = [Idle EXCEPT !.kind = "approve", !.phase = "ensured",
                                                !.revision = intent.revision]]
    /\ Unchanged

MayApproveMerge(c) ==
    /\ Active /\ call[c].revision = intent.revision
    /\ intent.status \in {"draft_open", "ready"}
    /\ ChecksSatisfied

ApproveMerge(c) ==
    /\ At(c, "approve", "ensured")
    /\ IF MayApproveMerge(c) THEN Approved("merge") ELSE UNCHANGED intent
    /\ Ends(c)
    /\ Unchanged

\* revokePullRequestIntentInState
Revoke ==
    /\ intent.status \notin Terminal /\ intent.revision < MaxRevision
    /\ intent' = [intent EXCEPT !.status = "revoked", !.revision = @ + 1]
    /\ UNCHANGED call
    /\ Unchanged

-----------------------------------------------------------------------------
(* executePullRequestIntent                                                *)

\* the last approval of the action is of the preceding revision, and of
\* the present snapshot
Standing(action) ==
    [action |-> action, revision |-> intent.revision - 1, base |-> intent.base] \in intent.approvals

MayExecute(action) ==
    /\ Active
    /\ Standing(action)
    /\ \/ action = "create" /\ intent.status = "create_approved"
       \/ action = "merge" /\ intent.status = "merge_approved" /\ ChecksSatisfied

\* preparePullRequestIntentExecutionInState
Prepare(c, action) ==
    /\ call[c] = Idle
    /\ MayExecute(action)
    /\ intent' = [intent EXCEPT
           !.status = IF action = "create" THEN "creating_pr" ELSE "merging_pr",
           !.action = action]
    /\ call' = [call EXCEPT ![c] = [Idle EXCEPT !.kind = action, !.phase = "prepared"]]
    /\ Unchanged

Remote == UNCHANGED <<intent, task, line, expired, acts>>

\* mutant: the base is not compared
BaseUnread == TRUE

BaseStands == github.base = intent.base

\* readState and assertRemoteRefs (the read of the ref fails: RequestFails)
CheckRefs(c) ==
    /\ call[c].phase = "prepared"
    /\ \/ /\ BaseStands
          /\ call' = [call EXCEPT ![c] = [Idle EXCEPT !.kind = call[c].kind, !.phase = "checked",
                                                      !.base = github.base, !.number = intent.number]]
       \/ /\ ~BaseStands /\ call[c].kind = "create"
          /\ call' = [call EXCEPT ![c] = [Idle EXCEPT !.kind = "create", !.phase = "moved",
                                                      !.base = github.base]]
       \/ /\ ~BaseStands /\ call[c].kind = "merge"
          /\ Settles(c, "rejected")
    /\ Remote
    /\ UNCHANGED <<github, hooks, faults>>

\* The answer is lost or a 5xx, or it is one of 401, 403, 404, 409 and 422.
Unanswered(c) == Settles(c, "uncertain") /\ Fault
Refused(c) == Settles(c, "rejected") /\ Fault

\* A request to GitHub fails before it had an effect.
RequestFails(c) ==
    /\ call[c].phase \in {"prepared", "checked", "mergeable"}
    /\ Unanswered(c) \/ Refused(c)
    /\ Remote
    /\ UNCHANGED <<github, hooks>>

Answered(c, kind, number, pull) ==
    call' = [call EXCEPT ![c] = [Idle EXCEPT !.kind = kind, !.phase = "done", !.number = number,
                                             !.pull = pull, !.checks = github.checks]]

Delivered(c, number, pull) ==
    \/ Answered(c, call[c].kind, number, pull) /\ UNCHANGED faults
    \/ Unanswered(c)

\* createOrReusePullRequest: GitHub has one open request of a branch at
\* most; the checks are read last, and that read may be refused.
OpenPull(c) ==
    /\ At(c, "create", "checked")
    /\ \/ /\ github.pull \in Open
          /\ Delivered(c, github.number, github.pull) \/ Refused(c)
          /\ UNCHANGED <<github, hooks>>
       \/ /\ github.pull \notin Open /\ github.number < MaxPulls
          /\ Pull(github.number + 1, "draft")
          /\ Delivered(c, github.number + 1, "draft") \/ Refused(c)
       \/ /\ github.pull \notin Open /\ github.number = MaxPulls
          /\ Settles(c, "rejected")
          /\ UNCHANGED <<github, hooks, faults>>
    /\ Remote

IsPull(c, pulls) == call[c].number = github.number /\ github.pull \in pulls

\* The merge reads the request and its checks, and marks a draft ready
\* (three requests, taken as one step).
ReadyPull(c) ==
    /\ At(c, "merge", "checked")
    /\ \/ /\ github.checks # "passed"
          /\ Settles(c, "rejected")
          /\ UNCHANGED <<github, hooks, faults>>
       \/ /\ github.checks = "passed" /\ IsPull(c, {"draft"})
          /\ Pull(github.number, "ready")
          /\ \/ Goes(c, "mergeable") /\ UNCHANGED faults
             \/ Unanswered(c)
       \/ /\ github.checks = "passed" /\ ~IsPull(c, {"draft"})
          /\ Goes(c, "mergeable")
          /\ UNCHANGED <<github, hooks, faults>>
    /\ Remote

\* What GitHub refuses to merge it answers 405, which the call takes for a
\* fault of GitHub.
MergePull(c) ==
    /\ At(c, "merge", "mergeable")
    /\ \/ /\ IsPull(c, {"ready"})
          /\ Pull(github.number, "merged")
          /\ Delivered(c, github.number, "merged")
       \/ /\ ~IsPull(c, {"ready"})
          /\ Settles(c, "uncertain")
          /\ UNCHANGED <<github, hooks, faults>>
    /\ Remote

\* completePullRequestIntentExecutionInState
Complete(c) ==
    /\ call[c].phase = "done" /\ call[c].kind \in {"create", "merge"}
    /\ IF intent.action = call[c].kind /\ intent.status \in Executing
       THEN /\ intent' =
                  IF call[c].kind = "create"
                  THEN [intent EXCEPT
                      !.status = IF call[c].pull = "ready" THEN "ready" ELSE "draft_open",
                      !.number = call[c].number,
                      !.checks = call[c].checks,
                      !.items = IF HasChecks THEN call[c].checks ELSE "none",
                      !.action = "none", !.revision = @ + 1]
                  ELSE [intent EXCEPT
                      !.status = "merged",
                      !.checks = "passed",
                      !.items = IF HasChecks THEN "passed" ELSE @,
                      !.action = "none", !.revision = @ + 1]
            /\ Settles(c, "completed")
       ELSE Settles(c, "rejected") /\ UNCHANGED intent
    /\ Unchanged

\* refreshPullRequestIntentBaseInState: the base has moved, approve again
RefreshBase(c) ==
    /\ call[c].phase = "moved"
    /\ intent' = IF intent.status = "creating_pr" /\ intent.action = "create"
                       /\ intent.base # call[c].base
                 THEN [intent EXCEPT !.base = call[c].base, !.status = "proposed",
                                     !.action = "none", !.revision = @ + 1]
                 ELSE intent
    /\ Ends(c)
    /\ Unchanged

\* failPullRequestIntentExecutionInState
Fail(c) ==
    /\ call[c].phase \in {"uncertain", "rejected"}
    /\ intent' = [intent EXCEPT
           !.status = IF call[c].phase = "uncertain" THEN "reconciliation_required"
                      ELSE IF call[c].kind = "create" THEN "create_approved"
                      ELSE "merge_approved",
           !.action = "none"]
    /\ Ends(c)
    /\ Unchanged

-----------------------------------------------------------------------------
(* advanceRepositoryIntegration                                            *)

BothApproved == \A action \in {"create", "merge"} :
                    \E a \in intent.approvals : a.action = action

\* assertIntegrationEvidence accepts every check that has completed
EvidenceHolds == intent.items \in {"passed", "failed"} \/ (intent.items = "none" /\ Evidence)

\* mutant: a line that is known to be merged has been integrated
MayIntegrateUnmerged == /\ intent.status = "merged" /\ task = "awaiting_human"
                        /\ line # "merged" /\ BothApproved /\ EvidenceHolds

\* mutant: the approvals are not counted
MayIntegrateUnapproved == intent.status = "merged" /\ task = "awaiting_human" /\ EvidenceHolds

MayIntegrate == /\ intent.status = "merged" /\ task = "awaiting_human"
                /\ BothApproved /\ EvidenceHolds

Integrate == line' = "merged" /\ task' = "completed"

\* recoverMergedIntentChecks, in a transaction of its own
RecoverChecks == MayCheck({"merged"}) /\ CheckLocally

\* the call that created or merged the request goes on
Advance(c) ==
    /\ call[c].phase = "completed"
    /\ \/ /\ call[c].kind = "create"
          /\ line' = "integrating" /\ Ends(c)
          /\ UNCHANGED <<intent, task>>
       \/ /\ call[c].kind = "merge" /\ RecoverChecks
          /\ UNCHANGED <<line, task, call>>
       \/ /\ call[c].kind = "merge" /\ ~MayCheck({"merged"})
          /\ IF MayIntegrate THEN Integrate ELSE UNCHANGED <<line, task>>
          /\ Ends(c)
          /\ UNCHANGED intent
    /\ UNCHANGED <<github, hooks, expired, acts, faults>>

\* resumeMergedIntegrations, by the pump of the workflow
Resume ==
    /\ intent.status = "merged" /\ task = "awaiting_human"
    /\ \/ RecoverChecks /\ UNCHANGED <<line, task>>
       \/ ~MayCheck({"merged"}) /\ MayIntegrate /\ Integrate /\ UNCHANGED intent
    /\ UNCHANGED <<github, hooks, call, expired, acts, faults>>

-----------------------------------------------------------------------------
(* Learning what happened on GitHub                                        *)

\* mutant: the state of the request becomes the status as it is
StatusOfRaw(pull) == pull

StatusOf(pull) == CASE pull = "merged" -> "merged"
                    [] pull = "closed" -> "closed"
                    [] pull = "draft" -> "draft_open"
                    [] pull = "ready" -> "ready"

\* reconcilePullRequestIntentWebhookInState and applyRepositoryLineEvent
Webhook(h) ==
    /\ h \in hooks
    /\ hooks' = hooks \ {h}
    /\ IF h.event = "pull_request"
       THEN /\ intent' = IF intent.number \in {0, h.number}
                         THEN [intent EXCEPT !.status = StatusOf(h.result), !.number = h.number]
                         ELSE intent
            /\ line' = IF h.result = "merged" THEN "merged" ELSE "integrating"
       ELSE /\ intent' = [intent EXCEPT
                   !.checks = h.result,
                   !.items = IF h.event = "check_run" THEN h.result ELSE @]
            /\ UNCHANGED line
    /\ UNCHANGED <<task, github, call, expired, acts, faults>>

\* reconcilePullRequestIntent reads the state and GitHub ...
ReadSnapshot(c) ==
    /\ call[c] = Idle /\ intent.number # 0
    /\ Answered(c, "reconcile", intent.number,
                IF intent.number = github.number THEN github.pull
                ELSE IF intent.number \in github.merged THEN "merged" ELSE "closed")
    /\ Remote
    /\ UNCHANGED <<github, hooks, faults>>

\* ... and records the snapshot in a later transaction.
ApplySnapshot(c) ==
    /\ At(c, "reconcile", "done")
    /\ LET seen == [intent EXCEPT !.status = StatusOf(call[c].pull),
                                  !.number = call[c].number,
                                  !.checks = call[c].checks]
       IN intent' = [seen EXCEPT !.revision =
              IF seen.status = intent.status /\ seen.checks = intent.checks THEN @ ELSE @ + 1]
    /\ Ends(c)
    /\ Unchanged

-----------------------------------------------------------------------------
(* The process crashes; recoverPullRequestIntentsInState as it starts      *)

\* mutant: an interrupted merge is not looked for
RecoveredCreate ==
    IF intent.status = "creating_pr" THEN "reconciliation_required"
    ELSE IF expired /\ intent.status \notin Terminal THEN "expired"
    ELSE intent.status

RecoveredStatus ==
    IF intent.status \in Executing THEN "reconciliation_required"
    ELSE IF expired /\ intent.status \notin Terminal THEN "expired"
    ELSE intent.status

Restart ==
    /\ Fault
    /\ call' = [c \in Calls |-> Idle]
    /\ intent' = [intent EXCEPT
           !.status = RecoveredStatus,
           !.action = IF intent.status \in Executing THEN "none" ELSE @]
    /\ UNCHANGED <<task, line, github, hooks, expired, acts>>

-----------------------------------------------------------------------------
Execute(c) ==
    \/ CheckRefs(c) \/ RequestFails(c) \/ OpenPull(c) \/ ReadyPull(c) \/ MergePull(c)
    \/ Complete(c) \/ RefreshBase(c) \/ Fail(c) \/ Advance(c)

Next ==
    \/ ApproveCreate \/ Revoke
    \/ \E c \in Calls :
          \/ EnsureChecks(c) \/ ApproveMerge(c)
          \/ Prepare(c, "create") \/ Prepare(c, "merge") \/ Execute(c)
          \/ ReadSnapshot(c) \/ ApplySnapshot(c)
    \/ \E h \in hooks : Webhook(h)
    \/ Resume \/ ByHand \/ Expire \/ Restart

Spec == Init /\ [][Next]_vars

\* A call that was received runs to its end, and the pump of a running
\* workflow looks at merged intents after every commit; operators ask for a
\* reconciliation until the intent says what GitHub says.  A webhook may
\* never arrive.
FairSpec ==
    /\ Spec
    /\ \A c \in Calls : WF_vars(Execute(c) \/ ApplySnapshot(c) \/ ApproveMerge(c))
    /\ SF_vars(\E c \in Calls : ReadSnapshot(c))
    /\ WF_vars(Resume)

-----------------------------------------------------------------------------
(* Properties                                                              *)

(* Every variable stays in its type.                                       *)
TypeOK ==
    /\ intent \in Intent
    /\ task \in {"awaiting_human", "completed"}
    /\ line \in {"integrating", "merged"}
    /\ github \in Github
    /\ hooks \subseteq PullHook \cup CheckHook
    /\ call \in [Calls -> Call]
    /\ expired \in BOOLEAN
    /\ acts \in 0..MaxActs /\ faults \in 0..MaxFaults

(* An intent is creating or merging only while a call is at it: whatever   *)
(* webhooks, revocations and other calls do to the status in between, and  *)
(* after a restart, nothing is left waiting for a call that is gone.       *)
ExecutingHasCall ==
    intent.status \in Executing =>
        \E c \in Calls : call[c].kind = intent.action /\ call[c].phase # "idle"

(* The task completes only over a request that GitHub has merged and that  *)
(* was approved twice (README.md:173), whoever merged it and by whatever   *)
(* way the merge became known.                                             *)
CompletedIsMerged ==
    task = "completed" => github.merged # {} /\ BothApproved

(* The service marks a request ready and merges it only on a merge         *)
(* approval for the base it found on GitHub.                               *)
MergesApproved ==
    [][\A c \in Calls :
          (call[c].kind = "merge" /\ call[c].phase \in {"checked", "mergeable"}
              /\ github'.pull # github.pull /\ call'[c] # call[c])
          => \E a \in intent.approvals : a.action = "merge" /\ a.base = call[c].base]_vars

(* A merge of a request with both approvals and finished checks reaches    *)
(* the task, whoever merged it, over crashes, lost answers and webhooks    *)
(* out of order.                                                           *)
MergedCompletes ==
    (github.pull = "merged" /\ intent.number = github.number /\ BothApproved
        /\ intent.items = "passed")
    ~> (task = "completed" \/ intent.items # "passed" \/ intent.number # github.number)

(* "checks gate" (README.md:173, integration_checks_failed): no task       *)
(* completes over checks that have failed, one by one and in their sum.    *)
NoFailedChecks == task' # task => ~(intent'.items = "failed" /\ intent'.checks = "failed")
ChecksGate == [][NoFailedChecks]_vars
=============================================================================
