----------------------- MODULE WorkflowExecutionProofs -----------------------
(***************************************************************************)
(* What TLAPS proves of WorkflowExecution, for every plan, every number of *)
(* executions and attempts and every number of crashes.                    *)
(***************************************************************************)
EXTENDS WorkflowExecutionProps, TLAPS

-----------------------------------------------------------------------------
(* Lemmas about the operators the mutations are built from.                *)

(* A task execution belongs to an execution, a task and a line.            *)
LEMMA Parts ==
    ASSUME NEW x \in X
    PROVE  /\ ExecOf(x) \in Execs
           /\ TaskOf(x) \in Tasks
           /\ AttemptOf(x) \in Attempts
           /\ LineOf(x) \in Lines
           /\ LineOf(x)[1] = ExecOf(x)
           /\ x = <<ExecOf(x), TaskOf(x), AttemptOf(x)>>
    BY ShapeAssumption DEF X, Lines, ExecOf, TaskOf, AttemptOf, LineOf

(* The writer of a line after a pass is an execution or none.              *)
LEMMA NewWriterType ==
    ASSUME NEW queued \in SUBSET X, NEW l, NEW writer \in X \cup {None}
    PROVE  NewWriter(queued, l, writer) \in X \cup {None}
    <1> DEFINE claims == {x \in queued : Kind(x) = "repository_change" /\ LineOf(x) = l}
    <1>1. CASE claims = {}
        BY <1>1 DEF NewWriter
    <1>2. CASE claims # {}
        <2>1. (CHOOSE x \in claims : TRUE) \in claims
            BY <1>2
        <2> QED BY <1>2, <2>1 DEF NewWriter
    <1> QED BY <1>1, <1>2

(* The part of the type that a reconcile writes.                           *)
CoreTypes ==
    /\ wf \in [Execs -> WorkflowStatus]
    /\ status \in [X -> TaskStatus]
    /\ line \in [Lines -> Line]
USE DEF CoreTypes

(* A new status of a line is typed.                                        *)
LEMMA LineStatusType ==
    ASSUME line \in [Lines -> Line], NEW l \in Lines, NEW s \in LineStatus
    PROVE  [line EXCEPT ![l].status = s] \in [Lines -> Line]
    BY DEF Line

(* So is a line that has got its checkout.                                 *)
LEMMA CheckedOutType ==
    ASSUME line \in [Lines -> Line], NEW l \in Lines
    PROVE  [line EXCEPT ![l].status = "active", ![l].checkout = TRUE] \in [Lines -> Line]
    BY DEF Line, LineStatus

(* What a reconcile writes is of the right type.                           *)
LEMMA ReconcileTypes ==
    ASSUME wf \in [Execs -> WorkflowStatus],
           NEW e \in Execs, NEW w \in WorkflowStatus,
           NEW st \in [X -> TaskStatus], NEW ln \in [Lines -> Line], NEW oc,
           Reconcile(e, w, st, ln, oc)
    PROVE  CoreTypes'
    <1>1. CASE w \notin ActiveWorkflow
        BY <1>1 DEF Reconcile
    <1>2. CASE w \in ActiveWorkflow
        <2> DEFINE ready == {x \in Waiting(e, st) : Ready(st, ln, oc, w, x)}
        <2>1. PICK queued \in SUBSET ready :
                /\ status' = [x \in X |-> IF x \in queued THEN "queued"
                                          ELSE IF x \in ready THEN "ready"
                                          ELSE IF x \in Waiting(e, st) THEN "pending" ELSE st[x]]
                /\ line' = [l \in Lines |-> [ln[l] EXCEPT !.writer = NewWriter(queued, l, @)]]
                /\ wf' = [wf EXCEPT ![e] = Projected(w, e, status')]
            BY <1>2 DEF Reconcile
        <2>2. queued \subseteq X
            BY DEF Waiting, CurrentExecutions
        <2>3. status' \in [X -> TaskStatus]
            BY <2>1 DEF TaskStatus
        <2>4. line' \in [Lines -> Line]
            <3>1. ASSUME NEW l \in Lines
                  PROVE  [ln[l] EXCEPT !.writer = NewWriter(queued, l, ln[l].writer)] \in Line
                <4>1. ln[l] \in Line
                    OBVIOUS
                <4>2. NewWriter(queued, l, ln[l].writer) \in X \cup {None}
                    BY <2>2, <4>1, NewWriterType DEF Line
                <4> QED BY <4>1, <4>2 DEF Line
            <3> QED BY <2>1, <3>1
        <2>5. Projected(w, e, status') \in WorkflowStatus
            BY DEF Projected, WorkflowStatus
        <2> QED BY <2>1, <2>3, <2>4, <2>5
    <1> QED BY <1>1, <1>2

(* The pumps after a commit are typed.                                     *)
LEMMA WakeType ==
    ASSUME pump \in [Execs -> Pump], NEW asked
    PROVE  [e \in Execs |-> Woken(e, asked)] \in [Execs -> Pump]
    BY DEF Woken, Pump

(* So are the lines after an execution has released its own,               *)
LEMMA ReleasedType ==
    ASSUME NEW ln \in [Lines -> Line], NEW x \in X
    PROVE  Released(ln, x) \in [Lines -> Line]
    BY Parts DEF Released, Line

(* and the hand-offs after a completion.                                   *)
LEMMA OutcomesType ==
    ASSUME outcome \in [Lines -> BOOLEAN], NEW e, NEW st, NEW ln
    PROVE  Outcomes(e, st, ln) \in [Lines -> BOOLEAN]
    BY DEF Outcomes


(* The mutations that end, hand over or retry a task keep the types.       *)
LEMMA CompleteTypes ==
    ASSUME TypeOK, NEW x \in X, NEW ln \in [Lines -> Line], Complete(x, ln)
    PROVE  /\ CoreTypes'
           /\ lease' \in [X -> Lease]
           /\ candidate' \in [X -> BOOLEAN]
           /\ outcome' \in [Lines -> BOOLEAN]
    <1> DEFINE st == [status EXCEPT ![x] = "completed"]
    <1>1. st \in [X -> TaskStatus]
        BY DEF TypeOK, TaskStatus
    <1>2. Released(ln, x) \in [Lines -> Line]
        BY ReleasedType
    <1>3. outcome' \in [Lines -> BOOLEAN]
        BY OutcomesType DEF Complete, TypeOK
    <1>4. ExecOf(x) \in Execs /\ wf[ExecOf(x)] \in WorkflowStatus
        BY Parts DEF TypeOK
    <1>5. Reconcile(ExecOf(x), wf[ExecOf(x)], st, Released(ln, x), outcome')
        BY DEF Complete
    <1>6. CoreTypes'
        <2> HIDE DEF st
        <2> QED BY <1>1, <1>2, <1>4, <1>5, ReconcileTypes DEF TypeOK
    <1> QED BY <1>3, <1>6 DEF Complete, TypeOK, Lease

(* What the wait for a human's review writes is typed.                     *)
LEMMA AwaitReviewTypes ==
    ASSUME TypeOK, NEW x \in X, NEW ln \in [Lines -> Line], AwaitReview(x, ln)
    PROVE  /\ CoreTypes'
           /\ lease' \in [X -> Lease]
           /\ candidate' \in [X -> BOOLEAN]
           /\ outcome' \in [Lines -> BOOLEAN]
    <1>1. [status EXCEPT ![x] = "awaiting_human"] \in [X -> TaskStatus]
        BY DEF TypeOK, TaskStatus
    <1>2. ExecOf(x) \in Execs /\ wf[ExecOf(x)] \in WorkflowStatus
        BY Parts DEF TypeOK
    <1>3. CoreTypes'
        BY <1>1, <1>2, ReconcileTypes DEF AwaitReview, TypeOK
    <1> QED BY <1>3 DEF AwaitReview, TypeOK

(* So is what the delivery of outputs writes,                              *)
LEMMA DeliverTypes ==
    ASSUME TypeOK, NEW x \in X, NEW ln \in [Lines -> Line], Deliver(x, ln)
    PROVE  /\ CoreTypes'
           /\ lease' \in [X -> Lease]
           /\ candidate' \in [X -> BOOLEAN]
           /\ outcome' \in [Lines -> BOOLEAN]
    BY CompleteTypes, AwaitReviewTypes DEF Deliver

(* what a failure writes,                                                  *)
LEMMA FailTypes ==
    ASSUME TypeOK, NEW x \in X, FailAndReconcile(x)
    PROVE  /\ CoreTypes'
           /\ lease' \in [X -> Lease]
    <1>1. [status EXCEPT ![x] = "failed"] \in [X -> TaskStatus]
        BY DEF TypeOK, TaskStatus
    <1>2. Released(line, x) \in [Lines -> Line]
        BY ReleasedType DEF TypeOK
    <1>3. ExecOf(x) \in Execs /\ wf[ExecOf(x)] \in WorkflowStatus
        BY Parts DEF TypeOK
    <1>4. CoreTypes'
        BY <1>1, <1>2, <1>3, ReconcileTypes DEF FailAndReconcile, TypeOK
    <1> QED BY <1>4 DEF FailAndReconcile, TypeOK, Lease

(* what the creation of the next attempt writes,                           *)
LEMMA RetryTypes ==
    ASSUME TypeOK, NEW x \in X, NEW w \in WorkflowStatus, CreateRetry(x, w, line)
    PROVE  /\ CoreTypes'
           /\ lease' \in [X -> Lease]
    <1>1. PICK n \in NextAttempt(x) :
            /\ lease' = [lease EXCEPT ![x] = "none"]
            /\ Reconcile(ExecOf(x), w,
                         [status EXCEPT ![x] = "superseded",
                                        ![<<ExecOf(x), TaskOf(x), n>>] = "pending"],
                         Released(line, x), outcome)
        BY DEF CreateRetry
    <1> DEFINE st == [status EXCEPT ![x] = "superseded",
                                    ![<<ExecOf(x), TaskOf(x), n>>] = "pending"]
    <1>2. st \in [X -> TaskStatus]
        BY DEF TypeOK, TaskStatus
    <1>3. Released(line, x) \in [Lines -> Line]
        BY ReleasedType DEF TypeOK
    <1>4. ExecOf(x) \in Execs
        BY Parts
    <1>5. CoreTypes'
        <2> HIDE DEF st
        <2>1. Reconcile(ExecOf(x), w, st, Released(line, x), outcome)
            BY <1>1 DEF st
        <2> QED BY <2>1, <1>2, <1>3, <1>4, ReconcileTypes DEF TypeOK
    <1> QED BY <1>1, <1>5 DEF TypeOK, Lease

(* and what the record of a line's new base writes.                        *)
LEMMA RecordBaseTypes ==
    ASSUME TypeOK, NEW l \in Lines, RecordBase(l)
    PROVE  /\ CoreTypes'
           /\ pump' \in [Execs -> Pump]
           /\ moved' \in [Lines -> BOOLEAN]
    <1>1. CASE line[l].based
        BY <1>1 DEF RecordBase, TypeOK
    <1>2. CASE ~line[l].based
        <2>1. [line EXCEPT ![l].based = TRUE] \in [Lines -> Line]
            BY DEF TypeOK, Line
        <2>2. l[1] \in Execs
            BY DEF Lines
        <2>3. CoreTypes'
            BY <1>2, <2>1, <2>2, ReconcileTypes DEF RecordBase, TypeOK
        <2> QED BY <1>2, <2>3, WakeType DEF RecordBase, Wake, TypeOK
    <1> QED BY <1>1, <1>2

-----------------------------------------------------------------------------
(* Type correctness, one lemma per part of the next-state relation.        *)

(* A step of the pump keeps the types.                                     *)
LEMMA PumpStepTypes ==
    ASSUME TypeOK, NEW e \in Execs, PumpStep(e)
    PROVE  TypeOK'
    <1>1. ASSUME PumpStart(e) PROVE TypeOK'
        BY <1>1 DEF PumpStart, TypeOK, durable, Pump, Provisioner
    <1>2. ASSUME PumpPass(e) PROVE TypeOK'
        <2>1. CoreTypes'
            BY <1>2, ReconcileTypes DEF PumpPass, TypeOK, WorkflowStatus
        <2> QED BY <1>2, <2>1 DEF PumpPass, TypeOK, Pump, Job, Woken
    <1>3. ASSUME PumpClose(e) PROVE TypeOK'
        BY <1>3 DEF PumpClose, TypeOK, durable, Pump
    <1>4. ASSUME NEW projected \in BOOLEAN, Finalize(e, projected) PROVE TypeOK'
        BY <1>4 DEF Finalize, TypeOK, Pump, Woken, WorkflowStatus
    <1> QED BY <1>1, <1>2, <1>3, <1>4 DEF PumpStep

(* A step of a provisioner keeps the types.                                *)
LEMMA ProvisionStepTypes ==
    ASSUME TypeOK, NEW l \in Lines, NEW who \in Provisioner, ProvisionStep(l, who)
    PROVE  TypeOK'
    <1>1. ASSUME ProvisionDone(l, who) PROVE TypeOK'
        <2>1. [line EXCEPT ![l].status = "active", ![l].checkout = TRUE] \in [Lines -> Line]
            BY CheckedOutType DEF TypeOK
        <2>2. l[1] \in Execs
            BY DEF Lines
        <2>3. CoreTypes'
            BY <1>1, <2>1, <2>2, ReconcileTypes DEF ProvisionDone, TypeOK
        <2> QED BY <1>1, <2>3, WakeType DEF ProvisionDone, TypeOK, Wake
    <1>2. ASSUME ProvisionReturns(l, who) PROVE TypeOK'
        BY <1>2 DEF ProvisionReturns, TypeOK, durable
    <1>3. ASSUME ProvisionFails(l, who) PROVE TypeOK'
        <2>1. [line EXCEPT ![l].status = "failed"] \in [Lines -> Line]
            BY LineStatusType DEF TypeOK, LineStatus
        <2>2. l[1] \in Execs
            BY DEF Lines
        <2>3. CoreTypes'
            BY <1>3, <2>1, <2>2, ReconcileTypes DEF ProvisionFails, TypeOK
        <2> QED BY <1>3, <2>3, WakeType DEF ProvisionFails, TypeOK, Wake
    <1> QED BY <1>1, <1>2, <1>3 DEF ProvisionStep

(* A step of a dispatcher job keeps the types.                             *)
LEMMA JobStepTypes ==
    ASSUME TypeOK, NEW x \in X, JobStep(x)
    PROVE  TypeOK'
    <1>1. ASSUME SyncStart(x) PROVE TypeOK'
        BY <1>1 DEF SyncStart, TypeOK, durable, Move, Job
    <1>2. ASSUME SyncSwitch(x) PROVE TypeOK'
        BY <1>2, Parts DEF SyncSwitch, TypeOK, Move, Job
    <1>3. ASSUME SyncDone(x) PROVE TypeOK'
        <2>1. /\ CoreTypes'
              /\ pump' \in [Execs -> Pump]
              /\ moved' \in [Lines -> BOOLEAN]
            BY <1>3, Parts, RecordBaseTypes DEF SyncDone
        <2> QED BY <1>3, <2>1 DEF SyncDone, TypeOK, Move, Job
    <1>4. ASSUME Look(x) PROVE TypeOK'
        BY <1>4 DEF Look, TypeOK, durable, Move, Job
    <1>5. ASSUME ManualCheckpoint(x) PROVE TypeOK'
        <2>1. [status EXCEPT ![x] = "awaiting_human"] \in [X -> TaskStatus]
            BY DEF TypeOK, TaskStatus
        <2>2. CoreTypes'
            BY <1>5, <2>1, Parts, ReconcileTypes DEF ManualCheckpoint, TypeOK
        <2> QED BY <1>5, <2>2, WakeType DEF ManualCheckpoint, TypeOK, Wake, Move, Job
    <1>6. ASSUME PrepareIntegration(x) PROVE TypeOK'
        <2>1. [status EXCEPT ![x] = "awaiting_human"] \in [X -> TaskStatus]
            BY DEF TypeOK, TaskStatus
        <2>2. [line EXCEPT ![LineOf(x)].status = "integrating"] \in [Lines -> Line]
            BY Parts, LineStatusType DEF TypeOK, LineStatus
        <2>3. CoreTypes'
            BY <1>6, <2>1, <2>2, Parts, ReconcileTypes DEF PrepareIntegration, TypeOK
        <2> QED BY <1>6, <2>3, WakeType DEF PrepareIntegration, TypeOK, Wake, Move, Job
    <1>7. ASSUME Claim(x) PROVE TypeOK'
        BY <1>7, WakeType DEF Claim, TypeOK, Wake, Move, Job, TaskStatus, Lease
    <1>8. ASSUME SubmitVerification(x) PROVE TypeOK'
        BY <1>8, DeliverTypes, WakeType DEF SubmitVerification, TypeOK, Wake, Move, Job
    <1>9. ASSUME PrepareRun(x) PROVE TypeOK'
        BY <1>9, WakeType DEF PrepareRun, TypeOK, durable, Wake, Move, Job
    <1>10. ASSUME RunSucceeds(x) PROVE TypeOK'
        BY <1>10, DeliverTypes, WakeType DEF RunSucceeds, TypeOK, Wake, Move, Job
    <1>11. ASSUME RunReturns(x) PROVE TypeOK'
        BY <1>11 DEF RunReturns, TypeOK, durable, Move, Job
    <1>12. ASSUME RecordFailure(x) PROVE TypeOK'
        <2>1. CASE status[x] \notin Recorded
            BY <1>12, <2>1 DEF RecordFailure, TypeOK, Job
        <2>2. CASE status[x] \in Recorded /\ CreateRetry(x, wf[ExecOf(x)], line) /\ Wake
            BY <1>12, <2>2, Parts, RetryTypes, WakeType DEF RecordFailure, TypeOK, Wake, Job
        <2>3. CASE status[x] \in Recorded /\ FailAndReconcile(x) /\ Wake
            BY <1>12, <2>3, FailTypes, WakeType DEF RecordFailure, TypeOK, Wake, Job
        <2> QED BY <1>12, <2>1, <2>2, <2>3 DEF RecordFailure, Recorded
    <1>13. ASSUME NEW class \in RetryClass, DispatchThrows(x, class) PROVE TypeOK'
        BY <1>13 DEF DispatchThrows, TypeOK, durable, Job, RetryClass
    <1>14. ASSUME NEW class \in RetryClass, PreflightFails(x, class) PROVE TypeOK'
        BY <1>14, ReleasedType, WakeType DEF PreflightFails, Checkpointed, TypeOK, Wake, Move,
           Job,
                RetryClass, TaskStatus, Lease
    <1>15. ASSUME NEW class \in RetryClass, NEW s \in {"early", "late"}, RunFails(x, class, s)
           PROVE  TypeOK'
        <2>1. stage' \in [X -> {"none", "early", "late"}] /\ job' \in [X -> Job]
            BY <1>15 DEF RunFails, Checkpointed, TypeOK, Move, Job, RetryClass
        <2>2. /\ CoreTypes'
              /\ lease' \in [X -> Lease]
            BY <1>15, FailTypes DEF RunFails, TypeOK
        <2> QED BY <1>15, <2>1, <2>2, WakeType DEF RunFails, TypeOK, Wake
    <1> QED BY <1>1, <1>2, <1>3, <1>4, <1>5, <1>6, <1>7, <1>8, <1>9, <1>10, <1>11, <1>12,
               <1>13, <1>14, <1>15 DEF JobStep

(* A step of a route that has begun keeps the types.                       *)
LEMMA RouteStepTypes ==
    ASSUME TypeOK, NEW x \in X, RouteStep(x)
    PROVE  TypeOK'
    <1>1. ASSUME ReplaySucceeds(x) PROVE TypeOK'
        BY <1>1, DeliverTypes, WakeType DEF ReplaySucceeds, TypeOK, WakeAlso, Route
    <1>2. ASSUME ReplayFails(x) PROVE TypeOK'
        <2>1. [status EXCEPT ![x] = "failed"] \in [X -> TaskStatus]
            BY DEF TypeOK, TaskStatus
        <2>2. CoreTypes'
            BY <1>2, <2>1, Parts, ReconcileTypes DEF ReplayFails, TypeOK
        <2> QED BY <1>2, <2>2, WakeType DEF ReplayFails, TypeOK, Wake, Route
    <1>3. ASSUME RetrySyncSwitch(x) PROVE TypeOK'
        BY <1>3, Parts DEF RetrySyncSwitch, TypeOK, Route
    <1>4. ASSUME RetrySyncDone(x) PROVE TypeOK'
        <2>1. /\ CoreTypes'
              /\ pump' \in [Execs -> Pump]
              /\ moved' \in [Lines -> BOOLEAN]
            BY <1>4, Parts, RecordBaseTypes DEF RetrySyncDone
        <2> QED BY <1>4, <2>1 DEF RetrySyncDone, TypeOK, Route
    <1> QED BY <1>1, <1>2, <1>3, <1>4 DEF RouteStep

(* The recovery of a restart keeps the types.                              *)
LEMMA RecoveryTypes ==
    ASSUME TypeOK, RecoveryNext
    PROVE  TypeOK'
    <1>1. ASSUME NEW e \in Execs, NEW x \in X, RecoverTask(e, x) PROVE TypeOK'
        <2>1. CASE RetriesLeft(x)
            BY <1>1, <2>1, RetryTypes, WakeType DEF RecoverTask, TypeOK, Wake
        <2>2. Released(line, x) \in [Lines -> Line]
            BY ReleasedType DEF TypeOK
        <2>3. CASE ~RetriesLeft(x)
            BY <1>1, <2>3, <2>2, WakeType DEF RecoverTask, TypeOK, Wake, TaskStatus, Lease
        <2> QED BY <1>1, <2>1, <2>3
    <1>2. ASSUME NEW e \in Execs, RecoverWorkflow(e) PROVE TypeOK'
        <2>1. CoreTypes'
            BY <1>2, ReconcileTypes DEF RecoverWorkflow, TypeOK
        <2> QED BY <1>2, <2>1, WakeType DEF RecoverWorkflow, TypeOK, Wake
    <1> QED BY <1>1, <1>2 DEF RecoveryNext

(* What an operator does keeps the types.                                  *)
LEMMA OperatorTypes ==
    ASSUME TypeOK, OperatorNext
    PROVE  TypeOK'
    <1>1. ASSUME EditPlan PROVE TypeOK'
        BY <1>1, WakeType DEF EditPlan, TypeOK, Wake
    <1>2. ASSUME NEW e \in Execs, Create(e) PROVE TypeOK'
        <2> DEFINE st == [x \in X |-> IF ExecOf(x) = e /\ AttemptOf(x) = 1
                                      THEN "pending" ELSE status[x]]
                   lines == {l \in Lines : l[1] = e /\ l[2] \in LineStreams}
                   ln == [l \in Lines |->
                             [line[l] EXCEPT !.status = IF l \in lines THEN "active" ELSE @]]
        <2>1. st \in [X -> TaskStatus]
            BY DEF TypeOK, TaskStatus
        <2>2. ln \in [Lines -> Line]
            BY DEF TypeOK, Line, LineStatus
        <2>3. Reconcile(e, "running", st, ln, outcome)
            BY <1>2 DEF Create
        <2>4. "running" \in WorkflowStatus
            BY DEF WorkflowStatus
        <2> HIDE DEF st, ln
        <2>5. CoreTypes'
            BY <1>2, <2>1, <2>2, <2>3, <2>4, ReconcileTypes DEF TypeOK
        <2> QED BY <1>2, <2>5, WakeType DEF Create, TypeOK, Wake, Provisioner
    <1>3. ASSUME NEW e \in Execs, Pause(e) PROVE TypeOK'
        <2>1. CoreTypes'
            BY <1>3, ReconcileTypes DEF Pause, TypeOK, WorkflowStatus
        <2> QED BY <1>3, <2>1, WakeType DEF Pause, TypeOK, Wake
    <1>4. ASSUME NEW e \in Execs, Resume(e) PROVE TypeOK'
        <2>1. CoreTypes'
            BY <1>4, ReconcileTypes DEF Resume, TypeOK, WorkflowStatus
        <2> QED BY <1>4, <2>1, WakeType DEF Resume, TypeOK, Wake
    <1>5. ASSUME NEW e \in Execs, Cancel(e) PROVE TypeOK'
        <2>1. ASSUME NEW l \in Lines PROVE line'[l] \in Line
            BY <1>5, <2>1 DEF Cancel, TypeOK, Line, LineStatus
        <2>2. line' \in [Lines -> Line]
            BY <1>5, <2>1 DEF Cancel
        <2> QED BY <1>5, <2>2, WakeType DEF Cancel, TypeOK, Wake, WorkflowStatus, TaskStatus,
                   Lease
    <1>6. ASSUME NEW x \in X, ManualSubmit(x) PROVE TypeOK'
        BY <1>6, DeliverTypes, WakeType DEF ManualSubmit, TypeOK, WakeAlso
    <1>7. ASSUME NEW x \in X, Approve(x) PROVE TypeOK'
        BY <1>7, CompleteTypes, WakeType DEF Approve, TypeOK, WakeAlso
    <1>8. ASSUME NEW x \in X, Reject(x) PROVE TypeOK'
        BY <1>8, FailTypes, WakeType DEF Reject, TypeOK, WakeAlso
    <1>9. ASSUME NEW x \in X, Merge(x) PROVE TypeOK'
        <2>1. [line EXCEPT ![LineOf(x)].status = "merged"] \in [Lines -> Line]
            BY Parts, LineStatusType DEF TypeOK, LineStatus
        <2> QED BY <1>9, <2>1, DeliverTypes, WakeType DEF Merge, TypeOK, Wake
    <1>10. ASSUME NEW x \in X, Retry(x) PROVE TypeOK'
        <2>1. Reopened(ExecOf(x)) \in WorkflowStatus
            BY Parts DEF Reopened, TypeOK, WorkflowStatus
        <2> QED BY <1>10, <2>1, RetryTypes, WakeType DEF Retry, TypeOK, WakeAlso
    <1>11. ASSUME NEW x \in X, RetrySyncStart(x) PROVE TypeOK'
        BY <1>11 DEF RetrySyncStart, TypeOK, durable, Route
    <1>12. ASSUME NEW x \in X, ReplayBegin(x) PROVE TypeOK'
        BY <1>12, WakeType DEF ReplayBegin, Reopened, TypeOK, Wake, Route, TaskStatus,
           WorkflowStatus
    <1>13. ASSUME NEW x \in X, CancelRun(x) PROVE TypeOK'
        BY <1>13, WakeType DEF CancelRun, TypeOK, durable, Wake, Move, Job
    <1> QED BY <1>1, <1>2, <1>3, <1>4, <1>5, <1>6, <1>7, <1>8, <1>9, <1>10, <1>11, <1>12,
               <1>13 DEF OperatorNext

(* Time and crashes keep the types.                                        *)
LEMMA EnvironmentTypes ==
    ASSUME TypeOK, EnvironmentNext
    PROVE  TypeOK'
    <1>1. ASSUME Crash PROVE TypeOK'
        BY <1>1, BoundAssumption DEF Crash, TypeOK, durable, Job, Route, Pump
    <1>2. ASSUME NEW x \in X, LeaseExpires(x) PROVE TypeOK'
        BY <1>2 DEF LeaseExpires, TypeOK, volatile, Lease
    <1> QED BY <1>1, <1>2 DEF EnvironmentNext

(* The initial state has the types.                                        *)
LEMMA TypeInit == Init => TypeOK
    BY BoundAssumption DEF Init, TypeOK, WorkflowStatus, TaskStatus, Lease, Line, LineStatus,
       Job, Route, Pump

-----------------------------------------------------------------------------
(* Every variable stays in its type, for every plan and every bound.       *)
THEOREM TypeCorrect == Spec => []TypeOK
    <1>1. TypeOK /\ [Next]_vars => TypeOK'
        <2> SUFFICES ASSUME TypeOK, [Next]_vars PROVE TypeOK'
            OBVIOUS
        <2>1. CASE Next
            BY <2>1, PumpStepTypes, ProvisionStepTypes, JobStepTypes, RouteStepTypes,
               RecoveryTypes,
               OperatorTypes, EnvironmentTypes DEF Next
        <2>2. CASE UNCHANGED vars
            BY <2>2 DEF vars, durable, volatile, TypeOK
        <2> QED BY <2>1, <2>2
    <1> QED BY <1>1, TypeInit, PTL DEF Spec

-----------------------------------------------------------------------------
(* One active execution.                                                   *)

(* A reconcile changes the status of one workflow, leaves it as it is      *)
(* given or ends it, and throws when the plan has been edited.             *)
LEMMA ReconcileWorkflow ==
    ASSUME wf \in [Execs -> WorkflowStatus],
           NEW e \in Execs, NEW w, NEW st, NEW ln, NEW oc, Reconcile(e, w, st, ln, oc)
    PROVE  /\ \A f \in Execs \ {e} : wf'[f] = wf[f]
           /\ wf'[e] \in {w, "cancelled", "failed"}
           /\ wf'[e] \in ActiveWorkflow => w \in ActiveWorkflow /\ current[e]
    <1>1. CASE w \notin ActiveWorkflow
        BY <1>1 DEF Reconcile
    <1>2. CASE w \in ActiveWorkflow
        <2>1. current[e] /\ wf' = [wf EXCEPT ![e] = Projected(w, e, status')]
            BY <1>2 DEF Reconcile
        <2>2. Projected(w, e, status') \in {w, "cancelled", "failed"}
            BY DEF Projected
        <2> QED BY <1>2, <2>1, <2>2
    <1> QED BY <1>1, <1>2

(* Nothing becomes active.                                                 *)
NoneActivated ==
    /\ current' = current
    /\ \A f \in Execs : wf'[f] \in ActiveWorkflow => wf[f] \in ActiveWorkflow

(* e may become active: the plan is its own and no other is active.        *)
OnlyActivated(e) ==
    /\ current' = current
    /\ current[e]
    /\ \A f \in Execs \ {e} : wf[f] \notin ActiveWorkflow /\ wf'[f] = wf[f]

(* A step that activates nothing keeps the exclusion.                      *)
LEMMA NoneActivatedKeeps ==
    ASSUME OneActiveExecution, NoneActivated
    PROVE  OneActiveExecution'
    BY DEF OneActiveExecution, NoneActivated

(* So does one that activates an execution while no other is active.       *)
LEMMA OnlyActivatedKeeps ==
    ASSUME OneActiveExecution, NEW e \in Execs, OnlyActivated(e)
    PROVE  OneActiveExecution'
    BY DEF OneActiveExecution, OnlyActivated

(* A reconcile of an active workflow's draft activates nothing,            *)
LEMMA ReconcileActivatesNone ==
    ASSUME wf \in [Execs -> WorkflowStatus],
           NEW e \in Execs, NEW w, w \in ActiveWorkflow => wf[e] \in ActiveWorkflow,
           NEW st, NEW ln, NEW oc, Reconcile(e, w, st, ln, oc), current' = current
    PROVE  NoneActivated
    BY ReconcileWorkflow DEF NoneActivated, ActiveWorkflow

(* nor does a delivery,                                                    *)
LEMMA DeliverActivatesNone ==
    ASSUME TypeOK, NEW x \in X, NEW ln, Deliver(x, ln) \/ Complete(x, ln), current' = current
    PROVE  NoneActivated
    <1>1. \E st, l, oc : Reconcile(ExecOf(x), wf[ExecOf(x)], st, l, oc)
        BY DEF Deliver, Complete, AwaitReview
    <1> QED BY <1>1, Parts, ReconcileActivatesNone DEF TypeOK

(* nor a failure.                                                          *)
LEMMA FailActivatesNone ==
    ASSUME TypeOK, NEW x \in X, FailAndReconcile(x), current' = current
    PROVE  NoneActivated
    <1>1. \E st, l, oc : Reconcile(ExecOf(x), wf[ExecOf(x)], st, l, oc)
        BY DEF FailAndReconcile
    <1> QED BY <1>1, Parts, ReconcileActivatesNone DEF TypeOK

(* A retry activates at most the execution that it reopens.                *)
LEMMA RetryActivates ==
    ASSUME TypeOK, NEW x \in X, NEW w, CreateRetry(x, w, line), current' = current
    PROVE  /\ w = wf[ExecOf(x)] => NoneActivated
           /\ (\A f \in Execs \ {ExecOf(x)} : wf[f] \notin ActiveWorkflow) /\ current[ExecOf(x)]
                  => OnlyActivated(ExecOf(x))
    <1>1. \E st, l, oc : Reconcile(ExecOf(x), w, st, l, oc)
        BY DEF CreateRetry
    <1>2. ExecOf(x) \in Execs
        BY Parts
    <1>3. w = wf[ExecOf(x)] => NoneActivated
        BY <1>1, <1>2, ReconcileActivatesNone DEF TypeOK
    <1>4. \A f \in Execs \ {ExecOf(x)} : wf'[f] = wf[f]
        BY <1>1, <1>2, ReconcileWorkflow DEF TypeOK
    <1> QED BY <1>3, <1>4 DEF OnlyActivated

(* The record of a line's base activates nothing.                          *)
LEMMA RecordBaseActivatesNone ==
    ASSUME TypeOK, NEW l \in Lines, RecordBase(l), current' = current
    PROVE  NoneActivated
    <1>1. \/ wf' = wf
          \/ \E st, ln, oc : Reconcile(l[1], wf[l[1]], st, ln, oc)
        BY DEF RecordBase
    <1>2. l[1] \in Execs
        BY DEF Lines
    <1> QED BY <1>1, <1>2, ReconcileActivatesNone DEF TypeOK, NoneActivated

(* A retry and a replay reopen a failed workflow only when it may be.      *)
LEMMA ReopenActivates ==
    ASSUME TypeOK, NEW e \in Execs, CanReopen(e), current' = current,
           \A f \in Execs \ {e} : wf'[f] = wf[f],
           wf'[e] \in ActiveWorkflow => Reopened(e) \in ActiveWorkflow
    PROVE  NoneActivated \/ OnlyActivated(e)
    <1>1. CASE wf[e] = "failed"
        BY <1>1 DEF CanReopen, OnlyActivated
    <1>2. CASE wf[e] # "failed"
        BY <1>2 DEF Reopened, NoneActivated
    <1> QED BY <1>1, <1>2

(* Every step activates nothing, or one execution alone, or edits the      *)
(* plan.                                                                   *)
LEMMA ActivationOfSteps ==
    ASSUME TypeOK, OneActiveExecution, Next
    PROVE  NoneActivated \/ (\E e \in Execs : OnlyActivated(e)) \/ EditPlan
    <1> DEFINE Goal == NoneActivated \/ (\E e \in Execs : OnlyActivated(e)) \/ EditPlan
    <1>1. ASSUME NEW e \in Execs, PumpStep(e) PROVE Goal
        <2>1. CASE PumpStart(e) \/ PumpClose(e)
            BY <2>1 DEF PumpStart, PumpClose, durable, NoneActivated
        <2>2. CASE PumpPass(e)
            <3>1. CASE wf[e] = "running"
                BY <2>2, <3>1, ReconcileActivatesNone DEF PumpPass, TypeOK
            <3>2. CASE wf[e] # "running"
                BY <2>2, <3>2 DEF PumpPass, NoneActivated
            <3> QED BY <3>1, <3>2
        <2>3. ASSUME NEW projected \in BOOLEAN, Finalize(e, projected) PROVE Goal
            BY <2>3 DEF Finalize, NoneActivated, TypeOK, ActiveWorkflow
        <2> QED BY <1>1, <2>1, <2>2, <2>3 DEF PumpStep
    <1>2. ASSUME NEW l \in Lines, NEW who \in Provisioner, ProvisionStep(l, who) PROVE Goal
        <2>1. CASE ProvisionDone(l, who) \/ ProvisionFails(l, who)
            <3>1. \E st, ln, oc : Reconcile(l[1], wf[l[1]], st, ln, oc)
                BY <2>1 DEF ProvisionDone, ProvisionFails
            <3>2. l[1] \in Execs /\ current' = current
                BY <2>1 DEF Lines, ProvisionDone, ProvisionFails
            <3> QED BY <3>1, <3>2, ReconcileActivatesNone DEF TypeOK
        <2>2. CASE ProvisionReturns(l, who)
            BY <2>2 DEF ProvisionReturns, durable, NoneActivated
        <2> QED BY <1>2, <2>1, <2>2 DEF ProvisionStep
    <1>3. ASSUME NEW x \in X, JobStep(x) PROVE Goal
        <2>1. CASE \/ SyncStart(x) \/ Look(x) \/ PrepareRun(x) \/ RunReturns(x)
                   \/ \E class \in RetryClass : DispatchThrows(x, class)
            BY <2>1 DEF SyncStart, Look, PrepareRun, RunReturns, DispatchThrows, durable, NoneActivated
        <2>2. CASE SyncSwitch(x) \/ Claim(x) \/ \E class \in RetryClass : PreflightFails(x, class)
            BY <2>2 DEF SyncSwitch, Claim, PreflightFails, NoneActivated
        <2>3. CASE SyncDone(x)
            BY <2>3, Parts, RecordBaseActivatesNone DEF SyncDone
        <2>4. CASE ManualCheckpoint(x) \/ PrepareIntegration(x)
            <3>1. \E st, ln, oc : Reconcile(ExecOf(x), wf[ExecOf(x)], st, ln, oc)
                BY <2>4 DEF ManualCheckpoint, PrepareIntegration
            <3>2. current' = current
                BY <2>4 DEF ManualCheckpoint, PrepareIntegration
            <3> QED BY <3>1, <3>2, Parts, ReconcileActivatesNone DEF TypeOK
        <2>5. CASE SubmitVerification(x) \/ RunSucceeds(x)
            BY <2>5, DeliverActivatesNone DEF SubmitVerification, RunSucceeds
        <2>6. CASE RecordFailure(x)
            <3>1. CASE UNCHANGED wf
                BY <2>6, <3>1 DEF RecordFailure, NoneActivated
            <3>2. CASE CreateRetry(x, wf[ExecOf(x)], line)
                BY <2>6, <3>2, RetryActivates DEF RecordFailure
            <3>3. CASE FailAndReconcile(x)
                BY <2>6, <3>3, FailActivatesNone DEF RecordFailure
            <3> QED BY <2>6, <3>1, <3>2, <3>3 DEF RecordFailure, Recorded
        <2>7. ASSUME NEW class \in RetryClass, NEW s \in {"early", "late"}, RunFails(x, class, s)
              PROVE  Goal
            <3>1. CASE UNCHANGED wf
                BY <2>7, <3>1 DEF RunFails, NoneActivated
            <3>2. CASE FailAndReconcile(x)
                BY <2>7, <3>2, FailActivatesNone DEF RunFails
            <3> QED BY <2>7, <3>1, <3>2 DEF RunFails
        <2> QED BY <1>3, <2>1, <2>2, <2>3, <2>4, <2>5, <2>6, <2>7 DEF JobStep
    <1>4. ASSUME NEW x \in X, RouteStep(x) PROVE Goal
        <2>1. CASE ReplaySucceeds(x)
            BY <2>1, DeliverActivatesNone DEF ReplaySucceeds
        <2>2. CASE ReplayFails(x)
            BY <2>2, Parts, ReconcileActivatesNone DEF ReplayFails, TypeOK
        <2>3. CASE RetrySyncSwitch(x)
            BY <2>3 DEF RetrySyncSwitch, NoneActivated
        <2>4. CASE RetrySyncDone(x)
            BY <2>4, Parts, RecordBaseActivatesNone DEF RetrySyncDone
        <2> QED BY <1>4, <2>1, <2>2, <2>3, <2>4 DEF RouteStep
    <1>5. ASSUME RecoveryNext PROVE Goal
        <2>1. ASSUME NEW e \in Execs, RecoverWorkflow(e) PROVE Goal
            BY <2>1, ReconcileActivatesNone DEF RecoverWorkflow, TypeOK
        <2>2. ASSUME NEW e \in Execs, NEW x \in X, RecoverTask(e, x) PROVE Goal
            <3>1. ExecOf(x) = e
                BY <2>2 DEF RecoverTask, Interrupted, CurrentExecutions
            <3>2. CASE RetriesLeft(x)
                BY <2>2, <3>1, <3>2, RetryActivates DEF RecoverTask
            <3>3. CASE ~RetriesLeft(x)
                BY <2>2, <3>3 DEF RecoverTask, NoneActivated
            <3> QED BY <3>2, <3>3
        <2> QED BY <1>5, <2>1, <2>2 DEF RecoveryNext
    <1>6. ASSUME NEW e \in Execs, Create(e) \/ Pause(e) \/ Resume(e) \/ Cancel(e) PROVE Goal
        <2>1. CASE Create(e)
            <3>1. \E st, ln, oc : Reconcile(e, "running", st, ln, oc)
                BY <2>1 DEF Create
            <3>2. \A f \in Execs \ {e} : wf'[f] = wf[f]
                BY <3>1, ReconcileWorkflow DEF TypeOK
            <3>3. current' = current /\ \A f \in Execs : wf[f] \notin ActiveWorkflow
                BY <2>1 DEF Create
            <3>4. CASE current[e]
                BY <3>2, <3>3, <3>4 DEF OnlyActivated
            <3>5. CASE ~current[e]
                <4>1. wf'[e] \notin ActiveWorkflow
                    BY <3>1, <3>5, ReconcileWorkflow DEF TypeOK
                <4> QED BY <3>2, <3>3, <4>1 DEF NoneActivated
            <3> QED BY <3>4, <3>5
        <2>2. CASE Pause(e) \/ Resume(e)
            <3>1. /\ wf[e] \in ActiveWorkflow /\ current' = current
                  /\ \E w, st, ln, oc : Reconcile(e, w, st, ln, oc)
                BY <2>2 DEF Pause, Resume, ActiveWorkflow
            <3> QED BY <3>1, ReconcileActivatesNone DEF TypeOK
        <2>3. CASE Cancel(e)
            BY <2>3 DEF Cancel, NoneActivated, TypeOK, ActiveWorkflow
        <2> QED BY <1>6, <2>1, <2>2, <2>3
    <1>7. ASSUME NEW x \in X,
                 \/ ManualSubmit(x) \/ Approve(x) \/ Reject(x) \/ Merge(x)
                 \/ Retry(x) \/ RetrySyncStart(x) \/ ReplayBegin(x) \/ CancelRun(x)
          PROVE  Goal
        <2>1. CASE ManualSubmit(x) \/ Approve(x) \/ Merge(x)
            BY <2>1, DeliverActivatesNone DEF ManualSubmit, Approve, Merge
        <2>2. CASE Reject(x)
            BY <2>2, FailActivatesNone DEF Reject
        <2>3. CASE Retry(x)
            <3>1. CASE wf[ExecOf(x)] = "failed"
                BY <2>3, <3>1, Parts, RetryActivates DEF Retry, CanReopen
            <3>2. CASE wf[ExecOf(x)] # "failed"
                BY <2>3, <3>2, RetryActivates DEF Retry, Reopened
            <3> QED BY <3>1, <3>2
        <2>4. CASE RetrySyncStart(x) \/ CancelRun(x)
            BY <2>4 DEF RetrySyncStart, CancelRun, durable, NoneActivated
        <2>5. CASE ReplayBegin(x)
            <3>1. ExecOf(x) \in Execs
                BY Parts
            <3> QED BY <2>5, <3>1, ReopenActivates DEF ReplayBegin, TypeOK
        <2> QED BY <1>7, <2>1, <2>2, <2>3, <2>4, <2>5
    <1>8. ASSUME EnvironmentNext PROVE Goal
        BY <1>8 DEF EnvironmentNext, Crash, LeaseExpires, durable, NoneActivated
    <1> QED BY <1>1, <1>2, <1>3, <1>4, <1>5, <1>6, <1>7, <1>8 DEF Next, OperatorNext

(* Two executions of a workflow are never running or paused at once, and   *)
(* the one that is was created for the present plan.                       *)
THEOREM ExecutionsExclusive == Spec => []OneActiveExecution
    <1>1. Init => OneActiveExecution
        BY DEF Init, OneActiveExecution, ActiveWorkflow
    <1>2. TypeOK /\ OneActiveExecution /\ [Next]_vars => OneActiveExecution'
        <2> SUFFICES ASSUME TypeOK, OneActiveExecution, [Next]_vars PROVE OneActiveExecution'
            OBVIOUS
        <2>1. CASE Next
            <3>1. CASE EditPlan
                BY <3>1 DEF EditPlan, OneActiveExecution
            <3> QED BY <2>1, <3>1, ActivationOfSteps, NoneActivatedKeeps, OnlyActivatedKeeps
        <2>2. CASE UNCHANGED vars
            BY <2>2 DEF vars, durable, OneActiveExecution
        <2> QED BY <2>1, <2>2
    <1> QED BY <1>1, <1>2, TypeCorrect, PTL DEF Spec

-----------------------------------------------------------------------------
(* Replays.                                                                *)

(* Only the route that replays a stage starts a replay.                    *)
LEMMA StepReplays ==
    ASSUME TypeOK, [Next]_vars, NEW x \in X, route'[x] = "replaying"
    PROVE  route[x] = "replaying" \/ ReplayBegin(x)
    <1> USE DEF TypeOK
    <1>1. CASE \E e \in Execs : PumpStep(e)
        BY <1>1 DEF PumpStep, PumpStart, PumpPass, PumpClose, Finalize
    <1>2. CASE \E l \in Lines, who \in Provisioner : ProvisionStep(l, who)
        BY <1>2 DEF ProvisionStep, ProvisionDone, ProvisionReturns, ProvisionFails
    <1>3. ASSUME NEW y \in X, JobStep(y) PROVE route' = route
        BY <1>3 DEF JobStep, SyncStart, SyncSwitch, SyncDone, Look, ManualCheckpoint,
           PrepareIntegration, Claim, SubmitVerification, PrepareRun, RunSucceeds, RunReturns,
           RecordFailure, DispatchThrows, PreflightFails, RunFails
    <1>4. CASE \E y \in X : RouteStep(y)
        BY <1>4 DEF RouteStep, ReplaySucceeds, ReplayFails, RetrySyncSwitch, RetrySyncDone
    <1>5. CASE RecoveryNext
        BY <1>5 DEF RecoveryNext, RecoverWorkflow, RecoverTask
    <1>6. CASE OperatorNext
        <2>1. CASE EditPlan \/ \E e \in Execs : Create(e) \/ Pause(e) \/ Resume(e) \/ Cancel(e)
            BY <2>1 DEF EditPlan, Create, Pause, Resume, Cancel
        <2>2. ASSUME NEW y \in X, \/ ManualSubmit(y) \/ Approve(y) \/ Reject(y) \/ Merge(y)
                                  \/ Retry(y) \/ CancelRun(y)
              PROVE route' = route
            BY <2>2 DEF ManualSubmit, Approve, Reject, Merge, Retry, CancelRun
        <2>3. ASSUME NEW y \in X, RetrySyncStart(y) \/ ReplayBegin(y)
              PROVE  route[x] = "replaying" \/ ReplayBegin(x)
            BY <2>3 DEF RetrySyncStart, ReplayBegin
        <2> QED BY <1>6, <2>1, <2>2, <2>3 DEF OperatorNext
    <1>7. CASE EnvironmentNext
        BY <1>7 DEF EnvironmentNext, Crash, LeaseExpires, volatile
    <1>8. CASE UNCHANGED vars
        BY <1>8 DEF vars, volatile
    <1> QED BY <1>1, <1>2, <1>3, <1>4, <1>5, <1>6, <1>7, <1>8 DEF Next
=============================================================================
