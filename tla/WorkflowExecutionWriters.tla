---------------------- MODULE WorkflowExecutionWriters ----------------------
(***************************************************************************)
(* The writer reservation of a repository line is a lock, for every plan,  *)
(* as long as nobody replays the failed stage of a repository_change (the  *)
(* one path that skips the reservation).                                   *)
(*                                                                         *)
(* The inductive invariant adds to WriterReserved that an execution not    *)
(* yet created has no tasks, so that its creation releases nobody, and     *)
(* that a replay in flight is of a replayable task of a created execution. *)
(***************************************************************************)
EXTENDS WorkflowExecutionProofs

NoWriterReplayed == \A t \in Replayable : Executor[t] # "repository_change"

Change(x) == Kind(x) = "repository_change"

(* WriterReserved of a draft.                                              *)
Locked(st, ln) ==
    /\ \A l \in Lines : ln[l].writer # None =>
           /\ ln[l].writer \in X
           /\ LineOf(ln[l].writer) = l
           /\ Change(ln[l].writer)
           /\ st[ln[l].writer] \in Failable
    /\ \A x \in X : (Change(x) /\ st[x] \in Failable) => ln[LineOf(x)].writer = x

Unstarted == \A x \in X : wf[ExecOf(x)] = "absent" => status[x] = "absent"
Replays == \A x \in X : route[x] = "replaying" =>
               TaskOf(x) \in Replayable /\ wf[ExecOf(x)] # "absent"
WriterInv == TypeOK /\ Locked(status, line) /\ Unstarted /\ Replays

(* What every step keeps of it but for the replays.                        *)
Keeps ==
    /\ Locked(status', line')
    /\ Unstarted'
    /\ \A f \in Execs : wf'[f] = "absent" => wf[f] = "absent"

-----------------------------------------------------------------------------
(* The draft a mutation hands to the reconcile.                            *)

(* The lines may change in anything but their writer.                      *)
LEMMA LockedLines ==
    ASSUME NEW st, NEW ln, NEW ln2, Locked(st, ln),
           \A l \in Lines : ln2[l].writer = ln[l].writer
    PROVE  Locked(st, ln2)
    BY Parts DEF Locked

(* An execution that does not write, or stays on its side of the lock, may *)
(* change its status.                                                      *)
LEMMA LockedStays ==
    ASSUME NEW st \in [X -> TaskStatus], NEW ln, Locked(st, ln),
           NEW x \in X, NEW s,
           Change(x) => (st[x] \in Failable <=> s \in Failable)
    PROVE  Locked([st EXCEPT ![x] = s], ln)
    BY DEF Locked

(* One that ends gives its reservation back.                               *)
LEMMA LockedReleased ==
    ASSUME NEW st \in [X -> TaskStatus], NEW ln \in [Lines -> Line], Locked(st, ln),
           NEW x \in X, NEW s, s \notin Failable
    PROVE  Locked([st EXCEPT ![x] = s], Released(ln, x))
    <1> DEFINE st2 == [st EXCEPT ![x] = s]
               ln2 == Released(ln, x)
    <1>1. LineOf(x) \in Lines
        BY Parts
    <1>2. \A l \in Lines : ln2[l].writer = IF ln[l].writer = x /\ l = LineOf(x)
                                            THEN None ELSE ln[l].writer
        BY <1>1 DEF Released, Line
    <1>3. ASSUME NEW l \in Lines, ln2[l].writer # None
          PROVE  /\ ln2[l].writer \in X /\ LineOf(ln2[l].writer) = l
                 /\ Change(ln2[l].writer) /\ st2[ln2[l].writer] \in Failable
        <2>1. ln2[l].writer = ln[l].writer /\ ln[l].writer # x
            BY <1>2, <1>3 DEF Locked
        <2> QED BY <1>3, <2>1 DEF Locked
    <1>4. ASSUME NEW y \in X, Change(y), st2[y] \in Failable
          PROVE  ln2[LineOf(y)].writer = y
        <2>1. y # x /\ st[y] \in Failable
            BY <1>4
        <2>2. LineOf(y) \in Lines
            BY Parts
        <2> QED BY <1>2, <1>4, <2>1, <2>2 DEF Locked
    <1> HIDE DEF st2, ln2
    <1>5. Locked(st2, ln2)
        BY <1>3, <1>4 DEF Locked
    <1> QED BY <1>5 DEF st2, ln2

-----------------------------------------------------------------------------
(* The reconcile.                                                          *)

(* Of the changes of one line, one pass queues at most one: the second     *)
(* sees the first in its capacity.                                         *)
LEMMA QueuedAlone ==
    ASSUME NEW e, NEW st, NEW ln, NEW w, NEW ready \in SUBSET Waiting(e, st),
           NEW queued \in SUBSET ready, Queues(queued, ready, w, st, ln),
           NEW x \in queued, NEW y \in queued, Change(x), Change(y), LineOf(x) = LineOf(y)
    PROVE  x = y
    <1>1. /\ x \in X /\ ExecOf(x) = e /\ Latest(st, x)
          /\ y \in X /\ ExecOf(y) = e /\ Latest(st, y)
        BY DEF Waiting, CurrentExecutions
    <1>2. /\ TaskOf(x) \in Tasks /\ AttemptOf(x) \in Attempts
          /\ TaskOf(y) \in Tasks /\ AttemptOf(y) \in Attempts
        BY <1>1, Parts
    <1>3. ASSUME NEW a \in queued, NEW b \in queued, Change(a), Change(b),
                 LineOf(a) = LineOf(b)
          PROVE  ~(Order[TaskOf(a)] < Order[TaskOf(b)])
        <2> SUFFICES ASSUME Order[TaskOf(a)] < Order[TaskOf(b)] PROVE FALSE
            OBVIOUS
        <2> DEFINE before == {z \in queued : Order[TaskOf(z)] < Order[TaskOf(b)]}
        <2>1. Capacity(st, ln, before, b)
            BY DEF Queues
        <2>2. a \in Busy(st, before, b)
            BY DEF Busy
        <2> HIDE DEF before
        <2>3. {z \in Busy(st, before, b) : Kind(z) = "repository_change"
                                            /\ LineOf(z) = LineOf(b)} = {}
            BY <1>3, <2>1 DEF Capacity, Change
        <2> QED BY <1>3, <2>2, <2>3 DEF Change
    <1>4. Order[TaskOf(x)] = Order[TaskOf(y)]
        <2>1. Order[TaskOf(x)] \in Nat /\ Order[TaskOf(y)] \in Nat
            BY <1>2, ShapeAssumption
        <2> QED BY <2>1, <1>3
    <1>5. TaskOf(x) = TaskOf(y)
        BY <1>2, <1>4, ShapeAssumption
    <1>6. /\ x = <<e, TaskOf(x), AttemptOf(x)>>
          /\ y = <<e, TaskOf(x), AttemptOf(y)>>
        BY <1>1, <1>5, Parts
    <1>7. ~(AttemptOf(x) < AttemptOf(y)) /\ ~(AttemptOf(y) < AttemptOf(x))
        BY <1>1, <1>2, <1>5, <1>6 DEF Latest
    <1>8. AttemptOf(x) \in Nat /\ AttemptOf(y) \in Nat
        BY <1>2, BoundAssumption DEF Attempts
    <1> QED BY <1>6, <1>7, <1>8

(* A queued change finds the line free.                                    *)
LEMMA QueuedFree ==
    ASSUME NEW st, NEW ln, NEW w, NEW ready,
           NEW queued \in SUBSET ready, Queues(queued, ready, w, st, ln),
           NEW x \in queued, Change(x)
    PROVE  ln[LineOf(x)].writer = None
    BY DEF Queues, Capacity, Change

(* A pass gives a line to a change that it queues on it, or leaves it.     *)
LEMMA NewWriterNames ==
    ASSUME NEW queued, NEW l, NEW writer
    PROVE  \/ /\ NewWriter(queued, l, writer) \in queued
              /\ Change(NewWriter(queued, l, writer))
              /\ LineOf(NewWriter(queued, l, writer)) = l
           \/ /\ NewWriter(queued, l, writer) = writer
              /\ \A x \in queued : ~(Change(x) /\ LineOf(x) = l)
    <1> DEFINE claims == {x \in queued : Kind(x) = "repository_change" /\ LineOf(x) = l}
    <1>1. CASE claims = {}
        BY <1>1 DEF NewWriter, Change
    <1>2. CASE claims # {}
        <2>1. (CHOOSE x \in claims : TRUE) \in claims
            BY <1>2
        <2> QED BY <1>2, <2>1 DEF NewWriter, Change
    <1> QED BY <1>1, <1>2

(* A reconcile keeps the lock of its draft, and an execution unstarted.    *)
LEMMA ReconcileKeeps ==
    ASSUME wf \in [Execs -> WorkflowStatus], Unstarted,
           NEW e \in Execs, NEW w, NEW st \in [X -> TaskStatus],
           NEW ln \in [Lines -> Line], NEW oc,
           Locked(st, ln), Reconcile(e, w, st, ln, oc),
           \A x \in X : ExecOf(x) # e => st[x] = status[x],
           w # "absent" \/ (w = wf[e] /\ st = status)
    PROVE  Keeps
    <1>1. CASE w \notin ActiveWorkflow
        <2>1. status' = st /\ line' = ln /\ wf' = [wf EXCEPT ![e] = w]
            BY <1>1 DEF Reconcile
        <2> QED BY <2>1 DEF Keeps, Unstarted
    <1>2. CASE w \in ActiveWorkflow
        <2> DEFINE ready == {x \in Waiting(e, st) : Ready(st, ln, oc, w, x)}
        <2>1. PICK queued \in SUBSET ready :
                /\ Queues(queued, ready, w, st, ln)
                /\ status' = [x \in X |-> IF x \in queued THEN "queued"
                                          ELSE IF x \in ready THEN "ready"
                                          ELSE IF x \in Waiting(e, st) THEN "pending" ELSE st[x]]
                /\ line' = [l \in Lines |-> [ln[l] EXCEPT !.writer = NewWriter(queued, l, @)]]
            BY <1>2 DEF Reconcile
        <2>2. ready \in SUBSET Waiting(e, st)
            OBVIOUS
        <2>3. Waiting(e, st) \in SUBSET {x \in X : ExecOf(x) = e /\ st[x] \notin Failable}
            BY DEF Waiting, CurrentExecutions, Failable
        <2>4. \A l \in Lines : line'[l].writer = NewWriter(queued, l, ln[l].writer)
            BY <2>1 DEF Line
        <2>5. \A x \in X : /\ x \in queued => status'[x] = "queued"
                           /\ x \notin Waiting(e, st) => status'[x] = st[x]
                           /\ x \notin queued /\ x \in Waiting(e, st)
                                  => status'[x] \in {"ready", "pending"}
            BY <2>1, <2>2
        <2> HIDE DEF ready
        <2>6. ASSUME NEW l \in Lines, line'[l].writer # None
              PROVE  /\ line'[l].writer \in X /\ LineOf(line'[l].writer) = l
                     /\ Change(line'[l].writer) /\ status'[line'[l].writer] \in Failable
            <3>1. CASE line'[l].writer \in queued
                BY <2>2, <2>3, <2>4, <2>5, <2>6, <3>1, NewWriterNames, QueuedFree, <2>1
                   DEF Locked, Failable
            <3>2. CASE line'[l].writer = ln[l].writer
                BY <2>3, <2>5, <2>6, <3>2 DEF Locked
            <3> QED BY <2>4, <3>1, <3>2, NewWriterNames
        <2>7. ASSUME NEW x \in X, Change(x), status'[x] \in Failable
              PROVE  line'[LineOf(x)].writer = x
            <3>1. LineOf(x) \in Lines
                BY Parts
            <3>2. CASE x \in queued
                BY <2>1, <2>2, <2>4, <2>7, <3>1, <3>2, NewWriterNames, QueuedAlone
            <3>3. CASE x \notin queued
                <4>1. st[x] \in Failable
                    BY <2>5, <2>7, <3>3 DEF Failable
                <4>2. ln[LineOf(x)].writer = x /\ x # None
                    BY <2>7, <4>1, NoneAssumption DEF Locked
                <4>3. \A y \in queued : ~(Change(y) /\ LineOf(y) = LineOf(x))
                    BY <2>1, <4>2, QueuedFree
                <4> QED BY <2>4, <3>1, <4>2, <4>3, NewWriterNames
            <3> QED BY <3>2, <3>3
        <2>8. Locked(status', line')
            BY <2>6, <2>7 DEF Locked
        <2>9. \A f \in Execs : wf'[f] = "absent" => f # e /\ wf[f] = "absent"
            BY <1>2, ReconcileWorkflow DEF ActiveWorkflow
        <2>10. Unstarted'
            BY <2>3, <2>5, <2>9, Parts DEF Unstarted
        <2> QED BY <2>8, <2>9, <2>10 DEF Keeps
    <1> QED BY <1>1, <1>2

-----------------------------------------------------------------------------
(* The mutations.                                                          *)

(* A mutation of x of a created execution: the draft differs from the      *)
(* state in the execution of x only.                                       *)
LEMMA MutationKeeps ==
    ASSUME WriterInv, NEW x \in X, status[x] # "absent",
           NEW w, w # "absent", NEW st \in [X -> TaskStatus], NEW ln \in [Lines -> Line],
           NEW oc, Locked(st, ln), Reconcile(ExecOf(x), w, st, ln, oc),
           \A y \in X : ExecOf(y) # ExecOf(x) => st[y] = status[y]
    PROVE  Keeps
    BY Parts, ReconcileKeeps DEF WriterInv, TypeOK

(* An execution that exists is of a workflow execution that was created.   *)
LEMMA CreatedWorkflow ==
    ASSUME WriterInv, NEW x \in X, status[x] # "absent"
    PROVE  wf[ExecOf(x)] # "absent"
    BY DEF WriterInv, Unstarted

(* A reconcile of the state itself, the lines changed in anything but      *)
(* their writer.                                                           *)
LEMMA RefreshKeeps ==
    ASSUME WriterInv, NEW e \in Execs, NEW w, w # "absent" \/ w = wf[e],
           NEW ln \in [Lines -> Line], \A l \in Lines : ln[l].writer = line[l].writer,
           NEW oc, Reconcile(e, w, status, ln, oc)
    PROVE  Keeps
    <1>1. Locked(status, ln)
        BY LockedLines DEF WriterInv
    <1> QED BY <1>1, ReconcileKeeps DEF WriterInv, TypeOK

(* A completion over lines that are locked keeps the lock.                 *)
LEMMA CompleteKeeps ==
    ASSUME WriterInv, NEW x \in X, status[x] # "absent",
           NEW ln \in [Lines -> Line], Locked(status, ln), Complete(x, ln)
    PROVE  Keeps
    <1> DEFINE st == [status EXCEPT ![x] = "completed"]
    <1>1. Locked(st, Released(ln, x))
        BY LockedReleased DEF WriterInv, TypeOK, Failable
    <1>2. st \in [X -> TaskStatus] /\ Released(ln, x) \in [Lines -> Line]
        BY ReleasedType DEF WriterInv, TypeOK, TaskStatus
    <1>3. Reconcile(ExecOf(x), wf[ExecOf(x)], st, Released(ln, x), outcome')
        BY DEF Complete
    <1>4. \A y \in X : ExecOf(y) # ExecOf(x) => st[y] = status[y]
        BY DEF WriterInv, TypeOK
    <1> QED BY <1>1, <1>2, <1>3, <1>4, CreatedWorkflow, MutationKeeps

(* So does a delivery of outputs, reviewed or not,                         *)
LEMMA DeliverKeeps ==
    ASSUME WriterInv, NEW x \in X, status[x] \in Failable,
           NEW ln \in [Lines -> Line], Locked(status, ln), Deliver(x, ln)
    PROVE  Keeps
    <1>1. status[x] # "absent"
        BY DEF Failable
    <1>2. CASE Complete(x, ln)
        BY <1>1, <1>2, CompleteKeeps
    <1>3. CASE AwaitReview(x, ln)
        <2> DEFINE st == [status EXCEPT ![x] = "awaiting_human"]
        <2>1. Locked(st, ln)
            BY LockedStays DEF WriterInv, TypeOK, Failable
        <2>2. st \in [X -> TaskStatus]
            BY DEF WriterInv, TypeOK, TaskStatus
        <2>3. Reconcile(ExecOf(x), wf[ExecOf(x)], st, ln, outcome)
            BY <1>3 DEF AwaitReview
        <2>4. \A y \in X : ExecOf(y) # ExecOf(x) => st[y] = status[y]
            BY DEF WriterInv, TypeOK
        <2> QED BY <1>1, <2>1, <2>2, <2>3, <2>4, CreatedWorkflow, MutationKeeps
    <1> QED BY <1>2, <1>3 DEF Deliver

(* a failure, which releases the line of what failed,                      *)
LEMMA FailKeeps ==
    ASSUME WriterInv, NEW x \in X, status[x] # "absent", FailAndReconcile(x)
    PROVE  Keeps
    <1> DEFINE st == [status EXCEPT ![x] = "failed"]
    <1>1. Locked(st, Released(line, x))
        BY LockedReleased DEF WriterInv, TypeOK, Failable
    <1>2. st \in [X -> TaskStatus] /\ Released(line, x) \in [Lines -> Line]
        BY ReleasedType DEF WriterInv, TypeOK, TaskStatus
    <1>3. Reconcile(ExecOf(x), wf[ExecOf(x)], st, Released(line, x), outcome)
        BY DEF FailAndReconcile
    <1>4. \A y \in X : ExecOf(y) # ExecOf(x) => st[y] = status[y]
        BY DEF WriterInv, TypeOK
    <1> QED BY <1>1, <1>2, <1>3, <1>4, CreatedWorkflow, MutationKeeps

(* The new attempt waits, so only the reservation of the old one moves.    *)
LEMMA RetryKeeps ==
    ASSUME WriterInv, NEW x \in X, status[x] # "absent", NEW w, w # "absent",
           CreateRetry(x, w, line)
    PROVE  Keeps
    <1>1. PICK n \in NextAttempt(x) :
              Reconcile(ExecOf(x), w,
                        [status EXCEPT ![x] = "superseded",
                                       ![<<ExecOf(x), TaskOf(x), n>>] = "pending"],
                        Released(line, x), outcome)
        BY DEF CreateRetry
    <1> DEFINE next == <<ExecOf(x), TaskOf(x), n>>
               st1 == [status EXCEPT ![x] = "superseded"]
               st == [status EXCEPT ![x] = "superseded", ![next] = "pending"]
    <1>2. next \in X /\ ExecOf(next) = ExecOf(x) /\ status[next] = "absent"
        BY <1>1, Parts DEF NextAttempt, Exists, X, ExecOf
    <1>3. Locked(st1, Released(line, x))
        BY LockedReleased DEF WriterInv, TypeOK, Failable
    <1>4. st1 \in [X -> TaskStatus] /\ Released(line, x) \in [Lines -> Line]
        BY ReleasedType DEF WriterInv, TypeOK, TaskStatus
    <1>5. st1[next] \notin Failable /\ st = [st1 EXCEPT ![next] = "pending"]
        BY <1>2 DEF WriterInv, TypeOK, Failable
    <1> HIDE DEF st1
    <1>6. Locked(st, Released(line, x))
        BY <1>2, <1>3, <1>4, <1>5, LockedStays DEF Failable
    <1>7. st \in [X -> TaskStatus]
        BY DEF WriterInv, TypeOK, TaskStatus
    <1>8. \A y \in X : ExecOf(y) # ExecOf(x) => st[y] = status[y]
        BY <1>2 DEF WriterInv, TypeOK
    <1> QED BY <1>1, <1>4, <1>6, <1>7, <1>8, MutationKeeps

(* and the record of a line's new base.                                    *)
LEMMA RecordBaseKeeps ==
    ASSUME WriterInv, NEW l \in Lines, RecordBase(l)
    PROVE  Keeps
    <1>1. CASE line[l].based
        BY <1>1 DEF RecordBase, WriterInv, Keeps, Unstarted
    <1>2. CASE ~line[l].based
        <2> DEFINE ln == [line EXCEPT ![l].based = TRUE]
        <2>1. l[1] \in Execs /\ ln \in [Lines -> Line]
            BY DEF Lines, WriterInv, TypeOK, Line
        <2>2. \A k \in Lines : ln[k].writer = line[k].writer
            BY DEF WriterInv, TypeOK, Line
        <2>3. Reconcile(l[1], wf[l[1]], status, ln, outcome)
            BY <1>2 DEF RecordBase
        <2> QED BY <2>1, <2>2, <2>3, RefreshKeeps
    <1> QED BY <1>1, <1>2

(* Nothing of what the invariant speaks of changes.                        *)
LEMMA StillKeeps ==
    ASSUME WriterInv, status' = status, \A l \in Lines : line'[l].writer = line[l].writer,
           \A f \in Execs : wf'[f] = "absent" => wf[f] = "absent"
    PROVE  Keeps
    <1>1. Locked(status', line')
        BY LockedLines DEF WriterInv
    <1>2. Unstarted'
        BY Parts DEF WriterInv, Unstarted
    <1> QED BY <1>1, <1>2 DEF Keeps

(* A status that moves within the lock, outside a reconcile.               *)
LEMMA MoveKeeps ==
    ASSUME WriterInv, NEW x \in X, status[x] # "absent", NEW s,
           status' = [status EXCEPT ![x] = s],
           Change(x) => (status[x] \in Failable <=> s \in Failable),
           line' = line, \A f \in Execs : wf'[f] = "absent" => wf[f] = "absent"
    PROVE  Keeps
    <1>1. Locked(status', line')
        BY LockedStays DEF WriterInv, TypeOK
    <1>2. Unstarted'
        BY Parts DEF WriterInv, Unstarted, TypeOK
    <1> QED BY <1>1, <1>2 DEF Keeps

(* A failure without a reconcile releases the line as well.                *)
LEMMA EndKeeps ==
    ASSUME WriterInv, NEW x \in X, status[x] # "absent",
           status' = [status EXCEPT ![x] = "failed"], line' = Released(line, x), wf' = wf
    PROVE  Keeps
    <1>1. Locked(status', line')
        BY LockedReleased DEF WriterInv, TypeOK, Failable
    <1>2. Unstarted'
        BY Parts DEF WriterInv, Unstarted, TypeOK
    <1> QED BY <1>1, <1>2 DEF Keeps

-----------------------------------------------------------------------------
(* The steps.                                                              *)

(* The pump,                                                               *)
LEMMA PumpStepKeeps ==
    ASSUME WriterInv, NEW e \in Execs, PumpStep(e)
    PROVE  Keeps
    <1>1. CASE PumpStart(e) \/ PumpClose(e)
        BY <1>1, StillKeeps DEF PumpStart, PumpClose, durable
    <1>2. CASE PumpPass(e)
        <2>1. CASE wf[e] = "running"
            BY <1>2, <2>1, RefreshKeeps DEF PumpPass, WriterInv, TypeOK
        <2>2. CASE wf[e] # "running"
            BY <1>2, <2>2, StillKeeps DEF PumpPass
        <2> QED BY <2>1, <2>2
    <1>3. ASSUME NEW projected \in BOOLEAN, Finalize(e, projected) PROVE Keeps
        BY <1>3, StillKeeps DEF Finalize, WriterInv, TypeOK
    <1> QED BY <1>1, <1>2, <1>3 DEF PumpStep

(* the provisioning of a line,                                             *)
LEMMA ProvisionStepKeeps ==
    ASSUME WriterInv, NEW l \in Lines, NEW who \in Provisioner, ProvisionStep(l, who)
    PROVE  Keeps
    <1>1. l[1] \in Execs
        BY DEF Lines
    <1>2. CASE ProvisionDone(l, who)
        <2> DEFINE ln == [line EXCEPT ![l].status = "active", ![l].checkout = TRUE]
        <2>1. ln \in [Lines -> Line]
            BY CheckedOutType DEF WriterInv, TypeOK
        <2>2. \A k \in Lines : ln[k].writer = line[k].writer
            BY DEF WriterInv, TypeOK, Line
        <2> QED BY <1>1, <1>2, <2>1, <2>2, RefreshKeeps DEF ProvisionDone
    <1>3. CASE ProvisionFails(l, who)
        <2> DEFINE ln == [line EXCEPT ![l].status = "failed"]
        <2>1. ln \in [Lines -> Line]
            BY LineStatusType DEF WriterInv, TypeOK, LineStatus
        <2>2. \A k \in Lines : ln[k].writer = line[k].writer
            BY DEF WriterInv, TypeOK, Line
        <2> QED BY <1>1, <1>3, <2>1, <2>2, RefreshKeeps DEF ProvisionFails
    <1>4. CASE ProvisionReturns(l, who)
        BY <1>4, StillKeeps DEF ProvisionReturns, durable
    <1> QED BY <1>2, <1>3, <1>4 DEF ProvisionStep

(* the job of a task,                                                      *)
LEMMA JobStepKeeps ==
    ASSUME WriterInv, NEW x \in X, JobStep(x)
    PROVE  Keeps
    <1> USE DEF WriterInv, TypeOK
    <1>1. LineOf(x) \in Lines /\ line \in [Lines -> Line]
        BY Parts
    <1>2. CASE \/ SyncStart(x) \/ Look(x) \/ PrepareRun(x) \/ RunReturns(x)
               \/ \E class \in RetryClass : DispatchThrows(x, class)
        BY <1>2, StillKeeps DEF SyncStart, Look, PrepareRun, RunReturns, DispatchThrows, durable
    <1>3. CASE SyncSwitch(x)
        BY <1>3, StillKeeps DEF SyncSwitch
    <1>4. CASE SyncDone(x)
        BY <1>1, <1>4, RecordBaseKeeps DEF SyncDone
    <1>5. CASE ManualCheckpoint(x)
        <2> DEFINE st == [status EXCEPT ![x] = "awaiting_human"]
        <2>1. status[x] = "queued" /\ ~Change(x)
            BY <1>5 DEF ManualCheckpoint, Change
        <2>2. Locked(st, line)
            BY <2>1, LockedStays
        <2>3. st \in [X -> TaskStatus]
            BY DEF TaskStatus
        <2> QED BY <1>5, <2>1, <2>2, <2>3, CreatedWorkflow, MutationKeeps DEF ManualCheckpoint
    <1>6. CASE PrepareIntegration(x)
        <2> DEFINE st == [status EXCEPT ![x] = "awaiting_human"]
                   ln == [line EXCEPT ![LineOf(x)].status = "integrating"]
        <2>1. status[x] = "queued" /\ ~Change(x)
            BY <1>6 DEF PrepareIntegration, Change
        <2>2. ln \in [Lines -> Line]
            BY <1>1, LineStatusType DEF LineStatus
        <2>3. \A l \in Lines : ln[l].writer = line[l].writer
            BY DEF Line
        <2>4. Locked(status, ln)
            BY <2>3, LockedLines
        <2>5. Locked(st, ln)
            BY <2>1, <2>4, LockedStays
        <2>6. st \in [X -> TaskStatus]
            BY DEF TaskStatus
        <2>7. Reconcile(ExecOf(x), wf[ExecOf(x)], st, ln, outcome)
            BY <1>6 DEF PrepareIntegration
        <2> QED BY <2>1, <2>2, <2>5, <2>6, <2>7, CreatedWorkflow, MutationKeeps
    <1>7. CASE Claim(x)
        BY <1>7, MoveKeeps DEF Claim, Failable
    <1>8. CASE SubmitVerification(x)
        BY <1>8, DeliverKeeps DEF SubmitVerification, HoldsLease, Failable
    <1>9. CASE RunSucceeds(x)
        BY <1>9, DeliverKeeps DEF RunSucceeds, Failable
    <1>10. ASSUME NEW class \in RetryClass, PreflightFails(x, class) PROVE Keeps
        BY <1>10, EndKeeps DEF PreflightFails, CanRun
    <1>11. ASSUME NEW class \in RetryClass, NEW s \in {"early", "late"}, RunFails(x, class, s)
           PROVE  Keeps
        <2>1. CASE status[x] \in Failable
            BY <1>11, <2>1, FailKeeps DEF RunFails, Failable
        <2>2. CASE status[x] \notin Failable
            BY <1>11, <2>2, StillKeeps DEF RunFails
        <2> QED BY <2>1, <2>2
    <1>12. CASE RecordFailure(x)
        <2>1. CASE UNCHANGED <<wf, status, line>>
            BY <2>1, StillKeeps
        <2>2. CASE status[x] \in Recorded /\ CreateRetry(x, wf[ExecOf(x)], line)
            BY <2>2, CreatedWorkflow, RetryKeeps DEF Recorded, Failable
        <2>3. CASE status[x] \in Recorded /\ FailAndReconcile(x)
            BY <2>3, FailKeeps DEF Recorded, Failable
        <2> QED BY <1>12, <2>1, <2>2, <2>3 DEF RecordFailure
    <1> QED BY <1>2, <1>3, <1>4, <1>5, <1>6, <1>7, <1>8, <1>9, <1>10, <1>11, <1>12 DEF JobStep

(* the routes, as no change is replayed,                                   *)
LEMMA RouteStepKeeps ==
    ASSUME NoWriterReplayed, WriterInv, NEW x \in X, RouteStep(x)
    PROVE  Keeps
    <1> USE DEF WriterInv, TypeOK
    <1>1. CASE ReplaySucceeds(x)
        BY <1>1, DeliverKeeps DEF ReplaySucceeds, Failable
    <1>2. CASE ReplayFails(x)
        <2> DEFINE st == [status EXCEPT ![x] = "failed"]
        <2>1. ~Change(x) /\ wf[ExecOf(x)] # "absent"
            BY <1>2 DEF ReplayFails, Replays, NoWriterReplayed, Change, Kind
        <2>2. Locked(st, line)
            BY <2>1, LockedStays
        <2>3. st \in [X -> TaskStatus]
            BY DEF TaskStatus
        <2>4. Reconcile(ExecOf(x), wf[ExecOf(x)], st, line, outcome)
            BY <1>2 DEF ReplayFails
        <2>5. \A y \in X : ExecOf(y) # ExecOf(x) => st[y] = status[y]
            OBVIOUS
        <2> QED BY <2>1, <2>2, <2>3, <2>4, <2>5, Parts, ReconcileKeeps
    <1>3. CASE RetrySyncSwitch(x)
        BY <1>3, StillKeeps DEF RetrySyncSwitch
    <1>4. CASE RetrySyncDone(x)
        BY <1>4, Parts, RecordBaseKeeps DEF RetrySyncDone
    <1> QED BY <1>1, <1>2, <1>3, <1>4 DEF RouteStep

(* the recovery of a restart,                                              *)
LEMMA RecoveryKeeps ==
    ASSUME WriterInv, RecoveryNext
    PROVE  Keeps
    <1> USE DEF WriterInv, TypeOK
    <1>1. ASSUME NEW e \in Execs, RecoverWorkflow(e) PROVE Keeps
        BY <1>1, RefreshKeeps DEF RecoverWorkflow
    <1>2. ASSUME NEW e \in Execs, NEW x \in X, RecoverTask(e, x) PROVE Keeps
        <2>1. ExecOf(x) = e /\ status[x] # "absent"
            BY <1>2 DEF RecoverTask, Interrupted, CurrentExecutions
        <2>2. CASE RetriesLeft(x)
            BY <1>2, <2>1, <2>2, CreatedWorkflow, RetryKeeps DEF RecoverTask
        <2>3. CASE ~RetriesLeft(x)
            BY <1>2, <2>1, <2>3, EndKeeps DEF RecoverTask
        <2> QED BY <2>2, <2>3
    <1> QED BY <1>1, <1>2 DEF RecoveryNext

(* the creation of a workflow execution,                                   *)
LEMMA CreateKeeps ==
    ASSUME WriterInv, NEW e \in Execs, Create(e)
    PROVE  Keeps
    <1> USE DEF WriterInv, TypeOK
    <1> DEFINE st == [x \in X |-> IF ExecOf(x) = e /\ AttemptOf(x) = 1
                                  THEN "pending" ELSE status[x]]
               lines == {l \in Lines : l[1] = e /\ l[2] \in LineStreams}
               ln == [l \in Lines |-> [line[l] EXCEPT !.status = IF l \in lines
                                                                 THEN "active" ELSE @]]
    <1>1. wf[e] = "absent" /\ Reconcile(e, "running", st, ln, outcome)
        BY DEF Create
    <1>2. \A x \in X : ExecOf(x) = e => status[x] = "absent"
        BY <1>1 DEF Unstarted
    <1>3. ln \in [Lines -> Line] /\ \A l \in Lines : ln[l].writer = line[l].writer
        BY DEF Line, LineStatus
    <1>4. Locked(status, ln)
        BY <1>3, LockedLines
    <1>5. st \in [X -> TaskStatus]
        BY DEF TaskStatus
    <1>6. \A x \in X : status[x] \in Failable <=> st[x] \in Failable
        BY <1>2 DEF Failable
    <1>7. Locked(st, ln)
        BY <1>4, <1>6 DEF Locked
    <1>8. \A y \in X : ExecOf(y) # e => st[y] = status[y]
        OBVIOUS
    <1> QED BY <1>1, <1>3, <1>5, <1>7, <1>8, ReconcileKeeps

(* its cancellation,                                                       *)
LEMMA CancelKeeps ==
    ASSUME WriterInv, NEW e \in Execs, Cancel(e)
    PROVE  Keeps
    <1> USE DEF WriterInv, TypeOK
    <1> DEFINE stopped == {x \in CurrentExecutions(status, e) : status[x] \notin Terminal}
    <1>1. /\ wf[e] # "absent"
          /\ wf' = [wf EXCEPT ![e] = "cancelled"]
          /\ status' = [x \in X |-> IF x \in stopped THEN "cancelled" ELSE status[x]]
        BY DEF Cancel, ActiveWorkflow
    <1>2. \A l \in Lines : line'[l].writer = IF line[l].writer \in stopped
                                             THEN None ELSE line[l].writer
        BY DEF Cancel, Line
    <1>3. stopped \in SUBSET X
        BY DEF CurrentExecutions
    <1> HIDE DEF stopped
    <1>4. Locked(status', line')
        BY <1>1, <1>2, Parts DEF Locked, Failable
    <1>5. Unstarted'
        <2> SUFFICES ASSUME NEW x \in X, wf'[ExecOf(x)] = "absent" PROVE status'[x] = "absent"
            BY DEF Unstarted
        <2>1. ExecOf(x) # e /\ status[x] = "absent"
            BY <1>1, Parts DEF Unstarted
        <2>2. x \notin stopped
            BY <2>1 DEF stopped, CurrentExecutions
        <2> QED BY <1>1, <2>1, <2>2
    <1> QED BY <1>1, <1>4, <1>5 DEF Keeps

(* and the other requests of operators keep the lock.                      *)
LEMMA OperatorKeeps ==
    ASSUME NoWriterReplayed, WriterInv, OperatorNext
    PROVE  Keeps
    <1> USE DEF WriterInv, TypeOK
    <1>1. CASE EditPlan
        BY <1>1, StillKeeps DEF EditPlan
    <1>2. ASSUME NEW e \in Execs, Pause(e) \/ Resume(e) PROVE Keeps
        BY <1>2, RefreshKeeps DEF Pause, Resume
    <1>3. ASSUME NEW x \in X, ManualSubmit(x) \/ Merge(x) PROVE Keeps
        <2>1. LineOf(x) \in Lines
            BY Parts
        <2>2. CASE ManualSubmit(x)
            BY <2>2, DeliverKeeps DEF ManualSubmit, Failable
        <2>3. CASE Merge(x)
            <3> DEFINE ln == [line EXCEPT ![LineOf(x)].status = "merged"]
            <3>1. ln \in [Lines -> Line]
                BY <2>1, LineStatusType DEF LineStatus
            <3>2. \A l \in Lines : ln[l].writer = line[l].writer
                BY DEF Line
            <3>3. Locked(status, ln)
                BY <3>2, LockedLines
            <3> QED BY <2>3, <3>1, <3>3, DeliverKeeps DEF Merge, Failable
        <2> QED BY <1>3, <2>2, <2>3
    <1>4. ASSUME NEW x \in X, Approve(x) PROVE Keeps
        BY <1>4, CompleteKeeps DEF Approve
    <1>5. ASSUME NEW x \in X, Reject(x) PROVE Keeps
        BY <1>5, FailKeeps DEF Reject
    <1>6. ASSUME NEW x \in X, Retry(x) PROVE Keeps
        <2>1. status[x] # "absent" /\ Reopened(ExecOf(x)) # "absent"
            BY <1>6, CreatedWorkflow DEF Retry, Reopened
        <2> QED BY <1>6, <2>1, RetryKeeps DEF Retry
    <1>7. ASSUME NEW x \in X, RetrySyncStart(x) \/ CancelRun(x) PROVE Keeps
        BY <1>7, StillKeeps DEF RetrySyncStart, CancelRun, durable
    <1>8. ASSUME NEW x \in X, ReplayBegin(x) PROVE Keeps
        <2>1. ~Change(x) /\ status[x] # "absent"
            BY <1>8 DEF ReplayBegin, NoWriterReplayed, Change, Kind
        <2>2. wf' = [wf EXCEPT ![ExecOf(x)] = Reopened(ExecOf(x))] /\ line' = line
            BY <1>8 DEF ReplayBegin
        <2>3. \A f \in Execs : wf'[f] = "absent" => wf[f] = "absent"
            BY <2>2, Parts DEF Reopened
        <2>4. \E s : status' = [status EXCEPT ![x] = s]
            BY <1>8 DEF ReplayBegin
        <2> QED BY <2>1, <2>2, <2>3, <2>4, MoveKeeps
    <1> QED BY <1>1, <1>2, <1>3, <1>4, <1>5, <1>6, <1>7, <1>8, CreateKeeps, CancelKeeps
            DEF OperatorNext

(* So every step keeps it.                                                 *)
LEMMA StepKeeps ==
    ASSUME NoWriterReplayed, WriterInv, [Next]_vars
    PROVE  Keeps
    <1>1. CASE EnvironmentNext
        BY <1>1, StillKeeps DEF EnvironmentNext, Crash, LeaseExpires, durable, WriterInv
    <1>2. CASE UNCHANGED vars
        BY <1>2, StillKeeps DEF vars, durable
    <1>3. CASE Next
        BY <1>1, <1>3, PumpStepKeeps, ProvisionStepKeeps, JobStepKeeps, RouteStepKeeps,
           RecoveryKeeps, OperatorKeeps DEF Next
    <1> QED BY <1>2, <1>3

-----------------------------------------------------------------------------
(* The theorems.                                                           *)

(* active_writer_execution_id names exactly the change of its line that is *)
(* queued, running, verifying or in review, and an execution that does not *)
(* exist yet has no tasks, whatever crashes, retries and cancels.          *)
THEOREM WriterInvariant == ASSUME NoWriterReplayed PROVE Spec => []WriterInv
    <1>1. Init /\ TypeOK => WriterInv
        <2> SUFFICES ASSUME Init, TypeOK PROVE WriterInv
            OBVIOUS
        <2>1. Locked(status, line)
            BY DEF Init, Locked, Failable
        <2>2. Unstarted /\ Replays
            BY DEF Init, Unstarted, Replays
        <2> QED BY <2>1, <2>2 DEF WriterInv
    <1>2. WriterInv /\ TypeOK' /\ [Next]_vars => WriterInv'
        <2> SUFFICES ASSUME WriterInv, TypeOK', [Next]_vars PROVE WriterInv'
            OBVIOUS
        <2>1. Keeps
            BY StepKeeps
        <2>2. ASSUME NEW x \in X, route'[x] = "replaying"
              PROVE  TaskOf(x) \in Replayable /\ wf'[ExecOf(x)] # "absent"
            <3>1. CASE route[x] = "replaying"
                BY <2>1, <3>1, Parts DEF WriterInv, Replays, Keeps
            <3>2. CASE ReplayBegin(x)
                <4>1. TaskOf(x) \in Replayable /\ status[x] = "failed"
                    BY <3>2 DEF ReplayBegin
                <4> QED BY <2>1, <4>1, Parts, CreatedWorkflow DEF Keeps
            <3> QED BY <2>2, <3>1, <3>2, StepReplays DEF WriterInv
        <2> QED BY <2>1, <2>2 DEF WriterInv, Keeps, Replays
    <1> QED BY <1>1, <1>2, TypeCorrect, PTL DEF Spec

(* The reservation of a line names exactly the change in progress on it.   *)
THEOREM WriterIsReserved == ASSUME NoWriterReplayed PROVE Spec => []WriterReserved
    <1>1. WriterInv => WriterReserved
        BY DEF WriterInv, Locked, WriterReserved, Change
    <1> QED BY <1>1, WriterInvariant, PTL

(* Two changes of one line are never in progress at once: "write Tasks are *)
(* strictly serial" (README.md:26).                                        *)
THEOREM WritesAreSerial == ASSUME NoWriterReplayed PROVE Spec => []WritesSerial
    <1>1. WriterInv => WritesSerial
        BY DEF WriterInv, Locked, WritesSerial, Change, Failable, Occupying
    <1> QED BY <1>1, WriterInvariant, PTL
=============================================================================
