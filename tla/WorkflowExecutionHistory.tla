------------------------ MODULE WorkflowExecutionHistory ------------------------
(***************************************************************************)
(* What was settled stays settled, and what was waited for stays done: the *)
(* attempts of a task are one chain, dependencies and hand-offs are never  *)
(* undone under those who consumed them, and a workflow has ended only     *)
(* when its tasks have, for every plan, and any number of attempts,        *)
(* executions and crashes.                                                 *)
(*                                                                         *)
(* A step either leaves the ledger (workflow statuses, task statuses and   *)
(* hand-offs) alone or makes a draft of it and writes the draft out, by a  *)
(* reconcile or as it is.  Six kinds of draft are all there is; each keeps *)
(* the invariant, and so does the reconcile.                               *)
(***************************************************************************)
EXTENDS WorkflowExecutionProofs, FiniteSetTheorems

(* No replay fails over an execution that was settled while it ran: the    *)
(* one write of a status that does not look at the one it replaces.        *)
InTime == \A x \in X : ReplayFails(x) => status[x] \in {"running", "verifying"}
ReplaysInTime == [][InTime]_vars

-----------------------------------------------------------------------------
(* The ledger.                                                             *)

Live(s) == s \notin {"absent", "superseded"}
Begun == Failable \cup {"completed", "failed"}
Same(x, y) == ExecOf(x) = ExecOf(y) /\ TaskOf(x) = TaskOf(y)

(* The attempts of a task are superseded up to the live one, which is the  *)
(* last; an execution that was not created has none.                       *)
Chained(w, st) ==
    /\ \A x \in X : w[ExecOf(x)] = "absent" => st[x] = "absent"
    /\ \A x, y \in X : Same(x, y) /\ Live(st[x]) =>
           /\ AttemptOf(y) < AttemptOf(x) => st[y] = "superseded"
           /\ AttemptOf(y) > AttemptOf(x) => st[y] = "absent"
    /\ \A e \in Execs, t \in Tasks : w[e] # "absent" =>
           \E x \in X : ExecOf(x) = e /\ TaskOf(x) = t /\ Live(st[x])

(* All that x waits for before it is queued is done.                       *)
Waits(st, oc, x) ==
    /\ \A d \in Dep[TaskOf(x)] :
           \E y \in X : ExecOf(y) = ExecOf(x) /\ TaskOf(y) = d /\ st[y] = "completed"
    /\ \A u \in StreamDep[Stream[TaskOf(x)]] : oc[<<ExecOf(x), u>>]
    /\ Kind(x) = "repository_integrate" =>
           \A y \in X : (/\ Live(st[y]) /\ y # x /\ LineOf(y) = LineOf(x)
                         /\ TaskOf(x) \notin Upstream[TaskOf(y)]) => st[y] = "completed"

(* The members of a workstream that was handed over are completed.         *)
Handed(w, st, oc) ==
    /\ \A l \in Lines : oc[l] => w[l[1]] # "absent"
    /\ \A x \in X : oc[LineOf(x)] /\ Live(st[x]) => st[x] = "completed"

(* A workflow ended as its tasks did.                                      *)
Settled(w, st) ==
    \A x \in X : Live(st[x]) =>
        /\ w[ExecOf(x)] = "failed" => st[x] \in Terminal
        /\ w[ExecOf(x)] = "completed" => st[x] = "completed"

Good(w, st, oc) ==
    /\ Chained(w, st)
    /\ \A x \in X : st[x] \in Begun => Waits(st, oc, x)
    /\ Handed(w, st, oc)
    /\ Settled(w, st)

HistoryInv == TypeOK /\ Good(wf, status, outcome)

-----------------------------------------------------------------------------
(* What a step writes.                                                     *)

(* The draft (w, st, oc) of e is written: what waits in it may be queued   *)
(* if all it waits for is done, and the workflow may end with its tasks.   *)
Wrote(e, w, st, oc) ==
    /\ outcome' = oc
    /\ \A f \in Execs \ {e} : wf'[f] = wf[f]
    /\ \/ wf'[e] = w
       \/ w \in ActiveWorkflow /\ wf'[e] = "cancelled"
       \/ /\ w \in ActiveWorkflow /\ wf'[e] = "failed"
          /\ \A x \in CurrentExecutions(status', e) : status'[x] \in Terminal
    /\ \A x \in X \ Waiting(e, st) : status'[x] = st[x]
    /\ \A x \in Waiting(e, st) :
           \/ status'[x] \in {"pending", "ready"}
           \/ /\ status'[x] = "queued"
              /\ w = "running"
              /\ DependenciesDone(st, x)
              /\ \A u \in StreamDep[Stream[TaskOf(x)]] : oc[<<ExecOf(x), u>>]
              /\ SiblingsDone(st, x)

(* Hand-offs are only added, of workstreams of e that are completed.       *)
HandsOver(e, st, oc) ==
    \A l \in Lines :
        /\ outcome[l] => oc[l]
        /\ oc[l] /\ ~outcome[l] =>
               /\ l[1] = e
               /\ \A y \in CurrentExecutions(st, e) : LineOf(y) = l => st[y] = "completed"

(* The state itself, by a pause or a resume in another mode.               *)
Refreshes(e, w, st, oc) ==
    /\ st = status /\ oc = outcome
    /\ \/ w = wf[e]
       \/ w = "paused" /\ wf[e] = "running"
       \/ w = "running" /\ wf[e] = "paused" /\ Resume(e)

(* An attempt in progress, in review or failed goes on or ends.            *)
Updates(e, w, st, oc) ==
    \E x \in X, s \in Begun \ {"queued"} :
        /\ ExecOf(x) = e
        /\ status[x] \in Failable \cup {"failed"}
        /\ st = [status EXCEPT ![x] = s]
        /\ w = wf[e] \/ (w = "running" /\ wf[e] = "failed")
        /\ w = "failed" /\ status[x] = "failed" => s = "failed"
        /\ HandsOver(e, st, oc)

(* A failed attempt, or one failed in the same mutation, is tried again.   *)
Retries(e, w, st, oc) ==
    \E x \in X : \E n \in NextAttempt(x) :
        /\ ExecOf(x) = e
        /\ status[x] \in Failable \cup {"failed"}
        /\ st = [status EXCEPT ![x] = "superseded", ![<<ExecOf(x), TaskOf(x), n>>] = "pending"]
        /\ oc = outcome
        /\ w = wf[e] \/ (w = "running" /\ wf[e] = "failed")
        /\ status[x] = "failed" => w # "failed"
        /\ job' # job \/ ~Up => RetriesLeft(x)

Creates(e, w, st, oc) ==
    /\ wf[e] = "absent" /\ w = "running" /\ Up /\ job' = job
    /\ st = [x \in X |-> IF ExecOf(x) = e /\ AttemptOf(x) = 1 THEN "pending" ELSE status[x]]
    /\ oc = outcome

Cancels(e, w, st, oc) ==
    /\ wf[e] \in ActiveWorkflow /\ w = "cancelled"
    /\ st = [x \in X |-> IF x \in CurrentExecutions(status, e) /\ status[x] \notin Terminal
                         THEN "cancelled" ELSE status[x]]
    /\ oc = outcome

Finishes(e, w, st, oc) ==
    wf[e] = "running" /\ w = "completed" /\ AllCompleted(e) /\ st = status /\ oc = outcome

Draft(e, w, st, oc) ==
    \/ Refreshes(e, w, st, oc) \/ Updates(e, w, st, oc) \/ Retries(e, w, st, oc)
    \/ Creates(e, w, st, oc) \/ Cancels(e, w, st, oc) \/ Finishes(e, w, st, oc)

Drafted(e) ==
    \E w \in WorkflowStatus, st \in [X -> TaskStatus], oc \in [Lines -> BOOLEAN] :
        Draft(e, w, st, oc) /\ Wrote(e, w, st, oc)

Still == status' = status /\ outcome' = outcome /\ wf' = wf
Effect == Still \/ \E e \in Execs : Drafted(e)

-----------------------------------------------------------------------------
(* The chain makes "newest" and "live" the same.                           *)

(* Another attempt of the same task.                                       *)
LEMMA Naming ==
    ASSUME NEW x \in X, NEW n \in Attempts
    PROVE  /\ <<ExecOf(x), TaskOf(x), n>> \in X
           /\ Same(<<ExecOf(x), TaskOf(x), n>>, x)
           /\ AttemptOf(<<ExecOf(x), TaskOf(x), n>>) = n
    BY Parts DEF X, ExecOf, TaskOf, AttemptOf, Same

(* An attempt is known by its task and number.                             *)
LEMMA Distinct ==
    ASSUME NEW x \in X, NEW y \in X, Same(x, y), AttemptOf(x) = AttemptOf(y)
    PROVE  x = y
    BY Parts DEF Same

(* Attempts are numbered.                                                  *)
LEMMA AttemptNat == ASSUME NEW x \in X PROVE AttemptOf(x) \in Nat
    BY Parts, BoundAssumption DEF Attempts

(* The newest attempt is the one behind which there is none.               *)
LEMMA LatestMeans ==
    ASSUME NEW st, NEW x \in X
    PROVE  Latest(st, x) <=>
               /\ st[x] # "absent"
               /\ \A y \in X : Same(x, y) /\ AttemptOf(y) > AttemptOf(x) => st[y] = "absent"
    <1>1. ASSUME NEW y \in X, Same(x, y) PROVE y = <<ExecOf(x), TaskOf(x), AttemptOf(y)>>
        BY <1>1, Parts DEF Same
    <1>2. ASSUME Latest(st, x), NEW y \in X, Same(x, y), AttemptOf(y) > AttemptOf(x)
          PROVE  st[y] = "absent"
        BY <1>1, <1>2, Parts DEF Latest, Exists
    <1>3. ASSUME \A y \in X : Same(x, y) /\ AttemptOf(y) > AttemptOf(x) => st[y] = "absent",
                 NEW n \in Attempts, n > AttemptOf(x)
          PROVE  st[<<ExecOf(x), TaskOf(x), n>>] = "absent"
        <2> DEFINE y == <<ExecOf(x), TaskOf(x), n>>
        <2>1. y \in X /\ Same(x, y) /\ AttemptOf(y) = n
            BY Naming DEF Same
        <2> HIDE DEF y
        <2>2. st[y] = "absent"
            BY <1>3, <2>1
        <2> QED BY <2>2 DEF y
    <1> QED BY <1>2, <1>3 DEF Latest, Exists

(* In a chain the current execution of a task is its live one.             *)
LEMMA CurrentMeans ==
    ASSUME NEW w, NEW st, Chained(w, st), NEW e, NEW x \in X
    PROVE  x \in CurrentExecutions(st, e) <=> ExecOf(x) = e /\ Live(st[x])
    <1>1. ASSUME Live(st[x]) PROVE Latest(st, x)
        BY <1>1, LatestMeans DEF Chained, Live
    <1>2. ASSUME Latest(st, x) PROVE Live(st[x])
        <2>1. w[ExecOf(x)] # "absent" /\ ExecOf(x) \in Execs /\ TaskOf(x) \in Tasks
            BY <1>2, LatestMeans, Parts DEF Chained
        <2>2. PICK z \in X : ExecOf(z) = ExecOf(x) /\ TaskOf(z) = TaskOf(x) /\ Live(st[z])
            BY <2>1 DEF Chained
        <2>3. Same(x, z) /\ Same(z, x)
            BY <2>2 DEF Same
        <2>4. ~(AttemptOf(x) > AttemptOf(z))
            BY <1>2, <2>2, <2>3, LatestMeans DEF Chained
        <2>5. ~(AttemptOf(z) > AttemptOf(x))
            BY <1>2, <2>2, <2>3, LatestMeans DEF Live
        <2>6. z = x
            BY <2>3, <2>4, <2>5, Distinct, AttemptNat
        <2> QED BY <2>2, <2>6
    <1> QED BY <1>1, <1>2 DEF CurrentExecutions

(* What readiness asks for is what the ledger says was waited for.         *)
LEMMA WaitsMeans ==
    ASSUME NEW w, NEW st, Chained(w, st), NEW oc, NEW x \in X
    PROVE  Waits(st, oc, x) <=> /\ DependenciesDone(st, x)
                                /\ \A u \in StreamDep[Stream[TaskOf(x)]] : oc[<<ExecOf(x), u>>]
                                /\ SiblingsDone(st, x)
    <1>1. \A y \in X, e \in Execs :
              y \in CurrentExecutions(st, e) <=> ExecOf(y) = e /\ Live(st[y])
        BY CurrentMeans
    <1>2. ExecOf(x) \in Execs /\ CurrentExecutions(st, ExecOf(x)) \subseteq X
        BY Parts DEF CurrentExecutions
    <1>3. DependenciesDone(st, x) <=>
              \A d \in Dep[TaskOf(x)] :
                  \E y \in X : ExecOf(y) = ExecOf(x) /\ TaskOf(y) = d /\ st[y] = "completed"
        BY <1>1, <1>2 DEF DependenciesDone, Live
    <1>4. \A y \in X : LineOf(y) = LineOf(x) => ExecOf(y) = ExecOf(x)
        BY Parts
    <1>5. SiblingsDone(st, x) <=>
              (Kind(x) = "repository_integrate" =>
                 \A y \in X : (/\ Live(st[y]) /\ y # x /\ LineOf(y) = LineOf(x)
                               /\ TaskOf(x) \notin Upstream[TaskOf(y)]) => st[y] = "completed")
        BY <1>1, <1>2, <1>4 DEF SiblingsDone
    <1> QED BY <1>3, <1>5 DEF Waits

-----------------------------------------------------------------------------
(* Writing a good draft out.                                               *)

(* Writing a good draft out, with what was ready queued and the workflow   *)
(* projected, leaves a good ledger.                                        *)
LEMMA WroteGood ==
    ASSUME wf \in [Execs -> WorkflowStatus], status' \in [X -> TaskStatus],
           NEW e \in Execs, NEW w \in WorkflowStatus, NEW st \in [X -> TaskStatus], NEW oc,
           Good([wf EXCEPT ![e] = w], st, oc), Wrote(e, w, st, oc)
    PROVE  Good(wf', status', outcome')
    <1> DEFINE wd == [wf EXCEPT ![e] = w]
    <1>1. /\ \A f \in Execs : wd[f] = IF f = e THEN w ELSE wf[f]
          /\ Chained(wd, st) /\ Handed(wd, st, oc) /\ Settled(wd, st)
          /\ \A x \in X : st[x] \in Begun => Waits(st, oc, x)
        BY DEF Good
    <1> HIDE DEF wd
    <1>2. \A x \in X : x \in Waiting(e, st) <=> ExecOf(x) = e /\ st[x] \in {"pending", "ready"}
        BY <1>1, CurrentMeans DEF Waiting, CurrentExecutions, Live
    <1>3. \A x \in X : /\ ExecOf(x) \in Execs
                       /\ status'[x] = st[x] \/ (/\ ExecOf(x) = e /\ st[x] \in {"pending", "ready"}
                                                /\ status'[x] \in {"pending", "ready", "queued"})
                       /\ Live(status'[x]) <=> Live(st[x])
                       /\ status'[x] = "absent" <=> st[x] = "absent"
                       /\ status'[x] = "superseded" <=> st[x] = "superseded"
                       /\ status'[x] = "completed" <=> st[x] = "completed"
        BY <1>2, Parts DEF Wrote, Live
    <1>4. /\ \A f \in Execs : wf'[f] = "absent" <=> wd[f] = "absent"
          /\ \A f \in Execs : wf'[f] = "completed" => wd[f] = "completed"
        BY <1>1 DEF Wrote, ActiveWorkflow
    <1>5. Chained(wf', status')
        BY <1>1, <1>3, <1>4 DEF Chained
    <1>6. ASSUME NEW x \in X, status'[x] \in Begun PROVE Waits(status', oc, x)
        <2>1. CASE st[x] \in Begun
            BY <1>1, <1>3, <2>1 DEF Waits
        <2>2. CASE st[x] \notin Begun
            <3>1. x \in Waiting(e, st) /\ status'[x] = "queued"
                BY <1>2, <1>3, <1>6, <2>2 DEF Begun, Failable
            <3>2. Waits(st, oc, x)
                BY <1>1, <3>1, WaitsMeans DEF Wrote
            <3> QED BY <1>3, <3>2 DEF Waits
        <2> QED BY <2>1, <2>2
    <1>7. Handed(wf', status', oc)
        BY <1>1, <1>3, <1>4 DEF Handed, Lines
    <1>8. ASSUME NEW x \in X, Live(status'[x]), wf'[ExecOf(x)] = "failed"
          PROVE  status'[x] \in Terminal
        <2>1. CASE wd[ExecOf(x)] = "failed"
            BY <1>1, <1>3, <1>8, <2>1 DEF Settled, Terminal
        <2>2. CASE wd[ExecOf(x)] # "failed"
            <3>1. ExecOf(x) = e /\ \A y \in CurrentExecutions(status', e) : status'[y] \in Terminal
                BY <1>1, <1>3, <1>8, <2>2 DEF Wrote
            <3>2. x \in CurrentExecutions(status', e)
                BY <1>5, <1>8, <3>1, CurrentMeans
            <3> QED BY <3>1, <3>2
        <2> QED BY <2>1, <2>2
    <1>9. Settled(wf', status')
        BY <1>1, <1>3, <1>4, <1>8 DEF Settled
    <1> QED BY <1>5, <1>6, <1>7, <1>9 DEF Good, Wrote

-----------------------------------------------------------------------------
(* The drafts are good.                                                    *)

(* What an update may do to others: nothing that waits, is live or is done *)
(* looks different to them.                                                *)
LEMMA UpdateGood ==
    ASSUME HistoryInv, NEW e \in Execs, NEW w, NEW st, NEW oc, Updates(e, w, st, oc)
    PROVE  Good([wf EXCEPT ![e] = w], st, oc)
    <1> DEFINE wd == [wf EXCEPT ![e] = w]
    <1>1. PICK x \in X, s \in Begun \ {"queued"} :
            /\ ExecOf(x) = e
            /\ status[x] \in Failable \cup {"failed"}
            /\ st = [status EXCEPT ![x] = s]
            /\ w = wf[e] \/ (w = "running" /\ wf[e] = "failed")
            /\ w = "failed" /\ status[x] = "failed" => s = "failed"
            /\ HandsOver(e, st, oc)
        BY DEF Updates
    <1>2. /\ Chained(wf, status) /\ Handed(wf, status, outcome) /\ Settled(wf, status)
          /\ \A y \in X : status[y] \in Begun => Waits(status, outcome, y)
          /\ wf \in [Execs -> WorkflowStatus] /\ status \in [X -> TaskStatus]
        BY DEF HistoryInv, Good, TypeOK
    <1>3. Live(status[x]) /\ Live(s) /\ status[x] # "completed" /\ status[x] \in Begun
        BY <1>1 DEF Live, Begun, Failable
    <1>4. /\ \A y \in X : /\ ExecOf(y) \in Execs
                          /\ st[y] = IF y = x THEN s ELSE status[y]
                          /\ Live(st[y]) <=> Live(status[y])
                          /\ st[y] = "absent" <=> status[y] = "absent"
                          /\ st[y] = "superseded" <=> status[y] = "superseded"
                          /\ status[y] = "completed" => st[y] = "completed"
          /\ \A f \in Execs : wd[f] = IF f = e THEN w ELSE wf[f]
        BY <1>1, <1>2, <1>3, Parts DEF Live
    <1>5. wf[e] # "absent" /\ wf[e] # "completed"
        BY <1>1, <1>2, <1>3 DEF Chained, Settled, Live
    <1>6. \A f \in Execs : wd[f] = "absent" <=> wf[f] = "absent"
        BY <1>1, <1>4, <1>5
    <1> HIDE DEF wd
    <1>7. Chained(wd, st)
        BY <1>2, <1>4, <1>6 DEF Chained
    <1>8. \A l \in Lines : outcome[l] => oc[l]
        BY <1>1 DEF HandsOver
    <1>9. ASSUME NEW y \in X, st[y] \in Begun PROVE Waits(st, oc, y)
        <2>1. Waits(status, outcome, y)
            BY <1>2, <1>3, <1>4, <1>9
        <2>2. \A u \in StreamDep[Stream[TaskOf(y)]] : <<ExecOf(y), u>> \in Lines
            BY Parts, ShapeAssumption DEF Lines
        <2> QED BY <1>4, <1>8, <2>1, <2>2 DEF Waits
    <1>10. ASSUME NEW y \in X, oc[LineOf(y)], Live(st[y]) PROVE st[y] = "completed"
        <2>1. CASE outcome[LineOf(y)]
            BY <1>2, <1>4, <1>10, <2>1 DEF Handed
        <2>2. CASE ~outcome[LineOf(y)]
            <3>1. LineOf(y) \in Lines /\ LineOf(y)[1] = ExecOf(y)
                BY Parts
            <3>2. ExecOf(y) = e
                BY <1>1, <1>10, <2>2, <3>1 DEF HandsOver
            <3>3. y \in CurrentExecutions(st, e)
                BY <1>7, <1>10, <3>2, CurrentMeans
            <3> QED BY <1>1, <1>10, <2>2, <3>1, <3>3 DEF HandsOver
        <2> QED BY <2>1, <2>2
    <1>11. Handed(wd, st, oc)
        <2>1. ASSUME NEW l \in Lines, oc[l] PROVE wd[l[1]] # "absent"
            <3>1. l[1] \in Execs
                BY DEF Lines
            <3>2. wf[l[1]] # "absent"
                BY <1>1, <1>2, <1>5, <2>1 DEF Handed, HandsOver
            <3> QED BY <1>6, <3>1, <3>2
        <2> QED BY <1>10, <2>1 DEF Handed
    <1>12. Settled(wd, st)
        BY <1>1, <1>2, <1>3, <1>4, <1>5 DEF Settled, Terminal, Begun, Failable
    <1> QED BY <1>7, <1>9, <1>11, <1>12 DEF Good, wd

(* The state itself is a good draft.                                       *)
LEMMA RefreshGood ==
    ASSUME HistoryInv, NEW e \in Execs, NEW w, NEW st, NEW oc, Refreshes(e, w, st, oc)
    PROVE  Good([wf EXCEPT ![e] = w], st, oc)
    <1> DEFINE wd == [wf EXCEPT ![e] = w]
    <1>1. /\ Good(wf, status, outcome)
          /\ wf \in [Execs -> WorkflowStatus]
          /\ st = status /\ oc = outcome
          /\ w = wf[e] \/ (wf[e] \in ActiveWorkflow /\ w \in ActiveWorkflow)
        BY DEF HistoryInv, TypeOK, Refreshes, ActiveWorkflow
    <1>2. \A f \in Execs : /\ wd[f] = "absent" <=> wf[f] = "absent"
                           /\ wd[f] = "failed" <=> wf[f] = "failed"
                           /\ wd[f] = "completed" <=> wf[f] = "completed"
        BY <1>1 DEF ActiveWorkflow
    <1> HIDE DEF wd
    <1>3. Chained(wd, st)
        BY <1>1, <1>2, Parts DEF Good, Chained
    <1>4. Handed(wd, st, oc)
        BY <1>1, <1>2 DEF Good, Handed, Lines
    <1>5. Settled(wd, st)
        BY <1>1, <1>2, Parts DEF Good, Settled
    <1> QED BY <1>1, <1>3, <1>4, <1>5 DEF Good, wd

(* So is it with a workflow whose tasks are all completed as completed,    *)
LEMMA FinishGood ==
    ASSUME HistoryInv, NEW e \in Execs, NEW w, NEW st, NEW oc, Finishes(e, w, st, oc)
    PROVE  Good([wf EXCEPT ![e] = w], st, oc)
    <1> DEFINE wd == [wf EXCEPT ![e] = w]
    <1>1. /\ Good(wf, status, outcome)
          /\ wf \in [Execs -> WorkflowStatus]
          /\ st = status /\ oc = outcome
          /\ wf[e] = "running" /\ w = "completed" /\ AllCompleted(e)
        BY DEF HistoryInv, TypeOK, Finishes
    <1>2. \A f \in Execs : wd[f] = IF f = e THEN "completed" ELSE wf[f]
        BY <1>1
    <1> HIDE DEF wd
    <1>3. Chained(wd, st)
        BY <1>1, <1>2, Parts DEF Good, Chained
    <1>4. Handed(wd, st, oc)
        BY <1>1, <1>2 DEF Good, Handed, Lines
    <1>5. \A x \in X : ExecOf(x) = e /\ Live(status[x]) => status[x] = "completed"
        BY <1>1, CurrentMeans DEF Good, AllCompleted
    <1>6. Settled(wd, st)
        BY <1>1, <1>2, <1>5, Parts DEF Good, Settled, Terminal
    <1> QED BY <1>1, <1>3, <1>4, <1>6 DEF Good, wd

(* with whatever was not settled as cancelled,                             *)
LEMMA CancelGood ==
    ASSUME HistoryInv, NEW e \in Execs, NEW w, NEW st, NEW oc, Cancels(e, w, st, oc)
    PROVE  Good([wf EXCEPT ![e] = w], st, oc)
    <1> DEFINE wd == [wf EXCEPT ![e] = w]
    <1>1. /\ Chained(wf, status) /\ Handed(wf, status, outcome) /\ Settled(wf, status)
          /\ \A y \in X : status[y] \in Begun => Waits(status, outcome, y)
          /\ wf \in [Execs -> WorkflowStatus]
          /\ oc = outcome
          /\ wf[e] \in ActiveWorkflow /\ w = "cancelled"
        BY DEF HistoryInv, TypeOK, Good, Cancels
    <1>2. \A f \in Execs : wd[f] = IF f = e THEN "cancelled" ELSE wf[f]
        BY <1>1
    <1> HIDE DEF wd
    <1>3. \A x \in X : st[x] = IF ExecOf(x) = e /\ Live(status[x]) /\ status[x] \notin Terminal
                               THEN "cancelled" ELSE status[x]
        BY <1>1, CurrentMeans DEF Cancels
    <1>4. \A x \in X : /\ ExecOf(x) \in Execs
                       /\ Live(st[x]) <=> Live(status[x])
                       /\ st[x] = "absent" <=> status[x] = "absent"
                       /\ st[x] = "superseded" <=> status[x] = "superseded"
                       /\ st[x] = "completed" <=> status[x] = "completed"
                       /\ st[x] \in Begun => status[x] \in Begun
        BY <1>3, Parts DEF Live, Terminal, Begun, Failable
    <1>5. \A f \in Execs : wd[f] = "absent" <=> wf[f] = "absent"
        BY <1>1, <1>2 DEF ActiveWorkflow
    <1>6. Chained(wd, st)
        BY <1>1, <1>4, <1>5 DEF Chained
    <1>7. ASSUME NEW x \in X, st[x] \in Begun PROVE Waits(st, oc, x)
        <2>1. Waits(status, oc, x)
            BY <1>1, <1>4, <1>7
        <2> QED BY <1>4, <2>1 DEF Waits
    <1>8. Handed(wd, st, oc)
        BY <1>1, <1>4, <1>5 DEF Handed, Lines
    <1>9. Settled(wd, st)
        BY <1>1, <1>2, <1>3, <1>4 DEF Settled, Terminal
    <1> QED BY <1>6, <1>7, <1>8, <1>9 DEF Good, wd

(* with the first attempts of a new execution,                             *)
LEMMA CreateGood ==
    ASSUME HistoryInv, NEW e \in Execs, NEW w, NEW st, NEW oc, Creates(e, w, st, oc)
    PROVE  Good([wf EXCEPT ![e] = w], st, oc)
    <1> DEFINE wd == [wf EXCEPT ![e] = w]
    <1>1. /\ Chained(wf, status) /\ Handed(wf, status, outcome) /\ Settled(wf, status)
          /\ \A y \in X : status[y] \in Begun => Waits(status, outcome, y)
          /\ wf \in [Execs -> WorkflowStatus]
          /\ oc = outcome
          /\ wf[e] = "absent" /\ w = "running"
          /\ \A x \in X : st[x] = IF ExecOf(x) = e /\ AttemptOf(x) = 1 THEN "pending" ELSE status[x]
        BY DEF HistoryInv, TypeOK, Good, Creates
    <1>2. \A f \in Execs : wd[f] = IF f = e THEN "running" ELSE wf[f]
        BY <1>1
    <1> HIDE DEF wd
    <1>3. \A x \in X : ExecOf(x) \in Execs /\ AttemptOf(x) \in Nat /\ AttemptOf(x) >= 1
        BY Parts, BoundAssumption DEF Attempts
    <1>4. \A x \in X : ExecOf(x) = e => status[x] = "absent"
        BY <1>1 DEF Chained
    <1>5. ASSUME NEW x \in X, NEW y \in X, Same(x, y), Live(st[x])
          PROVE  /\ AttemptOf(y) < AttemptOf(x) => st[y] = "superseded"
                 /\ AttemptOf(y) > AttemptOf(x) => st[y] = "absent"
        <2>1. CASE ExecOf(x) = e
            <3>1. AttemptOf(x) = 1
                BY <1>1, <1>4, <1>5, <2>1 DEF Live
            <3>2. ~(AttemptOf(y) < 1)
                BY <1>3
            <3>3. AttemptOf(y) > 1 => st[y] = "absent"
                <4>1. AttemptOf(y) > 1 => AttemptOf(y) # 1
                    BY <1>3
                <4>2. ExecOf(y) = e
                    BY <1>5, <2>1 DEF Same
                <4> QED BY <1>1, <1>4, <4>1, <4>2
            <3> QED BY <3>1, <3>2, <3>3
        <2>2. CASE ExecOf(x) # e
            BY <1>1, <1>5, <2>2 DEF Same, Chained
        <2> QED BY <2>1, <2>2
    <1>6. ASSUME NEW f \in Execs, NEW t \in Tasks, wd[f] # "absent"
          PROVE  \E x \in X : ExecOf(x) = f /\ TaskOf(x) = t /\ Live(st[x])
        <2>1. CASE f = e
            <3> DEFINE x == <<f, t, 1>>
            <3>1. x \in X /\ ExecOf(x) = f /\ TaskOf(x) = t /\ AttemptOf(x) = 1
                BY BoundAssumption DEF X, Attempts, ExecOf, TaskOf, AttemptOf
            <3> HIDE DEF x
            <3> QED BY <1>1, <2>1, <3>1 DEF Live
        <2>2. CASE f # e
            BY <1>1, <1>2, <1>6, <2>2 DEF Chained
        <2> QED BY <2>1, <2>2
    <1>7. \A x \in X : wd[ExecOf(x)] = "absent" => st[x] = "absent"
        BY <1>1, <1>2, <1>3 DEF Chained
    <1>8. Chained(wd, st)
        BY <1>5, <1>6, <1>7 DEF Chained
    <1>9. ASSUME NEW x \in X, st[x] \in Begun PROVE Waits(st, oc, x)
        <2>1. st[x] = status[x] /\ ExecOf(x) # e
            BY <1>1, <1>4, <1>9 DEF Begun, Failable
        <2>2. Waits(status, oc, x)
            BY <1>1, <1>9, <2>1
        <2>3. \A y \in X : ExecOf(y) = ExecOf(x) \/ LineOf(y) = LineOf(x) => st[y] = status[y]
            BY <1>1, <2>1, Parts
        <2> QED BY <2>2, <2>3 DEF Waits
    <1>10. Handed(wd, st, oc)
        <2>1. \A l \in Lines : l[1] \in Execs
            BY DEF Lines
        <2>2. ASSUME NEW x \in X, oc[LineOf(x)], Live(st[x]) PROVE st[x] = "completed"
            <3>1. ExecOf(x) # e
                BY <1>1, <2>2, Parts DEF Handed
            <3> QED BY <1>1, <2>2, <3>1 DEF Handed
        <2> QED BY <1>1, <1>2, <2>1, <2>2 DEF Handed
    <1>11. Settled(wd, st)
        BY <1>1, <1>2, <1>3 DEF Settled
    <1> QED BY <1>8, <1>9, <1>10, <1>11 DEF Good, wd

(* The next attempt comes right after the live one.                        *)
LEMMA NextIsLast ==
    ASSUME NEW w, Chained(w, status), NEW x \in X, Live(status[x]), NEW n \in NextAttempt(x),
           NEW next, next = <<ExecOf(x), TaskOf(x), n>>
    PROVE  /\ next \in X /\ Same(next, x) /\ status[next] = "absent"
           /\ AttemptOf(next) = n /\ n > AttemptOf(x)
           /\ \A y \in X : Same(x, y) /\ AttemptOf(y) < n /\ y # x => status[y] = "superseded"
           /\ \A y \in X : Same(x, y) /\ AttemptOf(y) > n => status[y] = "absent"
    <1>1. n \in Attempts /\ status[next] = "absent"
        BY DEF NextAttempt, Exists
    <1>2. next \in X /\ Same(next, x) /\ Same(x, next) /\ AttemptOf(next) = n
        BY <1>1, Naming DEF Same
    <1>3. n \in Nat /\ \A y \in X : AttemptOf(y) \in Nat
        BY <1>1, AttemptNat, BoundAssumption DEF Attempts
    <1>4. ASSUME NEW y \in X, Same(x, y), status[y] = "absent" PROVE n <= AttemptOf(y)
        <2>1. y = <<ExecOf(x), TaskOf(x), AttemptOf(y)>> /\ AttemptOf(y) \in Attempts
            BY <1>4, Parts DEF Same
        <2> QED BY <1>4, <2>1 DEF NextAttempt, Exists
    <1>5. n > AttemptOf(x)
        <2>1. next # x
            BY <1>1 DEF Live
        <2>2. n # AttemptOf(x)
            BY <1>2, <2>1, Distinct
        <2>3. ~(n < AttemptOf(x))
            BY <1>1, <1>2 DEF Chained
        <2> QED BY <1>3, <2>2, <2>3
    <1>6. ASSUME NEW y \in X, Same(x, y), AttemptOf(y) < n, y # x
          PROVE  status[y] = "superseded"
        <2>1. status[y] # "absent"
            BY <1>3, <1>4, <1>6
        <2>2. AttemptOf(y) # AttemptOf(x)
            BY <1>6, Distinct
        <2>3. ~(AttemptOf(y) > AttemptOf(x))
            BY <1>6, <2>1 DEF Chained
        <2>4. AttemptOf(y) < AttemptOf(x)
            BY <1>3, <2>2, <2>3
        <2> QED BY <1>6, <2>4 DEF Chained
    <1>7. ASSUME NEW y \in X, Same(x, y), AttemptOf(y) > n PROVE status[y] = "absent"
        <2>1. AttemptOf(y) > AttemptOf(x)
            BY <1>3, <1>5, <1>7
        <2> QED BY <1>7, <2>1 DEF Chained
    <1> QED BY <1>1, <1>2, <1>5, <1>6, <1>7

(* and with the next attempt of a failed task behind the old one.          *)
LEMMA RetryGood ==
    ASSUME HistoryInv, NEW e \in Execs, NEW w, NEW st, NEW oc, Retries(e, w, st, oc)
    PROVE  Good([wf EXCEPT ![e] = w], st, oc)
    <1> DEFINE wd == [wf EXCEPT ![e] = w]
    <1>1. PICK x \in X, n \in Attempts :
            /\ n \in NextAttempt(x)
            /\ ExecOf(x) = e
            /\ status[x] \in Failable \cup {"failed"}
            /\ st = [status EXCEPT ![x] = "superseded", ![<<ExecOf(x), TaskOf(x), n>>] = "pending"]
            /\ oc = outcome
            /\ w = wf[e] \/ (w = "running" /\ wf[e] = "failed")
            /\ status[x] = "failed" => w # "failed"
        BY DEF Retries, NextAttempt
    <1>2. PICK next : next = <<ExecOf(x), TaskOf(x), n>>
        OBVIOUS
    <1>3. /\ Chained(wf, status) /\ Handed(wf, status, outcome) /\ Settled(wf, status)
          /\ \A y \in X : status[y] \in Begun => Waits(status, outcome, y)
          /\ wf \in [Execs -> WorkflowStatus] /\ status \in [X -> TaskStatus]
        BY DEF HistoryInv, Good, TypeOK
    <1>4. Live(status[x]) /\ status[x] # "completed" /\ status[x] \in Begun
        BY <1>1 DEF Live, Begun, Failable
    <1>5. /\ next \in X /\ Same(next, x) /\ status[next] = "absent" /\ next # x
          /\ AttemptOf(next) = n
          /\ \A y \in X : Same(x, y) /\ AttemptOf(y) < n /\ y # x => status[y] = "superseded"
          /\ \A y \in X : Same(x, y) /\ AttemptOf(y) > n => status[y] = "absent"
        BY <1>1, <1>2, <1>3, <1>4, NextIsLast DEF Live
    <1>6. n > AttemptOf(x)
        BY <1>1, <1>2, <1>3, <1>4, NextIsLast
    <1>7. \A y \in X : st[y] = IF y = next THEN "pending"
                               ELSE IF y = x THEN "superseded" ELSE status[y]
        BY <1>1, <1>2, <1>3, <1>5
    <1>8. \A f \in Execs : wd[f] = IF f = e THEN w ELSE wf[f]
        BY <1>3
    <1> HIDE DEF wd
    <1>9. wf[e] # "absent" /\ wf[e] # "completed"
        BY <1>1, <1>3, <1>4 DEF Chained, Settled, Live
    <1>10. \A f \in Execs : wd[f] = "absent" <=> wf[f] = "absent"
        BY <1>1, <1>8, <1>9
    <1>11. LineOf(next) = LineOf(x) /\ ExecOf(next) = e /\ TaskOf(next) = TaskOf(x)
        BY <1>1, <1>5 DEF Same, LineOf
    <1>12. ASSUME NEW y \in X, NEW z \in X, Same(y, z), Live(st[y])
          PROVE  /\ AttemptOf(z) < AttemptOf(y) => st[z] = "superseded"
                 /\ AttemptOf(z) > AttemptOf(y) => st[z] = "absent"
        <2>1. CASE Same(x, y)
            <3>1. Same(x, z) /\ AttemptOf(y) \in Nat /\ AttemptOf(z) \in Nat /\ n \in Nat
                BY <1>5, <1>12, <2>1, AttemptNat DEF Same
            <3>2. y = next
                <4>1. y = next \/ (y # x /\ status[y] # "superseded" /\ status[y] # "absent")
                    BY <1>7, <1>12 DEF Live
                <4>2. AttemptOf(y) = n => y = next
                    BY <1>5, <2>1, Distinct DEF Same
                <4> QED BY <1>5, <2>1, <3>1, <4>1, <4>2
            <3>3. AttemptOf(z) < n => st[z] = "superseded"
                BY <1>5, <1>7, <3>1
            <3>4. AttemptOf(z) > n => st[z] = "absent"
                BY <1>5, <1>6, <1>7, <3>1, AttemptNat
            <3> QED BY <1>5, <3>2, <3>3, <3>4
        <2>2. CASE ~Same(x, y)
            <3>1. y # next /\ y # x /\ z # next /\ z # x
                BY <1>5, <1>12, <2>2 DEF Same
            <3> QED BY <1>3, <1>7, <1>12, <3>1 DEF Chained
        <2> QED BY <2>1, <2>2
    <1>13. ASSUME NEW f \in Execs, NEW t \in Tasks, wd[f] # "absent"
          PROVE  \E y \in X : ExecOf(y) = f /\ TaskOf(y) = t /\ Live(st[y])
        <2>1. PICK y \in X : ExecOf(y) = f /\ TaskOf(y) = t /\ Live(status[y])
            BY <1>3, <1>10, <1>13 DEF Chained
        <2>2. CASE y = x
            <3>1. Live(st[next]) /\ ExecOf(next) = f /\ TaskOf(next) = t
                <4>1. st[next] = "pending"
                    BY <1>5, <1>7
                <4>2. ExecOf(next) = f /\ TaskOf(next) = t
                    BY <1>1, <1>11, <2>1, <2>2
                <4> QED BY <4>1, <4>2 DEF Live
            <3> QED BY <1>5, <3>1
        <2>3. CASE y # x
            BY <1>5, <1>7, <2>1, <2>3 DEF Live
        <2> QED BY <2>2, <2>3
    <1>14. \A y \in X : wd[ExecOf(y)] = "absent" => st[y] = "absent"
        BY <1>1, <1>3, <1>7, <1>9, <1>10, <1>11, Parts DEF Chained
    <1>15. Chained(wd, st)
        BY <1>12, <1>13, <1>14 DEF Chained
    <1>16. ASSUME NEW y \in X, st[y] \in Begun PROVE Waits(st, oc, y)
        <2>1. y # x /\ y # next /\ status[y] \in Begun
            BY <1>7, <1>16 DEF Begun, Failable
        <2>2. Waits(status, oc, y)
            BY <1>1, <1>3, <2>1
        <2>3. \A z \in X : status[z] = "completed" => st[z] = "completed"
            BY <1>4, <1>5, <1>7
        <2>4. ASSUME Kind(y) = "repository_integrate", NEW z \in X, Live(st[z]), z # y,
                     LineOf(z) = LineOf(y), TaskOf(y) \notin Upstream[TaskOf(z)]
              PROVE  st[z] = "completed"
            <3>1. z # next
                BY <1>4, <1>11, <2>1, <2>2, <2>4 DEF Waits
            <3>2. z # x /\ st[z] = status[z]
                BY <1>7, <2>4, <3>1 DEF Live
            <3> QED BY <2>2, <2>4, <3>2 DEF Waits
        <2> QED BY <2>2, <2>3, <2>4 DEF Waits
    <1>17. ASSUME NEW y \in X, oc[LineOf(y)], Live(st[y]) PROVE st[y] = "completed"
        <2>1. ~oc[LineOf(x)]
            BY <1>1, <1>3, <1>4 DEF Handed
        <2>2. y # next /\ y # x
            BY <1>7, <1>11, <1>17, <2>1 DEF Live
        <2> QED BY <1>1, <1>3, <1>7, <1>17, <2>2 DEF Handed
    <1>18. Handed(wd, st, oc)
        BY <1>1, <1>3, <1>10, <1>17 DEF Handed, Lines
    <1>19. w # "failed" /\ w # "completed"
        BY <1>1, <1>3, <1>4, <1>9 DEF Settled, Terminal, Failable
    <1>20. Settled(wd, st)
        <2>1. ASSUME NEW y \in X, Live(st[y])
              PROVE  /\ wd[ExecOf(y)] = "failed" => st[y] \in Terminal
                     /\ wd[ExecOf(y)] = "completed" => st[y] = "completed"
            <3>1. CASE ExecOf(y) = e
                BY <1>8, <1>19, <3>1
            <3>2. CASE ExecOf(y) # e
                <4>1. y # next /\ y # x /\ ExecOf(y) \in Execs
                    BY <1>1, <1>11, <3>2, Parts
                <4> QED BY <1>3, <1>7, <1>8, <2>1, <3>2, <4>1 DEF Settled
            <3> QED BY <3>1, <3>2
        <2> QED BY <2>1 DEF Settled
    <1> QED BY <1>15, <1>16, <1>18, <1>20 DEF Good, wd

(* Whatever a step drafts and writes keeps the history good.               *)
LEMMA DraftGood ==
    ASSUME HistoryInv, NEW e \in Execs, NEW w, NEW st, NEW oc, Draft(e, w, st, oc)
    PROVE  Good([wf EXCEPT ![e] = w], st, oc)
    BY RefreshGood, UpdateGood, RetryGood, CreateGood, CancelGood, FinishGood DEF Draft

(* So every effect keeps the ledger good.                                  *)
LEMMA EffectGood ==
    ASSUME HistoryInv, TypeOK', Effect
    PROVE  HistoryInv'
    <1>1. wf \in [Execs -> WorkflowStatus] /\ status' \in [X -> TaskStatus]
        BY DEF HistoryInv, TypeOK
    <1>2. CASE Still
        BY <1>2 DEF Still, HistoryInv
    <1>3. CASE \E e \in Execs : Drafted(e)
        <2>1. PICK e \in Execs : Drafted(e)
            BY <1>3
        <2>2. PICK w \in WorkflowStatus, st \in [X -> TaskStatus], oc \in [Lines -> BOOLEAN] :
                Draft(e, w, st, oc) /\ Wrote(e, w, st, oc)
            BY <2>1 DEF Drafted
        <2>3. Good([wf EXCEPT ![e] = w], st, oc)
            BY <2>2, DraftGood
        <2> QED BY <1>1, <2>2, <2>3, WroteGood DEF HistoryInv
    <1> QED BY <1>2, <1>3 DEF Effect

-----------------------------------------------------------------------------
(* Every step has such an effect.                                          *)

(* A reconcile writes its draft out.                                       *)
LEMMA ReconcileWrites ==
    ASSUME wf \in [Execs -> WorkflowStatus],
           NEW e \in Execs, NEW w, NEW st \in [X -> TaskStatus], NEW ln, NEW oc,
           Reconcile(e, w, st, ln, oc), outcome' = oc
    PROVE  Wrote(e, w, st, oc)
    <1>1. Waiting(e, st) \subseteq X /\ \A x \in Waiting(e, st) : st[x] \in {"pending", "ready"}
        BY DEF Waiting, CurrentExecutions
    <1>2. CASE w \notin ActiveWorkflow
        BY <1>1, <1>2 DEF Reconcile, Wrote
    <1>3. CASE w \in ActiveWorkflow
        <2> DEFINE ready == {x \in Waiting(e, st) : Ready(st, ln, oc, w, x)}
        <2>1. PICK queued \in SUBSET ready :
                /\ Queues(queued, ready, w, st, ln)
                /\ status' = [x \in X |-> IF x \in queued THEN "queued"
                                          ELSE IF x \in ready THEN "ready"
                                          ELSE IF x \in Waiting(e, st) THEN "pending" ELSE st[x]]
                /\ wf' = [wf EXCEPT ![e] = Projected(w, e, status')]
            BY <1>3 DEF Reconcile
        <2>2. \A x \in X : status'[x] = IF x \in queued THEN "queued"
                                        ELSE IF x \in ready THEN "ready"
                                        ELSE IF x \in Waiting(e, st) THEN "pending" ELSE st[x]
            BY <2>1
        <2>3. \A x \in queued :
                  /\ w = "running"
                  /\ DependenciesDone(st, x)
                  /\ \A u \in StreamDep[Stream[TaskOf(x)]] : oc[<<ExecOf(x), u>>]
                  /\ SiblingsDone(st, x)
            BY <2>1 DEF Queues, Ready
        <2>4. wf'[e] = Projected(w, e, status') /\ \A f \in Execs \ {e} : wf'[f] = wf[f]
            BY <2>1
        <2>5. \/ Projected(w, e, status') = w
              \/ Projected(w, e, status') = "cancelled"
              \/ /\ Projected(w, e, status') = "failed"
                 /\ \A x \in CurrentExecutions(status', e) : status'[x] \in Terminal
            BY DEF Projected
        <2>6. queued \subseteq Waiting(e, st) /\ ready \subseteq Waiting(e, st)
            OBVIOUS
        <2> HIDE DEF ready
        <2>7. \A x \in X \ Waiting(e, st) : status'[x] = st[x]
            BY <2>2, <2>6
        <2>8. \A x \in Waiting(e, st) : status'[x] \in {"pending", "ready"} \/ x \in queued
            BY <1>1, <2>2
        <2>9. \A x \in queued : status'[x] = "queued"
            BY <1>1, <2>2, <2>6
        <2> QED BY <1>3, <2>3, <2>4, <2>5, <2>7, <2>8, <2>9 DEF Wrote
    <1> QED BY <1>2, <1>3

(* So does a mutation that is not followed by one.                         *)
LEMMA PlainWrites ==
    ASSUME wf \in [Execs -> WorkflowStatus],
           NEW e \in Execs, NEW w, NEW st \in [X -> TaskStatus], NEW oc,
           wf' = [wf EXCEPT ![e] = w], status' = st, outcome' = oc
    PROVE  Wrote(e, w, st, oc)
    BY DEF Wrote, Waiting

(* Without a change of the hand-offs there is nothing to hand over.        *)
LEMMA NothingHandedOver == ASSUME NEW e, NEW st PROVE HandsOver(e, st, outcome)
    BY DEF HandsOver

(* A completion adds hand-offs of completed workstreams only.              *)
LEMMA CompletionHandsOver ==
    ASSUME NEW e, NEW st, NEW ln PROVE HandsOver(e, st, Outcomes(e, st, ln))
    <1> SUFFICES ASSUME NEW l \in Lines
                 PROVE  /\ outcome[l] => Outcomes(e, st, ln)[l]
                        /\ Outcomes(e, st, ln)[l] /\ ~outcome[l] =>
                             /\ l[1] = e
                             /\ \A y \in CurrentExecutions(st, e) : LineOf(y) = l => st[y] = "completed"
        BY DEF HandsOver
    <1> DEFINE members == {x \in CurrentExecutions(st, e) : LineOf(x) = l}
    <1>1. Outcomes(e, st, ln)[l] <=>
             \/ outcome[l]
             \/ /\ members # {}
                /\ \A x \in members : st[x] = "completed"
                /\ ln[l].status \in {"none", "merged"}
        BY DEF Outcomes
    <1>2. members # {} => l[1] = e
        BY Parts DEF CurrentExecutions
    <1> QED BY <1>1, <1>2

(* The four forms a step takes.                                            *)
LEMMA UpdateEffect ==
    ASSUME TypeOK, NEW x \in X, NEW s \in Begun \ {"queued"}, NEW w,
           NEW oc \in [Lines -> BOOLEAN],
           status[x] \in Failable \cup {"failed"},
           w = wf[ExecOf(x)] \/ (w = "running" /\ wf[ExecOf(x)] = "failed"),
           w = "failed" /\ status[x] = "failed" => s = "failed",
           HandsOver(ExecOf(x), [status EXCEPT ![x] = s], oc),
           Wrote(ExecOf(x), w, [status EXCEPT ![x] = s], oc)
    PROVE  Effect
    <1>1. PICK st : st = [status EXCEPT ![x] = s]
        OBVIOUS
    <1>2. ExecOf(x) \in Execs /\ w \in WorkflowStatus
        BY Parts DEF TypeOK, WorkflowStatus
    <1>3. st \in [X -> TaskStatus]
        BY <1>1 DEF TypeOK, TaskStatus, Begun, Failable
    <1>4. Updates(ExecOf(x), w, st, oc)
        BY <1>1 DEF Updates
    <1> QED BY <1>1, <1>2, <1>3, <1>4 DEF Draft, Drafted, Effect

(* A reconcile of the state as it is has an effect of the six kinds.       *)
LEMMA RefreshEffect ==
    ASSUME TypeOK, NEW e \in Execs, NEW w, NEW ln,
           Refreshes(e, w, status, outcome), outcome' = outcome,
           Reconcile(e, w, status, ln, outcome)
    PROVE  Effect
    <1>1. w \in WorkflowStatus
        BY DEF Refreshes, TypeOK, WorkflowStatus
    <1>2. Wrote(e, w, status, outcome)
        BY ReconcileWrites DEF TypeOK
    <1> QED BY <1>1, <1>2 DEF Draft, Drafted, Effect, TypeOK

(* So has a failure, reconciled or not,                                    *)
LEMMA FailEffect ==
    ASSUME TypeOK, NEW x \in X, status[x] \in Failable \cup {"failed"},
           outcome' = outcome,
           \/ \E ln : Reconcile(ExecOf(x), wf[ExecOf(x)], [status EXCEPT ![x] = "failed"],
                                ln, outcome)
           \/ wf' = wf /\ status' = [status EXCEPT ![x] = "failed"]
    PROVE  Effect
    <1>1. PICK st : st = [status EXCEPT ![x] = "failed"]
        OBVIOUS
    <1>2. ExecOf(x) \in Execs /\ wf \in [Execs -> WorkflowStatus] /\ st \in [X -> TaskStatus]
          /\ outcome \in [Lines -> BOOLEAN]
        BY <1>1, Parts DEF TypeOK, TaskStatus
    <1>3. wf = [wf EXCEPT ![ExecOf(x)] = wf[ExecOf(x)]]
        BY <1>2
    <1>4. Wrote(ExecOf(x), wf[ExecOf(x)], st, outcome)
        BY <1>1, <1>2, <1>3, ReconcileWrites, PlainWrites
    <1>5. "failed" \in Begun \ {"queued"}
        BY DEF Begun
    <1> QED BY <1>1, <1>2, <1>4, <1>5, UpdateEffect, NothingHandedOver

(* the creation of the next attempt,                                       *)
LEMMA RetryEffect ==
    ASSUME TypeOK, NEW x \in X, status[x] \in Failable \cup {"failed"}, NEW w, NEW ln,
           outcome' = outcome, CreateRetry(x, w, ln),
           w = wf[ExecOf(x)] \/ (w = "running" /\ wf[ExecOf(x)] = "failed"),
           status[x] = "failed" => w # "failed",
           job' # job \/ ~Up => RetriesLeft(x)
    PROVE  Effect
    <1>1. PICK n \in NextAttempt(x) :
            Reconcile(ExecOf(x), w,
                      [status EXCEPT ![x] = "superseded", ![<<ExecOf(x), TaskOf(x), n>>] = "pending"],
                      Released(ln, x), outcome)
        BY DEF CreateRetry
    <1>2. PICK st : st = [status EXCEPT ![x] = "superseded",
                                        ![<<ExecOf(x), TaskOf(x), n>>] = "pending"]
        OBVIOUS
    <1>3. ExecOf(x) \in Execs /\ w \in WorkflowStatus /\ wf \in [Execs -> WorkflowStatus]
          /\ outcome \in [Lines -> BOOLEAN]
        BY Parts DEF TypeOK, WorkflowStatus
    <1>4. st \in [X -> TaskStatus]
        BY <1>2 DEF TypeOK, TaskStatus
    <1>5. Wrote(ExecOf(x), w, st, outcome)
        BY <1>1, <1>2, <1>3, <1>4, ReconcileWrites
    <1>6. Retries(ExecOf(x), w, st, outcome)
        BY <1>2 DEF Retries
    <1> QED BY <1>3, <1>4, <1>5, <1>6 DEF Draft, Drafted, Effect

(* a completion,                                                           *)
LEMMA CompleteEffect ==
    ASSUME TypeOK, NEW x \in X, NEW ln, status[x] \in Failable, Complete(x, ln)
    PROVE  Effect
    <1>1. ExecOf(x) \in Execs /\ wf \in [Execs -> WorkflowStatus]
          /\ outcome \in [Lines -> BOOLEAN] /\ status \in [X -> TaskStatus]
          /\ status[x] # "failed"
        BY Parts DEF TypeOK, Failable
    <1>2. PICK st : st = [status EXCEPT ![x] = "completed"]
        OBVIOUS
    <1>3. st \in [X -> TaskStatus] /\ "completed" \in Begun \ {"queued"}
        BY <1>1, <1>2 DEF TaskStatus, Begun, Failable
    <1>4. PICK oc : oc = Outcomes(ExecOf(x), st, Released(ln, x))
        OBVIOUS
    <1>5. outcome' = oc /\ Reconcile(ExecOf(x), wf[ExecOf(x)], st, Released(ln, x), oc)
        BY <1>2, <1>4 DEF Complete
    <1>6. oc \in [Lines -> BOOLEAN]
        BY <1>1, <1>4, OutcomesType
    <1>7. Wrote(ExecOf(x), wf[ExecOf(x)], st, oc)
        BY <1>1, <1>3, <1>5, ReconcileWrites
    <1>8. HandsOver(ExecOf(x), st, oc)
        BY <1>4, CompletionHandsOver
    <1> QED BY <1>1, <1>2, <1>3, <1>6, <1>7, <1>8, UpdateEffect

(* a delivery, reviewed or not,                                            *)
LEMMA DeliverEffect ==
    ASSUME TypeOK, NEW x \in X, NEW ln, status[x] \in Failable, Deliver(x, ln)
    PROVE  Effect
    <1>1. CASE AwaitReview(x, ln)
        <2>1. /\ ExecOf(x) \in Execs /\ wf \in [Execs -> WorkflowStatus]
              /\ outcome \in [Lines -> BOOLEAN] /\ status \in [X -> TaskStatus]
              /\ status[x] # "failed"
            BY Parts DEF TypeOK, Failable
        <2>2. PICK st : st = [status EXCEPT ![x] = "awaiting_human"]
            OBVIOUS
        <2>3. st \in [X -> TaskStatus] /\ "awaiting_human" \in Begun \ {"queued"}
            BY <2>1, <2>2 DEF TaskStatus, Begun, Failable
        <2>4. Wrote(ExecOf(x), wf[ExecOf(x)], st, outcome)
            BY <1>1, <2>1, <2>2, <2>3, ReconcileWrites DEF AwaitReview
        <2> QED BY <2>1, <2>2, <2>3, <2>4, UpdateEffect, NothingHandedOver
    <1>2. CASE Complete(x, ln)
        BY <1>2, CompleteEffect
    <1> QED BY <1>1, <1>2 DEF Deliver

(* and the record of a line's new base.                                    *)
LEMMA RecordBaseEffect ==
    ASSUME TypeOK, NEW l \in Lines, RecordBase(l), UNCHANGED outcome
    PROVE  Effect
    <1>1. CASE line[l].based
        BY <1>1 DEF RecordBase, Effect, Still
    <1>2. CASE ~line[l].based
        <2>1. l[1] \in Execs
            BY DEF Lines
        <2>2. Refreshes(l[1], wf[l[1]], status, outcome)
            BY DEF Refreshes
        <2> QED BY <1>2, <2>1, <2>2, RefreshEffect DEF RecordBase
    <1> QED BY <1>1, <1>2

(* The steps of the pump,                                                  *)
LEMMA PumpStepEffect ==
    ASSUME TypeOK, NEW e \in Execs, PumpStep(e)
    PROVE  Effect
    <1>1. ASSUME PumpStart(e) PROVE Effect
        BY <1>1 DEF PumpStart, durable, Effect, Still
    <1>2. ASSUME PumpPass(e) PROVE Effect
        <2>1. CASE wf[e] = "running"
            <3>1. Reconcile(e, "running", status, line, outcome) /\ outcome' = outcome
                BY <1>2, <2>1 DEF PumpPass
            <3>2. Refreshes(e, "running", status, outcome)
                BY <2>1 DEF Refreshes
            <3> QED BY <3>1, <3>2, RefreshEffect
        <2>2. CASE wf[e] # "running"
            BY <1>2, <2>2 DEF PumpPass, Effect, Still
        <2> QED BY <2>1, <2>2
    <1>3. ASSUME PumpClose(e) PROVE Effect
        BY <1>3 DEF PumpClose, durable, Effect, Still
    <1>4. ASSUME NEW projected \in BOOLEAN, Finalize(e, projected) PROVE Effect
        <2>1. CASE projected /\ wf[e] = "running" /\ AllCompleted(e)
            <3>1. wf' = [wf EXCEPT ![e] = "completed"] /\ status' = status /\ outcome' = outcome
                BY <1>4, <2>1 DEF Finalize
            <3>2. Finishes(e, "completed", status, outcome)
                BY <2>1 DEF Finishes
            <3>3. Wrote(e, "completed", status, outcome)
                BY <3>1, PlainWrites DEF TypeOK
            <3> QED BY <3>2, <3>3 DEF Draft, Drafted, Effect, TypeOK, WorkflowStatus
        <2>2. CASE ~(projected /\ wf[e] = "running" /\ AllCompleted(e))
            <3>1. wf' = [wf EXCEPT ![e] = wf[e]] /\ status' = status /\ outcome' = outcome
                BY <1>4, <2>2 DEF Finalize
            <3> QED BY <3>1 DEF TypeOK, Effect, Still
        <2> QED BY <2>1, <2>2
    <1> QED BY <1>1, <1>2, <1>3, <1>4 DEF PumpStep

(* of the provisioning of a line,                                          *)
LEMMA ProvisionStepEffect ==
    ASSUME TypeOK, NEW l \in Lines, NEW who \in Provisioner, ProvisionStep(l, who)
    PROVE  Effect
    <1>1. l[1] \in Execs
        BY DEF Lines
    <1>2. Refreshes(l[1], wf[l[1]], status, outcome)
        BY DEF Refreshes
    <1>3. ASSUME ProvisionDone(l, who) PROVE Effect
        BY <1>1, <1>2, <1>3, RefreshEffect DEF ProvisionDone
    <1>4. ASSUME ProvisionReturns(l, who) PROVE Effect
        BY <1>4 DEF ProvisionReturns, durable, Effect, Still
    <1>5. ASSUME ProvisionFails(l, who) PROVE Effect
        BY <1>1, <1>2, <1>5, RefreshEffect DEF ProvisionFails
    <1> QED BY <1>3, <1>4, <1>5 DEF ProvisionStep

(* A checkpoint: a queued task waits for a human.                          *)
LEMMA CheckpointEffect ==
    ASSUME TypeOK, NEW x \in X, status[x] = "queued", UNCHANGED outcome, NEW ln,
           Reconcile(ExecOf(x), wf[ExecOf(x)], [status EXCEPT ![x] = "awaiting_human"], ln, outcome)
    PROVE  Effect
    <1>1. PICK st : st = [status EXCEPT ![x] = "awaiting_human"]
        OBVIOUS
    <1>2. ExecOf(x) \in Execs /\ wf \in [Execs -> WorkflowStatus] /\ st \in [X -> TaskStatus]
          /\ outcome \in [Lines -> BOOLEAN]
        BY <1>1, Parts DEF TypeOK, TaskStatus
    <1>3. Wrote(ExecOf(x), wf[ExecOf(x)], st, outcome)
        BY <1>1, <1>2, ReconcileWrites
    <1>4. "awaiting_human" \in Begun \ {"queued"} /\ status[x] \in Failable
        BY DEF Begun, Failable
    <1> QED BY <1>1, <1>2, <1>3, <1>4, UpdateEffect, NothingHandedOver

(* of the job of a task, whose late failure looks at the status it finds,  *)
LEMMA JobStepEffect ==
    ASSUME TypeOK, NEW x \in X, JobStep(x)
    PROVE  Effect
    <1>1. ASSUME SyncStart(x) PROVE Effect
        BY <1>1 DEF SyncStart, durable, Effect, Still
    <1>2. ASSUME SyncSwitch(x) PROVE Effect
        BY <1>2 DEF SyncSwitch, Effect, Still
    <1>3. ASSUME SyncDone(x) PROVE Effect
        BY <1>3, Parts, RecordBaseEffect DEF SyncDone
    <1>4. ASSUME Look(x) PROVE Effect
        BY <1>4 DEF Look, durable, Effect, Still
    <1>5. ASSUME ManualCheckpoint(x) PROVE Effect
        BY <1>5, CheckpointEffect DEF ManualCheckpoint
    <1>6. ASSUME PrepareIntegration(x) PROVE Effect
        BY <1>6, CheckpointEffect DEF PrepareIntegration
    <1>7. ASSUME Claim(x) PROVE Effect
        <2>1. PICK st : st = [status EXCEPT ![x] = "running"]
            OBVIOUS
        <2>2. /\ ExecOf(x) \in Execs /\ wf \in [Execs -> WorkflowStatus]
              /\ st \in [X -> TaskStatus] /\ outcome \in [Lines -> BOOLEAN]
            BY <2>1, Parts DEF TypeOK, TaskStatus
        <2>3. wf' = [wf EXCEPT ![ExecOf(x)] = wf[ExecOf(x)]] /\ status' = st /\ outcome' = outcome
            BY <1>7, <2>1, <2>2 DEF Claim
        <2>4. Wrote(ExecOf(x), wf[ExecOf(x)], st, outcome)
            BY <2>2, <2>3, PlainWrites
        <2>5. status[x] \in Failable /\ status[x] # "failed" /\ "running" \in Begun \ {"queued"}
            BY <1>7 DEF Claim, Begun, Failable
        <2> QED BY <2>1, <2>2, <2>4, <2>5, UpdateEffect, NothingHandedOver
    <1>8. ASSUME SubmitVerification(x) PROVE Effect
        BY <1>8, DeliverEffect DEF SubmitVerification, HoldsLease, Failable
    <1>9. ASSUME PrepareRun(x) PROVE Effect
        BY <1>9 DEF PrepareRun, durable, Effect, Still
    <1>10. ASSUME RunSucceeds(x) PROVE Effect
        BY <1>10, DeliverEffect DEF RunSucceeds, Failable
    <1>11. ASSUME RunReturns(x) PROVE Effect
        BY <1>11 DEF RunReturns, durable, Effect, Still
    <1>12. ASSUME RecordFailure(x) PROVE Effect
        <2> DEFINE again == job[x] = "transient" /\ RetriesLeft(x) /\ wf[ExecOf(x)] = "running"
        <2>1. outcome' = outcome
            BY <1>12 DEF RecordFailure
        <2>2. CASE status[x] \notin Recorded
            BY <1>12, <2>2 DEF RecordFailure, Effect, Still
        <2>3. CASE status[x] \in Recorded /\ again
            <3>1. CreateRetry(x, wf[ExecOf(x)], line)
                BY <1>12, <2>3 DEF RecordFailure
            <3> QED BY <2>1, <2>3, <3>1, RetryEffect DEF Recorded
        <2>4. CASE status[x] \in Recorded /\ ~again
            <3>1. FailAndReconcile(x)
                BY <1>12, <2>4 DEF RecordFailure
            <3> QED BY <2>1, <2>4, <3>1, FailEffect DEF Recorded, FailAndReconcile
        <2> QED BY <2>2, <2>3, <2>4
    <1>13. ASSUME NEW class \in RetryClass, DispatchThrows(x, class) PROVE Effect
        BY <1>13 DEF DispatchThrows, durable, Effect, Still
    <1>14. ASSUME NEW class \in RetryClass, PreflightFails(x, class) PROVE Effect
        BY <1>14, FailEffect DEF PreflightFails, CanRun, Failable
    <1>15. ASSUME NEW class \in RetryClass, NEW s \in {"early", "late"}, RunFails(x, class, s)
           PROVE  Effect
        <2>1. CASE status[x] \in Failable
            BY <1>15, <2>1, FailEffect DEF RunFails, FailAndReconcile
        <2>2. CASE status[x] \notin Failable
            BY <1>15, <2>2 DEF RunFails, Effect, Still
        <2> QED BY <2>1, <2>2
    <1> QED BY <1>1, <1>2, <1>3, <1>4, <1>5, <1>6, <1>7, <1>8, <1>9, <1>10, <1>11,
               <1>12, <1>13, <1>14, <1>15 DEF JobStep

(* of the routes, whose replays are in time,                               *)
LEMMA RouteStepEffect ==
    ASSUME TypeOK, InTime, NEW x \in X, RouteStep(x)
    PROVE  Effect
    <1>1. ASSUME ReplaySucceeds(x) PROVE Effect
        BY <1>1, DeliverEffect DEF ReplaySucceeds, Failable
    <1>2. ASSUME ReplayFails(x) PROVE Effect
        <2>1. status[x] \in Failable
            BY <1>2 DEF InTime, Failable
        <2> QED BY <1>2, <2>1, FailEffect DEF ReplayFails
    <1>3. ASSUME RetrySyncSwitch(x) PROVE Effect
        BY <1>3 DEF RetrySyncSwitch, Effect, Still
    <1>4. ASSUME RetrySyncDone(x) PROVE Effect
        BY <1>4, Parts, RecordBaseEffect DEF RetrySyncDone
    <1> QED BY <1>1, <1>2, <1>3, <1>4 DEF RouteStep

(* of the recovery,                                                        *)
LEMMA RecoveryEffect ==
    ASSUME TypeOK, RecoveryNext
    PROVE  Effect
    <1>1. ASSUME NEW e \in Execs, RecoverWorkflow(e) PROVE Effect
        <2>1. Refreshes(e, wf[e], status, outcome)
            BY DEF Refreshes
        <2> QED BY <1>1, <2>1, RefreshEffect DEF RecoverWorkflow
    <1>2. ASSUME NEW e \in Execs, NEW x \in X, RecoverTask(e, x) PROVE Effect
        <2>1. ExecOf(x) = e /\ status[x] \in Failable /\ status[x] # "failed" /\ outcome' = outcome
            BY <1>2 DEF RecoverTask, Interrupted, CurrentExecutions, Failable
        <2>2. CASE RetriesLeft(x)
            <3>1. CreateRetry(x, wf[ExecOf(x)], line)
                BY <1>2, <2>1, <2>2 DEF RecoverTask
            <3> QED BY <2>1, <2>2, <3>1, RetryEffect
        <2>3. CASE ~RetriesLeft(x)
            <3>1. status' = [status EXCEPT ![x] = "failed"] /\ wf' = wf
                BY <1>2, <2>3 DEF RecoverTask
            <3> QED BY <2>1, <3>1, FailEffect
        <2> QED BY <2>2, <2>3
    <1> QED BY <1>1, <1>2 DEF RecoveryNext

(* the creation of a workflow execution,                                   *)
LEMMA CreateEffect ==
    ASSUME TypeOK, NEW e \in Execs, Create(e)
    PROVE  Effect
    <1>1. PICK st : st = [x \in X |-> IF ExecOf(x) = e /\ AttemptOf(x) = 1
                                      THEN "pending" ELSE status[x]]
        OBVIOUS
    <1>2. st \in [X -> TaskStatus]
        BY <1>1 DEF TypeOK, TaskStatus
    <1>3. \E ln : Reconcile(e, "running", st, ln, outcome)
        BY <1>1 DEF Create
    <1>4. Wrote(e, "running", st, outcome)
        BY <1>2, <1>3, ReconcileWrites DEF Create, TypeOK
    <1>5. Creates(e, "running", st, outcome)
        BY <1>1 DEF Create, Creates
    <1> QED BY <1>2, <1>4, <1>5 DEF Draft, Drafted, Effect, TypeOK, WorkflowStatus

(* its cancellation,                                                       *)
LEMMA CancelEffect ==
    ASSUME TypeOK, NEW e \in Execs, Cancel(e)
    PROVE  Effect
    <1>1. status' = [x \in X |-> IF x \in CurrentExecutions(status, e) /\ status[x] \notin Terminal
                                 THEN "cancelled" ELSE status[x]]
        BY DEF Cancel
    <1>2. PICK st : st = status'
        OBVIOUS
    <1>3. st \in [X -> TaskStatus]
        BY <1>1, <1>2 DEF TypeOK, TaskStatus
    <1>4. Wrote(e, "cancelled", st, outcome)
        BY <1>2, <1>3, PlainWrites DEF Cancel, TypeOK
    <1>5. Cancels(e, "cancelled", st, outcome)
        BY <1>1, <1>2 DEF Cancel, Cancels
    <1> QED BY <1>3, <1>4, <1>5 DEF Draft, Drafted, Effect, TypeOK, WorkflowStatus

(* the reopening of a failed execution for a replay,                       *)
LEMMA ReplayBeginEffect ==
    ASSUME TypeOK, NEW x \in X, ReplayBegin(x)
    PROVE  Effect
    <1>1. PICK s \in {"running", "verifying"} : status' = [status EXCEPT ![x] = s]
        BY DEF ReplayBegin
    <1>2. PICK st : st = [status EXCEPT ![x] = s]
        OBVIOUS
    <1>3. /\ ExecOf(x) \in Execs /\ wf \in [Execs -> WorkflowStatus]
          /\ st \in [X -> TaskStatus] /\ outcome \in [Lines -> BOOLEAN]
        BY <1>1, <1>2, Parts DEF TypeOK, TaskStatus
    <1>4. Wrote(ExecOf(x), Reopened(ExecOf(x)), st, outcome)
        BY <1>1, <1>2, <1>3, PlainWrites DEF ReplayBegin
    <1>5. /\ s \in Begun \ {"queued"}
          /\ status[x] \in Failable \cup {"failed"}
          /\ Reopened(ExecOf(x)) = wf[ExecOf(x)]
             \/ (Reopened(ExecOf(x)) = "running" /\ wf[ExecOf(x)] = "failed")
          /\ Reopened(ExecOf(x)) # "failed"
        BY DEF ReplayBegin, Begun, Failable, Reopened
    <1> QED BY <1>2, <1>3, <1>4, <1>5, UpdateEffect, NothingHandedOver

(* the other requests of operators,                                        *)
LEMMA OperatorEffect ==
    ASSUME TypeOK, OperatorNext
    PROVE  Effect
    <1>1. ASSUME EditPlan PROVE Effect
        BY <1>1 DEF EditPlan, Effect, Still
    <1>2. ASSUME NEW e \in Execs, Pause(e) PROVE Effect
        <2>1. Refreshes(e, "paused", status, outcome)
            BY <1>2 DEF Pause, Refreshes
        <2> QED BY <1>2, <2>1, RefreshEffect DEF Pause
    <1>3. ASSUME NEW e \in Execs, Resume(e) PROVE Effect
        <2>1. wf[e] = "paused" /\ Reconcile(e, "running", status, line, outcome) /\ outcome' = outcome
            BY <1>3 DEF Resume
        <2>2. Refreshes(e, "running", status, outcome)
            BY <1>3, <2>1 DEF Refreshes
        <2> QED BY <2>1, <2>2, RefreshEffect
    <1>4. ASSUME NEW x \in X, ManualSubmit(x) PROVE Effect
        <2>1. status[x] \in Failable /\ Deliver(x, line)
            BY <1>4 DEF ManualSubmit, Failable
        <2> QED BY <2>1, DeliverEffect
    <1>5. ASSUME NEW x \in X, Approve(x) PROVE Effect
        <2>1. status[x] \in Failable /\ status[x] # "failed" /\ Complete(x, line)
            BY <1>5 DEF Approve, Failable
        <2> QED BY <2>1, CompleteEffect
    <1>6. ASSUME NEW x \in X, Reject(x) PROVE Effect
        BY <1>6, FailEffect DEF Reject, FailAndReconcile, Failable
    <1>7. ASSUME NEW x \in X, Merge(x) PROVE Effect
        BY <1>7, DeliverEffect DEF Merge, Failable
    <1>8. ASSUME NEW x \in X, Retry(x) PROVE Effect
        <2>1. /\ CreateRetry(x, Reopened(ExecOf(x)), line)
              /\ status[x] = "failed" /\ outcome' = outcome
              /\ job' = job /\ Up
            BY <1>8 DEF Retry
        <2>2. /\ Reopened(ExecOf(x)) = wf[ExecOf(x)]
                 \/ (Reopened(ExecOf(x)) = "running" /\ wf[ExecOf(x)] = "failed")
              /\ Reopened(ExecOf(x)) # "failed"
            BY DEF Reopened
        <2> QED BY <2>1, <2>2, RetryEffect
    <1>9. ASSUME NEW x \in X, RetrySyncStart(x) PROVE Effect
        BY <1>9 DEF RetrySyncStart, durable, Effect, Still
    <1>10. ASSUME NEW x \in X, CancelRun(x) PROVE Effect
        BY <1>10 DEF CancelRun, durable, Effect, Still
    <1> QED BY <1>1, <1>2, <1>3, <1>4, <1>5, <1>6, <1>7, <1>8, <1>9, <1>10,
               CreateEffect, CancelEffect, ReplayBeginEffect DEF OperatorNext

(* and leases and crashes have such an effect.                             *)
LEMMA EnvironmentEffect ==
    ASSUME EnvironmentNext
    PROVE  Effect
    BY DEF EnvironmentNext, Crash, LeaseExpires, durable, Effect, Still

(* Any step but a replay that fails late.                                  *)
LEMMA StepEffect ==
    ASSUME TypeOK, [Next]_vars, InTime
    PROVE  Effect
    <1>1. CASE UNCHANGED vars
        BY <1>1 DEF vars, durable, Effect, Still
    <1>2. CASE Next
        BY <1>2, PumpStepEffect, ProvisionStepEffect, JobStepEffect, RouteStepEffect,
           RecoveryEffect, OperatorEffect, EnvironmentEffect DEF Next
    <1> QED BY <1>1, <1>2

-----------------------------------------------------------------------------
(* Where nothing can be replayed, no replay is late.                       *)

NothingReplays == \A x \in X : route[x] # "replaying"

(* The theorems about replays in time hold of every plan whose failed      *)
(* stages nobody replays, which is what most of the runs check.            *)
THEOREM NoReplayIsLate == ASSUME Replayable = {} PROVE Spec => ReplaysInTime
    <1>1. Init => NothingReplays
        BY DEF Init, NothingReplays
    <1>2. TypeOK /\ NothingReplays /\ [Next]_vars => NothingReplays'
        BY StepReplays DEF NothingReplays, ReplayBegin
    <1>3. NothingReplays => [InTime]_vars
        BY DEF NothingReplays, InTime, ReplayFails
    <1> QED BY <1>1, <1>2, <1>3, TypeCorrect, PTL DEF Spec, ReplaysInTime

-----------------------------------------------------------------------------
(* The history.                                                            *)

(* As long as no replay fails over a settled execution, every reachable    *)
(* ledger is good: one live attempt per task, nothing begun before what it *)
(* waits for or kept after it is undone, no hand-off and no workflow ahead *)
(* of its tasks.                                                           *)
THEOREM HistoryInvariant == Spec /\ ReplaysInTime => []HistoryInv
    <1>1. Init => HistoryInv
        <2> SUFFICES ASSUME Init PROVE Good(wf, status, outcome)
            BY TypeInit DEF HistoryInv
        <2>1. /\ \A e \in Execs : wf[e] = "absent"
              /\ \A x \in X : status[x] = "absent"
              /\ \A l \in Lines : ~outcome[l]
            BY DEF Init
        <2> QED BY <2>1, Parts DEF Good, Chained, Handed, Settled, Live, Begun, Failable
    <1>2. HistoryInv /\ TypeOK' /\ [Next]_vars /\ [InTime]_vars => HistoryInv'
        <2> SUFFICES ASSUME HistoryInv, TypeOK', [Next]_vars, [InTime]_vars PROVE HistoryInv'
            OBVIOUS
        <2>1. CASE InTime
            BY <2>1, StepEffect, EffectGood DEF HistoryInv
        <2>2. CASE UNCHANGED vars
            BY <2>2, EffectGood DEF vars, durable, Effect, Still
        <2> QED BY <2>1, <2>2
    <1> QED BY <1>1, <1>2, TypeCorrect, PTL DEF Spec, ReplaysInTime

(* The attempts of a task form a chain, of which only the last can move.   *)
THEOREM AttemptsChain == Spec /\ ReplaysInTime => []OneLiveAttempt
    <1>1. HistoryInv => OneLiveAttempt
        <2> SUFFICES ASSUME HistoryInv, NEW e \in Execs, NEW t \in Tasks, wf[e] # "absent"
                     PROVE  \E n \in Attempts :
                                /\ status[<<e, t, n>>] \notin {"absent", "superseded"}
                                /\ \A m \in Attempts : m < n => status[<<e, t, m>>] = "superseded"
                                /\ \A m \in Attempts : m > n => status[<<e, t, m>>] = "absent"
            BY DEF OneLiveAttempt
        <2>1. Chained(wf, status)
            BY DEF HistoryInv, Good
        <2>2. PICK x \in X : ExecOf(x) = e /\ TaskOf(x) = t /\ Live(status[x])
            BY <2>1 DEF Chained
        <2>3. x = <<e, t, AttemptOf(x)>> /\ AttemptOf(x) \in Attempts
            BY <2>2, Parts
        <2>4. ASSUME NEW m \in Attempts
              PROVE  /\ m < AttemptOf(x) => status[<<e, t, m>>] = "superseded"
                     /\ m > AttemptOf(x) => status[<<e, t, m>>] = "absent"
            <3>1. PICK y : y = <<e, t, m>>
                OBVIOUS
            <3>2. y \in X /\ Same(x, y) /\ AttemptOf(y) = m
                BY <2>2, <3>1, Naming DEF Same
            <3>3. /\ m < AttemptOf(x) => status[y] = "superseded"
                  /\ m > AttemptOf(x) => status[y] = "absent"
                BY <2>1, <2>2, <3>2 DEF Chained
            <3> QED BY <3>1, <3>3
        <2>5. status[<<e, t, AttemptOf(x)>>] \notin {"absent", "superseded"}
            BY <2>2, <2>3 DEF Live
        <2> QED BY <2>3, <2>4, <2>5
    <1> QED BY <1>1, HistoryInvariant, PTL

(* What was queued or is finished still has all it waited for.             *)
THEOREM DependenciesHold == Spec /\ ReplaysInTime => []DependencyOrder
    <1>1. HistoryInv => DependencyOrder
        <2> SUFFICES ASSUME HistoryInv, NEW x \in X, status[x] \in Failable \cup {"completed"}
                     PROVE  /\ DependenciesDone(status, x)
                            /\ \A u \in StreamDep[Stream[TaskOf(x)]] : outcome[<<ExecOf(x), u>>]
                            /\ SiblingsDone(status, x)
            BY DEF DependencyOrder
        <2>1. Chained(wf, status) /\ Waits(status, outcome, x)
            BY DEF HistoryInv, Good, Begun
        <2> QED BY <2>1, WaitsMeans
    <1> QED BY <1>1, HistoryInvariant, PTL

(* A workflow has failed or completed only as all its tasks have.          *)
THEOREM WorkflowsSettle == Spec /\ ReplaysInTime => []SettledWorkflow
    <1>1. HistoryInv => SettledWorkflow
        <2> SUFFICES ASSUME HistoryInv, NEW e \in Execs, NEW x \in CurrentExecutions(status, e)
                     PROVE  /\ wf[e] = "failed" => status[x] \in Terminal
                            /\ wf[e] = "completed" => status[x] = "completed"
            BY DEF SettledWorkflow, AllCompleted
        <2>1. x \in X /\ Chained(wf, status) /\ Settled(wf, status)
            BY DEF HistoryInv, Good, CurrentExecutions
        <2>2. ExecOf(x) = e /\ Live(status[x])
            BY <2>1, CurrentMeans
        <2> QED BY <2>1, <2>2 DEF Settled
    <1> QED BY <1>1, HistoryInvariant, PTL

(* A hand-off that dependants may have consumed is never left without the  *)
(* completed tasks it was made of.                                         *)
THEOREM HandoffsStay == Spec /\ ReplaysInTime => []HandoffComplete
    <1>1. HistoryInv => HandoffComplete
        <2> SUFFICES ASSUME HistoryInv, NEW l \in Lines, outcome[l],
                            NEW x \in CurrentExecutions(status, l[1]), LineOf(x) = l
                     PROVE  status[x] = "completed"
            BY DEF HandoffComplete
        <2>1. x \in X /\ Chained(wf, status) /\ Handed(wf, status, outcome)
            BY DEF HistoryInv, Good, CurrentExecutions
        <2>2. Live(status[x])
            BY <2>1, CurrentMeans
        <2> QED BY <2>1, <2>2 DEF Handed
    <1> QED BY <1>1, HistoryInvariant, PTL

-----------------------------------------------------------------------------
(* What a step may not do.                                                 *)

(* No effect touches what is completed, cancelled or superseded.           *)
LEMMA SettledKept ==
    ASSUME HistoryInv, Effect, NEW x \in X,
           status[x] \in {"completed", "cancelled", "superseded"}
    PROVE  status'[x] = status[x]
    <1>1. CASE Still
        BY <1>1 DEF Still
    <1>2. ASSUME NEW e \in Execs, NEW w, NEW st, NEW oc, Draft(e, w, st, oc)
          PROVE  st[x] = status[x]
        <2>1. CASE Refreshes(e, w, st, oc) \/ Finishes(e, w, st, oc)
            BY <2>1 DEF Refreshes, Finishes
        <2>2. CASE Updates(e, w, st, oc)
            BY <2>2 DEF Updates, Failable, HistoryInv, TypeOK
        <2>3. CASE Retries(e, w, st, oc)
            <3>1. PICK y \in X, n \in Attempts :
                    /\ status[<<ExecOf(y), TaskOf(y), n>>] = "absent"
                    /\ status[y] \in Failable \cup {"failed"}
                    /\ st = [status EXCEPT ![y] = "superseded",
                                           ![<<ExecOf(y), TaskOf(y), n>>] = "pending"]
                BY <2>3 DEF Retries, NextAttempt, Exists
            <3>2. x # y /\ x # <<ExecOf(y), TaskOf(y), n>>
                BY <3>1 DEF Failable
            <3> QED BY <3>1, <3>2 DEF HistoryInv, TypeOK
        <2>4. CASE Creates(e, w, st, oc)
            <3>1. ExecOf(x) # e
                BY <2>4 DEF Creates, HistoryInv, Good, Chained
            <3> QED BY <2>4, <3>1 DEF Creates
        <2>5. CASE Cancels(e, w, st, oc)
            BY <2>5 DEF Cancels, Terminal
        <2> QED BY <1>2, <2>1, <2>2, <2>3, <2>4, <2>5 DEF Draft
    <1>3. CASE \E e \in Execs : Drafted(e)
        <2>1. PICK e \in Execs, w \in WorkflowStatus, st \in [X -> TaskStatus],
                   oc \in [Lines -> BOOLEAN] : Draft(e, w, st, oc) /\ Wrote(e, w, st, oc)
            BY <1>3 DEF Drafted
        <2>2. st[x] = status[x]
            BY <1>2, <2>1
        <2>3. x \notin Waiting(e, st)
            BY <2>2 DEF Waiting
        <2> QED BY <2>1, <2>2, <2>3 DEF Wrote
    <1> QED BY <1>1, <1>3 DEF Effect

(* A completed, cancelled or superseded execution is never touched again:  *)
(* no late job, operator or restart changes what has been settled.         *)
THEOREM SettledStays == Spec /\ ReplaysInTime => SettledIsFinal
    <1>1. HistoryInv /\ [Next]_vars /\ [InTime]_vars =>
              [\A x \in X : status[x] \in {"completed", "cancelled", "superseded"}
                  => status'[x] \in {status[x], "superseded"}]_vars
        <2> SUFFICES ASSUME HistoryInv, [Next]_vars, InTime, NEW x \in X,
                            status[x] \in {"completed", "cancelled", "superseded"}
                     PROVE  status'[x] = status[x]
            OBVIOUS
        <2>1. Effect
            BY StepEffect DEF HistoryInv
        <2> QED BY <2>1, SettledKept
    <1> QED BY <1>1, HistoryInvariant, PTL DEF Spec, ReplaysInTime, SettledIsFinal

(* Recovery.                                                               *)

(* What was in progress has a lease in an execution recovered already.     *)
Recovered ==
    \A x \in X : /\ status[x] \in {"running", "verifying"}
                 /\ wf[ExecOf(x)] \in ActiveWorkflow
                 /\ ExecOf(x) \notin recovering
                 => lease[x] = "live"

(* While a restart recovers, nothing but the recovery acts.                *)
LEMMA RecoversAlone ==
    ASSUME [Next]_vars
    PROVE  \/ RecoveryNext
           \/ UNCHANGED vars
           \/ Up /\ (recovering' = recovering \/ Crash)
    <1>1. ASSUME NEW e \in Execs, PumpStep(e) PROVE Up /\ recovering' = recovering
        BY <1>1 DEF PumpStep, PumpStart, PumpPass, PumpClose, Finalize
    <1>2. ASSUME NEW l \in Lines, NEW who \in Provisioner, ProvisionStep(l, who)
          PROVE  Up /\ recovering' = recovering
        BY <1>2 DEF ProvisionStep, ProvisionDone, ProvisionReturns, ProvisionFails
    <1>3. ASSUME NEW x \in X, JobStep(x) PROVE Up /\ recovering' = recovering
        BY <1>3 DEF JobStep, SyncStart, SyncSwitch, SyncDone, Look, ManualCheckpoint,
           PrepareIntegration, Claim, SubmitVerification, PrepareRun, RunSucceeds, RunReturns,
           RecordFailure, DispatchThrows, PreflightFails, RunFails
    <1>4. ASSUME NEW x \in X, RouteStep(x) PROVE Up /\ recovering' = recovering
        BY <1>4 DEF RouteStep, ReplaySucceeds, ReplayFails, RetrySyncSwitch, RetrySyncDone
    <1>5. ASSUME OperatorNext PROVE Up /\ recovering' = recovering
        BY <1>5 DEF OperatorNext, EditPlan, Create, Pause, Resume, Cancel, ManualSubmit, Approve,
           Reject, Merge, Retry, RetrySyncStart, ReplayBegin, CancelRun
    <1>6. ASSUME EnvironmentNext PROVE Up /\ (recovering' = recovering \/ Crash)
        BY <1>6 DEF EnvironmentNext, Crash, LeaseExpires, volatile
    <1> QED BY <1>1, <1>2, <1>3, <1>4, <1>5, <1>6 DEF Next

(* The recovery of a task touches no execution recovered before.           *)
LEMMA RecoverTaskKeeps ==
    ASSUME HistoryInv, Recovered, NEW e \in Execs, NEW x \in X, RecoverTask(e, x)
    PROVE  Recovered'
    <1>1. /\ e \in recovering /\ recovering' = recovering
          /\ ExecOf(x) = e
          /\ lease' = [lease EXCEPT ![x] = "none"]
        BY DEF RecoverTask, CreateRetry, Interrupted, CurrentExecutions
    <1>2. Effect
        <2>1. RecoveryNext
            BY DEF RecoveryNext
        <2> QED BY <2>1, RecoveryEffect DEF HistoryInv
    <1>3. ASSUME NEW y \in X, ExecOf(y) # e
          PROVE  status'[y] = status[y] /\ wf'[ExecOf(y)] = wf[ExecOf(y)] /\ lease'[y] = lease[y]
        <2>1. ExecOf(y) \in Execs /\ y # x
            BY <1>1, <1>3, Parts
        <2>2. lease'[y] = lease[y]
            BY <1>1, <2>1 DEF HistoryInv, TypeOK
        <2>3. CASE RetriesLeft(x)
            <3>1. PICK n \in NextAttempt(x) :
                    Reconcile(e, wf[e],
                              [status EXCEPT ![x] = "superseded",
                                             ![<<ExecOf(x), TaskOf(x), n>>] = "pending"],
                              Released(line, x), outcome)
                BY <1>1, <2>3 DEF RecoverTask, CreateRetry
            <3>2. PICK st : st = [status EXCEPT ![x] = "superseded",
                                                ![<<ExecOf(x), TaskOf(x), n>>] = "pending"]
                OBVIOUS
            <3>3. st \in [X -> TaskStatus]
                BY <3>2 DEF HistoryInv, TypeOK, TaskStatus
            <3>4. Wrote(e, wf[e], st, outcome)
                BY <3>1, <3>2, <3>3, ReconcileWrites DEF RecoverTask, HistoryInv, TypeOK
            <3>5. y # <<ExecOf(x), TaskOf(x), n>>
                BY <1>1, <1>3 DEF ExecOf
            <3>6. st[y] = status[y]
                BY <2>1, <3>2, <3>5 DEF HistoryInv, TypeOK
            <3>7. y \notin Waiting(e, st)
                BY <1>3 DEF Waiting, CurrentExecutions
            <3> QED BY <1>3, <2>1, <2>2, <3>4, <3>6, <3>7 DEF Wrote
        <2>4. CASE ~RetriesLeft(x)
            BY <2>1, <2>2, <2>4 DEF RecoverTask, HistoryInv, TypeOK
        <2> QED BY <2>3, <2>4
    <1> QED BY <1>1, <1>3 DEF Recovered

(* A workflow is recovered when none of its tasks is interrupted any more. *)
LEMMA RecoverWorkflowKeeps ==
    ASSUME HistoryInv, Recovered, NEW e \in Execs, RecoverWorkflow(e)
    PROVE  Recovered'
    <1>1. /\ Interrupted(e) = {}
          /\ Reconcile(e, wf[e], status, line, outcome)
          /\ recovering' = recovering \ {e}
          /\ lease' = lease /\ outcome' = outcome
        BY DEF RecoverWorkflow
    <1>2. Wrote(e, wf[e], status, outcome)
        BY <1>1, ReconcileWrites DEF HistoryInv, TypeOK
    <1>3. ASSUME NEW x \in X, status'[x] \in {"running", "verifying"},
                 wf'[ExecOf(x)] \in ActiveWorkflow, ExecOf(x) \notin recovering'
          PROVE  lease[x] = "live"
        <2>1. status[x] = status'[x]
            BY <1>2, <1>3 DEF Wrote
        <2>2. CASE ExecOf(x) = e
            <3>1. x \in CurrentExecutions(status, e)
                BY <1>3, <2>1, <2>2, CurrentMeans DEF HistoryInv, Good, Live
            <3> QED BY <1>1, <1>3, <2>1, <3>1 DEF Interrupted
        <2>3. CASE ExecOf(x) # e
            <3>1. wf[ExecOf(x)] \in ActiveWorkflow
                BY <1>2, <1>3, <2>3, Parts DEF Wrote
            <3> QED BY <1>1, <1>3, <2>1, <2>3, <3>1 DEF Recovered
        <2> QED BY <2>2, <2>3
    <1> QED BY <1>1, <1>3 DEF Recovered

(* So while a restart recovers, what it is done with stays recovered.      *)
LEMMA RecoveredStep ==
    ASSUME HistoryInv, Up \/ Recovered, [Next]_vars
    PROVE  /\ Up' \/ Recovered'
           /\ ~Up => Recovered'
    <1>1. CASE UNCHANGED vars
        BY <1>1 DEF vars, durable, volatile, Up, Recovered
    <1>2. CASE RecoveryNext
        <2>1. ~Up /\ Recovered
            BY <1>2 DEF RecoveryNext, RecoverTask, RecoverWorkflow, Up
        <2> QED BY <1>2, <2>1, RecoverTaskKeeps, RecoverWorkflowKeeps DEF RecoveryNext
    <1>3. CASE Up /\ recovering' = recovering
        BY <1>3 DEF Up
    <1>4. CASE Up /\ Crash
        BY <1>4, Parts DEF Crash, durable, Recovered
    <1> QED BY <1>1, <1>2, <1>3, <1>4, RecoversAlone

(* A restart serves only after everything that was in progress without a   *)
(* valid lease, in any active execution, was failed or retried.            *)
THEOREM RestartsRecover == Spec /\ ReplaysInTime => RecoveryComplete
    <1>1. Init => Up \/ Recovered
        BY DEF Init, Up
    <1>2. HistoryInv /\ (Up \/ Recovered) /\ [Next]_vars => (Up \/ Recovered)'
        BY RecoveredStep
    <1>3. HistoryInv /\ (Up \/ Recovered) /\ [Next]_vars =>
              [(~Up /\ recovering' = {}) =>
                  \A x \in X : (wf'[ExecOf(x)] \in ActiveWorkflow /\ status'[x] \in {"running", "verifying"})
                                   => lease'[x] = "live"]_vars
        <2> SUFFICES ASSUME HistoryInv, Up \/ Recovered, [Next]_vars, ~Up, recovering' = {},
                            NEW x \in X, wf'[ExecOf(x)] \in ActiveWorkflow,
                            status'[x] \in {"running", "verifying"}
                     PROVE  lease'[x] = "live"
            OBVIOUS
        <2> QED BY RecoveredStep DEF Recovered
    <1> QED BY <1>1, <1>2, <1>3, HistoryInvariant, PTL DEF Spec, RecoveryComplete

-----------------------------------------------------------------------------
(* What holds of replays that fail late, too.                              *)

(* A replay that fails reconciles like any other step, whatever it         *)
(* overwrites.                                                             *)
LEMMA ReplayFailsWrites ==
    ASSUME TypeOK, NEW x \in X, ReplayFails(x), NEW st,
           st = [status EXCEPT ![x] = "failed"]
    PROVE  Wrote(ExecOf(x), wf[ExecOf(x)], st, outcome)
    <1>1. ExecOf(x) \in Execs /\ st \in [X -> TaskStatus]
        BY Parts DEF TypeOK, TaskStatus
    <1> QED BY <1>1, ReconcileWrites DEF ReplayFails, TypeOK

(* Every step has an effect of the six kinds, or is a replay that fails.   *)
LEMMA LateOrEffect ==
    ASSUME TypeOK, [Next]_vars
    PROVE  Effect \/ \E x \in X : ReplayFails(x)
    BY StepEffect DEF InTime

(* A replay that fails queues nothing in a paused workflow, and no draft   *)
(* but that of a resume makes it run.                                      *)
LEMMA PauseKept ==
    ASSUME TypeOK, [Next]_vars, NEW x \in X,
           wf[ExecOf(x)] = "paused", status[x] # "queued", status'[x] = "queued"
    PROVE  Resume(ExecOf(x))
    <1>1. CASE \E y \in X : ReplayFails(y)
        <2>1. PICK y \in X : ReplayFails(y)
            BY <1>1
        <2>2. PICK st : st = [status EXCEPT ![y] = "failed"]
            OBVIOUS
        <2>3. Wrote(ExecOf(y), wf[ExecOf(y)], st, outcome)
            BY <2>1, <2>2, ReplayFailsWrites
        <2>4. st[x] # "queued"
            BY <2>2 DEF TypeOK
        <2>5. x \in Waiting(ExecOf(y), st) /\ wf[ExecOf(y)] = "running"
            BY <2>3, <2>4 DEF Wrote
        <2> QED BY <2>5 DEF Waiting, CurrentExecutions
    <1>2. CASE Still
        BY <1>2 DEF Still
    <1>3. CASE \E e \in Execs : Drafted(e)
        <2>1. PICK e \in Execs, w \in WorkflowStatus, st \in [X -> TaskStatus],
                   oc \in [Lines -> BOOLEAN] : Draft(e, w, st, oc) /\ Wrote(e, w, st, oc)
            BY <1>3 DEF Drafted
        <2>2. status \in [X -> TaskStatus]
            BY DEF TypeOK
        <2>3. st[x] # "queued"
            BY <2>1, <2>2 DEF Draft, Refreshes, Updates, Retries, NextAttempt, Creates, Cancels,
               Finishes
        <2>4. x \in Waiting(e, st) /\ w = "running"
            BY <2>1, <2>3 DEF Wrote
        <2>5. ExecOf(x) = e
            BY <2>4 DEF Waiting, CurrentExecutions
        <2> QED BY <2>1, <2>4, <2>5 DEF Draft, Refreshes, Updates, Retries, Creates, Cancels,
                   Finishes
    <1> QED BY <1>1, <1>2, <1>3, LateOrEffect DEF Effect

(* Whatever completes, retries, restarts or fails late, nothing of a       *)
(* paused workflow is queued before the operator resumes it.               *)
THEOREM PausesHold == Spec => PauseHolds
    <1>1. TypeOK /\ [Next]_vars =>
              [\A x \in X :
                (wf[ExecOf(x)] = "paused" /\ status[x] # "queued" /\ status'[x] = "queued")
                    => Resume(ExecOf(x))]_vars
        BY PauseKept
    <1> QED BY <1>1, TypeCorrect, PTL DEF Spec, PauseHolds

(* With a retry left the next attempt is the second at most.               *)
LEMMA SecondAttempt ==
    ASSUME NEW x \in X, RetriesLeft(x), NEW n \in NextAttempt(x)
    PROVE  n <= 2
    <1> DEFINE made == {m \in Attempts : Exists(status, <<ExecOf(x), TaskOf(x), m>>)}
    <1>1. /\ n \in Nat /\ 1 \in Attempts /\ 2 \in Attempts
          /\ \A m \in Attempts : ~Exists(status, <<ExecOf(x), TaskOf(x), m>>) => n <= m
        BY BoundAssumption DEF NextAttempt, Attempts
    <1>2. ASSUME n > 2 PROVE FALSE
        <2>1. {1, 2} \subseteq made
            BY <1>1, <1>2
        <2>2. IsFiniteSet(Attempts) /\ made \subseteq Attempts
            BY BoundAssumption, FS_Interval DEF Attempts
        <2>3. IsFiniteSet(made)
            BY <2>2, FS_Subset
        <2>4. Cardinality({1, 2}) <= Cardinality(made) /\ Cardinality(made) \in Nat
            BY <2>1, <2>3, FS_Subset, FS_CardinalityType
        <2>5. Cardinality({1, 2}) = 2
            <3>1. {1, 2} = {1} \cup {2} /\ 2 \notin {1}
                OBVIOUS
            <3>2. IsFiniteSet({1}) /\ Cardinality({1}) = 1
                BY FS_Singleton
            <3>3. Cardinality({1} \cup {2}) = Cardinality({1}) + 1
                BY <3>1, <3>2, FS_AddElement
            <3> QED BY <3>1, <3>2, <3>3
        <2>6. Cardinality(made) < 2
            BY DEF RetriesLeft, AttemptsOf
        <2> QED BY <2>4, <2>5, <2>6
    <1> QED BY <1>1, <1>2

(* A replay that fails creates no attempt, and a retry that is not an      *)
(* operator's looks at the number of attempts.                             *)
LEMMA RetriesOnce ==
    ASSUME TypeOK, [Next]_vars, job' # job \/ ~Up,
           NEW x \in X, AttemptOf(x) > 2, status[x] = "absent"
    PROVE  status'[x] = "absent"
    <1>1. status \in [X -> TaskStatus]
        BY DEF TypeOK
    <1>2. ASSUME NEW y \in X, ReplayFails(y) PROVE FALSE
        BY <1>2 DEF ReplayFails
    <1>3. CASE Still
        BY <1>3 DEF Still
    <1>4. CASE \E e \in Execs : Drafted(e)
        <2>1. PICK e \in Execs, w \in WorkflowStatus, st \in [X -> TaskStatus],
                   oc \in [Lines -> BOOLEAN] : Draft(e, w, st, oc) /\ Wrote(e, w, st, oc)
            BY <1>4 DEF Drafted
        <2>2. ASSUME Retries(e, w, st, oc) PROVE st[x] = "absent"
            <3>1. PICK y \in X, n \in Attempts :
                    /\ n \in NextAttempt(y) /\ RetriesLeft(y)
                    /\ status[y] \in Failable \cup {"failed"}
                    /\ st = [status EXCEPT ![y] = "superseded",
                                           ![<<ExecOf(y), TaskOf(y), n>>] = "pending"]
                BY <2>2 DEF Retries, NextAttempt
            <3>2. n <= 2 /\ n \in Nat /\ AttemptOf(x) \in Nat
                BY <3>1, SecondAttempt, AttemptNat, BoundAssumption DEF Attempts
            <3>3. PICK next : next = <<ExecOf(y), TaskOf(y), n>>
                OBVIOUS
            <3>4. x # next
                BY <3>2, <3>3 DEF AttemptOf
            <3>5. x # y
                BY <3>1 DEF Failable
            <3> QED BY <1>1, <3>1, <3>3, <3>4, <3>5
        <2>3. ASSUME Updates(e, w, st, oc) PROVE st[x] = "absent"
            <3>1. PICK y \in X, s \in Begun :
                    status[y] \in Failable \cup {"failed"} /\ st = [status EXCEPT ![y] = s]
                BY <2>3 DEF Updates
            <3>2. x # y
                BY <3>1 DEF Failable
            <3> QED BY <1>1, <3>1, <3>2
        <2>4. ASSUME Cancels(e, w, st, oc) PROVE st[x] = "absent"
            BY <2>4 DEF Cancels, CurrentExecutions, Latest, Exists
        <2>5. ASSUME Creates(e, w, st, oc) PROVE st[x] = "absent"
            BY <2>5 DEF Creates
        <2>6. st[x] = "absent"
            BY <2>1, <2>2, <2>3, <2>4, <2>5 DEF Draft, Refreshes, Finishes
        <2>7. x \notin Waiting(e, st)
            BY <2>6 DEF Waiting
        <2> QED BY <2>1, <2>6, <2>7 DEF Wrote
    <1> QED BY <1>2, <1>3, <1>4, LateOrEffect DEF Effect

(* The dispatcher and a restart never make more than the second attempt of *)
(* a task between them, whoever else retries it.                           *)
THEOREM RetriesBounded == Spec => AutomaticRetryOnce
    <1>1. TypeOK /\ [Next]_vars =>
              [(job' # job \/ ~Up) =>
                  \A x \in X : AttemptOf(x) > 2 /\ ~Exists(status, x) => ~Exists(status', x)]_vars
        BY RetriesOnce DEF Exists
    <1> QED BY <1>1, TypeCorrect, PTL DEF Spec, AutomaticRetryOnce

=============================================================================
