------------------------ MODULE MCWorkflowExecution ------------------------
(***************************************************************************)
(* Plans on which TLC checks WorkflowExecution.  A task is named for its   *)
(* executor: a assist, c repository_change, i repository_integrate,        *)
(* m manual, v repository_verify.                                          *)
(***************************************************************************)
EXTENDS WorkflowExecutionProps, TLC

CONSTANTS e1, e2, a1, c1, c2, i1, m1, v1, v2, s1, s2

Streams1 == {s1}
Streams2 == {s1, s2}
NoStreamDep == s1 :> {}

\* two independent writers on one line, and a checkpoint after the first
LineTasks == {c1, c2, m1}
LineOrder == c1 :> 1 @@ c2 :> 2 @@ m1 :> 3
LineDep == c1 :> {} @@ c2 :> {} @@ m1 :> {c1}
LineExecutor == c1 :> "repository_change" @@ c2 :> "repository_change" @@ m1 :> "manual"
LineStream == [t \in LineTasks |-> s1]

\* an assist whose output a human confirms, then a manual checkpoint
ReviewTasks == {a1, m1}
ReviewOrder == a1 :> 1 @@ m1 :> 2
ReviewDep == a1 :> {} @@ m1 :> {a1}
ReviewExecutor == a1 :> "assist" @@ m1 :> "manual"
ReviewStream == [t \in ReviewTasks |-> s1]

\* the merge of one workstream is the base two verifiers of another pin
HandoffTasks == {c1, i1, v1, v2}
HandoffOrder == c1 :> 1 @@ i1 :> 2 @@ v1 :> 3 @@ v2 :> 4
HandoffDep == c1 :> {} @@ i1 :> {c1} @@ v1 :> {} @@ v2 :> {}
HandoffExecutor == c1 :> "repository_change" @@ i1 :> "repository_integrate"
                   @@ v1 :> "repository_verify" @@ v2 :> "repository_verify"
HandoffStream == c1 :> s1 @@ i1 :> s1 @@ v1 :> s2 @@ v2 :> s2
HandoffStreamDep == s1 :> {} @@ s2 :> {s1}

\* two executions of a workflow with one task
PlanTasks == {a1}
PlanOrder == a1 :> 1
PlanDep == a1 :> {}
PlanExecutor == a1 :> "assist"
PlanStream == a1 :> s1
=============================================================================
