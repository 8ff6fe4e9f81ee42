-------------------------- MODULE ContextProjector --------------------------
(***************************************************************************)
(* The projection of context nodes into document versions: the jobs that a *)
(* commit stages for the sources it changes (reconcileContextProjection-   *)
(* State), the coordinator that claims, renders and finalizes them in the  *)
(* background (ContextProjectorCoordinator), and the inline projection of  *)
(* a reader that cannot wait (ensureContextProjection).                    *)
(*                                                                         *)
(* Claim and finalize are transactions of the state store; in between, the *)
(* source may change, the lease may run out, an inline projection may take *)
(* the job, the process may stop or crash.  The content of a version is a  *)
(* function of the source, so that a version is known by its source hash.  *)
(***************************************************************************)
EXTENDS Integers, FiniteSets

CONSTANTS
    Nodes,        \* context nodes
    Hashes,       \* source hashes
    None,         \* no version
    Attempts,     \* attempts after which a failed job is left alone (3)
    MaxChanges,   \* bound: source changes
    MaxBoots,     \* bound: starts of the process
    MaxFaults     \* bound: failing renderings and lost transactions

ASSUME ProjectorAssumption ==
    /\ IsFiniteSet(Nodes) /\ Nodes # {}
    /\ IsFiniteSet(Hashes) /\ Hashes # {} /\ None \notin Hashes
    /\ Attempts \in Nat \ {0} /\ MaxChanges \in Nat
    /\ MaxBoots \in Nat \ {0} /\ MaxFaults \in Nat

VARIABLES
    source,      \* [hash, generation] of every node
    current,     \* source hash of the node's current version, or none
    versions,    \* source hashes of the node's versions
    jobs,        \* context_projection_jobs
    life,        \* the process: up, stopping or down
    boots,       \* starts of the process; a holder is known by its start
    tick,        \* the running tick: its step, claims, and results
    claimed,     \* claimedJobIds
    lost,        \* history, read by no step: the claims the process holds unawares
    changes, faults

vars == <<source, current, versions, jobs, life, boots, tick, claimed, lost, changes, faults>>
state == <<source, current, versions, jobs>>

Job == [node : Nodes, hash : Hashes, generation : 1..(MaxChanges + 1),
        status : {"pending", "running", "completed", "failed"},
        attempts : Nat,
        holder : 0..MaxBoots,   \* of the lease, 0 when there is none
        due : BOOLEAN]          \* the lease has run out, or a retry may begin

Key(j) == [node |-> j.node, hash |-> j.hash, generation |-> j.generation]
Claim == [node : Nodes, hash : Hashes, generation : 1..(MaxChanges + 1)]
Idle == [step |-> "idle", claims |-> {}, failed |-> {}]

KeyOf(n) == [node |-> n, hash |-> source[n].hash, generation |-> source[n].generation]
IsCurrent(j) == Key(j) = KeyOf(j.node)
Stale(n) == current[n] # source[n].hash

NewJob(k, attempts) ==
    [node |-> k.node, hash |-> k.hash, generation |-> k.generation, status |-> "pending",
     attempts |-> attempts, holder |-> 0, due |-> FALSE]

Init ==
    /\ source \in [Nodes -> [hash : Hashes, generation : {1}]]
    /\ current = [n \in Nodes |-> None]
    /\ versions = [n \in Nodes |-> {}]
    /\ jobs = {NewJob(KeyOf(n), 0) : n \in Nodes}
    /\ life = "up"
    /\ boots = 1
    /\ tick = Idle
    /\ claimed = {} /\ lost = {}
    /\ changes = 0
    /\ faults = 0

-----------------------------------------------------------------------------
(* Time: a lease runs out, the retry of a failed job comes due             *)

Elapse ==
    /\ \E j \in jobs :
           /\ j.status \in {"running", "failed"} /\ ~j.due
           /\ jobs' = (jobs \ {j}) \cup {[j EXCEPT !.due = TRUE]}
    /\ UNCHANGED <<source, current, versions, life, boots, tick, claimed, lost, changes, faults>>

-----------------------------------------------------------------------------
(* reconcileContextProjectionState                                         *)

\* mutant: a job that has failed is dropped like one of an old source
KeptUnfailed(j) == IsCurrent(j)' /\ j.status # "failed"

\* compactContextProjectionJobs
Kept(j) == IsCurrent(j)'

\* The commit that changes the source of n also stages its job, unless a
\* version of that source exists already.  (The generation in the name of a
\* job makes the staged job a new one.)
Change(n, h) ==
    /\ changes < MaxChanges
    /\ h # source[n].hash
    /\ source' = [source EXCEPT ![n] = [hash |-> h, generation |-> @.generation + 1]]
    /\ IF h \in versions[n]
       THEN /\ current' = [current EXCEPT ![n] = h]
            /\ jobs' = {j \in jobs : Kept(j)}
       ELSE /\ jobs' = {j \in jobs : Kept(j)} \cup {NewJob(KeyOf(n)', 0)}
            /\ UNCHANGED current
    /\ changes' = changes + 1
    /\ UNCHANGED <<versions, life, boots, tick, claimed, lost, faults>>

\* pruneExpiredContextVersions: a version that is not current gets too old
Prune(n) ==
    /\ \E h \in versions[n] \ {current[n]} : versions' = [versions EXCEPT ![n] = @ \ {h}]
    /\ UNCHANGED <<source, current, jobs, life, boots, tick, claimed, lost, changes, faults>>

-----------------------------------------------------------------------------
(* The tick of the coordinator                                             *)

\* mutant: a lease that ran out is not given up
RecoveredNever(j) == j

\* running jobs whose lease has run out go back to pending
Recovered(j) ==
    IF j.status = "running" /\ j.due
    THEN [j EXCEPT !.status = "pending", !.holder = 0, !.due = FALSE]
    ELSE j

Claimable(j) ==
    \/ j.status = "pending"
    \/ j.status = "failed" /\ j.attempts < Attempts /\ j.due

\* mutant: the lease is taken in the name of the next start
LeasedNext(j) == [j EXCEPT !.status = "running", !.attempts = @ + 1, !.holder = boots + 1]

Leased(j) == [j EXCEPT !.status = "running", !.attempts = @ + 1, !.holder = boots, !.due = FALSE]

\* claimContextProjectionJobsInState: every job it finds is one of the
\* current source, since the others were compacted
Claimed(batch) == {IF j \in batch THEN Leased(j) ELSE j : j \in {Recovered(i) : i \in jobs}}

ClaimJobs ==
    /\ life = "up"
    /\ tick.step = "idle"
    /\ LET batch == {j \in {Recovered(i) : i \in jobs} : Claimable(j)}
           keys == {Key(j) : j \in batch}
       IN  /\ batch # {}
           /\ jobs' = Claimed(batch)
           /\ \/ /\ tick' = [Idle EXCEPT !.step = "claimed", !.claims = keys]
                 /\ claimed' = claimed \cup keys
                 /\ lost' = lost \ keys
                 /\ UNCHANGED faults
              \/ \* the answer of the transaction is lost
                 /\ faults < MaxFaults
                 /\ faults' = faults + 1
                 /\ lost' = lost \cup keys
                 /\ UNCHANGED <<tick, claimed>>
    /\ UNCHANGED <<source, current, versions, life, boots, changes>>

\* prepareClaimedContextProjection of each claim against one snapshot: a
\* source that changed since the claim fails, and so does a rendering whose
\* worker fails or was stopped
Prepare ==
    /\ life # "down"
    /\ tick.step = "claimed"
    /\ \E failing \in SUBSET tick.claims :
           /\ {c \in tick.claims : c # KeyOf(c.node)} \subseteq failing
           /\ life = "stopping" => failing = tick.claims
           /\ LET broken == {c \in failing : c = KeyOf(c.node)} # {} /\ life = "up"
              IN  /\ broken => faults < MaxFaults
                  /\ faults' = IF broken THEN faults + 1 ELSE faults
           /\ tick' = [tick EXCEPT !.step = "prepared", !.failed = failing]
    /\ UNCHANGED <<state, life, boots, claimed, lost, changes>>

\* mutant: the lease is not compared
OwnedAny(j) == TRUE

\* leaseOwnedBy
Owned(j) == j.status = "running" /\ j.holder = boots

Finalized(j) ==
    CASE Owned(j) /\ Key(j) \in tick.failed ->
            [j EXCEPT !.status = "failed", !.holder = 0, !.due = FALSE]
      [] Owned(j) /\ Key(j) \in tick.claims \ tick.failed ->
            [j EXCEPT !.status = "completed", !.holder = 0, !.due = FALSE]
      [] OTHER -> j

\* nodes of the artifacts whose job is still leased to this tick
Delivered ==
    {j.node : j \in {i \in jobs : Owned(i) /\ Key(i) \in tick.claims \ tick.failed}}

\* mutant: what was claimed is forgotten when the tick ends
ForgottenAlways == claimed \ tick.claims

\* the claims of a tick that was stopped are left for stop to release
Forgotten == IF life = "stopping" THEN claimed ELSE claimed \ tick.claims

FinalizeJobs ==
    /\ jobs' = {Finalized(j) : j \in jobs}
    /\ current' = [n \in Nodes |-> IF n \in Delivered THEN source[n].hash ELSE current[n]]
    /\ versions' = [n \in Nodes |-> (versions[n] \cup {current'[n]}) \ {None}]

\* finalizeClaimedContextProjectionsInState, unless the coordinator was
\* stopped; its answer may be lost, or the transaction be refused
Finalize ==
    /\ life # "down"
    /\ tick.step = "prepared"
    /\ tick' = Idle
    /\ \/ /\ life = "stopping"
          /\ claimed' = Forgotten
          /\ UNCHANGED <<current, versions, jobs, faults>>
       \/ /\ life = "up"
          /\ FinalizeJobs
          /\ claimed' = Forgotten
          /\ UNCHANGED faults
       \/ /\ life = "up"
          /\ faults < MaxFaults
          /\ faults' = faults + 1
          /\ FinalizeJobs \/ UNCHANGED <<current, versions, jobs>>
          /\ UNCHANGED claimed
    /\ UNCHANGED <<source, life, boots, lost, changes>>

-----------------------------------------------------------------------------
(* ensureContextProjection: one transaction projects the node inline.  A   *)
(* job that another holder renders is left alone; with force a job that    *)
(* failed too often is tried again.                                        *)

InlineJob(j, force) ==
    \/ Claimable(j)
    \/ j.status = "running" /\ j.due
    \/ j.status = "failed" /\ force

Inline(n, force) ==
    /\ life = "up"
    /\ \E j \in jobs :
           /\ j.node = n /\ InlineJob(j, force) /\ IsCurrent(j)
           /\ \/ /\ jobs' = (jobs \ {j}) \cup
                     {[j EXCEPT !.status = "completed", !.attempts = @ + 1, !.holder = 0,
                                !.due = FALSE]}
                 /\ current' = [current EXCEPT ![n] = source[n].hash]
                 /\ versions' = [versions EXCEPT ![n] = @ \cup {source[n].hash}]
                 /\ UNCHANGED faults
              \/ /\ faults < MaxFaults
                 /\ faults' = faults + 1
                 /\ jobs' = (jobs \ {j}) \cup
                     {[j EXCEPT !.status = "failed", !.attempts = @ + 1, !.holder = 0,
                                !.due = FALSE]}
                 /\ UNCHANGED <<current, versions>>
    /\ UNCHANGED <<source, life, boots, tick, claimed, lost, changes>>

-----------------------------------------------------------------------------
(* Stops, crashes and starts                                               *)

Stop ==
    /\ life = "up"
    /\ boots < MaxBoots
    /\ life' = "stopping"
    /\ UNCHANGED <<state, boots, tick, claimed, lost, changes, faults>>

\* stopInternal, once the tick has ended: releaseContextProjectionLeases
Release ==
    /\ life = "stopping"
    /\ tick.step = "idle"
    /\ jobs' = {IF Owned(j) /\ Key(j) \in claimed
                THEN [j EXCEPT !.status = "pending", !.holder = 0, !.due = FALSE]
                ELSE j : j \in jobs}
    /\ claimed' = {} /\ lost' = {}
    /\ life' = "down"
    /\ UNCHANGED <<source, current, versions, boots, tick, changes, faults>>

\* the transaction of the release fails, and stop goes on without it
ReleaseFails ==
    /\ life = "stopping"
    /\ tick.step = "idle"
    /\ claimed # {}
    /\ faults < MaxFaults
    /\ faults' = faults + 1
    /\ claimed' = {} /\ lost' = {}
    /\ life' = "down"
    /\ UNCHANGED <<state, boots, tick, changes>>

Crash ==
    /\ life # "down"
    /\ boots < MaxBoots
    /\ life' = "down"
    /\ tick' = Idle
    /\ claimed' = {} /\ lost' = {}
    /\ UNCHANGED <<state, boots, changes, faults>>

\* ensureRuntime gives up the leases that ran out
Boot ==
    /\ life = "down"
    /\ boots < MaxBoots
    /\ boots' = boots + 1
    /\ life' = "up"
    /\ jobs' = {Recovered(j) : j \in jobs}
    /\ UNCHANGED <<source, current, versions, tick, claimed, lost, changes, faults>>

Next ==
    \/ Elapse
    \/ \E n \in Nodes : Prune(n) \/ \E h \in Hashes : Change(n, h)
    \/ ClaimJobs \/ Prepare \/ Finalize
    \/ \E n \in Nodes, force \in BOOLEAN : Inline(n, force)
    \/ Stop \/ Release \/ ReleaseFails \/ Crash \/ Boot

Spec == Init /\ [][Next]_vars

(* The interval timer calls tick for ever, a started tick and a started    *)
(* stop go on, time passes, and a supervisor starts the process again.     *)
Fairness ==
    /\ WF_vars(ClaimJobs) /\ WF_vars(Prepare) /\ WF_vars(Finalize)
    /\ WF_vars(Release) /\ WF_vars(Boot) /\ WF_vars(Elapse)

FairSpec == Spec /\ Fairness

-----------------------------------------------------------------------------
TypeOK ==
    /\ source \in [Nodes -> [hash : Hashes, generation : 1..(MaxChanges + 1)]]
    /\ current \in [Nodes -> Hashes \cup {None}]
    /\ versions \in [Nodes -> SUBSET Hashes]
    /\ jobs \subseteq Job
    /\ life \in {"up", "stopping", "down"}
    /\ boots \in 1..MaxBoots
    /\ tick.step \in {"idle", "claimed", "prepared"}
    /\ tick.claims \subseteq Claim /\ tick.failed \subseteq tick.claims
    /\ claimed \subseteq Claim /\ lost \subseteq Claim
    /\ changes \in 0..MaxChanges /\ faults \in 0..MaxFaults

(* No source is forgotten: a node whose current version is not one of its  *)
(* source has exactly one job for that source, which has not completed.    *)
StaleHasJob ==
    \A n \in Nodes :
        Stale(n) => \E j \in jobs :
                        /\ Key(j) = KeyOf(n) /\ j.status # "completed"
                        /\ \A i \in jobs : i.node = n => i = j

(* What a late result finds done stays done: a node that shows its source  *)
(* has no job that says otherwise, be it that the lease was lost, the job  *)
(* was taken inline or the source went back to what it was (A-B-A).        *)
DoneStaysDone ==
    \A j \in jobs : ~Stale(j.node) => j.status = "completed"

(* A stop that releases leaves no lease of the process behind, whatever    *)
(* failed before it, except of a claim whose answer the process never got  *)
(* (OPT21-01).                                                             *)
StopReleases ==
    [][Release => \A j \in jobs' : j.holder = boots => Key(j) \in lost]_vars

(* Every node comes to show its source, or its job has failed as often as  *)
(* it is tried: whatever crashed, stopped or got lost on the way.          *)
Projected ==
    \A n \in Nodes :
        []<>(\/ ~Stale(n)
             \/ \E j \in jobs : j.node = n /\ j.status = "failed" /\ j.attempts >= Attempts)
=============================================================================
