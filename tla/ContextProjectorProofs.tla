----------------------- MODULE ContextProjectorProofs -----------------------
(***************************************************************************)
(* Proofs about the projection of context nodes: what ContextProjector     *)
(* says of sources, versions, jobs and leases holds for any sets of nodes  *)
(* and hashes, and any number of changes, starts and faults.               *)
(***************************************************************************)
EXTENDS ContextProjector, TLAPS

-----------------------------------------------------------------------------
(* The inductive invariant.                                                *)

(* A change makes a generation that no job has, and the current version of *)
(* a node is one of its versions.                                          *)
Sourced ==
    \A n \in Nodes :
        /\ source[n].generation <= changes + 1
        /\ current[n] # None => current[n] \in versions[n]

(* Every job is of the present source of its node, which has no other.     *)
JobsCurrent ==
    /\ \A j \in jobs : IsCurrent(j)
    /\ \A i, j \in jobs : i.node = j.node => i = j

Projecting == JobsCurrent /\ StaleHasJob /\ DoneStaysDone

(* No lease is of a later start, and a running process knows of the leases *)
(* it holds, but for those of a claim whose answer was lost.               *)
Holds ==
    /\ \A j \in jobs : j.holder <= boots
    /\ life # "down" =>
           \A j \in jobs : j.holder = boots => j.status = "running" /\ Key(j) \in claimed \cup lost

(* What a tick works on was claimed by the process.                        *)
Ticks ==
    /\ tick.claims \subseteq claimed
    /\ tick.step = "idle" => tick.claims = {}

Inv == TypeOK /\ Sourced /\ Projecting /\ Holds /\ Ticks

-----------------------------------------------------------------------------
(* Jobs of the same key are of the same node, source and generation.       *)
LEMMA KeyEqual ==
    ASSUME NEW i, NEW j, Key(i) = Key(j)
    PROVE  i.node = j.node /\ i.hash = j.hash /\ i.generation = j.generation
    BY DEF Key

(* A lease that is given up leaves the job under its key (Recovered).      *)
LEMMA RecoveredJob ==
    ASSUME NEW j \in Job
    PROVE  /\ Recovered(j) \in Job /\ Key(Recovered(j)) = Key(j)
           /\ \/ Recovered(j) = j
              \/ /\ j.status = "running" /\ Recovered(j).status = "pending"
                 /\ Recovered(j).holder = 0
    <1> DEFINE r == [j EXCEPT !.status = "pending", !.holder = 0, !.due = FALSE]
    <1>1. r \in Job
        <2>1. 0 \in 0..MaxBoots
            BY ProjectorAssumption
        <2> QED BY <2>1 DEF Job
    <1>2. Key(r) = Key(j)
        BY DEF Job, Key
    <1>3. r.status = "pending"
        BY DEF Job
    <1>4. r.holder = 0
        BY DEF Job
    <1> HIDE DEF r
    <1>5. CASE j.status = "running" /\ j.due
        <2>1. Recovered(j) = r
            BY <1>5 DEF Recovered, r
        <2> QED BY <1>1, <1>2, <1>3, <1>4, <1>5, <2>1
    <1>6. CASE ~(j.status = "running" /\ j.due)
        BY <1>6 DEF Recovered
    <1> QED BY <1>5, <1>6

(* A step that rewrites jobs one by one, under their keys.                 *)
LEMMA MappedJobs ==
    ASSUME jobs \subseteq Job, Projecting, source' = source,
           NEW f \in [jobs -> Job], jobs' = {f[j] : j \in jobs},
           \A j \in jobs : Key(f[j]) = Key(j),
           \A n \in Nodes : Stale(n)' => Stale(n),
           \A j \in jobs : f[j].status = "completed" /\ j.status # "completed" => ~Stale(j.node)',
           \A j \in jobs : ~Stale(j.node)' => f[j].status = "completed"
    PROVE  jobs' \subseteq Job /\ Projecting'
    <1>1. \A j \in jobs : f[j].node = j.node
        BY KeyEqual
    <1>2. jobs' \subseteq Job
        OBVIOUS
    <1>3. \A n \in Nodes : KeyOf(n)' = KeyOf(n)
        BY DEF KeyOf
    <1>4. JobsCurrent'
        <2>1. ASSUME NEW j \in jobs' PROVE IsCurrent(j)'
            <3>1. PICK i \in jobs : j = f[i]
                OBVIOUS
            <3>2. Key(i) = KeyOf(i.node) /\ i.node \in Nodes
                BY DEF Projecting, JobsCurrent, IsCurrent, Job
            <3> QED BY <1>1, <1>3, <3>1, <3>2 DEF IsCurrent
        <2>2. ASSUME NEW i \in jobs', NEW j \in jobs', i.node = j.node PROVE i = j
            BY <1>1, <2>2 DEF Projecting, JobsCurrent
        <2> QED BY <2>1, <2>2 DEF JobsCurrent
    <1>5. StaleHasJob'
        <2>1. SUFFICES ASSUME NEW n \in Nodes, Stale(n)'
                       PROVE  (\E j \in jobs :
                                  /\ Key(j) = KeyOf(n) /\ j.status # "completed"
                                  /\ \A i \in jobs : i.node = n => i = j)'
            BY DEF StaleHasJob
        <2>2. PICK j \in jobs : /\ Key(j) = KeyOf(n) /\ j.status # "completed"
                                /\ \A i \in jobs : i.node = n => i = j
            BY <2>1 DEF Projecting, StaleHasJob
        <2>3. j.node = n
            BY <2>2 DEF Key, KeyOf
        <2>4. f[j].status # "completed"
            BY <2>1, <2>2, <2>3
        <2>5. Key(f[j]) = KeyOf(n)'
            BY <1>3, <2>2
        <2>6. \A i \in jobs' : i.node = n => i = f[j]
            BY <1>1, <2>2
        <2> QED BY <2>4, <2>5, <2>6
    <1>6. DoneStaysDone'
        <2>1. SUFFICES ASSUME NEW j \in jobs', ~Stale(j.node)' PROVE j.status = "completed"
            BY DEF DoneStaysDone
        <2>2. PICK i \in jobs : j = f[i]
            OBVIOUS
        <2> QED BY <1>1, <2>1, <2>2
    <1> QED BY <1>2, <1>4, <1>5, <1>6 DEF Projecting

-----------------------------------------------------------------------------
(* Each step keeps the invariant.                                          *)

(* Time changes nothing but what has come due.                             *)
LEMMA ElapseKeeps ==
    ASSUME Inv, Elapse PROVE Inv'
    <1>1. PICK j \in jobs : /\ j.status \in {"running", "failed"} /\ ~j.due
                            /\ jobs' = (jobs \ {j}) \cup {[j EXCEPT !.due = TRUE]}
        BY DEF Elapse
    <1> DEFINE f == [i \in jobs |-> IF i = j THEN [j EXCEPT !.due = TRUE] ELSE i]
    <1>2. j \in Job /\ jobs \subseteq Job
        BY DEF Inv, TypeOK
    <1>3. /\ [j EXCEPT !.due = TRUE] \in Job
          /\ Key([j EXCEPT !.due = TRUE]) = Key(j)
          /\ [j EXCEPT !.due = TRUE].status = j.status
          /\ [j EXCEPT !.due = TRUE].holder = j.holder
        BY <1>2 DEF Job, Key
    <1>4. f \in [jobs -> Job] /\ jobs' = {f[i] : i \in jobs}
        BY <1>1, <1>2, <1>3
    <1>5. \A i \in jobs : Key(f[i]) = Key(i) /\ f[i].status = i.status /\ f[i].holder = i.holder
        BY <1>3
    <1>6. UNCHANGED <<source, current, versions, life, boots, tick, claimed, lost, changes, faults>>
        BY DEF Elapse
    <1> HIDE DEF f
    <1>7. jobs' \subseteq Job /\ Projecting'
        <2>1. \A n \in Nodes : Stale(n)' <=> Stale(n)
            BY <1>6 DEF Stale
        <2>2. \A i \in jobs : i.node \in Nodes
            BY <1>2 DEF Job
        <2>3. \A i \in jobs : ~Stale(i.node)' => f[i].status = "completed"
            BY <1>5, <2>1, <2>2 DEF Inv, Projecting, DoneStaysDone
        <2> QED BY <1>2, <1>4, <1>5, <1>6, <2>1, <2>3, MappedJobs DEF Inv
    <1>8. TypeOK'
        BY <1>6, <1>7 DEF Inv, TypeOK
    <1>9. Holds'
        BY <1>4, <1>5, <1>6 DEF Inv, Holds
    <1>10. Sourced' /\ Ticks'
        BY <1>6 DEF Inv, Sourced, Ticks
    <1> QED BY <1>7, <1>8, <1>9, <1>10 DEF Inv

(* A job that is claimed is leased to the running process, under its key.  *)
LEMMA LeasedJob ==
    ASSUME boots \in 1..MaxBoots, NEW j \in Job
    PROVE  /\ Leased(j) \in Job /\ Key(Leased(j)) = Key(j)
           /\ Leased(j).status = "running" /\ Leased(j).holder = boots
    <1>1. Leased(j) \in Job
        <2>1. boots \in 0..MaxBoots /\ j.attempts + 1 \in Nat
            BY ProjectorAssumption DEF Job
        <2> QED BY <2>1 DEF Job, Leased
    <1>2. Key(Leased(j)) = Key(j)
        BY DEF Job, Key, Leased
    <1>3. Leased(j).status = "running"
        BY DEF Job, Leased
    <1>4. Leased(j).holder = boots
        BY DEF Job, Leased
    <1> QED BY <1>1, <1>2, <1>3, <1>4

(* What a claim makes of a job.                                            *)
ClaimedJob(j) == IF Claimable(Recovered(j)) THEN Leased(Recovered(j)) ELSE Recovered(j)

(* A claim keeps the key of a job, and takes none that has completed.      *)
LEMMA ClaimedJobShape ==
    ASSUME boots \in 1..MaxBoots, NEW j \in Job
    PROVE  /\ ClaimedJob(j) \in Job /\ Key(ClaimedJob(j)) = Key(j)
           /\ ClaimedJob(j).status = "completed" <=> j.status = "completed"
           /\ \/ ClaimedJob(j) = j
              \/ ClaimedJob(j).holder = 0
              \/ /\ ClaimedJob(j).holder = boots /\ ClaimedJob(j).status = "running"
                 /\ Claimable(Recovered(j))
    <1>1. /\ Recovered(j) \in Job /\ Key(Recovered(j)) = Key(j)
          /\ \/ Recovered(j) = j
             \/ /\ j.status = "running" /\ Recovered(j).status = "pending"
                /\ Recovered(j).holder = 0
        BY RecoveredJob
    <1>2. CASE Claimable(Recovered(j))
        <2>1. ClaimedJob(j) = Leased(Recovered(j))
            BY <1>2 DEF ClaimedJob
        <2>2. Recovered(j).status # "completed"
            BY <1>2 DEF Claimable
        <2>3. j.status # "completed"
            BY <1>1, <2>2
        <2>4. /\ Leased(Recovered(j)) \in Job /\ Key(Leased(Recovered(j))) = Key(Recovered(j))
              /\ Leased(Recovered(j)).status = "running" /\ Leased(Recovered(j)).holder = boots
            BY <1>1, LeasedJob
        <2> QED BY <1>1, <1>2, <2>1, <2>3, <2>4
    <1>3. CASE ~Claimable(Recovered(j))
        <2>1. ClaimedJob(j) = Recovered(j)
            BY <1>3 DEF ClaimedJob
        <2> QED BY <1>1, <2>1
    <1> QED BY <1>2, <1>3

(* claimContextProjectionJobsInState keeps the invariant, be its answer    *)
(* received or lost.                                                       *)
LEMMA ClaimJobsKeeps ==
    ASSUME Inv, ClaimJobs PROVE Inv'
    <1> DEFINE batch == {j \in {Recovered(i) : i \in jobs} : Claimable(j)}
               keys == {Key(j) : j \in batch}
               f == [j \in jobs |-> ClaimedJob(j)]
    <1>1. /\ life = "up" /\ jobs' = Claimed(batch)
          /\ UNCHANGED <<source, current, versions, life, boots, changes>>
        BY DEF ClaimJobs
    <1>2. \/ /\ tick' = [Idle EXCEPT !.step = "claimed", !.claims = keys]
             /\ claimed' = claimed \cup keys /\ lost' = lost \ keys
             /\ faults' = faults
          \/ /\ faults < MaxFaults /\ faults' = faults + 1
             /\ lost' = lost \cup keys
             /\ UNCHANGED <<tick, claimed>>
        BY DEF ClaimJobs
    <1>3. jobs \subseteq Job /\ boots \in 1..MaxBoots /\ faults \in 0..MaxFaults
        BY DEF Inv, TypeOK
    <1>4. jobs' = {ClaimedJob(j) : j \in jobs}
        BY <1>1 DEF Claimed, ClaimedJob
    <1>5. keys \subseteq Claim
        <2>1. SUFFICES ASSUME NEW i \in jobs PROVE Key(Recovered(i)) \in Claim
            OBVIOUS
        <2>2. Key(Recovered(i)) = Key(i) /\ i \in Job
            BY <1>3, RecoveredJob
        <2> QED BY <2>2 DEF Key, Job, Claim
    <1>6. \A j \in jobs : Claimable(Recovered(j)) => Key(j) \in keys
        BY <1>3, RecoveredJob
    <1> HIDE DEF batch, keys
    <1>7. \A j \in jobs :
              /\ ClaimedJob(j) \in Job /\ Key(ClaimedJob(j)) = Key(j)
              /\ ClaimedJob(j).status = "completed" <=> j.status = "completed"
              /\ \/ ClaimedJob(j) = j
                 \/ ClaimedJob(j).holder = 0
                 \/ /\ ClaimedJob(j).holder = boots /\ ClaimedJob(j).status = "running"
                    /\ Key(j) \in keys
        BY <1>3, <1>6, ClaimedJobShape
    <1>8. f \in [jobs -> Job] /\ jobs' = {f[j] : j \in jobs}
        BY <1>4, <1>7
    <1>9. \A j \in jobs : f[j] = ClaimedJob(j)
        OBVIOUS
    <1> HIDE DEF f
    <1>10. jobs' \subseteq Job /\ Projecting'
        <2>1. \A n \in Nodes : Stale(n)' <=> Stale(n)
            BY <1>1 DEF Stale
        <2>2. \A j \in jobs : j.node \in Nodes
            BY <1>3 DEF Job
        <2>3. \A j \in jobs : ~Stale(j.node)' => f[j].status = "completed"
            BY <1>7, <1>9, <2>1, <2>2 DEF Inv, Projecting, DoneStaysDone
        <2> QED BY <1>1, <1>3, <1>7, <1>8, <1>9, <2>1, <2>3, MappedJobs DEF Inv
    <1>11. tick' = tick \/ tick' = [step |-> "claimed", claims |-> keys, failed |-> {}]
        BY <1>2 DEF Idle
    <1>12. TypeOK'
        <2>1. /\ tick'.step \in {"idle", "claimed", "prepared"}
              /\ tick'.claims \subseteq Claim /\ tick'.failed \subseteq tick'.claims
            BY <1>5, <1>11 DEF Inv, TypeOK
        <2>2. claimed' \subseteq Claim /\ lost' \subseteq Claim
            BY <1>2, <1>5 DEF Inv, TypeOK
        <2>3. faults' \in 0..MaxFaults
            BY <1>2, <1>3, ProjectorAssumption
        <2> QED BY <1>1, <1>10, <2>1, <2>2, <2>3 DEF Inv, TypeOK
    <1>13. Ticks'
        BY <1>2 DEF Inv, Ticks, Idle
    <1>14. Sourced'
        BY <1>1 DEF Inv, Sourced
    <1>15. Holds'
        <2>1. \A j \in jobs' : j.holder <= boots
            BY <1>3, <1>4, <1>7 DEF Inv, Holds
        <2>2. ASSUME NEW j \in jobs, ClaimedJob(j).holder = boots
              PROVE  /\ ClaimedJob(j).status = "running"
                     /\ Key(ClaimedJob(j)) \in claimed' \cup lost'
            <3>1. /\ claimed \cup lost \subseteq claimed' \cup lost'
                  /\ keys \subseteq claimed' \cup lost'
                BY <1>2
            <3>2. CASE ClaimedJob(j) = j
                BY <1>1, <2>2, <3>1, <3>2 DEF Inv, Holds
            <3> QED BY <1>3, <1>7, <2>2, <3>1, <3>2
        <2> QED BY <1>1, <1>4, <2>1, <2>2 DEF Holds
    <1> QED BY <1>10, <1>12, <1>13, <1>14, <1>15 DEF Inv

(* Rendering changes no job.                                               *)
LEMMA PrepareKeeps ==
    ASSUME Inv, Prepare PROVE Inv'
    <1>1. PICK failing \in SUBSET tick.claims :
             tick' = [tick EXCEPT !.step = "prepared", !.failed = failing]
        BY DEF Prepare
    <1>2. UNCHANGED <<source, current, versions, jobs, life, boots, claimed, lost, changes>>
        BY DEF Prepare, state
    <1>3. faults' \in 0..MaxFaults
        BY ProjectorAssumption DEF Inv, TypeOK, Prepare
    <1>4. TypeOK' /\ Ticks'
        BY <1>1, <1>2, <1>3 DEF Inv, TypeOK, Ticks
    <1>5. Projecting' /\ Sourced' /\ Holds'
        BY <1>2, <1>3 DEF Inv, Projecting, JobsCurrent, IsCurrent, KeyOf, StaleHasJob, DoneStaysDone,
                          Stale, Sourced, Holds
    <1> QED BY <1>4, <1>5 DEF Inv

(* A job that ends, or goes back to pending, has no lease.                 *)
LEMMA SettledJob ==
    ASSUME NEW j \in Job, NEW s \in {"pending", "completed", "failed"}
    PROVE  /\ [j EXCEPT !.status = s, !.holder = 0, !.due = FALSE] \in Job
           /\ Key([j EXCEPT !.status = s, !.holder = 0, !.due = FALSE]) = Key(j)
           /\ [j EXCEPT !.status = s, !.holder = 0, !.due = FALSE].status = s
           /\ [j EXCEPT !.status = s, !.holder = 0, !.due = FALSE].holder = 0
    <1> DEFINE r == [j EXCEPT !.status = s, !.holder = 0, !.due = FALSE]
    <1>1. r \in Job
        <2>1. 0 \in 0..MaxBoots
            BY ProjectorAssumption
        <2> QED BY <2>1 DEF Job
    <1>2. Key(r) = Key(j)
        BY DEF Job, Key
    <1>3. r.status = s
        BY DEF Job
    <1>4. r.holder = 0
        BY DEF Job
    <1> QED BY <1>1, <1>2, <1>3, <1>4

(* Finalizing touches the jobs that are still leased to this tick, and     *)
(* only them (leaseOwnedBy).                                               *)
LEMMA FinalizedShape ==
    ASSUME NEW j \in Job
    PROVE  /\ Finalized(j) \in Job /\ Key(Finalized(j)) = Key(j)
           /\ \/ Finalized(j) = j
              \/ /\ Owned(j) /\ Finalized(j).holder = 0
                 /\ Finalized(j).status = "completed" => Key(j) \in tick.claims \ tick.failed
           /\ Owned(j) /\ Key(j) \in tick.claims \ tick.failed
                  => Finalized(j).status = "completed" /\ Finalized(j).holder = 0
           /\ Owned(j) /\ Key(j) \in tick.failed => Finalized(j).holder = 0
    <1> DEFINE r(s) == [j EXCEPT !.status = s, !.holder = 0, !.due = FALSE]
    <1>1. \A s \in {"completed", "failed"} :
              /\ r(s) \in Job /\ Key(r(s)) = Key(j) /\ r(s).status = s /\ r(s).holder = 0
        BY SettledJob
    <1>2. CASE Owned(j) /\ Key(j) \in tick.failed
        <2>1. Finalized(j) = r("failed")
            BY <1>2 DEF Finalized
        <2> HIDE DEF r
        <2> QED BY <1>1, <1>2, <2>1
    <1>3. CASE Owned(j) /\ Key(j) \in tick.claims \ tick.failed
        <2>1. Finalized(j) = r("completed")
            BY <1>3 DEF Finalized
        <2> HIDE DEF r
        <2> QED BY <1>1, <1>3, <2>1
    <1>4. CASE ~(Owned(j) /\ Key(j) \in tick.failed) /\ ~(Owned(j) /\ Key(j) \in tick.claims \ tick.failed)
        <2>1. Finalized(j) = j
            BY <1>4 DEF Finalized
        <2> QED BY <1>4, <2>1
    <1> QED BY <1>2, <1>3, <1>4

(* finalizeClaimedContextProjectionsInState makes the nodes it delivers    *)
(* show their source, and completes their jobs.                            *)
LEMMA FinalizedJobsKeep ==
    ASSUME Inv, FinalizeJobs, source' = source, changes' = changes
    PROVE  /\ jobs' \subseteq Job /\ Projecting' /\ Sourced'
           /\ current' \in [Nodes -> Hashes \cup {None}]
           /\ versions' \in [Nodes -> SUBSET Hashes]
    <1> DEFINE f == [j \in jobs |-> Finalized(j)]
    <1>1. jobs' = {Finalized(j) : j \in jobs}
        BY DEF FinalizeJobs
    <1>2. jobs \subseteq Job /\ \A j \in jobs : j.node \in Nodes
        BY DEF Inv, TypeOK, Job
    <1>3. \A j \in jobs :
              /\ Finalized(j) \in Job /\ Key(Finalized(j)) = Key(j)
              /\ \/ Finalized(j) = j
                 \/ /\ Owned(j)
                    /\ Finalized(j).status = "completed" => Key(j) \in tick.claims \ tick.failed
              /\ Owned(j) /\ Key(j) \in tick.claims \ tick.failed
                     => Finalized(j).status = "completed"
        BY <1>2, FinalizedShape
    <1>4. f \in [jobs -> Job] /\ jobs' = {f[j] : j \in jobs}
        BY <1>1, <1>3
    <1>5. \A j \in jobs : f[j] = Finalized(j)
        OBVIOUS
    <1> HIDE DEF f
    <1>6. Delivered = {j.node : j \in {i \in jobs : Owned(i) /\ Key(i) \in tick.claims \ tick.failed}}
        BY DEF Delivered
    <1>7. \A n \in Nodes : current'[n] = IF n \in Delivered THEN source[n].hash ELSE current[n]
        BY DEF FinalizeJobs
    <1>8. \A n \in Nodes : /\ n \in Delivered => ~Stale(n)'
                           /\ n \notin Delivered => (Stale(n)' <=> Stale(n))
        BY <1>7 DEF Stale
    <1>9. \A j \in jobs : j.node \in Delivered <=> Owned(j) /\ Key(j) \in tick.claims \ tick.failed
        BY <1>6 DEF Inv, Projecting, JobsCurrent
    <1>10. \A j \in jobs : f[j].status = "completed" /\ j.status # "completed" => ~Stale(j.node)'
        BY <1>2, <1>3, <1>5, <1>8, <1>9
    <1>11. \A j \in jobs : ~Stale(j.node)' => f[j].status = "completed"
        <2>1. ASSUME NEW j \in jobs, j.node \notin Delivered, ~Stale(j.node)'
              PROVE  f[j].status = "completed"
            <3>1. j.status = "completed"
                BY <1>2, <1>8, <2>1 DEF Inv, Projecting, DoneStaysDone
            <3>2. ~Owned(j)
                BY <3>1 DEF Owned
            <3> QED BY <1>3, <1>5, <3>1, <3>2
        <2> QED BY <1>3, <1>5, <1>9, <2>1
    <1>12. jobs' \subseteq Job /\ Projecting'
        BY <1>2, <1>3, <1>4, <1>5, <1>8, <1>10, <1>11, MappedJobs DEF Inv
    <1>13. current' \in [Nodes -> Hashes \cup {None}]
        BY DEF Inv, TypeOK, FinalizeJobs
    <1>14. versions' \in [Nodes -> SUBSET Hashes]
        BY <1>13 DEF Inv, TypeOK, FinalizeJobs
    <1>15. Sourced'
        BY <1>13 DEF Inv, Sourced, FinalizeJobs
    <1> QED BY <1>12, <1>13, <1>14, <1>15

(* The end of a tick keeps the invariant, whether it finalized, was        *)
(* stopped or got no answer.                                               *)
LEMMA FinalizeKeeps ==
    ASSUME Inv, Finalize PROVE Inv'
    <1>1. tick' = Idle /\ UNCHANGED <<source, life, boots, lost, changes>> /\ life # "down"
        BY DEF Finalize
    <1>2. \/ FinalizeJobs
          \/ UNCHANGED <<current, versions, jobs>>
        BY DEF Finalize
    <1>3. claimed' \subseteq claimed /\ faults' \in 0..MaxFaults
        BY ProjectorAssumption DEF Inv, TypeOK, Finalize, Forgotten
    <1>4. /\ jobs' \subseteq Job /\ Projecting' /\ Sourced'
          /\ current' \in [Nodes -> Hashes \cup {None}]
          /\ versions' \in [Nodes -> SUBSET Hashes]
        <2>1. CASE FinalizeJobs
            BY <1>1, <2>1, FinalizedJobsKeep
        <2>2. CASE UNCHANGED <<current, versions, jobs>>
            BY <1>1, <2>2 DEF Inv, TypeOK, Sourced, Projecting, JobsCurrent, IsCurrent, KeyOf,
                              StaleHasJob, DoneStaysDone, Stale
        <2> QED BY <1>2, <2>1, <2>2
    <1>5. TypeOK'
        BY <1>1, <1>3, <1>4 DEF Inv, TypeOK, Idle
    <1>6. Ticks'
        BY <1>1 DEF Ticks, Idle
    <1>7. Holds'
        <2>1. jobs \subseteq Job /\ boots \in 1..MaxBoots /\ faults \in 0..MaxFaults
            BY DEF Inv, TypeOK
        <2>2. \A j \in jobs' : j.holder <= boots
            <3>1. \A j \in jobs : Finalized(j) = j \/ Finalized(j).holder = 0
                BY <2>1, FinalizedShape
            <3> QED BY <1>2, <2>1, <3>1 DEF Inv, Holds, FinalizeJobs
        <2>3. ASSUME NEW j \in jobs', j.holder = boots
              PROVE  j.status = "running" /\ Key(j) \in claimed' \cup lost
            <3>1. \/ /\ claimed' = claimed
                     /\ jobs' = jobs
                  \/ /\ FinalizeJobs
                     /\ claimed' \in {claimed, claimed \ tick.claims}
                BY DEF Finalize, Forgotten
            <3>2. CASE claimed' = claimed /\ jobs' = jobs
                BY <1>1, <2>3, <3>2 DEF Inv, Holds
            <3>3. CASE FinalizeJobs /\ claimed' \in {claimed, claimed \ tick.claims}
                <4>1. PICK i \in jobs : j = Finalized(i)
                    BY <3>3 DEF FinalizeJobs
                <4>2. j.holder # 0
                    BY <2>1, <2>3
                <4>3. i = j /\ ~(Owned(i) /\ Key(i) \in tick.claims)
                    BY <2>1, <4>1, <4>2, FinalizedShape
                <4>4. j.status = "running" /\ Key(j) \in claimed \cup lost
                    BY <1>1, <2>3, <4>1, <4>3 DEF Inv, Holds
                <4>5. Owned(j)
                    BY <2>3, <4>4 DEF Owned
                <4> QED BY <3>3, <4>3, <4>4, <4>5
            <3> QED BY <3>1, <3>2, <3>3
        <2> QED BY <1>1, <2>2, <2>3 DEF Holds
    <1> QED BY <1>4, <1>5, <1>6, <1>7 DEF Inv

(* ensureContextProjection keeps the invariant: the job it takes is the    *)
(* only one of its node.                                                   *)
LEMMA InlineKeeps ==
    ASSUME Inv, NEW n \in Nodes, NEW force \in BOOLEAN, Inline(n, force)
    PROVE  Inv'
    <1> DEFINE r(j, s) == [j EXCEPT !.status = s, !.attempts = @ + 1, !.holder = 0, !.due = FALSE]
    <1>1. PICK j \in jobs :
              /\ j.node = n /\ IsCurrent(j)
              /\ \/ /\ jobs' = (jobs \ {j}) \cup {r(j, "completed")}
                    /\ current' = [current EXCEPT ![n] = source[n].hash]
                    /\ versions' = [versions EXCEPT ![n] = @ \cup {source[n].hash}]
                    /\ faults' = faults
                 \/ /\ faults < MaxFaults /\ faults' = faults + 1
                    /\ jobs' = (jobs \ {j}) \cup {r(j, "failed")}
                    /\ UNCHANGED <<current, versions>>
              /\ InlineJob(j, force)
        BY DEF Inline
    <1>2. UNCHANGED <<source, life, boots, tick, claimed, lost, changes>> /\ life = "up"
        BY DEF Inline
    <1>3. /\ jobs \subseteq Job /\ j \in Job /\ \A i \in jobs : i.node \in Nodes
          /\ boots \in 1..MaxBoots /\ faults \in 0..MaxFaults /\ source[n].hash \in Hashes
        BY DEF Inv, TypeOK, Job
    <1>4. PICK s \in {"completed", "failed"} :
              /\ jobs' = (jobs \ {j}) \cup {r(j, s)}
              /\ s = "completed" =>
                     /\ current' = [current EXCEPT ![n] = source[n].hash]
                     /\ versions' = [versions EXCEPT ![n] = @ \cup {source[n].hash}]
                     /\ faults' = faults
              /\ s = "failed" => /\ faults < MaxFaults /\ faults' = faults + 1
                                 /\ UNCHANGED <<current, versions>>
        BY <1>1
    <1>5. r(j, s) \in Job
        <2>1. 0 \in 0..MaxBoots /\ j.attempts + 1 \in Nat
            BY <1>3, ProjectorAssumption DEF Job
        <2> QED BY <1>3, <2>1 DEF Job
    <1>6. Key(r(j, s)) = Key(j)
        BY <1>3 DEF Job, Key
    <1>7. r(j, s).status = s
        BY <1>3 DEF Job
    <1>8. r(j, s).holder = 0
        BY <1>3 DEF Job
    <1> HIDE DEF r
    <1> DEFINE f == [i \in jobs |-> IF i = j THEN r(j, s) ELSE i]
    <1>9. f \in [jobs -> Job] /\ jobs' = {f[i] : i \in jobs}
        BY <1>3, <1>4, <1>5
    <1>10. f[j] = r(j, s) /\ \A i \in jobs : i # j => f[i] = i
        OBVIOUS
    <1> HIDE DEF f
    <1>11. /\ s = "completed" => ~Stale(n)'
           /\ s = "failed" => (Stale(n)' <=> Stale(n))
           /\ \A m \in Nodes : m # n => (Stale(m)' <=> Stale(m))
        BY <1>2, <1>4 DEF Inv, TypeOK, Stale
    <1>12. Stale(n)
        <2>1. j.status # "completed"
            BY <1>1 DEF InlineJob, Claimable
        <2> QED BY <1>1, <1>3, <2>1 DEF Inv, Projecting, DoneStaysDone
    <1>13. \A i \in jobs : i # j => i.node # n
        BY <1>1 DEF Inv, Projecting, JobsCurrent
    <1>14. jobs' \subseteq Job /\ Projecting'
        <2>1. \A m \in Nodes : Stale(m)' => Stale(m)
            BY <1>11, <1>12
        <2>2. \A i \in jobs : Key(f[i]) = Key(i)
            BY <1>6, <1>10
        <2>3. \A i \in jobs : f[i].status = "completed" /\ i.status # "completed"
                                  => ~Stale(i.node)'
            BY <1>1, <1>7, <1>10, <1>11
        <2>4. \A i \in jobs : ~Stale(i.node)' => f[i].status = "completed"
            BY <1>1, <1>3, <1>7, <1>10, <1>11, <1>12, <1>13 DEF Inv, Projecting, DoneStaysDone
        <2> QED BY <1>2, <1>3, <1>9, <2>1, <2>2, <2>3, <2>4, MappedJobs DEF Inv
    <1>15. current' \in [Nodes -> Hashes \cup {None}] /\ versions' \in [Nodes -> SUBSET Hashes]
        BY <1>3, <1>4 DEF Inv, TypeOK
    <1>16. faults' \in 0..MaxFaults
        BY <1>3, <1>4, ProjectorAssumption
    <1>17. TypeOK'
        BY <1>2, <1>14, <1>15, <1>16 DEF Inv, TypeOK
    <1>18. Sourced'
        BY <1>2, <1>4 DEF Inv, TypeOK, Sourced
    <1>19. Ticks'
        BY <1>2 DEF Inv, Ticks
    <1>20. Holds'
        BY <1>2, <1>3, <1>4, <1>8 DEF Inv, Holds
    <1> QED BY <1>14, <1>17, <1>18, <1>19, <1>20 DEF Inv

(* reconcileContextProjectionState keeps the invariant: a change drops the *)
(* jobs of the node, and stages one under a new generation if no version   *)
(* shows the new source.                                                   *)
LEMMA ChangeKeeps ==
    ASSUME Inv, NEW n \in Nodes, NEW h \in Hashes, Change(n, h)
    PROVE  Inv'
    <1> DEFINE k == NewJob(KeyOf(n)', 0)
               others == {j \in jobs : j.node # n}
    <1>1. /\ changes < MaxChanges /\ changes' = changes + 1 /\ h # source[n].hash
          /\ source' = [source EXCEPT ![n] = [hash |-> h, generation |-> @.generation + 1]]
          /\ UNCHANGED <<versions, life, boots, tick, claimed, lost, faults>>
        BY DEF Change
    <1>2. \/ /\ h \in versions[n] /\ current' = [current EXCEPT ![n] = h]
             /\ jobs' = {j \in jobs : Kept(j)}
          \/ /\ h \notin versions[n] /\ current' = current
             /\ jobs' = {j \in jobs : Kept(j)} \cup {k}
        BY DEF Change
    <1>3. /\ jobs \subseteq Job /\ \A j \in jobs : j.node \in Nodes
          /\ boots \in 1..MaxBoots /\ changes \in 0..MaxChanges
          /\ source[n].generation \in 1..(MaxChanges + 1)
          /\ source[n].generation <= changes + 1
          /\ source' \in [Nodes -> [hash : Hashes, generation : Int]]
        BY <1>1 DEF Inv, TypeOK, Job, Sourced
    <1>4. /\ source'[n].hash = h /\ source'[n].generation = source[n].generation + 1
          /\ \A m \in Nodes : m # n => source'[m] = source[m]
        BY <1>1 DEF Inv, TypeOK
    <1>5. \A m \in Nodes : m # n => KeyOf(m)' = KeyOf(m)
        BY <1>4 DEF KeyOf
    <1>6. {j \in jobs : Kept(j)} = others
        <2>1. ASSUME NEW j \in jobs, j.node = n PROVE ~Kept(j)
            <3>1. Key(j) = KeyOf(n)
                BY <2>1 DEF Inv, Projecting, JobsCurrent, IsCurrent
            <3>2. Key(j).generation = source[n].generation
                BY <3>1 DEF KeyOf
            <3>3. KeyOf(n)'.generation = source[n].generation + 1
                BY <1>4 DEF KeyOf
            <3>4. Key(j) # KeyOf(n)'
                BY <1>3, <3>2, <3>3
            <3> QED BY <2>1, <3>4 DEF Kept, IsCurrent
        <2>2. ASSUME NEW j \in jobs, j.node # n PROVE Kept(j)
            <3>1. Key(j) = KeyOf(j.node)
                BY DEF Inv, Projecting, JobsCurrent, IsCurrent
            <3> QED BY <1>3, <1>5, <2>2, <3>1 DEF Kept, IsCurrent
        <2> QED BY <2>1, <2>2
    <1>7. /\ k \in Job /\ Key(k) = KeyOf(n)' /\ k.node = n
          /\ k.status = "pending" /\ k.holder = 0
        <2>1. KeyOf(n)' = [node |-> n, hash |-> h, generation |-> source[n].generation + 1]
            BY <1>4 DEF KeyOf
        <2> DEFINE r == [node |-> n, hash |-> h, generation |-> source[n].generation + 1,
                         status |-> "pending", attempts |-> 0, holder |-> 0, due |-> FALSE]
        <2>2. k = r
            BY <2>1 DEF NewJob
        <2>3. source[n].generation + 1 \in 1..(MaxChanges + 1) /\ 0 \in 0..MaxBoots
            BY <1>1, <1>3, ProjectorAssumption
        <2> HIDE DEF k
        <2>4. k \in Job
            BY <2>2, <2>3 DEF Job
        <2>5. k.node = n /\ k.status = "pending" /\ k.holder = 0
            BY <2>2
        <2>6. Key(k) = KeyOf(n)'
            BY <2>1, <2>2 DEF Key
        <2> QED BY <2>4, <2>5, <2>6
    <1> HIDE DEF k
    <1>8. \/ h \in versions[n] /\ current' = [current EXCEPT ![n] = h] /\ jobs' = others
          \/ h \notin versions[n] /\ current' = current /\ jobs' = others \cup {k}
        BY <1>2, <1>6
    <1>9. \A m \in Nodes : m # n => (Stale(m)' <=> Stale(m))
        BY <1>4, <1>8 DEF Inv, TypeOK, Stale
    <1>10. Stale(n)' <=> h \notin versions[n]
        <2>1. h # None
            BY ProjectorAssumption
        <2> QED BY <1>4, <1>8, <2>1 DEF Inv, TypeOK, Sourced, Stale
    <1>11. JobsCurrent'
        <2>1. \A j \in others : Key(j) = KeyOf(j.node)'
            BY <1>3, <1>5 DEF Inv, Projecting, JobsCurrent, IsCurrent
        <2>2. \A j \in jobs' : Key(j) = KeyOf(j.node)'
            BY <1>7, <1>8, <2>1
        <2>3. \A i, j \in jobs' : i.node = j.node => i = j
            BY <1>7, <1>8 DEF Inv, Projecting, JobsCurrent
        <2> QED BY <2>2, <2>3 DEF JobsCurrent, IsCurrent
    <1>12. StaleHasJob'
        <2>1. SUFFICES ASSUME NEW m \in Nodes, Stale(m)'
                       PROVE  (\E j \in jobs :
                                  /\ Key(j) = KeyOf(m) /\ j.status # "completed"
                                  /\ \A i \in jobs : i.node = m => i = j)'
            BY DEF StaleHasJob
        <2>2. CASE m = n
            <3>1. jobs' = others \cup {k}
                BY <1>8, <1>10, <2>1, <2>2
            <3>2. \A i \in jobs' : i.node = n => i = k
                BY <3>1
            <3> QED BY <1>7, <2>2, <3>1, <3>2
        <2>3. CASE m # n
            <3>1. PICK j \in jobs : /\ Key(j) = KeyOf(m) /\ j.status # "completed"
                                    /\ \A i \in jobs : i.node = m => i = j
                BY <1>9, <2>1, <2>3 DEF Inv, Projecting, StaleHasJob
            <3>2. j.node = m
                BY <3>1 DEF Key, KeyOf
            <3>3. j \in jobs' /\ \A i \in jobs' : i.node = m => i = j
                BY <1>7, <1>8, <2>3, <3>1, <3>2
            <3> QED BY <1>5, <2>3, <3>1, <3>3
        <2> QED BY <2>2, <2>3
    <1>13. DoneStaysDone'
        <2>1. \A j \in others : ~Stale(j.node)' => j.status = "completed"
            BY <1>3, <1>9 DEF Inv, Projecting, DoneStaysDone
        <2> QED BY <1>7, <1>8, <1>10, <2>1 DEF DoneStaysDone
    <1>14. TypeOK'
        <2>1. source' \in [Nodes -> [hash : Hashes, generation : 1..(MaxChanges + 1)]]
            <3>1. [hash |-> h, generation |-> source[n].generation + 1]
                      \in [hash : Hashes, generation : 1..(MaxChanges + 1)]
                BY <1>1, <1>3, ProjectorAssumption
            <3> QED BY <1>1, <3>1 DEF Inv, TypeOK
        <2>2. current' \in [Nodes -> Hashes \cup {None}]
            BY <1>8 DEF Inv, TypeOK
        <2>3. jobs' \subseteq Job
            BY <1>3, <1>7, <1>8
        <2>4. changes' \in 0..MaxChanges
            BY <1>1, <1>3, ProjectorAssumption
        <2> QED BY <1>1, <2>1, <2>2, <2>3, <2>4 DEF Inv, TypeOK
    <1>15. Sourced'
        <2>1. ASSUME NEW m \in Nodes
              PROVE  /\ source'[m].generation <= changes' + 1
                     /\ current'[m] # None => current'[m] \in versions'[m]
            <3>1. source[m].generation \in Int
                BY DEF Inv, TypeOK
            <3>2. source'[m].generation <= changes' + 1
                BY <1>1, <1>3, <1>4, <3>1 DEF Inv, Sourced
            <3>3. current'[m] # None => current'[m] \in versions'[m]
                BY <1>1, <1>8 DEF Inv, TypeOK, Sourced
            <3> QED BY <3>2, <3>3
        <2> QED BY <2>1 DEF Sourced
    <1>16. Ticks'
        BY <1>1 DEF Inv, Ticks
    <1>17. Holds'
        BY <1>1, <1>3, <1>7, <1>8 DEF Inv, Holds
    <1> QED BY <1>11, <1>12, <1>13, <1>14, <1>15, <1>16, <1>17 DEF Inv, Projecting

(* pruneExpiredContextVersions leaves the current versions.                *)
LEMMA PruneKeeps ==
    ASSUME Inv, NEW n \in Nodes, Prune(n)
    PROVE  Inv'
    <1>1. PICK h \in versions[n] \ {current[n]} : versions' = [versions EXCEPT ![n] = @ \ {h}]
        BY DEF Prune
    <1>2. UNCHANGED <<source, current, jobs, life, boots, tick, claimed, lost, changes, faults>>
        BY DEF Prune
    <1>3. TypeOK'
        BY <1>1, <1>2 DEF Inv, TypeOK
    <1>4. Sourced'
        BY <1>1, <1>2 DEF Inv, TypeOK, Sourced
    <1>5. Projecting' /\ Holds' /\ Ticks'
        BY <1>2 DEF Inv, Projecting, JobsCurrent, IsCurrent, KeyOf, StaleHasJob, DoneStaysDone,
                    Stale, Holds, Ticks
    <1> QED BY <1>3, <1>4, <1>5 DEF Inv

(* A stop, a release that fails and a crash leave the jobs to the next     *)
(* start.                                                                  *)
LEMMA StopsKeep ==
    ASSUME Inv, Stop \/ ReleaseFails \/ Crash
    PROVE  Inv'
    <1>1. UNCHANGED <<source, current, versions, jobs, boots, changes>>
        BY DEF Stop, ReleaseFails, Crash, state
    <1>2. /\ life' \in {"stopping", "down"} /\ life # "down"
          /\ \/ life' = "down" /\ tick' = Idle /\ claimed' = {} /\ lost' = {}
             \/ life' = "down" /\ tick.step = "idle" /\ tick' = tick /\ claimed' = {} /\ lost' = {}
             \/ UNCHANGED <<tick, claimed, lost>>
        BY DEF Stop, ReleaseFails, Crash
    <1>3. TypeOK' /\ Ticks'
        <2>1. faults' \in 0..MaxFaults
            BY ProjectorAssumption DEF Inv, TypeOK, Stop, ReleaseFails, Crash
        <2> QED BY <1>1, <1>2, <2>1 DEF Inv, TypeOK, Ticks, Idle
    <1>4. Holds'
        <2>1. life' # "down" => claimed' = claimed /\ lost' = lost
            BY DEF Stop, ReleaseFails, Crash
        <2> QED BY <1>1, <1>2, <2>1 DEF Inv, Holds
    <1>5. Projecting' /\ Sourced'
        BY <1>1 DEF Inv, Projecting, JobsCurrent, IsCurrent, KeyOf, StaleHasJob, DoneStaysDone,
                    Stale, Sourced
    <1> QED BY <1>3, <1>4, <1>5 DEF Inv

(* Giving up leases (at a start, and in releaseContextProjectionLeases)    *)
(* keeps every job under its key, and completes none.                      *)
LEMMA GivenUpKeeps ==
    ASSUME Inv, source' = source, current' = current, 
           \/ jobs' = {Recovered(j) : j \in jobs}
           \/ jobs' = {IF Owned(j) /\ Key(j) \in claimed
                       THEN [j EXCEPT !.status = "pending", !.holder = 0, !.due = FALSE]
                       ELSE j : j \in jobs}
    PROVE  /\ jobs' \subseteq Job /\ Projecting'
           /\ \A k \in jobs' : k \in jobs \/ k.holder = 0
    <1> DEFINE r(j) == [j EXCEPT !.status = "pending", !.holder = 0, !.due = FALSE]
               q(j) == IF Owned(j) /\ Key(j) \in claimed THEN r(j) ELSE j
    <1>1. jobs \subseteq Job /\ \A j \in jobs : j.node \in Nodes
        BY DEF Inv, TypeOK, Job
    <1>2. \A j \in jobs : /\ Recovered(j) \in Job /\ Key(Recovered(j)) = Key(j)
                          /\ Recovered(j).status = "completed" <=> j.status = "completed"
                          /\ Recovered(j) = j \/ Recovered(j).holder = 0
        BY <1>1, RecoveredJob
    <1>3. \A j \in jobs : /\ r(j) \in Job /\ Key(r(j)) = Key(j)
                          /\ r(j).status = "pending" /\ r(j).holder = 0
        BY <1>1, SettledJob
    <1> HIDE DEF r
    <1>4. \A j \in jobs : /\ q(j) \in Job /\ Key(q(j)) = Key(j)
                          /\ q(j).status = "completed" <=> j.status = "completed"
                          /\ q(j) = j \/ q(j).holder = 0
        BY <1>1, <1>3 DEF Owned
    <1>5. jobs' = {Recovered(j) : j \in jobs} \/ jobs' = {q(j) : j \in jobs}
        BY DEF r
    <1> HIDE DEF q
    <1>6. ASSUME NEW f \in [jobs -> Job], jobs' = {f[j] : j \in jobs},
                 \A j \in jobs : /\ Key(f[j]) = Key(j)
                                 /\ f[j].status = "completed" <=> j.status = "completed"
          PROVE  jobs' \subseteq Job /\ Projecting'
        <2>1. \A n \in Nodes : Stale(n)' <=> Stale(n)
            BY DEF Stale
        <2>2. \A j \in jobs : ~Stale(j.node)' => f[j].status = "completed"
            BY <1>1, <1>6, <2>1 DEF Inv, Projecting, DoneStaysDone
        <2> QED BY <1>1, <1>6, <2>1, <2>2, MappedJobs DEF Inv
    <1>7. CASE jobs' = {Recovered(j) : j \in jobs}
        <2> DEFINE f == [j \in jobs |-> Recovered(j)]
        <2>1. f \in [jobs -> Job] /\ jobs' = {f[j] : j \in jobs}
            BY <1>2, <1>7
        <2>2. \A j \in jobs : f[j] = Recovered(j)
            OBVIOUS
        <2> HIDE DEF f
        <2>3. \A j \in jobs : /\ Key(f[j]) = Key(j)
                              /\ f[j].status = "completed" <=> j.status = "completed"
            BY <1>2, <2>2
        <2> QED BY <1>2, <1>6, <1>7, <2>1, <2>3
    <1>8. CASE jobs' = {q(j) : j \in jobs}
        <2> DEFINE f == [j \in jobs |-> q(j)]
        <2>1. f \in [jobs -> Job] /\ jobs' = {f[j] : j \in jobs}
            BY <1>4, <1>8
        <2>2. \A j \in jobs : f[j] = q(j)
            OBVIOUS
        <2> HIDE DEF f
        <2>3. \A j \in jobs : /\ Key(f[j]) = Key(j)
                              /\ f[j].status = "completed" <=> j.status = "completed"
            BY <1>4, <2>2
        <2>4. ASSUME NEW k \in jobs' PROVE k \in jobs \/ k.holder = 0
            <3>1. PICK j \in jobs : k = q(j)
                BY <1>8
            <3> QED BY <1>4, <3>1
        <2>5. jobs' \subseteq Job /\ Projecting'
            BY <1>6, <2>1, <2>3
        <2> QED BY <2>4, <2>5
    <1> QED BY <1>5, <1>7, <1>8

(* releaseContextProjectionLeases keeps the invariant.                     *)
LEMMA ReleaseKeeps ==
    ASSUME Inv, Release
    PROVE  Inv'
    <1>1. /\ UNCHANGED <<source, current, versions, boots, tick, changes, faults>>
          /\ tick.step = "idle" /\ claimed' = {} /\ lost' = {} /\ life' = "down"
        BY DEF Release
    <1>2. /\ jobs' \subseteq Job /\ Projecting'
          /\ \A k \in jobs' : k \in jobs \/ k.holder = 0
        BY <1>1, GivenUpKeeps DEF Release
    <1>3. TypeOK' /\ Sourced' /\ Ticks'
        BY <1>1, <1>2 DEF Inv, TypeOK, Sourced, Ticks
    <1>4. Holds'
        BY <1>1, <1>2 DEF Inv, TypeOK, Holds
    <1> QED BY <1>2, <1>3, <1>4 DEF Inv

(* ensureRuntime keeps the invariant: no lease is of the start that        *)
(* begins.                                                                 *)
LEMMA BootKeeps ==
    ASSUME Inv, Boot
    PROVE  Inv'
    <1>1. /\ UNCHANGED <<source, current, versions, tick, claimed, lost, changes, faults>>
          /\ boots < MaxBoots /\ boots' = boots + 1 /\ life' = "up"
        BY DEF Boot
    <1>2. /\ jobs' \subseteq Job /\ Projecting'
          /\ \A k \in jobs' : k \in jobs \/ k.holder = 0
        BY <1>1, GivenUpKeeps DEF Boot
    <1>3. boots \in 1..MaxBoots /\ boots' \in 1..MaxBoots
        BY <1>1, ProjectorAssumption DEF Inv, TypeOK
    <1>4. TypeOK' /\ Sourced' /\ Ticks'
        BY <1>1, <1>2, <1>3 DEF Inv, TypeOK, Sourced, Ticks
    <1>5. Holds'
        <2>1. \A k \in jobs' : k.holder < boots'
            <3>1. \A k \in jobs' : k.holder \in Int
                BY <1>2 DEF Job
            <3> QED BY <1>1, <1>2, <1>3, <3>1 DEF Inv, Holds
        <2>2. \A k \in jobs' : k.holder \in Int
            BY <1>2 DEF Job
        <2> QED BY <1>3, <2>1, <2>2 DEF Holds
    <1> QED BY <1>2, <1>4, <1>5 DEF Inv

-----------------------------------------------------------------------------
(* The theorems.                                                           *)

(* The invariant holds where the jobs of all nodes have been staged.       *)
LEMMA InvInit ==
    ASSUME Init PROVE Inv
    <1>1. \A n \in Nodes : source[n].hash \in Hashes /\ source[n].generation = 1
        BY DEF Init
    <1>2. \A n \in Nodes :
              LET j == NewJob(KeyOf(n), 0)
              IN  /\ j \in Job /\ Key(j) = KeyOf(n) /\ j.node = n
                  /\ j.status = "pending" /\ j.holder = 0
        <2>1. SUFFICES ASSUME NEW n \in Nodes
                       PROVE  LET j == NewJob(KeyOf(n), 0)
                              IN  /\ j \in Job /\ Key(j) = KeyOf(n) /\ j.node = n
                                  /\ j.status = "pending" /\ j.holder = 0
            OBVIOUS
        <2> DEFINE j == [node |-> n, hash |-> source[n].hash, generation |-> 1,
                         status |-> "pending", attempts |-> 0, holder |-> 0, due |-> FALSE]
        <2>2. NewJob(KeyOf(n), 0) = j
            BY <1>1 DEF NewJob, KeyOf
        <2>3. j \in Job
            BY <1>1, ProjectorAssumption DEF Job
        <2>4. Key(j) = KeyOf(n)
            BY <1>1 DEF Key, KeyOf
        <2>5. j.node = n /\ j.status = "pending" /\ j.holder = 0
            OBVIOUS
        <2> HIDE DEF j
        <2> QED BY <2>2, <2>3, <2>4, <2>5
    <1>3. jobs \subseteq Job
        BY <1>2 DEF Init
    <1>4. JobsCurrent
        BY <1>2 DEF Init, JobsCurrent, IsCurrent
    <1>5. StaleHasJob
        <2>1. \A n \in Nodes : NewJob(KeyOf(n), 0) \in jobs
            BY DEF Init
        <2> QED BY <1>2, <1>4, <2>1 DEF StaleHasJob, JobsCurrent
    <1>6. DoneStaysDone
        <2>1. \A n \in Nodes : Stale(n)
            BY <1>1, ProjectorAssumption DEF Init, Stale
        <2>2. \A j \in jobs : j.node \in Nodes
            BY <1>3 DEF Job
        <2> QED BY <2>1, <2>2 DEF DoneStaysDone
    <1>7. TypeOK
        <2>1. source \in [Nodes -> [hash : Hashes, generation : 1..(MaxChanges + 1)]]
            BY ProjectorAssumption DEF Init
        <2> QED BY <1>3, <2>1, ProjectorAssumption DEF Init, TypeOK, Idle
    <1>8. Sourced
        BY <1>1 DEF Init, Sourced
    <1>9. Ticks
        BY DEF Init, Ticks, Idle
    <1>10. Holds
        <2>1. \A j \in jobs : j.holder = 0
            BY <1>2 DEF Init
        <2> QED BY <2>1 DEF Init, Holds
    <1> QED BY <1>4, <1>5, <1>6, <1>7, <1>8, <1>9, <1>10 DEF Inv, Projecting

(* Every step keeps the invariant.                                         *)
LEMMA InvNext ==
    ASSUME Inv, [Next]_vars PROVE Inv'
    <1>1. CASE Elapse
        BY <1>1, ElapseKeeps
    <1>2. ASSUME NEW n \in Nodes, Prune(n) PROVE Inv'
        BY <1>2, PruneKeeps
    <1>3. ASSUME NEW n \in Nodes, NEW h \in Hashes, Change(n, h) PROVE Inv'
        BY <1>3, ChangeKeeps
    <1>4. CASE ClaimJobs
        BY <1>4, ClaimJobsKeeps
    <1>5. CASE Prepare
        BY <1>5, PrepareKeeps
    <1>6. CASE Finalize
        BY <1>6, FinalizeKeeps
    <1>7. ASSUME NEW n \in Nodes, NEW force \in BOOLEAN, Inline(n, force) PROVE Inv'
        BY <1>7, InlineKeeps
    <1>8. CASE Stop \/ ReleaseFails \/ Crash
        BY <1>8, StopsKeep
    <1>9. CASE Release
        BY <1>9, ReleaseKeeps
    <1>10. CASE Boot
        BY <1>10, BootKeeps
    <1>11. CASE UNCHANGED vars
        BY <1>11 DEF vars, Inv, TypeOK, Sourced, Projecting, JobsCurrent, IsCurrent, KeyOf,
                     StaleHasJob, DoneStaysDone, Stale, Holds, Ticks
    <1> QED BY <1>1, <1>2, <1>3, <1>4, <1>5, <1>6, <1>7, <1>8, <1>9, <1>10, <1>11 DEF Next

(* The invariant holds in every reachable state.                           *)
THEOREM Invariance == Spec => []Inv
    BY InvInit, InvNext, PTL DEF Spec

(* Type correctness of the projector.                                      *)
THEOREM TypeCorrect == Spec => []TypeOK
    <1>1. Inv => TypeOK
        BY DEF Inv
    <1> QED BY <1>1, Invariance, PTL

(* No source is forgotten: a node that does not show its source has        *)
(* exactly one job for it, which has not completed, whatever was claimed,  *)
(* lost, stopped or taken inline.                                          *)
THEOREM SourceNotForgotten == Spec => []StaleHasJob
    <1>1. Inv => StaleHasJob
        BY DEF Inv, Projecting
    <1> QED BY <1>1, Invariance, PTL

(* What a late result finds done stays done: a node that shows its source  *)
(* has no job that says otherwise, also after A-B-A.                       *)
THEOREM LateResults == Spec => []DoneStaysDone
    <1>1. Inv => DoneStaysDone
        BY DEF Inv, Projecting
    <1> QED BY <1>1, Invariance, PTL

(* A stop that releases leaves no lease of the process behind, whatever    *)
(* failed before it, except of a claim whose answer the process never got  *)
(* (OPT21-01).                                                             *)
THEOREM LeasesReleased == Spec => StopReleases
    <1>1. ASSUME Inv, Release, NEW j \in jobs', j.holder = boots PROVE Key(j) \in lost
        <2>1. jobs \subseteq Job /\ boots \in 1..MaxBoots /\ life = "stopping"
            BY <1>1 DEF Inv, TypeOK, Release
        <2>2. PICK i \in jobs :
                  j = IF Owned(i) /\ Key(i) \in claimed
                      THEN [i EXCEPT !.status = "pending", !.holder = 0, !.due = FALSE]
                      ELSE i
            BY <1>1 DEF Release
        <2>3. [i EXCEPT !.status = "pending", !.holder = 0, !.due = FALSE].holder = 0
            BY <2>1, SettledJob
        <2>4. j = i /\ ~(Owned(i) /\ Key(i) \in claimed)
            BY <1>1, <2>1, <2>2, <2>3
        <2> QED BY <1>1, <2>1, <2>4 DEF Inv, Holds, Owned
    <1>2. Inv /\ [Next]_vars
              => [Release => \A j \in jobs' : j.holder = boots => Key(j) \in lost]_vars
        BY <1>1
    <1> QED BY <1>2, Invariance, PTL DEF Spec, StopReleases
=============================================================================
