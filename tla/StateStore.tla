----------------------------- MODULE StateStore -----------------------------
(***************************************************************************)
(* The state store: state.mjs (the snapshot cache and the mutation queue), *)
(* state-store.mjs (requests to the worker thread) and                     *)
(* state-store-worker.mjs (SQLite transactions).  Several processes may    *)
(* open one database: the service, and the probe that the release script   *)
(* runs in a container of its own on the service's volume.                 *)
(*                                                                         *)
(* The state is abstracted to the set of writes it shows.  A message to or *)
(* from a worker is a record; a worker handles its messages one by one.    *)
(***************************************************************************)
EXTENDS Naturals, Sequences, FiniteSets, SequencesExt

CONSTANTS
    Procs,       \* processes that open the database
    Writes,      \* calls of mutate and of writeState, each made once
    Reads,       \* calls of readState
    Owner,       \* the process that makes a call
    Replaces,    \* the writes that are ensureRuntime's writeState
    MaxBoots,    \* bound: starts of a process
    MaxFaults    \* bound: deaths of processes and workers, failing transactions

Calls == Writes \cup Reads

ASSUME CallsAssumption ==
    /\ Owner \in [Calls -> Procs]
    /\ Replaces \subseteq Writes
    /\ Writes \cap Reads = {}
    /\ Calls \cap Procs = {}
    /\ MaxBoots \in Nat /\ MaxFaults \in Nat

VARIABLES
    db,        \* the database: revision and value; all that outlives a crash
    life,      \* off, init, boot, up, draining, closing
    worker,    \* whether the worker thread runs
    cache,     \* stateSnapshotCache
    queue,     \* the promise chain of enqueueMutation
    phase,     \* how far a call has come
    base,      \* the snapshot a write was drafted on
    answer,    \* what the caller of a write was told
    inbox,     \* messages to the worker
    outbox,    \* answers of the worker
    checked,   \* the worker has compared revisions and not yet committed
    awaited,   \* the writes a shutdown waits for
    boots, faults

vars == <<db, life, worker, cache, queue, phase, base, answer, inbox, outbox,
          checked, awaited, boots, faults>>

Snapshot == [rev : Nat, val : SUBSET Writes]
Empty == [rev |-> 1, val |-> {}]

Mine(p) == {c \in Calls : Owner[c] = p}
Pending(p) == {w \in Mine(p) \cap Writes : answer[w] = "pending"}

Init ==
    /\ db = Empty
    /\ life = [p \in Procs |-> "off"]
    /\ worker = [p \in Procs |-> FALSE]
    /\ cache = [p \in Procs |-> Empty]
    /\ queue = [p \in Procs |-> <<>>]
    /\ phase = [c \in Calls |-> "idle"]
    /\ base = [w \in Writes |-> Empty]
    /\ answer = [w \in Writes |-> "none"]
    /\ inbox = [p \in Procs |-> <<>>]
    /\ outbox = [p \in Procs |-> <<>>]
    /\ checked = [p \in Procs |-> FALSE]
    /\ awaited = [p \in Procs |-> {}]
    /\ boots = 0
    /\ faults = 0

-----------------------------------------------------------------------------
(* The API side of a process.                                              *)

Request(from, type, snap) == [from |-> from, type |-> type, snap |-> snap]

Message ==
    [from : Calls \cup Procs, snap : Snapshot,
     type : {"initialize", "revision", "read", "apply", "close",
             "closed", "committed", "conflict", "failed"}]

\* assertInitialized and the test for a worker in request()
Reachable(p) == worker[p] /\ life[p] \in {"boot", "up", "draining"}

\* request(): the message is posted and its promise pending
Post(p, m) == inbox' = [inbox EXCEPT ![p] = Append(@, m)]

\* the next of the chain may run when its head is settled, by a failure
\* too: enqueueMutation catches it
Advance(p, settled) ==
    queue' = [queue EXCEPT ![p] = IF @ # <<>> /\ Head(@) \in settled THEN Tail(@) ELSE @]

\* the promise of a write is settled
Settle(w, a) ==
    /\ answer' = [answer EXCEPT ![w] = a]
    /\ phase' = [phase EXCEPT ![w] = "done"]
    /\ Advance(Owner[w], {w})

\* mutant: the operation does not wait for the one before it
TurnAlways(w) == TRUE

Turn(w) == queue[Owner[w]] # <<>> /\ Head(queue[Owner[w]]) = w

\* every promise of p ends with a
Abandon(p, a) ==
    /\ answer' = [w \in Writes |-> IF w \in Pending(p) THEN a ELSE answer[w]]
    /\ phase' = [c \in Calls |-> IF c \in Mine(p) /\ phase[c] # "idle" THEN "done" ELSE phase[c]]
    /\ queue' = [queue EXCEPT ![p] = <<>>]
    /\ inbox' = [inbox EXCEPT ![p] = <<>>]
    /\ outbox' = [outbox EXCEPT ![p] = <<>>]
    /\ checked' = [checked EXCEPT ![p] = FALSE]

\* ensureRuntime up to initializeStateStore
Boot(p) ==
    /\ life[p] = "off"
    /\ boots < MaxBoots
    /\ boots' = boots + 1
    /\ life' = [life EXCEPT ![p] = "init"]
    /\ worker' = [worker EXCEPT ![p] = TRUE]
    /\ Post(p, Request(p, "initialize", Empty))
    /\ UNCHANGED <<db, cache, queue, phase, base, answer, outbox, checked, awaited, faults>>

\* mutate; or ensureRuntime, whose readState (the refresh) and writeState are
\* one call, since nothing else of the process writes before it ends
Issue(w) ==
    LET p == Owner[w] IN
    /\ answer[w] = "none"
    /\ IF w \in Replaces THEN life[p] = "boot" /\ cache[p].rev > 0
                         ELSE life[p] \in {"up", "draining"}
    /\ answer' = [answer EXCEPT ![w] = "pending"]
    /\ phase' = [phase EXCEPT ![w] = "queued"]
    /\ queue' = [queue EXCEPT ![p] = Append(@, w)]
    /\ UNCHANGED <<db, life, worker, cache, base, inbox, outbox, checked, awaited, boots, faults>>

\* the operation reaches the head of the chain: refreshStateSnapshot
Refresh(w) ==
    LET p == Owner[w] IN
    /\ phase[w] = "queued"
    /\ Turn(w)
    /\ \/ /\ Reachable(p)
          /\ Post(p, Request(w, "revision", Empty))
          /\ phase' = [phase EXCEPT ![w] = "refresh"]
          /\ UNCHANGED <<answer, queue>>
       \/ /\ ~Reachable(p)
          /\ Settle(w, "refused")
          /\ UNCHANGED inbox
    /\ UNCHANGED <<db, life, worker, cache, base, outbox, checked, awaited, boots, faults>>

\* fn(draft) and buildStateChanges: it throws, changes nothing, or commits
Draft(w) ==
    LET p == Owner[w] IN
    /\ phase[w] = "draft"
    /\ \/ /\ Reachable(p)
          /\ Post(p, Request(w, "apply", base[w]))
          /\ phase' = [phase EXCEPT ![w] = "sent"]
          /\ UNCHANGED <<answer, queue>>
       \/ /\ Settle(w, "refused")
          /\ UNCHANGED inbox
       \/ /\ Settle(w, "unchanged")
          /\ UNCHANGED inbox
    /\ UNCHANGED <<db, life, worker, cache, base, outbox, checked, awaited, boots, faults>>

\* readState, beside the mutation queue
Read(r) ==
    LET p == Owner[r] IN
    /\ phase[r] = "idle"
    /\ life[p] \in {"up", "draining"}
    /\ \/ /\ Reachable(p)
          /\ Post(p, Request(r, "revision", Empty))
          /\ phase' = [phase EXCEPT ![r] = "refresh"]
       \/ /\ ~Reachable(p)
          /\ phase' = [phase EXCEPT ![r] = "done"]
          /\ UNCHANGED inbox
    /\ UNCHANGED <<db, life, worker, cache, queue, base, answer, outbox, checked, awaited, boots, faults>>

\* the continuation of a refresh: it read the snapshot s
Refreshed(c, s) ==
    /\ phase' = [phase EXCEPT ![c] = IF c \in Writes THEN "draft" ELSE "done"]
    /\ base' = IF c \in Writes THEN [base EXCEPT ![c] = s] ELSE base

\* the database is open: the snapshot cache begins
Initialized(p, m) ==
    /\ m.type = "initialize"
    /\ life' = [life EXCEPT ![p] = "boot"]
    /\ cache' = [cache EXCEPT ![p] = m.snap]
    /\ UNCHANGED <<queue, phase, base, answer, inbox>>

\* the cache serves if it is of this revision, else the state is read
Revised(p, m) ==
    /\ m.type = "revision"
    /\ \/ /\ m.snap.rev = cache[p].rev
          /\ Refreshed(m.from, cache[p])
          /\ UNCHANGED inbox
       \/ /\ m.snap.rev # cache[p].rev
          /\ Post(p, Request(m.from, "read", Empty))
          /\ UNCHANGED <<phase, base>>
    /\ UNCHANGED <<life, cache, queue, answer>>

Fetched(p, m) ==
    /\ m.type = "read"
    /\ cache' = [cache EXCEPT ![p] = m.snap]
    /\ Refreshed(m.from, m.snap)
    /\ UNCHANGED <<life, queue, answer, inbox>>

Confirmed(p, m) ==
    /\ m.type = "committed"
    /\ cache' = [cache EXCEPT ![p] = m.snap]
    /\ Settle(m.from, "ok")
    /\ UNCHANGED <<life, base, inbox>>

Refused(p, m) ==
    /\ m.type \in {"conflict", "failed"}
    /\ Settle(m.from, "refused")
    /\ UNCHANGED <<life, cache, base, inbox>>

\* a message of the worker settles the promise with its id
Receive(p) ==
    /\ outbox[p] # <<>>
    /\ outbox' = [outbox EXCEPT ![p] = Tail(@)]
    /\ LET m == Head(outbox[p])
       IN  \/ Initialized(p, m) \/ Revised(p, m) \/ Fetched(p, m)
           \/ Confirmed(p, m) \/ Refused(p, m)
    /\ UNCHANGED <<db, worker, checked, awaited, boots, faults>>

\* the end of ensureRuntime: the server listens, the probe looks around
Listen(p) ==
    /\ life[p] = "boot"
    /\ Pending(p) = {}
    /\ \A w \in Replaces \cap Mine(p) : answer[w] # "refused"
    /\ life' = [life EXCEPT ![p] = "up"]
    /\ UNCHANGED <<db, worker, cache, queue, phase, base, answer, inbox, outbox,
                   checked, awaited, boots, faults>>

\* checkpointAndCloseState waits for the mutations queued by now ...
Drain(p) ==
    /\ life[p] = "up"
    /\ life' = [life EXCEPT ![p] = "draining"]
    /\ awaited' = [awaited EXCEPT ![p] = ToSet(queue[p])]
    /\ UNCHANGED <<db, worker, cache, queue, phase, base, answer, inbox, outbox,
                   checked, boots, faults>>

\* ... and closes the store
Close(p) ==
    /\ life[p] = "draining"
    /\ awaited[p] \cap Pending(p) = {}
    /\ worker[p]
    /\ life' = [life EXCEPT ![p] = "closing"]
    /\ Post(p, Request(p, "close", Empty))
    /\ UNCHANGED <<db, worker, cache, queue, phase, base, answer, outbox,
                   checked, awaited, boots, faults>>

\* the worker is terminated, what is pending rejected, the process exits
Exit(p) ==
    /\ \/ life[p] = "closing" /\ \E i \in DOMAIN outbox[p] : outbox[p][i].type = "closed"
       \/ life[p] \in {"draining", "closing"} /\ ~worker[p] /\ awaited[p] \cap Pending(p) = {}
       \/ life[p] = "boot" /\ \E w \in Replaces \cap Mine(p) : answer[w] = "refused"
    /\ life' = [life EXCEPT ![p] = "off"]
    /\ worker' = [worker EXCEPT ![p] = FALSE]
    /\ awaited' = [awaited EXCEPT ![p] = {}]
    /\ Abandon(p, "refused")
    /\ UNCHANGED <<db, cache, base, boots, faults>>

-----------------------------------------------------------------------------
(* The worker thread.                                                      *)

\* mutant: the cache keeps the revision the request expected
DraftedUnrevised(w, s) == [rev |-> s.rev, val |-> s.val \cup {w}]

\* the state a write drafted on s, which its process caches once committed
Drafted(w, s) == [rev |-> s.rev + 1, val |-> s.val \cup {w}]

\* mutant: a replacement stores only what startup changed
CommittedAlone(w, s) ==
    [rev |-> s.rev + 1, val |-> (IF w \in Replaces THEN {} ELSE db.val) \cup {w}]

\* mutant: the revision is counted down
CommittedDown(w, s) ==
    [rev |-> s.rev - 1, val |-> (IF w \in Replaces THEN s.val ELSE db.val) \cup {w}]

\* what its transaction leaves behind: a replacement is the whole new
\* state, a change upserts the rows it touched and leaves the others
Committed(w, s) ==
    [rev |-> s.rev + 1, val |-> (IF w \in Replaces THEN s.val ELSE db.val) \cup {w}]

\* the revision the request expects is compared outside of the transaction
Expected(m) == db.rev = m.snap.rev

Reply(p, m, type, s) ==
    /\ inbox' = [inbox EXCEPT ![p] = Tail(@)]
    /\ outbox' = [outbox EXCEPT ![p] = Append(@, Request(m.from, type, s))]

\* initialize, read, revision, close
Serve(p) ==
    LET m == Head(inbox[p]) IN
    /\ worker[p] /\ inbox[p] # <<>>
    /\ m.type # "apply"
    /\ Reply(p, m, IF m.type = "close" THEN "closed" ELSE m.type, db)
    /\ UNCHANGED <<db, life, worker, cache, queue, phase, base, answer, checked,
                   awaited, boots, faults>>

Check(p) ==
    LET m == Head(inbox[p]) IN
    /\ worker[p] /\ inbox[p] # <<>>
    /\ m.type = "apply" /\ ~checked[p]
    /\ \/ /\ Expected(m)
          /\ checked' = [checked EXCEPT ![p] = TRUE]
          /\ UNCHANGED <<inbox, outbox>>
       \/ /\ ~Expected(m)
          /\ Reply(p, m, "conflict", db)
          /\ UNCHANGED checked
    /\ UNCHANGED <<db, life, worker, cache, queue, phase, base, answer, awaited, boots, faults>>

Fault == faults < MaxFaults /\ faults' = faults + 1

\* BEGIN IMMEDIATE ... COMMIT, which waits for another process's transaction.
\* A replacement is read back (verifyStoredState) after it was committed.
Commit(p) ==
    LET m == Head(inbox[p]) IN
    /\ checked[p]
    /\ checked' = [checked EXCEPT ![p] = FALSE]
    /\ db' = Committed(m.from, m.snap)
    /\ \/ /\ Reply(p, m, "committed", Drafted(m.from, m.snap))
          /\ UNCHANGED faults
       \/ /\ m.from \in Replaces
          /\ Fault
          /\ Reply(p, m, "failed", db)
    /\ UNCHANGED <<life, worker, cache, queue, phase, base, answer, awaited, boots>>

\* ROLLBACK: a full disk, or a database that stays busy
Rollback(p) ==
    /\ checked[p]
    /\ Fault
    /\ checked' = [checked EXCEPT ![p] = FALSE]
    /\ Reply(p, Head(inbox[p]), "failed", db)
    /\ UNCHANGED <<db, life, worker, cache, queue, phase, base, answer, awaited, boots>>

-----------------------------------------------------------------------------
(* Failures.                                                               *)

\* mutant: only the transactions are rejected
RejectedSent(p) == {c \in Mine(p) : phase[c] \in {"sent"}}

\* failPending: what was posted is rejected, whether committed or not
Rejected(p) == {c \in Mine(p) : phase[c] \in {"refresh", "sent"}}

\* the worker thread ends; nothing starts another
WorkerDies(p) ==
    LET sent == Rejected(p) IN
    /\ worker[p]
    /\ Fault
    /\ worker' = [worker EXCEPT ![p] = FALSE]
    /\ inbox' = [inbox EXCEPT ![p] = <<>>]
    /\ outbox' = [outbox EXCEPT ![p] = <<>>]
    /\ checked' = [checked EXCEPT ![p] = FALSE]
    /\ answer' = [w \in Writes |-> IF w \in sent THEN "refused" ELSE answer[w]]
    /\ phase' = [c \in Calls |-> IF c \in sent THEN "done" ELSE phase[c]]
    /\ Advance(p, sent)
    /\ life' = [life EXCEPT ![p] = IF @ = "init" THEN "off" ELSE @]
    /\ UNCHANGED <<db, cache, base, awaited, boots>>

\* the process is killed, or its shutdown exceeds thirty seconds
Crash(p) ==
    /\ life[p] # "off"
    /\ Fault
    /\ life' = [life EXCEPT ![p] = "off"]
    /\ worker' = [worker EXCEPT ![p] = FALSE]
    /\ awaited' = [awaited EXCEPT ![p] = {}]
    /\ Abandon(p, "lost")
    /\ UNCHANGED <<db, cache, base, boots>>

-----------------------------------------------------------------------------
ProcNext(p) ==
    \/ Boot(p) \/ Receive(p) \/ Listen(p) \/ Drain(p) \/ Close(p) \/ Exit(p)
    \/ Serve(p) \/ Check(p) \/ Commit(p) \/ Rollback(p)
    \/ WorkerDies(p) \/ Crash(p)

Next ==
    \/ \E p \in Procs : ProcNext(p)
    \/ \E w \in Writes : Issue(w) \/ Refresh(w) \/ Draft(w)
    \/ \E r \in Reads : Read(r)

Spec == Init /\ [][Next]_vars

\* what runs by itself once started: the two threads' event loops and the
\* callbacks of mutate, which end; nobody has to start, stop or crash
Fairness ==
    /\ \A p \in Procs :
           WF_vars(Receive(p) \/ Close(p) \/ Exit(p)) /\ WF_vars(Serve(p) \/ Check(p) \/ Commit(p))
    /\ \A w \in Writes : WF_vars(Refresh(w) \/ Draft(w))

FairSpec == Spec /\ Fairness

-----------------------------------------------------------------------------
TypeOK ==
    /\ db \in Snapshot
    /\ life \in [Procs -> {"off", "init", "boot", "up", "draining", "closing"}]
    /\ worker \in [Procs -> BOOLEAN]
    /\ cache \in [Procs -> Snapshot]
    /\ queue \in [Procs -> Seq(Writes)]
    /\ phase \in [Calls -> {"idle", "queued", "refresh", "draft", "sent", "done"}]
    /\ base \in [Writes -> Snapshot]
    /\ answer \in [Writes -> {"none", "pending", "ok", "unchanged", "refused", "lost"}]
    /\ inbox \in [Procs -> Seq(Message)] /\ outbox \in [Procs -> Seq(Message)]
    /\ checked \in [Procs -> BOOLEAN]
    /\ awaited \in [Procs -> SUBSET Writes]
    /\ boots \in 0..MaxBoots /\ faults \in 0..MaxFaults

Serial == INSTANCE SerialStore WITH value <- db.val

(* The store behaves like one serial value: no acknowledged write is lost  *)
(* by a crash or overwritten by a later one, and none of those refused by  *)
(* a dead worker, a conflict or a shutdown takes effect later on           *)
(* (mutate, writeState, failPending, closeStateStore).                     *)
SerialSpec == Serial!Spec

(* The snapshot that readStateSnapshot gives out without asking the        *)
(* database lags it only between a COMMIT and the delivery of its answer,  *)
(* in a process that serves and writes, and as long as its worker runs: no *)
(* failed transaction leaves the cache behind or ahead.                    *)
CacheIsHead ==
    \A p \in Procs :
        /\ \A w \in Writes : Owner[w] = p
        /\ worker[p] /\ life[p] \in {"up", "draining", "closing"}
        /\ \A i \in DOMAIN outbox[p] : outbox[p][i].type # "committed"
        => cache[p] = db

(* When one process writes, the mutation queue alone keeps writes apart:   *)
(* the worker's revision check never refuses one.                          *)
NoConflict ==
    \A p \in Procs : \A i \in DOMAIN outbox[p] : outbox[p][i].type # "conflict"

(* Every call that was made is settled in the end, by whatever the worker, *)
(* a shutdown or a crash does to it: no promise is left hanging and no     *)
(* failed mutation blocks the queue behind it.                             *)
AllAnswered == \A w \in Writes : answer[w] = "pending" ~> answer[w] # "pending"
=============================================================================
