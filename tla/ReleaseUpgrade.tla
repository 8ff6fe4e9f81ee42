--------------------------- MODULE ReleaseUpgrade ---------------------------
(***************************************************************************)
(* The cutover from V2.1 to V2.2: runV22Upgrade of docker/v22-upgrade.mjs. *)
(* The script copies the data volume of V2.1 into the target volume,       *)
(* migrates and accepts it there, and replaces the running containers.     *)
(* Each docker command may fail, the script may be killed between any two  *)
(* of them, and it is run again until it ends well.  While a release is up *)
(* it works on its volume, whatever the script is doing.                   *)
(*                                                                         *)
(* The data of V2.1 are known by the number of its commits.  Both releases *)
(* publish the same port, so that at most one of them is up.               *)
(***************************************************************************)
EXTENDS Naturals, FiniteSets

CONSTANTS
    MaxRuns,     \* bound: runs of the script
    MaxFaults,   \* bound: commands that fail
    MaxKills,    \* bound: runs that are killed
    MaxWrites    \* bound: commits of V2.1

ASSUME UpgradeAssumption ==
    /\ MaxRuns \in Nat /\ MaxFaults \in Nat
    /\ MaxKills \in Nat /\ MaxWrites \in Nat

VARIABLES
    source,      \* commits in the volume of V2.1
    target,      \* the volume of V2.2: stage, the commit it was copied at; history, read
                 \* by no step: V2.2 served from it, a run has since taken it for missing
    v21,         \* container of V2.1: up, stopped or removed
    v22,         \* container of V2.2: id, 0 when there is none, and up
    busy,        \* the releases that have an execution in progress
    pc,          \* the next step of the run
    ctx,         \* context of the run
    transcript,  \* v22-cutover-latest.json
    runs, faults, kills

vars == <<source, target, v21, v22, busy, pc, ctx, transcript, runs, faults, kills>>
volumes == <<source, target>>
containers == <<v21, v22, busy>>

Stages == {"empty", "partial", "cloned", "migrated", "accepted"}
Incomplete == {"partial", "cloned", "migrated"}
Copying == {"reset", "extract", "verify", "migrate", "accept"}
Starting == {"check", "up", "ready", "finish"}
Steps == {"idle", "wait", "stop22", "stop21", "port", "restore", "record"}
             \cup Copying \cup Starting

None == [id |-> 0, up |-> FALSE]
\* mutant: a context without a run is taken for one that resets its target
NoRunUnset == [disposition |-> "reset", accepted |-> FALSE, old21 |-> FALSE,
               old22 |-> 0, before |-> "none", refused |-> FALSE]

NoRun == [disposition |-> "none", accepted |-> FALSE, old21 |-> FALSE, old22 |-> 0,
          before |-> "none", refused |-> FALSE]
NoTranscript == [status |-> "none", disposition |-> "none", accepted |-> FALSE]
Empty == [stage |-> "empty", from |-> 0, served |-> FALSE, missed |-> FALSE]

Transcript(status, c) ==
    [status |-> status, disposition |-> c.disposition, accepted |-> c.accepted]

Serving == IF v22.up THEN "v22" ELSE IF v21 = "up" THEN "v21" ELSE "none"

Init ==
    /\ source = 0
    /\ target = Empty
    /\ v21 = "up"
    /\ v22 = None
    /\ busy \in SUBSET {"v21"}
    /\ pc = "idle"
    /\ ctx = NoRun
    /\ transcript = NoTranscript
    /\ runs = 0 /\ faults = 0 /\ kills = 0

-----------------------------------------------------------------------------
(* The releases, and the operator                                          *)

\* V2.1 starts or ends an execution, with a commit
Work21 ==
    /\ v21 = "up"
    /\ source < MaxWrites
    /\ source' = source + 1
    /\ busy' \in {busy \cup {"v21"}, busy \ {"v21"}}
    /\ UNCHANGED <<target, v21, v22, pc, ctx, transcript, runs, faults, kills>>

Work22 ==
    /\ v22.up
    /\ busy' \in {busy \cup {"v22"}, busy \ {"v22"}}
    /\ busy' # busy
    /\ UNCHANGED <<volumes, v21, v22, pc, ctx, transcript, runs, faults, kills>>

\* aiws.sh down: the volume stays
Down ==
    /\ pc = "idle"
    /\ v22.id # 0
    /\ v22' = None
    /\ UNCHANGED <<volumes, v21, busy, pc, ctx, transcript, runs, faults, kills>>

-----------------------------------------------------------------------------
(* targetDisposition                                                       *)

\* mutant: what the failed run had accepted does not matter
RecoverableServed ==
    /\ transcript.status = "failed"
    /\ transcript.disposition \in {"clone", "reclone"}

\* mutant: only a first copy can be repeated
RecoverableOnce ==
    /\ transcript.status = "failed"
    /\ transcript.disposition = "clone"
    /\ ~transcript.accepted

\* isRecoverableV22Transcript
Recoverable ==
    /\ transcript.status = "failed"
    /\ transcript.disposition \in {"clone", "reclone"}
    /\ ~transcript.accepted

\* mutant: a target that holds data is used as it is
AcceptableAny == target.stage # "empty"

\* check-v22 finds the receipt, the database and the index
Acceptable == target.stage = "accepted"

Unused == v22.id = 0

Opens(disposition) ==
    LET c == [NoRun EXCEPT !.disposition = disposition,
                           !.accepted = (disposition = "reuse"),
                           !.before = Serving]
    IN  /\ ctx' = c
        /\ transcript' = Transcript("open", c)
        /\ pc' = "wait"

\* a first copy, reuse of what was accepted, or a copy into what is removed
\* before; or a refusal, which leaves everything as it is
Start ==
    /\ pc = "idle"
    /\ runs < MaxRuns
    /\ runs' = runs + 1
    /\ \/ /\ target.stage = "empty"
          /\ Opens("clone")
          /\ UNCHANGED <<target, faults>>
       \/ /\ Acceptable
          /\ Opens("reuse")
          /\ target' = [target EXCEPT !.missed = FALSE]
          /\ UNCHANGED faults
       \/ /\ target.stage # "empty"
          \* the check says no, or cannot be run
          /\ \/ /\ ~Acceptable /\ UNCHANGED faults
             \/ /\ Acceptable /\ faults < MaxFaults /\ faults' = faults + 1
          /\ IF Recoverable /\ Unused
             THEN Opens("reclone")
             ELSE UNCHANGED <<ctx, transcript, pc>>   \* unattributed, or in use
          /\ UNCHANGED target
       \/ /\ faults < MaxFaults
          /\ faults' = faults + 1
          /\ \/ \* volumeExists: an inspect of the target that fails says that there is none
                /\ target.stage # "empty"
                /\ Opens("clone")
                /\ target' = [target EXCEPT !.missed = TRUE]
             \/ \* the same of the source, or another command of the decision fails
                UNCHANGED <<target, ctx, transcript, pc>>
    /\ UNCHANGED <<source, containers, kills>>

-----------------------------------------------------------------------------
(* Stopping what runs                                                      *)

Release == IF ctx.disposition = "reuse" THEN "v22" ELSE "v21"

\* waitForQuiescence: the volume the run is going to serve from, or copy,
\* records no execution in progress, or the wait ends
Wait ==
    /\ pc = "wait"
    /\ \/ /\ Release \notin busy
          /\ pc' = IF Release = "v22" THEN "stop22" ELSE "stop21"
          /\ UNCHANGED ctx
       \/ /\ Release \in busy
          /\ ctx' = [ctx EXCEPT !.refused = TRUE]
          /\ pc' = "restore"
    /\ UNCHANGED <<volumes, containers, transcript, runs, faults, kills>>

\* stopProjectApps: a docker ps that fails lists nothing
Stop22 ==
    /\ pc = "stop22"
    /\ pc' = "stop21"
    /\ \/ /\ v22.up
          /\ v22' = [v22 EXCEPT !.up = FALSE]
          /\ ctx' = [ctx EXCEPT !.old22 = v22.id]
          /\ UNCHANGED faults
       \/ /\ v22.up => faults < MaxFaults
          /\ faults' = IF v22.up THEN faults + 1 ELSE faults
          /\ UNCHANGED <<v22, ctx>>
    /\ UNCHANGED <<volumes, v21, busy, transcript, runs, kills>>

Stop21 ==
    /\ pc = "stop21"
    /\ pc' = "port"
    /\ \/ /\ v21 = "up"
          /\ v21' = "stopped"
          /\ ctx' = [ctx EXCEPT !.old21 = TRUE]
          /\ UNCHANGED faults
       \/ /\ v21 = "up" => faults < MaxFaults
          /\ faults' = IF v21 = "up" THEN faults + 1 ELSE faults
          /\ UNCHANGED <<v21, ctx>>
    /\ UNCHANGED <<volumes, v22, busy, transcript, runs, kills>>

\* mutant: the port is not probed
PortFreeUnprobed == TRUE

\* waitForPortDisposition
PortFree == Serving = "none"

Port ==
    /\ pc = "port"
    /\ pc' = IF ~PortFree THEN "restore"
             ELSE CASE ctx.disposition = "reuse" -> "check"
                    [] ctx.disposition = "reclone" -> "reset"
                    [] OTHER -> "extract"
    /\ UNCHANGED <<volumes, containers, ctx, transcript, runs, faults, kills>>

-----------------------------------------------------------------------------
(* Copying, migrating and accepting the target                             *)

\* resetIncompleteTarget: the volume of the failed run is removed
Reset ==
    /\ pc = "reset"
    /\ target' = Empty
    /\ pc' = "extract"
    /\ UNCHANGED <<source, containers, ctx, transcript, runs, faults, kills>>

\* initializeFromV21: createTargetVolume, and the extraction itself, refuse a
\* volume that holds data; then archive, validation and extraction
Extract ==
    /\ pc = "extract"
    /\ IF target.stage = "empty"
       THEN /\ target' = [target EXCEPT !.stage = "partial", !.from = source]
            /\ pc' = "verify"
       ELSE /\ pc' = "restore"
            /\ UNCHANGED target
    /\ UNCHANGED <<source, containers, ctx, transcript, runs, faults, kills>>

\* verifyClonedVolumeV22: the inventories of both volumes are equal
Verify ==
    /\ pc = "verify"
    /\ IF target.from = source
       THEN /\ target' = [target EXCEPT !.stage = "cloned"]
            /\ pc' = "migrate"
       ELSE /\ pc' = "restore"
            /\ UNCHANGED target
    /\ UNCHANGED <<source, containers, ctx, transcript, runs, faults, kills>>

\* migrateAndBuildContext
Migrate ==
    /\ pc = "migrate"
    /\ target' = [target EXCEPT !.stage = "migrated"]
    /\ pc' = "accept"
    /\ UNCHANGED <<source, containers, ctx, transcript, runs, faults, kills>>

\* acceptVolumeMigrationV22 writes its receipt into the target, if the
\* source is still what was copied; the run learns of it from its output
Accept ==
    /\ pc = "accept"
    /\ IF target.from = source
       THEN /\ target' = [target EXCEPT !.stage = "accepted"]
            /\ \/ /\ ctx' = [ctx EXCEPT !.accepted = TRUE]
                  /\ transcript' = Transcript("open", ctx')
                  /\ pc' = "up"
                  /\ UNCHANGED faults
               \/ /\ faults < MaxFaults
                  /\ faults' = faults + 1
                  /\ pc' = "restore"
                  /\ UNCHANGED <<ctx, transcript>>
       ELSE /\ pc' = "restore"
            /\ UNCHANGED <<target, ctx, transcript, faults>>
    /\ UNCHANGED <<source, containers, runs, kills>>

-----------------------------------------------------------------------------
(* Starting V2.2                                                           *)

CheckReused ==
    /\ pc = "check"
    /\ pc' = IF Acceptable THEN "up" ELSE "restore"
    /\ UNCHANGED <<volumes, containers, ctx, transcript, runs, faults, kills>>

\* compose up: it starts the container it finds, or makes a new one
Up ==
    /\ pc = "up"
    /\ \/ v21 # "up" /\ v22.id # 0 /\ v22' = [v22 EXCEPT !.up = TRUE]
       \/ v21 # "up" /\ v22' = [id |-> runs, up |-> TRUE]
    /\ target' = [target EXCEPT !.served = TRUE]
    /\ pc' = "ready"
    /\ UNCHANGED <<source, v21, busy, ctx, transcript, runs, faults, kills>>

\* waitForReadiness, then the receipt once more
Ready ==
    /\ pc = "ready"
    /\ pc' = IF Acceptable THEN "finish" ELSE "restore"
    /\ UNCHANGED <<volumes, containers, ctx, transcript, runs, faults, kills>>

\* the stopped containers of V2.1 are removed
Finish ==
    /\ pc = "finish"
    /\ v21' = IF ctx.old21 THEN "removed" ELSE v21
    /\ transcript' = Transcript("accepted", ctx)
    /\ ctx' = NoRun
    /\ pc' = "idle"
    /\ UNCHANGED <<volumes, v22, busy, runs, faults, kills>>

-----------------------------------------------------------------------------
(* Failures                                                                *)

\* a command of the run fails, before it did anything
Fails ==
    /\ pc \in Copying \cup Starting \cup {"wait", "stop22", "stop21"}
    /\ faults < MaxFaults
    /\ faults' = faults + 1
    /\ pc' = "restore"
    /\ UNCHANGED <<volumes, containers, ctx, transcript, runs, kills>>

\* the container of V2.2 that the run stopped is still there to be started
Restartable == ctx.old22 # 0 /\ v22.id = ctx.old22 /\ v21 # "up"

\* mutant: what compose up has started is left running
LeftOfV22Running == v22

\* compose down
LeftOfV22 == None

\* the catch block: the V2.2 that was stopped, else the V2.1 that was, if
\* nothing holds the port
Restore ==
    /\ pc = "restore"
    /\ pc' = "record"
    /\ IF Restartable
       THEN /\ v22' = [v22 EXCEPT !.up = TRUE]
            /\ UNCHANGED v21
       ELSE /\ v22' = LeftOfV22
            /\ v21' = IF ctx.old21 /\ ~LeftOfV22.up THEN "up" ELSE v21
    /\ UNCHANGED <<volumes, busy, ctx, transcript, runs, faults, kills>>

Record ==
    /\ pc = "record"
    /\ transcript' = Transcript("failed", ctx)
    /\ ctx' = NoRun
    /\ pc' = "idle"
    /\ UNCHANGED <<volumes, containers, runs, faults, kills>>

Kill ==
    /\ pc # "idle"
    /\ kills < MaxKills
    /\ kills' = kills + 1
    /\ ctx' = NoRun
    /\ pc' = "idle"
    /\ UNCHANGED <<volumes, containers, transcript, runs, faults>>

Next ==
    \/ Work21 \/ Work22 \/ Down
    \/ Start \/ Wait \/ Stop22 \/ Stop21 \/ Port
    \/ Reset \/ Extract \/ Verify \/ Migrate \/ Accept
    \/ CheckReused \/ Up \/ Ready \/ Finish
    \/ Fails \/ Restore \/ Record \/ Kill

Spec == Init /\ [][Next]_vars

-----------------------------------------------------------------------------
TypeOK ==
    /\ source \in 0..MaxWrites
    /\ target \in [stage : Stages, from : 0..MaxWrites, served : BOOLEAN,
                 missed : BOOLEAN]
    /\ v21 \in {"up", "stopped", "removed"}
    /\ v22 \in [id : 0..MaxRuns, up : BOOLEAN]
    /\ busy \subseteq {"v21", "v22"}
    /\ pc \in Steps
    /\ ctx \in [disposition : {"none", "clone", "reclone", "reuse"}, accepted : BOOLEAN,
                old21 : BOOLEAN, old22 : 0..MaxRuns,
                before : {"none", "v21", "v22"}, refused : BOOLEAN]
    /\ transcript \in [status : {"none", "open", "failed", "accepted"},
                       disposition : {"none", "clone", "reclone", "reuse"},
                       accepted : BOOLEAN]
    /\ runs \in 0..MaxRuns /\ faults \in 0..MaxFaults /\ kills \in 0..MaxKills

(* The volume of V2.1 is copied, migrated and accepted while V2.1 is down, *)
(* even when the list of its containers could not be read.                 *)
CopiedAtRest == pc \in Copying => v21 # "up"

(* V2.2 serves only from a target whose migration was accepted, however    *)
(* many runs failed or were killed on the way to it.                       *)
ServesAccepted == v22.up => target.stage = "accepted"

(* A target that V2.2 has ever served from is not removed by a later run:  *)
(* what users did in it has no other copy (isRecoverableV22Transcript).    *)
(* Only a run whose `docker volume inspect` failed, so that it took the    *)
(* target for missing, can make it removable, until a run finds it again.  *)
ServedTargetKept ==
    [][target.served /\ ~target.missed => target'.served]_vars

(* What a failed run leaves of a target can be removed by the next one: as *)
(* long as no run was killed, its transcript says so and no container is   *)
(* in the way.                                                             *)
IncompleteIsRecoverable ==
    pc = "idle" /\ kills = 0 /\ target.stage \in Incomplete => Recoverable /\ Unused

(* A run that fails on its first cutover leaves V2.1 running, if it found  *)
(* it running ("on failure stop V2.2, restore V2.1", README.md:7).         *)
V21Restored ==
    pc = "record" /\ ctx.disposition # "reuse" /\ ctx.before = "v21" => v21 = "up"

(* A run that gives up because executions are in progress leaves running   *)
(* what was running: it "refuses to switch" (README.md:144).               *)
RefusalKeepsService == pc = "record" /\ ctx.refused => Serving = ctx.before
=============================================================================
